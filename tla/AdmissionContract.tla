------------------------- MODULE AdmissionContract --------------------------
(***************************************************************************)
(* Admission implements Enforcement: the status of a MIP is the stored     *)
(* object without its version and spec, and what is noted in it is what    *)
(* the accepted writes since its creation recorded.                        *)
(***************************************************************************)
EXTENDS Admission

StatusOf(m) == [live |-> m.live, denyCount |-> m.denyCount, violations |-> m.violations]

NotedIn(log) == {log[i] : i \in DOMAIN log}

Contract ==
    INSTANCE Enforcement WITH
        status <- [c \in Constraints |-> StatusOf(mip[c])],
        noted  <- [c \in Constraints |-> NotedIn(recorded[c])]

\* However the handlers, the admin and the API server interleave, every step of
\* the admission controller is a step of the contract or changes nothing it
\* speaks of: ProcessRequest refuses, notes each refusal at most once in one
\* atomic write although updateConstraintStatus reads and writes separately,
\* and answers last.
ImplementsContract == Contract!Spec
=============================================================================
