---------------------------- MODULE Enforcement -----------------------------
(***************************************************************************)
(* What the admission controller promises about the requests it reviews    *)
(* and the status of the ManifestIntegrityProfiles (MIPs), without         *)
(* handlers, copies and resourceVersions: a constraint refuses a request,  *)
(* the refusal is noted in the status of its MIP at most once and in one   *)
(* step, and the request is answered once, after its bookkeeping.          *)
(*                                                                         *)
(* UpdateStatus of the MIP API is the only code here; the module is        *)
(* implemented by Admission (see AdmissionContract).                       *)
(***************************************************************************)
EXTENDS Naturals, Sequences

CONSTANTS Constraints, Requests, MaxHistory

VARIABLES
    status,     \* of every MIP: [live, denyCount, violations]
    refused,    \* requests refused on behalf of a constraint
    noted,      \* requests noted in the status of the MIP there is now
    answer      \* what the API server got

vars == <<status, refused, noted, answer>>

Fresh(live) == [live |-> live, denyCount |-> 0, violations |-> <<>>]

Init ==
    /\ status \in [Constraints -> {Fresh(TRUE), Fresh(FALSE)}]
    /\ refused = [c \in Constraints |-> {}]
    /\ noted = [c \in Constraints |-> {}]
    /\ answer = [r \in Requests |-> "none"]

\* The request is still being reviewed, whether or not somebody waits for it.
Open(r) == answer[r] \in {"none", "timeout"}

Refuse(c, r) ==
    /\ Open(r)
    /\ refused' = [refused EXCEPT ![c] = @ \union {r}]
    /\ UNCHANGED <<status, noted, answer>>

Latest(s) == SubSeq(s, 1, IF Len(s) > MaxHistory THEN MaxHistory ELSE Len(s))

UpdateStatus(s, r) ==
    [live |-> s.live, denyCount |-> s.denyCount + 1, violations |-> Latest(<<r>> \o s.violations)]

Note(c, r) ==
    /\ Open(r)
    /\ status[c].live /\ r \in refused[c] \ noted[c]
    /\ status' = [status EXCEPT ![c] = UpdateStatus(@, r)]
    /\ noted' = [noted EXCEPT ![c] = @ \union {r}]
    /\ UNCHANGED <<refused, answer>>

\* A denial has a constraint behind it; a timeout can be the answer.
Answer(r, a) ==
    /\ answer[r] = "none"
    /\ a = "deny" => \E c \in Constraints : r \in refused[c]
    /\ answer' = [answer EXCEPT ![r] = a]
    /\ UNCHANGED <<status, refused, noted>>

\* The MIP is created or deleted.
Replace(c) ==
    /\ status' = [status EXCEPT ![c] = Fresh(~@.live)]
    /\ noted' = [noted EXCEPT ![c] = {}]
    /\ UNCHANGED <<refused, answer>>

Next ==
    \/ \E c \in Constraints, r \in Requests : Refuse(c, r) \/ Note(c, r)
    \/ \E r \in Requests, a \in {"allow", "deny", "abort", "timeout"} : Answer(r, a)
    \/ \E c \in Constraints : Replace(c)

Spec == Init /\ [][Next]_vars
=============================================================================
