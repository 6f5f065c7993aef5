---------------------------- MODULE MCAdmission -----------------------------
(***************************************************************************)
(* Instances of Admission for TLC.                                         *)
(***************************************************************************)
EXTENDS Admission, TLC

CONSTANTS o1

\* All requests about one object, so that handlers meet on its Event.
OneObject == [r \in Requests |-> o1]

\* An in-scope request of an ordinary user.
Plain ==
    [parsed |-> TRUE, skipUser |-> FALSE, commonSkipUser |-> FALSE,
     inScopeUser |-> FALSE, inScopeObject |-> TRUE, skipObject |-> FALSE,
     mutation |-> "create", signature |-> "verified", images |-> "off"]

Unsigned == [Plain EXCEPT !.signature = "unverified"]

\* Refused requests only: the densest traffic on the stored objects.
UnsignedOnly == {Unsigned}

\* One variation at a time around the request that must be refused, and the
\* user rule that overrides another one.
Varied ==
    {Plain, Unsigned,
     [Unsigned EXCEPT !.parsed = FALSE],
     [Unsigned EXCEPT !.skipUser = TRUE],
     [Unsigned EXCEPT !.skipUser = TRUE, !.inScopeUser = TRUE],
     [Unsigned EXCEPT !.commonSkipUser = TRUE],
     [Unsigned EXCEPT !.inScopeObject = FALSE],
     [Unsigned EXCEPT !.skipObject = TRUE],
     [Unsigned EXCEPT !.mutation = "changed"],
     [Unsigned EXCEPT !.mutation = "unchanged"],
     [Unsigned EXCEPT !.mutation = "error"],
     [Plain EXCEPT !.signature = "outOfScope"],
     [Plain EXCEPT !.signature = "error"],
     [Plain EXCEPT !.images = "error"],
     [Unsigned EXCEPT !.images = "verified"]}

Reporting == {[load |-> "ok", enforce |-> TRUE, denyEvent |-> TRUE]}

Recording == {[load |-> "ok", detect |-> FALSE, updateStatus |-> TRUE]}

\* Both modes and a nil configuration; the side effects have their own instance.
EveryMode ==
    {[load |-> "ok", detect |-> d, updateStatus |-> FALSE] : d \in BOOLEAN}
    \union {[load |-> "empty", detect |-> FALSE, updateStatus |-> FALSE]}

\* Enforcing by default or not, and a nil configuration.
EveryDefault ==
    {[load |-> "ok", enforce |-> e, denyEvent |-> FALSE] : e \in BOOLEAN}
    \union {[load |-> "empty", enforce |-> FALSE, denyEvent |-> FALSE]}

\* Handlers, requests and MIPs are only told apart by what was done to them.
InterchangeableMIPs == Permutations(Constraints)
Interchangeable == Permutations(Handlers) \union Permutations(Requests)
=============================================================================
