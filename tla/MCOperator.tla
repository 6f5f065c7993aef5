----------------------------- MODULE MCOperator -----------------------------
(***************************************************************************)
(* Instances of Operator for TLC.                                          *)
(***************************************************************************)
EXTENDS Operator

\* Both modes, with and without the observer.
EveryMode == [gk : BOOLEAN, obs : BOOLEAN, ver : {1}]

\* The two modes, and a new image for the admission controller.
Switches ==
    {[gk |-> FALSE, obs |-> FALSE, ver |-> 1], [gk |-> FALSE, obs |-> FALSE, ver |-> 2],
     [gk |-> TRUE, obs |-> FALSE, ver |-> 1]}

\* The admission controller, and a new image for it.
Upgrade == [gk : {FALSE}, obs : {FALSE}, ver : 1..2]

GatekeeperOnly == [gk : {TRUE}, obs : {FALSE}, ver : {1}]

\* The two images are alike: it is enough to begin with the first.  Gatekeeper
\* is there.
InitFirstImage == Init /\ cr.spec.ver = 1 /\ gatekeeper = TRUE

FromFirstImage == InitFirstImage /\ [][Next]_vars /\ Fairness
=============================================================================
