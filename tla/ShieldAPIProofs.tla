-------------------------- MODULE ShieldAPIProofs ---------------------------
(***************************************************************************)
(* Proofs about ShieldAPI: a denial of the template has grounds, and a     *)
(* refusal of RequestHandler reaches Gatekeeper unless the call is lost,   *)
(* for all reviews, configurations and modes.                              *)
(***************************************************************************)
EXTENDS ShieldAPI, TLAPS

Refuse(c) == ~Handle(review.facts, review.action, c).allow

\* The call between its beginning and its decision: the configuration of every
\* moment is remembered, only what the rule concerns is sent for Gatekeeper, and
\* an answer with status 200 is that of RequestHandler with a remembered
\* configuration.  Gatekeeper's own post is answered so unless the call is lost.
CallInv ==
    /\ stage # "idle" => config \in seen /\ decision = "none"
    /\ stage \in {"review", "sent", "decoded"} => answer = NoAnswer
    /\ stage = "review" => post = Reviewed
    /\ (stage \in {"sent", "decoded", "answered"} /\ post = Reviewed) => Concerned
    /\ (stage = "answered" /\ answer.status = 200) =>
         \E c \in seen : answer.allow <=> ~Refuse(c)
    /\ (stage = "answered" /\ post = Reviewed /\ ~lost) => answer.status = 200

Inv == TypeOK /\ CallInv /\ DenialHasGrounds /\ RefusalIsKept

\* What Gatekeeper sends is well formed.
LEMMA ReviewedIsPosted ==
    /\ Reviewed \in Posts /\ Reviewed.post /\ Reviewed.jsonType /\ Reviewed.body.json
    /\ Reviewed.body.request = "object" /\ Reviewed.body.parameters = "object"
BY DEF Reviewed, Posts, Bodies, Values

\* No call is under way at the start.
LEMMA InvInit ==
    ASSUME Init
    PROVE  Inv
<1>1. TypeOK
  BY ZenonT(60), ReviewedIsPosted DEF Init, TypeOK, NoAnswer
<1> QED
  BY <1>1 DEF Init, Inv, CallInv, DenialHasGrounds, RefusalIsKept

\* An error status is an answer.
LEMMA StatusIs ==
    ASSUME NEW s \in {400, 500}
    PROVE  Status(s).status = s /\ Status(s) # NoAnswer
BY DEF Status, NoAnswer

\* A call that is under way has no decision yet.
LEMMA Undecided ==
    ASSUME decision' = "none"
    PROVE  DenialHasGrounds' /\ RefusalIsKept'
BY DEF DenialHasGrounds, RefusalIsKept

\* The steps of the shield's server, and the timeout of a call.
LEMMA ServerStep ==
    ASSUME Inv, StartServer \/ StopServer \/ requestHandler \/ CallRequestHandler \/ Timeout
    PROVE  Inv'
<1>i. TypeOK /\ CallInv /\ DenialHasGrounds /\ RefusalIsKept
  BY DEF Inv
<1>n. NoAnswer.status = 0
  BY DEF NoAnswer
<1>1. CASE StartServer
  BY <1>1, <1>i DEF StartServer, Inv, TypeOK, CallInv, Concerned, Refuse, DenialHasGrounds,
     RefusalIsKept, Refusals
<1>2. CASE StopServer /\ stage \notin {"sent", "decoded"}
  BY <1>2, <1>i DEF StopServer, Inv, TypeOK, CallInv, Concerned, Refuse, DenialHasGrounds,
     RefusalIsKept, Refusals
<1>3. ASSUME stage \in {"sent", "decoded"}, stage' = "answered", lost' = TRUE,
             answer' = NoAnswer, server' \in {"starting", "up"},
             UNCHANGED <<mode, config, review, post, decision, seen>>
      PROVE  Inv'
  <2>1. TypeOK'
    BY <1>3, <1>i, <1>n DEF TypeOK
  <2>2. CallInv'
    BY <1>3, <1>i, <1>n DEF CallInv, Concerned
  <2>3. DenialHasGrounds' /\ RefusalIsKept'
    BY <1>3, <1>i, Undecided DEF CallInv
  <2> QED
    BY <2>1, <2>2, <2>3 DEF Inv
<1>4. CASE StopServer /\ stage \in {"sent", "decoded"}
  BY <1>3, <1>4, <1>i DEF StopServer, CallInv
<1>5. CASE Timeout
  BY <1>3, <1>5, <1>i DEF Timeout, TypeOK
<1>6. CASE requestHandler
  <2>1. /\ stage = "sent" /\ decision = "none" /\ decision' = "none" /\ answer = NoAnswer
        /\ UNCHANGED <<mode, config, server, review, post, seen>>
    BY <1>6, <1>i DEF requestHandler, CallInv
  <2>2. DenialHasGrounds' /\ RefusalIsKept'
    BY <2>1, Undecided
  <2>3. ASSUME NEW s \in {400, 500}, Reply(Status(s)), UNCHANGED lost, post # Reviewed
        PROVE  Inv'
    <3>1. /\ answer' = Status(s) /\ stage' = "answered" /\ Status(s).status = s
          /\ Status(s) # NoAnswer /\ s # 200
      BY <2>3, StatusIs DEF Reply
    <3>2. TypeOK'
      BY <1>i, <2>1, <2>3, <3>1 DEF TypeOK
    <3>3. CallInv'
      BY <1>i, <2>1, <2>3, <3>1 DEF CallInv, Concerned
    <3> QED
      BY <2>2, <3>2, <3>3 DEF Inv
  <2>4. CASE Panic
    BY <1>3, <1>i, <2>1, <2>4 DEF Panic, TypeOK
  <2>5. CASE stage' = "decoded" /\ UNCHANGED <<answer, lost>>
    <3>1. TypeOK'
      BY <1>i, <2>1, <2>5 DEF TypeOK
    <3>2. CallInv'
      BY <1>i, <2>1, <2>5 DEF CallInv, Concerned
    <3> QED
      BY <2>2, <3>1, <3>2 DEF Inv
  <2>6. \/ /\ \E s \in {400, 500} : Reply(Status(s))
           /\ UNCHANGED lost /\ post # Reviewed
        \/ Panic
        \/ stage' = "decoded" /\ UNCHANGED <<answer, lost>>
    BY <1>6, ReviewedIsPosted DEF requestHandler, Decode
  <2> QED
    BY <2>3, <2>4, <2>5, <2>6
<1>7. CASE CallRequestHandler
  <2> DEFINE result == [status |-> 200, allow |-> Handle(review.facts, review.action, config).allow]
  <2>1. /\ stage = "decoded" /\ decision' = "none" /\ config \in seen
        /\ UNCHANGED <<mode, config, server, review, post, decision, seen, lost>>
        /\ answer' = result /\ stage' = "answered"
    BY <1>7, <1>i DEF CallRequestHandler, CallInv, Reply
  <2>2. result.status = 200 /\ (result.allow <=> ~Refuse(config)) /\ result # NoAnswer
    BY DEF NoAnswer, Refuse
  <2> HIDE DEF result
  <2>3. TypeOK'
    BY <1>i, <2>1, <2>2 DEF TypeOK
  <2>4. CallInv'
    BY <1>i, <2>1, <2>2 DEF CallInv, Concerned, Refuse
  <2> QED
    BY <2>1, <2>3, <2>4, Undecided DEF Inv
<1> QED
  BY <1>1, <1>2, <1>4, <1>5, <1>6, <1>7

\* The steps of its clients, and an edit of the configuration.
LEMMA ClientStep ==
    ASSUME Inv, Review \/ OtherClient \/ http_post \/ EditConfig
    PROVE  Inv'
<1>i. TypeOK /\ CallInv /\ DenialHasGrounds /\ RefusalIsKept
  BY DEF Inv
<1>1. ASSUME NEW what \in Posts, NEW next \in {"review", "sent"}, Begin(what, next),
             review' \in Reviews, next = "review" <=> what = Reviewed
      PROVE  Inv'
  <2>1. TypeOK'
    BY ZenonT(60), <1>1, <1>i DEF Begin, TypeOK, NoAnswer
  <2>2. CallInv'
    BY <1>1, <1>i DEF Begin, CallInv
  <2>3. DenialHasGrounds' /\ RefusalIsKept'
    BY <1>1, Undecided DEF Begin
  <2> QED
    BY <2>1, <2>2, <2>3 DEF Inv
<1>2. CASE Review
  BY <1>1, <1>2, ReviewedIsPosted DEF Review
<1>3. CASE OtherClient
  <2>1. review' \in Reviews
    BY <1>3, <1>i DEF OtherClient, TypeOK
  <2> QED
    BY <1>1, <1>3, <2>1 DEF OtherClient
<1>4. CASE http_post
  <2>1. /\ stage = "review" /\ post = Reviewed /\ decision = "none" /\ answer = NoAnswer
        /\ UNCHANGED <<mode, config, server, review, post, answer, seen>>
    BY <1>4, <1>i DEF http_post, CallInv
  <2>2. CASE ~Concerned /\ decision' = "admit" /\ stage' = "idle" /\ UNCHANGED lost
    BY <1>i, <2>1, <2>2 DEF Inv, TypeOK, CallInv, DenialHasGrounds, RefusalIsKept, Concerned
  <2>3. CASE Concerned /\ stage' \in {"sent", "answered"} /\ UNCHANGED decision
             /\ (stage' = "sent" => UNCHANGED lost) /\ (stage' = "answered" => lost' = TRUE)
    <3>1. TypeOK'
      BY ZenonT(60), <1>i, <2>1, <2>3 DEF TypeOK
    <3>2. CallInv'
      BY <1>i, <2>1, <2>3 DEF CallInv, Concerned, NoAnswer
    <3>3. DenialHasGrounds' /\ RefusalIsKept'
      BY <2>1, <2>3, Undecided
    <3> QED
      BY <3>1, <3>2, <3>3 DEF Inv
  <2> QED
    BY ZenonT(60), <1>4, <2>2, <2>3 DEF http_post
<1>5. CASE EditConfig
  <2>1. /\ config' \in Configs /\ seen \subseteq seen' /\ seen' \subseteq seen \union {config'}
        /\ stage = "idle" => seen' = seen
        /\ stage # "idle" => config' \in seen'
        /\ UNCHANGED <<mode, server, review, post, stage, answer, decision, lost>>
    BY <1>5 DEF EditConfig
  <2>2. TypeOK'
    BY <1>i, <2>1 DEF TypeOK
  <2>3. CallInv'
    BY <1>i, <2>1 DEF CallInv, Concerned, Refuse
  <2>4. DenialHasGrounds' /\ RefusalIsKept'
    <3>1. CASE stage = "idle"
      BY <1>i, <2>1, <3>1 DEF DenialHasGrounds, RefusalIsKept, Refusals
    <3>2. CASE stage # "idle"
      BY <1>i, <2>1, <3>2, Undecided DEF CallInv
    <3> QED
      BY <3>1, <3>2
  <2> QED
    BY <2>2, <2>3, <2>4 DEF Inv
<1> QED
  BY <1>2, <1>3, <1>4, <1>5

\* The decision of the template's rule.
LEMMA DecideStep ==
    ASSUME Inv, Decide
    PROVE  Inv'
<1>i. TypeOK /\ CallInv
  BY DEF Inv
<1>1. /\ stage = "answered" /\ stage' = "idle"
      /\ UNCHANGED <<mode, config, server, review, post, answer, seen, lost>>
      /\ decision' = IF post # Reviewed THEN "none"
                     ELSE IF violation THEN "deny" ELSE "admit"
  BY DEF Decide
<1>2. TypeOK' /\ CallInv'
  BY <1>1, <1>i DEF TypeOK, CallInv
<1>3. Refusals' = Refusals /\ Refusals = {c \in seen : Refuse(c)}
  BY <1>1 DEF Refusals, Refuse
<1>4. DenialHasGrounds'
  <2> SUFFICES ASSUME decision' = "deny"
               PROVE  /\ Concerned /\ mode # "detect" /\ Refusals # {}
    BY <1>1, <1>3 DEF DenialHasGrounds, Concerned
  <2>1. post = Reviewed /\ violation
    BY <1>1
  <2>2. PICK c \in seen : answer.allow <=> ~Refuse(c)
    BY <1>1, <1>i, <2>1 DEF CallInv, violation
  <2> QED
    BY <1>1, <1>3, <1>i, <2>1, <2>2 DEF CallInv, violation
<1>5. RefusalIsKept'
  <2> SUFFICES ASSUME decision' = "admit", ~lost, mode # "detect"
               PROVE  Refusals # seen
    BY <1>1, <1>3 DEF RefusalIsKept
  <2>1. post = Reviewed /\ ~violation
    BY <1>1
  <2>2. answer.status = 200
    BY <1>1, <1>i, <2>1 DEF CallInv
  <2>3. PICK c \in seen : answer.allow <=> ~Refuse(c)
    BY <1>1, <1>i, <2>2 DEF CallInv
  <2> QED
    BY <1>3, <2>1, <2>2, <2>3 DEF violation
<1> QED
  BY <1>2, <1>4, <1>5 DEF Inv

\* The invariant holds in every behaviour.
LEMMA InvHolds == Spec => []Inv
<1>1. Init => Inv
  BY InvInit
<1>2. Inv /\ [Next]_vars => Inv'
  <2> SUFFICES ASSUME Inv, [Next]_vars
               PROVE  Inv'
    OBVIOUS
  <2>1. CASE UNCHANGED vars
    BY <2>1 DEF vars, Inv, TypeOK, CallInv, Concerned, Refuse, DenialHasGrounds,
       RefusalIsKept, Refusals
  <2> QED
    BY <2>1, ServerStep, ClientStep, DecideStep DEF Next
<1> QED
  BY <1>1, <1>2, PTL DEF Spec

\* Every variable keeps its type, and an answered call has an answer or is lost.
THEOREM ShieldAPITypeCorrect == Spec => []TypeOK
BY InvHolds, PTL DEF Inv

\* What the template denies, the rule concerns, and RequestHandler refuses with a
\* configuration that was in force during the call.
THEOREM DenialsGrounded == Spec => []DenialHasGrounds
BY InvHolds, PTL DEF Inv

\* What RequestHandler refuses with every configuration of the call is not
\* admitted, unless the call is lost or the mode is detect.
THEOREM RefusalsKept == Spec => []RefusalIsKept
BY InvHolds, PTL DEF Inv
=============================================================================
