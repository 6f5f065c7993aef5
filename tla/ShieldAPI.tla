------------------------------ MODULE ShieldAPI -----------------------------
(***************************************************************************)
(* The second way into RequestHandler: with Gatekeeper, the constraint     *)
(* template's Rego (integrity-shield-operator/config/samples) posts the    *)
(* reviewed request to the shield API server (shield/main.go) and turns    *)
(* its answer into a violation.  The server can restart and answers can    *)
(* be lost while a call is under way, and other clients send what they     *)
(* like; the request handler configuration changes at any time.            *)
(***************************************************************************)
EXTENDS RequestHandler, Naturals

CONSTANTS
    Reviews,    \* what Gatekeeper reviews: [kindSkipped, excluded, operation, facts, action]
    Configs,    \* request handler configurations
    Modes       \* enforce_mode of the template

\* A key of the posted object: absent, null, something that is not an object, or
\* an object, whose decoding errors are ignored.
Values  == {"absent", "null", "notObject", "object"}
Bodies  == [json : BOOLEAN, request : Values, parameters : Values]
Posts   == [post : BOOLEAN, jsonType : BOOLEAN, body : Bodies]
Reviewed == [post |-> TRUE, jsonType |-> TRUE,
             body |-> [json |-> TRUE, request |-> "object", parameters |-> "object"]]

NoAnswer == [status |-> 0, allow |-> FALSE]

\* Mutant: one status for every error.
Unavailable(s) == [status |-> 503, allow |-> FALSE]

Status(s) == [status |-> s, allow |-> FALSE]

VARIABLES
    mode, config,
    server,     \* "starting", "up"
    review,     \* the request under review
    post,       \* what the server received
    stage,      \* of the call
    answer,     \* the HTTP response
    decision,   \* of Gatekeeper: whether the template reports a violation
    seen, lost  \* history: configurations in force during the call; it failed

vars == <<mode, config, server, review, post, stage, answer, decision, seen, lost>>

TypeOK ==
    /\ mode \in Modes /\ config \in Configs /\ server \in {"starting", "up"}
    /\ review \in Reviews /\ post \in Posts
    /\ stage \in {"idle", "review", "sent", "decoded", "answered"}
    /\ answer.status \in {0, 200, 400, 500}
    /\ decision \in {"none", "admit", "deny"}
    /\ stage = "answered" => answer # NoAnswer \/ lost
    /\ seen \subseteq Configs /\ lost \in BOOLEAN

Init ==
    /\ mode \in Modes /\ config \in Configs
    /\ server = "starting"
    /\ review \in Reviews
    /\ post = Reviewed /\ stage = "idle" /\ answer = NoAnswer /\ decision = "none"
    /\ seen = {} /\ lost = FALSE

-----------------------------------------------------------------------------
(* The server *)

\* main loads the certificate, or panics and the pod is started again.
StartServer ==
    /\ server = "starting"
    /\ server' \in {"starting", "up"}
    /\ UNCHANGED <<mode, config, review, post, stage, answer, decision, seen, lost>>

\* The pod is replaced; a call that is under way fails.
StopServer ==
    /\ server = "up"
    /\ server' = "starting"
    /\ IF stage \in {"sent", "decoded"}
       THEN stage' = "answered" /\ lost' = TRUE ELSE UNCHANGED <<stage, lost>>
    /\ UNCHANGED <<mode, config, review, post, answer, decision, seen>>

Reply(response) ==
    /\ answer' = response
    /\ stage' = "answered"

\* The type assertion on a value that is not an object panics: net/http closes
\* the connection and goes on.
Panic ==
    /\ answer' = NoAnswer
    /\ stage' = "answered"
    /\ lost' = TRUE

\* An absent key and null are refused alike, one after the other.
Decode ==
    LET body == post.body
        bad  == {"absent", "null"}
    IN  \/ ~body.json /\ Reply(Status(500)) /\ UNCHANGED lost
        \/ body.json /\ body.request \in bad /\ Reply(Status(500)) /\ UNCHANGED lost
        \/ body.json /\ body.request = "notObject" /\ Panic
        \/ /\ body.json /\ body.request = "object"
           /\ \/ body.parameters \in bad /\ Reply(Status(500)) /\ UNCHANGED lost
              \/ body.parameters = "notObject" /\ Panic
              \/ body.parameters = "object" /\ stage' = "decoded" /\ UNCHANGED <<answer, lost>>

requestHandler ==
    /\ server = "up" /\ stage = "sent"
    /\ \/ ~(post.post /\ post.jsonType) /\ Reply(Status(400)) /\ UNCHANGED lost
       \/ post.post /\ post.jsonType /\ Decode
    /\ UNCHANGED <<mode, config, server, review, post, decision, seen>>

\* Mutant: a refusal is answered with an error status.
RefusalAsError ==
    /\ server = "up" /\ stage = "decoded"
    /\ Reply(IF Handle(review.facts, review.action, config).allow
             THEN [status |-> 200, allow |-> TRUE] ELSE Status(500))
    /\ UNCHANGED <<mode, config, server, review, post, decision, seen, lost>>

\* RequestHandler loads the configuration of that moment.
CallRequestHandler ==
    /\ server = "up" /\ stage = "decoded"
    /\ Reply([status |-> 200, allow |-> Handle(review.facts, review.action, config).allow])
    /\ UNCHANGED <<mode, config, server, review, post, decision, seen, lost>>

-----------------------------------------------------------------------------
(* Gatekeeper and other clients *)

Begin(what, next) ==
    /\ stage = "idle"
    /\ post' = what
    /\ stage' = next
    /\ answer' = NoAnswer /\ decision' = "none" /\ seen' = {config} /\ lost' = FALSE
    /\ UNCHANGED <<mode, config, server>>

Review == review' \in Reviews /\ Begin(Reviewed, "review")

OtherClient ==
    /\ server = "up"
    /\ \E what \in Posts \ {Reviewed} : Begin(what, "sent")
    /\ UNCHANGED review

\* Mutant: no condition on the operation.
EveryOperation == ~review.kindSkipped /\ ~review.excluded

\* The conditions of the rule that come before the call.
Concerned ==
    /\ ~review.kindSkipped /\ ~review.excluded
    /\ review.operation \in {"CREATE", "UPDATE"}

\* The rule fails before it posts, or http.send fails, or it is sent.
http_post ==
    /\ stage = "review"
    /\ \/ ~Concerned /\ decision' = "admit" /\ stage' = "idle" /\ UNCHANGED lost
       \/ Concerned /\ server = "up" /\ stage' = "sent" /\ UNCHANGED <<decision, lost>>
       \/ Concerned /\ lost' = TRUE /\ stage' = "answered" /\ UNCHANGED decision
    /\ UNCHANGED <<mode, config, server, review, post, answer, seen>>

\* http.send gives up; the server answers nobody.
Timeout ==
    /\ stage \in {"sent", "decoded"}
    /\ stage' = "answered" /\ lost' = TRUE /\ answer' = NoAnswer
    /\ UNCHANGED <<mode, config, server, review, post, decision, seen>>

\* The conditions of the rule that come after it.
violation == answer.status = 200 /\ ~answer.allow /\ mode # "detect"

Decide ==
    /\ stage = "answered"
    /\ decision' = IF post # Reviewed THEN "none" ELSE IF violation THEN "deny" ELSE "admit"
    /\ stage' = "idle"
    /\ UNCHANGED <<mode, config, server, review, post, answer, seen, lost>>

EditConfig ==
    /\ config' \in Configs \ {config}
    /\ seen' = IF stage = "idle" THEN seen ELSE seen \union {config'}
    /\ UNCHANGED <<mode, server, review, post, stage, answer, decision, lost>>

Next ==
    \/ StartServer \/ StopServer \/ requestHandler \/ CallRequestHandler
    \/ Review \/ OtherClient \/ http_post \/ Timeout \/ Decide \/ EditConfig

Spec == Init /\ [][Next]_vars

-----------------------------------------------------------------------------
(* Properties *)

Refusals == {c \in seen : ~Handle(review.facts, review.action, c).allow}

\* A denial by the template has the same grounds as one by the webhook: the
\* review concerned a create or an update outside the skipped kinds and
\* namespaces, the mode is not detect, and RequestHandler refuses the request
\* with a configuration that was in force during the call.
DenialHasGrounds ==
    decision = "deny" =>
        /\ ~review.kindSkipped /\ ~review.excluded
        /\ review.operation \in {"CREATE", "UPDATE"}
        /\ mode # "detect" /\ Refusals # {}

\* What RequestHandler refuses throughout is denied, unless the call itself
\* failed or the mode is detect: no path of the server or of the template turns
\* a refusal into an admission.
RefusalIsKept ==
    /\ decision = "admit" /\ ~lost /\ mode # "detect"
    /\ ~review.kindSkipped /\ ~review.excluded /\ review.operation \in {"CREATE", "UPDATE"}
    => Refusals # seen
=============================================================================
