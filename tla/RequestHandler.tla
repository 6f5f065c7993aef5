--------------------------- MODULE RequestHandler ---------------------------
(***************************************************************************)
(* The verdict of shield.RequestHandler on one admission request for one   *)
(* constraint (shield/pkg/shield/request_handler.go).                      *)
(*                                                                         *)
(* What the matchers, the mutation check and the two signature libraries   *)
(* answer about the request is a record of facts; the control flow that    *)
(* turns the facts, the loaded configuration and the constraint's action   *)
(* into a result is kept whole, in the order of the code.                  *)
(***************************************************************************)

\* mutationCheck, for an update: without its mask and the ignored fields the
\* object differs from the stored one, or not; a create is not checked.
MutationOutcomes == {"create", "changed", "unchanged", "error"}

\* VerifyResource with the options of setVerifyOption.
SignatureOutcomes == {"verified", "unverified", "outOfScope", "error"}

\* VerifyImageInManifest, if there is an image profile: an image that is in
\* scope and not verified is an error.
ImageOutcomes == {"off", "verified", "error"}

\* One outcome per predicate the handler evaluates on the request.
AllFacts ==
    [parsed         : BOOLEAN,    \* the object could be unmarshalled
     skipUser       : BOOLEAN,    \* SkipUsers of the constraint matches
     commonSkipUser : BOOLEAN,    \* SkipUsers of the request filter profile matches
     inScopeUser    : BOOLEAN,    \* InScopeUsers of the constraint matches
     inScopeObject  : BOOLEAN,    \* InScopeObjects of the constraint matches
     skipObject     : BOOLEAN,    \* SkipObjects of the request filter profile matches
     mutation       : MutationOutcomes,
     signature      : SignatureOutcomes,
     images         : ImageOutcomes]

\* The request handler configuration as LoadRequestHandlerConfig returns it:
\* "empty" is the (nil, nil) result, "error" the error result.
AllConfigs ==
    [load : {"ok", "empty", "error"}, enforce : BOOLEAN, denyEvent : BOOLEAN]

\* ParameterObject.Action of a constraint: absent, or with Enforce set or not.
Actions == {"unset", "enforce", "inform"}

-----------------------------------------------------------------------------
\* A failed read of the ConfigMap, of its key or of its YAML.
LoadError == [load |-> "error", enforce |-> FALSE, denyEvent |-> FALSE]

\* No client could be built: (nil, nil) is returned.
NilResult == [load |-> "empty", enforce |-> FALSE, denyEvent |-> FALSE]

\* A nil configuration is replaced by the zero value of the struct.
EffectiveConfig(config) ==
    IF config.load = "empty"
    THEN [load |-> "ok", enforce |-> FALSE, denyEvent |-> FALSE]
    ELSE config

\* The filters of the request filter profile exist only in a loaded config.
CommonFilter(fact, config) == config.load = "ok" /\ fact

Enforce(action, config) ==
    IF action = "unset" THEN EffectiveConfig(config).enforce
                        ELSE action = "enforce"

\* A refusal that is not enforced is turned into an allowed result.
makeResultFromRequestHandler(allow, enforce) == allow \/ ~enforce

\* Mutant: InScopeUsers does not override SkipUsers.
SkippedWhateverScope(facts, config) ==
    facts.skipUser \/ CommonFilter(facts.commonSkipUser, config)

SkippedUser(facts, config) ==
    /\ facts.skipUser \/ CommonFilter(facts.commonSkipUser, config)
    /\ ~facts.inScopeUser

\* The resource signature and the image signatures must both be acceptable;
\* an error of VerifyResource returns before the images are looked at.
SignaturesAccepted(facts) ==
    /\ facts.signature \in {"verified", "outOfScope"}
    /\ facts.images # "error"

\* The decision chain, once the mutation check has let the request through.
Verdict(facts, config) ==
    \/ SkippedUser(facts, config)
    \/ ~facts.inScopeObject
    \/ CommonFilter(facts.skipObject, config)
    \/ SignaturesAccepted(facts)

\* Result and whether createOrUpdateEvent is called with it: the early returns
\* (undecodable object, configuration error, mutation check) never report.
Handle(facts, action, config) ==
    LET enforce == Enforce(action, config)
        Early(allow, enf) ==
            [allow |-> makeResultFromRequestHandler(allow, enf), report |-> FALSE]
    IN  IF ~facts.parsed \/ config.load = "error" THEN Early(FALSE, FALSE)
        ELSE IF facts.mutation = "error"          THEN Early(FALSE, enforce)
        ELSE IF facts.mutation = "unchanged"      THEN Early(TRUE, enforce)
        ELSE LET allow ==
                   makeResultFromRequestHandler(Verdict(facts, config), enforce)
             IN  [allow  |-> allow,
                  report |-> EffectiveConfig(config).denyEvent /\ ~allow]
=============================================================================
