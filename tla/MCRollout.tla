----------------------------- MODULE MCRollout ------------------------------
(***************************************************************************)
(* Instances of Rollout for TLC.                                           *)
(***************************************************************************)
EXTENDS Rollout, TLC

Default    == [f \in SpecFields |-> f]
OtherValue == [f \in SpecFields |-> f \o "2"]

\* Gatekeeper with the observer; the admission controller alone.
With(gk, obs) == ("gk" :> gk) @@ ("obs" :> obs) @@ ("ver" :> 1) @@ Default
EveryMode == {With(TRUE, TRUE), With(FALSE, FALSE)}

\* The edits of names the operator follows, or that leave the old child in use.
Renamable ==
    {"RequestHandlerConfigName", "AdmissionControllerConfigName", "APIRole",
     "APIRoleBinding", "ObserverRole", "ObserverRoleBinding", "APITlsSecretName",
     "ApiServiceName", "WebhookConfigName", "ControllerName"}

\* The hypotheses of the theorems about the rollout hold here.
ASSUME NamesApart == ConfigsApart /\ ServerApart /\ BindingsApart
=============================================================================
