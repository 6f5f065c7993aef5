------------------------------ MODULE Rollout -------------------------------
(***************************************************************************)
(* The operator applying an IntegrityShield that an admin edits: Reconcile *)
(* over the manifests of the module Manifests, with their names and        *)
(* contents.  Children are found by name.  ConfigMaps, ServiceAccounts,    *)
(* RBAC, Secrets, Services and the webhook are created and never changed;  *)
(* Deployments are updated when EqualDeployments says that they differ.    *)
(*                                                                         *)
(* The module Operator has the caches, the failing calls and the removal;  *)
(* here a pass may end after any child, as it does when a call fails.      *)
(***************************************************************************)
EXTENDS Manifests, Naturals

CONSTANTS
    Specs,          \* the specs an admin creates the CR with
    Editable,       \* the fields of the spec an admin edits, besides the image tags
    Edited,         \* the other value each field can have
    MaxEdits        \* bound: edits, and outages of the admission controller

ASSUME RolloutAssumption ==
    /\ \A s \in Specs :
         /\ s = [f \in SpecFields \union {"gk", "obs", "ver"} |-> s[f]]
         /\ s.gk \in BOOLEAN /\ s.obs \in BOOLEAN /\ s.ver \in Nat
    /\ Editable \subseteq SpecFields
    /\ DOMAIN Edited = SpecFields
    /\ MaxEdits \in Nat

VARIABLES
    cr,         \* spec of the stored IntegrityShield
    inst,       \* the spec the running pass works on
    plan,       \* the children it has still to look at; <<>>: no pass runs
    store,      \* the stored children
    available,  \* names of the admission controller's Deployments with ready pods
    certs,      \* certificates generated and stored so far
    edits       \* edits and outages so far

vars == <<cr, inst, plan, store, available, certs, edits>>

Id(o)          == <<o.kind, o.name>>
Found(o)       == {x \in store : Id(x) = Id(o)}
Named(kind, n) == {x \in store : x.kind = kind /\ x.name = n}

TypeOK ==
    /\ \A x, y \in store : Id(x) = Id(y) => x = y
    /\ available \subseteq {d.name : d \in OfKind(store, "Deployment")}
    /\ \A s \in OfKind(store, "Secret") : s.cert.ca \in 1..certs
    /\ plan \in Seq(Children)
    /\ certs \in Nat /\ edits \in 0..MaxEdits

Init ==
    /\ cr \in Specs
    /\ inst = cr
    /\ plan = <<>>
    /\ store = {}
    /\ available = {}
    /\ certs = 0
    /\ edits = 0

-----------------------------------------------------------------------------
(* Reconcile *)

Reconcile ==
    /\ plan = <<>>
    /\ inst' = cr
    /\ plan' = InstallPlan(cr)
    /\ UNCHANGED <<cr, store, available, certs, edits>>

\* An error or a requeue ends the pass; otherwise the next child follows.
Requeue == plan' = <<>>
Proceed == plan' = Tail(plan)

Put(o) == store' = (store \ Found(o)) \union {o}

\* Mutant: the Secret is stored without the certificate generated for it.
CertificateNotAdded(c) ==
    LET o == Build(c, inst, 0) IN
    /\ c \notin Deployments \union {"Webhook"}
    /\ \/ Found(o) = {} /\ Put(o) /\ Requeue
       \/ Found(o) # {} /\ UNCHANGED store /\ Proceed
    /\ certs' = IF c \in Secrets /\ Found(o) = {} THEN certs + 1 ELSE certs
    /\ UNCHANGED available

\* Children that are created and never changed.  A CRD is also updated when its
\* spec differs from what is built; that is constant, so nothing here changes and
\* the pass goes on.
createOnly(c) ==
    LET o == Build(c, inst, certs + 1) IN
    /\ c \notin Deployments \union {"Webhook"}
    /\ \/ Found(o) = {} /\ Put(o) /\ Requeue
       \/ Found(o) # {} /\ UNCHANGED store /\ Proceed
    /\ certs' = IF c \in Secrets /\ Found(o) = {} THEN certs + 1 ELSE certs
    /\ UNCHANGED available

\* A Deployment stays available while the pods of its update replace the old ones.
createOrUpdateDeployment(c) ==
    LET o == Build(c, inst, certs)
        Differs == \E x \in Found(o) : ~EqualDeployments(o, x)
    IN  /\ c \in Deployments
        /\ \/ Found(o) = {} /\ Put(o) /\ Requeue
           \/ Differs /\ Put(o) /\ Requeue
           \/ Found(o) # {} /\ ~Differs /\ UNCHANGED store /\ Proceed
        /\ UNCHANGED <<available, certs>>

isDeploymentAvailable == inst.ControllerName \in available

\* The CABundle is the CA of the Secret the spec names, 0 if there is none.
CABundle ==
    LET secrets == Named("Secret", inst.WebhookServerTlsSecretName)
    IN  IF secrets = {} THEN 0 ELSE (CHOOSE s \in secrets : TRUE).cert.ca

createOrUpdateWebhook(c) ==
    LET o == BuildValidatingWebhookConfigurationForIShield(inst, CABundle) IN
    /\ c = "Webhook" /\ isDeploymentAvailable
    /\ \/ Found(o) = {} /\ Put(o) /\ Requeue
       \/ Found(o) # {} /\ UNCHANGED store /\ Proceed
    /\ UNCHANGED <<available, certs>>

deleteWebhook(c) ==
    /\ c = "Webhook" /\ ~isDeploymentAvailable
    /\ store' = store \ Named("Webhook", inst.WebhookConfigName)
    /\ Requeue
    /\ UNCHANGED <<available, certs>>

InstallStep ==
    /\ plan # <<>>
    /\ LET c == Head(plan) IN
       createOnly(c) \/ createOrUpdateDeployment(c) \/ createOrUpdateWebhook(c) \/ deleteWebhook(c)
    /\ UNCHANGED <<cr, inst, edits>>

\* A call of the client fails, or the operator restarts.
PassFails ==
    /\ plan # <<>> /\ Requeue
    /\ UNCHANGED <<cr, inst, store, available, certs, edits>>

-----------------------------------------------------------------------------
(* The cluster around the operator *)

Edit == edits < MaxEdits /\ edits' = edits + 1

\* An admin gives a field of the spec another value.
EditCR ==
    /\ Edit
    /\ \/ \E f \in Editable : cr[f] # Edited[f] /\ cr' = [cr EXCEPT ![f] = Edited[f]]
       \/ cr' = [cr EXCEPT !.ver = @ + 1]
    /\ UNCHANGED <<inst, plan, store, available, certs>>

\* Pods start only with their ServiceAccount and the Secrets they mount; the
\* operator looks at those of the admission controller.
PodsStart ==
    /\ \E d \in OfKind(store, "Deployment") :
         /\ d.labels = cr.ControllerSelector /\ d.name \notin available
         /\ Named("ServiceAccount", d.serviceAccount) # {}
         /\ \A s \in d.secrets : Named("Secret", s) # {}
         /\ available' = available \union {d.name}
    /\ UNCHANGED <<cr, inst, plan, store, certs, edits>>

PodsFail ==
    /\ Edit
    /\ \E d \in available : available' = available \ {d}
    /\ UNCHANGED <<cr, inst, plan, store, certs>>

Next == Reconcile \/ InstallStep \/ PassFails \/ EditCR \/ PodsStart \/ PodsFail

Spec == Init /\ [][Next]_vars

-----------------------------------------------------------------------------
(* Names under which the children do not collide *)

\* No admin edits these fields of the spec.
Kept(fields) == fields \intersect Editable = {}

\* The values of a field; two fields that never have the same value.
Values(s, f) == IF f \in Editable THEN {s[f], Edited[f]} ELSE {s[f]}
Apart(s, f, g) == Values(s, f) \intersect Values(s, g) = {}

\* The keys of the ConfigMaps stay and their names are never the same.
ConfigsApart ==
    /\ Kept({"RequestHandlerConfigKey", "AdmissionControllerConfigKey"})
    /\ \A s \in Specs : ~s.gk =>
         Apart(s, "RequestHandlerConfigName", "AdmissionControllerConfigName")

\* What ties the webhook to its server stays, and the server's Deployment is
\* never taken for the observer's.
ServerApart ==
    /\ Kept({"ControllerSelector", "WebhookServiceName", "WebhookServerTlsSecretName"})
    /\ \A s \in Specs : ~s.gk /\ s.obs => Apart(s, "ControllerName", "ObserverName")

\* The ServiceAccounts stay, and a binding of the shield is never taken for one of
\* the observer.
BindingsApart ==
    /\ Kept({"APIServiceAccountName", "ObserverServiceAccountName"})
    /\ \A s \in Specs : s.obs => Apart(s, "APIRoleBinding", "ObserverRoleBinding")

-----------------------------------------------------------------------------
(* Properties *)

\* The component is known by the port of its container, which no edit changes.
CallsOf(d) ==
    CASE d.port = "ishield-api"    -> HandlerCalls
      [] d.port = "validator-port" -> ControllerCalls
      [] d.port = "none"           -> ObserverCalls

\* A resource that is not built into Kubernetes is served because of its CRD.
Served(call) ==
    call.group = Shield => Named("CRD", call.resource) # {}

\* Whatever pass was cut short and whichever editable name was changed, a
\* component is deployed only when its ServiceAccount is allowed every call the
\* component makes, by the bindings and roles in the cluster, and the custom
\* resources it uses are served: Reconcile creates RBAC and CRDs before the
\* Deployments.
RightsSuffice ==
    \A d \in OfKind(store, "Deployment") : \A call \in CallsOf(d) :
        Granted(store, d.serviceAccount, call) /\ Served(call)

\* A deployed component finds what its pod template names: the ServiceAccount,
\* the Secret it mounts and each ConfigMap of its environment, with the key it
\* reads.
ReferencesResolve ==
    \A d \in OfKind(store, "Deployment") :
        /\ Named("ServiceAccount", d.serviceAccount) # {}
        /\ \A s \in d.secrets : Named("Secret", s) # {}
        /\ \A e \in d.env : \E m \in Named("ConfigMap", e.name) : m.data.key = e.key

\* The API server can call a registered webhook: its Service exists and routes
\* to the port of a Deployment that serves a certificate for the name of this
\* Service, signed by the CA of the webhook's CABundle.
WebhookReachable ==
    \A w \in OfKind(store, "Webhook") :
        \E s \in Named("Service", w.service), d \in OfKind(store, "Deployment") :
            /\ Routes(s, d)
            /\ \A n \in d.secrets : \E x \in Named("Secret", n) :
                 x.cert.host = w.service /\ x.cert.ca = w.caBundle
=============================================================================
