--------------------------- MODULE OperatorProofs ---------------------------
(***************************************************************************)
(* Operator, for any specs, disturbances, bounds and lag of the cache: the *)
(* plans of a reconcile, what each step may do to the children, the CR and *)
(* the pass, and the order between the views of the CR.  Then what Operator *)
(* promises: nothing is created for a CR that is gone, the webhook is      *)
(* served and trusts its server, and a removed CR leaves nothing behind.   *)
(***************************************************************************)
EXTENDS Operator, Functions, FiniteSetTheorems, TLAPS

-----------------------------------------------------------------------------
(* The plans *)

\* A plan is its first child and the rest.
LEMMA RangeOfTail ==
    ASSUME NEW S, NEW s \in Seq(S), s # <<>>
    PROVE  /\ Tail(s) \in Seq(S) /\ Head(s) \in Range(s) /\ Head(s) \in S
           /\ Range(s) = {Head(s)} \union Range(Tail(s))
<1> DEFINE n == Len(s)
           t == Tail(s)
<1>1. n \in Nat /\ n >= 1 /\ DOMAIN s = 1..n /\ Head(s) = s[1] /\ 1 \in 1..n
  OBVIOUS
<1>2. /\ Head(s) \in S /\ t \in Seq(S) /\ Len(t) = n - 1
      /\ \A i \in 1..Len(t) : t[i] = s[i + 1]
  OBVIOUS
<1>3. DOMAIN t = 1..Len(t)
  BY <1>2
<1> HIDE DEF n, t
<1>4. \A i \in DOMAIN t : i + 1 \in DOMAIN s /\ t[i] = s[i + 1]
  BY <1>1, <1>2, <1>3
<1>5. ASSUME NEW i \in DOMAIN s, i # 1
      PROVE  i - 1 \in DOMAIN t /\ s[i] = t[i - 1]
  BY <1>1, <1>2, <1>3, <1>5
<1>6. Range(s) = {s[1]} \union Range(t)
  BY <1>1, <1>4, <1>5 DEF Range
<1>7. s[1] \in Range(s)
  BY <1>1, Zenon DEF Range
<1> QED
  BY <1>1, <1>2, <1>6, <1>7, Zenon DEF t

\* The children of two plans, one after the other.
LEMMA ConcatRange ==
    ASSUME NEW S, NEW s \in Seq(S), NEW t \in Seq(S)
    PROVE  /\ s \o t \in Seq(S) /\ Len(s \o t) = Len(s) + Len(t)
           /\ Range(s \o t) = Range(s) \union Range(t)
           /\ Range(s) \subseteq S
<1> DEFINE m == Len(s)
           n == Len(t)
           u == s \o t
<1>1. /\ m \in Nat /\ n \in Nat /\ DOMAIN s = 1..m /\ DOMAIN t = 1..n
      /\ u \in Seq(S) /\ Len(u) = m + n /\ DOMAIN u = 1..(m + n)
      /\ \A k \in 1..(m + n) : u[k] = IF k <= m THEN s[k] ELSE t[k - m]
      /\ \A k \in 1..m : s[k] \in S
  OBVIOUS
<1> HIDE DEF m, n, u
<1>2. /\ \A k \in DOMAIN s : k \in DOMAIN u /\ u[k] = s[k]
      /\ \A k \in DOMAIN t : m + k \in DOMAIN u /\ u[m + k] = t[k]
  BY SMTT(60), <1>1
<1>3. \A k \in DOMAIN u :
        (k \in DOMAIN s /\ u[k] = s[k]) \/ (k - m \in DOMAIN t /\ u[k] = t[k - m])
  BY <1>1
<1>4. Range(u) = Range(s) \union Range(t)
  <2>1. Range(u) \subseteq Range(s) \union Range(t)
    BY <1>3, Zenon DEF Range
  <2>2. Range(s) \union Range(t) \subseteq Range(u)
    BY <1>2 DEF Range
  <2> QED
    BY <2>1, <2>2, Zenon
<1>5. Range(s) \subseteq S
  BY <1>1, Zenon DEF Range
<1> QED
  BY <1>1, <1>4, <1>5, Zenon DEF m, n, u

\* The parts of a plan are lists of children.
LEMMA Parts ==
    /\ CommonPart \in Seq(Children) /\ ObserverPart \in Seq(Children)
    /\ GatekeeperPart \in Seq(Children) /\ ControllerPart \in Seq(Children)
BY DEF CommonPart, ObserverPart, GatekeeperPart, ControllerPart, Children, Namespaced,
       ClusterScoped, ConfigMaps, ServiceAccounts, Roles, RoleBindings, ClusterRoles,
       ClusterRoleBindings, CRDs, Secrets, Deployments, Services

\* The children of each part.
LEMMA PartRanges ==
    /\ Range(CommonPart) =
         {"RequestHandlerConfig", "IShieldApiServiceAccount", "RoleForIShield",
          "RoleBindingForIShield", "ClusterRoleForIShield", "ClusterRoleBindingForIShield"}
    /\ Range(ObserverPart) =
         {"ObserverResultCRD", "ObserverServiceAccount", "ClusterRoleForObserver",
          "ClusterRoleBindingForObserver", "RoleForObserver", "RoleBindingForObserver",
          "ObserverDeployment"}
    /\ Range(GatekeeperPart) =
         {"TlsSecret", "IShieldAPIDeployment", "APIService", "ConstraintTemplate"}
    /\ Range(ControllerPart) =
         {"ManifestIntegrityProfileCRD", "ACConfig", "ACTlsSecret",
          "AdmissionControllerDeployment", "WebhookService", "Webhook"}
<1>1. DOMAIN CommonPart = {1, 2, 3, 4, 5, 6}
  BY DEF CommonPart
<1>2. DOMAIN ObserverPart = {1, 2, 3, 4, 5, 6, 7}
  BY DEF ObserverPart
<1>3. DOMAIN GatekeeperPart = {1, 2, 3, 4}
  BY DEF GatekeeperPart
<1>4. DOMAIN ControllerPart = {1, 2, 3, 4, 5, 6}
  BY DEF ControllerPart
<1>5. Range(CommonPart) = {CommonPart[i] : i \in {1, 2, 3, 4, 5, 6}}
  BY <1>1, Zenon DEF Range
<1> QED
  BY <1>1, <1>2, <1>3, <1>4 DEF Range, CommonPart, ObserverPart, GatekeeperPart, ControllerPart

\* What an admission controller needs to answer.
Backend ==
    {"AdmissionControllerDeployment", "WebhookService", "ACTlsSecret", "ACConfig",
     "RequestHandlerConfig", "IShieldApiServiceAccount"}

WebhookLast(list) == \A i \in 1..Len(list) : list[i] = "Webhook" => i = Len(list)

\* What a reconcile installs: the parts that the spec asks for, and the webhook
\* behind all that serves it.
LEMMA InstallPlanFacts ==
    ASSUME NEW s
    PROVE  LET list == InstallPlan(s) IN
           /\ list \in Seq(Children) /\ list # <<>>
           /\ Range(list) = Range(CommonPart)
                \union (IF s.obs THEN Range(ObserverPart) ELSE {})
                \union (IF s.gk THEN Range(GatekeeperPart) ELSE Range(ControllerPart))
           /\ "Webhook" \in Range(list) => Backend \subseteq Range(list)
           /\ WebhookLast(list)
<1> DEFINE o == IF s.obs THEN ObserverPart ELSE <<>>
           m == IF s.gk THEN GatekeeperPart ELSE ControllerPart
           p == CommonPart \o o
           list == p \o m
<1>1. o \in Seq(Children) /\ m \in Seq(Children) /\ CommonPart \in Seq(Children)
  BY Parts
<1>2. /\ Range(o) = (IF s.obs THEN Range(ObserverPart) ELSE {})
      /\ Range(m) = (IF s.gk THEN Range(GatekeeperPart) ELSE Range(ControllerPart))
  BY DEF Range
<1>3. InstallPlan(s) = list
  BY Zenon DEF InstallPlan
<1>4. WebhookLast(m) /\ Len(m) \in Nat \ {0}
  BY DEF GatekeeperPart, ControllerPart, WebhookLast
<1> HIDE DEF o, m
<1>5. p \in Seq(Children) /\ Range(p) = Range(CommonPart) \union Range(o)
  BY <1>1, ConcatRange
<1>6. "Webhook" \notin Range(p)
  BY <1>2, <1>5, PartRanges, Zenon
<1> HIDE DEF p
<1>7. list \in Seq(Children) /\ Len(list) = Len(p) + Len(m)
      /\ Range(list) = Range(p) \union Range(m)
  BY <1>1, <1>5, ConcatRange
<1>8. \A i \in 1..Len(p) + Len(m) : list[i] = IF i <= Len(p) THEN p[i] ELSE m[i - Len(p)]
  BY <1>1, <1>5
<1>9. \A i \in 1..Len(p) : p[i] # "Webhook"
  BY <1>5, <1>6 DEF Range
<1>10. Len(p) \in Nat
  BY <1>5
<1> HIDE DEF list
<1>11. WebhookLast(list)
  BY SMTT(60), <1>4, <1>7, <1>8, <1>9, <1>10 DEF WebhookLast
<1>12. list # <<>>
  BY <1>4, <1>7, <1>10
<1>13. "Webhook" \in Range(list) => Backend \subseteq Range(list)
  BY <1>2, <1>5, <1>7, PartRanges, Zenon DEF Backend
<1> QED
  BY <1>2, <1>3, <1>5, <1>7, <1>11, <1>12, <1>13, Zenon

-----------------------------------------------------------------------------
(* The invariants *)

\* The CR is gone or on its way out.
Ended(x) == ~x.live \/ x.deleting

\* Deletion is final for a uid, and the three views of the CR are in order: the
\* one of the running reconcile is no younger than the cache, and the cache no
\* younger than the API server.  A CR that a view shows without deletion cannot
\* be gone, because only a reconcile that saw the deletion lets it go.
OrderInv ==
    /\ inst.uid <= crCache.uid /\ crCache.uid <= cr.uid
    /\ ~Ended(crCache) => cr.live /\ cr.uid = crCache.uid
    /\ (crCache.uid = cr.uid /\ Ended(crCache)) => Ended(cr)
    /\ (inst.uid = crCache.uid /\ Ended(inst)) => Ended(crCache)
    /\ phase = "install" => ~Ended(inst) /\ cr.live /\ cr.uid = inst.uid
    /\ phase = "delete" => inst.live /\ inst.deleting

\* What a pass has still to do is a part of the plan it began with.
PlanInv ==
    /\ phase = "install" =>
         /\ plan # <<>> /\ WebhookLast(plan)
         /\ Range(plan) \subseteq Range(InstallPlan(inst.spec))
    /\ phase = "delete" => plan \in Seq(ClusterScoped)

-----------------------------------------------------------------------------
(* What the steps do *)

\* Which child is of which scope.
LEMMA ChildSets ==
    /\ Namespaced \subseteq Children /\ ClusterScoped \subseteq Children
    /\ Namespaced \intersect ClusterScoped = {} /\ "WebhookEvent" \notin Namespaced
    /\ "WebhookEvent" \notin ClusterScoped /\ Deployments \subseteq Namespaced
    /\ "Webhook" \in ClusterScoped /\ "ConstraintTemplate" \in ClusterScoped
    /\ "WebhookEvent" \in Children /\ Backend \subseteq Namespaced
    /\ "ACTlsSecret" \in Backend /\ "ACTlsSecret" \notin Deployments
    /\ Children \subseteq UNION Kinds
BY Zenon DEF Namespaced, ClusterScoped, Children, Kinds, Backend, ConfigMaps, ServiceAccounts, Roles,
       RoleBindings, ClusterRoles, ClusterRoleBindings, CRDs, Secrets, Deployments, Services

\* A cache that may lag behind in no kind of children shows all of them as they are.
Prompt ==
    /\ MaxLag = 0
    /\ \A new \in [Children -> ChildStates] : Cardinality(Lagging(new)) <= 0 => cache = new

\* A write reaches the API server, and the cache or not.  Without lag it always
\* reaches the cache.
LEMMA WriteFacts ==
    ASSUME cache \in [Children -> ChildStates],
           NEW new \in [Children -> ChildStates], Write(new)
    PROVE  /\ child' = new
           /\ cache' = cache \/ cache' = new
           /\ Prompt => cache' = new
BY ZenonT(60) DEF Write, Prompt

\* The pass gives up, or goes on to the next child.
Stops  == phase' = "idle" /\ plan' = <<>>
GoesOn == plan' = Tail(plan) /\ phase' = IF phase = "install" /\ Len(plan) = 1 THEN "idle" ELSE phase

\* What an install step does for the child c at the head of the plan: it waits
\* or finds the child there; creates it; updates a Deployment; creates the
\* webhook; or takes the webhook away.
Waits(c) ==
    /\ UNCHANGED <<child, cache>>
    /\ Stops \/ (GoesOn /\ cache[c].live)
Creates(c) ==
    /\ c \notin {"Webhook", "WebhookEvent"} /\ (c = "ConstraintTemplate" => gatekeeper)
    /\ ~cache[c].live /\ ~child[c].live /\ Stops
    /\ \E rev \in Nat : Write([child EXCEPT ![c] = Created(rev)])
Updates(c) ==
    /\ c \in Deployments /\ cache[c].live /\ cache[c] = child[c] /\ Stops
    /\ Write([child EXCEPT ![c].rev = inst.spec.ver])
CreatesWebhook(c) ==
    /\ c = "Webhook" /\ ~cache[c].live /\ ~child[c].live /\ Stops
    /\ \E ca \in Nat, event \in ChildStates :
         /\ "dropped" \notin Disturbances => ca = cache["ACTlsSecret"].rev
         /\ Write([child EXCEPT !["Webhook"] = Created(ca), !["WebhookEvent"] = event])
DeletesWebhook(c) ==
    /\ c = "Webhook" /\ Stops
    /\ Write([child EXCEPT !["Webhook"] = Gone])

\* A child that is created when missing and never updated.
LEMMA CreateOnlyStep ==
    ASSUME TypeOK, NEW c \in Children \ {"Webhook", "WebhookEvent"},
           c = "ConstraintTemplate" => gatekeeper, CreateOnly(c)
    PROVE  (Waits(c) \/ Creates(c)) /\ certs' \in Nat
<1>1. CASE CreateMissing(c, 0) /\ UNCHANGED certs
  BY ZenonT(60), <1>1 DEF CreateMissing, Waits, Creates, Requeue, Stops, TypeOK
<1>2. CASE cache[c].live /\ NoWrite /\ Proceed
  BY <1>2, Zenon DEF NoWrite, Proceed, Waits, GoesOn, TypeOK
<1> QED
  BY <1>1, <1>2, Zenon DEF CreateOnly

\* A created child belongs to the CR.
LEMMA TypedCreate ==
    ASSUME TypeOK
    PROVE  \A rev \in Nat : Created(rev) \in ChildStates
BY Zenon DEF TypeOK, Created, ChildStates, CRStates

\* An install step does one thing with one child and leaves the CR alone.
LEMMA InstallStepEffect ==
    ASSUME TypeOK, plan # <<>>, InstallStep
    PROVE  LET c == Head(plan) IN
           /\ phase = "install" /\ c \in Children /\ queued' \in BOOLEAN
           /\ UNCHANGED <<cr, crCache, gatekeeper, inst>>
           /\ certs' \in Nat /\ disturbed' \in Nat
           /\ Waits(c) \/ Creates(c) \/ Updates(c) \/ CreatesWebhook(c) \/ DeletesWebhook(c)
<1> DEFINE c == Head(plan)
           Effect == /\ Waits(c) \/ Creates(c) \/ Updates(c) \/ CreatesWebhook(c)
                        \/ DeletesWebhook(c)
                     /\ certs' \in Nat /\ queued' \in BOOLEAN
<1>1. c \in Children
  BY RangeOfTail, Zenon DEF TypeOK
<1>2. phase = "install" /\ UNCHANGED <<cr, crCache, gatekeeper, inst>>
  BY Zenon DEF InstallStep
<1> HIDE DEF c
<1>3. NoWrite /\ Requeue => Effect
  BY Zenon DEF NoWrite, Requeue, Waits, Stops, TypeOK
<1>4. ASSUME c # "Webhook",
             \/ createOrUpdateConfigMap(c) \/ createOrUpdateServiceAccount(c)
             \/ createOrUpdateRole(c) \/ createOrUpdateRoleBinding(c)
             \/ createOrUpdateClusterRole(c) \/ createOrUpdateClusterRoleBinding(c)
             \/ createOrUpdateCRD(c) \/ createOrUpdateSecret(c)
             \/ createOrUpdateDeployment(c) \/ createOrUpdateService(c)
             \/ createOrUpdateConstraintTemplate(c)
      PROVE  Effect
  <2>q. CreateOnly(c) => queued' \in BOOLEAN
    BY ZenonT(60) DEF CreateOnly, CreateMissing, Requeue, Proceed, TypeOK
  <2>1. CASE CreateOnly(c) /\ c # "WebhookEvent" /\ (c = "ConstraintTemplate" => gatekeeper)
    BY <1>1, <1>4, <2>1, <2>q, CreateOnlyStep, Zenon
  <2>2. CASE createOrUpdateCRD(c)
    <3>1. c # "WebhookEvent" /\ c # "ConstraintTemplate"
      BY <2>2, Zenon DEF createOrUpdateCRD, CRDs
    <3>2. CASE NoWrite /\ Requeue
      BY <1>3, <3>2, Zenon
    <3> QED
      BY <2>1, <2>2, <3>1, <3>2, Zenon DEF createOrUpdateCRD
  <2>3. CASE createOrUpdateSecret(c)
    <3>1. c \notin {"WebhookEvent", "ConstraintTemplate", "Webhook"}
      BY <2>3, Zenon DEF createOrUpdateSecret, Secrets
    <3> DEFINE rev == certs + 1
    <3>4. certs' \in Nat /\ rev \in Nat
      BY <2>3 DEF createOrUpdateSecret, NoWrite, TypeOK
    <3> HIDE DEF rev
    <3>2. CASE CreateMissing(c, rev)
      BY <3>1, <3>2, <3>4, Zenon DEF CreateMissing, Waits, Creates, Requeue, Stops
    <3>3. CASE cache[c].live /\ NoWrite /\ Proceed
      BY <3>3, Zenon DEF NoWrite, Proceed, Waits, GoesOn, TypeOK
    <3> QED
      BY <2>3, <3>2, <3>3, Zenon DEF createOrUpdateSecret, rev
  <2>4. CASE createOrUpdateDeployment(c)
    <3>1. c \notin {"WebhookEvent", "ConstraintTemplate", "Webhook"} /\ c \in Deployments
      BY <2>4, Zenon DEF createOrUpdateDeployment, Deployments
    <3>2. inst.spec.ver \in Nat /\ certs' \in Nat
      BY <2>4, Zenon DEF TypeOK, CRStates, AllSpecs, createOrUpdateDeployment
    <3>3. CASE CreateMissing(c, inst.spec.ver)
      BY <3>1, <3>2, <3>3, Zenon DEF CreateMissing, Waits, Creates, Requeue, Stops
    <3>4. CASE /\ cache[c].live
               /\ IF cache[c] = child[c] THEN Write([child EXCEPT ![c].rev = inst.spec.ver])
                                         ELSE UNCHANGED <<child, cache>>
               /\ Requeue
      BY <3>1, <3>2, <3>4, Zenon DEF Waits, Updates, Requeue, Stops
    <3>5. CASE cache[c].live /\ UNCHANGED <<child, cache>> /\ Proceed
      BY <3>2, <3>5, Zenon DEF Proceed, Waits, GoesOn, TypeOK
    <3> QED
      BY <2>4, <3>3, <3>4, <3>5, Zenon DEF createOrUpdateDeployment
  <2>5. CASE createOrUpdateConstraintTemplate(c)
    <3>1. CASE gatekeeper
      BY <2>1, <2>5, <3>1, Zenon DEF createOrUpdateConstraintTemplate, isGatekeeperAvailable
    <3>2. CASE ~gatekeeper
      BY <1>3, <2>5, <3>2, Zenon DEF createOrUpdateConstraintTemplate, isGatekeeperAvailable
    <3> QED
      BY <3>1, <3>2, Zenon
  <2>6. \A x \in {"WebhookEvent", "ConstraintTemplate"} :
          x \notin ConfigMaps \union ServiceAccounts \union Roles \union RoleBindings
                   \union ClusterRoles \union ClusterRoleBindings \union Services
    BY Zenon DEF ConfigMaps, ServiceAccounts, Roles, RoleBindings, ClusterRoles,
           ClusterRoleBindings, Services
  <2> QED
    BY <1>4, <2>1, <2>2, <2>3, <2>4, <2>5, <2>6
    DEF createOrUpdateConfigMap, createOrUpdateServiceAccount, createOrUpdateRole,
        createOrUpdateRoleBinding, createOrUpdateClusterRole,
        createOrUpdateClusterRoleBinding, createOrUpdateService
<1>5. ASSUME NEW ca \in Nat, NEW event \in ChildStates, CreateWebhook(ca, event),
             "dropped" \notin Disturbances => ca = cache["ACTlsSecret"].rev, c = "Webhook"
      PROVE  Effect
  BY ZenonT(60), <1>5 DEF CreateWebhook, CreatesWebhook, Waits, Requeue, Stops, TypeOK
<1>6. ASSUME deleteWebhook(Requeue), c = "Webhook"
      PROVE  Effect
  BY ZenonT(60), <1>3, <1>6 DEF deleteWebhook, DeleteChild, DeletesWebhook, NoWrite, Requeue, Stops, TypeOK
<1>7. /\ cache["ACTlsSecret"].rev \in Nat
      /\ createOrUpdateWebhookEvent \in ChildStates /\ child["WebhookEvent"] \in ChildStates
  <2>1. child["WebhookEvent"] \in ChildStates /\ cache["ACTlsSecret"] \in ChildStates
    BY ChildSets, Zenon DEF TypeOK
  <2> QED
    BY <2>1 DEF createOrUpdateWebhookEvent, ChildStates
<1>8. ASSUME InstallWebhook(c)
      PROVE  Effect /\ disturbed' \in Nat
  <2>1. c = "Webhook"
    BY <1>8, Zenon DEF InstallWebhook
  <2>2. CASE isDeploymentAvailable /\ ErrorOr(createOrUpdateWebhook)
    <3>1. disturbed' \in Nat
      BY <2>2 DEF ErrorOr, Fails, TypeOK
    <3>2. CASE NoWrite /\ Requeue
      BY <1>3, <3>1, <3>2, Zenon
    <3>3. CASE CreateWebhook(cache["ACTlsSecret"].rev, createOrUpdateWebhookEvent)
      BY <1>5, <1>7, <2>1, <3>1, <3>3, Zenon
    <3>4. CASE cache["Webhook"].live /\ NoWrite /\ Proceed
      BY <2>1, <3>1, <3>4, Zenon DEF NoWrite, Proceed, Waits, GoesOn, TypeOK
    <3> QED
      BY <2>2, <3>2, <3>3, <3>4, Zenon DEF ErrorOr, createOrUpdateWebhook
  <2>3. CASE ErrorOr(deleteWebhook(Requeue))
    <3>1. disturbed' \in Nat
      BY <2>3 DEF ErrorOr, Fails, TypeOK
    <3> QED
      BY <1>3, <1>6, <2>1, <2>3, <3>1, Zenon DEF ErrorOr
  <2>4. CASE Fails("dropped") /\ CreateWebhookAnyway
    <3>1. disturbed' \in Nat /\ "dropped" \in Disturbances
      BY <2>4 DEF Fails, May, TypeOK
    <3> QED
      BY <1>5, <1>7, <2>1, <2>4, <3>1, Zenon DEF CreateWebhookAnyway
  <2>5. CASE Fails("dropped") /\ deleteWebhook(Requeue)
    <3>1. disturbed' \in Nat
      BY <2>5 DEF Fails, TypeOK
    <3> QED
      BY <1>6, <2>1, <2>5, <3>1, Zenon
  <2> QED
    BY <1>8, <2>2, <2>3, <2>4, <2>5, Zenon DEF InstallWebhook
<1>9. Effect /\ disturbed' \in Nat
  <2>1. CASE InstallWebhook(c)
    BY <1>8, <2>1, Zenon
  <2>2. CASE ~InstallWebhook(c)
    <3>1. /\ c # "Webhook"
          /\ ErrorOr(\/ createOrUpdateConfigMap(c) \/ createOrUpdateServiceAccount(c)
                     \/ createOrUpdateRole(c) \/ createOrUpdateRoleBinding(c)
                     \/ createOrUpdateClusterRole(c) \/ createOrUpdateClusterRoleBinding(c)
                     \/ createOrUpdateCRD(c) \/ createOrUpdateSecret(c)
                     \/ createOrUpdateDeployment(c) \/ createOrUpdateService(c)
                     \/ createOrUpdateConstraintTemplate(c))
      BY ZenonT(60), <2>2 DEF InstallStep, c
    <3>2. disturbed' \in Nat
      BY <3>1 DEF ErrorOr, Fails, TypeOK
    <3> QED
      BY <1>3, <1>4, <3>1, <3>2, Zenon DEF ErrorOr
  <2> QED
    BY <2>1, <2>2, Zenon
<1> QED
  BY <1>1, <1>2, <1>9, Zenon DEF c

\* What a delete step does for the child c at the head of the plan: it removes
\* it, or leaves everything as it is because it gives up or sees nothing there.
Deletes(c) ==
    /\ c \in ClusterScoped /\ GoesOn
    /\ Write([child EXCEPT ![c] = Gone])
Skips(c) ==
    /\ UNCHANGED <<child, cache>>
    /\ \/ Stops
       \/ /\ GoesOn
          /\ \/ ~cache[c].live
             \/ /\ c = "ConstraintTemplate"
                /\ ~gatekeeper \/ "dropped" \in Disturbances

\* A deletion of one child, carried out or given up.
LEMMA DeleteChildEffect ==
    ASSUME TypeOK, NEW c \in ClusterScoped, DeleteChild(c, Proceed)
    PROVE  (Deletes(c) \/ Skips(c)) /\ certs' \in Nat /\ queued' \in BOOLEAN
<1>1. CASE cache[c].live /\ child[c].live /\ Write([child EXCEPT ![c] = Gone]) /\ UNCHANGED certs
           /\ Proceed
  BY <1>1, Zenon DEF Deletes, Proceed, GoesOn, TypeOK
<1>2. CASE NoWrite /\ Requeue
  BY <1>2, Zenon DEF NoWrite, Requeue, Skips, Stops, TypeOK
<1>3. CASE ~cache[c].live /\ NoWrite /\ Proceed
  BY <1>3, Zenon DEF NoWrite, Proceed, Skips, GoesOn, TypeOK
<1> QED
  BY <1>1, <1>2, <1>3, Zenon DEF DeleteChild

\* A step of the finalizer deletes one child, or finds it gone.
LEMMA DeleteStepEffect ==
    ASSUME TypeOK, PlanInv, DeleteStep
    PROVE  LET c == Head(plan) IN
           /\ phase = "delete" /\ plan # <<>> /\ c \in ClusterScoped /\ queued' \in BOOLEAN
           /\ UNCHANGED <<cr, crCache, gatekeeper, inst>>
           /\ certs' \in Nat /\ disturbed' \in Nat
           /\ Deletes(c) \/ Skips(c)
<1> DEFINE c == Head(plan)
           Effect == (Deletes(c) \/ Skips(c)) /\ certs' \in Nat /\ queued' \in BOOLEAN
           Call == \/ deleteClusterRole(c) \/ deleteClusterRoleBinding(c) \/ deleteCRD(c)
                   \/ deleteConstraintTemplate(c)
                   \/ (c = "Webhook" /\ deleteWebhook(Proceed))
<1>1. phase = "delete" /\ plan # <<>> /\ UNCHANGED <<cr, crCache, gatekeeper, inst>>
  BY Zenon DEF DeleteStep
<1>2. c \in ClusterScoped
  BY <1>1, RangeOfTail, Zenon DEF PlanInv
<1>3. SkipTemplate \/ ErrorOr(Call)
  BY ZenonT(60) DEF DeleteStep
<1>4. SkipTemplate => Effect /\ disturbed' \in Nat
  BY DEF SkipTemplate, Fails, May, NoWrite, Proceed, Skips, GoesOn, TypeOK
<1> HIDE DEF c
<1>5. NoWrite /\ Requeue => Effect
  BY Zenon DEF NoWrite, Requeue, Skips, Stops, TypeOK
<1>6. Call => Effect
  <2>1. DeleteChild(c, Proceed) => Effect
    BY <1>2, DeleteChildEffect, Zenon
  <2>2. ~gatekeeper /\ c = "ConstraintTemplate" /\ NoWrite /\ Proceed => Effect
    BY Zenon DEF NoWrite, Proceed, Skips, GoesOn, TypeOK
  <2> QED
    BY <2>1, <2>2, Zenon DEF deleteClusterRole, deleteClusterRoleBinding, deleteCRD,
       deleteConstraintTemplate, isGatekeeperAvailable, deleteWebhook
<1>7. ErrorOr(Call) => Effect /\ disturbed' \in Nat
  <2> HIDE DEF Effect, Call
  <2> QED
    BY <1>5, <1>6 DEF ErrorOr, Fails, TypeOK
<1> QED
  BY ZenonT(60), <1>1, <1>2, <1>3, <1>4, <1>7 DEF c

\* The finalizer deletes all that an install of the same spec creates outside
\* the namespace.
LEMMA DeletePlanFacts ==
    ASSUME NEW s
    PROVE  /\ DeletePlan(s) \in Seq(ClusterScoped)
           /\ Range(InstallPlan(s)) \intersect ClusterScoped \subseteq Range(DeletePlan(s))
<1> DEFINE r == <<"ClusterRoleForIShield", "ClusterRoleBindingForIShield">>
           m == IF s.gk THEN <<"ConstraintTemplate">>
                        ELSE <<"Webhook", "ManifestIntegrityProfileCRD">>
           o == IF s.obs THEN <<"ClusterRoleForObserver", "ClusterRoleBindingForObserver",
                                "ObserverResultCRD">>
                         ELSE <<>>
           p == r \o m
<1>1. r \in Seq(ClusterScoped) /\ m \in Seq(ClusterScoped) /\ o \in Seq(ClusterScoped)
  <2>1. {"ClusterRoleForIShield", "ClusterRoleBindingForIShield", "ConstraintTemplate",
         "Webhook", "ManifestIntegrityProfileCRD", "ClusterRoleForObserver",
         "ClusterRoleBindingForObserver", "ObserverResultCRD"} \subseteq ClusterScoped
    BY Zenon DEF ClusterScoped, ClusterRoles, ClusterRoleBindings, CRDs
  <2>2. r \in Seq(ClusterScoped)
    BY <2>1
  <2>3. m \in Seq(ClusterScoped)
    BY <2>1
  <2>4. o \in Seq(ClusterScoped)
    BY <2>1
  <2> QED
    BY <2>2, <2>3, <2>4, Zenon
<1>2. {"ClusterRoleForIShield", "ClusterRoleBindingForIShield"} \subseteq Range(r)
  <2>1. DOMAIN r = {1, 2}
    OBVIOUS
  <2> QED
    BY <2>1 DEF Range
<1>3. IF s.gk THEN "ConstraintTemplate" \in Range(m)
              ELSE {"Webhook", "ManifestIntegrityProfileCRD"} \subseteq Range(m)
  <2>1. DOMAIN m = IF s.gk THEN {1} ELSE {1, 2}
    OBVIOUS
  <2> QED
    BY <2>1 DEF Range
<1>4. s.obs => {"ClusterRoleForObserver", "ClusterRoleBindingForObserver",
                "ObserverResultCRD"} \subseteq Range(o)
  <2>1. s.obs => DOMAIN o = {1, 2, 3}
    OBVIOUS
  <2> QED
    BY <2>1 DEF Range
<1>5. DeletePlan(s) = p \o o
  BY Zenon DEF DeletePlan
<1> HIDE DEF r, m, o
<1>6. p \in Seq(ClusterScoped) /\ Range(p) = Range(r) \union Range(m)
  BY <1>1, ConcatRange
<1> HIDE DEF p
<1>7. p \o o \in Seq(ClusterScoped) /\ Range(p \o o) = Range(p) \union Range(o)
  BY <1>1, <1>6, ConcatRange
<1> DEFINE Shared == {"ClusterRoleForIShield", "ClusterRoleBindingForIShield"}
                     \union (IF s.gk THEN {"ConstraintTemplate"}
                                     ELSE {"Webhook", "ManifestIntegrityProfileCRD"})
                     \union (IF s.obs THEN {"ClusterRoleForObserver",
                              "ClusterRoleBindingForObserver", "ObserverResultCRD"} ELSE {})
<1>8. Range(InstallPlan(s)) \intersect ClusterScoped \subseteq Shared
  BY SMTT(60), InstallPlanFacts, PartRanges DEF ClusterScoped, ClusterRoles, ClusterRoleBindings, CRDs
<1>9. Shared \subseteq Range(p) \union Range(o)
  BY <1>2, <1>3, <1>4, <1>6, Zenon
<1> HIDE DEF Shared
<1> QED
  BY <1>5, <1>7, <1>8, <1>9, Zenon

\* What a step may do to the children.  The cache follows the API server; only
\* an install pass creates something, for its own CR; only the garbage collector
\* removes namespaced children; and a certificate never changes in place.
ChildStep ==
    /\ child' \in [Children -> ChildStates] /\ cache' \in [Children -> ChildStates]
    /\ \A c \in Children : cache'[c] = cache[c] \/ cache'[c] = child'[c]
    /\ (Prompt /\ cache = child) => cache' = child'
    /\ \A c \in Children : child'[c].live =>
         \/ child[c].live
         \/ /\ phase = "install"
            /\ c = "WebhookEvent" \/ (c = Head(plan) /\ child'[c].owner = inst.uid)
    /\ \A c \in Namespaced \ Garbage : child[c].live =>
         /\ child'[c].live /\ child'[c].owner = child[c].owner
         /\ c \notin Deployments => child'[c].rev = child[c].rev
    /\ child'["Webhook"].live =>
         IF child["Webhook"].live THEN child'["Webhook"].rev = child["Webhook"].rev
         ELSE "dropped" \notin Disturbances =>
                child'["Webhook"].rev = cache["ACTlsSecret"].rev
    /\ (child'["ConstraintTemplate"].live /\ (child["ConstraintTemplate"].live => gatekeeper))
         => gatekeeper'

\* A step that writes nothing.
LEMMA ChildUnchanged ==
    ASSUME TypeOK, UNCHANGED <<child, cache>>, gatekeeper' = gatekeeper \/ gatekeeper'
    PROVE  ChildStep
BY Zenon DEF TypeOK, ChildStep

\* A write of any kind, and what the cache shows of it.
LEMMA ChildWritten ==
    ASSUME TypeOK, NEW new \in [Children -> ChildStates], Write(new)
    PROVE  /\ child' = new
           /\ child' \in [Children -> ChildStates] /\ cache' \in [Children -> ChildStates]
           /\ \A c \in Children : cache'[c] = cache[c] \/ cache'[c] = child'[c]
           /\ (Prompt /\ cache = child) => cache' = child'
BY WriteFacts, Zenon DEF TypeOK

\* An install step is one of the changes of ChildStep.
LEMMA InstallStepChildren ==
    ASSUME TypeOK, PlanInv, InstallStep
    PROVE  ChildStep
<1> DEFINE c == Head(plan)
<1>1. phase = "install" /\ plan # <<>>
  BY Zenon DEF InstallStep, PlanInv
<1>2. /\ c \in Children /\ UNCHANGED <<inst, gatekeeper>>
      /\ Waits(c) \/ Creates(c) \/ Updates(c) \/ CreatesWebhook(c) \/ DeletesWebhook(c)
  BY <1>1, InstallStepEffect, Zenon
<1>3. child \in [Children -> ChildStates] /\ Gone \in ChildStates
  BY Zenon DEF TypeOK, Gone, ChildStates
<1>h. c = Head(plan) OBVIOUS
<1> HIDE DEF c
<1>4. CASE Waits(c)
  BY SMTT(60), <1>2, <1>4, ChildUnchanged DEF Waits
<1>5. CASE Creates(c)
  <2>1. PICK rev \in Nat : Write([child EXCEPT ![c] = Created(rev)])
    BY <1>5, Zenon DEF Creates
  <2> DEFINE new == [child EXCEPT ![c] = Created(rev)]
  <2>2. new \in [Children -> ChildStates]
    BY <1>2, <1>3, TypedCreate, Zenon
  <2>3. /\ \A d \in Children : d # c => new[d] = child[d]
        /\ new[c] = Created(rev)
    BY <1>2, <1>3, Zenon
  <2>4. Created(rev).owner = inst.uid
    BY Zenon DEF Created
  <2>5. c # "Webhook" /\ (c = "ConstraintTemplate" => gatekeeper) /\ ~child[c].live
    BY <1>5, Zenon DEF Creates
  <2> HIDE DEF new
  <2>6. Write(new)
    BY <2>1, Zenon DEF new
  <2>w. /\ child' = new
        /\ child' \in [Children -> ChildStates] /\ cache' \in [Children -> ChildStates]
        /\ \A d \in Children : cache'[d] = cache[d] \/ cache'[d] = child'[d]
        /\ (Prompt /\ cache = child) => cache' = child'
    BY SMTT(60), <2>2, <2>6, ChildWritten
  <2> QED
    BY <1>1, <1>2, <1>h, <2>w, <2>3, <2>4, <2>5, ChildSets, Zenon DEF ChildStep
<1>6. CASE Updates(c)
  <2> DEFINE new == [child EXCEPT ![c].rev = inst.spec.ver]
  <2>1. c \in Deployments /\ c \in Namespaced /\ c \notin {"Webhook", "ConstraintTemplate"}
    BY <1>6, ChildSets, Zenon DEF Updates
  <2>2. inst.spec.ver \in Nat
    BY Zenon DEF TypeOK, CRStates, AllSpecs
  <2>3. /\ new \in [Children -> ChildStates]
        /\ \A d \in Children : d # c => new[d] = child[d]
        /\ new[c].live = child[c].live /\ new[c].owner = child[c].owner
    BY <1>2, <1>3, <2>2, Zenon DEF ChildStates
  <2>4. Write(new)
    BY <1>6, Zenon DEF Updates
  <2> HIDE DEF new
  <2>w. /\ child' = new
        /\ child' \in [Children -> ChildStates] /\ cache' \in [Children -> ChildStates]
        /\ \A d \in Children : cache'[d] = cache[d] \/ cache'[d] = child'[d]
        /\ (Prompt /\ cache = child) => cache' = child'
    BY SMTT(60), <2>3, <2>4, ChildWritten
  <2> QED
    BY <1>1, <1>2, <2>1, <2>3, <2>w, ChildSets, Zenon DEF ChildStep
<1>7. CASE CreatesWebhook(c)
  <2>1. PICK ca \in Nat, event \in ChildStates :
          /\ "dropped" \notin Disturbances => ca = cache["ACTlsSecret"].rev
          /\ Write([child EXCEPT !["Webhook"] = Created(ca), !["WebhookEvent"] = event])
    BY <1>7, Zenon DEF CreatesWebhook
  <2> DEFINE new == [child EXCEPT !["Webhook"] = Created(ca), !["WebhookEvent"] = event]
  <2>2. /\ new \in [Children -> ChildStates]
        /\ \A d \in Children \ {"Webhook", "WebhookEvent"} : new[d] = child[d]
        /\ new["Webhook"] = Created(ca)
    BY Zenon, <1>3, <2>1, TypedCreate, ChildSets
  <2>3. Created(ca).owner = inst.uid /\ Created(ca).rev = ca
    BY Zenon DEF Created
  <2>4. c = "Webhook" /\ ~child["Webhook"].live
    BY <1>7, Zenon DEF CreatesWebhook
  <2> HIDE DEF new
  <2>5. Write(new)
    BY <2>1 DEF new
  <2>w. /\ child' = new
        /\ child' \in [Children -> ChildStates] /\ cache' \in [Children -> ChildStates]
        /\ \A d \in Children : cache'[d] = cache[d] \/ cache'[d] = child'[d]
        /\ (Prompt /\ cache = child) => cache' = child'
    BY Zenon, <2>2, <2>5, ChildWritten
  <2> QED
    BY SMTT(60), <1>1, <1>2, <1>h, <2>1, <2>w, <2>2, <2>3, <2>4, ChildSets DEF ChildStep
<1>8. CASE DeletesWebhook(c)
  <2> DEFINE new == [child EXCEPT !["Webhook"] = Gone]
  <2>1. /\ new \in [Children -> ChildStates]
        /\ \A d \in Children : d # "Webhook" => new[d] = child[d]
        /\ ~new["Webhook"].live
    BY <1>3, ChildSets, Zenon DEF Gone
  <2>2. Write(new)
    BY <1>8, Zenon DEF DeletesWebhook
  <2> HIDE DEF new
  <2>w. /\ child' = new
        /\ child' \in [Children -> ChildStates] /\ cache' \in [Children -> ChildStates]
        /\ \A d \in Children : cache'[d] = cache[d] \/ cache'[d] = child'[d]
        /\ (Prompt /\ cache = child) => cache' = child'
    BY Zenon, <2>1, <2>2, ChildWritten
  <2> QED
    BY Zenon, <1>1, <1>2, <2>1, <2>w, ChildSets DEF ChildStep
<1> QED
  BY <1>2, <1>4, <1>5, <1>6, <1>7, <1>8, Zenon

\* So is a removal of a child outside the namespace.
LEMMA RemovalStep ==
    ASSUME TypeOK, NEW c \in ClusterScoped, Write([child EXCEPT ![c] = Gone]),
           gatekeeper' = gatekeeper \/ gatekeeper' \/ c = "ConstraintTemplate"
    PROVE  ChildStep /\ ~child'[c].live
<1> DEFINE new == [child EXCEPT ![c] = Gone]
<1>1. child \in [Children -> ChildStates] /\ Gone \in ChildStates /\ c \in Children
  BY ChildSets, Zenon DEF TypeOK, Gone, ChildStates
<1>2. /\ new \in [Children -> ChildStates]
      /\ \A d \in Children : d # c => new[d] = child[d]
      /\ ~new[c].live
  BY <1>1, Zenon DEF Gone
<1> HIDE DEF new
<1>w. /\ child' = new
      /\ child' \in [Children -> ChildStates] /\ cache' \in [Children -> ChildStates]
      /\ \A d \in Children : cache'[d] = cache[d] \/ cache'[d] = child'[d]
      /\ (Prompt /\ cache = child) => cache' = child'
  BY ZenonT(60), <1>2, ChildWritten DEF new
<1> QED
  BY SMTT(60), <1>1, <1>2, <1>w, ChildSets DEF ChildStep

\* So is what happens in the cluster: collection, restarts, deletions by hand.
LEMMA ClusterChildren ==
    ASSUME TypeOK, Cluster
    PROVE  ChildStep
<1>1. CASE DeleteCR \/ EditCR \/ RecreateCR \/ SyncCR \/ Resync \/ InstallGatekeeper
  <2>1. UNCHANGED <<child, cache>> /\ (gatekeeper' = gatekeeper \/ gatekeeper')
    BY ZenonT(60), <1>1 DEF DeleteCR, EditCR, RecreateCR, ChangeCR, SyncCR, Resync, InstallGatekeeper
  <2> QED
    BY <2>1, ChildUnchanged, Zenon
<1>2. CASE Restart
  BY Zenon, <1>2 DEF Restart, TypeOK, ChildStep
<1>3. CASE \E kind \in Kinds : SyncKind(kind)
  BY SMTT(60), <1>3 DEF SyncKind, TypeOK, ChildStep
<1>4. ASSUME NEW d \in Deployments, NEW up \in BOOLEAN, SetAvailable(d, up)
      PROVE  ChildStep
  <2> DEFINE new == [child EXCEPT ![d].available = up]
  <2>1. child \in [Children -> ChildStates] /\ d \in Children
        /\ d \notin {"Webhook", "ConstraintTemplate"}
    BY ChildSets, Zenon DEF TypeOK
  <2>2. /\ new \in [Children -> ChildStates]
        /\ \A c \in Children : /\ new[c].live = child[c].live
                               /\ new[c].owner = child[c].owner /\ new[c].rev = child[c].rev
    BY <2>1, Zenon DEF ChildStates
  <2>3. Write(new) /\ UNCHANGED gatekeeper
    BY <1>4, Zenon DEF SetAvailable
  <2> HIDE DEF new
  <2>w. /\ child' = new
        /\ child' \in [Children -> ChildStates] /\ cache' \in [Children -> ChildStates]
        /\ \A c \in Children : cache'[c] = cache[c] \/ cache'[c] = child'[c]
        /\ (Prompt /\ cache = child) => cache' = child'
    BY <2>2, <2>3, ChildWritten, Zenon
  <2> QED
    BY <2>1, <2>2, <2>3, <2>w, ChildSets, Zenon DEF ChildStep
<1>5. CASE \E d \in Deployments : PodsStart(d) \/ PodsFail(d)
  BY ZenonT(60), <1>4, <1>5 DEF PodsStart, PodsFail
<1>6. CASE GarbageCollect
  <2> DEFINE new == [c \in Children |-> IF c \in Garbage THEN Gone ELSE child[c]]
  <2>1. child \in [Children -> ChildStates] /\ Gone \in ChildStates /\ ~Gone.live
    BY Zenon DEF TypeOK, Gone, ChildStates
  <2>2. /\ new \in [Children -> ChildStates]
        /\ \A c \in Children \ Garbage : new[c] = child[c]
        /\ \A c \in Children : c \in Garbage => ~new[c].live
    BY <2>1, Zenon
  <2>3. Write(new) /\ UNCHANGED gatekeeper
    BY <1>6, Zenon DEF GarbageCollect
  <2>4. Garbage \subseteq Namespaced
    BY Zenon DEF Garbage
  <2> HIDE DEF new
  <2>w. /\ child' = new
        /\ child' \in [Children -> ChildStates] /\ cache' \in [Children -> ChildStates]
        /\ \A c \in Children : cache'[c] = cache[c] \/ cache'[c] = child'[c]
        /\ (Prompt /\ cache = child) => cache' = child'
    BY <2>2, <2>3, ChildWritten
  <2> QED
    BY Zenon, <2>2, <2>3, <2>4, <2>w, ChildSets DEF ChildStep
<1>7. CASE RemoveGatekeeper
  BY ZenonT(60), <1>7, ChildSets, RemovalStep DEF RemoveGatekeeper
<1> QED
  BY <1>1, <1>2, <1>3, <1>5, <1>6, <1>7, Zenon DEF Cluster

\* Every step is one of the changes of ChildStep.
LEMMA ChildSteps ==
    ASSUME TypeOK, PlanInv, [Next]_vars
    PROVE  ChildStep
<1>1. CASE Reconcile \/ RemoveFinalizer \/ UNCHANGED vars
  <2>1. UNCHANGED <<child, cache, gatekeeper>>
    BY <1>1, Zenon DEF Reconcile, RemoveFinalizer, vars
  <2> QED
    BY <2>1, ChildUnchanged, Zenon
<1>2. CASE InstallStep
  BY <1>2, InstallStepChildren, Zenon
<1>3. CASE DeleteStep
  <2> DEFINE c == Head(plan)
  <2>1. UNCHANGED gatekeeper /\ (Deletes(c) \/ Skips(c))
    BY <1>3, DeleteStepEffect, Zenon
  <2> HIDE DEF c
  <2>2. CASE Deletes(c)
    BY <2>1, <2>2, RemovalStep, Zenon DEF Deletes
  <2>3. CASE Skips(c)
    BY <2>1, <2>3, ChildUnchanged DEF Skips
  <2> QED
    BY <2>1, <2>2, <2>3
<1>4. CASE Cluster
  BY <1>4, ClusterChildren
<1> QED
  BY <1>1, <1>2, <1>3, <1>4, Zenon DEF Next, OperatorStep

\* What a step may do to the running pass: it is over, begins, stays where it
\* is, or goes on to the next child.
PassBegins ==
    /\ phase = "idle" /\ UNCHANGED <<cr, crCache, child, cache>> /\ inst' = crCache
    /\ \/ phase' = "install" /\ ~Ended(crCache) /\ plan' = InstallPlan(crCache.spec)
       \/ /\ phase' = "delete" /\ crCache.live /\ crCache.deleting
          /\ plan' = DeletePlan(crCache.spec)
PassAdvances ==
    /\ phase # "idle" /\ plan # <<>> /\ plan' = Tail(plan)
    /\ UNCHANGED <<cr, crCache, phase, inst>>
    /\ phase = "install" =>
         Len(plan) # 1 /\ cache[Head(plan)].live /\ UNCHANGED <<child, cache>>
    /\ phase = "delete" =>
         \/ ~child'[Head(plan)].live
         \/ /\ UNCHANGED child
            /\ \/ ~cache[Head(plan)].live
               \/ /\ Head(plan) = "ConstraintTemplate"
                  /\ ~gatekeeper \/ "dropped" \in Disturbances
PassStep ==
    \/ phase' = "idle" /\ plan' \in Seq(Children)
    \/ PassBegins
    \/ UNCHANGED <<phase, inst, plan>>
    \/ PassAdvances

\* Every step begins a pass, advances it or leaves it alone.
LEMMA PassSteps ==
    ASSUME TypeOK, PlanInv, [Next]_vars
    PROVE  PassStep
<1>p. plan \in Seq(Children) /\ <<>> \in Seq(Children)
  BY DEF TypeOK
<1>1. CASE Reconcile
  BY ZenonT(60), <1>1, <1>p DEF Reconcile, Requeue, PassStep, PassBegins, Ended
<1>2. CASE InstallStep
  <2> DEFINE c == Head(plan)
  <2>1. phase = "install" /\ plan # <<>>
    BY <1>2, Zenon DEF InstallStep, PlanInv
  <2>2. /\ UNCHANGED <<cr, crCache, inst>>
        /\ Waits(c) \/ Creates(c) \/ Updates(c) \/ CreatesWebhook(c) \/ DeletesWebhook(c)
    BY <1>2, <2>1, InstallStepEffect, Zenon
  <2>h. c = Head(plan) BY Zenon
  <2> HIDE DEF c
  <2>3. Stops \/ (GoesOn /\ cache[c].live /\ UNCHANGED <<child, cache>>)
    BY <2>2, Zenon DEF Waits, Creates, Updates, CreatesWebhook, DeletesWebhook
  <2>4. CASE Stops
    BY <1>p, <2>4, Zenon DEF Stops, PassStep
  <2>5. CASE GoesOn /\ cache[c].live /\ UNCHANGED <<child, cache>>
    <3>1. plan' \in Seq(Children)
      BY <1>p, <2>1, <2>5, RangeOfTail, Zenon DEF GoesOn
    <3> QED
      BY <2>1, <2>2, <2>5, <2>h, <3>1 DEF GoesOn, PassStep, PassAdvances
  <2> QED
    BY <2>3, <2>4, <2>5, Zenon
<1>3. CASE DeleteStep
  <2> DEFINE c == Head(plan)
  <2>1. /\ phase = "delete" /\ plan # <<>> /\ UNCHANGED <<cr, crCache, inst, gatekeeper>>
        /\ Deletes(c) \/ Skips(c)
    BY SMTT(60), <1>3, DeleteStepEffect
  <2>h. c = Head(plan) OBVIOUS
  <2> HIDE DEF c
  <2>2. CASE Deletes(c)
    <3>1. ~child'[c].live
      BY <2>1, <2>2, RemovalStep, Zenon DEF Deletes
    <3> QED
      BY <2>1, <2>2, <2>h, <3>1, Zenon DEF Deletes, GoesOn, PassStep, PassAdvances
  <2>3. CASE Skips(c)
    BY ZenonT(60), <1>p, <2>1, <2>3, <2>h DEF Skips, Stops, GoesOn, PassStep, PassAdvances
  <2> QED
    BY <2>1, <2>2, <2>3, Zenon
<1>4. CASE RemoveFinalizer
  BY <1>4, <1>p, Zenon DEF RemoveFinalizer, PassStep
<1>5. CASE Cluster
  <2>1. CASE Restart
    BY <1>p, <2>1 DEF Restart, PassStep
  <2>2. CASE ~Restart
    BY ZenonT(60), <1>5, <2>2 DEF Cluster, DeleteCR, EditCR, RecreateCR, ChangeCR, SyncCR, Resync,
       SyncKind, PodsStart, PodsFail, SetAvailable, GarbageCollect, InstallGatekeeper,
       RemoveGatekeeper, operator, PassStep
  <2> QED
    BY <2>1, <2>2, Zenon
<1>6. CASE UNCHANGED vars
  BY <1>6, Zenon DEF vars, operator, PassStep
<1> QED
  BY <1>1, <1>2, <1>3, <1>4, <1>5, <1>6, Zenon DEF Next, OperatorStep

\* The rest of a plan still ends with the webhook.
LEMMA WebhookLastOfTail ==
    ASSUME NEW list \in Seq(Children), list # <<>>, WebhookLast(list)
    PROVE  WebhookLast(Tail(list))
<1> DEFINE n == Len(list)
           t == Tail(list)
<1>1. n \in Nat /\ n >= 1
  OBVIOUS
<1>2. Len(t) = n - 1 /\ \A i \in 1..Len(t) : t[i] = list[i + 1]
  OBVIOUS
<1>3. \A i \in 1..n : list[i] = "Webhook" => i = n
  BY Zenon DEF WebhookLast
<1> HIDE DEF n, t
<1>4. \A i \in 1..Len(t) : t[i] = "Webhook" => i = Len(t)
  BY SMTT(60), <1>1, <1>2, <1>3
<1> QED
  BY <1>4, Zenon DEF WebhookLast, t

\* A pass does what is left of its plan, in its order.
LEMMA PlanStep ==
    ASSUME TypeOK, PlanInv, [Next]_vars
    PROVE  PlanInv' /\ plan' \in Seq(Children)
<1>p. plan \in Seq(Children)
  BY Zenon DEF TypeOK
<1>1. CASE phase' = "idle" /\ plan' \in Seq(Children)
  BY <1>1, Zenon DEF PlanInv
<1>2. CASE PassBegins
  <2>1. CASE phase' = "install"
    <3>1. plan' = InstallPlan(inst'.spec)
      BY <1>2, <2>1, Zenon DEF PassBegins
    <3> QED
      BY <2>1, <3>1, InstallPlanFacts, Zenon DEF PlanInv
  <2>2. CASE phase' = "delete"
    <3>1. plan' = DeletePlan(inst'.spec)
      BY <1>2, <2>2, Zenon DEF PassBegins
    <3>2. plan' \in Seq(ClusterScoped)
      BY <3>1, DeletePlanFacts, Zenon
    <3>3. plan' \in Seq(Children)
      BY <3>2, ChildSets
    <3> QED
      BY <2>2, <3>2, <3>3 DEF PlanInv
  <2> QED
    BY <1>2, <2>1, <2>2, Zenon DEF PassBegins
<1>3. CASE UNCHANGED <<phase, inst, plan>>
  BY <1>3, <1>p, Zenon DEF PlanInv
<1>4. CASE PassAdvances
  <2>1. plan # <<>> /\ plan' = Tail(plan) /\ UNCHANGED <<phase, inst>>
        /\ (phase = "install" => Len(plan) # 1)
    BY <1>4, Zenon DEF PassAdvances
  <2>2. Tail(plan) \in Seq(Children) /\ Range(Tail(plan)) \subseteq Range(plan)
    BY <1>p, <2>1, RangeOfTail, Zenon
  <2>3. CASE phase = "install"
    <3>1. WebhookLast(plan')
      BY <1>p, <2>1, <2>3, WebhookLastOfTail DEF PlanInv
    <3>2. plan' # <<>>
      <4>1. Len(plan) \in Nat /\ Len(plan) # 0 /\ Len(plan) # 1
        BY SMTT(60), <1>p, <2>1, <2>3
      <4>2. Len(plan') = Len(plan) - 1
        BY <1>p, <2>1
      <4>3. Len(plan') # 0
        BY <4>1, <4>2
      <4> QED
        BY <4>3
    <3>3. Range(plan') \subseteq Range(InstallPlan(inst'.spec))
      BY <2>1, <2>2, <2>3, Zenon DEF PlanInv
    <3> QED
      BY Zenon, <2>1, <2>2, <2>3, <3>1, <3>2, <3>3 DEF PlanInv
  <2>4. CASE phase = "delete"
    <3>1. plan \in Seq(ClusterScoped)
      BY <2>4, Zenon DEF PlanInv
    <3>2. Tail(plan) \in Seq(ClusterScoped)
      BY SMTT(60), <2>1, <3>1, RangeOfTail
    <3> QED
      BY <2>1, <2>2, <2>4, <3>2, Zenon DEF PlanInv
  <2>5. phase \in {"install", "delete"}
    BY <1>4, Zenon DEF PassAdvances, TypeOK
  <2> QED
    BY <2>3, <2>4, <2>5, Zenon
<1> QED
  BY <1>1, <1>2, <1>3, <1>4, PassSteps, Zenon DEF PassStep

\* Every step keeps the types.
LEMMA TypeStep ==
    ASSUME TypeOK, PlanInv, [Next]_vars
    PROVE  TypeOK'
<1>1. child' \in [Children -> ChildStates] /\ cache' \in [Children -> ChildStates]
  BY ChildSteps DEF ChildStep
<1>2. plan' \in Seq(Children)
  BY SMTT(60), PlanStep
<1>3. /\ cr' \in CRStates /\ crCache' \in CRStates /\ inst' \in CRStates
      /\ gatekeeper' \in BOOLEAN /\ queued' \in BOOLEAN
      /\ certs' \in Nat /\ disturbed' \in Nat
  <2>f. /\ \A kind \in AllDisturbances : Fails(kind) => disturbed' \in Nat
        /\ UNCHANGED disturbed => disturbed' \in Nat
    BY DEF Fails, TypeOK
  <2>k. {"fault", "edit", "recreate", "crash", "outage", "gatekeeper"} \subseteq AllDisturbances
    BY Zenon DEF AllDisturbances
  <2>1. CASE Reconcile
    <3>1. disturbed' \in Nat
      BY <2>1, <2>f, <2>k DEF Reconcile
    <3> QED
      BY ZenonT(60), <2>1, <3>1 DEF Reconcile, Requeue, TypeOK
  <2>2. CASE InstallStep
    <3>1. plan # <<>>
      BY SMTT(60), <2>2 DEF InstallStep, PlanInv
    <3> QED
      BY <2>2, <3>1, InstallStepEffect, Zenon DEF TypeOK
  <2>3. CASE DeleteStep
    BY <2>3, DeleteStepEffect, Zenon DEF TypeOK
  <2>c. ASSUME NEW new \in CRStates, WriteCR(new)
        PROVE  cr' \in CRStates /\ crCache' \in CRStates
    BY <2>c, Zenon DEF WriteCR, TypeOK
  <2>4. CASE RemoveFinalizer
    <3>1. [cr EXCEPT !.live = FALSE, !.deleting = FALSE, !.finalizer = FALSE] \in CRStates
      BY ZenonT(60) DEF TypeOK, CRStates
    <3>2. cr' \in CRStates /\ crCache' \in CRStates
      BY <2>4, <2>c, <3>1, Zenon DEF RemoveFinalizer, TypeOK
    <3>3. disturbed' \in Nat
      BY SMTT(60), <2>4, <2>f, <2>k DEF RemoveFinalizer
    <3> QED
      BY ZenonT(60), <2>4, <3>2, <3>3 DEF RemoveFinalizer, TypeOK
  <2>5. ASSUME NEW new \in CRStates, ChangeCR(new), disturbed' \in Nat
        PROVE  <1>3!:
    BY <2>5, <2>c, Zenon DEF ChangeCR, TypeOK
  <2>s. \A spec \in Specs : spec \in AllSpecs
    BY OperatorAssumption, Zenon
  <2>6. CASE DeleteCR
    <3>1. [cr EXCEPT !.deleting = TRUE] \in CRStates
      BY ZenonT(60) DEF TypeOK, CRStates
    <3> QED
      BY SMTT(60), <2>5, <2>6, <3>1 DEF DeleteCR, TypeOK
  <2>7. CASE EditCR
    <3>1. \A spec \in Specs : [cr EXCEPT !.spec = spec] \in CRStates
      BY SMTT(60), <2>s DEF TypeOK, CRStates
    <3> QED
      BY <2>5, <2>7, <2>f, <2>k, <3>1, Zenon DEF EditCR
  <2>8. CASE RecreateCR
    <3>1. \A spec \in Specs : [live |-> TRUE, uid |-> cr.uid + 1, deleting |-> FALSE,
                               finalizer |-> TRUE, spec |-> spec] \in CRStates
      BY SMTT(60), <2>s DEF TypeOK, CRStates
    <3> QED
      BY SMTT(60), <2>5, <2>8, <2>f, <2>k, <3>1 DEF RecreateCR
  <2>9. CASE SyncCR \/ Resync \/ Restart \/ GarbageCollect \/ InstallGatekeeper
             \/ RemoveGatekeeper
    <3>1. disturbed' \in Nat
      BY <2>9, <2>f, <2>k, Zenon DEF SyncCR, Resync, Restart, GarbageCollect, InstallGatekeeper,
         RemoveGatekeeper
    <3> QED
      BY ZenonT(60), <2>9, <3>1 DEF SyncCR, Resync, Restart, GarbageCollect, InstallGatekeeper,
         RemoveGatekeeper, TypeOK, operator
  <2>10. CASE \/ \E kind \in Kinds : SyncKind(kind)
              \/ \E d \in Deployments : PodsStart(d) \/ PodsFail(d)
    <3>1. disturbed' \in Nat
      BY ZenonT(60), <2>10, <2>f, <2>k DEF SyncKind, PodsStart, PodsFail
    <3> QED
      BY ZenonT(60), <2>10, <3>1 DEF SyncKind, PodsStart, PodsFail, SetAvailable, TypeOK, operator
  <2>11. CASE UNCHANGED vars
    BY Zenon, <2>11 DEF vars, operator, TypeOK
  <2> QED
    BY SMTT(60), <2>1, <2>2, <2>3, <2>4, <2>6, <2>7, <2>8, <2>9, <2>10, <2>11
    DEF Next, OperatorStep, Cluster
<1>4. phase' \in {"idle", "install", "delete"}
  BY PassSteps, Zenon DEF PassStep, PassBegins, PassAdvances, TypeOK
<1> QED
  BY Zenon, <1>1, <1>2, <1>3, <1>4 DEF TypeOK

\* A CR that was just created, and no children.
LEMMA InitTyped ==
    ASSUME Init
    PROVE  TypeOK /\ PlanInv /\ OrderInv /\ cr.live /\ cr.spec \in Specs
<1>1. PICK spec \in Specs :
        cr = [live |-> TRUE, uid |-> 1, deleting |-> FALSE, finalizer |-> TRUE,
              spec |-> spec]
  BY ZenonT(60) DEF Init
<1>2. cr \in CRStates /\ crCache = cr /\ inst = cr
  BY Zenon, <1>1, OperatorAssumption DEF Init, CRStates
<1>3. child \in [Children -> ChildStates] /\ cache \in [Children -> ChildStates]
  BY DEF Init, Gone, ChildStates
<1>4. <<>> \in Seq(Children)
  OBVIOUS
<1>5. TypeOK
  BY <1>2, <1>3, <1>4, Zenon DEF Init, TypeOK
<1>6. PlanInv
  BY Zenon DEF Init, PlanInv
<1>7. OrderInv
  BY <1>1, <1>2 DEF Init, OrderInv, Ended
<1> QED
  BY SMTT(60), <1>1, <1>5, <1>6, <1>7

\* No step takes back a deletion, or lets a view overtake what it is a view of.
LEMMA OrderStep ==
    ASSUME TypeOK, PlanInv, OrderInv, [Next]_vars
    PROVE  OrderInv'
<1>t. cr.uid \in Nat /\ crCache.uid \in Nat /\ inst.uid \in Nat
  BY Zenon DEF TypeOK, CRStates
<1>1. CASE UNCHANGED <<cr, crCache>>
  <2>1. CASE UNCHANGED inst /\ (phase' = phase \/ phase' = "idle")
    BY Zenon, <1>1, <2>1 DEF OrderInv, Ended
  <2>2. CASE Reconcile
    <3>1. CASE UNCHANGED inst /\ phase' = "idle"
      BY SMTT(60), <2>1, <3>1
    <3>2. CASE inst' = crCache
      <4>1. phase' = "install" => ~Ended(crCache)
        BY Zenon, <2>2, <3>2 DEF Reconcile, Requeue, Ended
      <4>2. phase' = "delete" => crCache.live /\ crCache.deleting
        BY SMTT(60), <2>2, <3>2 DEF Reconcile, Requeue
      <4> QED
        BY SMTT(60), <1>1, <1>t, <3>2, <4>1, <4>2 DEF OrderInv
    <3> QED
      BY <2>2, <3>1, <3>2, Zenon DEF Reconcile, Requeue
  <2>3. UNCHANGED inst \/ Reconcile
    BY ZenonT(60) DEF Next, OperatorStep, InstallStep, DeleteStep, RemoveFinalizer, Cluster,
       DeleteCR, EditCR, RecreateCR, ChangeCR, SyncCR, Resync, Restart, SyncKind, PodsStart,
       PodsFail, SetAvailable, GarbageCollect, InstallGatekeeper, RemoveGatekeeper, operator,
       vars
  <2>4. phase' = phase \/ phase' = "idle" \/ Reconcile
    <3>1. CASE phase = "idle"
      BY ZenonT(60), <3>1 DEF Next, OperatorStep, InstallStep, DeleteStep, RemoveFinalizer, Cluster,
       DeleteCR, EditCR, RecreateCR, ChangeCR, SyncCR, Resync, Restart, SyncKind, PodsStart,
       PodsFail, SetAvailable, GarbageCollect, InstallGatekeeper, RemoveGatekeeper, operator,
       vars
    <3>2. CASE phase # "idle"
      BY Zenon, <3>2, PassSteps DEF PassStep, PassBegins, PassAdvances
    <3> QED
      BY <3>1, <3>2
  <2> QED
    BY SMTT(60), <2>1, <2>2, <2>3, <2>4
<1>2. CASE SyncCR \/ Restart
  <2>1. crCache' = cr /\ cr' = cr /\ UNCHANGED inst /\ (phase' = phase \/ phase' = "idle")
    BY <1>2, Zenon DEF SyncCR, Restart
  <2> QED
    BY <1>t, <2>1 DEF OrderInv, Ended
<1>3. ASSUME NEW new, ChangeCR(new)
      PROVE  /\ cr' = new /\ (crCache' = crCache \/ crCache' = new)
             /\ UNCHANGED <<phase, inst>>
             /\ MaxLag = 0 => crCache' = new
  BY <1>3, OperatorAssumption DEF ChangeCR, WriteCR
<1>4. CASE DeleteCR
  <2> DEFINE new == [cr EXCEPT !.deleting = TRUE]
  <2>1. new.live = cr.live /\ new.uid = cr.uid /\ new.deleting = TRUE /\ cr.live
    BY ZenonT(60), <1>4 DEF TypeOK, CRStates, DeleteCR
  <2>2. cr' = new /\ (crCache' = crCache \/ crCache' = new) /\ UNCHANGED <<phase, inst>>
    BY <1>3, <1>4, Zenon DEF DeleteCR
  <2> HIDE DEF new
  <2>3. Ended(cr') /\ cr'.live /\ cr'.uid = cr.uid
    BY ZenonT(60), <2>1, <2>2 DEF Ended
  <2>4. CASE crCache' = crCache
    BY <1>t, <2>2, <2>3, <2>4 DEF OrderInv
  <2>5. CASE crCache' = cr'
    BY SMTT(60), <1>t, <2>2, <2>3, <2>5 DEF OrderInv
  <2> QED
    BY <2>2, <2>4, <2>5, Zenon
<1>5. CASE EditCR
  <2>1. PICK spec \in Specs : ChangeCR([cr EXCEPT !.spec = spec])
    BY <1>5, Zenon DEF EditCR
  <2> DEFINE new == [cr EXCEPT !.spec = spec]
  <2>2. new.live = cr.live /\ new.uid = cr.uid /\ new.deleting = cr.deleting
    BY DEF TypeOK, CRStates
  <2>3. cr' = new /\ (crCache' = crCache \/ crCache' = new) /\ UNCHANGED <<phase, inst>>
    BY Zenon, <1>3, <2>1
  <2> HIDE DEF new
  <2> QED
    BY <1>t, <2>2, <2>3 DEF OrderInv, Ended
<1>6. CASE RecreateCR
  <2>1. PICK spec \in Specs :
          ChangeCR([live |-> TRUE, uid |-> cr.uid + 1, deleting |-> FALSE,
                    finalizer |-> TRUE, spec |-> spec])
    BY ZenonT(60), <1>6 DEF RecreateCR
  <2> DEFINE new == [live |-> TRUE, uid |-> cr.uid + 1, deleting |-> FALSE,
                     finalizer |-> TRUE, spec |-> spec]
  <2>2. new.live = TRUE /\ new.uid = cr.uid + 1 /\ new.deleting = FALSE /\ ~cr.live
    BY Zenon, <1>6 DEF RecreateCR
  <2>3. cr' = new /\ (crCache' = crCache \/ crCache' = new) /\ UNCHANGED <<phase, inst>>
    BY SMTT(60), <1>3, <2>1
  <2> HIDE DEF new
  <2> QED
    BY <1>t, <2>2, <2>3 DEF OrderInv, Ended
<1>7. CASE RemoveFinalizer /\ ~UNCHANGED <<cr, crCache>>
  <2> DEFINE new == [cr EXCEPT !.live = FALSE, !.deleting = FALSE, !.finalizer = FALSE]
  <2>1. /\ phase = "delete" /\ phase' = "idle" /\ inst = cr /\ inst' = inst /\ WriteCR(new)
    BY <1>7, Zenon DEF RemoveFinalizer
  <2>2. new.live = FALSE /\ new.uid = cr.uid
    BY Zenon DEF TypeOK, CRStates
  <2>3. cr' = new /\ (crCache' = crCache \/ crCache' = new)
    BY Zenon, <2>1 DEF WriteCR
  <2> HIDE DEF new
  <2> QED
    BY <1>t, <2>1, <2>2, <2>3 DEF OrderInv, Ended
<1>8. \/ UNCHANGED <<cr, crCache>> \/ SyncCR \/ Restart \/ DeleteCR \/ EditCR \/ RecreateCR
      \/ RemoveFinalizer
  BY ZenonT(60) DEF Next, OperatorStep, Reconcile, InstallStep, DeleteStep, Cluster, Resync,
     SyncKind, PodsStart, PodsFail, SetAvailable, GarbageCollect, InstallGatekeeper,
     RemoveGatekeeper, vars
<1> QED
  BY Zenon, <1>1, <1>2, <1>4, <1>5, <1>6, <1>7, <1>8

\* The order of the views holds in every behaviour.
LEMMA Ordered == Spec => [](TypeOK /\ PlanInv /\ OrderInv)
<1>1. Init => TypeOK /\ PlanInv /\ OrderInv
  BY InitTyped, Zenon
<1>2. TypeOK /\ PlanInv /\ OrderInv /\ [Next]_vars => (TypeOK /\ PlanInv /\ OrderInv)'
  BY SMTT(60), TypeStep, PlanStep, OrderStep
<1> QED
  BY <1>1, <1>2, PTL DEF Spec

\* Every variable keeps its type.
THEOREM OperatorTypeCorrect == Spec => []TypeOK
BY Ordered, PTL

\* Whatever is disturbed and however far the cache lags behind, nothing is
\* created for a CR that is gone: an install pass holds a copy of the CR without
\* deletion, and only a reconcile that saw the deletion lets the CR go.
THEOREM GoneStaysEmpty == Spec => NothingCreatedForGoneCR
<1>1. ASSUME TypeOK, PlanInv, OrderInv, [Next]_vars
      PROVE  [~cr.live => \A c \in Children : child'[c].live => child[c].live]_vars
  <2>1. ChildStep
    BY Zenon, <1>1, ChildSteps
  <2>2. \A c \in Children : child'[c].live => child[c].live \/ phase = "install"
    BY Zenon, <2>1 DEF ChildStep
  <2>3. phase = "install" => cr.live
    BY SMTT(60), <1>1 DEF OrderInv
  <2> QED
    BY SMTT(60), <2>2, <2>3
<1> QED
  BY <1>1, Ordered, PTL DEF Spec, NothingCreatedForGoneCR

-----------------------------------------------------------------------------
(* The webhook and what it needs *)

\* A CR that is gone stays gone.
LEMMA WithoutRecreation ==
    ASSUME "recreate" \notin Disturbances, [Next]_vars
    PROVE  /\ cr'.live => cr.live
           /\ TypeOK /\ cr'.live => cr'.uid = cr.uid
<1>1. CASE UNCHANGED cr
  BY Zenon, <1>1
<1>2. CASE DeleteCR \/ EditCR \/ RemoveFinalizer
  <2>1. CASE DeleteCR
    BY Zenon, <2>1 DEF DeleteCR, ChangeCR, WriteCR, TypeOK, CRStates
  <2>2. CASE EditCR
    BY Zenon, <2>2 DEF EditCR, ChangeCR, WriteCR, TypeOK, CRStates
  <2>3. CASE RemoveFinalizer
    <3>1. CASE UNCHANGED cr
      BY Zenon, <1>1, <3>1
    <3>2. CASE /\ inst = cr
               /\ WriteCR([cr EXCEPT !.live = FALSE, !.deleting = FALSE, !.finalizer = FALSE])
      BY SMTT(60), <3>2 DEF WriteCR, TypeOK, CRStates
    <3> QED
      BY SMTT(60), <2>3, <3>1, <3>2 DEF RemoveFinalizer
  <2> QED
    BY SMTT(60), <1>2, <2>1, <2>2, <2>3
<1>3. ~RecreateCR
  BY Zenon DEF RecreateCR, Fails, May
<1>4. UNCHANGED cr \/ DeleteCR \/ EditCR \/ RecreateCR \/ RemoveFinalizer
  BY ZenonT(60) DEF Next, OperatorStep, Reconcile, InstallStep, DeleteStep, Cluster, SyncCR, Restart,
     Resync, SyncKind, PodsStart, PodsFail, SetAvailable, GarbageCollect, InstallGatekeeper,
     RemoveGatekeeper, vars
<1> QED
  BY Zenon, <1>1, <1>2, <1>3, <1>4

\* The certificate and the children a CR owns.
OwnedInv ==
    /\ cr.live => \A c \in Namespaced :
         /\ child[c].live => child[c].owner = cr.uid
         /\ cache[c].live => child[c].live
    /\ (cr.live /\ cache["ACTlsSecret"].live) =>
         cache["ACTlsSecret"].rev = child["ACTlsSecret"].rev

\* The children of a CR stay while it does: only garbage collection and the
\* operator remove them, and the operator removes none in the namespace.
LEMMA OwnedStep ==
    ASSUME "recreate" \notin Disturbances, TypeOK, PlanInv, OrderInv, OwnedInv, [Next]_vars
    PROVE  /\ OwnedInv'
           /\ cr'.live => \A c \in Namespaced : child[c].live =>
                /\ child'[c].live
                /\ c \notin Deployments => child'[c].rev = child[c].rev
<1> SUFFICES ASSUME cr'.live
             PROVE  /\ OwnedInv'
                    /\ \A c \in Namespaced : child[c].live =>
                         /\ child'[c].live
                         /\ c \notin Deployments => child'[c].rev = child[c].rev
  BY Zenon DEF OwnedInv
<1>1. cr.live /\ cr'.uid = cr.uid
  BY WithoutRecreation, Zenon
<1>2. Garbage = {}
  BY SMTT(60), <1>1 DEF Garbage, OwnedInv
<1>3. \A c \in Namespaced : child[c].live =>
        /\ child'[c].live /\ child'[c].owner = child[c].owner
        /\ c \notin Deployments => child'[c].rev = child[c].rev
  BY Zenon, <1>2, ChildSteps DEF ChildStep
<1>4. \A c \in Namespaced : cache'[c] = cache[c] \/ cache'[c] = child'[c]
  BY Zenon, ChildSteps, ChildSets DEF ChildStep
<1>5. \A c \in Namespaced : child'[c].live /\ ~child[c].live => child'[c].owner = cr.uid
  <2>1. \A c \in Namespaced : child'[c].live /\ ~child[c].live =>
          phase = "install" /\ child'[c].owner = inst.uid
    BY SMTT(60), ChildSteps, ChildSets DEF ChildStep
  <2> QED
    BY SMTT(60), <2>1 DEF OrderInv
<1>6. ASSUME NEW c \in Namespaced
      PROVE  /\ child'[c].live => child'[c].owner = cr'.uid
             /\ cache'[c].live => child'[c].live
  BY Zenon, <1>1, <1>3, <1>4, <1>5 DEF OwnedInv
<1>7. cache'["ACTlsSecret"].live => cache'["ACTlsSecret"].rev = child'["ACTlsSecret"].rev
  <2>1. "ACTlsSecret" \in Namespaced /\ "ACTlsSecret" \notin Deployments
    BY ChildSets
  <2> QED
    BY SMTT(60), <1>1, <1>3, <1>4, <2>1 DEF OwnedInv
<1> QED
  BY Zenon, <1>3, <1>6, <1>7 DEF OwnedInv

\* What a pass is past of it has seen.
SeenInv ==
    phase = "install" =>
        \A c \in Namespaced \intersect Range(InstallPlan(inst.spec)) :
            c \in Range(plan) \/ cache[c].live

\* A pass goes on to the next child only when the cache shows the one before,
\* and what the cache shows stays.
LEMMA SeenStep ==
    ASSUME "recreate" \notin Disturbances, TypeOK, PlanInv, OrderInv, OwnedInv, SeenInv,
           [Next]_vars
    PROVE  SeenInv'
<1>1. CASE phase' = "idle"
  BY <1>1 DEF SeenInv
<1>2. CASE PassBegins
  BY <1>2 DEF PassBegins, SeenInv
<1>3. ASSUME phase = "install", phase' = "install", inst' = inst
      PROVE  \A c \in Namespaced : cache[c].live => cache'[c].live
  <2>1. cr.live /\ cr'.live
    BY SMTT(60), <1>3, OrderStep DEF OrderInv
  <2>2. \A c \in Namespaced : child[c].live => child'[c].live
    BY SMTT(60), <2>1, OwnedStep
  <2>3. \A c \in Namespaced : cache'[c] = cache[c] \/ cache'[c] = child'[c]
    BY Zenon, ChildSteps, ChildSets DEF ChildStep
  <2> QED
    BY Zenon, <2>1, <2>2, <2>3 DEF OwnedInv
<1>4. CASE UNCHANGED <<phase, inst, plan>>
  BY SMTT(60), <1>3, <1>4 DEF SeenInv
<1>5. CASE PassAdvances /\ phase = "install"
  <2>1. Range(plan) = {Head(plan)} \union Range(plan')
    BY Zenon, <1>5, RangeOfTail DEF PassAdvances, TypeOK
  <2>2. UNCHANGED <<phase, inst, cache>> /\ cache[Head(plan)].live
    BY SMTT(60), <1>5 DEF PassAdvances
  <2> QED
    BY SMTT(60), <2>1, <2>2 DEF SeenInv
<1>6. CASE PassAdvances /\ phase # "install"
  BY Zenon, <1>6 DEF PassAdvances, SeenInv
<1> QED
  BY Zenon, <1>1, <1>2, <1>4, <1>5, <1>6, PassSteps DEF PassStep

\* At the webhook the whole backend has been seen.
LEMMA BackendSeen ==
    ASSUME TypeOK, PlanInv, OrderInv, OwnedInv, SeenInv,
           phase = "install", Head(plan) = "Webhook"
    PROVE  \A c \in Backend : cache[c].live /\ child[c].live
<1>1. plan # <<>> /\ WebhookLast(plan) /\ Range(plan) \subseteq Range(InstallPlan(inst.spec))
  BY Zenon DEF PlanInv
<1>2. plan \in Seq(Children)
  BY Zenon DEF TypeOK
<1>3. Len(plan) = 1
  <2>1. Len(plan) \in Nat /\ Len(plan) # 0 /\ Head(plan) = plan[1]
    BY SMTT(60), <1>1, <1>2
  <2>2. 1 \in 1..Len(plan)
    BY <2>1
  <2>3. plan[1] = "Webhook"
    BY Zenon, <2>1
  <2>4. \A i \in 1..Len(plan) : plan[i] = "Webhook" => i = Len(plan)
    BY <1>1, Zenon DEF WebhookLast
  <2> QED
    BY Zenon, <2>2, <2>3, <2>4
<1>4. \A c \in Range(plan) : c = "Webhook"
  <2>1. DOMAIN plan = {1} /\ plan[1] = "Webhook"
    BY SMTT(60), <1>1, <1>2, <1>3
  <2> QED
    BY <2>1 DEF Range
<1>5. "Webhook" \in Range(InstallPlan(inst.spec))
  BY Zenon, <1>1, <1>2, RangeOfTail
<1>6. Backend \subseteq Range(InstallPlan(inst.spec))
  BY Zenon, <1>5, InstallPlanFacts
<1>7. \A c \in Backend : c \in Namespaced /\ c # "Webhook"
  BY ChildSets, Zenon DEF Backend
<1>8. \A c \in Backend : cache[c].live
  BY SMTT(60), <1>4, <1>6, <1>7 DEF SeenInv
<1> QED
  BY Zenon, <1>7, <1>8 DEF OwnedInv, OrderInv

ServedIndInv ==
    TypeOK /\ PlanInv /\ OrderInv /\ OwnedInv /\ SeenInv /\ WebhookHasBackend

\* Without children nothing is served.
LEMMA ServedInit ==
    ASSUME Init
    PROVE  ServedIndInv /\ WebhookTrustsServer
<1>1. TypeOK /\ PlanInv /\ OrderInv
  BY Zenon, InitTyped
<1>2. \A c \in Children : ~child[c].live /\ ~cache[c].live
  BY Zenon DEF Init, Gone
<1>3. OwnedInv
  BY Zenon, <1>2, ChildSets DEF OwnedInv, Backend
<1>4. SeenInv
  BY Zenon DEF Init, SeenInv
<1>5. WebhookHasBackend /\ WebhookTrustsServer
  BY SMTT(60), <1>2, ChildSets DEF WebhookHasBackend, WebhookTrustsServer
<1> QED
  BY Zenon, <1>1, <1>3, <1>4, <1>5 DEF ServedIndInv

\* The webhook comes last in the plan: when it is created the cache has shown
\* all that it needs, and the Secret whose certificate it copies.
LEMMA ServedStep ==
    ASSUME "recreate" \notin Disturbances, ServedIndInv, [Next]_vars
    PROVE  /\ ServedIndInv'
           /\ ("dropped" \notin Disturbances /\ WebhookTrustsServer) => WebhookTrustsServer'
<1>1. TypeOK /\ PlanInv /\ OrderInv /\ OwnedInv /\ SeenInv /\ WebhookHasBackend
  BY Zenon DEF ServedIndInv
<1>2. TypeOK' /\ PlanInv' /\ OrderInv' /\ OwnedInv' /\ SeenInv'
  BY SMTT(60), <1>1, TypeStep, PlanStep, OrderStep, OwnedStep, SeenStep
<1>3. ASSUME cr'.live, child'["Webhook"].live
      PROVE  /\ \A c \in Backend : child[c].live /\ child'[c].live
             /\ child'["ACTlsSecret"].rev = child["ACTlsSecret"].rev
             /\ ~child["Webhook"].live =>
                  cache["ACTlsSecret"].rev = child["ACTlsSecret"].rev
  <2>1. cr.live
    BY Zenon, <1>3, WithoutRecreation
  <2>2. CASE child["Webhook"].live
    <3>1. \A c \in Backend : child[c].live
      BY SMTT(60), <1>1, <2>1, <2>2 DEF WebhookHasBackend, Backend
    <3> QED
      BY SMTT(60), <1>1, <1>3, <2>2, <3>1, OwnedStep, ChildSets
  <2>3. CASE ~child["Webhook"].live
    <3>1. phase = "install" /\ Head(plan) = "Webhook"
      BY SMTT(60), <1>1, <1>3, <2>3, ChildSteps, ChildSets DEF ChildStep
    <3>2. \A c \in Backend : cache[c].live /\ child[c].live
      BY SMTT(60), <1>1, <3>1, BackendSeen
    <3>3. cache["ACTlsSecret"].rev = child["ACTlsSecret"].rev
      BY Zenon, <1>1, <2>1, <3>2, ChildSets DEF OwnedInv
    <3> QED
      BY Zenon, <1>1, <1>3, <3>2, <3>3, OwnedStep, ChildSets
  <2> QED
    BY <2>2, <2>3, Zenon
<1>4. WebhookHasBackend'
  BY SMTT(60), <1>3 DEF WebhookHasBackend, Backend
<1>5. ASSUME "dropped" \notin Disturbances, WebhookTrustsServer,
             cr'.live, child'["Webhook"].live
      PROVE  child'["Webhook"].rev = child'["ACTlsSecret"].rev
  <2>1. cr.live
    BY Zenon, <1>5, WithoutRecreation
  <2>2. IF child["Webhook"].live THEN child'["Webhook"].rev = child["Webhook"].rev
        ELSE child'["Webhook"].rev = cache["ACTlsSecret"].rev
    BY SMTT(60), <1>1, <1>5, ChildSteps DEF ChildStep
  <2> QED
    BY Zenon, <1>3, <1>5, <2>1, <2>2 DEF WebhookTrustsServer
<1> QED
  BY Zenon, <1>2, <1>4, <1>5 DEF ServedIndInv, WebhookTrustsServer

\* As long as a CR is not created again after its removal, a registered webhook
\* has what it needs to answer, for every spec, lag and other disturbance.
THEOREM WebhookServed ==
    "recreate" \notin Disturbances => (Spec => []WebhookHasBackend)
<1> SUFFICES ASSUME "recreate" \notin Disturbances
             PROVE  Spec => []WebhookHasBackend
  BY Zenon
<1>1. Init => ServedIndInv
  BY ServedInit, Zenon
<1>2. ServedIndInv /\ [Next]_vars => ServedIndInv'
  BY ServedStep, Zenon
<1>3. ServedIndInv => WebhookHasBackend
  BY Zenon DEF ServedIndInv
<1> QED
  BY <1>1, <1>2, <1>3, PTL DEF Spec

\* If moreover no error of a read is dropped, the webhook trusts the certificate
\* that the admission controller serves.
THEOREM WebhookTrusted ==
    {"recreate", "dropped"} \intersect Disturbances = {} =>
        (Spec => []WebhookTrustsServer)
<1> SUFFICES ASSUME {"recreate", "dropped"} \intersect Disturbances = {}
             PROVE  Spec => []WebhookTrustsServer
  BY Zenon
<1>1. Init => ServedIndInv /\ WebhookTrustsServer
  BY ServedInit, Zenon
<1>2. ServedIndInv /\ WebhookTrustsServer /\ [Next]_vars
        => (ServedIndInv /\ WebhookTrustsServer)'
  BY ServedStep
<1> QED
  BY <1>1, <1>2, PTL DEF Spec

-----------------------------------------------------------------------------
(* The cluster-scoped children *)

\* With a cache that never lags, a pass acts on the CR and the children as they
\* are, and what it creates is in the plan of its deletion.
CleanInv ==
    /\ cache = child /\ crCache = cr /\ cr.spec \in Specs
    /\ phase # "idle" =>
         /\ cr.live
         /\ inst.spec.gk = cr.spec.gk /\ inst.spec.obs = cr.spec.obs
    /\ child["ConstraintTemplate"].live => gatekeeper
    /\ cr.live => \A c \in ClusterScoped :
         child[c].live => c \in Range(InstallPlan(cr.spec))
    /\ phase = "delete" => \A c \in Range(DeletePlan(inst.spec)) :
         c \in Range(plan) \/ ~child[c].live
    /\ NoOrphans

\* There are finitely many kinds, so that none lags when their number is zero.
LEMMA PromptCache ==
    ASSUME TypeOK, MaxLag = 0
    PROVE  Prompt
<1>1. ASSUME NEW new \in [Children -> ChildStates], Cardinality(Lagging(new)) <= 0
      PROVE  cache = new
  <2>1. IsFiniteSet(Kinds)
    <3> DEFINE A == {ConfigMaps, ServiceAccounts, Roles, RoleBindings, ClusterRoles}
               B == {ClusterRoleBindings, CRDs, Secrets, Deployments, Services}
               C == {{"ConstraintTemplate"}, {"Webhook"}, {"WebhookEvent"}}
    <3>1. \A a, b, c, d, e : IsFiniteSet({a, b, c, d, e})
      <4> TAKE a, b, c, d, e
      <4>1. IsFiniteSet({}) BY Zenon, FS_EmptySet
      <4>2. IsFiniteSet({} \union {a}) BY Zenon, <4>1, FS_AddElement
      <4>3. IsFiniteSet(({} \union {a}) \union {b}) BY SMTT(60), <4>2, FS_AddElement
      <4>4. IsFiniteSet((({} \union {a}) \union {b}) \union {c}) BY Zenon, <4>3, FS_AddElement
      <4>5. IsFiniteSet(((({} \union {a}) \union {b}) \union {c}) \union {d})
        BY Zenon, <4>4, FS_AddElement
      <4>6. IsFiniteSet((((({} \union {a}) \union {b}) \union {c}) \union {d}) \union {e})
        BY Zenon, <4>5, FS_AddElement
      <4>7. (((({} \union {a}) \union {b}) \union {c}) \union {d}) \union {e} = {a, b, c, d, e}
        BY Zenon
      <4> QED BY Zenon, <4>6, <4>7
    <3>2. IsFiniteSet(A) /\ IsFiniteSet(B)
      BY ZenonT(60), <3>1
    <3>3. IsFiniteSet({{"ConstraintTemplate"}, {"Webhook"}, {"WebhookEvent"},
                       {"WebhookEvent"}, {"WebhookEvent"}})
      BY ZenonT(60), <3>1
    <3>4. C = {{"ConstraintTemplate"}, {"Webhook"}, {"WebhookEvent"},
               {"WebhookEvent"}, {"WebhookEvent"}}
      BY Zenon
    <3>5. Kinds = (A \union B) \union C
      BY Zenon DEF Kinds
    <3>6. IsFiniteSet(C)
      BY ZenonT(60), <3>3, <3>4
    <3> HIDE DEF A, B, C
    <3>7. IsFiniteSet(A \union B)
      BY ZenonT(60), <3>2, FS_Union
    <3>8. IsFiniteSet((A \union B) \union C)
      BY ZenonT(60), <3>6, <3>7, FS_Union
    <3> QED
      BY SMTT(60), <3>5, <3>8
  <2>2. IsFiniteSet(Lagging(new))
    <3>1. Lagging(new) \subseteq Kinds
      BY Zenon DEF Lagging
    <3> QED
      BY Zenon, <2>1, <3>1, FS_Subset
  <2>3. Cardinality(Lagging(new)) = 0
    BY SMTT(60), <1>1, <2>2, FS_CardinalityType
  <2>4. Lagging(new) = {}
    BY Zenon, <2>2, <2>3, FS_EmptySet
  <2>5. ASSUME NEW c \in Children
        PROVE  cache[c] = new[c]
    BY Zenon, <2>4, ChildSets DEF Lagging
  <2> QED
    BY <2>5 DEF TypeOK
<1> QED
  BY <1>1 DEF Prompt

\* A spec that is edited keeps its mode: the children it asks for stay the same.
ModeKept ==
    "edit" \in Disturbances => \A s, t \in Specs : s.gk = t.gk /\ s.obs = t.obs

\* What a step may do to the CR when the cache does not lag.
CRStep ==
    \/ UNCHANGED cr
    \/ /\ UNCHANGED <<child, phase, inst, plan>> /\ cr'.live
       /\ cr.live => cr'.spec.gk = cr.spec.gk /\ cr'.spec.obs = cr.spec.obs
    \/ /\ UNCHANGED child /\ phase = "delete" /\ phase' = "idle" /\ plan = <<>>
       /\ inst = cr /\ ~cr'.live

\* Without lag a pass acts on the CR as it is.
LEMMA CRSteps ==
    ASSUME MaxLag = 0, ModeKept, TypeOK, crCache = cr, cr.spec \in Specs, [Next]_vars
    PROVE  CRStep /\ crCache' = cr' /\ cr'.spec \in Specs
<1>1. CASE UNCHANGED <<cr, crCache>> \/ SyncCR \/ Restart
  BY SMTT(60), <1>1 DEF SyncCR, Restart, CRStep
<1>2. ASSUME NEW new, ChangeCR(new)
      PROVE  cr' = new /\ crCache' = new /\ UNCHANGED <<child, phase, inst, plan>>
  BY SMTT(60), <1>2 DEF ChangeCR, WriteCR
<1>3. CASE DeleteCR
  <2> DEFINE new == [cr EXCEPT !.deleting = TRUE]
  <2>1. new.live /\ new.spec = cr.spec
    BY <1>3, Zenon DEF DeleteCR, TypeOK, CRStates
  <2>2. cr' = new /\ crCache' = new /\ UNCHANGED <<child, phase, inst, plan>>
    BY SMTT(60), <1>2, <1>3 DEF DeleteCR
  <2> HIDE DEF new
  <2> QED
    BY SMTT(60), <2>1, <2>2 DEF CRStep
<1>4. CASE EditCR
  <2>1. PICK spec \in Specs : ChangeCR([cr EXCEPT !.spec = spec])
    BY <1>4, Zenon DEF EditCR
  <2> DEFINE new == [cr EXCEPT !.spec = spec]
  <2>2. new.live /\ new.spec = spec
    BY <1>4 DEF EditCR, TypeOK, CRStates
  <2>3. cr' = new /\ crCache' = new /\ UNCHANGED <<child, phase, inst, plan>>
    BY <1>2, <2>1
  <2>4. spec.gk = cr.spec.gk /\ spec.obs = cr.spec.obs
    BY Zenon, <1>4 DEF EditCR, Fails, May, ModeKept
  <2> HIDE DEF new
  <2> QED
    BY <2>2, <2>3, <2>4 DEF CRStep
<1>5. CASE RecreateCR
  <2>1. PICK spec \in Specs :
          ChangeCR([live |-> TRUE, uid |-> cr.uid + 1, deleting |-> FALSE,
                    finalizer |-> TRUE, spec |-> spec])
    BY ZenonT(60), <1>5 DEF RecreateCR
  <2> DEFINE new == [live |-> TRUE, uid |-> cr.uid + 1, deleting |-> FALSE,
                     finalizer |-> TRUE, spec |-> spec]
  <2>2. new.live /\ new.spec = spec /\ ~cr.live
    BY Zenon, <1>5 DEF RecreateCR
  <2>3. cr' = new /\ crCache' = new /\ UNCHANGED <<child, phase, inst, plan>>
    BY SMTT(60), <1>2, <2>1
  <2> HIDE DEF new
  <2> QED
    BY <2>2, <2>3 DEF CRStep
<1>6. CASE RemoveFinalizer /\ ~UNCHANGED <<cr, crCache>>
  <2> DEFINE new == [cr EXCEPT !.live = FALSE, !.deleting = FALSE, !.finalizer = FALSE]
  <2>1. /\ phase = "delete" /\ phase' = "idle" /\ plan = <<>> /\ inst = cr /\ WriteCR(new)
        /\ UNCHANGED child
    BY <1>6, Zenon DEF RemoveFinalizer
  <2>2. ~new.live /\ new.spec = cr.spec
    BY DEF TypeOK, CRStates
  <2>3. cr' = new /\ crCache' = new
    BY SMTT(60), <2>1 DEF WriteCR
  <2> HIDE DEF new
  <2> QED
    BY Zenon, <2>1, <2>2, <2>3 DEF CRStep
<1>7. \/ UNCHANGED <<cr, crCache>> \/ SyncCR \/ Restart \/ DeleteCR \/ EditCR \/ RecreateCR
      \/ RemoveFinalizer
  BY ZenonT(60) DEF Next, OperatorStep, Reconcile, InstallStep, DeleteStep, Cluster, Resync,
     SyncKind, PodsStart, PodsFail, SetAvailable, GarbageCollect, InstallGatekeeper,
     RemoveGatekeeper, vars
<1> QED
  BY SMTT(60), <1>1, <1>3, <1>4, <1>5, <1>6, <1>7

\* The plans depend on the mode alone.
LEMMA PlansOfMode ==
    ASSUME NEW s, NEW t, s.gk = t.gk, s.obs = t.obs
    PROVE  InstallPlan(s) = InstallPlan(t) /\ DeletePlan(s) = DeletePlan(t)
BY SMTT(60) DEF InstallPlan, DeletePlan

\* What is created has its place in the plan of the deletion, and the CR goes
\* only when that plan is done.
LEMMA CleanStep ==
    ASSUME MaxLag = 0, "dropped" \notin Disturbances, ModeKept,
           TypeOK, PlanInv, OrderInv, CleanInv, [Next]_vars
    PROVE  CleanInv'
<1>1. ChildStep /\ PassStep
  BY SMTT(60), ChildSteps, PassSteps
<1>2. CRStep /\ crCache' = cr' /\ cr'.spec \in Specs
  BY Zenon, CRSteps DEF CleanInv
<1>3. cache' = child'
  BY Zenon, <1>1, PromptCache DEF ChildStep, CleanInv
<1>4. child'["ConstraintTemplate"].live => gatekeeper'
  BY SMTT(60), <1>1 DEF ChildStep, CleanInv
<1>5. ASSUME NEW c \in ClusterScoped, child'[c].live, ~child[c].live
      PROVE  UNCHANGED cr /\ cr.live /\ c \in Range(InstallPlan(cr.spec))
             /\ phase = "install"
  <2>1. phase = "install" /\ c = Head(plan)
    BY Zenon, <1>1, <1>5, ChildSets DEF ChildStep
  <2>2. c \in Range(InstallPlan(inst.spec))
    BY SMTT(60), <2>1, RangeOfTail DEF PlanInv, TypeOK
  <2>3. cr.live /\ inst.spec.gk = cr.spec.gk /\ inst.spec.obs = cr.spec.obs
    BY Zenon, <2>1 DEF CleanInv
  <2>4. UNCHANGED cr
    BY Zenon, <1>2, <1>5 DEF CRStep
  <2> QED
    BY SMTT(60), <2>1, <2>2, <2>3, <2>4, PlansOfMode
<1>6. ASSUME phase' # "idle"
      PROVE  /\ cr'.live
             /\ inst'.spec.gk = cr'.spec.gk /\ inst'.spec.obs = cr'.spec.obs
  <2>1. CASE PassBegins
    BY Zenon, <2>1 DEF PassBegins, CleanInv, Ended
  <2>2. CASE UNCHANGED <<phase, inst>>
    BY <1>2, <1>6, <2>2, Zenon DEF CRStep, CleanInv
  <2> QED
    BY SMTT(60), <1>1, <1>6, <2>1, <2>2 DEF PassStep, PassAdvances
<1>7. ASSUME cr'.live, NEW c \in ClusterScoped, child'[c].live
      PROVE  c \in Range(InstallPlan(cr'.spec))
  <2>1. CASE ~child[c].live
    BY Zenon, <1>5, <1>7, <2>1
  <2>2. CASE child[c].live
    <3>1. cr.live
      BY <2>2 DEF CleanInv, NoOrphans
    <3>2. c \in Range(InstallPlan(cr.spec))
      BY <2>2, <3>1, Zenon DEF CleanInv
    <3>3. cr'.spec.gk = cr.spec.gk /\ cr'.spec.obs = cr.spec.obs
      BY <1>2, <1>7, <3>1, Zenon DEF CRStep
    <3> QED
      BY Zenon, <3>2, <3>3, PlansOfMode
  <2> QED
    BY <2>1, <2>2
<1>8. ASSUME phase' = "delete", NEW c \in Range(DeletePlan(inst'.spec))
      PROVE  c \in Range(plan') \/ ~child'[c].live
  <2>1. CASE PassBegins
    BY <1>8, <2>1, Zenon DEF PassBegins
  <2>2. c \in ClusterScoped
    BY DeletePlanFacts DEF Range
  <2>3. phase # "install" => (child'[c].live => child[c].live)
    BY SMTT(60), <1>5, <2>2
  <2>4. CASE UNCHANGED <<phase, inst, plan>>
    BY Zenon, <1>8, <2>3, <2>4 DEF CleanInv
  <2>5. CASE PassAdvances
    <3>1. /\ phase = "delete" /\ inst' = inst /\ plan # <<>> /\ plan' = Tail(plan)
          /\ \/ ~child'[Head(plan)].live
             \/ /\ UNCHANGED child
                /\ \/ ~cache[Head(plan)].live
                   \/ Head(plan) = "ConstraintTemplate" /\ ~gatekeeper
      BY SMTT(60), <1>8, <2>5 DEF PassAdvances
    <3>2. Range(plan) = {Head(plan)} \union Range(plan')
      BY Zenon, <3>1, RangeOfTail DEF TypeOK
    <3>3. ~child'[Head(plan)].live
      BY <3>1 DEF CleanInv
    <3> QED
      BY SMTT(60), <2>3, <3>1, <3>2, <3>3 DEF CleanInv
  <2> QED
    BY SMTT(60), <1>1, <1>8, <2>1, <2>4, <2>5 DEF PassStep
<1>9. ASSUME ~cr'.live, NEW c \in ClusterScoped, child'[c].live
      PROVE  FALSE
  <2>1. child[c].live
    BY Zenon, <1>5, <1>9
  <2>2. cr.live /\ c \in Range(InstallPlan(cr.spec))
    BY <2>1 DEF CleanInv, NoOrphans
  <2>3. phase = "delete" /\ plan = <<>> /\ inst = cr
    BY <1>2, <1>9, <2>2 DEF CRStep
  <2>4. c \in Range(DeletePlan(inst.spec))
    BY <2>2, <2>3, DeletePlanFacts, Zenon
  <2>5. c \notin Range(plan)
    BY <2>3 DEF Range
  <2> QED
    BY SMTT(60), <2>1, <2>3, <2>4, <2>5 DEF CleanInv
<1> QED
  BY Zenon, <1>2, <1>3, <1>4, <1>6, <1>7, <1>8, <1>9 DEF CleanInv, NoOrphans

\* With a cache that does not lag, no dropped error and no change of mode, the
\* removal of the CR leaves no cluster-scoped child, however often calls fail,
\* the operator restarts, pods fail, Gatekeeper is removed or the CR is created
\* again.
THEOREM RemovalIsClean ==
    (MaxLag = 0 /\ "dropped" \notin Disturbances /\ ModeKept) => (Spec => []NoOrphans)
<1> SUFFICES ASSUME MaxLag = 0, "dropped" \notin Disturbances, ModeKept
             PROVE  Spec => []NoOrphans
  BY Zenon
<1>1. Init => TypeOK /\ PlanInv /\ OrderInv /\ CleanInv
  <2> SUFFICES ASSUME Init
               PROVE  TypeOK /\ PlanInv /\ OrderInv /\ CleanInv
    BY Zenon
  <2>1. \A c \in Children : ~child[c].live
    BY Zenon DEF Init, Gone
  <2> QED
    BY ZenonT(60), <2>1, InitTyped, ChildSets DEF Init, CleanInv, NoOrphans
<1>2. TypeOK /\ PlanInv /\ OrderInv /\ CleanInv /\ [Next]_vars
        => (TypeOK /\ PlanInv /\ OrderInv /\ CleanInv)'
  BY Zenon, TypeStep, PlanStep, OrderStep, CleanStep
<1>3. CleanInv => NoOrphans
  BY Zenon DEF CleanInv
<1> QED
  BY <1>1, <1>2, <1>3, PTL DEF Spec
=============================================================================
