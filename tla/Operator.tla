------------------------------ MODULE Operator ------------------------------
(***************************************************************************)
(* The operator (integrity-shield-operator): Reconcile brings the children *)
(* of an IntegrityShield resource (the CR) into the cluster one API call   *)
(* at a time, and removes the cluster-scoped ones before it lets the CR    *)
(* go.  The namespaced children of a CR that is gone are garbage collected *)
(* by Kubernetes.                                                          *)
(*                                                                         *)
(* The operator reads from the cache of its client, which may lag behind   *)
(* the API server, and writes to the API server.  It watches only the CR:  *)
(* a reconcile is queued by a change of the CR, by the result of the       *)
(* previous one, by the periodic resync or by a restart.                   *)
(***************************************************************************)
EXTENDS OperatorPlan, Integers, Sequences, FiniteSets

CONSTANTS
    Specs,          \* specs an admin gives the CR: [gk, obs, ver]
    MaxLag,         \* bound: kinds whose cache lags behind the API server at once
    Disturbances,   \* what may go wrong or change in the cluster, see below
    MaxDisturbances \* bound: how often, all kinds together

AllSpecs == [gk : BOOLEAN, obs : BOOLEAN, ver : Nat]

\* "fault": a call of the client fails and the code returns its error;
\* "dropped": a call fails and the code drops its error; "crash": the operator
\* restarts; "outage": the pods of a Deployment become unavailable;
\* "gatekeeper": Gatekeeper is removed; "edit": an admin edits the spec of the
\* CR; "recreate": an admin creates the CR again after its removal.
AllDisturbances ==
    {"fault", "dropped", "crash", "outage", "gatekeeper", "edit", "recreate"}

ASSUME OperatorAssumption ==
    /\ Specs \subseteq AllSpecs
    /\ MaxLag \in Nat
    /\ Disturbances \subseteq AllDisturbances
    /\ MaxDisturbances \in Nat

-----------------------------------------------------------------------------
VARIABLES
    cr,         \* the stored IntegrityShield
    crCache,    \* ... as the operator sees it
    child,      \* the stored children
    cache,      \* ... as the operator sees them
    gatekeeper, \* whether the CRD of Gatekeeper's templates is installed
    queued,     \* whether a reconcile is due
    phase,      \* what the running reconcile does
    inst,       \* the CR it fetched
    plan,       \* the children it has still to look at
    certs,      \* certificates generated and stored so far
    disturbed   \* disturbances so far

operator == <<queued, phase, inst, plan>>
vars     == <<cr, crCache, child, cache, gatekeeper, operator, certs, disturbed>>

\* rev is what the properties tell apart of a child: the certificate of a
\* Secret, the CABundle of the webhook, the spec of a Deployment, the count of
\* the Event.  The resourceVersion of a child is the whole record.
ChildStates ==
    [live : BOOLEAN, owner : Nat, rev : Nat, available : BOOLEAN]
Gone == [live |-> FALSE, owner |-> 0, rev |-> 0, available |-> FALSE]

CRStates ==
    [live : BOOLEAN, uid : Nat, deleting : BOOLEAN, finalizer : BOOLEAN, spec : AllSpecs]

TypeOK ==
    /\ cr \in CRStates /\ crCache \in CRStates /\ inst \in CRStates
    /\ child \in [Children -> ChildStates]
    /\ cache \in [Children -> ChildStates]
    /\ gatekeeper \in BOOLEAN /\ queued \in BOOLEAN
    /\ phase \in {"idle", "install", "delete"}
    /\ plan \in Seq(Children)
    /\ certs \in Nat /\ disturbed \in Nat

Init ==
    /\ \E spec \in Specs :
         cr = [live |-> TRUE, uid |-> 1, deleting |-> FALSE, finalizer |-> TRUE,
               spec |-> spec]
    /\ crCache = cr
    /\ child = [c \in Children |-> Gone]
    /\ cache = child
    /\ gatekeeper \in BOOLEAN
    /\ queued = TRUE
    /\ phase = "idle"
    /\ inst = cr
    /\ plan = <<>>
    /\ certs = 0
    /\ disturbed = 0

-----------------------------------------------------------------------------
(* Reconcile *)

May(kind) == kind \in Disturbances /\ disturbed < MaxDisturbances

\* The API server writes; the cache follows later, or at once beyond MaxLag.
Lagging(new) == {kind \in Kinds : \E c \in kind : cache[c] # new[c]}

Write(new) ==
    /\ child' = new
    /\ cache' = IF Cardinality(Lagging(new)) <= MaxLag THEN cache ELSE new

NoWrite == UNCHANGED <<child, cache, certs>>

\* Result{Requeue: true} and an error both queue the CR again.
Requeue ==
    /\ queued' = TRUE
    /\ phase' = "idle"
    /\ plan' = <<>>

\* Result{}: on to the next child; the last one ends an install pass.
Proceed ==
    /\ plan' = Tail(plan)
    /\ phase' = IF phase = "install" /\ Len(plan) = 1 THEN "idle" ELSE phase
    /\ UNCHANGED queued

Fails(kind) ==
    /\ May(kind)
    /\ disturbed' = disturbed + 1

\* Get fails with an error other than NotFound, or the write fails.
ErrorOr(step) ==
    \/ Fails("fault") /\ NoWrite /\ Requeue
    \/ step /\ UNCHANGED disturbed

\* Fetch the instance and choose between the finalizer step and the install.
Reconcile ==
    /\ phase = "idle" /\ queued
    /\ \/ Fails("fault") /\ Requeue /\ UNCHANGED inst
       \/ /\ queued' = FALSE
          /\ inst' = crCache
          /\ \/ /\ crCache.live /\ crCache.deleting /\ crCache.finalizer
                /\ phase' = "delete"
                /\ plan' = DeletePlan(crCache.spec)
             \/ /\ crCache.live /\ ~crCache.deleting
                /\ phase' = "install"
                /\ plan' = InstallPlan(crCache.spec)
             \/ /\ ~crCache.live \/ (crCache.deleting /\ ~crCache.finalizer)
                /\ UNCHANGED <<phase, plan>>
          /\ UNCHANGED disturbed
    /\ UNCHANGED <<cr, crCache, child, cache, gatekeeper, certs>>

Created(rev) == [live |-> TRUE, owner |-> inst.uid, rev |-> rev, available |-> FALSE]

\* The pattern of the createOrUpdate functions: what the cache does not show
\* is created, and the reconcile starts again, also if it exists already.
CreateMissing(c, rev) ==
    /\ ~cache[c].live
    /\ \/ /\ ~child[c].live
          /\ Write([child EXCEPT ![c] = Created(rev)])
       \/ child[c].live /\ UNCHANGED <<child, cache>>
    /\ Requeue

CreateOnly(c) ==
    \/ CreateMissing(c, 0) /\ UNCHANGED certs
    \/ cache[c].live /\ NoWrite /\ Proceed

createOrUpdateConfigMap(c)          == c \in ConfigMaps /\ CreateOnly(c)
createOrUpdateServiceAccount(c)     == c \in ServiceAccounts /\ CreateOnly(c)
createOrUpdateRole(c)               == c \in Roles /\ CreateOnly(c)
createOrUpdateRoleBinding(c)        == c \in RoleBindings /\ CreateOnly(c)
createOrUpdateClusterRole(c)        == c \in ClusterRoles /\ CreateOnly(c)
createOrUpdateClusterRoleBinding(c) == c \in ClusterRoleBindings /\ CreateOnly(c)
createOrUpdateService(c)            == c \in Services /\ CreateOnly(c)

\* Mutant: the certificate is renewed in every pass.
SecretRenewed(c) ==
    /\ c \in Secrets
    /\ \/ /\ CreateMissing(c, certs + 1)
          /\ certs' = IF child[c].live THEN certs ELSE certs + 1
       \/ /\ cache[c].live /\ cache[c] = child[c]
          /\ Write([child EXCEPT ![c].rev = certs + 1]) /\ certs' = certs + 1 /\ Proceed

\* addCertValues generates a certificate; it is kept only by a Create.
createOrUpdateSecret(c) ==
    /\ c \in Secrets
    /\ \/ /\ CreateMissing(c, certs + 1)
          /\ certs' = IF child[c].live THEN certs ELSE certs + 1
       \/ cache[c].live /\ NoWrite /\ Proceed

\* If the API server's defaults make the spec differ it is written back, which
\* fails for an outdated copy and changes nothing of interest otherwise.
createOrUpdateCRD(c) ==
    /\ c \in CRDs
    /\ \/ CreateOnly(c)
       \/ cache[c].live /\ cache[c] # child[c] /\ NoWrite /\ Requeue

\* Mutant: a Deployment that differs is not updated.
DeploymentCreatedOnly(c) ==
    /\ c \in Deployments
    /\ \/ CreateMissing(c, inst.spec.ver)
       \/ cache[c].live /\ UNCHANGED <<child, cache>> /\ Proceed
    /\ UNCHANGED certs

\* A Deployment that differs is updated and the reconcile starts again; an
\* outdated copy is refused by the API server.
createOrUpdateDeployment(c) ==
    /\ c \in Deployments
    /\ \/ CreateMissing(c, inst.spec.ver)
       \/ /\ cache[c].live /\ cache[c].rev # inst.spec.ver
          /\ IF cache[c] = child[c] THEN Write([child EXCEPT ![c].rev = inst.spec.ver])
                                    ELSE UNCHANGED <<child, cache>>
          /\ Requeue
       \/ cache[c].live /\ cache[c].rev = inst.spec.ver /\ UNCHANGED <<child, cache>> /\ Proceed
    /\ UNCHANGED certs

isGatekeeperAvailable == gatekeeper

createOrUpdateConstraintTemplate(c) ==
    /\ c = "ConstraintTemplate"
    /\ \/ isGatekeeperAvailable /\ CreateOnly(c)
       \/ ~isGatekeeperAvailable /\ NoWrite /\ Requeue

\* Mutant: AvailableReplicas > 1, where the Deployment has one replica.
MoreThanOneReplica == FALSE

isDeploymentAvailable ==
    LET d == "AdmissionControllerDeployment" IN cache[d].live /\ cache[d].available

\* The Event after a write that follows what the cache shows.
createOrUpdateWebhookEvent ==
    LET old == child["WebhookEvent"]
        new == [live |-> TRUE, owner |-> 0, rev |-> old.rev + 1, available |-> FALSE]
    IN  IF cache["WebhookEvent"] = old THEN new ELSE old

CreateWebhook(cabundle, event) ==
    /\ ~cache["Webhook"].live
    /\ \/ /\ ~child["Webhook"].live
          /\ Write([child EXCEPT !["Webhook"] = Created(cabundle),
                                 !["WebhookEvent"] = event])
       \/ child["Webhook"].live /\ UNCHANGED <<child, cache>>
    /\ UNCHANGED certs
    /\ Requeue

\* The CABundle is that of the Secret in the cache, or empty.
createOrUpdateWebhook ==
    \/ CreateWebhook(cache["ACTlsSecret"].rev, createOrUpdateWebhookEvent)
    \/ cache["Webhook"].live /\ NoWrite /\ Proceed

\* If the Secret cannot be read the webhook is created with an empty CABundle,
\* and a failure to write the Event is ignored.
CreateWebhookAnyway ==
    \/ CreateWebhook(0, createOrUpdateWebhookEvent)
    \/ CreateWebhook(cache["ACTlsSecret"].rev, child["WebhookEvent"])

\* Mutant: a child that is not found is an error.
NotFoundIsAnError(c, done) ==
    \/ /\ cache[c].live /\ child[c].live
       /\ Write([child EXCEPT ![c] = Gone]) /\ UNCHANGED certs
       /\ done
    \/ ~(cache[c].live /\ child[c].live) /\ NoWrite /\ Requeue

\* The pattern of the delete functions: what the cache does not show counts as
\* deleted; a child that is gone from the API server already is an error.
DeleteChild(c, done) ==
    \/ /\ cache[c].live /\ child[c].live
       /\ Write([child EXCEPT ![c] = Gone]) /\ UNCHANGED certs
       /\ done
    \/ cache[c].live /\ ~child[c].live /\ NoWrite /\ Requeue
    \/ ~cache[c].live /\ NoWrite /\ done

deleteWebhook(done) == DeleteChild("Webhook", done)

\* The webhook exists only while the admission controller can answer.
InstallWebhook(c) ==
    /\ c = "Webhook"
    /\ \/ isDeploymentAvailable /\ ErrorOr(createOrUpdateWebhook)
       \/ ~isDeploymentAvailable /\ ErrorOr(deleteWebhook(Requeue))
       \/ isDeploymentAvailable /\ Fails("dropped") /\ CreateWebhookAnyway
       \/ Fails("dropped") /\ deleteWebhook(Requeue)

\* One createOrUpdate call of Reconcile.
InstallStep ==
    /\ phase = "install"
    /\ LET c == Head(plan) IN
       \/ InstallWebhook(c)
       \/ /\ c # "Webhook"
          /\ ErrorOr(\/ createOrUpdateConfigMap(c) \/ createOrUpdateServiceAccount(c)
                     \/ createOrUpdateRole(c) \/ createOrUpdateRoleBinding(c)
                     \/ createOrUpdateClusterRole(c) \/ createOrUpdateClusterRoleBinding(c)
                     \/ createOrUpdateCRD(c) \/ createOrUpdateSecret(c)
                     \/ createOrUpdateDeployment(c) \/ createOrUpdateService(c)
                     \/ createOrUpdateConstraintTemplate(c))
    /\ UNCHANGED <<cr, crCache, gatekeeper, inst>>

deleteClusterRole(c)        == c \in ClusterRoles /\ DeleteChild(c, Proceed)
deleteClusterRoleBinding(c) == c \in ClusterRoleBindings /\ DeleteChild(c, Proceed)
deleteCRD(c)                == c \in CRDs /\ DeleteChild(c, Proceed)

\* Without Gatekeeper there is no template to delete.
deleteConstraintTemplate(c) ==
    /\ c = "ConstraintTemplate"
    /\ \/ isGatekeeperAvailable /\ DeleteChild(c, Proceed)
       \/ ~isGatekeeperAvailable /\ NoWrite /\ Proceed

\* A failed read in isGatekeeperAvailable counts as "not available".
SkipTemplate ==
    /\ Head(plan) = "ConstraintTemplate"
    /\ Fails("dropped") /\ NoWrite /\ Proceed

\* One delete call of deleteClusterScopedChildrenResources.
DeleteStep ==
    /\ phase = "delete" /\ plan # <<>>
    /\ LET c == Head(plan) IN
       \/ SkipTemplate
       \/ ErrorOr(\/ deleteClusterRole(c) \/ deleteClusterRoleBinding(c) \/ deleteCRD(c)
                  \/ deleteConstraintTemplate(c)
                  \/ (c = "Webhook" /\ deleteWebhook(Proceed)))
    /\ UNCHANGED <<cr, crCache, gatekeeper, inst>>

\* A write of the CR; its watch queues a reconcile when the cache follows.
WriteCR(new) ==
    /\ cr' = new
    /\ crCache' = IF MaxLag > 0 THEN crCache ELSE new

\* Mutant: the return after the finalizer step is missing.
InstallAfterFinalizer ==
    /\ phase = "delete" /\ plan = <<>>
    /\ inst = cr
    /\ WriteCR([cr EXCEPT !.live = FALSE, !.deleting = FALSE, !.finalizer = FALSE])
    /\ phase' = "install" /\ plan' = InstallPlan(inst.spec)
    /\ UNCHANGED <<child, cache, gatekeeper, queued, inst, certs, disturbed>>

\* The last finalizer is removed and with it the CR, if the copy is current.
RemoveFinalizer ==
    /\ phase = "delete" /\ plan = <<>>
    /\ phase' = "idle"
    /\ \/ /\ inst = cr /\ UNCHANGED disturbed
          /\ WriteCR([cr EXCEPT !.live = FALSE, !.deleting = FALSE, !.finalizer = FALSE])
          /\ queued' = (queued \/ MaxLag = 0)
       \/ /\ (inst # cr /\ UNCHANGED disturbed) \/ Fails("fault")
          /\ queued' = TRUE
          /\ UNCHANGED <<cr, crCache>>
    /\ UNCHANGED <<child, cache, gatekeeper, inst, plan, certs>>

OperatorStep == Reconcile \/ InstallStep \/ DeleteStep \/ RemoveFinalizer

-----------------------------------------------------------------------------
(* The cluster around the operator *)

\* A change of the CR that the cache shows at once, or later through SyncCR.
ChangeCR(new) ==
    /\ WriteCR(new)
    /\ queued' = (queued \/ MaxLag = 0)
    /\ UNCHANGED <<child, cache, gatekeeper, phase, inst, plan, certs>>

\* kubectl delete: the finalizer keeps the CR until the operator removes it.
DeleteCR ==
    /\ cr.live /\ ~cr.deleting
    /\ ChangeCR([cr EXCEPT !.deleting = TRUE])
    /\ UNCHANGED disturbed

EditCR ==
    /\ Fails("edit")
    /\ cr.live
    /\ \E spec \in Specs \ {cr.spec} : ChangeCR([cr EXCEPT !.spec = spec])

RecreateCR ==
    /\ Fails("recreate")
    /\ ~cr.live
    /\ \E spec \in Specs :
         ChangeCR([live |-> TRUE, uid |-> cr.uid + 1, deleting |-> FALSE,
                   finalizer |-> TRUE, spec |-> spec])

SyncCR ==
    /\ crCache # cr
    /\ crCache' = cr
    /\ queued' = TRUE
    /\ UNCHANGED <<cr, child, cache, gatekeeper, phase, inst, plan, certs, disturbed>>

\* The informer of one kind catches up.
SyncKind(kind) ==
    /\ kind \in Lagging(child)
    /\ cache' = [c \in Children |-> IF c \in kind THEN child[c] ELSE cache[c]]
    /\ UNCHANGED <<cr, crCache, child, gatekeeper, operator, certs, disturbed>>

Resync ==
    /\ crCache.live /\ ~queued
    /\ queued' = TRUE
    /\ UNCHANGED <<cr, crCache, child, cache, gatekeeper, phase, inst, plan, certs, disturbed>>

\* The informers list the objects again and queue the CR.
Restart ==
    /\ Fails("crash")
    /\ crCache' = cr /\ cache' = child
    /\ queued' = TRUE /\ phase' = "idle" /\ plan' = <<>>
    /\ UNCHANGED <<cr, child, gatekeeper, inst, certs>>

SetAvailable(d, up) ==
    /\ child[d].live /\ child[d].available # up
    /\ Write([child EXCEPT ![d].available = up])
    /\ UNCHANGED <<cr, crCache, gatekeeper, operator, certs>>

PodsStart(d) == SetAvailable(d, TRUE) /\ UNCHANGED disturbed
PodsFail(d)  == SetAvailable(d, FALSE) /\ Fails("outage")

\* The namespaced children whose owner is gone; cluster-scoped ones are ignored.
Garbage == {c \in Namespaced : child[c].live /\ ~(cr.live /\ cr.uid = child[c].owner)}

GarbageCollect ==
    /\ Garbage # {}
    /\ Write([c \in Children |-> IF c \in Garbage THEN Gone ELSE child[c]])
    /\ UNCHANGED <<cr, crCache, gatekeeper, operator, certs, disturbed>>

InstallGatekeeper ==
    /\ ~gatekeeper /\ gatekeeper' = TRUE
    /\ UNCHANGED <<cr, crCache, child, cache, operator, certs, disturbed>>

\* The templates go with the CRD that defines them.
RemoveGatekeeper ==
    /\ Fails("gatekeeper")
    /\ gatekeeper /\ gatekeeper' = FALSE
    /\ Write([child EXCEPT !["ConstraintTemplate"] = Gone])
    /\ UNCHANGED <<cr, crCache, operator, certs>>

Cluster ==
    \/ DeleteCR \/ EditCR \/ RecreateCR \/ SyncCR \/ Resync \/ Restart
    \/ \E kind \in Kinds : SyncKind(kind)
    \/ \E d \in Deployments : PodsStart(d) \/ PodsFail(d)
    \/ GarbageCollect \/ InstallGatekeeper \/ RemoveGatekeeper

Next == OperatorStep \/ Cluster

Spec == Init /\ [][Next]_vars

\* The worker of the controller runs, the watches deliver, the resync timer
\* fires, Kubernetes starts pods and collects garbage.
Fairness ==
    /\ WF_vars(OperatorStep) /\ WF_vars(Resync) /\ WF_vars(GarbageCollect)
    /\ WF_vars(SyncCR \/ \E kind \in Kinds : SyncKind(kind))
    /\ WF_vars(\E d \in Deployments : PodsStart(d))

FairSpec == Spec /\ Fairness

-----------------------------------------------------------------------------
(* Properties *)

\* While the CR exists, a registered webhook has what it needs to answer: the
\* Deployment, its Service, Secret and ServiceAccount and both configurations.
\* createOrUpdateWebhook comes last, and nothing of this is removed before the
\* CR, whatever the cache shows and wherever a pass is cut short.
WebhookHasBackend ==
    (cr.live /\ child["Webhook"].live) =>
        \A c \in {"AdmissionControllerDeployment", "WebhookService", "ACTlsSecret",
                  "ACConfig", "RequestHandlerConfig", "IShieldApiServiceAccount"} :
            child[c].live

\* The CABundle of the webhook is the CA of the certificate the admission
\* controller serves, although createOrUpdateWebhook reads it from the cache
\* and addCertValues generates a new certificate in every pass.
WebhookTrustsServer ==
    (cr.live /\ child["Webhook"].live) => child["Webhook"].rev = child["ACTlsSecret"].rev

\* "delete any cluster scope resources owned by the instance" (comment of
\* deleteClusterScopedChildrenResources): once the CR is gone, no cluster-scoped
\* child is left.
NoOrphans == ~cr.live => \A c \in ClusterScoped : ~child[c].live

\* Nothing is created for a CR that is gone: the finalizer makes the operator
\* see the deletion before the CR disappears.
NothingCreatedForGoneCR ==
    [][~cr.live => \A c \in Children : child'[c].live => child[c].live]_vars

Installed ==
    LET wanted == InstallPlan(cr.spec) IN
    \A i \in DOMAIN wanted :
        /\ child[wanted[i]].live
        /\ wanted[i] \in Deployments => child[wanted[i]].rev = cr.spec.ver

\* If the CR stays, and Gatekeeper with it where it is asked for, every child of
\* its mode is there for good in the end, up to date with the spec: Reconcile
\* starts again after everything it changes and gets past what is there.
EventuallyInstalled ==
    <>[](cr.live /\ ~cr.deleting /\ (cr.spec.gk => gatekeeper)) => <>[]Installed

\* A deleted CR goes away: the finalizer step is retried until it succeeds.
DeletionCompletes == (cr.live /\ cr.deleting) ~> ~cr.live
=============================================================================
