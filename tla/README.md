# Integrity Shield in TLA+

Integrity Shield keeps unsigned or altered manifests out of a Kubernetes
cluster. This directory holds TLA+ models of it, the TLC configurations that
check them on small instances, and TLAPS proofs about the models.

## The system and its parts

| part | source | model |
|---|---|---|
| request handler: the verdict on one request for one constraint | `shield/pkg/shield/request_handler.go`, `shield/pkg/config` | `RequestHandler` |
| admission controller: the webhook, the constraints (ManifestIntegrityProfiles, MIPs), their status | `webhook/admission-controller` | `Admission`, `Enforcement` |
| deny Events | `createOrUpdateEvent` in the request handler | `Admission` |
| matchers: kinds, namespaces, labels, users, images | `constraint.go`, `parameter.go`, `admission_controller_config.go`, `observer.go` | `Matching`, `Decision` |
| key files and the Rekor setting shared by the requests of a process | `LoadKeySecret`, `REKOR_SERVER` | `KeyFile` |
| shield API server, called by Gatekeeper's constraint template | `shield/main.go`, the sample CR with the Rego rule | `ShieldAPI` |
| operator: installs and removes all of it for an `IntegrityShield` resource (the CR) | `integrity-shield-operator/controllers` | `OperatorPlan`, `Operator` |
| what the operator creates: names, references, roles, certificates | `integrity-shield-operator/resources` | `Manifests`, `Rollout` |
| observer: verifies stored resources periodically | `observer` | `Observer` |

The API server sends a request to the admission controller. `ProcessRequest`
loads its configuration, lists the MIPs, and calls `RequestHandler` for each one
that matches. `RequestHandler` loads a configuration of its own, loads key
Secrets into files, decides, and writes a deny Event for a refusal. The results
are accumulated, the detect mode may turn a refusal into a permission, and the
status of each MIP that refused is updated. With Gatekeeper, a constraint template
posts the request to the shield API server instead, which calls the same
`RequestHandler`. The observer runs the same checks on resources that are already
stored and exports what it finds as ManifestIntegrityStates. The operator creates
the configurations, Deployments, Services, roles, certificates and the webhook
registration that these parts need.

## Modules

**RequestHandler** is a pure operator, `Handle(facts, action, config)`. What the
matchers, `mutationCheck` and the signature libraries answer about a request is
a record of facts. The control flow is kept: two failures refuse without
enforcement, so they allow; the mutation check returns early; then the chain of
skip rules and signatures decides. The facts of two constraints about one request
are chosen independently, which covers more than the code can meet.

**Admission** has one handler per concurrent webhook call. The stored objects are
`mip`, `event`, `acConfig` and `rhConfig`; everything else of a handler is local.
Each call to the API server is a step of its own, may fail if `ApiFaults`, and an
Update is accepted only with the stored resourceVersion.

| action | code |
|---|---|
| `Receive`, `Respond` | entry and return of `ProcessRequest` |
| `LoadAdmissionControllerConfig` | configuration, scope and allow check; a nil configuration panics |
| `LoadConstraints` | the List of the MIPs |
| `CheckConstraint` | one turn of the loop over the MIPs, with `RequestHandler` up to its Event |
| `GetEvent`, `PutEvent` | `createOrUpdateEvent` |
| `Accumulate` | `getAccumulatedResult`, detect mode, choice of the status updates |
| `GetMIP`, `PutMIP` | `updateConstraintStatus` |
| `Timeout`, `EditConstraint`, `EditConfigs`, `ExpireEvent` | the API server and an admin |

The variables `recorded`, `counted` and `refused` are history: no step reads them.

**Enforcement** is the contract of the admission controller: no handlers, no
copies, no resourceVersions. A constraint refuses a request, the refusal is noted
in the status of its MIP in one step and at most once, a request is answered once
and a denial has a refusal behind it, and a MIP that is deleted takes its status
along. **AdmissionContract** maps `Admission` to it.

**Matching** holds the matchers as operators over sets and sequences, the
admission controller's, `RequestHandler`'s and the observer's. **Decision** runs
one request through `ProcessRequest`, `matchCheck` and `RequestHandler` with the
lists an admin wrote, where `Admission` takes the outcomes as facts. A pattern is a
literal value or a wildcard, and the constant `Wildcards` says which patterns are
wildcards: `"*"`, with or without the empty pattern. The library that matches them is
not part of this repository. An entry that leaves a field out matches any value of it,
under both readings (`MatchField`).

**KeyFile** is one process of the admission controller or the API server. Each
request reads a Secret (`Get`), opens and truncates the file of this Secret
(`OpenFile`), writes it (`Write`), and verifies with what the file holds then
(`Verify`), first for the manifest and then for its images. The content of a file
is a sequence of versions, as long as the key: a short key written over a long one
leaves its end. `REKOR_SERVER` is an item like a key without the open.

**ShieldAPI** is the rule of the constraint template (`http_post`, `Decide`), the
server's `requestHandler` with its error answers and panics, and other clients that
post anything the decoding tells apart.

**Observer** has one step per API call of a pass. Of the constraint it is at, a pod keeps
the List calls it has still to make (`calls`, by target and place), the copies it got
(`listed`, with the place of the call, because two calls can return one resource) and
whether a list failed on the way (`extent`). A summary carries, as history, the
resources that changed since its pass selected them (`changed`).

| action | code |
|---|---|
| `InitObserver` | discovery of the API resources at start |
| `LoadConfig`, `loadConstraints` | the two loads of `Run`; a configuration that was not loaded is dereferenced |
| `Select`, `getAllResoucesByGroupResource`, `Verify` | the namespaces of a constraint, the List calls, the verification of the copies |
| `exportVerifyResultGet`, `exportVerifyResultPut` | the ManifestIntegrityState of a constraint |
| `exportResultDetailGet`, `exportResultDetailPut` | the ConfigMap with the details |
| `Tick`, `Killed`, `StartPod` | the ticker; a killed pod; a second pod |

**OperatorPlan** lists the children in the order of the code: `InstallPlan` of a
spec, and `DeletePlan` of the finalizer step. `Operator` and `Rollout` share it.

**Operator** models `Reconcile` one child at a time. `plan` is the list of
children the running pass has still to look at. Reads come from `cache` and
`crCache`, writes go to `child` and `cr`. The informers of the kinds lag behind
independently (`SyncKind`). `rev` stands for what matters of a child: the
certificate of a Secret, the CABundle of the webhook, the version of a Deployment.
The garbage collector takes all namespaced children of a CR that is gone in one
step, and never a cluster-scoped one (comment at `integrityshield_controller.go:271`).
The cached client is taken to ignore the namespace in the key of a cluster-scoped
object, as `createOrUpdateConstraintTemplate` relies on.

**Manifests** holds the builders of the children, reduced to names, references,
selectors, ports, rules and certificates, the API calls that each component makes,
and what Kubernetes makes of RBAC rules and Service selectors. **Rollout** runs the
install pass of `Reconcile` with them while the CR is edited. It has no cache and no
removal; `Operator` has those.

`Disturbances` names what may go wrong or change:

| name | effect |
|---|---|
| `fault` | a call fails and the code returns the error |
| `dropped` | a call fails and the code drops the error: `isDeploymentAvailable`, `isGatekeeperAvailable`, the Secret and the Event of `createOrUpdateWebhook` |
| `crash` | the operator restarts |
| `outage` | the pods of a Deployment fail |
| `gatekeeper` | Gatekeeper is removed |
| `edit`, `recreate` | an admin edits the CR, or creates it again |

The modules **MC...** give the constants their values for TLC. The theorems are in
modules of their own:

| module | about |
|---|---|
| **AdmissionProofs** | `Admission`: types, the status of the MIPs, deny Events and the response |
| **AdmissionContractProofs** (extends it) | what is refused and noted, and the refinement of `Enforcement` |
| **KeyFileProofs** | `KeyFile` |
| **OperatorProofs** | `Operator`: what its steps do, and the theorems |
| **RolloutProofs** | `Rollout` with the builders of `Manifests` |
| **ShieldAPIProofs** | `ShieldAPI` |
| **DecisionProofs** | `Decision` with the matchers of `Matching` |
| **ObserverProofs** | `Observer` |

Operators marked "Mutant" are faulty versions of a definition, used to see that the
properties notice the fault.

## Runs

| run | shows |
|---|---|
| `admission_side_effects` | two handlers, three refused requests, one MIP, one Event, two edits: the status and the Event stay exact and name refusals only; no edit is undone; a refusal is visible |
| `admission_policy` | one request, two MIPs, 15 combinations of facts, three settings of each configuration, failing reads, one edit: the response is what the policies ask for |
| `admission_liveness` | two handlers, failing calls, timeouts and an edit: every call ends, and the whole implements `Enforcement` |
| `operator_lifecycle` | every mode, three disturbances of calls, pods, Gatekeeper and the operator itself: installation and removal complete, and no cluster-scoped child outlives the CR |
| `operator_stale` | up to three kinds lag behind, two disturbances: the webhook has its backend and the right CA, nothing is created for a CR that is gone |
| `operator_changes` | a new image, a switch of the mode, a CR that is created again while children of the old one wait for garbage collection, or a dropped error: installation and removal complete |
| `rollout_edits` | both modes, two edits of names or images, passes cut short, failing pods: deployed components have their rights and what they mount, and a registered webhook can be called |
| `decision_lists` | concrete lists and every outcome of the mutation check: an exception lets pass what it names and nothing else; the observer lists what the webhook checks, for the conditions both can express |
| `observer_passes` | two constraints, a namespaced and a cluster-scoped resource, one edit, one fault, a crash or a second pod: exports are true of what has not changed, and complete in the end |
| `key_file_requests` | two requests that load and use the same key and server while both are replaced: how old a used key can be, and that a request nobody overlaps uses what it read |
| `shield_api_calls` | reviews, lost calls, restarts, malformed posts, edits of the configuration: a denial has grounds, and no path turns a refusal into an admission |
| `operator_dropped_error` | ends in a violation of `NoOrphans`, see below |

`isGatekeeperAvailable` answers "no" when its read fails. In the finalizer step this
skips the ConstraintTemplate, the finalizer is removed and the template stays. The
comment at `integrityshield_controller.go:88` says that a failure is returned "so that
it can be retried".

### Known divergences

Met while modelling. The passing runs leave these cases out, or their properties are
stated so that they hold with them; each entry says which.

- Of two requests about one object that are denied at once, the second write of the
  Event is rejected and only logged (`request_handler.go:477`), so a denial is not
  counted. `EventCountIsExact` counts accepted writes; `RefusalIsVisible` asks for an
  Event, not for its count. `docs/README_CHECK_AND_TROUBLESHOOTING.md:25` says that all
  denials are reported.
- In detect mode the deny Event is written before the mode allows the request
  (`webhook.go:131`); `request_handler.go:408` says that there is no Event for an
  allowed request.
- After a switch of `useGatekeeper` the finalizer step deletes the children of the new
  mode only, and a child that the cache does not show yet counts as deleted
  (`integrityshield_controller.go:286`, `integrityshield.go:960`). `NoOrphans` is checked
  without a switch and with a cache that is up to date.
- A webhook that is registered for a new CR before the Secret of the old one is
  collected keeps the CABundle of that Secret. `operator_stale` leaves `recreate` out.
- ConfigMaps, bindings, Secrets and the webhook are created and never updated. After a
  ServiceAccount is renamed in the CR the Deployments use one that no binding names;
  after the webhook's Service is renamed the certificate and the webhook keep the old
  name; an edit of a configuration in the CR never reaches its ConfigMap.
  `rollout_edits` edits the names in `Renamable` and the image only.
  `docs/README_SECURITY.md:5` says that all of them are updated.
- The observer counts a resource of `skipObjects` among the violations
  (`verify_resource.go:123`). The resources of `observer_passes` are verified or not,
  never skipped.
- After a key Secret is replaced, a slower request can write the old key over the new
  one (`request_handler_config.go:129`). `StalenessBounded` says how far back that can
  reach. `docs/ACM/README_SETUP_KEY_RING_ACM_ENV.md:59` says that only new keys can be
  used.
- The observer's matcher has no patterns, stops at the first API resource and ignores
  exclusions and the label selector. `ObserverAgrees` is limited to `Simple` conditions.
- A constraint names the core group with `apiGroups: [""]`
  (`webhook/gatekeeper-constraint/example/constraint-configmap.yaml:9`). For the observer
  this is the core group. For the webhook it is a pattern. If the empty pattern is a
  wildcard, the webhook checks objects of these kinds in every group and the observer
  lists none outside the core group. `Simple` leaves such conditions out under that
  reading: without this, TLC finds an `apps` Deployment that only the webhook checks.
  If the empty pattern matches only the empty group, both agree on them.

### Bounds

Two handlers are enough for the races on an Event and a MIP: each is between one
Get and one Update. A third request reaches a history longer than `MaxHistory = 2`.
`MaxEdits` bounds edits and expiries: two allow a MIP to be deleted and created
again under a handler that holds a copy. Handlers and requests are symmetric in
`admission_side_effects`, MIPs in `admission_policy`.

The number of children is that of the code. `MaxDisturbances` bounds all
disturbances together, `MaxLag` the kinds that lag at once; one step beyond it the
cache catches up. A pass creates one child and starts again, so more than three
lagging kinds happen only when the garbage collector is at work. The liveness of the
operator is checked with a cache that is up to date. `operator_changes` begins with
Gatekeeper installed.

Two edits in `rollout_edits` change two names that refer to each other, or a name
and the image, at different moments of a pass. The inputs of `decision_lists` vary
every list between absent, matching and not matching.

`observer_passes` begins with verified resources and labelled namespaces; `MaxEdits`
and `MaxFaults` of one reach the rest. A fault is a failing call, a killed pod or the
start of the second pod: with two pods up nothing fails besides their conflicts.
The constraint about Deployments lists one namespace by name and by label, so a
resource is found twice.

Two requests of `key_file_requests` go on for ever, and a key is followed by a shorter
one. `ShieldAPI` has one call at a time: the server keeps nothing between calls.

The admission controller and the operator may stop, when all requests are answered
or the CR is gone; there deadlock is not checked. It is not checked in `Decision`
either, which ends with the request.

### Fairness

A handler that has a step takes it: each API call returns an answer or an error.
The operator's worker runs, informers deliver, the resync period of
controller-runtime ends, Kubernetes starts pods and collects garbage. An observer
pod that runs takes its next step, and its container is restarted. Nothing is
assumed of an admin, of Gatekeeper or of failures, except their bound.

## Proofs

The proofs about `Admission` hold for any number of handlers, requests, MIPs and
objects, any `MaxHistory` above zero, any set of facts and configurations, with or
without failing calls. They assume `AdmissionAssumption` only.

- `TypeCorrect`: `TypeOK`. The invariant `Typed` adds who is at work: a handler
  past `Receive` has a request.
- `StatusExact`: `StatusIsExact`. It is not inductive alone: `MIPCopies` says that a
  copy with the stored resourceVersion is the stored object, and none is newer.
  `TruncateAgain` says that truncating before prepending loses nothing.
- `SpecKept`: `StatusWriteKeepsSpec`, from the same invariant.
- `RefusalsNoted`: `StatusNamesRefusals`. `Ledger(h)` says, for each place a handler can
  be at, what has been refused and noted for its request; `OneHandler` that no other
  handler works on it, `NotedLate` that nothing is noted before it has a handler. A write
  then adds a request that is not there yet (`OncePrepend`).
- `Implements`: `ImplementsContract`, the refinement. From the same invariant each action
  is a step of `Enforcement` or leaves the mapped variables alone: `CheckConstraint` is
  `Refuse`, an accepted `PutMIP` is `Note`, `Respond` and `Timeout` are `Answer`, and
  `EditConstraint` is `Replace` unless it only edits the spec. `GoneMIPsAreEmpty` is needed
  for a MIP that is created.
- `EventExact`: `EventCountIsExact`, with `EventCopies`, the analogue for Events, and
  `GoneEventsAreEmpty`.
- `ReplyCorrect`: `ReplyMatchesPolicy`. `HandleIsPolicy` shows that the decision chain,
  in the order of the code, refuses what the unordered policy refuses;
  `ResultsFollowPolicy` carries it through the loop.

- `RefusalsVisible`: `RefusalIsVisible`, if every configuration asks for deny Events and
  no mutation check fails (`Reported`). Both conditions are needed, as TLC shows: without
  the first there is no Event at all, and a refusal on account of a failed mutation check
  is an early return before `createOrUpdateEvent`. `EventsComing` says that a refused
  request has its Event or a handler that is about to write it, and that an Event somebody
  has read is still there, so that a write is rejected only because the Event exists.

About `KeyFile`, from `KeyFileAssumption`, for any number of requests, keys and
replacements of a key:

- `Staleness`: `StalenessBounded`. The invariant adds that what is current, what a
  request holds and what a file contains is not older than the bound of each request
  that may still read it (`CurrentFine`, `HeldFine`, `StoredFine`). The last one is needed
  because a write leaves the end of a longer key in place.
- `KeyFileTypeCorrect`: `TypeOK`. That a file never outgrows the longest key needs that a
  request in the middle of a load has the content of one version (`TInv`).
- `AloneExact`: `AloneIsExact`, if a manifest names no key twice. `AloneHolds`,
  `AloneReads` and `AloneWrote` say, for each item of a request that nobody shares, that
  nobody else is loading it, that the request holds what it read, and that the file has it
  once it is written. The condition is needed: with a key that is named twice TLC finds a
  second load that truncates the file and then fails, while the path of the first is used.

About `Operator`, for all sets of specs and disturbances and any number of them, with the
children of the code:

- `OperatorTypeCorrect`: `TypeOK`, with `PlanInv`: what a pass has still to do is a part of
  the plan it began with.
- `GoneStaysEmpty`: `NothingCreatedForGoneCR`, for any lag and all disturbances. `OrderInv`
  orders the three views of the CR, the one of the running pass, the cache and the API
  server: a CR that one of them shows without a deletion cannot be gone.
- `WebhookServed`: `WebhookHasBackend`, unless the CR is created again. `OwnedInv`: the
  children in the namespace belong to the CR and stay while it does. `SeenInv`: a pass has
  seen in the cache what it is past of.
- `WebhookTrusted`: `WebhookTrustsServer`, unless the CR is created again or the error of a
  read is dropped; from the same invariant, because a Secret that the cache shows is never
  replaced.
- `RemovalIsClean`: `NoOrphans`, with a cache that is up to date (`MaxLag = 0`), no dropped
  error, and edits that keep the mode (`ModeKept`). `CleanInv`: the cluster-scoped children
  are in the plan of the CR's deletion, and those the finalizer step is past of are gone.

TLC finds a violation when a condition of the last three is left out: with `recreate` for
`WebhookHasBackend`, with `recreate` or `dropped` for `WebhookTrustsServer`, with
`MaxLag = 1`, a switch of the mode or `dropped` (`operator_dropped_error`) for `NoOrphans`.

About `ShieldAPI`, for all reviews, modes and configurations:

- `ShieldAPITypeCorrect`, `DenialsGrounded`, `RefusalsKept`: `TypeOK`, `DenialHasGrounds` and
  `RefusalIsKept`. `CallInv` follows a call: an answer with status 200 is the verdict of
  `RequestHandler` with a configuration that was in force since the review, and Gatekeeper's
  own post is answered so unless the call is lost.

About `Decision`, from `DecisionAssumption` and `WildcardAssumption` (both readings of the
empty pattern), for any lists, patterns, users and labels:

- `DecisionTypeCorrect`: `TypeOK`. `PipelineInv` says that the stages decide as the
  one predicate `Refuses`.
- `ExceptionsAlwaysHold`: `ExceptionsHold`. An exception that only `RequestHandler` knows
  does not help an update whose mutation check fails: the check comes first
  (`request_handler.go:138`).
- `ExceptionsStayLocal`: `ExceptionsAreLocal`, for requests about things that are not called
  `another`, the name the added entries have.
- `ObserverAlwaysAgrees`: `ObserverAgrees`, where the observer discovered the API resource of
  every object in a namespace (`AllDiscovered`). A resource type that was added after the
  observer started is checked by the webhook and not listed, so the condition is needed. The
  target list comes down to the first API resource that an entry matches; a simple condition
  leaves only one that fits the object.

About `Rollout`, from `RolloutAssumption`, for any specs, any editable fields and any number
of edits, with the builders of the code:

- `StoreHasProvenance` is the invariant that the others rest on. `Provenance`: every stored
  child was made from one spec that the CR has had, and the children it needs (`Needs`) are
  stored under the names of that spec. `PassInv`: a pass goes on only behind children that are
  there under the names of its own spec, which the order of `InstallPlan` turns into
  `Provenance` when it creates one.
- `RolloutTypeCorrect`: `TypeOK`.
- `ReferencesAlwaysResolve`: `ReferencesResolve`, if the keys of the ConfigMaps are not edited
  and their names never coincide (`ConfigsApart`).
- `WebhookAlwaysReachable`: `WebhookReachable`, if the selector, the Service and the Secret of
  the webhook keep their names and the Deployments of the admission controller and of the
  observer never share one (`ServerApart`). `Trust`: the CA of a registered webhook is that of
  the stored certificate.
- `RightsAlwaysSuffice`: `RightsSuffice`, if the ServiceAccounts keep their names and the
  bindings of the shield and of the observer never share one (`BindingsApart`). `Rooted`: once
  the shield has a binding, one binding leads to the role that was made for it, even when an
  edit gives the shield the name of the observer's role.

Each condition is needed: TLC finds a violation when one of the kept fields is editable or
when two of the names that must differ can be the same. They are the renames listed under
Known divergences, and names that collide. `MCRollout` and `MCDecision` assume the conditions
of these theorems, so TLC evaluates them on the instances of the runs.

About `Observer`, from `ObserverAssumption`, for any number of pods, constraints, resources,
edits and faults:

- `ObserverTypeCorrect`: `TypeOK`.
- `ReportsAlwaysTrue`: `ReportsAreTrue`. The invariant says the same of the summaries that a
  pod still holds (`AllOK`), and of an unfinished one (`Collected`): for a resource that has not
  changed, every copy is the resource as it is and comes from a call that returns it, and a
  call that would return it is still to be made or has been answered, unless a list failed.
  `TouchedSummary` and its analogue for a pod show that a change of the cluster leaves this
  true of the other resources, whatever a pod is doing.

Only model-checked:

- the liveness properties `EveryRequestAnswered`, `EventuallyInstalled`, `DeletionCompletes`
  and `StateConverges`: they need fairness, and with it ENABLED, which is beyond the prover.

Every invariant and action property of the passing runs, and the refinement, has a theorem.
No proof needs an induction over the data: the lists of the code that a recursive operator
would walk are functions or sets in the models, and where the first of several is meant it is
the least index (`Min`).

TLC has checked the inductive invariants of these proofs on the instances of the runs, or on
ones like them that satisfy the conditions of the theorem (those of `Rollout` with three
editable fields). The exceptions are the conjuncts that give the types of local states, in
`Typed` of `KeyFileProofs` and in `PodStates` and `SummarySet` of `ObserverProofs`: their sets
are infinite and TLC checks the types of single fields instead.

## Not modelled

- k8s-manifest-sigstore and cosign: their verdicts are inputs, and the moment at which
  they read a key file is a step. What a signature or a manifest contains is out of
  reach. `shield/pkg/image/image.go` around them is modelled by its outcomes.
- Certificates and keys beyond "which CA signed for which host".
- Generated clientsets, informers, listers and deep copies: the stored state of the
  models is the API server they talk to.
- Resource limits, probes, security contexts and annotations of the Deployments, and the
  container settings of the CR that only pass through.
- Logging, the health endpoints, and build and test scripts.
- `shield/pkg/shield/image.go` and `ImageProfile.MatchWith`, which nothing calls.
