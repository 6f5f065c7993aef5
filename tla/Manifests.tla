----------------------------- MODULE Manifests ------------------------------
(***************************************************************************)
(* The manifests the operator builds from an IntegrityShield resource      *)
(* (integrity-shield-operator/resources), reduced to what ties them to     *)
(* each other: names, references, selectors, ports, RBAC rules, the keys   *)
(* of ConfigMaps and the certificates of Secrets.                          *)
(*                                                                         *)
(* cr is the spec of the IntegrityShield, with the code's field names; all *)
(* namespaced manifests go to the namespace of the CR.                     *)
(***************************************************************************)
EXTENDS OperatorPlan, FiniteSets

\* The fields of a spec; gk, obs and ver are UseGatekeeper, Observer.Enabled
\* and the image tags.  Deployments are named like their container.
SpecFields ==
    {"APIName", "ControllerName", "ObserverName", "APISelector", "ControllerSelector",
     "ObserverSelector", "APIServiceAccountName", "ObserverServiceAccountName", "APIRole",
     "APIRoleBinding", "ObserverRole", "ObserverRoleBinding", "RequestHandlerConfigName",
     "RequestHandlerConfigKey", "RequestHandlerConfig", "AdmissionControllerConfigName",
     "AdmissionControllerConfigKey", "AdmissionControllerConfig", "APITlsSecretName",
     "WebhookServerTlsSecretName", "ApiServiceName", "WebhookServiceName",
     "WebhookConfigName", "MetaLabels", "Rego"}

-----------------------------------------------------------------------------
(* ConfigMaps, ServiceAccounts and RBAC *)

ConfigMap(n, k, v) == [kind |-> "ConfigMap", name |-> n, data |-> [key |-> k, value |-> v]]

BuildReqConfigForIShield(cr) ==
    ConfigMap(cr.RequestHandlerConfigName, cr.RequestHandlerConfigKey, cr.RequestHandlerConfig)
BuildACConfigForIShield(cr) ==
    ConfigMap(cr.AdmissionControllerConfigName, cr.AdmissionControllerConfigKey,
              cr.AdmissionControllerConfig)

BuildServiceAccountForIShield(cr) ==
    [kind |-> "ServiceAccount", name |-> cr.APIServiceAccountName]
BuildServiceAccountForObserver(cr) ==
    [kind |-> "ServiceAccount", name |-> cr.ObserverServiceAccountName]

Rule(groups, resources, verbs) == [groups |-> groups, resources |-> resources, verbs |-> verbs]
Shield == "apis.integrityshield.io"

\* Mutant: profiles may only be read.
ProfilesReadOnly(cr) ==
    [kind |-> "ClusterRole", name |-> cr.APIRole,
     rules |-> {Rule({""}, {"events"}, {"create", "update", "get"}),
                Rule({"*"}, {"*"}, {"get", "list"})}]

BuildClusterRoleForIShield(cr) ==
    [kind |-> "ClusterRole", name |-> cr.APIRole,
     rules |-> {Rule({Shield}, {"manifestintegrityprofiles"},
                     {"get", "list", "watch", "patch", "update"}),
                Rule({""}, {"events"}, {"create", "update", "get"}),
                Rule({"*"}, {"*"}, {"get", "list"})}]
BuildRoleForIShield(cr) ==
    [kind |-> "Role", name |-> cr.APIRole,
     rules |-> {Rule({"*"}, {"*"}, {"get", "list", "create", "update"})}]
BuildClusterRoleForObserver(cr) ==
    [kind |-> "ClusterRole", name |-> cr.ObserverRole,
     rules |-> {Rule({"*"}, {"*"}, {"get", "list"})}]

BuildRoleForObserver(cr) ==
    [kind |-> "Role", name |-> cr.ObserverRole,
     rules |-> {Rule({Shield, ""}, {"manifestintegritystates", "configmaps"},
                     {"get", "list", "create", "watch", "patch", "update"})}]

BuildClusterRoleBindingForIShield(cr) ==
    [kind |-> "ClusterRoleBinding", name |-> cr.APIRoleBinding,
     subjects |-> {cr.APIServiceAccountName}, roleRef |-> cr.APIRole]
BuildClusterRoleBindingForObserver(cr) ==
    [kind |-> "ClusterRoleBinding", name |-> cr.ObserverRoleBinding,
     subjects |-> {cr.ObserverServiceAccountName}, roleRef |-> cr.ObserverRole]
\* The role for dry runs is also bound to the observer.
BuildRoleBindingForIShield(cr) ==
    [kind |-> "RoleBinding", name |-> cr.APIRoleBinding,
     subjects |-> {cr.APIServiceAccountName, cr.ObserverServiceAccountName},
     roleRef |-> cr.APIRole]
BuildRoleBindingForObserver(cr) ==
    [kind |-> "RoleBinding", name |-> cr.ObserverRoleBinding,
     subjects |-> {cr.ObserverServiceAccountName}, roleRef |-> cr.ObserverRole]

-----------------------------------------------------------------------------
(* Secrets, Deployments, Services and what calls them *)

\* A CA of its own in every call, and a server certificate for one host.
GenerateCert(svcName, n) == [ca |-> n, host |-> svcName]

\* The Secrets with what addCertValues puts in them.
BuildTlsSecretForIShield(cr, n) ==
    [kind |-> "Secret", name |-> cr.APITlsSecretName,
     cert |-> GenerateCert(cr.ApiServiceName, n)]
BuildAPITlsSecretForIShield(cr, n) ==
    [kind |-> "Secret", name |-> cr.WebhookServerTlsSecretName,
     cert |-> GenerateCert(cr.WebhookServiceName, n)]

\* An environment variable that names a key of a ConfigMap.
EnvRef(n, k) == [name |-> n, key |-> k]

\* Mutant: the Secret of the other server is mounted.
OtherSecretMounted(cr) ==
    [kind |-> "Deployment", name |-> cr.APIName,
     metaLabels |-> cr.MetaLabels, labels |-> cr.APISelector,
     serviceAccount |-> cr.APIServiceAccountName, secrets |-> {cr.WebhookServerTlsSecretName},
     image |-> cr.ver, port |-> "ishield-api",
     env |-> {EnvRef(cr.RequestHandlerConfigName, cr.RequestHandlerConfigKey)}]

\* secrets: the Secrets among the volumes.
BuildDeploymentForIShieldAPI(cr) ==
    [kind |-> "Deployment", name |-> cr.APIName,
     metaLabels |-> cr.MetaLabels, labels |-> cr.APISelector,
     serviceAccount |-> cr.APIServiceAccountName, secrets |-> {cr.APITlsSecretName},
     image |-> cr.ver, port |-> "ishield-api",
     env |-> {EnvRef(cr.RequestHandlerConfigName, cr.RequestHandlerConfigKey)}]
BuildDeploymentForAdmissionController(cr) ==
    [kind |-> "Deployment", name |-> cr.ControllerName,
     metaLabels |-> cr.MetaLabels, labels |-> cr.ControllerSelector,
     serviceAccount |-> cr.APIServiceAccountName, secrets |-> {cr.WebhookServerTlsSecretName},
     image |-> cr.ver, port |-> "validator-port",
     env |-> {EnvRef(cr.RequestHandlerConfigName, cr.RequestHandlerConfigKey),
              EnvRef(cr.AdmissionControllerConfigName, cr.AdmissionControllerConfigKey)}]
BuildDeploymentForObserver(cr) ==
    [kind |-> "Deployment", name |-> cr.ObserverName,
     metaLabels |-> cr.MetaLabels, labels |-> cr.ObserverSelector,
     serviceAccount |-> cr.ObserverServiceAccountName, secrets |-> {},
     image |-> cr.ver, port |-> "none",
     env |-> {EnvRef(cr.RequestHandlerConfigName, cr.RequestHandlerConfigKey)}]

\* Volumes, selectors and replicas are not compared.
EqualContainers(expected, found) ==
    /\ expected.name = found.name /\ expected.image = found.image
    /\ expected.port = found.port /\ expected.env = found.env
EqualPods(expected, found) ==
    /\ expected.labels = found.labels
    /\ expected.serviceAccount = found.serviceAccount
    /\ EqualContainers(expected, found)
EqualDeployments(expected, found) ==
    expected.metaLabels = found.metaLabels /\ EqualPods(expected, found)

\* Mutant: the target port of the other Service.
WrongTargetPort(cr) ==
    [kind |-> "Service", name |-> cr.WebhookServiceName,
     selector |-> cr.ControllerSelector, targetPort |-> "ishield-api"]

BuildServiceForIShield(cr) ==
    [kind |-> "Service", name |-> cr.WebhookServiceName,
     selector |-> cr.ControllerSelector, targetPort |-> "validator-port"]
BuildAPIServiceForIShield(cr) ==
    [kind |-> "Service", name |-> cr.ApiServiceName,
     selector |-> cr.APISelector, targetPort |-> "ishield-api"]

\* The CABundle is filled in by createOrUpdateWebhook.
BuildValidatingWebhookConfigurationForIShield(cr, caBundle) ==
    [kind |-> "Webhook", name |-> cr.WebhookConfigName,
     service |-> cr.WebhookServiceName, caBundle |-> caBundle]

buildCRD(plural, isNamespaced) == [kind |-> "CRD", name |-> plural, namespaced |-> isNamespaced]
BuildManifestIntegrityProfileCRD == buildCRD("manifestintegrityprofiles", FALSE)
BuildObserverResultCRD           == buildCRD("manifestintegritystates", TRUE)

BuildConstraintTemplateForIShield(cr) ==
    [kind |-> "ConstraintTemplate", name |-> "manifestintegrityconstraint", rego |-> cr.Rego]

\* What the createOrUpdate function of a child expects; n numbers certificates.
Build(c, cr, n) ==
    CASE c = "RequestHandlerConfig"          -> BuildReqConfigForIShield(cr)
      [] c = "ACConfig"                      -> BuildACConfigForIShield(cr)
      [] c = "IShieldApiServiceAccount"      -> BuildServiceAccountForIShield(cr)
      [] c = "ObserverServiceAccount"        -> BuildServiceAccountForObserver(cr)
      [] c = "RoleForIShield"                -> BuildRoleForIShield(cr)
      [] c = "RoleForObserver"               -> BuildRoleForObserver(cr)
      [] c = "RoleBindingForIShield"         -> BuildRoleBindingForIShield(cr)
      [] c = "RoleBindingForObserver"        -> BuildRoleBindingForObserver(cr)
      [] c = "ClusterRoleForIShield"         -> BuildClusterRoleForIShield(cr)
      [] c = "ClusterRoleForObserver"        -> BuildClusterRoleForObserver(cr)
      [] c = "ClusterRoleBindingForIShield"  -> BuildClusterRoleBindingForIShield(cr)
      [] c = "ClusterRoleBindingForObserver" -> BuildClusterRoleBindingForObserver(cr)
      [] c = "TlsSecret"                     -> BuildTlsSecretForIShield(cr, n)
      [] c = "ACTlsSecret"                   -> BuildAPITlsSecretForIShield(cr, n)
      [] c = "IShieldAPIDeployment"          -> BuildDeploymentForIShieldAPI(cr)
      [] c = "AdmissionControllerDeployment" -> BuildDeploymentForAdmissionController(cr)
      [] c = "ObserverDeployment"            -> BuildDeploymentForObserver(cr)
      [] c = "APIService"                    -> BuildAPIServiceForIShield(cr)
      [] c = "WebhookService"                -> BuildServiceForIShield(cr)
      [] c = "ManifestIntegrityProfileCRD"   -> BuildManifestIntegrityProfileCRD
      [] c = "ObserverResultCRD"             -> BuildObserverResultCRD
      [] c = "ConstraintTemplate"            -> BuildConstraintTemplateForIShield(cr)

-----------------------------------------------------------------------------
(* Kubernetes: what the manifests mean, and the calls the components make *)

\* own: in the namespace of the CR only; otherwise in any namespace.
Call(group, resource, verb, own) ==
    [group |-> group, resource |-> resource, verb |-> verb, own |-> own]

\* The request handler: its configuration, key Secrets, the deny Event and the
\* dry run of a manifest.
HandlerCalls ==
    {Call("", "configmaps", "get", TRUE), Call("", "secrets", "get", FALSE),
     Call("apps", "deployments", "create", TRUE)}
    \union {Call("", "events", v, FALSE) : v \in {"get", "create", "update"}}
\* The admission controller also matches namespaces and reads and updates MIPs.
ControllerCalls ==
    HandlerCalls \union {Call("", "namespaces", "get", FALSE)}
    \union {Call(Shield, "manifestintegrityprofiles", v, FALSE) : v \in {"list", "get", "update"}}
\* The observer lists constraints, namespaces and resources, and exports.
ObserverCalls ==
    {Call("", "namespaces", "list", FALSE), Call("apps", "deployments", "list", FALSE),
     Call("constraints.gatekeeper.sh", "manifestintegrityconstraint", "list", FALSE),
     Call("", "secrets", "get", FALSE), Call("apps", "deployments", "create", TRUE)}
    \union {Call("", "configmaps", v, TRUE) : v \in {"get", "create", "update"}}
    \union {Call(Shield, "manifestintegritystates", v, TRUE) : v \in {"get", "create", "update"}}

Allows(role, call) ==
    \E r \in role.rules :
        /\ r.groups \intersect {"*", call.group} # {}
        /\ r.resources \intersect {"*", call.resource} # {}
        /\ call.verb \in r.verbs

OfKind(objects, kind) == {o \in objects : o.kind = kind}

\* A binding grants what the role it names allows, if that role exists.
Bound(objects, sa, call, binding, role) ==
    \E b \in OfKind(objects, binding), r \in OfKind(objects, role) :
        sa \in b.subjects /\ b.roleRef = r.name /\ Allows(r, call)

Granted(objects, sa, call) ==
    \/ Bound(objects, sa, call, "ClusterRoleBinding", "ClusterRole")
    \/ call.own /\ Bound(objects, sa, call, "RoleBinding", "Role")

\* The Service sends what it receives to ready pods of this Deployment.
Routes(service, deployment) ==
    service.selector = deployment.labels /\ service.targetPort = deployment.port
=============================================================================
