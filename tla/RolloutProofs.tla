--------------------------- MODULE RolloutProofs ----------------------------
(***************************************************************************)
(* Rollout, for any specs, any editable fields and any number of edits.    *)
(***************************************************************************)
EXTENDS Rollout, TLAPS

\* What a pass creates: there is no plan with the Event of the webhook.
Planned == Children \ {"WebhookEvent"}
Built   == Planned \ {"Webhook"}

\* What the parts of a plan create.
CommonChildren ==
    {"RequestHandlerConfig", "IShieldApiServiceAccount", "RoleForIShield",
     "RoleBindingForIShield", "ClusterRoleForIShield", "ClusterRoleBindingForIShield"}
ObserverChildren ==
    {"ObserverResultCRD", "ObserverServiceAccount", "ClusterRoleForObserver",
     "ClusterRoleBindingForObserver", "RoleForObserver", "RoleBindingForObserver",
     "ObserverDeployment"}
GatekeeperChildren ==
    {"TlsSecret", "IShieldAPIDeployment", "APIService", "ConstraintTemplate"}
ControllerChildren ==
    {"ManifestIntegrityProfileCRD", "ACConfig", "ACTlsSecret",
     "AdmissionControllerDeployment", "WebhookService", "Webhook"}

\* The children of a spec.
ChildrenOf(s) ==
    CommonChildren \union (IF s.obs THEN ObserverChildren ELSE {})
                   \union (IF s.gk THEN GatekeeperChildren ELSE ControllerChildren)

\* The children that a child refers to, or that must be there before it.
Needs(c) ==
    {d \in Built :
        \/ c = "RoleBindingForIShield" /\ d = "RoleForIShield"
        \/ c = "ClusterRoleBindingForIShield" /\ d = "ClusterRoleForIShield"
        \/ c = "RoleBindingForObserver" /\ d = "RoleForObserver"
        \/ c = "ClusterRoleBindingForObserver" /\ d = "ClusterRoleForObserver"
        \/ c \in {"RoleForObserver", "ClusterRoleForObserver"} /\ d \in CommonChildren
        \/ c \in Deployments /\ d \in CommonChildren
        \/ c = "IShieldAPIDeployment" /\ d = "TlsSecret"
        \/ /\ c = "AdmissionControllerDeployment"
           /\ d \in {"ManifestIntegrityProfileCRD", "ACConfig", "ACTlsSecret"}
        \/ c = "ObserverDeployment" /\ d \in ObserverChildren \ {"ObserverDeployment"}
        \/ /\ c = "Webhook"
           /\ d \in {"ACTlsSecret", "AdmissionControllerDeployment", "WebhookService"}}

\* Everything a child of the list needs is before it in the list, or in the set.
Ordered(list, before) ==
    \A i \in 1..Len(list) : \A c \in Needs(list[i]) :
        c \in before \/ \E j \in 1..(i - 1) : list[j] = c

-----------------------------------------------------------------------------
(* The manifests *)

\* What is built for each child.
LEMMA BuildIs ==
    ASSUME NEW t, NEW n
    PROVE  /\ Build("RequestHandlerConfig", t, n) = BuildReqConfigForIShield(t)
           /\ Build("ACConfig", t, n) = BuildACConfigForIShield(t)
           /\ Build("IShieldApiServiceAccount", t, n) = BuildServiceAccountForIShield(t)
           /\ Build("ObserverServiceAccount", t, n) = BuildServiceAccountForObserver(t)
           /\ Build("RoleForIShield", t, n) = BuildRoleForIShield(t)
           /\ Build("RoleForObserver", t, n) = BuildRoleForObserver(t)
           /\ Build("RoleBindingForIShield", t, n) = BuildRoleBindingForIShield(t)
           /\ Build("RoleBindingForObserver", t, n) = BuildRoleBindingForObserver(t)
           /\ Build("ClusterRoleForIShield", t, n) = BuildClusterRoleForIShield(t)
           /\ Build("ClusterRoleForObserver", t, n) = BuildClusterRoleForObserver(t)
           /\ Build("ClusterRoleBindingForIShield", t, n) = BuildClusterRoleBindingForIShield(t)
           /\ Build("ClusterRoleBindingForObserver", t, n) = BuildClusterRoleBindingForObserver(t)
           /\ Build("TlsSecret", t, n) = BuildTlsSecretForIShield(t, n)
           /\ Build("ACTlsSecret", t, n) = BuildAPITlsSecretForIShield(t, n)
           /\ Build("IShieldAPIDeployment", t, n) = BuildDeploymentForIShieldAPI(t)
           /\ Build("AdmissionControllerDeployment", t, n) = BuildDeploymentForAdmissionController(t)
           /\ Build("ObserverDeployment", t, n) = BuildDeploymentForObserver(t)
           /\ Build("APIService", t, n) = BuildAPIServiceForIShield(t)
           /\ Build("WebhookService", t, n) = BuildServiceForIShield(t)
           /\ Build("ManifestIntegrityProfileCRD", t, n) = BuildManifestIntegrityProfileCRD
           /\ Build("ObserverResultCRD", t, n) = BuildObserverResultCRD
           /\ Build("ConstraintTemplate", t, n) = BuildConstraintTemplateForIShield(t)
BY Zenon DEF Build

\* The kind and the name of each child; the number of a certificate is not part of it.
LEMMA BuildIds ==
    ASSUME NEW t, NEW n
    PROVE  /\ Id(Build("RequestHandlerConfig", t, n)) = <<"ConfigMap", t.RequestHandlerConfigName>>
           /\ Id(Build("ACConfig", t, n)) = <<"ConfigMap", t.AdmissionControllerConfigName>>
           /\ Id(Build("IShieldApiServiceAccount", t, n)) =
                <<"ServiceAccount", t.APIServiceAccountName>>
           /\ Id(Build("ObserverServiceAccount", t, n)) =
                <<"ServiceAccount", t.ObserverServiceAccountName>>
           /\ Id(Build("RoleForIShield", t, n)) = <<"Role", t.APIRole>>
           /\ Id(Build("RoleForObserver", t, n)) = <<"Role", t.ObserverRole>>
           /\ Id(Build("RoleBindingForIShield", t, n)) = <<"RoleBinding", t.APIRoleBinding>>
           /\ Id(Build("RoleBindingForObserver", t, n)) = <<"RoleBinding", t.ObserverRoleBinding>>
           /\ Id(Build("ClusterRoleForIShield", t, n)) = <<"ClusterRole", t.APIRole>>
           /\ Id(Build("ClusterRoleForObserver", t, n)) = <<"ClusterRole", t.ObserverRole>>
           /\ Id(Build("ClusterRoleBindingForIShield", t, n)) =
                <<"ClusterRoleBinding", t.APIRoleBinding>>
           /\ Id(Build("ClusterRoleBindingForObserver", t, n)) =
                <<"ClusterRoleBinding", t.ObserverRoleBinding>>
           /\ Id(Build("TlsSecret", t, n)) = <<"Secret", t.APITlsSecretName>>
           /\ Id(Build("ACTlsSecret", t, n)) = <<"Secret", t.WebhookServerTlsSecretName>>
           /\ Id(Build("IShieldAPIDeployment", t, n)) = <<"Deployment", t.APIName>>
           /\ Id(Build("AdmissionControllerDeployment", t, n)) = <<"Deployment", t.ControllerName>>
           /\ Id(Build("ObserverDeployment", t, n)) = <<"Deployment", t.ObserverName>>
           /\ Id(Build("APIService", t, n)) = <<"Service", t.ApiServiceName>>
           /\ Id(Build("WebhookService", t, n)) = <<"Service", t.WebhookServiceName>>
           /\ Id(Build("ManifestIntegrityProfileCRD", t, n)) =
                <<"CRD", "manifestintegrityprofiles">>
           /\ Id(Build("ObserverResultCRD", t, n)) = <<"CRD", "manifestintegritystates">>
           /\ Id(Build("ConstraintTemplate", t, n)) =
                <<"ConstraintTemplate", "manifestintegrityconstraint">>
<1>1. /\ Id(BuildReqConfigForIShield(t)) = <<"ConfigMap", t.RequestHandlerConfigName>>
      /\ Id(BuildACConfigForIShield(t)) = <<"ConfigMap", t.AdmissionControllerConfigName>>
      /\ Id(BuildServiceAccountForIShield(t)) = <<"ServiceAccount", t.APIServiceAccountName>>
      /\ Id(BuildServiceAccountForObserver(t)) = <<"ServiceAccount", t.ObserverServiceAccountName>>
  BY Zenon DEF Id, BuildReqConfigForIShield, ConfigMap, BuildACConfigForIShield, BuildServiceAccountForIShield, BuildServiceAccountForObserver
<1>2. /\ Id(BuildRoleForIShield(t)) = <<"Role", t.APIRole>>
      /\ Id(BuildRoleForObserver(t)) = <<"Role", t.ObserverRole>>
      /\ Id(BuildRoleBindingForIShield(t)) = <<"RoleBinding", t.APIRoleBinding>>
      /\ Id(BuildRoleBindingForObserver(t)) = <<"RoleBinding", t.ObserverRoleBinding>>
  BY Zenon DEF Id, Rule, BuildRoleForIShield, BuildRoleForObserver, BuildRoleBindingForIShield, BuildRoleBindingForObserver
<1>3. /\ Id(BuildClusterRoleForIShield(t)) = <<"ClusterRole", t.APIRole>>
      /\ Id(BuildClusterRoleForObserver(t)) = <<"ClusterRole", t.ObserverRole>>
      /\ Id(BuildClusterRoleBindingForIShield(t)) = <<"ClusterRoleBinding", t.APIRoleBinding>>
      /\ Id(BuildClusterRoleBindingForObserver(t)) = <<"ClusterRoleBinding", t.ObserverRoleBinding>>
  BY Zenon DEF Id, Rule, BuildClusterRoleForIShield, BuildClusterRoleForObserver, BuildClusterRoleBindingForIShield, BuildClusterRoleBindingForObserver
<1>4. /\ Id(BuildTlsSecretForIShield(t, n)) = <<"Secret", t.APITlsSecretName>>
      /\ Id(BuildAPITlsSecretForIShield(t, n)) = <<"Secret", t.WebhookServerTlsSecretName>>
      /\ Id(BuildDeploymentForIShieldAPI(t)) = <<"Deployment", t.APIName>>
      /\ Id(BuildDeploymentForAdmissionController(t)) = <<"Deployment", t.ControllerName>>
  BY Zenon DEF Id, Rule, BuildTlsSecretForIShield, BuildAPITlsSecretForIShield, BuildDeploymentForIShieldAPI, BuildDeploymentForAdmissionController
<1>5. /\ Id(BuildDeploymentForObserver(t)) = <<"Deployment", t.ObserverName>>
      /\ Id(BuildAPIServiceForIShield(t)) = <<"Service", t.ApiServiceName>>
      /\ Id(BuildServiceForIShield(t)) = <<"Service", t.WebhookServiceName>>
      /\ Id(BuildManifestIntegrityProfileCRD) = <<"CRD", "manifestintegrityprofiles">>
  BY Zenon DEF Id, Rule, BuildDeploymentForObserver, BuildAPIServiceForIShield, BuildServiceForIShield, BuildManifestIntegrityProfileCRD, buildCRD
<1>6. /\ Id(BuildObserverResultCRD) = <<"CRD", "manifestintegritystates">>
      /\ Id(BuildConstraintTemplateForIShield(t)) = <<"ConstraintTemplate", "manifestintegrityconstraint">>
  BY Zenon DEF Id, BuildObserverResultCRD, buildCRD, BuildConstraintTemplateForIShield
<1> QED
  BY <1>1, <1>2, <1>3, <1>4, <1>5, <1>6, BuildIs

\* The children by name.
LEMMA BuiltChildren ==
    /\ Built = {"RequestHandlerConfig", "ACConfig", "IShieldApiServiceAccount",
                "ObserverServiceAccount", "RoleForIShield", "RoleForObserver",
                "RoleBindingForIShield", "RoleBindingForObserver", "ClusterRoleForIShield",
                "ClusterRoleForObserver", "ClusterRoleBindingForIShield",
                "ClusterRoleBindingForObserver", "TlsSecret", "ACTlsSecret",
                "IShieldAPIDeployment", "AdmissionControllerDeployment", "ObserverDeployment",
                "APIService", "WebhookService", "ManifestIntegrityProfileCRD",
                "ObserverResultCRD", "ConstraintTemplate"}
    /\ Planned = Built \union {"Webhook"}
    /\ Planned \subseteq Children
    /\ "Webhook" \notin Built
    /\ Deployments \subseteq Built /\ Secrets \subseteq Built
BY DEF Built, Planned, Children, Namespaced, ClusterScoped, ConfigMaps, ServiceAccounts, Roles,
       RoleBindings, ClusterRoles, ClusterRoleBindings, CRDs, Secrets, Deployments, Services

\* The name of a child, whatever the number of its certificate.
ChildId(c, t) == Id(Build(c, t, 0))

\* An object is known by its kind and its name.
LEMMA IdParts ==
    ASSUME NEW x, NEW kind, NEW name, Id(x) = <<kind, name>>
    PROVE  x.kind = kind /\ x.name = name
BY Zenon DEF Id

\* Objects with the same identity have the same kind.
LEMMA IdKind ==
    ASSUME NEW x, NEW y, Id(x) = Id(y)
    PROVE  x.kind = y.kind
BY Zenon DEF Id

\* The kind and the name of what is found for a child: configuration and accounts,
\* roles and bindings, Secrets and what is deployed, resource types.
LEMMA FoundConfig ==
    ASSUME NEW x, NEW t
    PROVE  /\ Id(x) = ChildId("RequestHandlerConfig", t) =>
                x.kind = "ConfigMap" /\ x.name = t.RequestHandlerConfigName
           /\ Id(x) = ChildId("ACConfig", t) =>
                x.kind = "ConfigMap" /\ x.name = t.AdmissionControllerConfigName
           /\ Id(x) = ChildId("IShieldApiServiceAccount", t) =>
                x.kind = "ServiceAccount" /\ x.name = t.APIServiceAccountName
           /\ Id(x) = ChildId("ObserverServiceAccount", t) =>
                x.kind = "ServiceAccount" /\ x.name = t.ObserverServiceAccountName
BY IdParts, BuildIds DEF ChildId

LEMMA FoundRights ==
    ASSUME NEW x, NEW t
    PROVE  /\ Id(x) = ChildId("RoleForIShield", t) => x.kind = "Role" /\ x.name = t.APIRole
           /\ Id(x) = ChildId("RoleForObserver", t) => x.kind = "Role" /\ x.name = t.ObserverRole
           /\ Id(x) = ChildId("ClusterRoleForIShield", t) =>
                x.kind = "ClusterRole" /\ x.name = t.APIRole
           /\ Id(x) = ChildId("ClusterRoleForObserver", t) =>
                x.kind = "ClusterRole" /\ x.name = t.ObserverRole
           /\ Id(x) = ChildId("RoleBindingForIShield", t) =>
                x.kind = "RoleBinding" /\ x.name = t.APIRoleBinding
           /\ Id(x) = ChildId("RoleBindingForObserver", t) =>
                x.kind = "RoleBinding" /\ x.name = t.ObserverRoleBinding
           /\ Id(x) = ChildId("ClusterRoleBindingForIShield", t) =>
                x.kind = "ClusterRoleBinding" /\ x.name = t.APIRoleBinding
           /\ Id(x) = ChildId("ClusterRoleBindingForObserver", t) =>
                x.kind = "ClusterRoleBinding" /\ x.name = t.ObserverRoleBinding
BY IdParts, BuildIds DEF ChildId

LEMMA FoundServer ==
    ASSUME NEW x, NEW t
    PROVE  /\ Id(x) = ChildId("TlsSecret", t) => x.kind = "Secret" /\ x.name = t.APITlsSecretName
           /\ Id(x) = ChildId("ACTlsSecret", t) =>
                x.kind = "Secret" /\ x.name = t.WebhookServerTlsSecretName
           /\ Id(x) = ChildId("AdmissionControllerDeployment", t) =>
                x.kind = "Deployment" /\ x.name = t.ControllerName
           /\ Id(x) = ChildId("WebhookService", t) =>
                x.kind = "Service" /\ x.name = t.WebhookServiceName
           /\ Id(x) = ChildId("ManifestIntegrityProfileCRD", t) =>
                x.kind = "CRD" /\ x.name = "manifestintegrityprofiles"
           /\ Id(x) = ChildId("ObserverResultCRD", t) =>
                x.kind = "CRD" /\ x.name = "manifestintegritystates"
BY IdParts, BuildIds DEF ChildId

\* What the kind of an object says of the child it was built for.
LEMMA BuiltKind ==
    ASSUME NEW c \in Built, NEW t, NEW n
    PROVE  LET o == Build(c, t, n) IN
           /\ o.kind # "Webhook"
           /\ o.kind = "Secret" => c \in Secrets
           /\ c \in Deployments => o.kind = "Deployment"
           /\ o.kind = "ClusterRoleBinding" =>
                \/ c = "ClusterRoleBindingForIShield" /\ o.name = t.APIRoleBinding
                \/ c = "ClusterRoleBindingForObserver" /\ o.name = t.ObserverRoleBinding
           /\ o.kind = "RoleBinding" =>
                \/ c = "RoleBindingForIShield" /\ o.name = t.APIRoleBinding
                \/ c = "RoleBindingForObserver" /\ o.name = t.ObserverRoleBinding
<1> DEFINE o == Build(c, t, n)
<1>1. \A k, m : Id(o) = <<k, m>> => o.kind = k /\ o.name = m
  BY IdParts, Zenon
<1> HIDE DEF o
<1>2. /\ c = "RoleBindingForIShield" => o.kind = "RoleBinding" /\ o.name = t.APIRoleBinding
      /\ c = "RoleBindingForObserver" => o.kind = "RoleBinding" /\ o.name = t.ObserverRoleBinding
      /\ c = "ClusterRoleBindingForIShield" =>
           o.kind = "ClusterRoleBinding" /\ o.name = t.APIRoleBinding
      /\ c = "ClusterRoleBindingForObserver" =>
           o.kind = "ClusterRoleBinding" /\ o.name = t.ObserverRoleBinding
  BY <1>1, BuildIds DEF o
<1>3. /\ c \in {"RequestHandlerConfig", "ACConfig"} => o.kind = "ConfigMap"
      /\ c \in {"IShieldApiServiceAccount", "ObserverServiceAccount"} => o.kind = "ServiceAccount"
      /\ c \in {"RoleForIShield", "RoleForObserver"} => o.kind = "Role"
      /\ c \in {"ClusterRoleForIShield", "ClusterRoleForObserver"} => o.kind = "ClusterRole"
  BY <1>1, BuildIds DEF o
<1>4. /\ c \in {"TlsSecret", "ACTlsSecret"} => o.kind = "Secret"
      /\ c \in {"IShieldAPIDeployment", "AdmissionControllerDeployment", "ObserverDeployment"} =>
           o.kind = "Deployment"
      /\ c \in {"APIService", "WebhookService"} => o.kind = "Service"
      /\ c \in {"ManifestIntegrityProfileCRD", "ObserverResultCRD"} => o.kind = "CRD"
      /\ c = "ConstraintTemplate" => o.kind = "ConstraintTemplate"
  BY <1>1, BuildIds DEF o
<1>5. Secrets = {"TlsSecret", "ACTlsSecret"}
      /\ Deployments = {"IShieldAPIDeployment", "AdmissionControllerDeployment", "ObserverDeployment"}
  BY Zenon DEF Secrets, Deployments
<1>6. /\ o.kind # "Webhook"
      /\ o.kind = "Secret" => c \in Secrets
      /\ c \in Deployments => o.kind = "Deployment"
  BY <1>2, <1>3, <1>4, <1>5, BuiltChildren, Zenon
<1>7. /\ o.kind = "ClusterRoleBinding" =>
           \/ c = "ClusterRoleBindingForIShield" /\ o.name = t.APIRoleBinding
           \/ c = "ClusterRoleBindingForObserver" /\ o.name = t.ObserverRoleBinding
      /\ o.kind = "RoleBinding" =>
           \/ c = "RoleBindingForIShield" /\ o.name = t.APIRoleBinding
           \/ c = "RoleBindingForObserver" /\ o.name = t.ObserverRoleBinding
  BY <1>2, <1>3, <1>4, BuiltChildren, Zenon
<1> QED
  BY <1>6, <1>7, Zenon DEF o

\* A child is found by its kind and its name alone.
LEMMA BuildId ==
    ASSUME NEW c \in Built, NEW t, NEW n
    PROVE  Id(Build(c, t, n)) = ChildId(c, t)
<1> DEFINE Same(d) == Id(Build(d, t, n)) = Id(Build(d, t, 0))
<1>1. /\ Same("RequestHandlerConfig") /\ Same("ACConfig") /\ Same("IShieldApiServiceAccount")
      /\ Same("ObserverServiceAccount") /\ Same("RoleForIShield") /\ Same("RoleForObserver")
      /\ Same("RoleBindingForIShield")
  BY BuildIds, SMTT(30)
<1>2. /\ Same("RoleBindingForObserver") /\ Same("ClusterRoleForIShield")
      /\ Same("ClusterRoleForObserver") /\ Same("ClusterRoleBindingForIShield")
      /\ Same("ClusterRoleBindingForObserver") /\ Same("TlsSecret") /\ Same("ACTlsSecret")
  BY BuildIds, SMTT(30)
<1>3. /\ Same("IShieldAPIDeployment") /\ Same("AdmissionControllerDeployment")
      /\ Same("ObserverDeployment") /\ Same("APIService") /\ Same("WebhookService")
      /\ Same("ManifestIntegrityProfileCRD") /\ Same("ObserverResultCRD") /\ Same("ConstraintTemplate")
  BY BuildIds, SMTT(30)
<1> HIDE DEF Same
<1>4. Same(c)
  BY <1>1, <1>2, <1>3, BuiltChildren, Zenon
<1> QED
  BY <1>4, Zenon DEF Same, ChildId

-----------------------------------------------------------------------------
(* The plans *)

\* Two lists, the second of which needs only what the first one has.
LEMMA OrderedConcat ==
    ASSUME NEW S, NEW s \in Seq(S), NEW t \in Seq(S), NEW D,
           Ordered(s, {}), Ordered(t, D),
           \A d \in D : \E j \in 1..Len(s) : s[j] = d
    PROVE  Ordered(s \o t, {}) /\ s \o t \in Seq(S)
<1> DEFINE m == Len(s)
           n == Len(t)
           u == s \o t
<1>1. /\ m \in Nat /\ n \in Nat /\ u \in Seq(S) /\ Len(u) = m + n
      /\ \A k \in 1..(m + n) : u[k] = IF k <= m THEN s[k] ELSE t[k - m]
  OBVIOUS
<1>2. \A d \in D : \E j \in 1..m : s[j] = d
  BY Zenon
<1>3. /\ \A i \in 1..m : \A c \in Needs(s[i]) : \E j \in 1..(i - 1) : s[j] = c
      /\ \A i \in 1..n : \A c \in Needs(t[i]) : c \in D \/ \E j \in 1..(i - 1) : t[j] = c
  BY Zenon DEF Ordered
<1> HIDE DEF m, n, u
<1>4. ASSUME NEW i \in 1..(m + n), NEW c \in Needs(u[i])
      PROVE  \E j \in 1..(i - 1) : u[j] = c
  <2>1. CASE i <= m
    <3>1. i \in 1..m /\ c \in Needs(s[i])
      BY <1>1, <1>4, <2>1
    <3>2. PICK j \in 1..(i - 1) : s[j] = c
      BY <1>3, <3>1, Zenon
    <3>3. j \in 1..(m + n) /\ u[j] = s[j]
      BY <1>1, <2>1, <3>2
    <3> QED
      BY <3>2, <3>3, Zenon
  <2>2. CASE ~(i <= m)
    <3>1. i - m \in 1..n /\ c \in Needs(t[i - m])
      BY <1>1, <1>4, <2>2
    <3>2. CASE c \in D
      <4>1. PICK j \in 1..m : s[j] = c
        BY <1>2, <3>2, Zenon
      <4>2. j \in 1..(i - 1) /\ u[j] = s[j]
        BY <1>1, <2>2, <4>1
      <4> QED
        BY <4>1, <4>2, Zenon
    <3>3. CASE \E j \in 1..(i - m - 1) : t[j] = c
      <4>1. PICK j \in 1..(i - m - 1) : t[j] = c
        BY <3>3, Zenon
      <4>2. m + j \in 1..(i - 1) /\ u[m + j] = t[j]
        BY <1>1, <2>2, <4>1
      <4> QED
        BY <4>1, <4>2, Zenon
    <3> QED
      BY <1>3, <3>1, <3>2, <3>3, Zenon
  <2> QED
    BY <2>1, <2>2, Zenon
<1> QED
  BY <1>1, <1>4, Zenon DEF Ordered, u

\* When the first child of a list is there, the rest needs nothing more.
LEMMA OrderedTail ==
    ASSUME NEW S, NEW s \in Seq(S), s # <<>>, NEW B, NEW C, Ordered(s, B),
           B \subseteq C, Head(s) \in C
    PROVE  Ordered(Tail(s), C) /\ Tail(s) \in Seq(S) /\ Head(s) \in S
           /\ Needs(Head(s)) \subseteq B
<1> DEFINE t == Tail(s)
           n == Len(s)
<1>1. /\ n \in Nat /\ n >= 1 /\ Head(s) = s[1] /\ s[1] \in S
      /\ t \in Seq(S) /\ Len(t) = n - 1 /\ \A i \in 1..Len(t) : t[i] = s[i + 1]
  OBVIOUS
<1>2. \A i \in 1..n : \A c \in Needs(s[i]) : c \in B \/ \E j \in 1..(i - 1) : s[j] = c
  BY Zenon DEF Ordered
<1>h. s[1] \in C
  BY <1>1, Zenon
<1> HIDE DEF t, n
<1>3. ASSUME NEW i \in 1..(n - 1), NEW c \in Needs(t[i]), c \notin C
      PROVE  \E j \in 1..(i - 1) : t[j] = c
  <2>1. i + 1 \in 1..n /\ t[i] = s[i + 1] /\ c \notin B
    BY <1>1, <1>3
  <2>2. PICK j \in 1..i : s[j] = c
    BY <1>2, <1>3, <2>1
  <2>3. j # 1
    BY <1>3, <1>h, <2>2, Zenon
  <2>4. j - 1 \in 1..(i - 1) /\ j - 1 \in 1..Len(t) /\ t[j - 1] = s[j]
    BY <1>1, <2>2, <2>3
  <2> QED
    BY <2>2, <2>4, Zenon
<1>4. Needs(s[1]) \subseteq B
  BY <1>1, <1>2
<1> QED
  BY <1>1, <1>3, <1>4, Zenon DEF Ordered, t

\* The parts of a plan are in order, given what comes before them.
LEMMA PartsOrdered ==
    /\ CommonPart \in Seq(CommonChildren) /\ Ordered(CommonPart, {})
    /\ \A c \in CommonChildren : \E j \in 1..Len(CommonPart) : CommonPart[j] = c
    /\ ObserverPart \in Seq(ObserverChildren) /\ Ordered(ObserverPart, CommonChildren)
    /\ GatekeeperPart \in Seq(GatekeeperChildren) /\ Ordered(GatekeeperPart, CommonChildren)
    /\ ControllerPart \in Seq(ControllerChildren) /\ Ordered(ControllerPart, CommonChildren)
<1>1. /\ CommonPart \in Seq(CommonChildren) /\ ObserverPart \in Seq(ObserverChildren)
      /\ GatekeeperPart \in Seq(GatekeeperChildren) /\ ControllerPart \in Seq(ControllerChildren)
  BY DEF CommonPart, ObserverPart, GatekeeperPart, ControllerPart,
         CommonChildren, ObserverChildren, GatekeeperChildren, ControllerChildren
<1>2. Ordered(CommonPart, {})
  BY DEF Ordered, Needs, CommonPart, Deployments
<1>3. \A c \in CommonChildren : \E j \in 1..Len(CommonPart) : CommonPart[j] = c
  <2>1. /\ Len(CommonPart) = 6 /\ CommonPart[1] = "RequestHandlerConfig"
        /\ CommonPart[2] = "IShieldApiServiceAccount" /\ CommonPart[3] = "RoleForIShield"
        /\ CommonPart[4] = "RoleBindingForIShield" /\ CommonPart[5] = "ClusterRoleForIShield"
        /\ CommonPart[6] = "ClusterRoleBindingForIShield"
    BY Zenon DEF CommonPart
  <2> QED
    BY <2>1 DEF CommonChildren
<1>4. Ordered(ObserverPart, CommonChildren)
  BY DEF Ordered, Needs, ObserverPart, Deployments, ObserverChildren
<1>5. Ordered(GatekeeperPart, CommonChildren)
  BY DEF Ordered, Needs, GatekeeperPart, Deployments
<1>6. Ordered(ControllerPart, CommonChildren)
  BY DEF Ordered, Needs, ControllerPart, Deployments
<1> QED
  BY <1>1, <1>2, <1>3, <1>4, <1>5, <1>6, Zenon

\* A reconcile creates every child after those it needs.
LEMMA InstallPlanOrdered ==
    ASSUME NEW s
    PROVE  InstallPlan(s) \in Seq(ChildrenOf(s)) /\ Ordered(InstallPlan(s), {})
<1> DEFINE o == IF s.obs THEN ObserverPart ELSE <<>>
           m == IF s.gk THEN GatekeeperPart ELSE ControllerPart
           S == ChildrenOf(s)
<1>1. CommonPart \in Seq(S) /\ o \in Seq(S) /\ m \in Seq(S)
  BY PartsOrdered DEF ChildrenOf
<1>2. Ordered(o, CommonChildren) /\ Ordered(m, CommonChildren)
  BY PartsOrdered DEF Ordered
<1>3. InstallPlan(s) = (CommonPart \o o) \o m
  BY Zenon DEF InstallPlan
<1> HIDE DEF o, m, S
<1> DEFINE p == CommonPart \o o
<1>4. Ordered(p, {}) /\ p \in Seq(S)
  BY <1>1, <1>2, PartsOrdered, OrderedConcat, Zenon
<1>5. \A c \in CommonChildren : \E j \in 1..Len(p) : p[j] = c
  <2>1. SUFFICES ASSUME NEW c \in CommonChildren
                 PROVE  \E j \in 1..Len(p) : p[j] = c
    BY Zenon
  <2>2. PICK j \in 1..Len(CommonPart) : CommonPart[j] = c
    BY PartsOrdered, Zenon
  <2>3. j \in 1..Len(p) /\ p[j] = CommonPart[j]
    BY <1>1
  <2> QED
    BY <2>2, <2>3, Zenon
<1> HIDE DEF p
<1>6. Ordered(p \o m, {}) /\ p \o m \in Seq(S)
  BY <1>1, <1>2, <1>4, <1>5, OrderedConcat, Zenon
<1> QED
  BY <1>3, <1>6, Zenon DEF p, S

-----------------------------------------------------------------------------
(* The specs and the invariants *)

\* What the spec can be after up to n edits of s.
Variant(s, E, v) ==
    [f \in DOMAIN s |-> IF f = "ver" THEN v ELSE IF f \in E THEN Edited[f] ELSE s[f]]
Variants(s, n) == {Variant(s, E, v) : E \in SUBSET Editable, v \in s.ver..(s.ver + n)}

\* The child is there, under the name the spec t gives it.
Present(c, t) == \E x \in store : Id(x) = ChildId(c, t)

MadeFrom(x, c, t) ==
    \/ /\ c = "Webhook" /\ x.kind = "Webhook"
       /\ x = BuildValidatingWebhookConfigurationForIShield(t, x.caBundle)
    \/ c # "Webhook" /\ \E n \in 0..(certs + 1) : x = Build(c, t, n)

\* Every stored object is a child made from a spec the CR has had, and what it
\* needs is there, under the names that spec gives.
Provenance(s) ==
    \A x \in store : \E c \in ChildrenOf(s), t \in Variants(s, edits) :
        MadeFrom(x, c, t) /\ \A d \in Needs(c) : Present(d, t)

\* A pass goes on only behind children that are there, under the names of its spec.
PassInv(s) ==
    /\ cr \in Variants(s, edits) /\ inst \in Variants(s, edits)
    /\ plan \in Seq(ChildrenOf(s))
    /\ Ordered(plan, {c \in Built : Present(c, inst)})

RolloutInv == \E s \in Specs : PassInv(s) /\ Provenance(s)

-----------------------------------------------------------------------------
(* What a step of the pass does *)

Creates(c) ==
    /\ c \in Built /\ plan' = <<>>
    /\ \E n \in {certs, certs + 1} :
         /\ store' = (store \ Found(Build(c, inst, n))) \union {Build(c, inst, n)}
         /\ c \notin Deployments => Found(Build(c, inst, n)) = {}
         /\ c \in Secrets => n = certs + 1 /\ certs' = certs + 1
         /\ c \notin Secrets => certs' = certs

Skips(c) ==
    /\ c \in Built /\ Present(c, inst)
    /\ plan' = Tail(plan) /\ UNCHANGED <<store, certs>>

Registers(c) ==
    LET o == BuildValidatingWebhookConfigurationForIShield(inst, CABundle) IN
    /\ c = "Webhook" /\ UNCHANGED certs
    /\ \/ Found(o) = {} /\ store' = store \union {o} /\ plan' = <<>>
       \/ store' = store /\ plan' = Tail(plan)
       \/ store' = store \ Named("Webhook", inst.WebhookConfigName) /\ plan' = <<>>

\* Found and Present look for the same object.
LEMMA FoundPresent ==
    ASSUME NEW c \in Built, NEW t, NEW n
    PROVE  Found(Build(c, t, n)) # {} <=> Present(c, t)
BY BuildId, Zenon DEF Found, Present

\* Every step of an installation looks at the first child of the plan.
LEMMA InstallStepEffect ==
    ASSUME InstallStep, plan \in Seq(Planned)
    PROVE  /\ plan # <<>> /\ UNCHANGED <<cr, inst, available, edits>>
           /\ Creates(Head(plan)) \/ Skips(Head(plan)) \/ Registers(Head(plan))
<1> DEFINE c == Head(plan)
<1>1. plan # <<>> /\ UNCHANGED <<cr, inst, edits>>
  BY Zenon DEF InstallStep
<1>2. c \in Planned
  BY <1>1
<1>3. createOnly(c) \/ createOrUpdateDeployment(c) \/ createOrUpdateWebhook(c) \/ deleteWebhook(c)
  BY Zenon DEF InstallStep
<1>4. UNCHANGED available
  BY <1>3, Zenon DEF createOnly, createOrUpdateDeployment, createOrUpdateWebhook, deleteWebhook
<1>g. SUFFICES Creates(c) \/ Skips(c) \/ Registers(c)
  BY <1>1, <1>4, Zenon
<1> HIDE DEF c
<1>5. CASE createOnly(c)
  <2> DEFINE o == Build(c, inst, certs + 1)
  <2>1. c \in Built /\ c \notin Deployments
    BY <1>2, <1>5, BuiltChildren, Zenon DEF createOnly
  <2>2. /\ \/ Found(o) = {} /\ Put(o) /\ Requeue
           \/ Found(o) # {} /\ UNCHANGED store /\ Proceed
        /\ certs' = IF c \in Secrets /\ Found(o) = {} THEN certs + 1 ELSE certs
    BY <1>5, Zenon DEF createOnly
  <2>3. CASE Found(o) = {}
    BY <2>1, <2>2, <2>3, Zenon DEF Put, Requeue, Creates
  <2>4. CASE Found(o) # {}
    BY <2>1, <2>2, <2>4, FoundPresent, Zenon DEF Proceed, Skips
  <2> QED
    BY <2>3, <2>4, Zenon
<1>6. CASE createOrUpdateDeployment(c)
  <2> DEFINE o == Build(c, inst, certs)
  <2>1. c \in Built /\ c \in Deployments /\ c \notin Secrets
    BY <1>2, <1>6, BuiltChildren, Zenon DEF createOrUpdateDeployment, Deployments, Secrets
  <2>2. /\ UNCHANGED certs
        /\ \/ Put(o) /\ Requeue
           \/ Found(o) # {} /\ UNCHANGED store /\ Proceed
    BY Zenon, <1>6 DEF createOrUpdateDeployment
  <2>3. CASE Put(o) /\ Requeue
    BY <2>1, <2>2, <2>3, Zenon DEF Put, Requeue, Creates
  <2>4. CASE Found(o) # {} /\ UNCHANGED store /\ Proceed
    BY <2>1, <2>2, <2>4, FoundPresent, Zenon DEF Proceed, Skips
  <2> QED
    BY <2>2, <2>3, <2>4, Zenon
<1>7. CASE createOrUpdateWebhook(c)
  <2> DEFINE o == BuildValidatingWebhookConfigurationForIShield(inst, CABundle)
  <2>1. /\ c = "Webhook" /\ UNCHANGED certs
        /\ \/ Found(o) = {} /\ Put(o) /\ Requeue
           \/ UNCHANGED store /\ Proceed
    BY Zenon, <1>7 DEF createOrUpdateWebhook
  <2> HIDE DEF o
  <2>2. \/ Found(o) = {} /\ store' = store \union {o} /\ plan' = <<>>
        \/ store' = store /\ plan' = Tail(plan)
    BY <2>1, Zenon DEF Put, Requeue, Proceed
  <2> QED
    BY <2>1, <2>2, Zenon DEF Registers, o
<1>8. CASE deleteWebhook(c)
  BY <1>8, Zenon DEF deleteWebhook, Registers, Requeue
<1> QED
  BY <1>3, <1>5, <1>6, <1>7, <1>8, Zenon

-----------------------------------------------------------------------------
(* The steps keep the invariants *)

\* Three fields of a spec are not among those that have names.
LEMMA FieldNames ==
    /\ "gk" \notin SpecFields /\ "obs" \notin SpecFields /\ "ver" \notin SpecFields
    /\ \A s \in Specs : /\ s = [f \in SpecFields \union {"gk", "obs", "ver"} |-> s[f]]
                        /\ DOMAIN s = SpecFields \union {"gk", "obs", "ver"}
                        /\ s.gk \in BOOLEAN /\ s.obs \in BOOLEAN /\ s.ver \in Nat
    /\ Editable \subseteq SpecFields /\ MaxEdits \in Nat
<1>1. "gk" \notin SpecFields /\ "obs" \notin SpecFields /\ "ver" \notin SpecFields
  BY Zenon DEF SpecFields
<1>2. ASSUME NEW s \in Specs
      PROVE  /\ s = [f \in SpecFields \union {"gk", "obs", "ver"} |-> s[f]]
             /\ DOMAIN s = SpecFields \union {"gk", "obs", "ver"}
             /\ s.gk \in BOOLEAN /\ s.obs \in BOOLEAN /\ s.ver \in Nat
  BY RolloutAssumption, Zenon
<1> QED
  BY <1>1, <1>2, RolloutAssumption, Zenon

\* A variant of a spec has its mode and, in each field, one of its values.
LEMMA VariantFields ==
    ASSUME NEW s \in Specs, NEW n, NEW t \in Variants(s, n)
    PROVE  /\ t.gk = s.gk /\ t.obs = s.obs /\ ChildrenOf(t) = ChildrenOf(s)
           /\ \A f \in SpecFields : t[f] \in Values(s, f)
           /\ \A f \in SpecFields : f \notin Editable => t[f] = s[f]
<1>1. PICK E \in SUBSET Editable, v \in s.ver..(s.ver + n) : t = Variant(s, E, v)
  BY DEF Variants
<1>2. \A f \in DOMAIN s : t[f] = IF f = "ver" THEN v ELSE IF f \in E THEN Edited[f] ELSE s[f]
  BY <1>1, Zenon DEF Variant
<1>3. t.gk = s.gk /\ t.obs = s.obs
  BY <1>1, <1>2, FieldNames, Zenon
<1>4. ASSUME NEW f \in SpecFields
      PROVE  t[f] \in Values(s, f) /\ (f \notin Editable => t[f] = s[f])
  BY <1>1, <1>2, FieldNames, Zenon DEF Values
<1> QED
  BY <1>3, <1>4, Zenon DEF ChildrenOf

\* The keys and the names of the ConfigMaps in a variant of a spec.
LEMMA ConfigFields ==
    ASSUME ConfigsApart, NEW s \in Specs, NEW n, NEW t \in Variants(s, n)
    PROVE  /\ t.RequestHandlerConfigKey = s.RequestHandlerConfigKey
           /\ t.AdmissionControllerConfigKey = s.AdmissionControllerConfigKey
           /\ t.RequestHandlerConfigName \in Values(s, "RequestHandlerConfigName")
           /\ t.AdmissionControllerConfigName \in Values(s, "AdmissionControllerConfigName")
BY VariantFields DEF SpecFields, ConfigsApart, Kept

\* The fields that tie the webhook to its server.
LEMMA ServerFields ==
    ASSUME ServerApart, NEW s \in Specs, NEW n, NEW t \in Variants(s, n)
    PROVE  /\ t.ControllerSelector = s.ControllerSelector
           /\ t.WebhookServiceName = s.WebhookServiceName
           /\ t.WebhookServerTlsSecretName = s.WebhookServerTlsSecretName
           /\ t.ControllerName \in Values(s, "ControllerName")
           /\ t.ObserverName \in Values(s, "ObserverName")
BY VariantFields DEF SpecFields, ServerApart, Kept

\* The accounts and the bindings.
LEMMA BindingFields ==
    ASSUME BindingsApart, NEW s \in Specs, NEW n, NEW t \in Variants(s, n)
    PROVE  /\ t.APIServiceAccountName = s.APIServiceAccountName
           /\ t.ObserverServiceAccountName = s.ObserverServiceAccountName
           /\ t.APIRoleBinding \in Values(s, "APIRoleBinding")
           /\ t.ObserverRoleBinding \in Values(s, "ObserverRoleBinding")
BY VariantFields DEF SpecFields, BindingsApart, Kept

\* The spec itself, and a spec after one edit more.
LEMMA VariantSteps ==
    ASSUME NEW s \in Specs, NEW n \in Nat
    PROVE  /\ s \in Variants(s, n)
           /\ Variants(s, n) \subseteq Variants(s, n + 1)
           /\ \A t \in Variants(s, n) :
                /\ [t EXCEPT !.ver = @ + 1] \in Variants(s, n + 1)
                /\ \A f \in Editable : [t EXCEPT ![f] = Edited[f]] \in Variants(s, n + 1)
<1>s. s.ver \in Nat /\ DOMAIN s = SpecFields \union {"gk", "obs", "ver"}
  BY FieldNames, Zenon
<1>1. s \in Variants(s, n)
  <2>1. s = Variant(s, {}, s.ver)
    <3>1. s = [f \in DOMAIN s |-> s[f]]
      BY <1>s, FieldNames, Zenon
    <3>2. \A f \in DOMAIN s : s[f] = IF f = "ver" THEN s.ver ELSE IF f \in {} THEN Edited[f] ELSE s[f]
      BY Zenon
    <3> QED
      BY <3>1, <3>2, Zenon DEF Variant
  <2>2. s.ver \in s.ver..(s.ver + n)
    BY <1>s
  <2> QED
    BY <2>1, <2>2 DEF Variants
<1>2. Variants(s, n) \subseteq Variants(s, n + 1)
  <2>1. s.ver..(s.ver + n) \subseteq s.ver..(s.ver + (n + 1))
    BY <1>s
  <2> QED
    BY <2>1 DEF Variants
<1>3. ASSUME NEW t \in Variants(s, n)
      PROVE  /\ [t EXCEPT !.ver = @ + 1] \in Variants(s, n + 1)
             /\ \A f \in Editable : [t EXCEPT ![f] = Edited[f]] \in Variants(s, n + 1)
  <2>1. PICK E \in SUBSET Editable, v \in s.ver..(s.ver + n) : t = Variant(s, E, v)
    BY DEF Variants
  <2>2. /\ v \in s.ver..(s.ver + (n + 1)) /\ v + 1 \in s.ver..(s.ver + (n + 1))
    BY <1>s, <2>1
  <2>3. [t EXCEPT !.ver = @ + 1] = Variant(s, E, v + 1)
    BY <1>s, <2>1, Zenon DEF Variant
  <2>4. ASSUME NEW f \in Editable
        PROVE  /\ [t EXCEPT ![f] = Edited[f]] = Variant(s, E \union {f}, v)
               /\ E \union {f} \in SUBSET Editable
    <3>1. f # "ver" /\ f \in DOMAIN s
      BY <1>s, FieldNames, Zenon
    <3>2. DOMAIN t = DOMAIN s
      BY <2>1, Zenon DEF Variant
    <3>3. \A g \in DOMAIN s :
            IF g = f THEN Variant(s, E \union {f}, v)[g] = Edited[f]
                     ELSE Variant(s, E \union {f}, v)[g] = t[g]
      BY <2>1, <3>1, Zenon DEF Variant
    <3>4. Variant(s, E \union {f}, v) = [g \in DOMAIN t |-> IF g = f THEN Edited[f] ELSE t[g]]
      BY <3>1, <3>2, <3>3, Zenon DEF Variant
    <3> QED
      BY <2>1, <3>4, Zenon
  <2>5. [t EXCEPT !.ver = @ + 1] \in Variants(s, n + 1)
    BY <2>1, <2>2, <2>3 DEF Variants
  <2>6. ASSUME NEW f \in Editable
        PROVE  [t EXCEPT ![f] = Edited[f]] \in Variants(s, n + 1)
    <3>1. Variant(s, E \union {f}, v) \in Variants(s, n + 1)
      BY <2>2, <2>4 DEF Variants
    <3> QED
      BY <2>4, <3>1, Zenon
  <2> QED
    BY <2>5, <2>6, Zenon
<1> QED
  BY <1>1, <1>2, <1>3, Zenon

\* A child that is there stays there, under its name.
LEMMA PresentStays ==
    ASSUME plan \in Seq(Planned), [Next]_vars, NEW c \in Built, NEW t,
           \E x \in store : Id(x) = ChildId(c, t)
    PROVE  \E x \in store' : Id(x) = ChildId(c, t)
<1>1. PICK x \in store : Id(x) = ChildId(c, t)
  BY Zenon
<1>2. x.kind # "Webhook"
  BY <1>1, BuiltKind, IdKind DEF ChildId
<1>3. CASE store' = store
  BY <1>1, <1>3, Zenon
<1>4. CASE InstallStep
  <2> DEFINE d == Head(plan)
  <2>1. Creates(d) \/ Skips(d) \/ Registers(d)
    BY <1>4, InstallStepEffect, Zenon
  <2> HIDE DEF d
  <2>2. CASE Creates(d)
    <3>1. PICK n : store' = (store \ Found(Build(d, inst, n))) \union {Build(d, inst, n)}
      BY <2>2, Zenon DEF Creates
    <3>2. CASE x \in Found(Build(d, inst, n))
      BY <1>1, <3>1, <3>2, Zenon DEF Found
    <3>3. CASE x \notin Found(Build(d, inst, n))
      BY <1>1, <3>1, <3>3, Zenon
    <3> QED
      BY <3>2, <3>3, Zenon
  <2>3. CASE Registers(d)
    <3>1. x \in store'
      BY <1>1, <1>2, <2>3, Zenon DEF Registers, Named
    <3> QED
      BY <1>1, <3>1, Zenon
  <2> QED
    BY <1>3, <2>1, <2>2, <2>3, Zenon DEF Skips
<1> QED
  BY <1>3, <1>4, Zenon DEF Next, Reconcile, PassFails, EditCR, PodsStart, PodsFail, vars

\* Certificates and edits are only counted up, and the CR has a variant of its spec.
LEMMA CountersGrow ==
    ASSUME TypeOK, NEW s \in Specs, PassInv(s), plan \in Seq(Planned), [Next]_vars
    PROVE  /\ certs' \in Nat /\ certs' >= certs
           /\ edits' \in 0..MaxEdits
           /\ Variants(s, edits) \subseteq Variants(s, edits')
           /\ cr' \in Variants(s, edits') /\ inst' \in Variants(s, edits')
<1>1. certs \in Nat /\ edits \in Nat /\ edits \in 0..MaxEdits /\ MaxEdits \in Nat
  BY FieldNames DEF TypeOK
<1>2. cr \in Variants(s, edits) /\ inst \in Variants(s, edits)
  BY Zenon DEF PassInv
<1>3. certs' = certs \/ certs' = certs + 1
  <2>1. CASE InstallStep
    BY <2>1, InstallStepEffect, Zenon DEF Creates, Skips, Registers
  <2> QED
    BY <2>1, Zenon DEF Next, Reconcile, PassFails, EditCR, PodsStart, PodsFail, vars
<1>4. CASE UNCHANGED <<cr, edits>> /\ inst' \in {cr, inst}
  BY <1>1, <1>2, <1>3, <1>4
<1>5. CASE EditCR
  <2>1. edits < MaxEdits /\ edits' = edits + 1 /\ inst' = inst
    BY <1>5, Zenon DEF EditCR, Edit
  <2>2. \/ \E f \in Editable : cr' = [cr EXCEPT ![f] = Edited[f]]
        \/ cr' = [cr EXCEPT !.ver = @ + 1]
    BY <1>5, Zenon DEF EditCR
  <2>3. cr' \in Variants(s, edits + 1)
    BY <1>1, <1>2, <2>2, VariantSteps, Zenon
  <2>4. Variants(s, edits) \subseteq Variants(s, edits + 1)
    BY <1>1, VariantSteps, Zenon
  <2>5. edits' \in 0..MaxEdits
    BY <1>1, <2>1
  <2> QED
    BY <1>1, <1>2, <1>3, <2>1, <2>3, <2>4, <2>5
<1>6. CASE PodsFail
  <2>1. edits < MaxEdits /\ edits' = edits + 1 /\ inst' = inst /\ cr' = cr
    BY <1>6, Zenon DEF PodsFail, Edit
  <2>2. Variants(s, edits) \subseteq Variants(s, edits + 1)
    BY <1>1, VariantSteps
  <2>3. edits' \in 0..MaxEdits
    BY <1>1, <2>1
  <2> QED
    BY <1>1, <1>2, <1>3, <2>1, <2>2, <2>3
<1>7. CASE InstallStep
  BY <1>4, <1>7, InstallStepEffect, Zenon
<1> QED
  BY <1>4, <1>5, <1>6, <1>7, Zenon DEF Next, Reconcile, PassFails, PodsStart, vars

\* A plan has children that a pass can create.
LEMMA PlannedChildren ==
    ASSUME NEW s
    PROVE  ChildrenOf(s) \subseteq Planned /\ Seq(ChildrenOf(s)) \subseteq Seq(Planned)
<1>1. ChildrenOf(s) \subseteq Planned
  BY BuiltChildren DEF ChildrenOf, CommonChildren, ObserverChildren, GatekeeperChildren,
                       ControllerChildren
<1> QED
  BY <1>1

\* The next child of a pass is in its plan, and what it needs is there.
LEMMA HeadReady ==
    ASSUME NEW s \in Specs, PassInv(s), plan # <<>>
    PROVE  /\ Head(plan) \in ChildrenOf(s) /\ Tail(plan) \in Seq(ChildrenOf(s))
           /\ \A d \in Needs(Head(plan)) : d \in Built /\ Present(d, inst)
<1> DEFINE B == {c \in Built : Present(c, inst)}
<1>1. plan \in Seq(ChildrenOf(s)) /\ Ordered(plan, B)
  BY Zenon DEF PassInv
<1>2. B \subseteq B \union {Head(plan)} /\ Head(plan) \in B \union {Head(plan)}
  BY Zenon
<1> HIDE DEF B
<1>3. /\ Tail(plan) \in Seq(ChildrenOf(s)) /\ Head(plan) \in ChildrenOf(s)
      /\ Needs(Head(plan)) \subseteq B
  BY <1>1, <1>2, OrderedTail, Zenon
<1> QED
  BY <1>3, Zenon DEF B

\* Passes follow their plan behind the children that are there.
LEMMA PassStep ==
    ASSUME TypeOK, NEW s \in Specs, PassInv(s), [Next]_vars
    PROVE  PassInv(s)'
<1>p. plan \in Seq(ChildrenOf(s)) /\ plan \in Seq(Planned)
  BY PlannedChildren, Zenon DEF PassInv
<1>1. cr' \in Variants(s, edits') /\ inst' \in Variants(s, edits')
  BY <1>p, CountersGrow, Zenon
<1> DEFINE B == {c \in Built : Present(c, inst)}
           C == {c \in Built : \E x \in store' : Id(x) = ChildId(c, inst')}
<1>2. SUFFICES plan' \in Seq(ChildrenOf(s)) /\ Ordered(plan', C)
  BY <1>1, Zenon DEF PassInv, Present
<1>3. CASE plan' = <<>>
  BY <1>3 DEF Ordered
<1>4. CASE Reconcile
  <2>1. plan' = InstallPlan(cr) /\ cr \in Variants(s, edits)
    BY <1>4, Zenon DEF Reconcile, PassInv
  <2>2. plan' \in Seq(ChildrenOf(s)) /\ Ordered(plan', {})
    BY <2>1, VariantFields, InstallPlanOrdered, Zenon
  <2> QED
    BY <2>2, Zenon DEF Ordered
<1>5. inst' = inst => B \subseteq C
  <2>1. SUFFICES ASSUME inst' = inst, NEW c \in B PROVE c \in C
    BY Zenon
  <2>2. c \in Built /\ \E x \in store : Id(x) = ChildId(c, inst)
    BY Zenon DEF Present
  <2>3. \E x \in store' : Id(x) = ChildId(c, inst)
    BY <1>p, <2>2, PresentStays, Zenon
  <2> QED
    BY <2>1, <2>2, <2>3, Zenon
<1>6. CASE UNCHANGED <<inst, plan>>
  BY <1>5, <1>6, <1>p DEF PassInv, Ordered
<1>7. CASE InstallStep
  <2>1. plan # <<>> /\ inst' = inst
        /\ (Creates(Head(plan)) \/ Skips(Head(plan)) \/ Registers(Head(plan)))
    BY <1>7, <1>p, InstallStepEffect, Zenon
  <2>2. CASE Skips(Head(plan))
    <3>1. plan' = Tail(plan) /\ Head(plan) \in B
      BY <2>2, Zenon DEF Skips
    <3>2. Head(plan) \in C
      BY <1>5, <2>1, <3>1, Zenon
    <3>3. Ordered(plan, B)
      BY Zenon DEF PassInv
    <3> HIDE DEF B, C
    <3> QED
      BY <1>5, <1>p, <2>1, <3>1, <3>2, <3>3, OrderedTail, Zenon
  <2>3. CASE Registers(Head(plan)) /\ plan' = Tail(plan)
    <3>1. Ordered(plan, B) /\ B \subseteq C
      BY <1>5, <2>1, Zenon DEF PassInv
    <3>2. Head(plan) = "Webhook"
      BY <2>3, Zenon DEF Registers
    <3>3. \A c \in Planned : "Webhook" \notin Needs(c)
      BY BuiltChildren, Zenon DEF Needs
    <3> HIDE DEF B, C
    <3>4. Ordered(Tail(plan), C \union {"Webhook"}) /\ Tail(plan) \in Seq(ChildrenOf(s))
      BY <1>p, <2>1, <3>1, <3>2, OrderedTail
    <3>5. \A i \in 1..Len(Tail(plan)) : Tail(plan)[i] \in Planned
      BY <3>4, PlannedChildren
    <3>6. Ordered(Tail(plan), C)
      BY <3>3, <3>4, <3>5, Zenon DEF Ordered
    <3> QED
      BY <2>3, <3>4, <3>6, Zenon
  <2> QED
    BY <1>3, <2>1, <2>2, <2>3, Zenon DEF Creates, Registers
<1> QED
  BY <1>3, <1>4, <1>6, <1>7, Zenon DEF Next, PassFails, Requeue, EditCR, PodsStart, PodsFail, vars

\* Intervals of the numbers of certificates.
LEMMA RangeGrows ==
    ASSUME NEW a \in Nat, NEW b \in Nat, b >= a
    PROVE  0..(a + 1) \subseteq 0..(b + 1) /\ a \in 0..(b + 1) /\ a + 1 \in 0..(b + 1)
OBVIOUS

\* What is stored stays made from a spec of the CR, with what it needs.
LEMMA ProvenanceStep ==
    ASSUME TypeOK, NEW s \in Specs, PassInv(s), Provenance(s), [Next]_vars
    PROVE  Provenance(s)'
<1>p. plan \in Seq(Planned)
  BY PlannedChildren, Zenon DEF PassInv
<1>0. /\ 0..(certs + 1) \subseteq 0..(certs' + 1)
      /\ certs \in 0..(certs' + 1) /\ certs + 1 \in 0..(certs' + 1)
  <2>1. certs' \in Nat /\ certs \in Nat /\ certs' >= certs
    BY <1>p, CountersGrow, Zenon DEF TypeOK
  <2> QED
    BY <2>1, RangeGrows, Zenon
<1>1. /\ Variants(s, edits) \subseteq Variants(s, edits')
      /\ inst \in Variants(s, edits)
  BY <1>p, CountersGrow, Zenon DEF TypeOK, PassInv
<1> DEFINE Made(x, c, t) ==
             \/ /\ c = "Webhook" /\ x.kind = "Webhook"
                /\ x = BuildValidatingWebhookConfigurationForIShield(t, x.caBundle)
             \/ c # "Webhook" /\ \E n \in 0..(certs' + 1) : x = Build(c, t, n)
           There(d, t) == \E y \in store' : Id(y) = ChildId(d, t)
<1>2. SUFFICES ASSUME NEW x \in store'
               PROVE  \E c \in ChildrenOf(s), t \in Variants(s, edits') :
                        Made(x, c, t) /\ \A d \in Needs(c) : There(d, t)
  BY Zenon DEF Provenance, MadeFrom, Present
<1>3. \A c \in Planned : Needs(c) \subseteq Built
  BY Zenon DEF Needs
<1>4. CASE x \in store
  <2>1. PICK c \in ChildrenOf(s), t \in Variants(s, edits) :
          MadeFrom(x, c, t) /\ \A d \in Needs(c) : Present(d, t)
    BY <1>4, Zenon DEF Provenance
  <2>2. Made(x, c, t)
    BY <1>0, <2>1, Zenon DEF MadeFrom
  <2>3. ASSUME NEW d \in Needs(c)
        PROVE  There(d, t)
    <3>1. d \in Built /\ \E y \in store : Id(y) = ChildId(d, t)
      BY <2>1, Zenon DEF Present, Needs
    <3> QED
      BY <1>p, <3>1, PresentStays, Zenon
  <2> HIDE DEF Made, There
  <2> QED
    BY <1>1, <2>1, <2>2, <2>3, Zenon
<1>5. CASE x \notin store
  <2>1. InstallStep
    BY <1>5, Zenon DEF Next, Reconcile, PassFails, EditCR, PodsStart, PodsFail, vars
  <2> DEFINE c == Head(plan)
  <2>2. plan # <<>> /\ (Creates(c) \/ Skips(c) \/ Registers(c))
    BY <1>p, <2>1, InstallStepEffect, Zenon
  <2>3. c \in ChildrenOf(s) /\ \A d \in Needs(c) : d \in Built /\ Present(d, inst)
    BY <2>2, HeadReady, Zenon
  <2> HIDE DEF c
  <2>4. ASSUME NEW d \in Needs(c)
        PROVE  There(d, inst)
    BY <1>p, <2>3, PresentStays, Zenon DEF Present
  <2>5. Made(x, c, inst)
    <3>1. CASE Creates(c)
      <4>1. PICK n \in {certs, certs + 1} : x = Build(c, inst, n)
        BY <1>5, <3>1, Zenon DEF Creates
      <4>2. n \in 0..(certs' + 1)
        BY <1>0, <4>1, Zenon
      <4>3. c # "Webhook"
        BY <3>1, BuiltChildren, Zenon DEF Creates
      <4> QED
        BY <4>1, <4>2, <4>3, Zenon
    <3>2. CASE Registers(c)
      <4>1. x = BuildValidatingWebhookConfigurationForIShield(inst, CABundle) /\ c = "Webhook"
        BY <1>5, <3>2, Zenon DEF Registers
      <4>2. x.caBundle = CABundle /\ x.kind = "Webhook"
        BY <4>1, Zenon DEF BuildValidatingWebhookConfigurationForIShield
      <4> QED
        BY <4>1, <4>2, Zenon
    <3> QED
      BY <1>5, <2>2, <3>1, <3>2, Zenon DEF Skips
  <2> HIDE DEF Made, There
  <2> QED
    BY <1>1, <2>3, <2>4, <2>5, Zenon
<1> QED
  BY <1>4, <1>5, Zenon

\* The certificates of Secrets have numbers, and a Secret is made for a Secret child.
LEMMA BuiltSecrets ==
    ASSUME NEW c \in Built, NEW t, NEW n, Build(c, t, n).kind = "Secret"
    PROVE  c \in Secrets /\ Build(c, t, n).cert.ca = n
<1>1. c \in Secrets
  BY BuiltKind, Zenon
<1>2. c = "TlsSecret" => Build(c, t, n).cert.ca = n
  BY BuildIs DEF BuildTlsSecretForIShield, GenerateCert
<1>3. c = "ACTlsSecret" => Build(c, t, n).cert.ca = n
  BY BuildIs DEF BuildAPITlsSecretForIShield, GenerateCert
<1> QED
  BY <1>1, <1>2, <1>3, Zenon DEF Secrets

\* Every step keeps the types.
LEMMA TypeStep ==
    ASSUME TypeOK, NEW s \in Specs, PassInv(s), [Next]_vars
    PROVE  TypeOK'
<1>p. plan \in Seq(Planned)
  BY PlannedChildren, Zenon DEF PassInv
<1>1. certs' \in Nat /\ certs' >= certs /\ edits' \in 0..MaxEdits
  BY <1>p, CountersGrow, Zenon
<1>2. plan' \in Seq(Children)
  <2>1. plan' \in Seq(ChildrenOf(s))
    BY PassStep, Zenon DEF PassInv
  <2> QED
    BY <2>1, PlannedChildren, BuiltChildren
<1>t. /\ \A x, y \in store : Id(x) = Id(y) => x = y
      /\ available \subseteq {d.name : d \in OfKind(store, "Deployment")}
      /\ \A x \in OfKind(store, "Secret") : x.cert.ca \in 1..certs
      /\ certs \in Nat
  BY Zenon DEF TypeOK
<1>3. CASE store' = store
  <2>1. available' \subseteq {d.name : d \in OfKind(store, "Deployment")}
    <3>1. CASE InstallStep
      BY <1>p, <1>t, <3>1, InstallStepEffect, Zenon
    <3>2. CASE PodsStart
      BY <1>t, <3>2, Zenon DEF PodsStart
    <3> QED
      BY <1>t, <3>1, <3>2, Zenon DEF Next, Reconcile, PassFails, EditCR, PodsFail, vars
  <2>2. \A x \in OfKind(store, "Secret") : x.cert.ca \in 1..certs'
    BY <1>1, <1>t
  <2> QED
    BY <1>1, <1>2, <1>3, <1>t, <2>1, <2>2, Zenon DEF TypeOK, OfKind
<1>4. CASE store' # store
  <2>0. InstallStep
    BY <1>4, Zenon DEF Next, Reconcile, PassFails, EditCR, PodsStart, PodsFail, vars
  <2> DEFINE c == Head(plan)
  <2>1. available' = available /\ (Creates(c) \/ Registers(c))
    BY <1>4, <1>p, <2>0, InstallStepEffect, Zenon DEF Skips
  <2> HIDE DEF c
  <2>2. CASE Creates(c)
    <3>1. PICK n \in {certs, certs + 1} :
            /\ store' = (store \ Found(Build(c, inst, n))) \union {Build(c, inst, n)}
            /\ c \in Secrets => n = certs + 1 /\ certs' = certs + 1
      BY <2>2, Zenon DEF Creates
    <3> DEFINE o == Build(c, inst, n)
    <3>2. c \in Built
      BY <2>2, Zenon DEF Creates
    <3>3. o.kind = "Secret" => o.cert.ca \in 1..certs'
      BY <1>1, <1>t, <3>1, <3>2, BuiltSecrets
    <3>4. store' = (store \ Found(o)) \union {o}
      BY <3>1, Zenon
    <3> HIDE DEF o
    <3>5. \A x, y \in store' : Id(x) = Id(y) => x = y
      BY <1>t, <3>4, Zenon DEF Found
    <3>6. available \subseteq {d.name : d \in OfKind(store', "Deployment")}
      BY <1>t, <3>4, Zenon DEF Found, OfKind, Id
    <3>7. \A x \in OfKind(store', "Secret") : x.cert.ca \in 1..certs'
      BY <1>1, <1>t, <3>3, <3>4 DEF OfKind
    <3> QED
      BY <1>1, <1>2, <2>1, <3>5, <3>6, <3>7, Zenon DEF TypeOK, OfKind
  <2>3. CASE Registers(c)
    <3> DEFINE o == BuildValidatingWebhookConfigurationForIShield(inst, CABundle)
    <3>1. o.kind = "Webhook"
      BY Zenon DEF BuildValidatingWebhookConfigurationForIShield
    <3>2. \/ Found(o) = {} /\ store' = store \union {o}
          \/ store' = store \ Named("Webhook", inst.WebhookConfigName)
      BY <1>4, <2>3, Zenon DEF Registers
    <3> HIDE DEF o
    <3>3. \A x, y \in store' : Id(x) = Id(y) => x = y
      BY <1>t, <3>2, Zenon DEF Found
    <3>4. available \subseteq {d.name : d \in OfKind(store', "Deployment")}
      BY <1>t, <3>2, Zenon DEF Named, OfKind
    <3>5. \A x \in OfKind(store', "Secret") : x.cert.ca \in 1..certs'
      BY <1>1, <1>t, <3>1, <3>2 DEF OfKind
    <3> QED
      BY <1>1, <1>2, <2>1, <3>3, <3>4, <3>5, Zenon DEF TypeOK, OfKind
  <2> QED
    BY <2>1, <2>2, <2>3, Zenon
<1> QED
  BY <1>3, <1>4, Zenon

\* The first state: nothing is stored.
LEMMA RolloutInit ==
    ASSUME Init
    PROVE  TypeOK /\ cr \in Specs /\ PassInv(cr) /\ Provenance(cr)
<1>1. TypeOK
  BY FieldNames DEF Init, TypeOK, OfKind
<1>2. cr \in Variants(cr, edits)
  BY VariantSteps, Zenon DEF Init
<1>3. PassInv(cr)
  BY <1>2 DEF Init, PassInv, Ordered
<1>4. Provenance(cr)
  BY Zenon DEF Init, Provenance
<1> QED
  BY <1>1, <1>3, <1>4, Zenon DEF Init

\* Whatever the admin edits and wherever a pass stops, every stored object was
\* built from one spec the CR has had, and what it refers to is stored under the
\* names of that spec.
THEOREM StoreHasProvenance == Spec => [](TypeOK /\ RolloutInv)
<1>1. Init => TypeOK /\ RolloutInv
  BY RolloutInit, Zenon DEF RolloutInv
<1>2. TypeOK /\ RolloutInv /\ [Next]_vars => (TypeOK /\ RolloutInv)'
  BY TypeStep, PassStep, ProvenanceStep, Zenon DEF RolloutInv
<1> QED
  BY <1>1, <1>2, PTL DEF Spec

\* Stored objects have names of their own, only stored Deployments have ready
\* pods, and the Secrets hold certificates that were generated: TypeOK, for any
\* specs and edits.
THEOREM RolloutTypeCorrect == Spec => []TypeOK
BY StoreHasProvenance, PTL

-----------------------------------------------------------------------------
(* What the stored objects refer to *)

\* The object of each kind, from the child it was made for.
LEMMA MadeObjects ==
    ASSUME NEW x, NEW c \in Planned, NEW t, MadeFrom(x, c, t)
    PROVE  /\ x.kind = "Webhook" =>
                c = "Webhook" /\ x = BuildValidatingWebhookConfigurationForIShield(t, x.caBundle)
           /\ x.kind = "Service" =>
                \/ c = "WebhookService" /\ x = BuildServiceForIShield(t)
                \/ c = "APIService"
           /\ x.kind = "Deployment" =>
                \/ c = "IShieldAPIDeployment" /\ x = BuildDeploymentForIShieldAPI(t)
                \/ c = "AdmissionControllerDeployment" /\ x = BuildDeploymentForAdmissionController(t)
                \/ c = "ObserverDeployment" /\ x = BuildDeploymentForObserver(t)
           /\ x.kind = "Secret" =>
                \/ c = "ACTlsSecret" /\ \E n \in 0..(certs + 1) : x = BuildAPITlsSecretForIShield(t, n)
                \/ c = "TlsSecret"
           /\ x.kind = "ConfigMap" =>
                \/ c = "RequestHandlerConfig" /\ x = BuildReqConfigForIShield(t)
                \/ c = "ACConfig" /\ x = BuildACConfigForIShield(t)
           /\ x.kind = "ClusterRoleBinding" =>
                \/ c = "ClusterRoleBindingForIShield" /\ x = BuildClusterRoleBindingForIShield(t)
                \/ c = "ClusterRoleBindingForObserver" /\ x = BuildClusterRoleBindingForObserver(t)
           /\ x.kind = "RoleBinding" =>
                \/ c = "RoleBindingForIShield" /\ x = BuildRoleBindingForIShield(t)
                \/ c = "RoleBindingForObserver" /\ x = BuildRoleBindingForObserver(t)
           /\ x.kind = "ClusterRole" =>
                \/ c = "ClusterRoleForIShield" /\ x = BuildClusterRoleForIShield(t)
                \/ c = "ClusterRoleForObserver" /\ x = BuildClusterRoleForObserver(t)
           /\ x.kind = "Role" =>
                \/ c = "RoleForIShield" /\ x = BuildRoleForIShield(t)
                \/ c = "RoleForObserver" /\ x = BuildRoleForObserver(t)
<1>1. CASE c = "Webhook"
  <2>1. x = BuildValidatingWebhookConfigurationForIShield(t, x.caBundle) /\ x.kind = "Webhook"
    BY <1>1, Zenon DEF MadeFrom, BuildValidatingWebhookConfigurationForIShield
  <2> QED
    BY <1>1, <2>1, Zenon
<1>2. CASE c # "Webhook"
  <2>1. PICK n \in 0..(certs + 1) : x = Build(c, t, n)
    BY <1>2, Zenon DEF MadeFrom
  <2>2. c \in Built /\ <<x.kind, x.name>> = Id(Build(c, t, n))
    BY <1>2, <2>1, BuiltChildren, Zenon DEF Id
  <2> QED
    BY <2>1, <2>2, BuiltChildren, BuildIds, BuildIs
<1> QED
  BY <1>1, <1>2, Zenon

\* The objects of a kind are made for a child of the spec, from a spec of the CR.
LEMMA Origin ==
    ASSUME NEW s \in Specs, Provenance(s), NEW x \in store
    PROVE  \E c \in ChildrenOf(s), t \in Variants(s, edits) :
             /\ c \in Planned /\ MadeFrom(x, c, t)
             /\ \A d \in Needs(c) : d \in Built /\ \E y \in store : Id(y) = ChildId(d, t)
BY PlannedChildren DEF Provenance, Present, Needs

\* A ConfigMap found under a name of the request handler has its key.
LEMMA HandlerConfigKey ==
    ASSUME ConfigsApart, NEW s \in Specs, Provenance(s), NEW t \in Variants(s, edits),
           NEW x \in store, Id(x) = ChildId("RequestHandlerConfig", t)
    PROVE  /\ x.kind = "ConfigMap" /\ x.name = t.RequestHandlerConfigName
           /\ x.data.key = t.RequestHandlerConfigKey
<1>1. x.kind = "ConfigMap" /\ x.name = t.RequestHandlerConfigName
  BY FoundConfig, Zenon
<1>2. PICK c \in ChildrenOf(s), u \in Variants(s, edits) : c \in Planned /\ MadeFrom(x, c, u)
  BY Origin, Zenon
<1>3. \/ c = "RequestHandlerConfig" /\ x = BuildReqConfigForIShield(u)
      \/ c = "ACConfig" /\ x = BuildACConfigForIShield(u)
  BY <1>1, <1>2, MadeObjects, Zenon
<1>4. CASE c = "ACConfig" /\ x = BuildACConfigForIShield(u)
  <2>1. ~s.gk
    BY <1>4, Zenon DEF ChildrenOf, CommonChildren, ObserverChildren, GatekeeperChildren
  <2>2. x.name = u.AdmissionControllerConfigName
    BY <1>4, Zenon DEF BuildACConfigForIShield, ConfigMap
  <2>3. /\ u.AdmissionControllerConfigName \in Values(s, "AdmissionControllerConfigName")
        /\ t.RequestHandlerConfigName \in Values(s, "RequestHandlerConfigName")
    BY ConfigFields, Zenon
  <2> QED
    BY <1>1, <2>1, <2>2, <2>3, Zenon DEF ConfigsApart, Apart
<1>5. CASE x = BuildReqConfigForIShield(u)
  <2>1. x.data.key = u.RequestHandlerConfigKey
    BY <1>5, Zenon DEF BuildReqConfigForIShield, ConfigMap
  <2>2. u.RequestHandlerConfigKey = t.RequestHandlerConfigKey
    BY ConfigFields
  <2> QED
    BY <1>1, <2>1, <2>2, Zenon
<1> QED
  BY <1>3, <1>4, <1>5, Zenon

\* The same for the admission controller.
LEMMA ControllerConfigKey ==
    ASSUME ConfigsApart, NEW s \in Specs, ~s.gk, Provenance(s), NEW t \in Variants(s, edits),
           NEW x \in store, Id(x) = ChildId("ACConfig", t)
    PROVE  /\ x.kind = "ConfigMap" /\ x.name = t.AdmissionControllerConfigName
           /\ x.data.key = t.AdmissionControllerConfigKey
<1>1. x.kind = "ConfigMap" /\ x.name = t.AdmissionControllerConfigName
  BY FoundConfig, Zenon
<1>2. PICK c \in ChildrenOf(s), u \in Variants(s, edits) : c \in Planned /\ MadeFrom(x, c, u)
  BY Origin, Zenon
<1>3. \/ c = "RequestHandlerConfig" /\ x = BuildReqConfigForIShield(u)
      \/ c = "ACConfig" /\ x = BuildACConfigForIShield(u)
  BY <1>1, <1>2, MadeObjects, Zenon
<1>4. CASE x = BuildReqConfigForIShield(u)
  <2>2. x.name = u.RequestHandlerConfigName
    BY <1>4, Zenon DEF BuildReqConfigForIShield, ConfigMap
  <2>3. /\ t.AdmissionControllerConfigName \in Values(s, "AdmissionControllerConfigName")
        /\ u.RequestHandlerConfigName \in Values(s, "RequestHandlerConfigName")
    BY ConfigFields, Zenon
  <2> QED
    BY <1>1, <2>2, <2>3, Zenon DEF ConfigsApart, Apart
<1>5. CASE x = BuildACConfigForIShield(u)
  <2>1. x.data.key = u.AdmissionControllerConfigKey
    BY <1>5, Zenon DEF BuildACConfigForIShield, ConfigMap
  <2>2. u.AdmissionControllerConfigKey = t.AdmissionControllerConfigKey
    BY ConfigFields
  <2> QED
    BY <1>1, <2>1, <2>2, Zenon
<1> QED
  BY <1>3, <1>4, <1>5, Zenon

\* What a Deployment made from t needs of the cluster.
LEMMA DeploymentRefers ==
    ASSUME NEW t, NEW d, NEW c, MadeFrom(d, c, t), c \in Planned, d.kind = "Deployment"
    PROVE  /\ c \in Deployments
           /\ \/ /\ c = "IShieldAPIDeployment" /\ d.port = "ishield-api"
                 /\ d.serviceAccount = t.APIServiceAccountName
                 /\ d.secrets = {t.APITlsSecretName}
                 /\ d.env = {EnvRef(t.RequestHandlerConfigName, t.RequestHandlerConfigKey)}
              \/ /\ c = "AdmissionControllerDeployment" /\ d.port = "validator-port"
                 /\ d.serviceAccount = t.APIServiceAccountName
                 /\ d.secrets = {t.WebhookServerTlsSecretName}
                 /\ d.env = {EnvRef(t.RequestHandlerConfigName, t.RequestHandlerConfigKey),
                             EnvRef(t.AdmissionControllerConfigName, t.AdmissionControllerConfigKey)}
              \/ /\ c = "ObserverDeployment" /\ d.port = "none"
                 /\ d.serviceAccount = t.ObserverServiceAccountName
                 /\ d.secrets = {}
                 /\ d.env = {EnvRef(t.RequestHandlerConfigName, t.RequestHandlerConfigKey)}
<1>1. \/ c = "IShieldAPIDeployment" /\ d = BuildDeploymentForIShieldAPI(t)
      \/ c = "AdmissionControllerDeployment" /\ d = BuildDeploymentForAdmissionController(t)
      \/ c = "ObserverDeployment" /\ d = BuildDeploymentForObserver(t)
  BY MadeObjects, Zenon
<1>2. CASE c = "IShieldAPIDeployment" /\ d = BuildDeploymentForIShieldAPI(t)
  BY <1>2, Zenon DEF BuildDeploymentForIShieldAPI, Deployments
<1>3. CASE c = "AdmissionControllerDeployment" /\ d = BuildDeploymentForAdmissionController(t)
  BY <1>3, Zenon DEF BuildDeploymentForAdmissionController, Deployments
<1>4. CASE c = "ObserverDeployment" /\ d = BuildDeploymentForObserver(t)
  BY <1>4, Zenon DEF BuildDeploymentForObserver, Deployments
<1> QED
  BY <1>1, <1>2, <1>3, <1>4, Zenon

\* What the provenance of the objects says of the references of a Deployment.
LEMMA ResolveFromProvenance ==
    ASSUME ConfigsApart, RolloutInv
    PROVE  ReferencesResolve
<1>s. PICK s \in Specs : Provenance(s)
  BY Zenon DEF RolloutInv
<1>1. SUFFICES ASSUME NEW d \in store, d.kind = "Deployment"
               PROVE  /\ \E a \in store : a.kind = "ServiceAccount" /\ a.name = d.serviceAccount
                      /\ \A n \in d.secrets : \E a \in store : a.kind = "Secret" /\ a.name = n
                      /\ \A e \in d.env : \E m \in store :
                           m.kind = "ConfigMap" /\ m.name = e.name /\ m.data.key = e.key
  BY DEF ReferencesResolve, OfKind, Named
<1>2. PICK c \in ChildrenOf(s), t \in Variants(s, edits) :
        /\ c \in Planned /\ MadeFrom(d, c, t)
        /\ \A b \in Needs(c) : b \in Built /\ \E y \in store : Id(y) = ChildId(b, t)
  BY <1>s, Origin, Zenon
<1>3. c \in Deployments
  BY <1>1, <1>2, DeploymentRefers, Zenon
<1>4. /\ "RequestHandlerConfig" \in Needs(c) /\ "IShieldApiServiceAccount" \in Needs(c)
      /\ c = "IShieldAPIDeployment" => "TlsSecret" \in Needs(c)
      /\ c = "AdmissionControllerDeployment" => "ACConfig" \in Needs(c) /\ "ACTlsSecret" \in Needs(c)
      /\ c = "ObserverDeployment" => "ObserverServiceAccount" \in Needs(c)
  BY <1>3, BuiltChildren, Zenon DEF Needs, CommonChildren, ObserverChildren
<1>5. PICK m \in store : /\ m.kind = "ConfigMap" /\ m.name = t.RequestHandlerConfigName
                         /\ m.data.key = t.RequestHandlerConfigKey
  BY <1>s, <1>2, <1>4, HandlerConfigKey, Zenon
<1>6. PICK a \in store : a.kind = "ServiceAccount" /\ a.name = t.APIServiceAccountName
  BY <1>2, <1>4, FoundConfig, Zenon
<1>7. CASE c = "IShieldAPIDeployment"
  <2>1. PICK x \in store : x.kind = "Secret" /\ x.name = t.APITlsSecretName
    BY <1>2, <1>4, <1>7, FoundServer, Zenon
  <2> QED
    BY <1>1, <1>2, <1>5, <1>6, <1>7, <2>1, DeploymentRefers DEF EnvRef
<1>8. CASE c = "AdmissionControllerDeployment"
  <2>1. PICK x \in store : x.kind = "Secret" /\ x.name = t.WebhookServerTlsSecretName
    BY <1>2, <1>4, <1>8, FoundServer, Zenon
  <2>2. ~s.gk
    BY <1>8, Zenon DEF ChildrenOf, CommonChildren, ObserverChildren, GatekeeperChildren
  <2>3. PICK k \in store : /\ k.kind = "ConfigMap" /\ k.name = t.AdmissionControllerConfigName
                           /\ k.data.key = t.AdmissionControllerConfigKey
    BY <1>s, <1>2, <1>4, <1>8, <2>2, ControllerConfigKey
  <2> QED
    BY <1>1, <1>2, <1>5, <1>6, <1>8, <2>1, <2>3, DeploymentRefers DEF EnvRef
<1>9. CASE c = "ObserverDeployment"
  <2>1. PICK x \in store : x.kind = "ServiceAccount" /\ x.name = t.ObserverServiceAccountName
    BY <1>2, <1>4, <1>9, FoundConfig, Zenon
  <2> QED
    BY <1>1, <1>2, <1>5, <1>9, <2>1, DeploymentRefers DEF EnvRef
<1> QED
  BY <1>3, <1>7, <1>8, <1>9, Zenon DEF Deployments

\* A deployed component finds its ServiceAccount, its Secret and its ConfigMaps
\* with the keys it reads, whatever else is edited and wherever passes stop, when
\* the two keys are never edited and the two ConfigMaps never share a name.
THEOREM ReferencesAlwaysResolve ==
    ASSUME ConfigsApart
    PROVE  Spec => []ReferencesResolve
<1>1. RolloutInv => ReferencesResolve
  BY ResolveFromProvenance, Zenon
<1> QED
  BY <1>1, StoreHasProvenance, PTL

-----------------------------------------------------------------------------
(* The webhook and the certificate of its server *)

\* The CA of a registered webhook signed the certificate that is stored.
Trust ==
    \A w \in OfKind(store, "Webhook"), x \in OfKind(store, "Secret") : x.cert.ca = w.caBundle

\* With a webhook among the children, every Secret is that of its server.
LEMMA ServerSecret ==
    ASSUME ServerApart, NEW s \in Specs, "Webhook" \in ChildrenOf(s), Provenance(s),
           NEW x \in store, x.kind = "Secret"
    PROVE  /\ x.name = s.WebhookServerTlsSecretName
           /\ x.cert.host = s.WebhookServiceName
<1>1. PICK c \in ChildrenOf(s), u \in Variants(s, edits) : c \in Planned /\ MadeFrom(x, c, u)
  BY Origin, Zenon
<1>2. ~s.gk /\ c # "TlsSecret"
  BY Zenon DEF ChildrenOf, CommonChildren, ObserverChildren, GatekeeperChildren, ControllerChildren
<1>3. PICK n \in 0..(certs + 1) : x = BuildAPITlsSecretForIShield(u, n)
  BY <1>1, <1>2, MadeObjects, Zenon
<1>4. /\ u.WebhookServerTlsSecretName = s.WebhookServerTlsSecretName
      /\ u.WebhookServiceName = s.WebhookServiceName
  BY ServerFields, Zenon
<1> QED
  BY <1>3, <1>4, Zenon DEF BuildAPITlsSecretForIShield, GenerateCert

\* A webhook has its Service, its server and its Secret.
LEMMA WebhookNeeds ==
    ASSUME ServerApart, NEW s \in Specs, Provenance(s), NEW w \in store, w.kind = "Webhook"
    PROVE  /\ "Webhook" \in ChildrenOf(s) /\ ~s.gk
           /\ w.service = s.WebhookServiceName
           /\ \E t \in Variants(s, edits) :
                /\ \E y \in store : y.kind = "Secret" /\ y.name = s.WebhookServerTlsSecretName
                /\ \E y \in store : y.kind = "Service" /\ y.name = s.WebhookServiceName
                /\ \E y \in store : y.kind = "Deployment" /\ y.name = t.ControllerName
<1>1. PICK c \in ChildrenOf(s), t \in Variants(s, edits) :
        /\ c \in Planned /\ MadeFrom(w, c, t)
        /\ \A b \in Needs(c) : b \in Built /\ \E y \in store : Id(y) = ChildId(b, t)
  BY Origin, Zenon
<1>2. c = "Webhook" /\ w = BuildValidatingWebhookConfigurationForIShield(t, w.caBundle)
  BY <1>1, MadeObjects, Zenon
<1>3. "Webhook" \in ChildrenOf(s) /\ ~s.gk
  BY <1>2, Zenon DEF ChildrenOf, CommonChildren, ObserverChildren, GatekeeperChildren
<1>4. /\ t.WebhookServerTlsSecretName = s.WebhookServerTlsSecretName
      /\ t.WebhookServiceName = s.WebhookServiceName
  BY ServerFields, Zenon
<1>5. w.service = s.WebhookServiceName
  BY <1>2, <1>4 DEF BuildValidatingWebhookConfigurationForIShield
<1>6. {"ACTlsSecret", "AdmissionControllerDeployment", "WebhookService"} \subseteq Needs(c)
  BY <1>2, BuiltChildren, Zenon DEF Needs
<1>7. \E y \in store : y.kind = "Secret" /\ y.name = s.WebhookServerTlsSecretName
  BY <1>1, <1>4, <1>6, FoundServer
<1>8. \E y \in store : y.kind = "Service" /\ y.name = s.WebhookServiceName
  BY <1>1, <1>4, <1>6, FoundServer
<1>9. \E y \in store : y.kind = "Deployment" /\ y.name = t.ControllerName
  BY <1>1, <1>6, FoundServer, Zenon
<1> QED
  BY <1>3, <1>5, <1>7, <1>8, <1>9, Zenon

\* The provenance of the objects and Trust make the webhook's server reachable.
LEMMA ReachableFromTrust ==
    ASSUME ServerApart, RolloutInv, Trust
    PROVE  WebhookReachable
<1>s. PICK s \in Specs : Provenance(s)
  BY Zenon DEF RolloutInv
<1>1. SUFFICES ASSUME NEW w \in store, w.kind = "Webhook"
               PROVE  \E v \in store, d \in store :
                        /\ v.kind = "Service" /\ v.name = w.service /\ d.kind = "Deployment"
                        /\ Routes(v, d)
                        /\ \A n \in d.secrets : \E x \in store :
                             /\ x.kind = "Secret" /\ x.name = n
                             /\ x.cert.host = w.service /\ x.cert.ca = w.caBundle
  BY DEF WebhookReachable, OfKind, Named
<1>2. /\ "Webhook" \in ChildrenOf(s) /\ ~s.gk /\ w.service = s.WebhookServiceName
  BY <1>s, <1>1, WebhookNeeds, Zenon
<1>3. PICK t \in Variants(s, edits) :
        /\ \E y \in store : y.kind = "Secret" /\ y.name = s.WebhookServerTlsSecretName
        /\ \E y \in store : y.kind = "Service" /\ y.name = s.WebhookServiceName
        /\ \E y \in store : y.kind = "Deployment" /\ y.name = t.ControllerName
  BY <1>s, <1>1, WebhookNeeds, Zenon
<1>4. PICK v \in store : v.kind = "Service" /\ v.name = s.WebhookServiceName
  BY <1>3, Zenon
<1>5. v.selector = s.ControllerSelector /\ v.targetPort = "validator-port"
  <2>1. PICK c \in ChildrenOf(s), u \in Variants(s, edits) : c \in Planned /\ MadeFrom(v, c, u)
    BY <1>s, Origin, Zenon
  <2>2. c # "APIService"
    BY <1>2, Zenon DEF ChildrenOf, CommonChildren, ObserverChildren, ControllerChildren
  <2>3. v = BuildServiceForIShield(u)
    BY <1>4, <2>1, <2>2, MadeObjects, Zenon
  <2>4. u.ControllerSelector = s.ControllerSelector
    BY ServerFields, Zenon
  <2> QED
    BY <2>3, <2>4, Zenon DEF BuildServiceForIShield
<1>6. PICK d \in store : d.kind = "Deployment" /\ d.name = t.ControllerName
  BY <1>3, Zenon
<1>7. /\ d.labels = s.ControllerSelector /\ d.port = "validator-port"
      /\ d.secrets = {s.WebhookServerTlsSecretName}
  <2>1. PICK c \in ChildrenOf(s), u \in Variants(s, edits) : c \in Planned /\ MadeFrom(d, c, u)
    BY <1>s, Origin, Zenon
  <2>2. c # "IShieldAPIDeployment"
    BY <1>2, Zenon DEF ChildrenOf, CommonChildren, ObserverChildren, ControllerChildren
  <2>3. ~(c = "ObserverDeployment" /\ d = BuildDeploymentForObserver(u))
    <3>1. SUFFICES ASSUME c = "ObserverDeployment", d = BuildDeploymentForObserver(u)
                   PROVE  FALSE
      BY Zenon
    <3>2. s.obs
      BY <3>1, Zenon DEF ChildrenOf, CommonChildren, GatekeeperChildren, ControllerChildren
    <3>3. d.name = u.ObserverName
      BY <3>1, Zenon DEF BuildDeploymentForObserver
    <3>4. u.ObserverName \in Values(s, "ObserverName") /\ t.ControllerName \in Values(s, "ControllerName")
      BY ServerFields, Zenon
    <3> QED
      BY <1>2, <1>6, <3>2, <3>3, <3>4, Zenon DEF ServerApart, Apart
  <2>4. d = BuildDeploymentForAdmissionController(u)
    BY <1>6, <2>1, <2>2, <2>3, MadeObjects, Zenon
  <2>5. /\ u.ControllerSelector = s.ControllerSelector
        /\ u.WebhookServerTlsSecretName = s.WebhookServerTlsSecretName
    BY ServerFields, Zenon
  <2> QED
    BY <2>4, <2>5, Zenon DEF BuildDeploymentForAdmissionController
<1>8. PICK x \in store : x.kind = "Secret" /\ x.name = s.WebhookServerTlsSecretName
  BY <1>3, Zenon
<1>9. x.cert.host = s.WebhookServiceName /\ x.cert.ca = w.caBundle
  BY <1>s, <1>1, <1>2, <1>8, ServerSecret, Zenon DEF Trust, OfKind
<1> QED
  BY <1>2, <1>4, <1>5, <1>6, <1>7, <1>8, <1>9 DEF Routes

\* A Secret is created only while no webhook is registered, and a webhook is
\* registered with the CA of the one Secret there is.
LEMMA TrustStep ==
    ASSUME ServerApart, TypeOK, NEW s \in Specs, PassInv(s), Provenance(s), Trust, [Next]_vars
    PROVE  Trust'
<1>1. CASE store' = store
  BY <1>1, Zenon DEF Trust, OfKind
<1>2. CASE store' # store
  <2>0. InstallStep
    BY <1>2, Zenon DEF Next, Reconcile, PassFails, EditCR, PodsStart, PodsFail, vars
  <2> DEFINE c == Head(plan)
  <2>p. plan \in Seq(Planned)
    BY PlannedChildren, Zenon DEF PassInv
  <2>1. plan # <<>> /\ (Creates(c) \/ Registers(c))
    BY <1>2, <2>p, <2>0, InstallStepEffect, Zenon DEF Skips
  <2>2. c \in ChildrenOf(s) /\ \A d \in Needs(c) : d \in Built /\ Present(d, inst)
    BY <2>1, HeadReady, Zenon
  <2>3. inst.WebhookServerTlsSecretName = s.WebhookServerTlsSecretName
    <3>1. inst \in Variants(s, edits)
      BY Zenon DEF PassInv
    <3> QED
      BY <3>1, ServerFields, Zenon
  <2> HIDE DEF c
  <2>4. CASE Creates(c)
    <3>1. PICK n \in {certs, certs + 1} :
            /\ store' = (store \ Found(Build(c, inst, n))) \union {Build(c, inst, n)}
            /\ c \notin Deployments => Found(Build(c, inst, n)) = {}
      BY <2>4, Zenon DEF Creates
    <3> DEFINE o == Build(c, inst, n)
    <3>2. c \in Built
      BY <2>4, Zenon DEF Creates
    <3>3. o.kind # "Webhook"
      BY <3>2, BuiltKind, Zenon
    <3>4. ASSUME o.kind = "Secret", NEW w \in store, w.kind = "Webhook"
          PROVE  FALSE
      <4>1. "Webhook" \in ChildrenOf(s) /\ ~s.gk
        BY <3>4, WebhookNeeds, Zenon
      <4>2. PICK y \in store : y.kind = "Secret" /\ y.name = s.WebhookServerTlsSecretName
        BY <3>4, WebhookNeeds, Zenon
      <4>3. c \in Secrets
        BY <3>2, <3>4, BuiltSecrets, Zenon
      <4>4. c = "ACTlsSecret"
        BY <2>2, <4>1, <4>3, Zenon DEF Secrets, ChildrenOf, CommonChildren, ObserverChildren, ControllerChildren
      <4>5. Id(o) = <<"Secret", s.WebhookServerTlsSecretName>>
        BY <2>3, <4>4, BuildIds
      <4>6. c \notin Deployments
        BY <4>4, Zenon DEF Deployments
      <4> HIDE DEF o
      <4>7. y \in Found(o)
        BY <4>2, <4>5, Zenon DEF Found, Id
      <4> QED
        BY <3>1, <4>6, <4>7, Zenon DEF o
    <3>5. store' = (store \ Found(o)) \union {o}
      BY <3>1, Zenon
    <3> HIDE DEF o
    <3>6. ASSUME NEW w \in store', w.kind = "Webhook", NEW x \in store', x.kind = "Secret"
          PROVE  x.cert.ca = w.caBundle
      <4>1. w \in store
        BY <3>3, <3>5, <3>6, Zenon
      <4>2. x \in store
        BY <3>4, <3>5, <3>6, <4>1, Zenon
      <4> QED
        BY <3>6, <4>1, <4>2, Zenon DEF Trust, OfKind
    <3> QED
      BY <3>6, Zenon DEF Trust, OfKind
  <2>5. CASE Registers(c)
    <3> DEFINE o == BuildValidatingWebhookConfigurationForIShield(inst, CABundle)
    <3>1. o.kind = "Webhook" /\ o.caBundle = CABundle
      BY Zenon DEF BuildValidatingWebhookConfigurationForIShield
    <3>2. store' \subseteq store \union {o} /\ c = "Webhook"
      BY <2>5, Zenon DEF Registers
    <3>3. ASSUME NEW x \in store, x.kind = "Secret"
          PROVE  x.cert.ca = CABundle
      <4>1. x.name = s.WebhookServerTlsSecretName
        BY <2>2, <3>2, <3>3, ServerSecret, Zenon
      <4> DEFINE S == Named("Secret", inst.WebhookServerTlsSecretName)
      <4>2. x \in S
        BY <2>3, <3>3, <4>1, Zenon DEF Named
      <4>3. \A y \in S : y = x
        BY <3>3, <4>2, Zenon DEF TypeOK, Named, Id
      <4>4. CABundle = x.cert.ca
        <5>1. CABundle = IF S = {} THEN 0 ELSE (CHOOSE y \in S : TRUE).cert.ca
          BY Zenon DEF CABundle
        <5> HIDE DEF S
        <5>2. (CHOOSE y \in S : TRUE) \in S
          BY <4>2, Zenon
        <5> QED
          BY <4>2, <4>3, <5>1, <5>2, Zenon
      <4> QED
        BY <4>4, Zenon
    <3> HIDE DEF o
    <3>4. ASSUME NEW w \in store', w.kind = "Webhook", NEW x \in store', x.kind = "Secret"
          PROVE  x.cert.ca = w.caBundle
      <4>1. x \in store
        BY <3>1, <3>2, <3>4, Zenon
      <4>2. CASE w \in store
        BY <3>4, <4>1, <4>2, Zenon DEF Trust, OfKind
      <4>3. CASE w = o
        BY <3>1, <3>3, <3>4, <4>1, <4>3, Zenon
      <4> QED
        BY <3>2, <4>2, <4>3, Zenon
    <3> QED
      BY <3>4, Zenon DEF Trust, OfKind
  <2> QED
    BY <2>1, <2>4, <2>5, Zenon
<1> QED
  BY <1>1, <1>2, Zenon

\* A registered webhook can be called, wherever passes stop and whatever becomes
\* of the pods: its Service routes to the admission controller, which serves a
\* certificate for the Service's name, signed by the CA in the webhook.  What an
\* admin must leave alone is the selector, the Service and the Secret; the
\* Deployment, the webhook, the roles and the ConfigMaps may be renamed.
THEOREM WebhookAlwaysReachable ==
    ASSUME ServerApart
    PROVE  Spec => []WebhookReachable
<1> DEFINE Inv == TypeOK /\ RolloutInv /\ Trust
<1>1. Init => Inv
  <2>1. Init => Trust
    BY Zenon DEF Init, Trust, OfKind
  <2> QED
    BY <2>1, RolloutInit, Zenon DEF RolloutInv
<1>2. Inv /\ [Next]_vars => Inv'
  BY TypeStep, PassStep, ProvenanceStep, TrustStep, Zenon DEF RolloutInv
<1>3. Inv => WebhookReachable
  BY ReachableFromTrust, Zenon
<1> QED
  BY <1>1, <1>2, <1>3, PTL DEF Spec

-----------------------------------------------------------------------------
(* The rights of the components *)

\* The two levels of rights: over the cluster, and in the operator's namespace.
\* At each, the shield and the observer have a role and a binding to it.
Levels == {"Cluster", "Namespace"}
BindingKind(l)     == IF l = "Cluster" THEN "ClusterRoleBinding" ELSE "RoleBinding"
RoleKind(l)        == IF l = "Cluster" THEN "ClusterRole" ELSE "Role"
ShieldBinding(l)   == IF l = "Cluster" THEN "ClusterRoleBindingForIShield" ELSE "RoleBindingForIShield"
ShieldRole(l)      == IF l = "Cluster" THEN "ClusterRoleForIShield" ELSE "RoleForIShield"
ObserverBinding(l) == IF l = "Cluster" THEN "ClusterRoleBindingForObserver" ELSE "RoleBindingForObserver"
ObserverRole(l)    == IF l = "Cluster" THEN "ClusterRoleForObserver" ELSE "RoleForObserver"

\* The accounts that the shield's binding names, and the rules of the two roles.
Accounts(l, t) ==
    IF l = "Cluster" THEN {t.APIServiceAccountName}
                     ELSE {t.APIServiceAccountName, t.ObserverServiceAccountName}
ShieldRules(l, t) ==
    IF l = "Cluster" THEN BuildClusterRoleForIShield(t).rules ELSE BuildRoleForIShield(t).rules
ObserverRules(l, t) ==
    IF l = "Cluster" THEN BuildClusterRoleForObserver(t).rules ELSE BuildRoleForObserver(t).rules

\* A binding of the level gives the accounts a role with these rules.
Ties(l, accounts, rules) ==
    \E b, r \in store :
        /\ b.kind = BindingKind(l) /\ r.kind = RoleKind(l) /\ accounts \subseteq b.subjects
        /\ b.roleRef = r.name /\ r.rules = rules

\* The shield has a binding of the level.
HasBinding(s, l) ==
    \E b \in store : b.kind = BindingKind(l) /\ b.name \in Values(s, "APIRoleBinding")

\* Once the shield has bindings, one of them is to the role made for it, even when
\* an edit gives it the role of the observer.
Rooted(s) ==
    \A l \in Levels : HasBinding(s, l) => Ties(l, Accounts(l, s), ShieldRules(l, s))

\* What is found for a role or a binding.
LEMMA LevelFound ==
    ASSUME NEW l \in Levels, NEW x, NEW t
    PROVE  /\ Id(x) = ChildId(ShieldBinding(l), t) =>
                x.kind = BindingKind(l) /\ x.name = t.APIRoleBinding
           /\ Id(x) = ChildId(ObserverBinding(l), t) =>
                x.kind = BindingKind(l) /\ x.name = t.ObserverRoleBinding
           /\ Id(x) = ChildId(ShieldRole(l), t) => x.kind = RoleKind(l) /\ x.name = t.APIRole
           /\ Id(x) = ChildId(ObserverRole(l), t) => x.kind = RoleKind(l) /\ x.name = t.ObserverRole
BY FoundRights, Zenon DEF Levels, BindingKind, RoleKind, ShieldBinding, ShieldRole, ObserverBinding, ObserverRole

\* A role comes before the binding to it, and a role of the observer is made
\* behind the bindings of the shield.
LEMMA LevelNeeds ==
    ASSUME NEW l \in Levels
    PROVE  /\ ShieldRole(l) \in Needs(ShieldBinding(l))
           /\ ObserverRole(l) \in Needs(ObserverBinding(l))
           /\ ShieldBinding(l) \in Needs(ObserverRole(l))
BY BuiltChildren DEF Needs, CommonChildren, Levels, ShieldBinding, ShieldRole, ObserverBinding, ObserverRole

\* A binding of a level, from the child it was made for.
LEMMA BindingMade ==
    ASSUME NEW l \in Levels, NEW x, NEW c \in Planned, NEW t, MadeFrom(x, c, t),
           x.kind = BindingKind(l)
    PROVE  \/ /\ c = ShieldBinding(l) /\ x.name = t.APIRoleBinding
              /\ x.roleRef = t.APIRole /\ x.subjects = Accounts(l, t)
           \/ /\ c = ObserverBinding(l) /\ x.name = t.ObserverRoleBinding
              /\ x.roleRef = t.ObserverRole /\ x.subjects = {t.ObserverServiceAccountName}
<1>1. x = BuildClusterRoleBindingForIShield(t) =>
        /\ x.name = t.APIRoleBinding /\ x.roleRef = t.APIRole
        /\ x.subjects = {t.APIServiceAccountName}
  BY DEF BuildClusterRoleBindingForIShield
<1>2. x = BuildClusterRoleBindingForObserver(t) =>
        /\ x.name = t.ObserverRoleBinding /\ x.roleRef = t.ObserverRole
        /\ x.subjects = {t.ObserverServiceAccountName}
  BY DEF BuildClusterRoleBindingForObserver
<1>3. x = BuildRoleBindingForIShield(t) =>
        /\ x.name = t.APIRoleBinding /\ x.roleRef = t.APIRole
        /\ x.subjects = {t.APIServiceAccountName, t.ObserverServiceAccountName}
  BY DEF BuildRoleBindingForIShield
<1>4. x = BuildRoleBindingForObserver(t) =>
        /\ x.name = t.ObserverRoleBinding /\ x.roleRef = t.ObserverRole
        /\ x.subjects = {t.ObserverServiceAccountName}
  BY DEF BuildRoleBindingForObserver
<1>5. CASE l = "Cluster"
  <2>1. /\ BindingKind(l) = "ClusterRoleBinding" /\ Accounts(l, t) = {t.APIServiceAccountName}
        /\ ShieldBinding(l) = "ClusterRoleBindingForIShield"
        /\ ObserverBinding(l) = "ClusterRoleBindingForObserver"
    BY <1>5, Zenon DEF BindingKind, ShieldBinding, ObserverBinding, Accounts
  <2>2. \/ c = ShieldBinding(l) /\ x = BuildClusterRoleBindingForIShield(t)
        \/ c = ObserverBinding(l) /\ x = BuildClusterRoleBindingForObserver(t)
    BY <2>1, MadeObjects, Zenon
  <2> QED
    BY <1>1, <1>2, <2>1, <2>2, Zenon
<1>6. CASE l = "Namespace"
  <2>1. /\ BindingKind(l) = "RoleBinding"
        /\ Accounts(l, t) = {t.APIServiceAccountName, t.ObserverServiceAccountName}
        /\ ShieldBinding(l) = "RoleBindingForIShield" /\ ObserverBinding(l) = "RoleBindingForObserver"
    BY <1>6 DEF BindingKind, ShieldBinding, ObserverBinding, Accounts
  <2>2. \/ c = ShieldBinding(l) /\ x = BuildRoleBindingForIShield(t)
        \/ c = ObserverBinding(l) /\ x = BuildRoleBindingForObserver(t)
    BY <2>1, MadeObjects, Zenon
  <2> QED
    BY <1>3, <1>4, <2>1, <2>2, Zenon
<1> QED
  BY <1>5, <1>6, Zenon DEF Levels

\* A role of a level, from the child it was made for: its rules are no part of a spec.
LEMMA RoleMade ==
    ASSUME NEW l \in Levels, NEW x, NEW c \in Planned, NEW t, MadeFrom(x, c, t),
           x.kind = RoleKind(l), NEW s
    PROVE  \/ c = ShieldRole(l) /\ x.rules = ShieldRules(l, s)
           \/ c = ObserverRole(l) /\ x.rules = ObserverRules(l, s)
<1>1. CASE l = "Cluster"
  <2>1. /\ RoleKind(l) = "ClusterRole"
        /\ ShieldRole(l) = "ClusterRoleForIShield" /\ ObserverRole(l) = "ClusterRoleForObserver"
    BY <1>1, Zenon DEF RoleKind, ShieldRole, ObserverRole
  <2>2. /\ BuildClusterRoleForIShield(t).rules = ShieldRules(l, s)
        /\ BuildClusterRoleForObserver(t).rules = ObserverRules(l, s)
    BY <1>1, Zenon DEF BuildClusterRoleForIShield, BuildClusterRoleForObserver, ShieldRules, ObserverRules
  <2>3. \/ c = ShieldRole(l) /\ x = BuildClusterRoleForIShield(t)
        \/ c = ObserverRole(l) /\ x = BuildClusterRoleForObserver(t)
    BY <2>1, MadeObjects, Zenon
  <2> QED
    BY <2>2, <2>3, Zenon
<1>2. CASE l = "Namespace"
  <2>1. /\ RoleKind(l) = "Role"
        /\ ShieldRole(l) = "RoleForIShield" /\ ObserverRole(l) = "RoleForObserver"
    BY <1>2 DEF RoleKind, ShieldRole, ObserverRole
  <2>2. l # "Cluster"
    BY <1>2
  <2>3. /\ BuildRoleForIShield(t).rules = ShieldRules(l, s)
        /\ BuildRoleForObserver(t).rules = ObserverRules(l, s)
    BY <2>2, Zenon DEF BuildRoleForIShield, BuildRoleForObserver, ShieldRules, ObserverRules
  <2>4. \/ c = ShieldRole(l) /\ x = BuildRoleForIShield(t)
        \/ c = ObserverRole(l) /\ x = BuildRoleForObserver(t)
    BY <2>1, MadeObjects, Zenon
  <2> QED
    BY <2>3, <2>4, Zenon
<1> QED
  BY <1>1, <1>2, Zenon DEF Levels

\* Only Deployments and the webhook are replaced or removed; what is added is a
\* child of the plan, built from the spec of the pass, with what it needs.
LEMMA StoreStep ==
    ASSUME TypeOK, NEW s \in Specs, PassInv(s), Provenance(s), [Next]_vars
    PROVE  /\ \A x \in store : x.kind \notin {"Deployment", "Webhook"} => x \in store'
           /\ \A x \in store' : x \notin store /\ x.kind # "Webhook" =>
                \E c \in ChildrenOf(s) :
                    /\ c \in Planned /\ MadeFrom(x, c, inst)
                    /\ \A d \in Needs(c) : \E y \in store : Id(y) = ChildId(d, inst)
<1>1. CASE store' = store
  BY <1>1, Zenon
<1>2. CASE store' # store
  <2>0. InstallStep
    BY <1>2, Zenon DEF Next, Reconcile, PassFails, EditCR, PodsStart, PodsFail, vars
  <2> DEFINE c == Head(plan)
  <2>p. plan \in Seq(Planned)
    BY PlannedChildren DEF PassInv
  <2>1. plan # <<>> /\ (Creates(c) \/ Registers(c))
    BY <1>2, <2>p, <2>0, InstallStepEffect, Zenon DEF Skips
  <2>2. c \in ChildrenOf(s) /\ \A d \in Needs(c) : \E y \in store : Id(y) = ChildId(d, inst)
    BY <2>1, HeadReady, Zenon DEF Present
  <2> HIDE DEF c
  <2>3. CASE Creates(c)
    <3>1. PICK n \in {certs, certs + 1} :
            /\ store' = (store \ Found(Build(c, inst, n))) \union {Build(c, inst, n)}
            /\ c \notin Deployments => Found(Build(c, inst, n)) = {}
      BY <2>3, Zenon DEF Creates
    <3>2. c \in Built
      BY <2>3, Zenon DEF Creates
    <3>3. c \in Deployments => Build(c, inst, n).kind = "Deployment"
      BY BuiltKind, <3>2
    <3>4. \A x \in Found(Build(c, inst, n)) : x.kind = "Deployment"
      BY <3>1, <3>3, Zenon DEF Found, Id
    <3>5. c \in Planned /\ MadeFrom(Build(c, inst, n), c, inst)
      BY <3>2, BuiltChildren DEF MadeFrom, TypeOK
    <3> QED
      BY <2>2, <3>1, <3>4, <3>5, Zenon
  <2>4. CASE Registers(c)
    <3> DEFINE o == BuildValidatingWebhookConfigurationForIShield(inst, CABundle)
    <3>1. o.kind = "Webhook"
      BY Zenon DEF BuildValidatingWebhookConfigurationForIShield
    <3>2. store' \subseteq store \union {o}
      BY <2>4, Zenon DEF Registers
    <3>3. \A x \in store : x \notin store' => x.kind = "Webhook"
      BY <2>4, Zenon DEF Registers, Named
    <3> HIDE DEF o
    <3> QED
      BY <3>1, <3>2, <3>3, Zenon
  <2> QED
    BY <2>1, <2>3, <2>4, Zenon
<1> QED
  BY <1>1, <1>2, Zenon

\* The first binding of the shield is to the role made for it: the observer's
\* roles are made behind a binding of the shield.
LEMMA RootedStep ==
    ASSUME BindingsApart, TypeOK, NEW s \in Specs, PassInv(s), Provenance(s), Rooted(s), [Next]_vars
    PROVE  Rooted(s)'
<1>k. \A k \in Levels : BindingKind(k) \notin {"Deployment", "Webhook"} /\ RoleKind(k) \notin {"Deployment", "Webhook"}
  BY Zenon DEF Levels, BindingKind, RoleKind
<1>1. SUFFICES ASSUME NEW l \in Levels, NEW b \in store', b.kind = BindingKind(l),
                      b.name \in Values(s, "APIRoleBinding")
               PROVE  \E x, r \in store' :
                        /\ x.kind = BindingKind(l) /\ r.kind = RoleKind(l)
                        /\ Accounts(l, s) \subseteq x.subjects
                        /\ x.roleRef = r.name /\ r.rules = ShieldRules(l, s)
  BY Zenon DEF Rooted, HasBinding, Ties
<1>i. inst \in Variants(s, edits)
  BY Zenon DEF PassInv
<1>v. \A t \in Variants(s, edits) :
        /\ Accounts(l, t) = Accounts(l, s)
        /\ t.APIRoleBinding \in Values(s, "APIRoleBinding")
        /\ t.ObserverRoleBinding \in Values(s, "ObserverRoleBinding")
  BY BindingFields, Zenon DEF Accounts
<1>o. ObserverBinding(l) \in ChildrenOf(s) => Apart(s, "APIRoleBinding", "ObserverRoleBinding")
  BY Zenon DEF ObserverBinding, ChildrenOf, CommonChildren, ObserverChildren, GatekeeperChildren,
         ControllerChildren, BindingsApart
<1>2. CASE HasBinding(s, l)
  <2>1. PICK x, r \in store :
          /\ x.kind = BindingKind(l) /\ r.kind = RoleKind(l)
          /\ Accounts(l, s) \subseteq x.subjects
          /\ x.roleRef = r.name /\ r.rules = ShieldRules(l, s)
    BY <1>2, Zenon DEF Rooted, Ties
  <2>2. x \in store' /\ r \in store'
    BY <1>k, <2>1, StoreStep, Zenon
  <2> QED
    BY <2>1, <2>2, Zenon
<1>3. CASE ~HasBinding(s, l)
  <2>1. b \notin store
    BY <1>1, <1>3, Zenon DEF HasBinding
  <2>2. PICK c \in ChildrenOf(s) :
          /\ c \in Planned /\ MadeFrom(b, c, inst)
          /\ \A d \in Needs(c) : \E y \in store : Id(y) = ChildId(d, inst)
    BY <1>1, <1>k, <2>1, StoreStep, Zenon
  <2>a. ~(c = ObserverBinding(l) /\ b.name = inst.ObserverRoleBinding)
    BY <1>1, <1>i, <1>v, <1>o, Zenon DEF Apart
  <2>3. /\ c = ShieldBinding(l) /\ b.roleRef = inst.APIRole /\ b.subjects = Accounts(l, s)
    <3>1. b.subjects = Accounts(l, inst) => b.subjects = Accounts(l, s)
      BY <1>i, <1>v, Zenon
    <3> QED
      BY <1>1, <2>2, <2>a, <3>1, BindingMade
  <2>4. PICK r \in store : Id(r) = ChildId(ShieldRole(l), inst)
    BY <2>2, <2>3, LevelNeeds, Zenon
  <2>5. r.kind = RoleKind(l) /\ r.name = inst.APIRole
    BY <2>4, LevelFound, Zenon
  <2>6. PICK e \in ChildrenOf(s), u \in Variants(s, edits) :
          /\ e \in Planned /\ MadeFrom(r, e, u)
          /\ \A d \in Needs(e) : d \in Built /\ \E y \in store : Id(y) = ChildId(d, u)
    BY Origin, Zenon
  <2>7. e # ObserverRole(l)
    <3>1. SUFFICES ASSUME e = ObserverRole(l)
                   PROVE  HasBinding(s, l)
      BY <1>3, Zenon
    <3>n. ShieldBinding(l) \in Needs(e)
      BY <3>1, LevelNeeds, Zenon
    <3>2. PICK y \in store : Id(y) = ChildId(ShieldBinding(l), u)
      BY <2>6, <3>n, Zenon
    <3>3. y.kind = BindingKind(l) /\ y.name = u.APIRoleBinding
      BY <3>2, LevelFound
    <3> QED
      BY <1>v, <3>3, Zenon DEF HasBinding
  <2>8. r.rules = ShieldRules(l, s)
    BY <2>5, <2>6, <2>7, RoleMade, Zenon
  <2>9. r \in store'
    BY <1>k, <2>5, StoreStep, Zenon
  <2> QED
    BY <1>1, <2>3, <2>5, <2>8, <2>9, Zenon
<1> QED
  BY <1>2, <1>3, Zenon

\* The calls on the profiles of the admission controller.
ProfileCall(call) ==
    /\ call.group = Shield /\ call.resource = "manifestintegrityprofiles"
    /\ call.verb \in {"get", "list", "update"}

\* What the rules of each role allow.
LEMMA RulesAllow ==
    ASSUME NEW s, NEW r, NEW call
    PROVE  /\ r.rules = ShieldRules("Cluster", s) =>
                /\ call.verb \in {"get", "list"} => Allows(r, call)
                /\ call.group = "" /\ call.resource = "events" /\ call.verb \in {"create", "update", "get"}
                     => Allows(r, call)
                /\ ProfileCall(call) => Allows(r, call)
           /\ /\ r.rules = ShieldRules("Namespace", s)
              /\ call.verb \in {"get", "list", "create", "update"}
              => Allows(r, call)
           /\ /\ r.rules = ObserverRules("Cluster", s)
              /\ call.verb \in {"get", "list"}
              => Allows(r, call)
           /\ /\ r.rules = ObserverRules("Namespace", s)
              /\ call.group \in {Shield, ""}
              /\ call.resource \in {"manifestintegritystates", "configmaps"}
              /\ call.verb \in {"get", "create", "update"}
              => Allows(r, call)
<1>1. ASSUME r.rules = ShieldRules("Cluster", s)
      PROVE  /\ call.verb \in {"get", "list"} => Allows(r, call)
             /\ call.group = "" /\ call.resource = "events" /\ call.verb \in {"create", "update", "get"}
                  => Allows(r, call)
             /\ ProfileCall(call) => Allows(r, call)
  <2>1. /\ Rule({"*"}, {"*"}, {"get", "list"}) \in r.rules
        /\ Rule({""}, {"events"}, {"create", "update", "get"}) \in r.rules
        /\ Rule({Shield}, {"manifestintegrityprofiles"}, {"get", "list", "watch", "patch", "update"})
             \in r.rules
    BY <1>1, Zenon DEF ShieldRules, BuildClusterRoleForIShield
  <2>2. call.verb \in {"get", "list"} => Allows(r, call)
    BY <2>1, Zenon DEF Allows, Rule
  <2>3. call.group = "" /\ call.resource = "events" /\ call.verb \in {"create", "update", "get"}
          => Allows(r, call)
    BY <2>1, Zenon DEF Allows, Rule
  <2>4. ProfileCall(call) => Allows(r, call)
    BY <2>1, Zenon DEF Allows, Rule, ProfileCall
  <2> QED
    BY <2>2, <2>3, <2>4, Zenon
<1>2. ASSUME r.rules = ShieldRules("Namespace", s),
             call.verb \in {"get", "list", "create", "update"}
      PROVE  Allows(r, call)
  <2>1. Rule({"*"}, {"*"}, {"get", "list", "create", "update"}) \in r.rules
    BY <1>2 DEF ShieldRules, BuildRoleForIShield
  <2> QED
    BY <1>2, <2>1, Zenon DEF Allows, Rule
<1>3. ASSUME r.rules = ObserverRules("Cluster", s), call.verb \in {"get", "list"}
      PROVE  Allows(r, call)
  <2>1. Rule({"*"}, {"*"}, {"get", "list"}) \in r.rules
    BY <1>3 DEF ObserverRules, BuildClusterRoleForObserver
  <2> QED
    BY <1>3, <2>1, Zenon DEF Allows, Rule
<1>4. ASSUME r.rules = ObserverRules("Namespace", s), call.group \in {Shield, ""},
             call.resource \in {"manifestintegritystates", "configmaps"},
             call.verb \in {"get", "create", "update"}
      PROVE  Allows(r, call)
  <2>1. Rule({Shield, ""}, {"manifestintegritystates", "configmaps"},
             {"get", "list", "create", "watch", "patch", "update"}) \in r.rules
    BY <1>4, Zenon DEF ObserverRules, BuildRoleForObserver
  <2> QED
    BY <1>4, <2>1, Zenon DEF Allows, Rule
<1> QED
  BY <1>1, <1>2, <1>3, <1>4, Zenon

\* The calls of the components: which roles they need.
LEMMA CallsNeed ==
    /\ \A call \in ControllerCalls :
         \/ call.verb \in {"get", "list"}
         \/ call.group = "" /\ call.resource = "events" /\ call.verb \in {"create", "update", "get"}
         \/ ProfileCall(call)
         \/ call.own /\ call.verb = "create"
    /\ HandlerCalls \subseteq ControllerCalls
    /\ \A call \in ControllerCalls : call.group = Shield => call.resource = "manifestintegrityprofiles"
    /\ \A call \in HandlerCalls : call.group # Shield
    /\ \A call \in ObserverCalls :
         \/ call.verb \in {"get", "list"}
         \/ call.own /\ call.verb = "create"
         \/ /\ call.own /\ call.group \in {Shield, ""}
            /\ call.resource \in {"manifestintegritystates", "configmaps"}
            /\ call.verb \in {"get", "create", "update"}
    /\ \A call \in ObserverCalls : call.group = Shield => call.resource = "manifestintegritystates"
<1>1. ASSUME NEW call \in HandlerCalls
      PROVE  /\ call.group # Shield
             /\ \/ call.verb \in {"get", "list"}
                \/ call.group = "" /\ call.resource = "events" /\ call.verb \in {"create", "update", "get"}
                \/ call.own /\ call.verb = "create"
  <2>1. \/ call = Call("", "configmaps", "get", TRUE) \/ call = Call("", "secrets", "get", FALSE)
        \/ call = Call("apps", "deployments", "create", TRUE)
        \/ \E v \in {"get", "create", "update"} : call = Call("", "events", v, FALSE)
    BY Zenon DEF HandlerCalls
  <2>2. CASE call = Call("", "configmaps", "get", TRUE)
    BY <2>2, Zenon DEF Call, Shield
  <2>s. CASE call = Call("", "secrets", "get", FALSE)
    BY <2>s, Zenon DEF Call, Shield
  <2>3. CASE call = Call("apps", "deployments", "create", TRUE)
    BY <2>3, Zenon DEF Call, Shield
  <2>4. CASE \E v \in {"get", "create", "update"} : call = Call("", "events", v, FALSE)
    <3>1. PICK v \in {"get", "create", "update"} : call = Call("", "events", v, FALSE)
      BY <2>4, Zenon
    <3> QED
      BY <3>1, Zenon DEF Call, Shield
  <2> QED
    BY <2>1, <2>2, <2>s, <2>3, <2>4, Zenon
<1>2. HandlerCalls \subseteq ControllerCalls
  BY Zenon DEF ControllerCalls
<1>3. ASSUME NEW call \in ControllerCalls \ HandlerCalls
      PROVE  (call.group = "" /\ call.verb = "get") \/ ProfileCall(call)
  <2>1. \/ call = Call("", "namespaces", "get", FALSE)
        \/ \E v \in {"list", "get", "update"} :
             call = Call(Shield, "manifestintegrityprofiles", v, FALSE)
    BY Zenon DEF ControllerCalls
  <2>2. CASE call = Call("", "namespaces", "get", FALSE)
    BY <2>2, Zenon DEF Call
  <2>3. CASE \E v \in {"list", "get", "update"} :
               call = Call(Shield, "manifestintegrityprofiles", v, FALSE)
    <3>1. PICK v \in {"list", "get", "update"} :
            call = Call(Shield, "manifestintegrityprofiles", v, FALSE)
      BY <2>3, Zenon
    <3> QED
      BY <3>1, Zenon DEF Call, ProfileCall
  <2> QED
    BY <2>1, <2>2, <2>3, Zenon
<1>4. ASSUME NEW call \in ObserverCalls
      PROVE  /\ \/ call.verb \in {"get", "list"}
                \/ call.own /\ call.verb = "create"
                \/ /\ call.own /\ call.group \in {Shield, ""}
                   /\ call.resource \in {"manifestintegritystates", "configmaps"}
                   /\ call.verb \in {"get", "create", "update"}
             /\ call.group = Shield => call.resource = "manifestintegritystates"
  <2>1. \/ call = Call("", "namespaces", "list", FALSE)
        \/ call = Call("apps", "deployments", "list", FALSE)
        \/ call = Call("constraints.gatekeeper.sh", "manifestintegrityconstraint", "list", FALSE)
        \/ call = Call("", "secrets", "get", FALSE)
        \/ call = Call("apps", "deployments", "create", TRUE)
        \/ \E v \in {"get", "create", "update"} : call = Call("", "configmaps", v, TRUE)
        \/ \E v \in {"get", "create", "update"} :
             call = Call(Shield, "manifestintegritystates", v, TRUE)
    BY Zenon DEF ObserverCalls
  <2>2. CASE call = Call("", "namespaces", "list", FALSE)
    BY <2>2, Zenon DEF Call, Shield
  <2>d. CASE call = Call("apps", "deployments", "list", FALSE)
    BY <2>d, Zenon DEF Call, Shield
  <2>m. CASE call = Call("constraints.gatekeeper.sh", "manifestintegrityconstraint", "list", FALSE)
    BY <2>m, Zenon DEF Call, Shield
  <2>s. CASE call = Call("", "secrets", "get", FALSE)
    BY <2>s, Zenon DEF Call, Shield
  <2>3. CASE call = Call("apps", "deployments", "create", TRUE)
    BY <2>3, Zenon DEF Call, Shield
  <2>4. CASE \E v \in {"get", "create", "update"} : call = Call("", "configmaps", v, TRUE)
    <3>1. PICK v \in {"get", "create", "update"} : call = Call("", "configmaps", v, TRUE)
      BY <2>4, Zenon
    <3> QED
      BY <3>1, Zenon DEF Call, Shield
  <2>5. CASE \E v \in {"get", "create", "update"} :
               call = Call(Shield, "manifestintegritystates", v, TRUE)
    <3>1. PICK v \in {"get", "create", "update"} :
            call = Call(Shield, "manifestintegritystates", v, TRUE)
      BY <2>5, Zenon
    <3> QED
      BY <3>1, Zenon DEF Call
  <2> QED
    BY <2>1, <2>2, <2>d, <2>m, <2>s, <2>3, <2>4, <2>5, Zenon
<1>5. "" # Shield
  BY Zenon DEF Shield
<1> QED
  BY <1>1, <1>2, <1>3, <1>4, <1>5, Zenon DEF ProfileCall

\* A binding and a role that allows the call grant it.
LEMMA TiesGrant ==
    ASSUME NEW l \in Levels, NEW sa, NEW call, NEW b \in store, NEW r \in store,
           b.kind = BindingKind(l), r.kind = RoleKind(l),
           sa \in b.subjects, b.roleRef = r.name, Allows(r, call), l = "Cluster" \/ call.own
    PROVE  Granted(store, sa, call)
BY Zenon DEF Granted, Bound, OfKind, Levels, BindingKind, RoleKind

\* The shield's components have their rights.
LEMMA ShieldRights ==
    ASSUME NEW s, NEW call \in ControllerCalls,
           \A l \in Levels : Ties(l, Accounts(l, s), ShieldRules(l, s))
    PROVE  Granted(store, s.APIServiceAccountName, call)
<1>1. \A l \in Levels : s.APIServiceAccountName \in Accounts(l, s)
  BY Zenon DEF Accounts
<1>2. PICK l \in Levels :
        /\ l = "Cluster" \/ call.own
        /\ \A r : r.rules = ShieldRules(l, s) => Allows(r, call)
  <2>1. CASE call.own /\ call.verb = "create"
    <3>1. \A r : r.rules = ShieldRules("Namespace", s) => Allows(r, call)
      BY <2>1, RulesAllow, Zenon
    <3> QED
      BY <2>1, <3>1, Zenon DEF Levels
  <2>2. CASE ~(call.own /\ call.verb = "create")
    <3>1. \A r : r.rules = ShieldRules("Cluster", s) => Allows(r, call)
      BY <2>2, RulesAllow, CallsNeed, Zenon
    <3> QED
      BY <3>1, Zenon DEF Levels
  <2> QED
    BY <2>1, <2>2, Zenon
<1>3. PICK b, r \in store :
        /\ b.kind = BindingKind(l) /\ r.kind = RoleKind(l) /\ Accounts(l, s) \subseteq b.subjects
        /\ b.roleRef = r.name /\ r.rules = ShieldRules(l, s)
  BY <1>2, Zenon DEF Ties
<1> QED
  BY <1>1, <1>2, <1>3, TiesGrant, Zenon

\* A binding of the observer is to a role with its rules or those of the shield.
LEMMA ObserverTies ==
    ASSUME BindingsApart, NEW s \in Specs, s.obs, Provenance(s), NEW l \in Levels,
           NEW t \in Variants(s, edits), NEW b \in store, Id(b) = ChildId(ObserverBinding(l), t)
    PROVE  \E r \in store :
             /\ b.kind = BindingKind(l) /\ r.kind = RoleKind(l)
             /\ s.ObserverServiceAccountName \in b.subjects /\ b.roleRef = r.name
             /\ r.rules = ShieldRules(l, s) \/ r.rules = ObserverRules(l, s)
<1>v. \A u \in Variants(s, edits) :
        /\ u.ObserverServiceAccountName = s.ObserverServiceAccountName
        /\ u.APIRoleBinding \in Values(s, "APIRoleBinding")
        /\ u.ObserverRoleBinding \in Values(s, "ObserverRoleBinding")
  BY BindingFields, Zenon
<1>o. Apart(s, "APIRoleBinding", "ObserverRoleBinding")
  BY Zenon DEF BindingsApart
<1>1. b.kind = BindingKind(l) /\ b.name = t.ObserverRoleBinding
  BY LevelFound, Zenon
<1>2. PICK c \in ChildrenOf(s), u \in Variants(s, edits) :
        /\ c \in Planned /\ MadeFrom(b, c, u)
        /\ \A d \in Needs(c) : d \in Built /\ \E y \in store : Id(y) = ChildId(d, u)
  BY Origin, Zenon
<1>a. b.name # u.APIRoleBinding
  BY <1>1, <1>v, <1>o DEF Apart
<1>3. /\ c = ObserverBinding(l) /\ b.roleRef = u.ObserverRole
      /\ b.subjects = {u.ObserverServiceAccountName}
  BY <1>1, <1>2, <1>a, BindingMade
<1>4. PICK r \in store : Id(r) = ChildId(ObserverRole(l), u)
  BY <1>2, <1>3, LevelNeeds, Zenon
<1>5. r.kind = RoleKind(l) /\ r.name = u.ObserverRole
  BY <1>4, LevelFound, Zenon
<1>6. r.rules = ShieldRules(l, s) \/ r.rules = ObserverRules(l, s)
  BY <1>5, Origin, RoleMade, Zenon
<1>7. s.ObserverServiceAccountName \in b.subjects
  BY <1>v, <1>3, Zenon
<1> QED
  BY <1>1, <1>3, <1>5, <1>6, <1>7, Zenon

\* The observer has its rights.
LEMMA ObserverRights ==
    ASSUME BindingsApart, NEW s \in Specs, s.obs, Provenance(s), NEW t \in Variants(s, edits),
           NEW call \in ObserverCalls,
           \A l \in Levels : \E y \in store : Id(y) = ChildId(ObserverBinding(l), t),
           \A l \in Levels : Ties(l, Accounts(l, s), ShieldRules(l, s))
    PROVE  Granted(store, s.ObserverServiceAccountName, call)
<1>1. CASE call.own /\ call.verb = "create"
  <2>1. PICK b, r \in store :
          /\ b.kind = BindingKind("Namespace") /\ r.kind = RoleKind("Namespace")
          /\ Accounts("Namespace", s) \subseteq b.subjects
          /\ b.roleRef = r.name /\ r.rules = ShieldRules("Namespace", s)
    BY Zenon DEF Ties, Levels
  <2>2. s.ObserverServiceAccountName \in b.subjects
    BY <2>1, Zenon DEF Accounts
  <2>3. Allows(r, call)
    BY <1>1, <2>1, RulesAllow, Zenon
  <2> QED
    BY <1>1, <2>1, <2>2, <2>3, TiesGrant, Zenon DEF Levels
<1>2. CASE ~(call.own /\ call.verb = "create")
  <2>1. PICK l \in Levels :
          /\ l = "Cluster" \/ call.own
          /\ \A r : r.rules = ShieldRules(l, s) \/ r.rules = ObserverRules(l, s) => Allows(r, call)
    <3>1. CASE call.verb \in {"get", "list"}
      <4>1. \A r : r.rules = ShieldRules("Cluster", s) \/ r.rules = ObserverRules("Cluster", s)
                     => Allows(r, call)
        BY <3>1, RulesAllow, Zenon
      <4> QED
        BY <4>1, Zenon DEF Levels
    <3>2. CASE /\ call.own /\ call.group \in {Shield, ""}
               /\ call.resource \in {"manifestintegritystates", "configmaps"}
               /\ call.verb \in {"get", "create", "update"}
      <4>1. \A r : r.rules = ShieldRules("Namespace", s) \/ r.rules = ObserverRules("Namespace", s)
                     => Allows(r, call)
        BY <3>2, RulesAllow, Zenon
      <4> QED
        BY <3>2, <4>1, Zenon DEF Levels
    <3> QED
      BY <1>2, <3>1, <3>2, CallsNeed, Zenon
  <2>2. PICK b \in store : Id(b) = ChildId(ObserverBinding(l), t)
    BY Zenon
  <2>3. PICK r \in store :
          /\ b.kind = BindingKind(l) /\ r.kind = RoleKind(l)
          /\ s.ObserverServiceAccountName \in b.subjects /\ b.roleRef = r.name
          /\ r.rules = ShieldRules(l, s) \/ r.rules = ObserverRules(l, s)
    BY <2>2, ObserverTies
  <2>4. Allows(r, call)
    BY <2>1, <2>3, Zenon
  <2> QED
    BY <2>1, <2>3, <2>4, TiesGrant, Zenon
<1> QED
  BY <1>1, <1>2, Zenon

\* The provenance of the objects and Rooted give every component its rights.
LEMMA RightsFromRooted ==
    ASSUME BindingsApart, NEW s \in Specs, Provenance(s), Rooted(s)
    PROVE  RightsSuffice
<1>1. SUFFICES ASSUME NEW d \in store, d.kind = "Deployment", NEW call \in CallsOf(d)
               PROVE  Granted(store, d.serviceAccount, call) /\ Served(call)
  BY Zenon DEF RightsSuffice, OfKind
<1>2. PICK c \in ChildrenOf(s), t \in Variants(s, edits) :
        /\ c \in Planned /\ MadeFrom(d, c, t)
        /\ \A b \in Needs(c) : b \in Built /\ \E y \in store : Id(y) = ChildId(b, t)
  BY Origin, Zenon
<1>v. /\ t.APIServiceAccountName = s.APIServiceAccountName
      /\ t.ObserverServiceAccountName = s.ObserverServiceAccountName
      /\ t.APIRoleBinding \in Values(s, "APIRoleBinding")
  BY BindingFields, Zenon
<1>3. c \in Deployments
  BY <1>1, <1>2, DeploymentRefers, Zenon
<1>4. /\ \A l \in Levels : ShieldBinding(l) \in Needs(c)
      /\ c = "AdmissionControllerDeployment" => "ManifestIntegrityProfileCRD" \in Needs(c)
      /\ c = "ObserverDeployment" =>
           "ObserverResultCRD" \in Needs(c) /\ \A l \in Levels : ObserverBinding(l) \in Needs(c)
  BY <1>3, BuiltChildren DEF Needs, CommonChildren, ObserverChildren, Levels, ShieldBinding, ObserverBinding
<1>5. ASSUME NEW l \in Levels PROVE HasBinding(s, l)
  <2>1. PICK x \in store : Id(x) = ChildId(ShieldBinding(l), t)
    BY <1>2, <1>4, Zenon
  <2>2. x.kind = BindingKind(l) /\ x.name = t.APIRoleBinding
    BY <2>1, LevelFound
  <2> QED
    BY <1>v, <2>2, Zenon DEF HasBinding
<1>6. \A l \in Levels : Ties(l, Accounts(l, s), ShieldRules(l, s))
  BY <1>5, Zenon DEF Rooted
<1>7. CASE c = "IShieldAPIDeployment"
  <2>1. d.port = "ishield-api" /\ d.serviceAccount = s.APIServiceAccountName
    BY <1>v, <1>1, <1>2, <1>7, DeploymentRefers, Zenon
  <2>2. call \in HandlerCalls
    BY <1>1, <2>1, Zenon DEF CallsOf
  <2> QED
    BY <1>6, <2>1, <2>2, CallsNeed, ShieldRights, Zenon DEF Served
<1>8. CASE c = "AdmissionControllerDeployment"
  <2>1. d.port = "validator-port" /\ d.serviceAccount = s.APIServiceAccountName
    BY <1>v, <1>1, <1>2, <1>8, DeploymentRefers, Zenon
  <2>2. call \in ControllerCalls
    BY <1>1, <2>1, Zenon DEF CallsOf
  <2>3. \E y \in store : y.kind = "CRD" /\ y.name = "manifestintegrityprofiles"
    BY <1>2, <1>4, <1>8, FoundServer, Zenon
  <2>4. Served(call)
    BY <2>2, <2>3, CallsNeed, Zenon DEF Served, Named
  <2> QED
    BY <1>6, <2>1, <2>2, <2>4, ShieldRights, Zenon
<1>9. CASE c = "ObserverDeployment"
  <2>1. d.port = "none" /\ d.serviceAccount = s.ObserverServiceAccountName
    BY <1>v, <1>1, <1>2, <1>9, DeploymentRefers, Zenon
  <2>2. call \in ObserverCalls
    BY <1>1, <2>1, Zenon DEF CallsOf
  <2>3. \E y \in store : y.kind = "CRD" /\ y.name = "manifestintegritystates"
    BY <1>2, <1>4, <1>9, FoundServer, Zenon
  <2>4. Served(call)
    BY <2>2, <2>3, CallsNeed, Zenon DEF Served, Named
  <2>5. s.obs
    BY <1>9, Zenon DEF ChildrenOf, CommonChildren, GatekeeperChildren, ControllerChildren
  <2>6. \A l \in Levels : \E y \in store : Id(y) = ChildId(ObserverBinding(l), t)
    BY <1>2, <1>4, <1>9, Zenon
  <2>7. Granted(store, s.ObserverServiceAccountName, call)
    BY <1>6, <2>2, <2>5, <2>6, ObserverRights, Zenon
  <2> QED
    BY <2>1, <2>4, <2>7, Zenon
<1> QED
  BY <1>3, <1>7, <1>8, <1>9, Zenon DEF Deployments

\* A component is deployed only with the rights to every call it makes and with
\* its custom resources served, wherever passes stop and whatever is renamed, the
\* roles and the bindings included, when an admin leaves the two ServiceAccounts
\* alone and the bindings of shield and observer never share a name.
THEOREM RightsAlwaysSuffice ==
    ASSUME BindingsApart
    PROVE  Spec => []RightsSuffice
<1> DEFINE Inv == TypeOK /\ \E s \in Specs : PassInv(s) /\ Provenance(s) /\ Rooted(s)
<1>1. Init => Inv
  <2>1. Init => Rooted(cr)
    BY Zenon DEF Init, Rooted, HasBinding
  <2> QED
    BY <2>1, RolloutInit
<1>2. Inv /\ [Next]_vars => Inv'
  BY TypeStep, PassStep, ProvenanceStep, RootedStep, Zenon
<1>3. Inv => RightsSuffice
  BY RightsFromRooted, Zenon
<1> QED
  BY <1>1, <1>2, <1>3, PTL DEF Spec
=============================================================================
