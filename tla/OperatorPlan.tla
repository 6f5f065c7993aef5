---------------------------- MODULE OperatorPlan ----------------------------
(***************************************************************************)
(* The children of an IntegrityShield resource and the order in which the  *)
(* operator creates and deletes them.                                      *)
(***************************************************************************)
EXTENDS Sequences

(* Children, by the function that creates them *)

ConfigMaps          == {"RequestHandlerConfig", "ACConfig"}
ServiceAccounts     == {"IShieldApiServiceAccount", "ObserverServiceAccount"}
Roles               == {"RoleForIShield", "RoleForObserver"}
RoleBindings        == {"RoleBindingForIShield", "RoleBindingForObserver"}
ClusterRoles        == {"ClusterRoleForIShield", "ClusterRoleForObserver"}
ClusterRoleBindings == {"ClusterRoleBindingForIShield", "ClusterRoleBindingForObserver"}
CRDs                == {"ManifestIntegrityProfileCRD", "ObserverResultCRD"}
Secrets             == {"TlsSecret", "ACTlsSecret"}
Deployments         == {"IShieldAPIDeployment", "AdmissionControllerDeployment",
                        "ObserverDeployment"}
Services            == {"APIService", "WebhookService"}

Namespaced == ConfigMaps \union ServiceAccounts \union Roles \union RoleBindings
              \union Secrets \union Deployments \union Services
ClusterScoped == ClusterRoles \union ClusterRoleBindings \union CRDs
                 \union {"ConstraintTemplate", "Webhook"}

\* The Event of createOrUpdateWebhook has no owner and is never deleted.
Children == Namespaced \union ClusterScoped \union {"WebhookEvent"}

Kinds == {ConfigMaps, ServiceAccounts, Roles, RoleBindings, ClusterRoles,
          ClusterRoleBindings, CRDs, Secrets, Deployments, Services,
          {"ConstraintTemplate"}, {"Webhook"}, {"WebhookEvent"}}

\* Mutant: the webhook is registered before its Service exists.
ServiceLast ==
    <<"ManifestIntegrityProfileCRD", "ACConfig", "ACTlsSecret",
      "AdmissionControllerDeployment", "Webhook", "WebhookService">>

CommonPart ==
    <<"RequestHandlerConfig", "IShieldApiServiceAccount", "RoleForIShield",
      "RoleBindingForIShield", "ClusterRoleForIShield", "ClusterRoleBindingForIShield">>
ObserverPart ==
    <<"ObserverResultCRD", "ObserverServiceAccount", "ClusterRoleForObserver",
      "ClusterRoleBindingForObserver", "RoleForObserver", "RoleBindingForObserver",
      "ObserverDeployment">>
GatekeeperPart ==
    <<"TlsSecret", "IShieldAPIDeployment", "APIService", "ConstraintTemplate">>
ControllerPart ==
    <<"ManifestIntegrityProfileCRD", "ACConfig", "ACTlsSecret",
      "AdmissionControllerDeployment", "WebhookService", "Webhook">>

\* The order in which Reconcile looks at the children.
InstallPlan(spec) ==
    CommonPart \o (IF spec.obs THEN ObserverPart ELSE <<>>)
               \o (IF spec.gk THEN GatekeeperPart ELSE ControllerPart)

\* Mutants: a CRD is not deleted; a policy that is never created is deleted.
ObserverCRDForgotten(spec) ==
    <<"ClusterRoleForIShield", "ClusterRoleBindingForIShield">>
    \o (IF spec.gk THEN <<"ConstraintTemplate">>
                   ELSE <<"Webhook", "ManifestIntegrityProfileCRD">>)
    \o (IF spec.obs THEN <<"ClusterRoleForObserver", "ClusterRoleBindingForObserver">>
                    ELSE <<>>)
PolicyDeletedToo(spec) ==
    <<"ClusterRoleForIShield", "ClusterRoleBindingForIShield", "PodSecurityPolicy">>

\* The order in which deleteClusterScopedChildrenResources does.
DeletePlan(spec) ==
    <<"ClusterRoleForIShield", "ClusterRoleBindingForIShield">>
    \o (IF spec.gk THEN <<"ConstraintTemplate">>
                   ELSE <<"Webhook", "ManifestIntegrityProfileCRD">>)
    \o (IF spec.obs THEN <<"ClusterRoleForObserver", "ClusterRoleBindingForObserver",
                           "ObserverResultCRD">>
                    ELSE <<>>)
=============================================================================
