----------------------------- MODULE MCObserver -----------------------------
(***************************************************************************)
(* Instances of Observer for TLC.                                          *)
(***************************************************************************)
EXTENDS Observer

Deployment == [group |-> "apps", kind |-> "Deployment", namespaced |-> TRUE]
Roles      == [group |-> "rbac", kind |-> "ClusterRole", namespaced |-> FALSE]
Discovered == <<Deployment, Roles>>

Object(r, ns) == [group |-> r.group, version |-> "v1", kind |-> r.kind, ns |-> ns,
                  name |-> "sample", labels |-> {}]
InProd == Object(Deployment, "prod")
Global == Object(Roles, "")

Labelled == {("test" :> {}) @@ ("prod" :> {}),
             ("test" :> {"shield"}) @@ ("prod" :> {"shield"})}

Constraint(name, r, namespaces, selector, inform) ==
    [name |-> name, inform |-> inform,
     match |-> [kinds |-> <<[kinds |-> {r.kind}, apiGroups |-> {r.group}]>>,
                namespaces |-> namespaces, excluded |-> {}, labelSelector |-> {},
                namespaceSelector |-> selector]]

\* One constraint lists two namespaces, one of them twice, the other a
\* cluster-scoped resource.
OfDeployments == Constraint("deployments", Deployment, <<"prod">>, {{"shield"}}, TRUE)
OfRoles       == Constraint("roles", Roles, <<>>, {}, FALSE)
Both          == <<OfDeployments, OfRoles>>

Content(sig, images) == [sig |-> sig, images |-> images]
Verified == Content("verified", "ok")
Mixed    == {Verified, Content("verified", "error"), Content("unverified", "ok")}

Resources == {InProd, Global}

\* It is enough to begin with one content and one labelling: edits lead to the
\* others.
InitVerified ==
    /\ Init
    /\ live = [o \in Objects |-> Verified]
    /\ nsLabels = ("test" :> {"shield"}) @@ ("prod" :> {"shield"})

FromVerified == InitVerified /\ [][Next]_vars /\ \A p \in Pods : WF_vars(Step(p))
=============================================================================
