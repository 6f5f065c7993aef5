----------------------------- MODULE MCDecision -----------------------------
(***************************************************************************)
(* Instances of Decision for TLC.                                          *)
(***************************************************************************)
EXTENDS Decision, TLC

Deployment == [group |-> "apps", kind |-> "Deployment", namespaced |-> TRUE]
ConfigMaps == [group |-> "", kind |-> "ConfigMap", namespaced |-> TRUE]
Roles      == [group |-> "rbac", kind |-> "ClusterRole", namespaced |-> FALSE]
Discovered == <<ConfigMaps, Deployment, Roles>>

Object(r, ns) == [group |-> r.group, version |-> "v1", kind |-> r.kind, ns |-> ns,
                  name |-> "sample", labels |-> {"app"}]
Requested == {Object(Deployment, "prod"), Object(ConfigMaps, "test"), Object(Roles, "")}

\* Which namespaces can be read and which of them carry the label.
Labelled == {("prod" :> {"shield"}) @@ ("test" :> {}), "test" :> {"shield"}}

Ref(kind, name)  == [kind |-> kind, name |-> name]
Binding(objs)    == [objects |-> objs, users |-> {"alice"}]
Kinds(ks, gs)    == [kinds |-> ks, apiGroups |-> gs]
Match(k, n, e, l, s) == [kinds |-> k, namespaces |-> n, excluded |-> e,
                         labelSelector |-> l, namespaceSelector |-> s]

\* Conditions: kinds, then namespaces, then one of the other conditions.
KindLists == {<<>>, <<Kinds({"ConfigMap", "Deployment"}, {"apps"})>>,
              <<Kinds({"Deployment"}, {"apps"})>>, <<Kinds({"*"}, {})>>,
              <<Kinds({"ConfigMap", "Deployment"}, {""})>>,
              <<Kinds({"ConfigMap", "Deployment"}, {""}), Kinds({}, {"rbac"})>>}
Matches ==
    {Match(k, n, {}, {}, s) : k \in KindLists, n \in {<<>>, <<"prod">>, <<"*", "test">>},
                              s \in {{}, {{"shield"}}}}
    \union {Match(k, <<"prod">>, e, l, {}) : k \in KindLists, e \in {{"prod"}, {"*"}},
                                             l \in {{}, {{"app"}}, {{"other"}}}}

Scopes == {[include |-> i, exclude |-> e] : i \in {{}, {"prod", "test"}}, e \in {{}, {"test"}}}
Allows == {{}, {[group |-> "", version |-> "v1", kind |-> "ConfigMap"]}}
Users  == {{}, {Binding({})}, {Binding({Ref("Deployment", "*")})}}
Lists  == {{}, {Ref("", "sample")}, {Ref("ConfigMap", "*"), Ref("Deployment", "other")}}

Base(obj, match) ==
    [obj |-> obj, user |-> "alice", mutation |-> "create", signature |-> "unverified",
     images |-> "error", scope |-> [include |-> {}, exclude |-> {}], allow |-> {},
     match |-> match, skipUsers |-> {}, inScopeUsers |-> {}, objectSelector |-> {},
     commonSkipUsers |-> {}, skipObjects |-> {}, imageProfile |-> [match |-> {}, exclude |-> {}],
     action |-> "unset", enforce |-> TRUE]

\* Every condition with every filter of the admission controller; every list of
\* the request handler with a condition that matches everything.
MCInputs ==
    {[Base(o, m) EXCEPT !.scope = s, !.allow = a] :
        o \in Requested, m \in Matches, s \in Scopes, a \in Allows}
    \union
    {[Base(o, Match(<<>>, <<>>, {}, {}, {})) EXCEPT
         !.skipUsers = u, !.commonSkipUsers = c, !.inScopeUsers = i, !.objectSelector = sel,
         !.skipObjects = skip, !.signature = sig, !.mutation = mut,
         !.imageProfile = [match |-> p, exclude |-> {}]] :
        o \in Requested, u \in Users, c \in Users, i \in Users, sel \in Lists, skip \in Lists,
        sig \in {"verified", "unverified"}, mut \in MutationOutcomes, p \in {{}, {"*"}}}

\* The hypothesis of the theorem about the observer holds here.
ASSUME ObjectsDiscovered == AllDiscovered
=============================================================================
