------------------------------ MODULE KeyFile -------------------------------
(***************************************************************************)
(* What concurrent requests share in one pod: LoadKeySecret writes every   *)
(* key Secret to a fixed path under /tmp that the verification reads       *)
(* later, and RequestHandler sets the process's REKOR_SERVER from the      *)
(* configuration it loaded.  Each request is a goroutine of the webhook or *)
(* of the API server; nothing locks the files or the variable.             *)
(*                                                                         *)
(* The content of a file is a sequence of blocks: version v of a key has   *)
(* Size[v] of them, each equal to v.                                       *)
(***************************************************************************)
EXTENDS Integers, Sequences, Functions

CONSTANTS
    Handlers,       \* goroutines that handle requests
    ManifestKeys,   \* KeyConfigs of the constraint: sequence of Secrets
    ImageKeys,      \* KeyConfigs of its image profile; none: no image check
    Size            \* blocks of every version of a key: versions are 1, 2, ...

Rekor == "REKOR_SERVER"
Keys  == Range(ManifestKeys) \union Range(ImageKeys)
Items == Keys \union {Rekor}

ASSUME KeyFileAssumption ==
    /\ ManifestKeys \in Seq(Keys) /\ ImageKeys \in Seq(Keys) /\ Rekor \notin Keys
    /\ Size \in Seq(Nat \ {0}) /\ Size # <<>>

VARIABLES
    version,    \* of every Secret and of the configured Rekor server
    stored,     \* content of every key file, and of the variable
    handler,    \* the local state of every goroutine
    read,       \* history: the version it read of an item
    floor,      \* history: that version and those that others could still write
    shared      \* history: the items that others were loading before it used them

vars == <<version, stored, handler, read, floor, shared>>
history == <<read, floor, shared>>

Whole(item, v) == IF item = Rekor THEN <<v>> ELSE [i \in 1..Size[v] |-> v]

Idle == [pc |-> "idle", phase |-> "manifest", todo |-> <<>>, got |-> 0, loaded |-> {},
         used |-> <<>>]

TypeOK ==
    /\ version \in [Items -> DOMAIN Size]
    /\ \A h \in Handlers :
         /\ handler[h].pc \in {"idle", "get", "open", "write", "verify"}
         /\ handler[h].pc \in {"get", "open", "write"} <=> handler[h].todo # <<>>
         /\ handler[h].loaded \subseteq Items
    /\ \A i \in Items : Range(stored[i]) \subseteq DOMAIN Size
    /\ Len(stored[Rekor]) <= 1
    /\ \A k \in Keys : \E v \in DOMAIN Size : Len(stored[k]) <= Size[v]

Init ==
    /\ version = [i \in Items |-> 1]
    /\ stored = [i \in Items |-> <<>>]
    /\ handler = [h \in Handlers |-> Idle]
    /\ read = [h \in Handlers |-> [i \in Items |-> 0]]
    /\ floor = [h \in Handlers |-> [i \in Items |-> {}]]
    /\ shared = [h \in Handlers |-> {}]

Item(h) == Head(handler[h].todo)

\* The goroutines that hold a version they have not finished writing.
Loading(item) == {h \in Handlers : handler[h].pc \in {"open", "write"} /\ Item(h) = item}

\* A key Secret is replaced, or the configuration names another server.
Rotate ==
    \E i \in Items :
        /\ version[i] + 1 \in DOMAIN Size
        /\ version' = [version EXCEPT ![i] = @ + 1]
        /\ UNCHANGED <<stored, handler, history>>

Start(h) ==
    /\ handler[h].pc = "idle"
    /\ handler' = [handler EXCEPT ![h] = [Idle EXCEPT !.pc = "get", !.todo = <<Rekor>> \o ManifestKeys]]
    /\ UNCHANGED <<version, stored, history>>

\* The item is done: the next one, or the verification.
Continue(state, loaded) ==
    [state EXCEPT !.todo = Tail(@), !.loaded = loaded,
                  !.pc = IF Len(state.todo) > 1 THEN "get" ELSE "verify"]

\* Mutant: the path is used although the load failed.
PathKept(state) == Continue(state, state.loaded \union {Head(state.todo)})

\* An error of LoadRequestHandlerConfig, or of a key for images, ends the request
\* or its image check.  An error of a key for the manifest is logged.
LoadFails(state) ==
    IF Head(state.todo) = Rekor \/ state.phase = "image" THEN Idle
    ELSE Continue(state, state.loaded)

\* The Secret, or the configuration, is read from the API server.
Get(h) ==
    /\ handler[h].pc = "get"
    /\ LET i      == Item(h)
           others == Loading(i)
       IN  \/ /\ handler' = [handler EXCEPT ![h].pc = IF i = Rekor THEN "write" ELSE "open",
                                            ![h].got = version[i], ![h].used = <<>>]
              /\ read' = [read EXCEPT ![h][i] = version[i]]
              /\ floor' = [floor EXCEPT ![h][i] =
                               {version[i]} \union {handler[g].got : g \in others}
                               \union (IF i \in handler[h].loaded THEN @ ELSE {})]
              /\ shared' = [g \in Handlers |->
                              IF g = h THEN IF others = {} THEN shared[h] \ {i}
                                                           ELSE shared[h] \union {i}
                              ELSE IF g \in others \/ i \in handler[g].loaded
                                   THEN shared[g] \union {i} ELSE shared[g]]
           \/ handler' = [handler EXCEPT ![h] = LoadFails(@)] /\ UNCHANGED history
    /\ UNCHANGED <<version, stored>>

\* Mutant: the file is not truncated.
NotTruncated(h) ==
    /\ handler[h].pc = "open"
    /\ handler' = [handler EXCEPT ![h].pc = "write"]
    /\ UNCHANGED <<version, stored, history>>

\* WriteFile opens the file and truncates it, or fails.
OpenFile(h) ==
    /\ handler[h].pc = "open"
    /\ \/ /\ stored' = [stored EXCEPT ![Item(h)] = <<>>]
          /\ handler' = [handler EXCEPT ![h].pc = "write"]
       \/ /\ handler' = [handler EXCEPT ![h] = LoadFails(@)]
          /\ UNCHANGED stored
    /\ UNCHANGED <<version, history>>

\* Mutant: the file is extended.
Appended(old, new) == old \o new

\* What a write from the start of the file leaves behind its end stays.
Overwritten(old, new) == new \o SubSeq(old, Len(new) + 1, Len(old))

\* WriteFile writes, or fails; Setenv replaces the value.
Write(h) ==
    /\ handler[h].pc = "write"
    /\ LET i   == Item(h)
           new == Whole(i, handler[h].got)
       IN  \/ /\ stored' = [stored EXCEPT ![i] = IF i = Rekor THEN new ELSE Overwritten(@, new)]
              /\ handler' = [handler EXCEPT ![h] = Continue(@, @.loaded \union {i})]
           \/ /\ i # Rekor
              /\ handler' = [handler EXCEPT ![h] = LoadFails(@)]
              /\ UNCHANGED stored
    /\ UNCHANGED <<version, history>>

\* VerifyResource, then VerifyImageInManifest, with the files and the server of
\* that moment; an error of the first ends the request.
Verify(h) ==
    /\ handler[h].pc = "verify"
    /\ LET used == [i \in handler[h].loaded |-> stored[i]]
       IN  \/ /\ handler[h].phase = "manifest" /\ ImageKeys # <<>>
              /\ handler' = [handler EXCEPT ![h] =
                               [@ EXCEPT !.pc = "get", !.phase = "image", !.todo = ImageKeys,
                                         !.loaded = {Rekor}, !.used = used]]
           \/ handler' = [handler EXCEPT ![h] = [Idle EXCEPT !.used = used]]
    /\ UNCHANGED <<version, stored, history>>

Next == Rotate \/ \E h \in Handlers : Start(h) \/ Get(h) \/ OpenFile(h) \/ Write(h) \/ Verify(h)

Spec == Init /\ [][Next]_vars

-----------------------------------------------------------------------------
(* Properties *)

\* A verification never uses a version of a key or of the Rekor server that is
\* older than what its own request read and what was still to be written then:
\* a slow request can bring an old version back, a finished one cannot.
StalenessBounded ==
    \A h \in Handlers : \A i \in DOMAIN handler[h].used :
        \A v \in Range(handler[h].used[i]) : \E f \in floor[h][i] : v >= f

\* A request that no other one overlaps while it loads and uses an item verifies
\* with exactly the version it read, in full.
AloneIsExact ==
    \A h \in Handlers : \A i \in DOMAIN handler[h].used :
        i \notin shared[h] =>
            \E v \in DOMAIN Size : v = read[h][i] /\ handler[h].used[i] = Whole(i, v)
=============================================================================
