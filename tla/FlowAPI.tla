------------------------------ MODULE FlowAPI ------------------------------
(***************************************************************************)
(* Flow definitions: the row of a flow, which the apiserver replicas and   *)
(* the console write, the copy of it every replica keeps in memory, and    *)
(* the three ways in which a run is asked for (REST, source-control        *)
(* webhook, A2A), which all read the copy first.  A replica serves its requests concurrently: what a     *)
(* handler does between two database calls or lock sections is one step.   *)
(* A handler that wrote the cache then notifies the watchers (FlowWatch).  *)
(***************************************************************************)
EXTENDS Naturals, FiniteSets, Sequences

CONSTANTS
  Servers,      \* apiserver replicas
  Flows,        \* flow ids
  Clients,      \* requests being served at a time
  Specs,        \* definitions posted: [ns, k8s, triggers, body]
  Bodies,       \* nodes, edges, vars and description of a definition
  Deliveries,   \* webhook requests: [provider, header, pr, ref, kind]
  Lower,        \* the lower case of the words that are not in lower case
  PageSize,     \* the 1000 rows a starting replica reads
  Config,       \* [prefix, default]: namespace.namespace_prefix, default_namespace
  None,
  MaxWrites,    \* bound on the database writes
  MaxBoots      \* bound on the restarts of replicas

VARIABLES
  stored,     \* the definition column of a flow's row, None before the first
  live,       \* flows whose row is not soft-deleted
  cache,      \* agentFlows of each replica
  req,        \* the request a client is being served
  lastRun,    \* the run row created last
  writes, boots,
  tainted,    \* history: <<replica, flow>> where a write met another request,
              \* or which a write went past
  missed      \* history: <<replica, flow>> the replica did not load at its start

storeVars == <<stored, live, writes>>
vars == <<stored, live, cache, req, lastRun, writes, boots, tainted, missed>>

----------------------------------------------------------------------------
(* Namespaces: the sequence of the strings a name is put together from.    *)

Coalesce(x, default) == IF x = "" THEN default ELSE x

\* FlowDefHandler.applicationNamespace
ApplicationNamespaceRaw(spec) ==
  IF spec.k8s # <<>> THEN spec.k8s ELSE <<Config.prefix, Coalesce(spec.ns, Config.default)>>

ApplicationNamespace(spec) ==
  IF spec.k8s # <<>> THEN spec.k8s
  ELSE <<Coalesce(Config.prefix, "flowgent-"),
         Coalesce(spec.ns, Coalesce(Config.default, "default"))>>

\* The namespace in which the Controller creates the JobManager of a flow.
ControllerNamespace(spec) ==
  IF spec.k8s # <<>> THEN spec.k8s
  ELSE <<Coalesce(Config.prefix, "flowgent-"),
         IF spec.ns # "" THEN spec.ns
         ELSE IF Config.default # "" THEN Config.default ELSE "default">>

----------------------------------------------------------------------------
(* Webhook requests.  The name of an event is the sequence of its words,   *)
(* which a header of GitLab joins by blanks and an event by underscores.   *)

LowerWord(w) == IF w \in DOMAIN Lower THEN Lower[w] ELSE w
ToLower(name) == [i \in DOMAIN name |-> LowerWord(name[i])]

TrimHook(h) == IF Len(h) > 1 /\ h[Len(h)] = "Hook" THEN SubSeq(h, 1, Len(h) - 1) ELSE h

NormalizeGitLabEvent(h) ==
  CASE h \in {<<"Push", "Hook">>, <<"Tag", "Push", "Hook">>} -> <<"push">>
    [] h = <<"Merge", "Request", "Hook">> -> <<"merge", "request">>
    [] h = <<"Note", "Hook">> -> <<"note">>
    [] h = <<"Pipeline", "Hook">> -> <<"pipeline">>
    [] OTHER -> ToLower(TrimHook(h))

ParseGitHubLike(d) ==
  IF d.header # << >> THEN d.header
  ELSE IF d.pr THEN <<"pull", "request">> ELSE IF d.ref THEN <<"push">> ELSE << >>

ParseGitLab(d) ==
  LET event == NormalizeGitLabEvent(d.header) IN IF event = << >> THEN d.kind ELSE event

EventOf(d) ==
  [provider |-> LowerWord(d.provider),
   name |-> IF LowerWord(d.provider) = "gitlab" THEN ParseGitLab(d) ELSE ParseGitHubLike(d)]

SupportedProviders == {"github", "gitlab", "gitea"}

MatchesWebhookTrigger(spec, evt) ==
  \E t \in spec.triggers :
    /\ LowerWord(t.type) = "webhook" /\ LowerWord(t.provider) = evt.provider
    /\ t.events = {} \/ \E name \in t.events : ToLower(name) = ToLower(evt.name)

----------------------------------------------------------------------------
(* The store.                                                              *)

GetSpec(f) == IF f \in live THEN stored[f] ELSE None

SaveSpec(f, spec) ==
  /\ writes < MaxWrites /\ writes' = writes + 1
  /\ stored' = [stored EXCEPT ![f] = spec]
  /\ live' = live \union {f}

SoftDelete(f) ==
  /\ writes < MaxWrites /\ writes' = writes + 1
  /\ live' = live \ {f}
  /\ UNCHANGED stored

\* One page of the rows that are not deleted, or less when the reading of
\* the rows broke off, which nobody asks about (rows.Err).  When the query is
\* refused the replica does not start: the page that is not there is used
\* before its error is looked at.
Pages == {page \in SUBSET live : Cardinality(page) <= PageSize}

LoadFromDB(page) == [f \in Flows |-> IF f \in page THEN GetSpec(f) ELSE None]

----------------------------------------------------------------------------
Idle == [op |-> "idle", at |-> None, flow |-> None,
         spec |-> None, todo |-> {}, evt |-> None]

Init ==
  /\ stored \in [Flows -> {None} \union Specs]
  /\ live = {f \in Flows : stored[f] # None}
  /\ cache = [a \in Servers |-> LoadFromDB(live)]
  /\ req = [c \in Clients |-> Idle]
  /\ lastRun = None
  /\ writes = 0 /\ boots = 0 /\ tainted = {} /\ missed = {}

Respond(c) == req' = [req EXCEPT ![c] = Idle]

Serving(c, a, f) == req[c].at = a /\ (req[c].flow = f \/ f \in req[c].todo)

\* Requests of a on f that wrote the row and have not written the cache.
Pending(a, f) ==
  {c \in Clients : Serving(c, a, f) /\ req[c].op \in {"created", "updated", "deleted"}}

\* A commit on f that its request follows up with a write of the copy taints
\* the copies of the other replicas, and its own replica's when another
\* request on f is being served there; else it mends that copy.
Commit(c, a, f) ==
  tainted' = (tainted \ {<<a, f>>}) \union {<<b, f>> : b \in Servers \ {a}}
               \union {<<a, f>> : d \in {d \in Clients \ {c} : Serving(d, a, f)}}

\* A commit on f that no replica follows up.
GoPast(f) == tainted' = tainted \union {<<b, f>> : b \in Servers}

----------------------------------------------------------------------------
(* Create: save the row, write the cache.  The namespace is the one in the *)
(* path, never empty; only the console stores flows without one.  A write  *)
(* that is refused leaves all as it is; one that is carried out and whose  *)
(* answer is lost ends the request (500) without a write of the cache.     *)

Create(c, a, f, spec) ==
  /\ req[c].op = "idle" /\ spec.ns # ""
  /\ SaveSpec(f, spec)
  /\ \/ /\ req' = [req EXCEPT ![c] = [Idle EXCEPT !.op = "created", !.at = a, !.flow = f, !.spec = spec]]
        /\ Commit(c, a, f)
     \/ Respond(c) /\ GoPast(f)
  /\ UNCHANGED <<cache, lastRun, boots, missed>>

CacheWrite(c) ==
  /\ req[c].op \in {"created", "updated"}
  /\ cache' = [cache EXCEPT ![req[c].at][req[c].flow] = req[c].spec]
  /\ Respond(c)
  /\ UNCHANGED <<lastRun, boots, tainted, missed, storeVars>>

\* A cached definition is answered without a change of state; on a miss the
\* row is read, and put into the cache in a later step.
Get(c, a, f) ==
  /\ req[c].op = "idle"
  /\ cache[a][f] = None /\ GetSpec(f) # None
  /\ req' = [req EXCEPT ![c] = [Idle EXCEPT !.op = "got", !.at = a, !.flow = f, !.spec = GetSpec(f)]]
  /\ UNCHANGED <<cache, lastRun, boots, tainted, missed, storeVars>>

Populate(c) ==
  /\ req[c].op = "got"
  /\ cache' = [cache EXCEPT ![req[c].at][req[c].flow] = req[c].spec]
  /\ Respond(c)
  /\ UNCHANGED <<lastRun, boots, tainted, missed, storeVars>>

\* Update: read the row, merge the body's fields, save, write the cache.
Update(c, a, f, b) ==
  /\ req[c].op = "idle" /\ GetSpec(f) # None
  /\ req' = [req EXCEPT ![c] = [Idle EXCEPT !.op = "merging", !.at = a, !.flow = f,
                                            !.spec = [GetSpec(f) EXCEPT !.body = b]]]
  /\ UNCHANGED <<cache, lastRun, boots, tainted, missed, storeVars>>

UpdateSave(c) ==
  /\ req[c].op = "merging"
  /\ \/ /\ SaveSpec(req[c].flow, req[c].spec)
        /\ \/ req' = [req EXCEPT ![c].op = "updated"] /\ Commit(c, req[c].at, req[c].flow)
           \/ Respond(c) /\ GoPast(req[c].flow)
     \/ Respond(c) /\ UNCHANGED <<tainted, storeVars>>
  /\ UNCHANGED <<cache, lastRun, boots, missed>>

\* Delete: soft-delete the row, drop the copy.
Delete(c, a, f) ==
  /\ req[c].op = "idle"
  /\ SoftDelete(f)
  /\ \/ /\ req' = [req EXCEPT ![c] = [Idle EXCEPT !.op = "deleted", !.at = a, !.flow = f]]
        /\ Commit(c, a, f)
     \/ Respond(c) /\ GoPast(f)
  /\ UNCHANGED <<cache, lastRun, boots, missed>>

UncacheNothing(c) ==
  /\ req[c].op = "deleted"
  /\ Respond(c)
  /\ UNCHANGED <<cache, lastRun, boots, tainted, missed, storeVars>>

Uncache(c) ==
  /\ req[c].op = "deleted"
  /\ cache' = [cache EXCEPT ![req[c].at][req[c].flow] = None]
  /\ Respond(c)
  /\ UNCHANGED <<lastRun, boots, tainted, missed, storeVars>>

----------------------------------------------------------------------------
(* Runs.  A trigger names its flow; a webhook request stands for the       *)
(* flows of the replica's cache that declare a matching trigger.           *)

Ask(c, a, flows, evt) ==
  /\ req[c].op = "idle" /\ flows # {}
  /\ req' = [req EXCEPT ![c] = [Idle EXCEPT !.op = "asked", !.at = a, !.todo = flows, !.evt = evt]]
  /\ tainted' = tainted \union {<<a, f>> : f \in {f \in flows : Pending(a, f) # {}}}
  /\ UNCHANGED <<cache, lastRun, boots, missed, storeVars>>

Trigger(c, a, f) == Ask(c, a, {f}, None)

Webhook(c, a, d) ==
  /\ LowerWord(d.provider) \in SupportedProviders
  /\ LET evt == EventOf(d)
     IN  Ask(c, a, {f \in Flows : cache[a][f] # None /\ MatchesWebhookTrigger(cache[a][f], evt)}, evt)

\* CreateRunFromTrigger up to the insert: the cached definition, else the row.
Resolve(c, f) ==
  /\ req[c].op = "asked" /\ f \in req[c].todo
  /\ LET a == req[c].at
         spec == IF cache[a][f] # None THEN cache[a][f] ELSE GetSpec(f)
     IN  /\ req' = [req EXCEPT ![c].op = IF spec = None THEN "asked" ELSE "resolved",
                               ![c].flow = IF spec = None THEN None ELSE f,
                               ![c].spec = spec, ![c].todo = @ \ {f}]
         /\ tainted' = tainted \union {<<a, f>> : d \in Pending(a, f)}
  /\ UNCHANGED <<cache, lastRun, boots, missed, storeVars>>

\* History: the namespace in which the flow's JobManager polls, None when the
\* stored flow is deleted or did not ask for the event.
Wanted(f, evt) ==
  IF GetSpec(f) = None \/ (evt # None /\ ~MatchesWebhookTrigger(GetSpec(f), evt))
  THEN None ELSE ControllerNamespace(GetSpec(f))

CreateRun(c) ==
  /\ req[c].op = "resolved"
  /\ \/ UNCHANGED lastRun    \* the insert failed
     \/ lastRun' = [flow |-> req[c].flow, namespace |-> ApplicationNamespace(req[c].spec),
                 wanted |-> Wanted(req[c].flow, req[c].evt),
                 clean |-> <<req[c].at, req[c].flow>> \notin tainted]
  /\ req' = [req EXCEPT ![c].op = "asked", ![c].flow = None, ![c].spec = None]
  /\ UNCHANGED <<cache, boots, tainted, missed, storeVars>>

Asked(c) ==
  /\ req[c].op = "asked" /\ req[c].todo = {}
  /\ Respond(c)
  /\ UNCHANGED <<cache, lastRun, boots, tainted, missed, storeVars>>

----------------------------------------------------------------------------
(* The console writes the table itself, and nobody tells the replicas.     *)

ConsoleSave(f, spec) ==
  /\ SaveSpec(f, spec) /\ GoPast(f)
  /\ UNCHANGED <<cache, req, lastRun, boots, missed>>

ConsoleRemove(f) ==
  /\ SoftDelete(f) /\ GoPast(f)
  /\ UNCHANGED <<cache, req, lastRun, boots, missed>>

----------------------------------------------------------------------------
\* A replica dies (also of the unlocked map writes in Update and Delete) and
\* comes back with rows of the moment.
Restart(a) ==
  /\ boots < MaxBoots /\ boots' = boots + 1
  /\ \E page \in Pages :
       /\ cache' = [cache EXCEPT ![a] = LoadFromDB(page)]
       /\ missed' = {m \in missed : m[1] # a} \union {<<a, f>> : f \in live \ page}
  /\ req' = [c \in Clients |-> IF req[c].at = a THEN Idle ELSE req[c]]
  /\ tainted' = {t \in tainted : t[1] # a}
  /\ UNCHANGED <<lastRun, storeVars>>

Next ==
  \/ \E c \in Clients, a \in Servers, f \in Flows :
       \/ \E spec \in Specs : Create(c, a, f, spec)
       \/ \E b \in Bodies : Update(c, a, f, b)
       \/ Get(c, a, f) \/ Delete(c, a, f) \/ Trigger(c, a, f)
  \/ \E c \in Clients, a \in Servers, d \in Deliveries : Webhook(c, a, d)
  \/ \E c \in Clients : \/ CacheWrite(c) \/ Populate(c) \/ UpdateSave(c) \/ Uncache(c)
                        \/ CreateRun(c) \/ Asked(c)
                        \/ \E f \in Flows : Resolve(c, f)
  \/ \E a \in Servers : Restart(a)
  \/ \E f \in Flows : ConsoleRemove(f) \/ \E spec \in Specs : ConsoleSave(f, spec)

Spec == Init /\ [][Next]_vars

----------------------------------------------------------------------------
\* A replica's copy of a flow is its row, and a deleted flow is gone from it,
\* from the replica's start or a write through the replica on, until a write
\* goes past it (through another replica or the console, or with a lost
\* answer) or meets another request on the flow.  At most a flow the replica
\* did not load at its start is not in its memory at all.
CacheFollowsStore ==
  \A a \in Servers, f \in Flows :
    \/ <<a, f>> \in tainted \/ Pending(a, f) # {} \/ cache[a][f] = GetSpec(f)
    \/ <<a, f>> \in missed /\ cache[a][f] = None

\* A run asked for through such a copy is of a stored flow that asked for it,
\* and lies in the namespace which the JobManager the Controller created for
\* that flow polls.
RunReachesItsJobManager ==
  lastRun # None /\ lastRun.clean => lastRun.namespace = lastRun.wanted
============================================================================
