--------------------------- MODULE ServicesProofs ---------------------------
(***************************************************************************)
(* Proofs about Services, for any number of replicas, browsers, users,     *)
(* flows, requests, tasks, messages, plans, processes, files, rows and     *)
(* listeners: what the A2A server reports as done was done, a request is   *)
(* served in the name of a user who logged in, the copies of flow          *)
(* definitions that no write overtook are the rows, a node is reported     *)
(* done only if it was, migrations end with the whole schema, the messager *)
(* routes as a broker would, and an import restores what it is past.       *)
(***************************************************************************)
EXTENDS Services, FiniteSetTheorems, SequenceTheorems, TLAPS

----------------------------------------------------------------------------
(* The A2A server.                                                         *)

TaskEvents == {"submitted", "working", "completed", "failed", "canceled"}

TaskTypes ==
  /\ DOMAIN request = Tasks /\ DOMAIN result = Tasks /\ DOMAIN taskState = Tasks
  /\ DOMAIN applied = Tasks /\ DOMAIN answered = Tasks
  /\ queue \in [Tasks -> Seq(TaskEvents)]

\* An answer "ok" that Execute has not reported yet: the action is done, and
\* nothing else was done for the task since.
Performed ==
  \A t \in Tasks : request[t] # Nil /\ result[t] = "ok" => applied[t] = request[t].action

\* What the state of the task will be once its events are saved.
Announced(t) == IF queue[t] = << >> THEN taskState[t] ELSE queue[t][Len(queue[t])]

Truthful ==
  \A t \in Tasks : request[t] = Nil /\ Announced(t) = "completed" => applied[t] = answered[t]

TaskInv == TaskTypes /\ Performed /\ Truthful

LEMMA TaskInitial == T!Init => TaskInv
  BY DEF T!Init, TaskInv, TaskTypes, Performed, Truthful, Announced

\* A queue after further events, and after a Save.
LEMMA QueueGrows ==
  ASSUME NEW S, NEW q \in Seq(S), NEW es \in Seq(S), es # << >>
  PROVE  /\ q \o es \in Seq(S) /\ q \o es # << >>
         /\ (q \o es)[Len(q \o es)] = es[Len(es)]
  OBVIOUS

LEMMA QueueShrinks ==
  ASSUME NEW S, NEW q \in Seq(S), q # << >>
  PROVE  /\ Tail(q) \in Seq(S) /\ Head(q) = q[1]
         /\ Tail(q) = << >> => Len(q) = 1
         /\ Tail(q) # << >> => Tail(q)[Len(Tail(q))] = q[Len(q)]
<1>1. Len(q) \in Nat /\ Len(Tail(q)) = Len(q) - 1 /\ Len(<< >>) = 0
  OBVIOUS
<1>2. Tail(q) = << >> => Len(q) = 1
  <2>1. Tail(q) = << >> => Len(Tail(q)) = 0
    BY <1>1, Zenon
  <2>2. \A n \in Nat : n - 1 = 0 => n = 1
    OBVIOUS
  <2> QED BY <1>1, <2>1, <2>2, Zenon
<1>3. Tail(q) # << >> => Tail(q)[Len(Tail(q))] = q[Len(q)]
  OBVIOUS
<1> QED BY <1>2, <1>3

\* What Events does to the queues and to what they announce.
LEMMA Announcing ==
  ASSUME TaskTypes, NEW t \in Tasks, NEW es \in Seq(TaskEvents), es # << >>, T!Events(t, es)
  PROVE  /\ queue' \in [Tasks -> Seq(TaskEvents)]
         /\ \A u \in Tasks \ {t} : queue'[u] = queue[u]
         /\ queue'[t] # << >> /\ queue'[t][Len(queue'[t])] = es[Len(es)]
<1>1. queue[t] \in Seq(TaskEvents)
  BY DEF TaskTypes
<1>2. /\ queue[t] \o es \in Seq(TaskEvents) /\ queue[t] \o es # << >>
      /\ (queue[t] \o es)[Len(queue[t] \o es)] = es[Len(es)]
  BY <1>1, QueueGrows
<1> QED BY <1>2 DEF T!Events, TaskTypes

LEMMA TaskInductive == TaskInv /\ T!Next => TaskInv'
<1> SUFFICES ASSUME TaskInv, NEW t \in Tasks,
                    \/ \E m \in AdminMessages : T!Execute(t, m)
                    \/ T!Refuse(t) \/ T!GetOrList(t) \/ T!CreateFlow(t) \/ T!Change(t) \/ T!CallFails(t)
                    \/ T!Finish(t) \/ T!Cancel(t) \/ T!Save(t)
             PROVE  TaskInv'
  BY DEF T!Next
<1> USE NilAssumption DEF TaskInv
<1>1. CASE \E m \in AdminMessages : T!Execute(t, m)
  <2>1. PICK m \in AdminMessages : T!Execute(t, m)
    BY <1>1
  <2>2. PICK es \in Seq(TaskEvents) : es # << >> /\ es[Len(es)] = "working" /\ T!Events(t, es)
    <3>1. <<"submitted", "working">> \in Seq(TaskEvents) /\ <<"working">> \in Seq(TaskEvents)
      BY DEF TaskEvents
    <3> QED BY <2>1, <3>1 DEF T!Execute
  <2>3. /\ queue' \in [Tasks -> Seq(TaskEvents)] /\ \A u \in Tasks \ {t} : queue'[u] = queue[u]
        /\ queue'[t] # << >> /\ queue'[t][Len(queue'[t])] = "working"
    BY <2>2, Announcing
  <2>4. TaskTypes'
    BY <2>1, <2>3 DEF TaskTypes, T!Execute
  <2>5. Performed'
    BY <2>1 DEF Performed, TaskTypes, T!Execute
  <2>6. Truthful'
    BY <2>1, <2>2, <2>3 DEF Truthful, Announced, TaskTypes, T!Execute
  <2> QED BY <2>4, <2>5, <2>6
<1>2. CASE T!Refuse(t) \/ T!GetOrList(t) \/ T!CreateFlow(t) \/ T!Change(t) \/ T!CallFails(t)
  <2>1. /\ request[t] # Nil /\ UNCHANGED <<request, queue, taskState, answered>>
        /\ DOMAIN result' = Tasks /\ \A u \in Tasks \ {t} : result'[u] = result[u]
        /\ DOMAIN applied' = Tasks /\ \A u \in Tasks \ {t} : applied'[u] = applied[u]
        /\ result'[t] = "ok" => applied'[t] = request[t].action
    BY <1>2 DEF TaskTypes, T!Refuse, T!GetOrList, T!CreateFlow, T!Change, T!CallFails, T!Returned,
      T!Serve, T!Dispatching, T!Known, T!Reads, T!Writes, T!ClientAnswer
  <2> QED BY <2>1 DEF TaskTypes, Performed, Truthful, Announced
<1>3. CASE T!Finish(t)
  <2>1. PICK e \in TaskEvents : T!Events(t, <<e>>) /\ (e = "completed" => result[t] = "ok")
    BY <1>3 DEF T!Finish, TaskEvents
  <2>2. <<e>> \in Seq(TaskEvents) /\ <<e>> # << >> /\ <<e>>[Len(<<e>>)] = e
    OBVIOUS
  <2>3. /\ queue' \in [Tasks -> Seq(TaskEvents)] /\ \A u \in Tasks \ {t} : queue'[u] = queue[u]
        /\ queue'[t] # << >> /\ queue'[t][Len(queue'[t])] = e
    BY <2>1, <2>2, Announcing
  <2> QED BY <1>3, <2>1, <2>3 DEF TaskTypes, Performed, Truthful, Announced, T!Finish
<1>4. CASE T!Cancel(t)
  <2>1. <<"canceled">> \in Seq(TaskEvents) /\ <<"canceled">> # << >>
    BY DEF TaskEvents
  <2>2. queue' \in [Tasks -> Seq(TaskEvents)] /\ \A u \in Tasks \ {t} : queue'[u] = queue[u]
    BY <1>4, <2>1, Announcing DEF T!Cancel
  <2> QED BY <1>4, <2>2 DEF TaskTypes, Performed, Truthful, Announced, T!Cancel
<1>5. CASE T!Save(t)
  <2>1. queue' \in [Tasks -> Seq(TaskEvents)] /\ Announced(t)' = Announced(t)
    BY <1>5, QueueShrinks DEF TaskTypes, Announced, T!Save
  <2> QED BY <1>5, <2>1 DEF TaskTypes, Performed, Truthful, Announced, T!Save
<1> QED BY <1>1, <1>2, <1>3, <1>4, <1>5

----------------------------------------------------------------------------
(* Authentication.                                                         *)

LoginFields == {"pc", "server", "user", "pw", "i", "person", "bound"}

AuthTypes ==
  /\ now \in Nat /\ DOMAIN login = Browsers
  /\ \A b \in Browsers : login[b] = A!NoLogin \/ DOMAIN login[b] = LoginFields

\* Identities were proved in the past.
Past == \A v \in verified : v.at \in Nat /\ v.at <= now

\* A login that looks up the user's groups has checked the entry's password.
Checked ==
  \A b \in Browsers : login[b].pc = "groups" => login[b].bound = login[b].person

\* A token expires a validity after an identity was proved.
Issued ==
  \A k \in tokens : \E v \in verified : v.sub = k.sub /\ \E ttl \in A!Validities : k.exp = v.at + ttl

AuthInv == AuthTypes /\ Past /\ Checked /\ Issued /\ ServedAsLoggedIn

LEMMA AuthInitial == A!Init => AuthInv
  BY DEF A!Init, A!NoLogin, AuthInv, AuthTypes, Past, Checked, Issued, ServedAsLoggedIn, A!ServedAsLoggedIn

\* What IssueTokens adds is of the user, and valid from now.
LEMMA Issuing ==
  ASSUME NEW s, NEW user, NEW role, NEW k \in A!IssueTokens(s, user, role)
  PROVE  k \in tokens \/ (k.sub = user /\ \E ttl \in A!Validities : k.exp = now + ttl)
  BY DEF A!IssueTokens, A!Token

\* A step that neither lets time pass nor serves, proves at most identities
\* now, and issues tokens of identities it knows.
LEMMA Proving ==
  ASSUME AuthInv, now' = now, last' = last, verified \subseteq verified',
         \A v \in verified' : v \in verified \/ v.at = now,
         \A k \in tokens' : k \in tokens \/
           \E v \in verified' : v.sub = k.sub /\ v.at = now /\ \E ttl \in A!Validities : k.exp = now + ttl
  PROVE  Past' /\ Issued' /\ ServedAsLoggedIn'
  BY DEF AuthInv, AuthTypes, Past, Issued, ServedAsLoggedIn, A!ServedAsLoggedIn, A!Validities

\* Where a search leaves a login.
LEMMA Searching ==
  ASSUME AuthTypes, NEW b \in Browsers, A!SearchUser(b)
  PROVE  /\ DOMAIN login[b] = LoginFields
         /\ login'[b] = A!NoLogin \/ (DOMAIN login'[b] = LoginFields /\ login'[b].pc \in {"search", "bind"})
<1>1. login[b].pc = "search" /\ DOMAIN login[b] = LoginFields
  BY DEF AuthTypes, A!NoLogin, A!SearchUser
<1>2. \/ login'[b] = A!NoLogin
      \/ \E x : login'[b] = [login[b] EXCEPT !.i = x]
      \/ \E x : login'[b] = [login[b] EXCEPT !.pc = "bind", !.person = x]
  BY DEF AuthTypes, A!SearchUser, A!SetLogin
<1>3. ASSUME NEW x, login'[b] = [login[b] EXCEPT !.i = x]
      PROVE  DOMAIN login'[b] = LoginFields /\ login'[b].pc = "search"
  BY <1>1, <1>3 DEF LoginFields
<1>4. ASSUME NEW x, login'[b] = [login[b] EXCEPT !.pc = "bind", !.person = x]
      PROVE  DOMAIN login'[b] = LoginFields /\ login'[b].pc = "bind"
  BY <1>1, <1>4 DEF LoginFields
<1> QED BY <1>1, <1>2, <1>3, <1>4

LEMMA AuthInductive == AuthInv /\ A!Next => AuthInv'
<1> SUFFICES ASSUME AuthInv, A!Next PROVE AuthInv'
  OBVIOUS
<1> USE DEF AuthInv
<1>1. CASE A!Tick
  <2>1. now \in Nat /\ now' = now + 1 /\ UNCHANGED <<login, tokens, verified, last>>
    BY <1>1 DEF A!Tick, AuthTypes
  <2>2. Past'
    BY <2>1 DEF Past
  <2>3. Checked'
    BY <2>1 DEF Checked
  <2>4. AuthTypes' /\ Issued' /\ ServedAsLoggedIn'
    BY <2>1 DEF AuthTypes, Issued, ServedAsLoggedIn, A!ServedAsLoggedIn, A!Validities, A!NoLogin
  <2> QED BY <2>2, <2>3, <2>4
<1>2. CASE \E s \in Servers, path \in Paths, k \in tokens : A!Serve(s, path, k)
  <2>1. PICK s \in Servers, path \in Paths, k \in tokens : A!Serve(s, path, k)
    BY <1>2
  <2>2. UNCHANGED <<now, login, tokens, verified>> /\ now < k.exp /\ last'.sub = k.sub /\ last'.at = now
    BY <2>1 DEF A!Serve, A!Accepts
  <2>3. PICK v \in verified : v.sub = k.sub /\ \E ttl \in A!Validities : k.exp = v.at + ttl
    BY DEF Issued
  <2>4. ServedAsLoggedIn'
    BY <2>2, <2>3 DEF Past, ServedAsLoggedIn, A!ServedAsLoggedIn, A!Validities
  <2> QED BY <2>2, <2>4 DEF AuthTypes, Past, Checked, Issued, A!NoLogin, A!Validities
<1>3. CASE \E s \in Servers : A!Restart(s)
  <2>1. /\ UNCHANGED <<now, tokens, verified, last>> /\ DOMAIN login' = Browsers
        /\ \A b \in Browsers : login'[b] = A!NoLogin \/ login'[b] = login[b]
    BY <1>3 DEF A!Restart
  <2> QED BY <2>1 DEF AuthTypes, Past, Checked, Issued, A!NoLogin, A!Validities, ServedAsLoggedIn, A!ServedAsLoggedIn
<1>4. CASE \/ \E p \in People : (\E pw \in Passwords : A!ChangePassword(p, pw)) \/ \E g \in Groups : A!ChangeGroups(p, g)
          \/ \E b \in Browsers : \/ A!OidcLogin(b) \/ A!CookieExpires(b)
                               \/ \E c \in consents : A!CallbackFails(b, c)
  <2>1. UNCHANGED <<now, login, tokens, verified, last>>
    BY <1>4 DEF A!ChangePassword, A!ChangeGroups, A!OidcLogin, A!CookieExpires, A!CallbackFails
  <2> QED BY <2>1 DEF AuthTypes, Past, Checked, Issued, A!NoLogin, A!Validities, ServedAsLoggedIn, A!ServedAsLoggedIn
<1>5. CASE \E n \in 1..state, u \in Users, gives \in {"id_token", "userinfo", "nothing"} : A!Consent(n, u, gives)
  <2>1. UNCHANGED <<now, login, tokens, verified, last>>
    BY <1>5 DEF A!Consent
  <2> QED BY <2>1 DEF AuthTypes, Past, Checked, Issued, A!NoLogin, A!Validities, ServedAsLoggedIn, A!ServedAsLoggedIn
<1>6. ASSUME NEW b \in Browsers,
             \/ \E s \in Servers, u \in Users, pw \in Passwords : A!HandleLogin(b, s, u, pw)
             \/ A!SearchUser(b) \/ A!BindUser(b) \/ A!ResolveGroups(b)
      PROVE  AuthInv'
  <2>1. /\ now' = now /\ last' = last /\ DOMAIN login' = Browsers
        /\ \A d \in Browsers \ {b} : login'[d] = login[d]
    BY <1>6 DEF AuthTypes, A!HandleLogin, A!SearchUser, A!BindUser, A!ResolveGroups, A!SetLogin, A!LoginUnchanged
  <2>2. login'[b] = A!NoLogin \/ DOMAIN login'[b] = LoginFields
    <3>1. CASE \E s \in Servers, u \in Users, pw \in Passwords : A!HandleLogin(b, s, u, pw)
      BY <3>1 DEF AuthTypes, LoginFields, A!HandleLogin, A!SetLogin
    <3>2. CASE A!SearchUser(b)
      BY <3>2, Searching
    <3>3. CASE A!BindUser(b) \/ A!ResolveGroups(b)
      <4>1. DOMAIN login[b] = LoginFields
        BY <3>3 DEF AuthTypes, A!NoLogin, A!BindUser, A!ResolveGroups
      <4>2. DOMAIN [login[b] EXCEPT !.pc = "groups", !.bound = login[b].person] = LoginFields
        BY <4>1
      <4>3. login'[b] \in {A!NoLogin, [login[b] EXCEPT !.pc = "groups", !.bound = login[b].person]}
        BY <3>3 DEF AuthTypes, A!BindUser, A!ResolveGroups, A!SetLogin
      <4> QED BY <4>2, <4>3
    <3> QED BY <1>6, <3>1, <3>2, <3>3
  <2>3. /\ verified \subseteq verified' /\ \A v \in verified' : v \in verified \/ v.at = now
        /\ login'[b].pc = "groups" => login'[b].bound = login'[b].person
    <3>1. CASE \E s \in Servers, u \in Users, pw \in Passwords : A!HandleLogin(b, s, u, pw)
      BY <3>1 DEF AuthTypes, A!HandleLogin, A!SetLogin
    <3>2. CASE A!ResolveGroups(b)
      BY <3>2 DEF AuthTypes, A!NoLogin, A!ResolveGroups, A!SetLogin, A!Proved
    <3>3. CASE A!SearchUser(b)
      <4>1. verified' = verified
        BY <3>3 DEF A!SearchUser
      <4>2. login'[b].pc # "groups"
        BY <3>3, Searching DEF A!NoLogin
      <4> QED BY <4>1, <4>2
    <3>4. CASE A!BindUser(b)
      <4>1. DOMAIN login[b] = LoginFields
        BY <3>4 DEF AuthTypes, A!NoLogin, A!BindUser
      <4>2. CASE login'[b] = A!NoLogin /\ verified' = verified
        BY <4>2 DEF A!NoLogin
      <4>3. CASE login'[b] = [login[b] EXCEPT !.pc = "groups", !.bound = login[b].person] /\ verified' = verified
        BY <4>1, <4>3 DEF LoginFields
      <4> QED BY <3>4, <4>2, <4>3 DEF A!BindUser, A!SetLogin, AuthTypes
    <3> QED BY <1>6, <3>1, <3>2, <3>3, <3>4
  <2>4. \A k \in tokens' : k \in tokens \/
          \E v \in verified' : v.sub = k.sub /\ v.at = now /\ \E ttl \in A!Validities : k.exp = now + ttl
    <3>1. CASE tokens' = tokens
      BY <3>1
    <3>2. CASE A!ResolveGroups(b)
      <4> DEFINE w == [sub |-> A!BuildUserInfo(login[b].person, login[b].user), at |-> now]
      <4>1. w.sub = A!BuildUserInfo(login[b].person, login[b].user) /\ w.at = now
        OBVIOUS
      <4>2. w \in verified'
        BY <3>2 DEF A!ResolveGroups, Checked, A!Proved
      <4> HIDE DEF w
      <4> QED BY <3>2, <4>1, <4>2, Issuing DEF A!ResolveGroups
    <3> QED BY <1>6, <3>1, <3>2 DEF A!HandleLogin, A!SearchUser, A!BindUser
  <2>5. Past' /\ Issued' /\ ServedAsLoggedIn'
    BY <2>1, <2>3, <2>4, Proving
  <2>6. AuthTypes'
    BY <2>1, <2>2 DEF AuthTypes, A!NoLogin
  <2>7. Checked'
    BY <2>1, <2>3 DEF Checked
  <2> QED BY <2>5, <2>6, <2>7
<1>7. ASSUME NEW b \in Browsers, NEW c \in consents, NEW s \in Servers, A!HandleCallback(b, s, c)
      PROVE  AuthInv'
  <2>1. UNCHANGED <<now, login, last>>
    BY <1>7 DEF A!HandleCallback
  <2>2. PICK user, role :
          \/ UNCHANGED <<tokens, verified>>
          \/ tokens' = A!IssueTokens(s, user, role) /\ verified' = verified \union {[sub |-> user, at |-> now]}
    BY <1>7 DEF A!HandleCallback, A!LoggedIn, A!Proved
  <2>3. /\ verified \subseteq verified' /\ \A v \in verified' : v \in verified \/ v.at = now
        /\ \A k \in tokens' : k \in tokens \/
             \E v \in verified' : v.sub = k.sub /\ v.at = now /\ \E ttl \in A!Validities : k.exp = now + ttl
    <3>1. CASE UNCHANGED <<tokens, verified>>
      BY <3>1
    <3>2. CASE tokens' = A!IssueTokens(s, user, role) /\ verified' = verified \union {[sub |-> user, at |-> now]}
      <4>1. \A k \in tokens' : k \in tokens \/ (k.sub = user /\ \E ttl \in A!Validities : k.exp = now + ttl)
        BY <3>2, Issuing
      <4> DEFINE w == [sub |-> user, at |-> now]
      <4>2. w.sub = user /\ w.at = now
        OBVIOUS
      <4> HIDE DEF w
      <4>3. verified' = verified \union {w}
        BY <3>2 DEF w
      <4> QED BY <4>1, <4>2, <4>3
    <3> QED BY <2>2, <3>1, <3>2
  <2>4. Past' /\ Issued' /\ ServedAsLoggedIn'
    BY <2>1, <2>3, Proving
  <2> QED BY <2>1, <2>3, <2>4 DEF AuthTypes, Checked, A!NoLogin
<1> QED BY <1>1, <1>2, <1>3, <1>4, <1>5, <1>6, <1>7 DEF A!Next

----------------------------------------------------------------------------
(* Flow definitions.                                                       *)

RequestFields == {"op", "at", "flow", "spec", "todo", "evt"}
OneFlow == {"created", "updated", "got", "merging", "deleted", "resolved"}

\* A request being served: a run is asked for flows in todo, the others
\* concern one flow.
RequestOK(q) ==
  /\ DOMAIN q = RequestFields
  /\ q.op \in OneFlow \union {"idle", "asked"}
  /\ q.op # "idle" => q.at \in Servers
  /\ q.op \in OneFlow => q.flow \in Flows
  /\ q.todo \subseteq Flows /\ (q.op \notin {"asked", "resolved"} => q.todo = {})

FlowTypes ==
  /\ DOMAIN specs = Flows
  /\ DOMAIN cache = Servers /\ \A a \in Servers : DOMAIN cache[a] = Flows
  /\ DOMAIN served = Requests /\ \A c \in Requests : RequestOK(served[c])
  /\ tainted \subseteq Servers \X Flows

Clean(a, f) == <<a, f>> \notin tainted
Asks(f, evt) == evt # Nil => F!MatchesWebhookTrigger(F!GetSpec(f), evt)

\* What a request carries from one of its steps to the next is still so in
\* the table, as long as the flow is clean.
Fresh(q) ==
  /\ q.op \in {"created", "updated", "got", "resolved"} /\ Clean(q.at, q.flow) => q.spec = F!GetSpec(q.flow)
  /\ q.op = "deleted" /\ Clean(q.at, q.flow) => F!GetSpec(q.flow) = Nil
  /\ q.op = "resolved" /\ Clean(q.at, q.flow) => F!GetSpec(q.flow) # Nil /\ Asks(q.flow, q.evt)
  /\ q.op \in {"asked", "resolved"} =>
       \A f \in q.todo : Clean(q.at, f) /\ F!GetSpec(f) # Nil => Asks(f, q.evt)

AllFresh == \A c \in Requests : Fresh(served[c])

FlowInv == FlowTypes /\ AllFresh /\ CacheFollowsStore /\ RunReachesItsJobManager

LEMMA FlowInitial == F!Init => FlowInv
<1> SUFFICES ASSUME F!Init PROVE FlowInv
  OBVIOUS
<1>1. FlowTypes
  BY DEF F!Init, F!Idle, F!LoadFromDB, FlowTypes, RequestOK, RequestFields, OneFlow
<1>2. AllFresh
  BY DEF F!Init, F!Idle, AllFresh, Fresh
<1>3. CacheFollowsStore
  BY DEF F!Init, F!LoadFromDB, F!GetSpec, CacheFollowsStore, F!CacheFollowsStore
<1>4. RunReachesItsJobManager
  BY DEF F!Init, RunReachesItsJobManager, F!RunReachesItsJobManager
<1> QED BY <1>1, <1>2, <1>3, <1>4 DEF FlowInv

\* The handlers and the Controller derive the same namespace from a flow.
LEMMA SameNamespace == \A spec : F!ApplicationNamespace(spec) = F!ControllerNamespace(spec)
  BY DEF F!ApplicationNamespace, F!ControllerNamespace, F!Coalesce

\* A write of flow f through replica a by request c, which then stands as q
\* for what it wrote.
Commits(c, a, f, q) ==
  /\ served[c].op \in {"idle", "merging"} /\ served' = [served EXCEPT ![c] = q]
  /\ DOMAIN q = RequestFields /\ q.op \in {"created", "updated", "deleted"}
  /\ q.at = a /\ q.flow = f /\ q.todo = {}
  /\ DOMAIN specs' = Flows /\ \A g \in Flows \ {f} : F!GetSpec(g)' = F!GetSpec(g)
  /\ q.op # "deleted" => F!GetSpec(f)' = q.spec
  /\ q.op = "deleted" => F!GetSpec(f)' = Nil
  /\ F!Commit(c, a, f) /\ UNCHANGED <<cache, lastRun, missed>>

LEMMA Committing ==
  ASSUME FlowInv, NEW c \in Requests, NEW a \in Servers, NEW f \in Flows, NEW q, Commits(c, a, f, q)
  PROVE  FlowInv'
<1> USE DEF FlowInv, Commits
<1>1. /\ \A b \in Servers, g \in Flows : g # f /\ <<b, g>> \in tainted => <<b, g>> \in tainted'
      /\ \A b \in Servers \ {a} : <<b, f>> \in tainted'
      /\ (\E d \in Requests \ {c} : F!Serving(d, a, f)) => <<a, f>> \in tainted'
      /\ tainted' \subseteq Servers \X Flows
  BY DEF F!Commit, FlowTypes
<1>2. served'[c] = q /\ \A d \in Requests \ {c} : served'[d] = served[d]
  BY DEF FlowTypes
<1>3. FlowTypes'
  BY <1>1, <1>2 DEF FlowTypes, RequestOK, OneFlow
<1>4. ASSUME NEW d \in Requests PROVE Fresh(served[d])'
  <2>1. CASE d = c
    BY <1>2, <2>1 DEF Fresh
  <2>2. CASE d # c
    <3>1. \A g \in Flows : F!Serving(d, served[d].at, g) /\ served[d].at \in Servers /\ ~(<<served[d].at, g>> \in tainted')
            => g # f /\ Clean(served[d].at, g)
      BY <1>1, <2>2 DEF Clean
    <3>2. RequestOK(served[d]) /\ Fresh(served[d]) /\ served'[d] = served[d]
      BY <1>2, <2>2 DEF FlowTypes, AllFresh
    <3> QED BY <3>1, <3>2 DEF Fresh, RequestOK, OneFlow, Clean, Asks, F!Serving
  <2> QED BY <2>1, <2>2
<1>5. CacheFollowsStore'
  <2> SUFFICES ASSUME NEW b \in Servers, NEW g \in Flows, <<b, g>> \notin tainted', F!Pending(b, g)' = {}
               PROVE  cache'[b][g] = F!GetSpec(g)' \/ (<<b, g>> \in missed' /\ cache'[b][g] = Nil)
    BY DEF CacheFollowsStore, F!CacheFollowsStore
  <2>1. b = a => g # f
    BY <1>2 DEF F!Pending, F!Serving
  <2>2. g # f
    BY <1>1, <2>1
  <2>3. F!Pending(b, g) = {}
    BY <1>2 DEF F!Pending, F!Serving
  <2> QED BY <1>1, <2>2, <2>3 DEF CacheFollowsStore, F!CacheFollowsStore
<1>6. RunReachesItsJobManager'
  BY DEF RunReachesItsJobManager, F!RunReachesItsJobManager
<1> QED BY <1>3, <1>4, <1>5, <1>6 DEF AllFresh

\* A write of flow f that no replica follows up; at most a request that was
\* about to write ends with it.
Bypasses(f) ==
  /\ \/ UNCHANGED served
     \/ \E c \in Requests : served[c].op \in {"idle", "merging"} /\ F!Respond(c)
  /\ DOMAIN specs' = Flows /\ \A g \in Flows \ {f} : F!GetSpec(g)' = F!GetSpec(g)
  /\ F!GoPast(f) /\ UNCHANGED <<cache, lastRun, missed>>

LEMMA GoingPast ==
  ASSUME FlowInv, NEW f \in Flows, Bypasses(f)
  PROVE  FlowInv'
<1> USE DEF FlowInv, Bypasses
<1>1. /\ \A t \in tainted : t \in tainted'
      /\ \A b \in Servers : <<b, f>> \in tainted'
      /\ tainted' \subseteq Servers \X Flows
  BY DEF F!GoPast, FlowTypes
<1>2. /\ DOMAIN served' = Requests
      /\ \A d \in Requests :
           served'[d] = served[d] \/ (served'[d] = F!Idle /\ served[d].op \in {"idle", "merging"})
  BY DEF FlowTypes, F!Respond
<1>3. FlowTypes'
  BY <1>1, <1>2 DEF FlowTypes, RequestOK, RequestFields, OneFlow, F!Idle
<1>4. ASSUME NEW d \in Requests PROVE Fresh(served[d])'
  <2>1. CASE served'[d] = F!Idle
    BY <2>1 DEF Fresh, F!Idle
  <2>2. CASE served'[d] = served[d]
    <3>1. \A g \in Flows : served[d].at \in Servers /\ ~(<<served[d].at, g>> \in tainted')
            => g # f /\ Clean(served[d].at, g)
      BY <1>1 DEF Clean
    <3>2. RequestOK(served[d]) /\ Fresh(served[d])
      BY DEF FlowTypes, AllFresh
    <3> QED BY <2>2, <3>1, <3>2 DEF Fresh, RequestOK, OneFlow, Clean, Asks
  <2> QED BY <1>2, <2>1, <2>2
<1>5. CacheFollowsStore'
  <2> SUFFICES ASSUME NEW b \in Servers, NEW g \in Flows, <<b, g>> \notin tainted', F!Pending(b, g)' = {}
               PROVE  cache'[b][g] = F!GetSpec(g)' \/ (<<b, g>> \in missed' /\ cache'[b][g] = Nil)
    BY DEF CacheFollowsStore, F!CacheFollowsStore
  <2>1. g # f /\ <<b, g>> \notin tainted
    BY <1>1
  <2>2. F!Pending(b, g) = {}
    BY <1>2 DEF F!Pending, F!Serving
  <2> QED BY <2>1, <2>2 DEF CacheFollowsStore, F!CacheFollowsStore
<1>6. RunReachesItsJobManager'
  BY DEF RunReachesItsJobManager, F!RunReachesItsJobManager
<1> QED BY <1>3, <1>4, <1>5, <1>6 DEF AllFresh

Writing == {"created", "updated", "deleted"}

\* A step that only takes request c on, from and to an operation that has
\* nothing to write.
LEMMA Reading ==
  ASSUME FlowInv, NEW c \in Requests, NEW q, served' = [served EXCEPT ![c] = q],
         served[c].op \notin Writing, q.op \notin Writing, RequestOK(q), Fresh(q)',
         tainted \subseteq tainted', tainted' \subseteq Servers \X Flows,
         UNCHANGED <<specs, live, cache, missed>>, RunReachesItsJobManager'
  PROVE  FlowInv'
<1> USE DEF FlowInv
<1>1. served'[c] = q /\ \A d \in Requests \ {c} : served'[d] = served[d]
  BY DEF FlowTypes
<1>2. \A f : F!GetSpec(f)' = F!GetSpec(f)
  BY DEF F!GetSpec
<1>3. FlowTypes'
  BY <1>1 DEF FlowTypes, RequestOK
<1>4. ASSUME NEW d \in Requests PROVE Fresh(served[d])'
  BY <1>1, <1>2 DEF AllFresh, Fresh, Clean, Asks
<1>5. ASSUME NEW b \in Servers, NEW g \in Flows, F!Pending(b, g)' = {} PROVE F!Pending(b, g) = {}
  BY <1>1, <1>5 DEF F!Pending, F!Serving, Writing
<1>6. CacheFollowsStore'
  BY <1>2, <1>5 DEF CacheFollowsStore, F!CacheFollowsStore
<1> QED BY <1>3, <1>4, <1>6 DEF AllFresh

\* The end of a request that concerns one flow, with what it puts into the
\* copy of its replica.
LEMMA Responding ==
  ASSUME FlowInv, NEW c \in Requests, NEW spec, F!Respond(c),
         served[c].op \in Writing \union {"got"},
         spec = (IF served[c].op = "deleted" THEN Nil ELSE served[c].spec),
         cache' = [cache EXCEPT ![served[c].at][served[c].flow] = spec],
         UNCHANGED <<lastRun, tainted, missed, specs, live>>
  PROVE  FlowInv'
<1> USE DEF FlowInv
<1> DEFINE a == served[c].at
           f == served[c].flow
<1>1. a \in Servers /\ f \in Flows /\ served[c].todo = {}
  BY DEF FlowTypes, RequestOK, OneFlow, Writing
<1>2. /\ DOMAIN served' = Requests /\ served'[c] = F!Idle
      /\ \A d \in Requests \ {c} : served'[d] = served[d]
  BY DEF FlowTypes, F!Respond
<1>3. \A g : F!GetSpec(g)' = F!GetSpec(g)
  BY DEF F!GetSpec
<1>4. /\ DOMAIN cache' = Servers /\ \A b \in Servers : DOMAIN cache'[b] = Flows
      /\ cache'[a][f] = spec
      /\ \A b \in Servers, g \in Flows : b # a \/ g # f => cache'[b][g] = cache[b][g]
  BY <1>1 DEF FlowTypes
<1>5. Clean(a, f) => spec = F!GetSpec(f)
  BY DEF AllFresh, Fresh, Writing
<1>6. FlowTypes'
  BY <1>2, <1>4 DEF FlowTypes, RequestOK, RequestFields, OneFlow, F!Idle
<1>7. ASSUME NEW d \in Requests PROVE Fresh(served[d])'
  BY <1>2, <1>3 DEF AllFresh, Fresh, Clean, Asks, F!Idle
<1>8. ASSUME NEW b \in Servers, NEW g \in Flows, b # a \/ g # f, F!Pending(b, g)' = {} PROVE F!Pending(b, g) = {}
  BY <1>1, <1>2, <1>8 DEF F!Pending, F!Serving
<1>9. CacheFollowsStore'
  <2> SUFFICES ASSUME NEW b \in Servers, NEW g \in Flows, <<b, g>> \notin tainted', F!Pending(b, g)' = {}
               PROVE  cache'[b][g] = F!GetSpec(g)' \/ (<<b, g>> \in missed' /\ cache'[b][g] = Nil)
    BY DEF CacheFollowsStore, F!CacheFollowsStore
  <2>1. CASE b = a /\ g = f
    BY <1>3, <1>4, <1>5, <2>1 DEF Clean
  <2>2. CASE b # a \/ g # f
    BY <1>3, <1>4, <1>8, <2>2 DEF CacheFollowsStore, F!CacheFollowsStore
  <2> QED BY <2>1, <2>2
<1>10. RunReachesItsJobManager'
  BY DEF RunReachesItsJobManager, F!RunReachesItsJobManager
<1> QED BY <1>6, <1>7, <1>9, <1>10 DEF AllFresh

\* A replica comes back with the rows of the moment, and serves nobody.
LEMMA Restarting ==
  ASSUME FlowInv, NEW a \in Servers, F!Restart(a)
  PROVE  FlowInv'
<1> USE DEF FlowInv
<1>1. /\ DOMAIN served' = Requests
      /\ \A d \in Requests : served'[d] = F!Idle \/ (served'[d] = served[d] /\ served[d].at # a)
  BY DEF F!Restart
<1>2. \A g : F!GetSpec(g)' = F!GetSpec(g)
  BY DEF F!Restart, F!storeVars, F!GetSpec
<1>3. /\ tainted' \subseteq Servers \X Flows
      /\ \A b \in Servers \ {a}, g \in Flows : <<b, g>> \in tainted <=> <<b, g>> \in tainted'
  <2>1. tainted' = {t \in tainted : t[1] # a}
    BY DEF F!Restart
  <2> QED BY <2>1 DEF FlowTypes
<1>4. /\ DOMAIN cache' = Servers /\ \A b \in Servers : DOMAIN cache'[b] = Flows
      /\ \A g \in Flows : cache'[a][g] = F!GetSpec(g) \/ (<<a, g>> \in missed' /\ cache'[a][g] = Nil)
      /\ \A b \in Servers \ {a} : cache'[b] = cache[b]
      /\ \A b \in Servers \ {a}, g \in Flows : <<b, g>> \in missed => <<b, g>> \in missed'
  <2>1. PICK page : /\ cache' = [cache EXCEPT ![a] = F!LoadFromDB(page)]
                    /\ missed' = {m \in missed : m[1] # a} \union {<<a, f>> : f \in live \ page}
    BY DEF F!Restart
  <2>2. \A g \in Flows : F!LoadFromDB(page)[g] = F!GetSpec(g) \/ (g \in live \ page /\ F!LoadFromDB(page)[g] = Nil)
    BY DEF F!LoadFromDB, F!GetSpec
  <2>3. DOMAIN F!LoadFromDB(page) = Flows
    BY DEF F!LoadFromDB
  <2>4. \A b \in Servers, g \in Flows : b # a /\ <<b, g>> \in missed => <<b, g>> \in missed'
    BY <2>1
  <2> QED BY <2>1, <2>2, <2>3, <2>4 DEF FlowTypes
<1>5. FlowTypes'
  BY <1>1, <1>3, <1>4 DEF FlowTypes, RequestOK, RequestFields, OneFlow, F!Idle, F!Restart, F!storeVars
<1>6. ASSUME NEW d \in Requests PROVE Fresh(served[d])'
  <2>1. CASE served'[d] = F!Idle
    BY <2>1 DEF Fresh, F!Idle
  <2>2. CASE served'[d] = served[d] /\ served[d].at # a
    <3>1. RequestOK(served[d]) /\ Fresh(served[d])
      BY DEF FlowTypes, AllFresh
    <3> QED BY <1>2, <1>3, <2>2, <3>1 DEF Fresh, Clean, Asks, RequestOK, OneFlow
  <2> QED BY <1>1, <2>1, <2>2
<1>7. ASSUME NEW b \in Servers \ {a}, NEW g \in Flows, F!Pending(b, g)' = {} PROVE F!Pending(b, g) = {}
  <2> SUFFICES ASSUME NEW d \in Requests, F!Serving(d, b, g), served[d].op \in Writing PROVE FALSE
    BY DEF F!Pending, Writing
  <2>1. served'[d] = served[d]
    BY DEF F!Restart, F!Serving
  <2> QED BY <1>7, <2>1 DEF F!Pending, F!Serving, Writing
<1>8. CacheFollowsStore'
  <2> SUFFICES ASSUME NEW b \in Servers, NEW g \in Flows, <<b, g>> \notin tainted', F!Pending(b, g)' = {}
               PROVE  cache'[b][g] = F!GetSpec(g)' \/ (<<b, g>> \in missed' /\ cache'[b][g] = Nil)
    BY DEF CacheFollowsStore, F!CacheFollowsStore
  <2>1. CASE b = a
    BY <1>2, <1>4, <2>1
  <2>2. CASE b # a
    <3>1. <<b, g>> \notin tainted /\ F!Pending(b, g) = {}
      BY <1>3, <1>7, <2>2
    <3> QED BY <1>2, <1>4, <2>2, <3>1 DEF CacheFollowsStore, F!CacheFollowsStore
  <2> QED BY <2>1, <2>2
<1>9. RunReachesItsJobManager'
  BY DEF F!Restart, RunReachesItsJobManager, F!RunReachesItsJobManager
<1> QED BY <1>5, <1>6, <1>8, <1>9 DEF AllFresh

LEMMA FlowInductive == FlowInv /\ F!Next => FlowInv'
<1> SUFFICES ASSUME FlowInv, F!Next PROVE FlowInv'
  OBVIOUS
<1>0. /\ DOMAIN served = Requests /\ \A c \in Requests : RequestOK(served[c])
      /\ DOMAIN specs = Flows /\ tainted \subseteq Servers \X Flows
  BY DEF FlowInv, FlowTypes
<1>1. ASSUME NEW c \in Requests, NEW a \in Servers, NEW f \in Flows, NEW spec \in Specs, F!Create(c, a, f, spec)
      PROVE  FlowInv'
  <2>0. CASE F!Respond(c) /\ F!GoPast(f)
    <3>1. /\ served[c].op = "idle" /\ UNCHANGED <<cache, lastRun, missed>>
          /\ specs' = [specs EXCEPT ![f] = spec] /\ live' = live \union {f}
      BY <1>1 DEF F!Create, F!SaveSpec
    <3>2. DOMAIN specs' = Flows /\ \A g \in Flows \ {f} : F!GetSpec(g)' = F!GetSpec(g)
      BY <1>0, <3>1 DEF F!GetSpec
    <3> QED BY <2>0, <3>1, <3>2, GoingPast DEF Bypasses
  <2> SUFFICES ASSUME ~(F!Respond(c) /\ F!GoPast(f)) PROVE FlowInv'
    BY <2>0
  <2>1. PICK q : /\ q = [F!Idle EXCEPT !.op = "created", !.at = a, !.flow = f, !.spec = spec]
                 /\ served' = [served EXCEPT ![c] = q]
    BY <1>1 DEF F!Create
  <2>2. DOMAIN q = RequestFields /\ q.op = "created" /\ q.at = a /\ q.flow = f /\ q.spec = spec /\ q.todo = {}
    BY <2>1 DEF F!Idle, RequestFields
  <2>3. /\ served[c].op = "idle" /\ F!Commit(c, a, f) /\ UNCHANGED <<cache, lastRun, missed>>
        /\ specs' = [specs EXCEPT ![f] = spec] /\ live' = live \union {f}
    BY <1>1 DEF F!Create, F!SaveSpec
  <2>4. /\ DOMAIN specs' = Flows /\ \A g \in Flows \ {f} : F!GetSpec(g)' = F!GetSpec(g)
        /\ F!GetSpec(f)' = spec
    BY <1>0, <2>3 DEF F!GetSpec
  <2>5. Commits(c, a, f, q)
    BY <2>1, <2>2, <2>3, <2>4 DEF Commits
  <2> QED BY <2>5, Committing
<1>1b. ASSUME NEW c \in Requests, NEW a \in Servers, NEW f \in Flows, F!Delete(c, a, f)
      PROVE  FlowInv'
  <2>0. CASE F!Respond(c) /\ F!GoPast(f)
    <3>1. /\ served[c].op = "idle" /\ UNCHANGED <<cache, lastRun, missed>>
          /\ specs' = specs /\ live' = live \ {f}
      BY <1>1b DEF F!Delete, F!SoftDelete
    <3>2. DOMAIN specs' = Flows /\ \A g \in Flows \ {f} : F!GetSpec(g)' = F!GetSpec(g)
      BY <1>0, <3>1 DEF F!GetSpec
    <3> QED BY <2>0, <3>1, <3>2, GoingPast DEF Bypasses
  <2> SUFFICES ASSUME ~(F!Respond(c) /\ F!GoPast(f)) PROVE FlowInv'
    BY <2>0
  <2>1. PICK q : /\ q = [F!Idle EXCEPT !.op = "deleted", !.at = a, !.flow = f]
                 /\ served' = [served EXCEPT ![c] = q]
    BY <1>1b DEF F!Delete
  <2>2. DOMAIN q = RequestFields /\ q.op = "deleted" /\ q.at = a /\ q.flow = f /\ q.todo = {}
    BY <2>1 DEF F!Idle, RequestFields
  <2>3. /\ served[c].op = "idle" /\ F!Commit(c, a, f) /\ UNCHANGED <<cache, lastRun, missed>>
        /\ specs' = specs /\ live' = live \ {f}
    BY <1>1b DEF F!Delete, F!SoftDelete
  <2>4. /\ DOMAIN specs' = Flows /\ \A g \in Flows \ {f} : F!GetSpec(g)' = F!GetSpec(g)
        /\ F!GetSpec(f)' = Nil
    BY <1>0, <2>3 DEF F!GetSpec
  <2>5. Commits(c, a, f, q)
    BY <2>1, <2>2, <2>3, <2>4 DEF Commits
  <2> QED BY <2>5, Committing
<1>2. ASSUME NEW c \in Requests, F!UpdateSave(c) PROVE FlowInv'
  <2>0. served[c].op = "merging" /\ served[c].flow \in Flows /\ UNCHANGED <<cache, lastRun, missed>>
    BY <1>0, <1>2 DEF F!UpdateSave, RequestOK, OneFlow
  <2>a. CASE F!SaveSpec(served[c].flow, served[c].spec) /\ F!Respond(c) /\ F!GoPast(served[c].flow)
    <3>1. /\ specs' = [specs EXCEPT ![served[c].flow] = served[c].spec] /\ live' = live \union {served[c].flow}
      BY <2>a DEF F!SaveSpec
    <3>2. DOMAIN specs' = Flows /\ \A g \in Flows \ {served[c].flow} : F!GetSpec(g)' = F!GetSpec(g)
      BY <1>0, <2>0, <3>1 DEF F!GetSpec
    <3> QED BY <2>0, <2>a, <3>2, GoingPast DEF Bypasses
  <2>b. CASE F!Respond(c) /\ UNCHANGED <<tainted, F!storeVars>>
    <3>1. served' = [served EXCEPT ![c] = F!Idle] /\ UNCHANGED <<tainted, specs, live>>
      BY <2>b DEF F!Respond, F!storeVars
    <3>2. RequestOK(F!Idle) /\ Fresh(F!Idle)' /\ F!Idle.op = "idle"
      BY DEF RequestOK, RequestFields, OneFlow, Fresh, F!Idle
    <3>3. RunReachesItsJobManager'
      BY <2>0 DEF FlowInv, RunReachesItsJobManager, F!RunReachesItsJobManager
    <3> QED BY <1>0, <2>0, <3>1, <3>2, <3>3, Reading DEF Writing
  <2> SUFFICES ASSUME /\ F!SaveSpec(served[c].flow, served[c].spec)
                      /\ served' = [served EXCEPT ![c].op = "updated"]
                      /\ F!Commit(c, served[c].at, served[c].flow)
               PROVE  FlowInv'
    BY <1>2, <2>a, <2>b DEF F!UpdateSave
  <2>1. PICK q, a, f, spec :
          /\ q = [served[c] EXCEPT !.op = "updated"] /\ served' = [served EXCEPT ![c] = q]
          /\ a = served[c].at /\ f = served[c].flow /\ spec = served[c].spec
    BY <1>0
  <2>2. /\ served[c].op = "merging" /\ F!Commit(c, a, f) /\ UNCHANGED <<cache, lastRun, missed>>
        /\ specs' = [specs EXCEPT ![f] = spec] /\ live' = live \union {f}
    BY <2>0, <2>1 DEF F!SaveSpec
  <2>3. a \in Servers /\ f \in Flows /\ served[c].todo = {} /\ DOMAIN served[c] = RequestFields
    BY <1>0, <2>1, <2>2 DEF RequestOK, OneFlow
  <2>4. DOMAIN q = RequestFields /\ q.op = "updated" /\ q.at = a /\ q.flow = f /\ q.spec = spec /\ q.todo = {}
    BY <2>1, <2>3 DEF RequestFields
  <2>5. /\ DOMAIN specs' = Flows /\ \A g \in Flows \ {f} : F!GetSpec(g)' = F!GetSpec(g)
        /\ F!GetSpec(f)' = spec
    BY <1>0, <2>2, <2>3 DEF F!GetSpec
  <2>6. Commits(c, a, f, q)
    BY <2>1, <2>2, <2>3, <2>4, <2>5 DEF Commits
  <2> QED BY <2>3, <2>6, Committing
<1>3. ASSUME NEW c \in Requests, F!CacheWrite(c) \/ F!Populate(c) \/ F!Uncache(c) PROVE FlowInv'
  <2>1. served[c].op \in Writing \union {"got"} /\ F!Respond(c) /\ UNCHANGED <<lastRun, tainted, missed, specs, live>>
    BY <1>3 DEF F!CacheWrite, F!Populate, F!Uncache, F!storeVars, Writing
  <2>2. cache' = [cache EXCEPT ![served[c].at][served[c].flow] =
                    IF served[c].op = "deleted" THEN Nil ELSE served[c].spec]
    BY <1>3 DEF F!CacheWrite, F!Populate, F!Uncache
  <2> QED BY <2>1, <2>2, Responding
<1>4. ASSUME NEW c \in Requests, NEW a \in Servers, NEW f \in Flows,
             F!Get(c, a, f) \/ \E b \in Bodies : F!Update(c, a, f, b)
      PROVE  FlowInv'
  <2>0. PICK q, op, spec :
          /\ q = [F!Idle EXCEPT !.op = op, !.at = a, !.flow = f, !.spec = spec]
          /\ op = "merging" \/ (op = "got" /\ spec = F!GetSpec(f))
          /\ served' = [served EXCEPT ![c] = q]
    BY <1>4 DEF F!Get, F!Update
  <2>1. /\ DOMAIN q = RequestFields /\ q.op \in {"got", "merging"} /\ q.at = a /\ q.flow = f /\ q.todo = {}
        /\ q.op = "got" => q.spec = F!GetSpec(f)
    BY <2>0 DEF F!Idle, RequestFields
  <2>2. served[c].op = "idle" /\ UNCHANGED <<cache, lastRun, tainted, missed, specs, live>>
    BY <1>4 DEF F!Get, F!Update, F!storeVars
  <2>3. RequestOK(q) /\ Fresh(q)'
    BY <2>1, <2>2 DEF RequestOK, OneFlow, Fresh, Clean, F!GetSpec
  <2>4. RunReachesItsJobManager'
    BY <2>2 DEF FlowInv, RunReachesItsJobManager, F!RunReachesItsJobManager
  <2> QED BY <1>0, <2>0, <2>1, <2>2, <2>3, <2>4, Reading DEF Writing
<1>5. ASSUME NEW c \in Requests, NEW a \in Servers,
             (\E f \in Flows : F!Trigger(c, a, f)) \/ (\E d \in Deliveries : F!Webhook(c, a, d))
      PROVE  FlowInv'
  <2>1. PICK flows, evt :
          /\ flows \in SUBSET Flows /\ F!Ask(c, a, flows, evt)
          /\ evt # Nil => \A f \in flows : cache[a][f] # Nil /\ F!MatchesWebhookTrigger(cache[a][f], evt)
    <3>1. CASE \E f \in Flows : F!Trigger(c, a, f)
      BY <3>1 DEF F!Trigger
    <3>2. ASSUME NEW d \in Deliveries, F!Webhook(c, a, d)
          PROVE  \E flows, evt :
                   /\ flows \in SUBSET Flows /\ F!Ask(c, a, flows, evt)
                   /\ evt # Nil => \A f \in flows : cache[a][f] # Nil /\ F!MatchesWebhookTrigger(cache[a][f], evt)
      <4> DEFINE flows == {f \in Flows : cache[a][f] # Nil /\ F!MatchesWebhookTrigger(cache[a][f], F!EventOf(d))}
      <4>1. flows \in SUBSET Flows /\ F!Ask(c, a, flows, F!EventOf(d))
        BY <3>2 DEF F!Webhook
      <4>2. \A f \in flows : cache[a][f] # Nil /\ F!MatchesWebhookTrigger(cache[a][f], F!EventOf(d))
        OBVIOUS
      <4> HIDE DEF flows
      <4> QED BY <4>1, <4>2
    <3> QED BY <1>5, <3>1, <3>2
  <2>0. PICK q : /\ q = [F!Idle EXCEPT !.op = "asked", !.at = a, !.todo = flows, !.evt = evt]
                 /\ served' = [served EXCEPT ![c] = q]
    BY <2>1 DEF F!Ask
  <2>2. DOMAIN q = RequestFields /\ q.op = "asked" /\ q.at = a /\ q.todo = flows /\ q.evt = evt
    BY <2>0 DEF F!Idle, RequestFields
  <2>3. /\ served[c].op = "idle" /\ UNCHANGED <<cache, lastRun, missed, specs, live>>
        /\ tainted \subseteq tainted' /\ tainted' \subseteq Servers \X Flows
        /\ \A f \in flows : F!Pending(a, f) # {} => <<a, f>> \in tainted'
    BY <1>0, <2>1 DEF F!Ask, F!storeVars
  <2>4. \A f \in flows : <<a, f>> \notin tainted' => cache[a][f] \in {F!GetSpec(f), Nil}
    BY <2>1, <2>3 DEF FlowInv, CacheFollowsStore, F!CacheFollowsStore
  <2>5. \A f : F!GetSpec(f)' = F!GetSpec(f)
    BY <2>3 DEF F!GetSpec
  <2>6. RequestOK(q) /\ Fresh(q)'
    BY <2>1, <2>2, <2>4, <2>5 DEF RequestOK, OneFlow, Fresh, Clean, Asks
  <2>7. RunReachesItsJobManager'
    BY <2>3 DEF FlowInv, RunReachesItsJobManager, F!RunReachesItsJobManager
  <2> QED BY <1>0, <2>0, <2>2, <2>3, <2>6, <2>7, Reading DEF Writing
<1>6. ASSUME NEW c \in Requests, NEW f \in Flows, F!Resolve(c, f) PROVE FlowInv'
  <2>1. PICK a, spec, q :
          /\ a = served[c].at /\ spec = (IF cache[a][f] # Nil THEN cache[a][f] ELSE F!GetSpec(f))
          /\ q = [served[c] EXCEPT !.op = IF spec = Nil THEN "asked" ELSE "resolved",
                                   !.flow = IF spec = Nil THEN Nil ELSE f, !.spec = spec, !.todo = @ \ {f}]
          /\ served' = [served EXCEPT ![c] = q]
    BY <1>0, <1>6 DEF F!Resolve
  <2>2. /\ served[c].op = "asked" /\ f \in served[c].todo /\ UNCHANGED <<cache, lastRun, missed, specs, live>>
        /\ tainted' = tainted \union {<<a, f>> : d \in F!Pending(a, f)}
    BY <1>6, <2>1 DEF F!Resolve, F!storeVars
  <2>3. a \in Servers /\ DOMAIN served[c] = RequestFields /\ served[c].todo \subseteq Flows
    BY <1>0, <2>1, <2>2 DEF RequestOK
  <2>4. /\ DOMAIN q = RequestFields /\ q.at = a /\ q.evt = served[c].evt /\ q.spec = spec
        /\ q.todo = served[c].todo \ {f}
        /\ spec = Nil => q.op = "asked"
        /\ spec # Nil => q.op = "resolved" /\ q.flow = f
    BY <2>1, <2>3 DEF RequestFields
  <2>5. <<a, f>> \notin tainted' => spec = F!GetSpec(f)
    BY <2>1, <2>2, <2>3 DEF FlowInv, CacheFollowsStore, F!CacheFollowsStore
  <2>6. \A g : F!GetSpec(g)' = F!GetSpec(g)
    BY <2>2 DEF F!GetSpec
  <2>7. tainted \subseteq tainted' /\ tainted' \subseteq Servers \X Flows
    BY <1>0, <2>2, <2>3
  <2>8. Fresh(served[c])
    BY DEF FlowInv, AllFresh
  <2>9. RequestOK(q)
    BY <2>3, <2>4 DEF RequestOK, OneFlow
  <2>10. Fresh(q)'
    <3>1. \A g \in served[c].todo : <<a, g>> \notin tainted' /\ F!GetSpec(g) # Nil => Asks(g, served[c].evt)
      BY <2>1, <2>2, <2>7, <2>8 DEF Fresh, Clean
    <3>2. \A g \in served[c].todo : <<a, g>> \notin tainted' /\ F!GetSpec(g)' # Nil => Asks(g, q.evt)'
      BY <2>4, <2>6, <3>1 DEF Asks
    <3> QED BY <2>2, <2>4, <2>5, <2>6, <3>2 DEF Fresh, Clean
  <2>11. RunReachesItsJobManager'
    BY <2>2 DEF FlowInv, RunReachesItsJobManager, F!RunReachesItsJobManager
  <2>12. served[c].op \notin Writing /\ q.op \notin Writing
    BY <2>2, <2>4 DEF Writing
  <2> QED BY <2>1, <2>2, <2>7, <2>9, <2>10, <2>11, <2>12, Reading
<1>7. ASSUME NEW c \in Requests, F!CreateRun(c) PROVE FlowInv'
  <2>0. PICK q : /\ q = [served[c] EXCEPT !.op = "asked", !.flow = Nil, !.spec = Nil]
                 /\ served' = [served EXCEPT ![c] = q]
    BY <1>0, <1>7 DEF F!CreateRun
  <2>1. served[c].op = "resolved" /\ UNCHANGED <<cache, tainted, missed, specs, live>>
    BY <1>7 DEF F!CreateRun, F!storeVars
  <2>2. served[c].at \in Servers /\ DOMAIN served[c] = RequestFields /\ served[c].todo \subseteq Flows
    BY <1>0, <2>1 DEF RequestOK
  <2>3. /\ DOMAIN q = RequestFields /\ q.op = "asked" /\ q.at = served[c].at /\ q.evt = served[c].evt
        /\ q.todo = served[c].todo
    BY <2>0, <2>2 DEF RequestFields
  <2>4. Fresh(served[c])
    BY DEF FlowInv, AllFresh
  <2>5. RequestOK(q) /\ Fresh(q)'
    <3>1. \A g : F!GetSpec(g)' = F!GetSpec(g)
      BY <2>1 DEF F!GetSpec
    <3> QED BY <2>1, <2>2, <2>3, <2>4, <3>1 DEF RequestOK, OneFlow, Fresh, Clean, Asks
  <2>6. RunReachesItsJobManager'
    <3>1. Clean(served[c].at, served[c].flow)
            => F!Wanted(served[c].flow, served[c].evt) = F!ControllerNamespace(served[c].spec)
      BY <2>1, <2>4 DEF Fresh, Asks, F!Wanted
    <3>2. CASE UNCHANGED lastRun
      BY <3>2 DEF FlowInv, RunReachesItsJobManager, F!RunReachesItsJobManager
    <3>3. CASE ~UNCHANGED lastRun
      <4>1. lastRun' = [flow |-> served[c].flow, namespace |-> F!ApplicationNamespace(served[c].spec),
                        wanted |-> F!Wanted(served[c].flow, served[c].evt),
                        clean |-> <<served[c].at, served[c].flow>> \notin tainted]
        BY <1>7, <3>3 DEF F!CreateRun
      <4> QED BY <3>1, <4>1, SameNamespace DEF Clean, RunReachesItsJobManager, F!RunReachesItsJobManager
    <3> QED BY <3>2, <3>3
  <2>7. served[c].op \notin Writing /\ q.op \notin Writing
    BY <2>1, <2>3 DEF Writing
  <2> QED BY <1>0, <2>0, <2>1, <2>5, <2>6, <2>7, Reading
<1>8. ASSUME NEW c \in Requests, F!Asked(c) PROVE FlowInv'
  <2>1. /\ served[c].op = "asked" /\ UNCHANGED <<cache, lastRun, tainted, missed, specs, live>>
        /\ served' = [served EXCEPT ![c] = F!Idle]
    BY <1>8 DEF F!Asked, F!Respond, F!storeVars
  <2>2. RequestOK(F!Idle) /\ Fresh(F!Idle)' /\ F!Idle.op = "idle"
    BY DEF RequestOK, RequestFields, OneFlow, Fresh, F!Idle
  <2>3. RunReachesItsJobManager'
    BY <2>1 DEF FlowInv, RunReachesItsJobManager, F!RunReachesItsJobManager
  <2> QED BY <1>0, <2>1, <2>2, <2>3, Reading DEF Writing
<1>9. ASSUME NEW f \in Flows, F!ConsoleRemove(f) \/ \E spec \in Specs : F!ConsoleSave(f, spec) PROVE FlowInv'
  <2>1. F!GoPast(f) /\ UNCHANGED <<cache, served, lastRun, missed>>
    BY <1>9 DEF F!ConsoleRemove, F!ConsoleSave
  <2>2. \/ specs' = specs /\ live' = live \ {f}
        \/ \E spec \in Specs : specs' = [specs EXCEPT ![f] = spec] /\ live' = live \union {f}
    BY <1>9 DEF F!ConsoleRemove, F!ConsoleSave, F!SoftDelete, F!SaveSpec
  <2>3. DOMAIN specs' = Flows /\ \A g \in Flows \ {f} : F!GetSpec(g)' = F!GetSpec(g)
    BY <1>0, <2>2 DEF F!GetSpec
  <2> QED BY <2>1, <2>3, GoingPast DEF Bypasses
<1> QED BY <1>1, <1>1b, <1>2, <1>3, <1>4, <1>5, <1>6, <1>7, <1>8, <1>9, Restarting DEF F!Next

----------------------------------------------------------------------------
(* The executors.                                                          *)

Answers == {"error", "garbage", "misfit", "good", "", "content", "toolError", "output", "err"} \union Actions
Phases == {"idle", "route", "agent", "ask", "decide", "client", "connect", "call", "human", "sandbox",
           "executed", "returned", "lost"}

ExecutorTypes ==
  /\ phase \in [Executions -> Phases] /\ asked \in [Executions -> Seq(Answers)]
  /\ DOMAIN plan = Executions /\ DOMAIN ret = Executions /\ DOMAIN task = Executions
  /\ DOMAIN reply = Executions /\ DOMAIN approvals = Executions

\* Where a call is says which executor runs it and what that one has heard:
\* an agent only answers that do not fit, the others nothing yet.
Underway(c) ==
  LET p == plan[c] h == asked[c]
  IN /\ phase[c] # "idle" => p \in Plans
     /\ phase[c] \notin {"ask", "executed", "returned", "lost"} => h = << >>
     /\ phase[c] = "agent" => p.type \in {"agent", "supervisor"}
     /\ phase[c] = "ask" => p.type = "agent" /\ Len(h) <= MaxRetries /\ \A i \in 1 .. Len(h) : ~X!Fits(p, h[i])
     /\ phase[c] = "decide" => p.type = "supervisor"
     /\ phase[c] \in {"client", "connect", "call"} => p.type = "tool"
     /\ phase[c] \in {"connect", "call"} => p.tool \in X!Enabled
     /\ phase[c] \in {"human", "sandbox"} => p.type = phase[c]

\* What an executor returned, against what it heard.
Outcome(c) ==
  LET p == plan[c] h == asked[c]
  IN /\ ret[c].kind \in {"output", "error", "err"}
     /\ ret[c].kind = "output" => X!Entitled(c)
     /\ ret[c].kind = "error" => p.type = "sandbox" /\ h = <<"error">>
     /\ ret[c].kind = "err" /\ p.type = "agent" => Len(h) \in {0, MaxRetries + 1}
     /\ p.type = "committee" => ret[c].out = X!Carried(p)

\* What is reported and stored, against what was returned.
Concluded(c) ==
  LET dropped == local /\ ret[c].kind = "error"
  IN /\ phase[c] = "executed" => Outcome(c)
     /\ phase[c] # "returned" => task[c] = Nil /\ reply[c] = Nil
     /\ reply[c] \in {"SUCCESS", "FAILED"} =>
          /\ Outcome(c)
          /\ reply[c] = "SUCCESS" => ret[c].kind = "output" \/ dropped
          /\ reply[c] = "FAILED" => ret[c].kind # "output"
          /\ task[c] # Nil => task[c] = reply[c] \/ dropped

CallInv(c) == Underway(c) /\ Concluded(c)
CallsInv == ExecutorTypes /\ \A c \in Executions : CallInv(c)

\* Only servers that are switched on are known.
Switched == defs \subseteq X!Enabled /\ clients \subseteq X!Enabled

ExecutorInv == CallsInv /\ Switched

LEMMA CallsInitial == X!Init => CallsInv
<1> SUFFICES ASSUME X!Init PROVE CallsInv
  OBVIOUS
<1>1. ExecutorTypes
  <2>1. /\ phase = [c \in Executions |-> "idle"] /\ asked = [c \in Executions |-> << >>]
        /\ DOMAIN plan = Executions /\ DOMAIN ret = Executions /\ DOMAIN task = Executions
        /\ DOMAIN reply = Executions /\ DOMAIN approvals = Executions
    BY DEF X!Init
  <2> QED BY <2>1 DEF ExecutorTypes, Phases
<1>2. ASSUME NEW c \in Executions PROVE CallInv(c)
  <2>1. phase[c] = "idle" /\ asked[c] = << >> /\ task[c] = Nil /\ reply[c] = Nil
    BY DEF X!Init
  <2> QED BY <2>1, NilAssumption DEF CallInv, Underway, Concluded
<1> QED BY <1>1, <1>2 DEF CallsInv

\* A call keeps its invariant while others connect servers, store approvals
\* and return.
LEMMA CallKept ==
  ASSUME NEW c \in Executions, CallInv(c), local' = local,
         phase'[c] = phase[c], plan'[c] = plan[c], asked'[c] = asked[c], ret'[c] = ret[c],
         task'[c] = task[c], reply'[c] = reply[c], approvals[c] # Nil => approvals'[c] # Nil
  PROVE  CallInv(c)'
<1>1. X!Entitled(c) => X!Entitled(c)'
  BY DEF X!Entitled
<1>2. Outcome(c) => Outcome(c)'
  BY <1>1 DEF Outcome
<1>3. Underway(c)'
  BY DEF CallInv, Underway
<1>4. Concluded(c)'
  BY <1>2 DEF CallInv, Concluded
<1> QED BY <1>3, <1>4 DEF CallInv

\* The votes for and against are all votes.
LEMMA Voting ==
  ASSUME NEW p \in Plans, p.type = "committee"
  PROVE  X!Committee(p) = X!Carried(p)
<1> DEFINE v == p.votes
           for == {i \in DOMAIN v : v[i] = "yes"}
           against == DOMAIN v \ for
           n == Len(v)
<1>1. v \in Seq({"yes", "no", "junk"})
  BY PlansAssumption
<1>2. n \in Nat /\ DOMAIN v = 1 .. n
  BY <1>1
<1>3. IsFiniteSet(1 .. n) /\ Cardinality(1 .. n) = n
  BY <1>2, FS_Interval
<1>4. IsFiniteSet(for) /\ IsFiniteSet(against)
  BY <1>2, <1>3, FS_Subset
<1>5. Cardinality(for) \in Nat /\ Cardinality(against) \in Nat
  BY <1>4, FS_CardinalityType
<1>6. Cardinality(for) + Cardinality(against) = n
  <2>1. for \cap against = {} /\ for \cup against = 1 .. n
    BY <1>2
  <2> HIDE DEF for, against, n
  <2>2. Cardinality({}) = 0
    BY FS_EmptySet
  <2>3. Cardinality(for \cup against) = Cardinality(for) + Cardinality(against) - Cardinality(for \cap against)
    BY <1>4, FS_Union
  <2>4. Cardinality(for \cap against) = 0 /\ Cardinality(for \cup against) = n
    BY <2>1, <2>2, <1>3
  <2> QED BY <2>3, <2>4, <1>2, <1>5
<1>7. (Cardinality(for) = 0 <=> for = {}) /\ (Cardinality(against) = 0 <=> against = {})
  BY <1>4, FS_EmptySet
<1>8. \A S : X!Cardinality(S) = Cardinality(S)
  BY DEF X!Cardinality, Cardinality
<1>9. X!Carried(p) = CASE p.strategy = "unanimous" -> against = {}
                       [] p.strategy = "any" -> for # {}
                       [] p.strategy = "majority_strict" -> Cardinality(for) + 2 >= 2 * Cardinality(against)
                       [] OTHER -> Cardinality(for) > Cardinality(against)
  BY <1>8 DEF X!Carried
<1>10. X!Committee(p) = CASE p.strategy = "unanimous" -> Cardinality(for) = n
                          [] p.strategy = "any" -> Cardinality(for) >= 1
                          [] p.strategy = "majority_strict" -> Cardinality(for) >= (n * 2) \div 3
                          [] OTHER -> Cardinality(for) > n \div 2
  BY <1>8 DEF X!Committee
<1>11. /\ Cardinality(for) = n <=> against = {}
       /\ Cardinality(for) >= 1 <=> for # {}
       /\ Cardinality(for) >= (n * 2) \div 3 <=> Cardinality(for) + 2 >= 2 * Cardinality(against)
       /\ Cardinality(for) > n \div 2 <=> Cardinality(for) > Cardinality(against)
  <2> HIDE DEF for, against, n
  <2> QED BY <1>2, <1>5, <1>6, <1>7
<1> HIDE DEF for, against, n
<1> QED BY <1>9, <1>10, <1>11

\* One lemma per part of the way of a call: all other calls keep theirs.
LEMMA OneCall ==
  ASSUME CallsInv, NEW c \in Executions, local' = local,
         \A d \in Executions \ {c} :
           /\ phase'[d] = phase[d] /\ plan'[d] = plan[d] /\ asked'[d] = asked[d] /\ ret'[d] = ret[d]
           /\ task'[d] = task[d] /\ reply'[d] = reply[d] /\ approvals'[d] = approvals[d],
         ExecutorTypes', CallInv(c)'
  PROVE  CallsInv'
<1>1. ASSUME NEW d \in Executions \ {c} PROVE CallInv(d)'
  BY CallKept DEF CallsInv
<1> QED BY <1>1 DEF CallsInv

LEMMA FirstAnswer ==
  ASSUME NEW S, NEW a \in S
  PROVE  /\ <<a>> \in Seq(S) /\ <<a>> # << >> /\ <<a>>[1] = a /\ <<a>>[Len(<<a>>)] = a
         /\ Append(<< >>, a) = <<a>>
<1>1. <<a>> \in Seq(S) /\ <<a>> # << >> /\ <<a>>[1] = a /\ Len(<<a>>) = 1
  OBVIOUS
<1>2. Append(<< >>, a) = <<a>>
  OBVIOUS
<1>3. <<a>>[Len(<<a>>)] = a
  BY <1>1
<1> QED BY <1>1, <1>2, <1>3

\* What the end of an executor comes to.
LEMMA Returning ==
  ASSUME CallsInv, NEW c \in Executions, phase[c] \notin {"idle", "executed", "returned"},
         NEW kind, NEW out, X!Return(c, kind, out),
         local' = local, plan' = plan, task' = task, reply' = reply,
         asked' \in [Executions -> Seq(Answers)], \A d \in Executions \ {c} : asked'[d] = asked[d],
         DOMAIN approvals' = Executions, \A d \in Executions \ {c} : approvals'[d] = approvals[d],
         Outcome(c)'
  PROVE  CallsInv'
<1> USE DEF CallsInv
<1>1. /\ phase' = [phase EXCEPT ![c] = "executed"]
      /\ ret' = [ret EXCEPT ![c] = [kind |-> kind, out |-> out]]
  BY DEF X!Return, X!Goto
<1>2. ExecutorTypes'
  BY <1>1 DEF ExecutorTypes, Phases
<1>3. phase'[c] = "executed" /\ plan[c] \in Plans /\ task[c] = Nil /\ reply[c] = Nil
  BY <1>1 DEF ExecutorTypes, CallInv, Underway, Concluded
<1>4. Underway(c)'
  BY <1>3 DEF Underway
<1>5. Concluded(c)'
  BY <1>3, NilAssumption DEF Concluded
<1>6. \A d \in Executions \ {c} : phase'[d] = phase[d] /\ ret'[d] = ret[d]
  BY <1>1 DEF ExecutorTypes
<1> QED BY <1>2, <1>4, <1>5, <1>6, OneCall DEF CallInv

LEMMA CallsInductive == ExecutorInv /\ X!Next => CallsInv'
<1> SUFFICES ASSUME CallsInv, Switched, NEW c \in Executions,
                    \/ \E p \in Plans : X!Schedule(c, p)
                    \/ X!Route(c) \/ X!GetAgent(c) \/ X!Ask(c) \/ X!Decide(c) \/ X!Panic(c) \/ X!GetClient(c)
                    \/ X!Connect(c) \/ X!CallTool(c) \/ X!CreateApproval(c) \/ X!Approve(c)
                    \/ X!Reject(c) \/ X!Sandbox(c) \/ X!ExecutePlan(c) \/ X!Report(c)
             PROVE  CallsInv'
  BY DEF X!Next, ExecutorInv
<1>t. ExecutorTypes /\ CallInv(c)
  BY DEF CallsInv
<1>1. ASSUME NEW p \in Plans, X!Schedule(c, p) PROVE CallsInv'
  <2> USE <1>t, <1>1 DEF X!Schedule, X!Goto, X!tables, ExecutorTypes
  <2>1. ExecutorTypes'
    BY DEF Phases
  <2>2. /\ plan'[c] = p /\ asked'[c] = << >> /\ task'[c] = Nil
        /\ \/ phase'[c] = "returned" /\ reply'[c] = "refused"
           \/ phase'[c] = "route" /\ reply'[c] = Nil
    BY DEF CallInv, Underway, Concluded
  <2>3. CallInv(c)'
    BY <2>2, NilAssumption DEF CallInv, Underway, Concluded
  <2> QED BY <2>1, <2>3, OneCall
<1>2. CASE X!Route(c)
  <2> DEFINE p == plan[c]
  <2> USE <1>t, <1>2
  <2>1. phase[c] = "route" /\ p \in Plans /\ asked[c] = << >> /\ task[c] = Nil /\ reply[c] = Nil
    BY DEF CallInv, Underway, Concluded, X!Route
  <2>2. UNCHANGED <<local, clients, plan, asked, task, reply, approvals>>
    BY DEF X!Route, X!tables
  <2>3. ASSUME NEW to \in {"agent", "client", "human", "sandbox"}, X!Goto(c, to), UNCHANGED ret,
               to = "agent" => p.type \in {"agent", "supervisor"}, to = "client" => p.type = "tool",
               to \in {"human", "sandbox"} => p.type = to
        PROVE  CallsInv'
    <3>1. ExecutorTypes'
      BY <2>2, <2>3 DEF ExecutorTypes, X!Goto, Phases
    <3>2. phase'[c] = to
      BY <2>3 DEF X!Goto, ExecutorTypes
    <3>3. CallInv(c)'
      BY <2>1, <2>2, <2>3, <3>2, NilAssumption DEF CallInv, Underway, Concluded
    <3> QED BY <2>2, <2>3, <3>1, <3>3, OneCall DEF X!Goto, ExecutorTypes
  <2>4. ASSUME NEW out, X!Succeed(c, out),
               p.type \notin {"agent", "supervisor", "tool", "sandbox", "human"},
               p.type = "committee" => out = X!Carried(p)
        PROVE  CallsInv'
    <3>1. X!Return(c, "output", out) /\ ret'[c] = [kind |-> "output", out |-> out]
      BY <2>4 DEF X!Succeed, X!Return, ExecutorTypes
    <3>2. Outcome(c)'
      BY <2>2, <2>4, <3>1 DEF Outcome, X!Entitled
    <3> QED BY <2>1, <2>2, <3>1, <3>2, Returning DEF ExecutorTypes
  <2>5. ASSUME X!Fail(c), p.type \notin {"agent", "committee"} PROVE CallsInv'
    <3>1. X!Return(c, "err", Nil) /\ ret'[c].kind = "err"
      BY <2>5 DEF X!Fail, X!Return, ExecutorTypes
    <3>2. Outcome(c)'
      BY <2>2, <2>5, <3>1 DEF Outcome
    <3> QED BY <2>1, <2>2, <3>1, <3>2, Returning DEF ExecutorTypes
  <2>6. CASE p.type \in {"agent", "supervisor"}
    BY <2>3, <2>6 DEF X!Route
  <2>7. CASE p.type = "tool"
    BY <2>3, <2>7 DEF X!Route
  <2>8. CASE p.type \in {"human", "sandbox"}
    BY <2>3, <2>8 DEF X!Route
  <2>9. CASE p.type = "condition"
    BY <2>4, <2>9 DEF X!Route
  <2>10. CASE p.type = "committee"
    BY <2>1, <2>4, <2>10, Voting DEF X!Route
  <2>11. CASE p.type \in {"map", "join", "subflow", "skill", "noop"}
    BY <2>4, <2>11 DEF X!Route
  <2>12. CASE p.type \notin {"agent", "supervisor", "tool", "human", "sandbox", "condition", "committee",
                             "map", "join", "subflow", "skill", "noop"}
    BY <2>5, <2>12 DEF X!Route
  <2> QED BY <2>6, <2>7, <2>8, <2>9, <2>10, <2>11, <2>12
<1>3. CASE X!GetAgent(c)
  <2> USE <1>t, <1>3
  <2>1. /\ phase[c] = "agent" /\ plan[c] \in Plans /\ plan[c].type \in {"agent", "supervisor"}
        /\ asked[c] = << >> /\ task[c] = Nil /\ reply[c] = Nil
    BY DEF CallInv, Underway, Concluded, X!GetAgent
  <2>2. UNCHANGED <<local, clients, plan, asked, task, reply, approvals>>
    BY DEF X!GetAgent, X!tables
  <2>3. CASE X!Fail(c)
    <3>1. X!Return(c, "err", Nil) /\ ret'[c].kind = "err"
      BY <2>3 DEF X!Fail, X!Return, ExecutorTypes
    <3>2. Outcome(c)'
      BY <2>1, <2>2, <3>1 DEF Outcome
    <3> QED BY <2>1, <2>2, <3>1, <3>2, Returning DEF ExecutorTypes
  <2>4. CASE X!Goto(c, IF plan[c].type = "agent" THEN "ask" ELSE "decide") /\ UNCHANGED ret
    <3>1. ExecutorTypes'
      BY <2>2, <2>4 DEF ExecutorTypes, X!Goto, Phases
    <3>2. phase'[c] = IF plan[c].type = "agent" THEN "ask" ELSE "decide"
      BY <2>4 DEF X!Goto, ExecutorTypes
    <3>3. CallInv(c)'
      BY <2>1, <2>2, <2>4, <3>2, NilAssumption, RetriesAssumption DEF CallInv, Underway, Concluded
    <3> QED BY <2>2, <2>4, <3>1, <3>3, OneCall DEF X!Goto, ExecutorTypes
  <2> QED BY <2>3, <2>4 DEF X!GetAgent
<1>4. CASE X!Ask(c)
  <2> DEFINE p == plan[c]
             h == asked[c]
  <2> USE <1>t, <1>4
  <2>1. /\ phase[c] = "ask" /\ p \in Plans /\ p.type = "agent" /\ task[c] = Nil /\ reply[c] = Nil
        /\ h \in Seq(Answers) /\ Len(h) <= MaxRetries /\ \A i \in 1 .. Len(h) : ~X!Fits(p, h[i])
    BY DEF CallInv, Underway, Concluded, X!Ask, ExecutorTypes
  <2>2. UNCHANGED <<local, clients, plan, task, reply, approvals>>
    BY DEF X!Ask, X!tables
  <2>3. PICK answer \in {"garbage", "misfit", "good", "error"} :
          /\ X!Hear(c, answer)
          /\ CASE X!Fits(p, answer) -> X!Succeed(c, TRUE)
               [] ~X!Fits(p, answer) /\ Len(h) = MaxRetries -> X!Fail(c)
               [] OTHER -> UNCHANGED <<phase, ret>>
    BY DEF X!Ask, X!Generate
  <2>4. /\ asked' = [asked EXCEPT ![c] = Append(h, answer)] /\ asked'[c] = Append(h, answer)
        /\ asked' \in [Executions -> Seq(Answers)]
    <3>1. answer \in Answers
      BY DEF Answers
    <3>2. Append(h, answer) \in Seq(Answers)
      BY <2>1, <3>1
    <3> QED BY <2>3, <3>2 DEF X!Hear, ExecutorTypes
  <2>5. /\ Append(h, answer) # << >> /\ Len(Append(h, answer)) = Len(h) + 1
        /\ Append(h, answer)[Len(h) + 1] = answer
        /\ \A i \in 1 .. Len(h) : Append(h, answer)[i] = h[i]
    BY <2>1
  <2>6. CASE X!Fits(p, answer)
    <3>1. X!Return(c, "output", TRUE) /\ ret'[c].kind = "output"
      BY <2>3, <2>6 DEF X!Succeed, X!Return, ExecutorTypes
    <3>2. X!Entitled(c)'
      <4>1. X!HasSchema(p) => answer # "misfit"
        BY <2>6 DEF X!Fits
      <4>2. Append(h, answer)[Len(Append(h, answer))] = answer
        BY <2>5
      <4>3. \A i \in 1 .. Len(Append(h, answer)) - 1 : ~X!Fits(p, Append(h, answer)[i])
        BY <2>1, <2>5
      <4> QED BY <2>1, <2>2, <2>4, <2>5, <2>6, <4>1, <4>2, <4>3 DEF X!Entitled
    <3>3. Outcome(c)'
      BY <2>1, <2>2, <3>1, <3>2 DEF Outcome
    <3> QED BY <2>1, <2>2, <2>4, <3>1, <3>3, Returning DEF ExecutorTypes
  <2>7. CASE ~X!Fits(p, answer) /\ Len(h) = MaxRetries
    <3>1. X!Return(c, "err", Nil) /\ ret'[c].kind = "err"
      BY <2>3, <2>7 DEF X!Fail, X!Return, ExecutorTypes
    <3>2. Outcome(c)'
      BY <2>1, <2>2, <2>4, <2>5, <2>7, <3>1 DEF Outcome
    <3> QED BY <2>1, <2>2, <2>4, <3>1, <3>2, Returning DEF ExecutorTypes
  <2>8. CASE ~X!Fits(p, answer) /\ Len(h) # MaxRetries
    <3>1. UNCHANGED <<phase, ret>>
      BY <2>3, <2>8
    <3>2. Len(Append(h, answer)) <= MaxRetries
      BY <2>1, <2>5, <2>8, RetriesAssumption
    <3>3. \A i \in 1 .. Len(Append(h, answer)) : ~X!Fits(p, Append(h, answer)[i])
      BY <2>1, <2>5, <2>8
    <3>4. CallInv(c)'
      BY <2>1, <2>2, <2>4, <3>1, <3>2, <3>3, NilAssumption DEF CallInv, Underway, Concluded
    <3>5. ExecutorTypes'
      BY <2>2, <2>4, <3>1 DEF ExecutorTypes
    <3> QED BY <2>2, <2>4, <3>1, <3>4, <3>5, OneCall DEF ExecutorTypes
  <2> QED BY <2>6, <2>7, <2>8
<1>5. CASE X!Decide(c)
  <2> DEFINE p == plan[c]
  <2> USE <1>t, <1>5
  <2>1. /\ phase[c] = "decide" /\ p \in Plans /\ p.type = "supervisor" /\ asked[c] = << >>
        /\ task[c] = Nil /\ reply[c] = Nil
    BY DEF CallInv, Underway, Concluded, X!Decide
  <2>2. UNCHANGED <<local, clients, plan, task, reply, approvals>>
    BY DEF X!Decide, X!tables
  <2>3. PICK answer \in X!Generate(c, {"garbage", ""} \union Actions) :
          /\ X!Hear(c, answer)
          /\ \/ X!Fail(c)
             \/ /\ answer \notin {"error", "garbage"}
                /\ \E action : X!Succeed(c, action) /\ (p.allowed # {} => action \in p.allowed)
    BY DEF X!Decide
  <2>4. /\ asked' = [asked EXCEPT ![c] = <<answer>>] /\ asked'[c] = <<answer>>
        /\ asked' \in [Executions -> Seq(Answers)]
    <3>1. answer \in Answers
      BY DEF Answers, X!Generate
    <3>2. <<answer>> \in Seq(Answers) /\ Append(asked[c], answer) = <<answer>>
      BY <2>1, <3>1, FirstAnswer
    <3> QED BY <2>3, <3>2 DEF X!Hear, ExecutorTypes
  <2>5. CASE X!Fail(c)
    <3>1. X!Return(c, "err", Nil) /\ ret'[c].kind = "err"
      BY <2>5 DEF X!Fail, X!Return, ExecutorTypes
    <3>2. Outcome(c)'
      BY <2>1, <2>2, <3>1 DEF Outcome
    <3> QED BY <2>1, <2>2, <2>4, <3>1, <3>2, Returning DEF ExecutorTypes
  <2>6. ASSUME NEW action, X!Succeed(c, action), answer \notin {"error", "garbage"},
               p.allowed # {} => action \in p.allowed
        PROVE  CallsInv'
    <3>1. X!Return(c, "output", action) /\ ret'[c].kind = "output" /\ ret'[c].out = action
      BY <2>6 DEF X!Succeed, X!Return, ExecutorTypes
    <3>2. X!Entitled(c)'
      <4>1. <<answer>> # << >> /\ <<answer>>[1] = answer
        OBVIOUS
      <4> QED BY <2>1, <2>2, <2>4, <2>6, <3>1, <4>1 DEF X!Entitled
    <3>3. Outcome(c)'
      BY <2>1, <2>2, <3>1, <3>2 DEF Outcome
    <3> QED BY <2>1, <2>2, <2>4, <3>1, <3>3, Returning DEF ExecutorTypes
  <2> QED BY <2>3, <2>5, <2>6
<1>6. CASE X!GetClient(c)
  <2> USE <1>t, <1>6
  <2>1. /\ phase[c] = "client" /\ plan[c] \in Plans /\ plan[c].type = "tool"
        /\ asked[c] = << >> /\ task[c] = Nil /\ reply[c] = Nil
    BY DEF CallInv, Underway, Concluded, X!GetClient
  <2>2. UNCHANGED <<local, clients, plan, asked, task, reply, approvals>>
    BY DEF X!GetClient, X!tables
  <2>3. CASE X!Fail(c)
    <3>1. X!Return(c, "err", Nil) /\ ret'[c].kind = "err"
      BY <2>3 DEF X!Fail, X!Return, ExecutorTypes
    <3>2. Outcome(c)'
      BY <2>1, <2>2, <3>1 DEF Outcome
    <3> QED BY <2>1, <2>2, <3>1, <3>2, Returning DEF ExecutorTypes
  <2>4. ASSUME NEW to \in {"call", "connect"}, X!Goto(c, to), UNCHANGED ret,
               plan[c].tool \in X!Enabled
        PROVE  CallsInv'
    <3>1. ExecutorTypes'
      BY <2>2, <2>4 DEF ExecutorTypes, X!Goto, Phases
    <3>2. phase'[c] = to
      BY <2>4 DEF X!Goto, ExecutorTypes
    <3>3. CallInv(c)'
      BY <2>1, <2>2, <2>4, <3>2, NilAssumption DEF CallInv, Underway, Concluded
    <3> QED BY <2>2, <2>4, <3>1, <3>3, OneCall DEF X!Goto, ExecutorTypes
  <2> QED BY <2>3, <2>4 DEF X!GetClient, Switched
<1>7. CASE X!Connect(c)
  <2> USE <1>t, <1>7
  <2>1. /\ phase[c] = "connect" /\ plan[c] \in Plans /\ plan[c].type = "tool" /\ plan[c].tool \in X!Enabled
        /\ asked[c] = << >> /\ task[c] = Nil /\ reply[c] = Nil
    BY DEF CallInv, Underway, Concluded, X!Connect
  <2>2. UNCHANGED <<local, plan, asked, task, reply, approvals>>
    BY DEF X!Connect, X!tables
  <2>3. CASE X!Fail(c) /\ UNCHANGED clients
    <3>1. X!Return(c, "err", Nil) /\ ret'[c].kind = "err"
      BY <2>3 DEF X!Fail, X!Return, ExecutorTypes
    <3>2. Outcome(c)'
      BY <2>1, <2>2, <3>1 DEF Outcome
    <3> QED BY <2>1, <2>2, <2>3, <3>1, <3>2, Returning DEF ExecutorTypes
  <2>4. CASE clients' = clients \union {plan[c].tool} /\ X!Goto(c, "call") /\ UNCHANGED ret
    <3>1. ExecutorTypes'
      BY <2>2, <2>4 DEF ExecutorTypes, X!Goto, Phases
    <3>2. phase'[c] = "call"
      BY <2>4 DEF X!Goto, ExecutorTypes
    <3>3. CallInv(c)'
      BY <2>1, <2>2, <2>4, <3>2, NilAssumption DEF CallInv, Underway, Concluded
    <3> QED BY <2>2, <2>4, <3>1, <3>3, OneCall DEF X!Goto, ExecutorTypes
  <2> QED BY <2>3, <2>4 DEF X!Connect
<1>8. CASE X!CallTool(c)
  <2> USE <1>t, <1>8
  <2>1. /\ phase[c] = "call" /\ plan[c] \in Plans /\ plan[c].type = "tool" /\ plan[c].tool \in X!Enabled
        /\ asked[c] = << >> /\ task[c] = Nil /\ reply[c] = Nil
    BY DEF CallInv, Underway, Concluded, X!CallTool
  <2>2. UNCHANGED <<local, clients, plan, task, reply, approvals>>
    BY DEF X!CallTool, X!tables
  <2>3. ASSUME NEW a \in Answers, X!Hear(c, a)
        PROVE  /\ asked'[c] = <<a>> /\ asked' \in [Executions -> Seq(Answers)]
               /\ \A d \in Executions \ {c} : asked'[d] = asked[d]
    BY <2>1, <2>3, FirstAnswer DEF X!Hear, ExecutorTypes
  <2>4. CASE X!Hear(c, "error") /\ X!Fail(c)
    <3>1. X!Return(c, "err", Nil) /\ ret'[c].kind = "err"
      BY <2>4 DEF X!Fail, X!Return, ExecutorTypes
    <3>2. Outcome(c)'
      BY <2>1, <2>2, <3>1 DEF Outcome
    <3>3. "error" \in Answers
      BY DEF Answers
    <3> QED BY <2>1, <2>2, <2>3, <2>4, <3>1, <3>2, <3>3, Returning DEF ExecutorTypes
  <2>5. ASSUME NEW a \in {"content", "toolError"}, X!Hear(c, a), X!Succeed(c, TRUE) PROVE CallsInv'
    <3>1. X!Return(c, "output", TRUE) /\ ret'[c].kind = "output"
      BY <2>5 DEF X!Succeed, X!Return, ExecutorTypes
    <3>2. a \in Answers /\ a # "error"
      BY DEF Answers
    <3>3. X!Entitled(c)'
      BY <2>1, <2>2, <2>3, <2>5, <3>1, <3>2, FirstAnswer DEF X!Entitled
    <3>4. Outcome(c)'
      BY <2>1, <2>2, <3>1, <3>3 DEF Outcome
    <3> QED BY <2>1, <2>2, <2>3, <2>5, <3>1, <3>2, <3>4, Returning DEF ExecutorTypes
  <2> QED BY <2>4, <2>5 DEF X!CallTool
<1>9. CASE X!CreateApproval(c)
  <2> USE <1>t, <1>9
  <2>1. /\ phase[c] = "human" /\ plan[c] \in Plans /\ plan[c].type = "human"
        /\ asked[c] = << >> /\ task[c] = Nil /\ reply[c] = Nil
    BY DEF CallInv, Underway, Concluded, X!CreateApproval
  <2>2. UNCHANGED <<local, clients, plan, asked, task, reply>>
    BY DEF X!CreateApproval, X!tables
  <2>3. DOMAIN approvals' = Executions /\ \A d \in Executions \ {c} : approvals'[d] = approvals[d]
    BY DEF X!CreateApproval, ExecutorTypes
  <2>4. CASE X!Fail(c)
    <3>1. X!Return(c, "err", Nil) /\ ret'[c].kind = "err"
      BY <2>4 DEF X!Fail, X!Return, ExecutorTypes
    <3>2. Outcome(c)'
      BY <2>1, <2>2, <3>1 DEF Outcome
    <3> QED BY <2>1, <2>2, <2>3, <3>1, <3>2, Returning DEF ExecutorTypes
  <2>5. CASE approvals' = [approvals EXCEPT ![c] = "PENDING"] /\ X!Succeed(c, "WAITING_HUMAN")
    <3>1. X!Return(c, "output", "WAITING_HUMAN") /\ ret'[c].kind = "output" /\ ret'[c].out = "WAITING_HUMAN"
      BY <2>5 DEF X!Succeed, X!Return, ExecutorTypes
    <3>2. X!Entitled(c)'
      BY <2>1, <2>2, <2>5, <3>1, NilAssumption DEF X!Entitled, ExecutorTypes
    <3>3. Outcome(c)'
      BY <2>1, <2>2, <3>1, <3>2 DEF Outcome
    <3> QED BY <2>1, <2>2, <2>3, <3>1, <3>3, Returning DEF ExecutorTypes
  <2> QED BY <2>4, <2>5 DEF X!CreateApproval
<1>10. CASE X!Approve(c) \/ X!Reject(c)
  <2>1. /\ UNCHANGED <<local, clients, phase, plan, asked, ret, task, reply>>
        /\ ExecutorTypes' /\ \A d \in Executions : approvals[d] # Nil => approvals'[d] # Nil
    BY <1>t, <1>10, NilAssumption DEF X!Approve, X!Reject, X!tables, ExecutorTypes
  <2> QED BY <2>1, CallKept DEF CallsInv
<1>11. CASE X!Sandbox(c)
  <2> USE <1>t, <1>11
  <2>1. /\ phase[c] = "sandbox" /\ plan[c] \in Plans /\ plan[c].type = "sandbox"
        /\ asked[c] = << >> /\ task[c] = Nil /\ reply[c] = Nil
    BY DEF CallInv, Underway, Concluded, X!Sandbox
  <2>2. UNCHANGED <<local, clients, plan, task, reply, approvals>>
    BY DEF X!Sandbox, X!tables
  <2>3. PICK kind \in {"output", "error", "err"} : X!Hear(c, kind) /\ X!Return(c, kind, Nil)
    BY DEF X!Sandbox
  <2>4. kind \in Answers
    BY DEF Answers
  <2>5. /\ asked'[c] = <<kind>> /\ asked' \in [Executions -> Seq(Answers)]
        /\ \A d \in Executions \ {c} : asked'[d] = asked[d]
    BY <2>1, <2>3, <2>4, FirstAnswer DEF X!Hear, ExecutorTypes
  <2>6. ret'[c].kind = kind
    BY <2>3 DEF X!Return, ExecutorTypes
  <2>7. kind = "output" => X!Entitled(c)'
    BY <2>1, <2>2, <2>5 DEF X!Entitled
  <2>8. Outcome(c)'
    BY <2>1, <2>2, <2>5, <2>6, <2>7 DEF Outcome
  <2> QED BY <2>1, <2>2, <2>3, <2>5, <2>8, Returning DEF ExecutorTypes
<1>12. CASE X!ExecutePlan(c) \/ X!Report(c)
  <2> USE <1>t, <1>12
  <2>1. /\ phase[c] = "executed" /\ plan[c] \in Plans /\ Outcome(c) /\ task[c] = Nil /\ reply[c] = Nil
    BY DEF CallInv, Underway, Concluded, X!ExecutePlan, X!Report
  <2>2. UNCHANGED <<local, clients, plan, asked, ret, approvals>> /\ phase' = [phase EXCEPT ![c] = "returned"]
    BY DEF X!ExecutePlan, X!Report, X!tables, X!Goto
  <2>3. /\ DOMAIN task' = Executions /\ DOMAIN reply' = Executions
        /\ \A d \in Executions \ {c} : task'[d] = task[d] /\ reply'[d] = reply[d]
    BY DEF X!ExecutePlan, X!Report, X!SaveTask, ExecutorTypes
  <2>4. /\ ExecutorTypes' /\ phase'[c] = "returned"
        /\ \A d \in Executions \ {c} : phase'[d] = phase[d]
    BY <2>2, <2>3 DEF ExecutorTypes, Phases
  <2>5. Underway(c)' /\ Outcome(c)'
    <3>1. X!Entitled(c) => X!Entitled(c)'
      BY <2>2 DEF X!Entitled
    <3>2. Outcome(c)'
      BY <2>1, <2>2, <3>1 DEF Outcome
    <3> QED BY <2>1, <2>2, <2>4, <3>2 DEF Underway
  <2>6. CASE X!ExecutePlan(c)
    <3>1. /\ local /\ reply'[c] = (IF ret[c].kind = "err" THEN "FAILED" ELSE "SUCCESS")
          /\ ret[c].kind = "err" => task'[c] = Nil
          /\ task'[c] \in {Nil, X!Status(ret[c])}
      BY <2>1, <2>6 DEF X!ExecutePlan, X!SaveTask, ExecutorTypes
    <3> QED BY <2>1, <2>2, <2>3, <2>4, <2>5, <3>1, OneCall DEF CallInv, Concluded, X!Status, Outcome
  <2>7. CASE X!Report(c)
    <3>1. ~local /\ reply'[c] = X!Status(ret[c]) /\ task'[c] \in {Nil, X!Status(ret[c])}
      BY <2>1, <2>7 DEF X!Report, X!SaveTask, ExecutorTypes
    <3> QED BY <2>1, <2>2, <2>3, <2>4, <2>5, <3>1, OneCall DEF CallInv, Concluded, X!Status, Outcome
  <2> QED BY <2>6, <2>7
<1>13. CASE X!Panic(c)
  <2>1. /\ UNCHANGED <<local, plan, asked, ret, task, reply, approvals>> /\ phase' \in [Executions -> Phases]
        /\ \A d \in Executions : phase'[d] = IF phase[d] \in {"idle", "returned"} THEN phase[d] ELSE "lost"
    BY <1>t, <1>13 DEF X!Panic, ExecutorTypes, Phases
  <2>2. ExecutorTypes'
    BY <1>t, <2>1 DEF ExecutorTypes
  <2>3. ASSUME NEW d \in Executions PROVE CallInv(d)'
    <3>1. CallInv(d)
      BY DEF CallsInv
    <3>2. CASE phase[d] \in {"idle", "returned"}
      BY <2>1, <3>1, <3>2, CallKept
    <3>3. CASE phase[d] \notin {"idle", "returned"}
      BY <2>1, <3>1, <3>3, NilAssumption DEF CallInv, Underway, Concluded
    <3> QED BY <3>2, <3>3
  <2> QED BY <2>2, <2>3 DEF CallsInv
<1> QED BY <1>1, <1>2, <1>3, <1>4, <1>5, <1>6, <1>7, <1>8, <1>9, <1>10, <1>11, <1>12, <1>13

LEMMA ExecutorInitial == X!Init => ExecutorInv
<1>1. X!Init => Switched
  BY DEF X!Init, Switched
<1> QED BY <1>1, CallsInitial DEF ExecutorInv

LEMMA ExecutorInductive == ExecutorInv /\ X!Next => ExecutorInv'
<1> SUFFICES ASSUME ExecutorInv, X!Next PROVE ExecutorInv'
  OBVIOUS
<1>1. Switched'
  <2>1. Switched
    BY DEF ExecutorInv
  <2>2. CASE UNCHANGED <<defs, clients>>
    BY <2>1, <2>2 DEF Switched
  <2>3. ASSUME NEW c \in Executions, X!Panic(c) PROVE Switched'
    BY <2>3 DEF X!Panic, Switched
  <2>4. ASSUME NEW c \in Executions, X!Connect(c), clients' = clients \union {plan[c].tool} PROVE Switched'
    <3>1. plan[c].tool \in X!Enabled
      BY <2>4 DEF X!Connect, ExecutorInv, CallsInv, CallInv, Underway
    <3> QED BY <2>1, <2>4, <3>1 DEF X!Connect, X!tables, Switched
  <2> QED BY <2>2, <2>3, <2>4 DEF X!Next, X!Schedule, X!Route, X!GetAgent, X!Ask, X!Decide, X!GetClient, X!Connect,
            X!CallTool, X!CreateApproval, X!Approve, X!Reject, X!Sandbox, X!ExecutePlan, X!Report, X!tables
<1> QED BY <1>1, CallsInductive DEF ExecutorInv

LEMMA ExecutorEarned == ExecutorInv => VerdictEarned
<1> SUFFICES ASSUME ExecutorInv, NEW c \in Executions, reply[c] \in {"SUCCESS", "FAILED"}
             PROVE  LET p == plan[c]
                        dropped == local /\ p.type = "sandbox" /\ asked[c] = <<"error">>
                    IN /\ reply[c] = "SUCCESS" => X!Entitled(c) \/ dropped
                       /\ reply[c] = "FAILED" /\ p.type = "agent" => Len(asked[c]) \in {0, MaxRetries + 1}
                       /\ p.type = "committee" => ret[c].out = X!Carried(p)
                       /\ task[c] # Nil => task[c] = reply[c] \/ dropped
  BY DEF VerdictEarned, X!VerdictEarned
<1>1. Concluded(c) /\ Outcome(c)
  BY DEF ExecutorInv, CallsInv, CallInv, Concluded
<1> QED BY <1>1 DEF Concluded, Outcome

LEMMA ExecutorStutters == ExecutorInv /\ UNCHANGED executorVars => ExecutorInv'
<1> SUFFICES ASSUME ExecutorInv, UNCHANGED executorVars PROVE ExecutorInv'
  OBVIOUS
<1>1. ExecutorTypes'
  BY DEF ExecutorInv, CallsInv, ExecutorTypes, executorVars
<1>2. ASSUME NEW c \in Executions PROVE CallInv(c)'
  BY CallKept DEF ExecutorInv, CallsInv, executorVars
<1>3. Switched'
  BY DEF ExecutorInv, Switched, executorVars
<1> QED BY <1>1, <1>2, <1>3 DEF ExecutorInv, CallsInv

----------------------------------------------------------------------------
(* Migrations.                                                             *)

Statements == [op : {"table", "index", "alter"}, on : Tables]
Labels == {"off", "ensure", "rename", "check", "exec", "record", "open", "failed"}

MigrationTypes ==
  /\ dialect \in {"sqlite", "postgres"}
  /\ columns \in [Tables -> {"none", "tenant_id", "namespace_id"}]
  /\ step \in [Processes -> Labels] /\ at \in [Processes -> [file : Nat \ {0}, pos : Nat]]
  /\ recorded \subseteq DOMAIN Files[dialect]
  /\ renaming \in [Processes -> SUBSET Tables]

InEffect(st) == IF st.op = "table" THEN columns[st.on] # "none" ELSE st \in done
Applied(f) == \A i \in DOMAIN Files[dialect][f] : InEffect(Files[dialect][f][i])
AllApplied == \A f \in recorded : Applied(f)

\* A process has the files before its own recorded, and of its own file what
\* it has executed in effect; who overtakes it disturbs it; a column it has
\* not renamed it will, unless an error was swallowed.
ProcessInv(p) ==
  LET f == at[p].file
  IN /\ step[p] \in {"ensure", "rename"} => f = 1
     /\ step[p] \in {"ensure", "rename", "check"} => at[p].pos = 0
     /\ step[p] \in {"check", "exec", "record", "open"} =>
          /\ \A g \in DOMAIN Files[dialect] : g < f => g \in recorded
          /\ p \notin swallowed => \A t \in Tables : columns[t] # "tenant_id"
     /\ step[p] \in {"exec", "record"} =>
          f \in DOMAIN Files[dialect] /\ (f \in recorded => p \in disturbed)
     /\ step[p] = "exec" /\ dialect = "sqlite" =>
          \A i \in DOMAIN Files[dialect][f] : i <= at[p].pos => InEffect(Files[dialect][f][i])
     /\ step[p] = "record" => Applied(f)
     /\ step[p] = "open" => recorded = DOMAIN Files[dialect]
     /\ step[p] = "rename" /\ p \notin swallowed =>
          \A t \in Tables : columns[t] = "tenant_id" => t \in renaming[p]
     /\ step[p] = "failed" => p \in disturbed

MigrationInv ==
  /\ MigrationTypes /\ AllApplied /\ swallowed \subseteq disturbed
  /\ \A p \in Processes : ProcessInv(p)

LEMMA FileFacts ==
  ASSUME NEW d \in {"sqlite", "postgres"}
  PROVE  /\ Files[d] \in Seq(Seq(Statements)) /\ Len(Files[d]) \in Nat /\ DOMAIN Files[d] = 1 .. Len(Files[d])
         /\ 1 \in DOMAIN Files[d]
         /\ \A f \in DOMAIN Files[d] :
              /\ Files[d][f] \in Seq(Statements) /\ Len(Files[d][f]) \in Nat
              /\ DOMAIN Files[d][f] = 1 .. Len(Files[d][f])
              /\ \A i \in DOMAIN Files[d][f] : Files[d][f][i] \in Statements
<1>1. Files[d] \in Seq(Seq(Statements)) /\ Files[d] # << >>
  BY FilesAssumption DEF Statements
<1>2. Len(Files[d]) \in Nat /\ DOMAIN Files[d] = 1 .. Len(Files[d]) /\ 1 \in DOMAIN Files[d]
  BY <1>1
<1>3. ASSUME NEW f \in DOMAIN Files[d] PROVE Files[d][f] \in Seq(Statements)
  BY <1>1
<1>4. ASSUME NEW s \in Seq(Statements)
      PROVE  Len(s) \in Nat /\ DOMAIN s = 1 .. Len(s) /\ \A i \in DOMAIN s : s[i] \in Statements
  OBVIOUS
<1> QED BY <1>1, <1>2, <1>3, <1>4

LEMMA MigrationInitial == M!Init => MigrationInv
<1> SUFFICES ASSUME M!Init PROVE MigrationInv
  OBVIOUS
<1>1. PICK old \in SUBSET Tables :
        /\ columns = [t \in Tables |-> IF t \in old THEN "tenant_id" ELSE "none"]
        /\ recorded \in IF old = Tables THEN {{}, {1}} ELSE {{}}
        /\ done = {st \in M!Range(Files[dialect][1]) : st.op # "table" /\ 1 \in recorded}
  BY DEF M!Init
<1>2. /\ dialect \in {"sqlite", "postgres"} /\ step = [p \in Processes |-> "off"]
      /\ renaming = [p \in Processes |-> {}] /\ at = [p \in Processes |-> [file |-> 1, pos |-> 0]]
      /\ swallowed = {} /\ disturbed = {}
  BY DEF M!Init
<1>3. MigrationTypes
  BY <1>1, <1>2, FileFacts DEF MigrationTypes, Labels
<1>4. AllApplied
  <2> SUFFICES ASSUME NEW f \in recorded, NEW i \in DOMAIN Files[dialect][f]
               PROVE  InEffect(Files[dialect][f][i])
    BY DEF AllApplied, Applied
  <2>1. f = 1 /\ 1 \in recorded /\ old = Tables
    BY <1>1
  <2>2. Files[dialect][1][i] \in Statements
    BY <1>2, <2>1, FileFacts
  <2>3. Files[dialect][1][i] \in M!Range(Files[dialect][1])
    BY <2>1 DEF M!Range
  <2> QED BY <1>1, <2>1, <2>2, <2>3 DEF InEffect, Statements
<1>5. ASSUME NEW p \in Processes PROVE ProcessInv(p)
  BY <1>2 DEF ProcessInv
<1> QED BY <1>2, <1>3, <1>4, <1>5 DEF MigrationInv

\* The schema only grows: what exists stays, and no column gets its old name.
Grows ==
  /\ dialect' = dialect /\ recorded \subseteq recorded' /\ done \subseteq done'
  /\ columns' \in [Tables -> {"none", "tenant_id", "namespace_id"}]
  /\ \A t \in Tables : /\ columns[t] # "none" => columns'[t] # "none"
                       /\ columns'[t] = "tenant_id" => columns[t] = "tenant_id"

LEMMA EffectsStay ==
  ASSUME Grows, NEW st \in Statements, InEffect(st)
  PROVE  InEffect(st)'
  BY DEF InEffect, Grows, Statements

LEMMA AppliedStays ==
  ASSUME MigrationInv, Grows, NEW f \in DOMAIN Files[dialect], Applied(f)
  PROVE  Applied(f)'
<1>1. ASSUME NEW i \in DOMAIN Files[dialect][f] PROVE InEffect(Files[dialect][f][i])'
  <2>1. PICK st \in Statements : st = Files[dialect][f][i]
    BY FileFacts DEF MigrationInv, MigrationTypes
  <2>2. InEffect(st)'
    BY <2>1, EffectsStay DEF Applied
  <2> QED BY <2>1, <2>2 DEF InEffect, Grows
<1> QED BY <1>1 DEF Applied, Grows

\* A process that another's step does not concern.
LEMMA ProcessKept ==
  ASSUME MigrationInv, Grows, NEW p \in Processes,
         step'[p] = step[p], at'[p] = at[p], renaming'[p] = renaming[p],
         recorded' \subseteq DOMAIN Files[dialect],
         p \in swallowed' <=> p \in swallowed, p \in disturbed => p \in disturbed',
         recorded' # recorded => p \in disturbed' \/ step[p] \notin {"exec", "record"}
  PROVE  ProcessInv(p)'
<1> PICK f : f = at[p].file
  OBVIOUS
<1>1. ProcessInv(p) /\ MigrationTypes
  BY DEF MigrationInv
<1>3. step[p] \in {"check", "exec", "record", "open"} =>
        /\ \A g \in DOMAIN Files[dialect] : g < f => g \in recorded'
        /\ p \notin swallowed' => \A t \in Tables : columns'[t] # "tenant_id"
  BY <1>1 DEF ProcessInv, Grows
<1>4. step[p] \in {"exec", "record"} =>
          f \in DOMAIN Files[dialect] /\ (f \in recorded' => p \in disturbed')
  BY <1>1 DEF ProcessInv, Grows
<1>5. step[p] = "exec" /\ dialect = "sqlite" =>
          \A i \in DOMAIN Files[dialect][f] : i <= at[p].pos => InEffect(Files[dialect][f][i])'
  <2> SUFFICES ASSUME step[p] = "exec", dialect = "sqlite", NEW i \in DOMAIN Files[dialect][f], i <= at[p].pos
               PROVE  InEffect(Files[dialect][f][i])'
    BY DEF Grows
  <2>1. f \in DOMAIN Files[dialect] /\ InEffect(Files[dialect][f][i])
    BY <1>1 DEF ProcessInv
  <2>2. PICK st \in Statements : st = Files[dialect][f][i]
    BY <1>1, <2>1, FileFacts DEF MigrationTypes
  <2>3. InEffect(st)'
    BY <2>1, <2>2, EffectsStay
  <2> QED BY <2>2, <2>3 DEF InEffect, Grows
<1>6. step[p] = "record" => Applied(f)'
  BY <1>1, AppliedStays DEF ProcessInv
<1>7. step[p] = "open" => recorded' = DOMAIN Files[dialect]
  BY <1>1 DEF ProcessInv, Grows
<1>8. step[p] = "rename" /\ p \notin swallowed' =>
          \A t \in Tables : columns'[t] = "tenant_id" => t \in renaming[p]
  BY <1>1 DEF ProcessInv, Grows
<1>9. step[p] = "failed" => p \in disturbed'
  BY <1>1 DEF ProcessInv
<1>10. dialect' = dialect
  BY DEF Grows
<1>11. /\ step[p] \in {"ensure", "rename"} => f = 1
       /\ step[p] \in {"ensure", "rename", "check"} => at[p].pos = 0
  BY <1>1 DEF ProcessInv
<1> QED BY <1>3, <1>4, <1>5, <1>6, <1>7, <1>8, <1>9, <1>10, <1>11 DEF ProcessInv

\* A step of process p.
LEMMA OneProcess ==
  ASSUME MigrationInv, Grows, NEW p \in Processes,
         \A q \in Processes \ {p} :
           /\ step'[q] = step[q] /\ at'[q] = at[q] /\ renaming'[q] = renaming[q]
           /\ q \in swallowed' <=> q \in swallowed
           /\ q \in disturbed => q \in disturbed'
           /\ recorded' # recorded => q \in disturbed' \/ step[q] \notin {"exec", "record"},
         MigrationTypes', swallowed' \subseteq disturbed', ProcessInv(p)',
         \A f \in recorded' \ recorded : Applied(f)'
  PROVE  MigrationInv'
<1>1. AllApplied'
  <2>1. \A f \in recorded : f \in DOMAIN Files[dialect] /\ Applied(f)
    BY DEF MigrationInv, MigrationTypes, AllApplied
  <2> QED BY <2>1, AppliedStays DEF AllApplied
<1>2. recorded' \subseteq DOMAIN Files[dialect]
  BY DEF MigrationTypes, Grows
<1>3. ASSUME NEW q \in Processes \ {p} PROVE ProcessInv(q)'
  BY <1>2, ProcessKept
<1> QED BY <1>1, <1>3 DEF MigrationInv

\* A statement finds its table, under its new name unless a rename failed.
LEMMA TableBefore ==
  ASSUME NEW d \in {"sqlite", "postgres"}, NEW f \in DOMAIN Files[d], NEW i \in DOMAIN Files[d][f],
         Files[d][f][i].op # "table"
  PROVE  \E g \in 1 .. f : \E j \in DOMAIN Files[d][g] :
           (g < f \/ j < i) /\ Files[d][g][j] = [op |-> "table", on |-> Files[d][f][i].on]
  BY FilesAssumption, Zenon

LEMMA TableExists ==
  ASSUME MigrationInv, NEW p \in Processes, step[p] = "exec",
         NEW f, f = at[p].file, NEW stmts, stmts = Files[dialect][f],
         NEW i \in DOMAIN stmts, stmts[i].op # "table"
  PROVE  \/ columns[stmts[i].on] # "none"
         \/ \E j \in DOMAIN stmts : j < i /\ stmts[j] = [op |-> "table", on |-> stmts[i].on]
<1>1. ProcessInv(p) /\ MigrationTypes /\ AllApplied
  BY DEF MigrationInv
<1> PICK d : d = dialect
  OBVIOUS
<1>2. d \in {"sqlite", "postgres"} /\ f \in DOMAIN Files[d] /\ f \in Nat /\ stmts = Files[d][f]
  BY <1>1, FileFacts DEF MigrationTypes, ProcessInv
<1>3. PICK g \in 1 .. f : \E j \in DOMAIN Files[d][g] :
        (g < f \/ j < i) /\ Files[d][g][j] = [op |-> "table", on |-> stmts[i].on]
  BY <1>2, TableBefore
<1>4. PICK j \in DOMAIN Files[d][g] :
        (g < f \/ j < i) /\ Files[d][g][j] = [op |-> "table", on |-> stmts[i].on]
  BY <1>3
<1>5. CASE g < f
  <2>1. g \in DOMAIN Files[d]
    BY <1>2, FileFacts
  <2>2. InEffect(Files[d][g][j])
    BY <1>1, <1>5, <2>1 DEF ProcessInv, AllApplied, Applied
  <2> QED BY <1>4, <2>2 DEF InEffect
<1>6. CASE ~(g < f)
  <2>1. g = f
    BY <1>2, <1>6
  <2> QED BY <1>2, <1>4, <1>6, <2>1
<1> QED BY <1>5, <1>6

\* The schemas PostgreSQL goes through in a file.
Created(stmts, t, k) == \E i \in 1 .. k : stmts[i] = [op |-> "table", on |-> t]
ColumnAfter(stmts, t, k) == IF columns[t] = "none" /\ Created(stmts, t, k) THEN "namespace_id" ELSE columns[t]

LEMMA SchemaAfter ==
  ASSUME NEW stmts, Len(stmts) \in Nat, NEW k \in 0 .. Len(stmts)
  PROVE  /\ M!Schemas(M!Schema, stmts)[k].columns = [t \in Tables |-> ColumnAfter(stmts, t, k)]
         /\ M!Schemas(M!Schema, stmts)[k].done = done \union {st \in {stmts[i] : i \in 1 .. k} : st.op # "table"}
<1>1. M!Schema.columns = columns /\ M!Schema.done = done
  BY DEF M!Schema
<1>2. M!Schemas(M!Schema, stmts)[k] =
        [columns |-> [t \in Tables |-> IF M!Schema.columns[t] = "none" /\ Created(stmts, t, k)
                                      THEN "namespace_id" ELSE M!Schema.columns[t]],
         done |-> M!Schema.done \union {st \in {stmts[i] : i \in 1 .. k} : st.op # "table"}]
  BY DEF M!Schemas, Created
<1> QED BY <1>1, <1>2 DEF ColumnAfter

LEMMA MigrationInductive == MigrationInv /\ M!Next => MigrationInv'
<1> SUFFICES ASSUME MigrationInv, NEW p \in Processes,
                    \/ M!Start(p) \/ M!ListLegacyTables(p) \/ M!RenameDone(p)
                    \/ \E t \in Tables : M!RenameColumn(p, t) \/ M!RenameError(p, t)
                    \/ M!CheckApplied(p) \/ M!Finish(p) \/ M!ExecStatement(p) \/ M!ExecDone(p) \/ M!ExecFile(p)
                    \/ M!RecordMigration(p) \/ M!Error(p)
             PROVE  MigrationInv'
  BY DEF M!Next
<1> PICK f : f = at[p].file
  OBVIOUS
<1> PICK files : files = Files[dialect]
  OBVIOUS
<1>t. MigrationTypes /\ AllApplied /\ ProcessInv(p) /\ swallowed \subseteq disturbed
  BY DEF MigrationInv
<1>f. /\ dialect \in {"sqlite", "postgres"} /\ Len(files) \in Nat /\ DOMAIN files = 1 .. Len(files)
      /\ \A g \in DOMAIN files :
           /\ DOMAIN files[g] = 1 .. Len(files[g]) /\ Len(files[g]) \in Nat
           /\ \A i \in DOMAIN files[g] : files[g][i] \in Statements
      /\ f \in Nat \ {0} /\ at[p].pos \in Nat
      /\ at[p] = [file |-> f, pos |-> at[p].pos]
  BY <1>t, FileFacts DEF MigrationTypes
<1>s. ASSUME UNCHANGED <<dialect, columns, done, recorded>> PROVE Grows
  BY <1>t, <1>s DEF Grows, MigrationTypes
<1>1. CASE M!Start(p)
  <2>1. /\ UNCHANGED <<dialect, columns, done, recorded, renaming>>
        /\ step' = [step EXCEPT ![p] = "ensure"] /\ at' = [at EXCEPT ![p] = [file |-> 1, pos |-> 0]]
        /\ swallowed' = swallowed \ {p} /\ disturbed' = disturbed \ {p}
    BY <1>1 DEF M!Start, M!Goto
  <2>2. MigrationTypes' /\ step'[p] = "ensure" /\ at'[p].file = 1 /\ at'[p].pos = 0
    BY <1>t, <2>1 DEF MigrationTypes, Labels
  <2>3. ProcessInv(p)'
    BY <2>2 DEF ProcessInv
  <2> QED BY <1>t, <1>s, <2>1, <2>2, <2>3, OneProcess DEF MigrationTypes
<1>2. CASE M!ListLegacyTables(p)
  <2>1. /\ UNCHANGED <<dialect, columns, done, recorded, at, swallowed, disturbed>>
        /\ renaming' = [renaming EXCEPT ![p] = {t \in Tables : columns[t] = "tenant_id"}]
        /\ step' = [step EXCEPT ![p] = "rename"]
    BY <1>2 DEF M!ListLegacyTables, M!Goto
  <2>2. /\ MigrationTypes' /\ step'[p] = "rename"
        /\ renaming'[p] = {t \in Tables : columns[t] = "tenant_id"}
    BY <1>t, <2>1 DEF MigrationTypes, Labels
  <2>3. ProcessInv(p)'
    BY <1>t, <1>2, <2>1, <2>2 DEF ProcessInv, M!ListLegacyTables
  <2> QED BY <1>t, <1>s, <2>1, <2>2, <2>3, OneProcess DEF MigrationTypes
<1>3. CASE M!RenameDone(p)
  <2>1. /\ UNCHANGED <<dialect, columns, done, recorded, renaming, at, swallowed, disturbed>>
        /\ step[p] = "rename" /\ renaming[p] = {} /\ step' = [step EXCEPT ![p] = "check"]
    BY <1>3 DEF M!RenameDone, M!Goto
  <2>2. MigrationTypes' /\ step'[p] = "check"
    BY <1>t, <2>1 DEF MigrationTypes, Labels
  <2>3. ProcessInv(p)'
    BY <1>t, <1>f, <2>1, <2>2 DEF ProcessInv
  <2> QED BY <1>t, <1>s, <2>1, <2>2, <2>3, OneProcess DEF MigrationTypes
<1>4. ASSUME NEW t \in Tables, M!RenameColumn(p, t) PROVE MigrationInv'
  <2>1. /\ UNCHANGED <<dialect, done, recorded, step, at, swallowed, disturbed>>
        /\ step[p] = "rename" /\ renaming' = [renaming EXCEPT ![p] = @ \ {t}]
        /\ columns' = [columns EXCEPT ![t] = "namespace_id"]
    BY <1>4 DEF M!RenameColumn
  <2>2. MigrationTypes' /\ Grows /\ renaming'[p] = renaming[p] \ {t}
    BY <1>t, <2>1 DEF MigrationTypes, Grows
  <2>3. ProcessInv(p)'
    BY <1>t, <2>1, <2>2 DEF ProcessInv, MigrationTypes
  <2> QED BY <1>t, <2>1, <2>2, <2>3, OneProcess DEF MigrationTypes
<1>5. ASSUME NEW t \in Tables, M!RenameError(p, t) PROVE MigrationInv'
  <2>1. /\ UNCHANGED <<dialect, columns, done, recorded, step, at>>
        /\ step[p] = "rename" /\ renaming' = [renaming EXCEPT ![p] = @ \ {t}]
        /\ swallowed' = swallowed \union {p} /\ disturbed' = disturbed \union {p}
    BY <1>5 DEF M!RenameError
  <2>2. MigrationTypes'
    BY <1>t, <2>1 DEF MigrationTypes
  <2>3. ProcessInv(p)'
    BY <1>t, <2>1, <2>2 DEF ProcessInv
  <2> QED BY <1>t, <1>s, <2>1, <2>2, <2>3, OneProcess DEF MigrationTypes
<1>6. CASE M!CheckApplied(p)
  <2>1. /\ UNCHANGED <<dialect, columns, done, recorded, renaming, swallowed, disturbed>>
        /\ step[p] = "check" /\ f <= Len(files)
    BY <1>6 DEF M!CheckApplied
  <2>2. CASE f \in recorded
    <3>1. UNCHANGED step /\ at' = [at EXCEPT ![p] = [file |-> f + 1, pos |-> 0]]
      BY <1>6, <2>2 DEF M!CheckApplied, M!NextFile
    <3>2. MigrationTypes' /\ at'[p].file = f + 1 /\ at'[p].pos = 0
      BY <1>t, <1>f, <2>1, <3>1 DEF MigrationTypes
    <3>3. \A g \in DOMAIN files : g < f + 1 => g \in recorded
      BY <1>t, <1>f, <2>1, <2>2 DEF ProcessInv
    <3>4. ProcessInv(p)'
      BY <1>t, <2>1, <3>1, <3>2, <3>3 DEF ProcessInv
    <3> QED BY <1>t, <1>s, <2>1, <3>1, <3>2, <3>4, OneProcess DEF MigrationTypes
  <2>3. CASE f \notin recorded
    <3>1. UNCHANGED at /\ step' = [step EXCEPT ![p] = "exec"]
      BY <1>6, <2>3 DEF M!CheckApplied, M!Goto
    <3>2. MigrationTypes' /\ step'[p] = "exec"
      BY <1>t, <2>1, <3>1 DEF MigrationTypes, Labels
    <3>3. f \in DOMAIN files
      BY <1>f, <2>1
    <3>4. at[p].pos = 0 /\ \A i \in DOMAIN files[f] : i \in Nat /\ ~(i <= 0)
      BY <1>t, <1>f, <2>1, <3>3, FileFacts DEF ProcessInv
    <3>5. ProcessInv(p)'
      BY <1>t, <2>1, <2>3, <3>1, <3>2, <3>3, <3>4 DEF ProcessInv
    <3> QED BY <1>t, <1>s, <2>1, <3>1, <3>2, <3>5, OneProcess DEF MigrationTypes
  <2> QED BY <2>2, <2>3
<1>7. CASE M!Finish(p)
  <2>1. /\ UNCHANGED <<dialect, columns, done, recorded, renaming, at, swallowed, disturbed>>
        /\ step[p] = "check" /\ f > Len(files) /\ step' = [step EXCEPT ![p] = "open"]
    BY <1>7 DEF M!Finish, M!Goto
  <2>2. MigrationTypes' /\ step'[p] = "open"
    BY <1>t, <2>1 DEF MigrationTypes, Labels
  <2>3. recorded = DOMAIN files
    <3>1. \A g \in DOMAIN files : g < f
      BY <1>f, <2>1
    <3>2. \A g \in DOMAIN files : g \in recorded
      BY <1>t, <2>1, <3>1 DEF ProcessInv
    <3>3. recorded \subseteq DOMAIN files
      BY <1>t DEF MigrationTypes
    <3> QED BY <3>2, <3>3
  <2>4. ProcessInv(p)'
    BY <1>t, <2>1, <2>2, <2>3 DEF ProcessInv
  <2> QED BY <1>t, <1>s, <2>1, <2>2, <2>4, OneProcess DEF MigrationTypes
<1>8. CASE M!ExecDone(p)
  <2>1. /\ UNCHANGED <<dialect, columns, done, recorded, renaming, at, swallowed, disturbed>>
        /\ dialect = "sqlite" /\ step[p] = "exec" /\ at[p].pos = Len(files[f])
        /\ step' = [step EXCEPT ![p] = "record"]
    BY <1>8 DEF M!ExecDone, M!Goto, M!File
  <2>2. MigrationTypes' /\ step'[p] = "record"
    BY <1>t, <2>1 DEF MigrationTypes, Labels
  <2>3. Applied(f)
    <3>1. f \in DOMAIN files
      BY <1>t, <2>1 DEF ProcessInv
    <3>2. DOMAIN files[f] = 1 .. Len(files[f]) /\ Len(files[f]) \in Nat
      BY <1>f, <3>1, FileFacts
    <3> QED BY <1>t, <2>1, <3>2 DEF ProcessInv, Applied
  <2>4. Applied(f)'
    BY <2>1, <2>3 DEF Applied, InEffect
  <2>5. ProcessInv(p)'
    BY <1>t, <2>1, <2>2, <2>4 DEF ProcessInv
  <2> QED BY <1>t, <1>s, <2>1, <2>2, <2>5, OneProcess DEF MigrationTypes
<1>9. CASE M!Error(p)
  <2>1. /\ UNCHANGED <<dialect, columns, done, recorded, renaming, at, swallowed>>
        /\ disturbed' = disturbed \union {p}
        /\ \E to \in {"failed", "off"} : step' = [step EXCEPT ![p] = to]
    BY <1>9 DEF M!Error
  <2>2. MigrationTypes' /\ step'[p] \in {"failed", "off"}
    BY <1>t, <2>1 DEF MigrationTypes, Labels
  <2>3. ProcessInv(p)'
    BY <2>1, <2>2 DEF ProcessInv
  <2> QED BY <1>t, <1>s, <2>1, <2>2, <2>3, OneProcess DEF MigrationTypes
<1>10. CASE M!RecordMigration(p)
  <2>1. /\ UNCHANGED <<dialect, columns, done, renaming, swallowed>> /\ step[p] = "record"
    BY <1>10 DEF M!RecordMigration
  <2>2. f \in DOMAIN files /\ Applied(f) /\ (f \in recorded => p \in disturbed)
    BY <1>t, <2>1 DEF ProcessInv
  <2>3. CASE f \in recorded
    <3>1. UNCHANGED <<recorded, at, disturbed>> /\ step' = [step EXCEPT ![p] = "failed"]
      BY <1>10, <2>3 DEF M!RecordMigration, M!Goto
    <3>2. MigrationTypes' /\ step'[p] = "failed"
      BY <1>t, <2>1, <3>1 DEF MigrationTypes, Labels
    <3>3. ProcessInv(p)'
      BY <2>2, <2>3, <3>1, <3>2 DEF ProcessInv
    <3> QED BY <1>t, <1>s, <2>1, <3>1, <3>2, <3>3, OneProcess DEF MigrationTypes
  <2>4. CASE f \notin recorded
    <3>1. /\ recorded' = recorded \union {f} /\ at' = [at EXCEPT ![p] = [file |-> f + 1, pos |-> 0]]
          /\ step' = [step EXCEPT ![p] = "check"]
          /\ disturbed' = disturbed \union {q \in Processes \ {p} : M!Running(q)}
      BY <1>10, <2>4 DEF M!RecordMigration, M!Goto, M!NextFile
    <3>2. MigrationTypes' /\ step'[p] = "check" /\ at'[p].file = f + 1 /\ at'[p].pos = 0
      BY <1>t, <1>f, <2>1, <2>2, <3>1 DEF MigrationTypes, Labels
    <3>3. Grows
      BY <1>t, <2>1, <3>1 DEF Grows, MigrationTypes
    <3>4. \A q \in Processes \ {p} : q \in disturbed' \/ step[q] \notin {"exec", "record"}
      BY <3>1 DEF M!Running
    <3>5. \A g \in DOMAIN files : g < f + 1 => g \in recorded'
      BY <1>t, <1>f, <2>1, <3>1 DEF ProcessInv
    <3>6. ProcessInv(p)'
      BY <1>t, <2>1, <3>2, <3>5 DEF ProcessInv
    <3>7. \A g \in recorded' \ recorded : Applied(g)'
      BY <2>2, <3>1, <3>3, AppliedStays
    <3>8. /\ swallowed' \subseteq disturbed' /\ disturbed \subseteq disturbed'
          /\ \A q \in Processes \ {p} : step'[q] = step[q] /\ at'[q] = at[q]
      BY <1>t, <2>1, <3>1 DEF MigrationTypes
    <3> QED BY <2>1, <3>2, <3>3, <3>4, <3>6, <3>7, <3>8, OneProcess
  <2> QED BY <2>3, <2>4
<1>11. ASSUME step[p] = "exec", step' = [step EXCEPT ![p] = "failed"], p \in disturbed,
              UNCHANGED <<dialect, columns, done, recorded, renaming, at, swallowed, disturbed>>
       PROVE  MigrationInv'
  <2>1. MigrationTypes' /\ step'[p] = "failed"
    BY <1>t, <1>11 DEF MigrationTypes, Labels
  <2>2. ProcessInv(p)'
    BY <1>11, <2>1 DEF ProcessInv
  <2> QED BY <1>t, <1>s, <1>11, <2>1, <2>2, OneProcess DEF MigrationTypes
<1>12. CASE M!ExecStatement(p)
  <2> PICK i : i = at[p].pos + 1
    OBVIOUS
  <2> DEFINE st == files[f][i]
  <2>1. /\ UNCHANGED <<dialect, recorded, renaming, swallowed, disturbed>>
        /\ dialect = "sqlite" /\ step[p] = "exec" /\ at[p].pos < Len(files[f])
    BY <1>12 DEF M!ExecStatement, M!File
  <2>2. f \in DOMAIN files
    BY <1>t, <2>1 DEF ProcessInv
  <2>3. /\ DOMAIN files[f] = 1 .. Len(files[f]) /\ Len(files[f]) \in Nat
        /\ i \in DOMAIN files[f] /\ st \in Statements
    BY <1>f, <2>1, <2>2, FileFacts
  <2>4. CASE ~M!Possible(M!Schema, st)
    <3>1. step' = [step EXCEPT ![p] = "failed"] /\ UNCHANGED <<columns, done, at>>
      BY <1>12, <2>4 DEF M!ExecStatement, M!File, M!Goto
    <3>2. st.op # "table" /\ columns[st.on] # "namespace_id"
      BY <2>3, <2>4 DEF M!Possible, M!Schema, Statements
    <3>3. columns[st.on] # "none"
      <4>1. CASE \E j \in DOMAIN files[f] : j < i /\ files[f][j] = [op |-> "table", on |-> st.on]
        <5>1. PICK j \in DOMAIN files[f] : j < i /\ files[f][j] = [op |-> "table", on |-> st.on]
          BY <4>1
        <5>2. j <= at[p].pos
          BY <1>f, <2>3, <5>1
        <5>3. InEffect(files[f][j])
          BY <1>t, <2>1, <5>2 DEF ProcessInv
        <5> QED BY <5>1, <5>3 DEF InEffect
      <4>2. columns[st.on] # "none" \/ \E j \in DOMAIN files[f] : j < i /\ files[f][j] = [op |-> "table", on |-> st.on]
        <5>1. step[p] = "exec" /\ i \in DOMAIN files[f] /\ st.op # "table"
          BY <2>1, <2>3, <3>2
        <5> QED BY <5>1, TableExists
      <4> QED BY <4>1, <4>2
    <3>4. columns[st.on] = "tenant_id" /\ st.on \in Tables
      BY <1>t, <2>3, <3>2, <3>3 DEF MigrationTypes, Statements
    <3>5. p \in disturbed
      BY <1>t, <2>1, <3>4 DEF ProcessInv
    <3> QED BY <1>11, <2>1, <3>1, <3>5
  <2>5. CASE M!Possible(M!Schema, st)
    <3>1. /\ UNCHANGED step /\ at' = [at EXCEPT ![p].pos = @ + 1]
          /\ columns' = M!Executed(M!Schema, st).columns /\ done' = M!Executed(M!Schema, st).done
      BY <1>12, <2>5 DEF M!ExecStatement, M!File, M!SetSchema
    <3>2. /\ st.op = "table" => /\ columns' = [columns EXCEPT ![st.on] = IF @ = "none" THEN "namespace_id" ELSE @]
                                /\ done' = done
          /\ st.op # "table" => columns' = columns /\ done' = done \union {st}
      BY <3>1 DEF M!Executed, M!Schema
    <3>3. Grows
      <4>1. st.on \in Tables /\ columns \in [Tables -> {"none", "tenant_id", "namespace_id"}]
        BY <1>t, <2>3 DEF MigrationTypes, Statements
      <4>2. CASE st.op = "table"
        BY <2>1, <3>2, <4>1, <4>2 DEF Grows
      <4>3. CASE st.op # "table"
        BY <2>1, <3>2, <4>1, <4>3 DEF Grows
      <4> QED BY <4>2, <4>3
    <3>4. IF st.op = "table" THEN columns'[st.on] # "none" ELSE st \in done'
      BY <1>t, <2>3, <3>2 DEF MigrationTypes, Statements
    <3>5. at'[p].file = f /\ at'[p].pos = i /\ MigrationTypes'
      <4>1. [at[p] EXCEPT !.pos = @ + 1] = [file |-> f, pos |-> i]
        BY <1>f
      <4>2. at' = [at EXCEPT ![p] = [file |-> f, pos |-> i]]
        BY <3>1, <4>1
      <4>3. at' \in [Processes -> [file : Nat \ {0}, pos : Nat]] /\ at'[p].file = f /\ at'[p].pos = i
        BY <1>t, <1>f, <4>2 DEF MigrationTypes
      <4> QED BY <1>t, <2>1, <3>1, <3>3, <4>3 DEF MigrationTypes, Grows
    <3>6. ASSUME NEW k \in DOMAIN files[f], k <= i PROVE InEffect(files[f][k])'
      <4>1. CASE k = i
        BY <2>1, <3>4, <4>1 DEF InEffect
      <4>2. CASE k # i
        <5>1. k <= at[p].pos
          BY <1>f, <2>3, <3>6, <4>2
        <5>2. InEffect(files[f][k])
          BY <1>t, <2>1, <5>1 DEF ProcessInv
        <5> QED BY <1>f, <2>2, <3>3, <5>2, EffectsStay
      <4> QED BY <4>1, <4>2
    <3>7. \A t \in Tables : columns'[t] = "tenant_id" => columns[t] = "tenant_id"
      BY <3>3 DEF Grows
    <3>8. ProcessInv(p)'
      <4>1. dialect' = dialect /\ step'[p] = "exec"
        BY <2>1, <3>1
      <4> QED BY <1>t, <2>1, <3>5, <3>6, <3>7, <4>1 DEF ProcessInv
    <3>9. \A q \in Processes \ {p} : at'[q] = at[q]
      BY <1>t, <3>1 DEF MigrationTypes
    <3> QED BY <1>t, <2>1, <3>1, <3>3, <3>5, <3>8, <3>9, OneProcess
  <2> QED BY <2>4, <2>5
<1>13. CASE M!ExecFile(p)
  <2> DEFINE after == M!Schemas(M!Schema, files[f])
             n == Len(files[f])
  <2>1. /\ UNCHANGED <<dialect, recorded, renaming, at, swallowed, disturbed>>
        /\ dialect = "postgres" /\ step[p] = "exec"
    BY <1>13 DEF M!ExecFile
  <2>2. f \in DOMAIN files
    BY <1>t, <2>1 DEF ProcessInv
  <2>3. /\ DOMAIN files[f] = 1 .. n /\ n \in Nat
        /\ \A i \in DOMAIN files[f] : files[f][i] \in Statements
    BY <1>f, <2>2
  <2>4. CASE \A i \in DOMAIN files[f] : M!Possible(after[i - 1], files[f][i])
    <3>1. /\ columns' = after[n].columns /\ done' = after[n].done /\ step' = [step EXCEPT ![p] = "record"]
      BY <1>13, <2>4 DEF M!ExecFile, M!File, M!Goto, M!SetSchema
    <3>2. /\ columns' = [t \in Tables |-> ColumnAfter(files[f], t, n)]
          /\ done' = done \union {st \in {files[f][i] : i \in 1 .. n} : st.op # "table"}
      <4>1. n \in 0 .. n
        BY <2>3
      <4>2. /\ after[n].columns = [t \in Tables |-> ColumnAfter(files[f], t, n)]
            /\ after[n].done = done \union {st \in {files[f][i] : i \in 1 .. n} : st.op # "table"}
        BY <2>3, <4>1, SchemaAfter
      <4> QED BY <3>1, <4>2
    <3>3. Grows
      BY <1>t, <2>1, <3>2 DEF Grows, MigrationTypes, ColumnAfter
    <3>4. ASSUME NEW k \in DOMAIN files[f] PROVE InEffect(files[f][k])'
      <4>1. CASE files[f][k].op = "table"
        <5>1. files[f][k].on \in Tables /\ Created(files[f], files[f][k].on, n)
          BY <2>3, <4>1 DEF Statements, Created
        <5> QED BY <3>2, <4>1, <5>1 DEF InEffect, ColumnAfter
      <4>2. CASE files[f][k].op # "table"
        BY <2>3, <3>2, <4>2 DEF InEffect
      <4> QED BY <4>1, <4>2
    <3>5. Applied(f)'
      BY <2>1, <3>4 DEF Applied
    <3>6. MigrationTypes' /\ step'[p] = "record"
      BY <1>t, <2>1, <3>1, <3>3 DEF MigrationTypes, Labels, Grows
    <3>7. \A t \in Tables : columns'[t] = "tenant_id" => columns[t] = "tenant_id"
      BY <3>3 DEF Grows
    <3>8. ProcessInv(p)'
      BY <1>t, <2>1, <3>5, <3>6, <3>7 DEF ProcessInv
    <3>9. \A q \in Processes \ {p} : step'[q] = step[q]
      BY <1>t, <3>1 DEF MigrationTypes
    <3> QED BY <1>t, <2>1, <3>3, <3>6, <3>8, <3>9, OneProcess
  <2>5. ASSUME NEW i \in DOMAIN files[f], ~M!Possible(after[i - 1], files[f][i]) PROVE MigrationInv'
    <3> DEFINE st == files[f][i]
    <3>1. step' = [step EXCEPT ![p] = "failed"] /\ UNCHANGED <<columns, done>>
      BY <1>13, <2>5 DEF M!ExecFile, M!File, M!Goto
    <3>2. i \in 1 .. n /\ i - 1 \in 0 .. n /\ st \in Statements
      BY <2>3
    <3>3. st.op # "table" /\ st.on \in Tables /\ after[i - 1].columns[st.on] # "namespace_id"
      BY <2>5, <3>2 DEF M!Possible, Statements, M!Schema
    <3>4. ColumnAfter(files[f], st.on, i - 1) # "namespace_id"
      <4>1. after[i - 1].columns = [t \in Tables |-> ColumnAfter(files[f], t, i - 1)]
        BY <2>3, <3>2, SchemaAfter
      <4> QED BY <3>3, <4>1
    <3>5. columns[st.on] # "none"
      <4>1. ASSUME NEW j \in DOMAIN files[f], j < i, files[f][j] = [op |-> "table", on |-> st.on]
            PROVE  Created(files[f], st.on, i - 1)
        <5>1. j \in 1 .. i - 1
          BY <2>3, <3>2, <4>1
        <5> QED BY <4>1, <5>1 DEF Created
      <4>2. columns[st.on] # "none" \/ \E j \in DOMAIN files[f] : j < i /\ files[f][j] = [op |-> "table", on |-> st.on]
        <5>1. step[p] = "exec" /\ f = at[p].file /\ files[f] = Files[dialect][f] /\ st.op # "table"
          BY <2>1, <3>3
        <5> QED BY <5>1, TableExists
      <4> QED BY <3>4, <4>1, <4>2 DEF ColumnAfter
    <3>6. columns[st.on] = "tenant_id"
      BY <1>t, <3>3, <3>4, <3>5 DEF MigrationTypes, ColumnAfter
    <3>7. p \in disturbed
      BY <1>t, <2>1, <3>3, <3>6 DEF ProcessInv
    <3> QED BY <1>11, <2>1, <3>1, <3>7
  <2> QED BY <2>4, <2>5
<1> QED BY <1>1, <1>2, <1>3, <1>4, <1>5, <1>6, <1>7, <1>8, <1>9, <1>10, <1>12, <1>13

LEMMA MigrationStutters == MigrationInv /\ UNCHANGED migrationVars => MigrationInv'
<1> SUFFICES ASSUME MigrationInv, UNCHANGED migrationVars PROVE MigrationInv'
  OBVIOUS
<1>1. MigrationTypes' /\ (swallowed \subseteq disturbed)' /\ Grows
  BY DEF MigrationInv, MigrationTypes, migrationVars, Grows
<1>2. AllApplied'
  BY DEF MigrationInv, AllApplied, Applied, InEffect, migrationVars
<1>3. ASSUME NEW p \in Processes PROVE ProcessInv(p)'
  BY <1>1, ProcessKept DEF migrationVars, MigrationInv, MigrationTypes
<1> QED BY <1>1, <1>2, <1>3 DEF MigrationInv

LEMMA MigrationConverged == MigrationInv => MigrationConverges
<1> SUFFICES ASSUME MigrationInv, NEW p \in Processes
             PROVE  /\ step[p] = "open" => M!Complete \/ p \in swallowed
                    /\ step[p] = "failed" => p \in disturbed
  BY DEF MigrationConverges, M!MigrationConverges
<1>1. MigrationTypes /\ AllApplied /\ ProcessInv(p)
  BY DEF MigrationInv
<1>2. ASSUME step[p] = "open", p \notin swallowed PROVE M!Complete
  <2>1. /\ \A f \in DOMAIN Files[dialect] : \A i \in DOMAIN Files[dialect][f] : InEffect(Files[dialect][f][i])
        /\ \A t \in Tables : columns[t] # "tenant_id"
    BY <1>1, <1>2 DEF ProcessInv, AllApplied, Applied
  <2>2. ASSUME NEW t \in Tables PROVE columns[t] = "namespace_id"
    <3>1. PICK f \in DOMAIN Files[dialect] : \E i \in DOMAIN Files[dialect][f] :
            Files[dialect][f][i] = [op |-> "table", on |-> t]
      BY <1>1, FilesAssumption, Zenon DEF MigrationTypes
    <3>2. columns[t] # "none"
      BY <2>1, <3>1 DEF InEffect
    <3> QED BY <1>1, <2>1, <3>2 DEF MigrationTypes
  <2>3. ASSUME NEW f \in DOMAIN Files[dialect], NEW i \in DOMAIN Files[dialect][f],
               Files[dialect][f][i].op # "table"
        PROVE  Files[dialect][f][i] \in done
    BY <2>1, <2>3 DEF InEffect
  <2> QED BY <2>2, <2>3 DEF M!Complete
<1> QED BY <1>1, <1>2 DEF ProcessInv

----------------------------------------------------------------------------
(* The in-process messager.                                                *)

\* The messager flattens the chosen handlers of the filters that match, and one
\* filter matches at most.
LEMMA FlattenOne == ASSUME NEW s PROVE Q!FlattenSeq(<<s>>) = s
<1> DEFINE g == [i \in 1 .. 1 |-> s]
<1> DEFINE Rec(h) == h = [i \in 1 .. Len(<<s>>) |-> IF i = 1 THEN <<s>>[i] ELSE h[i - 1] \o <<s>>[i]]
<1>1. Len(<<s>>) = 1 /\ <<s>>[1] = s
  OBVIOUS
<1>2. Rec(g)
  BY <1>1
<1> DEFINE f == CHOOSE h : Rec(h)
<1>3. Rec(f)
  <2> HIDE DEF Rec, g
  <2> QED BY <1>2
<1>4. f[1] = s
  <2> HIDE DEF f
  <2> QED BY <1>1, <1>3
<1>5. Q!FlattenSeq(<<s>>) = f[1]
  BY <1>1 DEF Q!FlattenSeq
<1> QED BY <1>4, <1>5

LEMMA QCardinality == \A S : Q!Cardinality(S) = Cardinality(S)
  BY DEF Q!Cardinality, Cardinality

\* With one filter or none there is one order in which filters can be gone
\* through.
LEMMA OneOrder == ASSUME NEW f PROVE Q!SetToSeqs({f}) = {<<f>>}
<1>1. Q!Cardinality({f}) = 1
  BY FS_Singleton, QCardinality
<1>2. \A o : o \in Q!SetToSeqs({f}) <=> o \in [1 .. 1 -> {f}]
  BY <1>1 DEF Q!SetToSeqs
<1>3. \A o : o \in [1 .. 1 -> {f}] <=> o = <<f>>
  OBVIOUS
<1> QED BY <1>2, <1>3

LEMMA NoOrder == ASSUME NEW o \in Q!SetToSeqs({}) PROVE o = << >>
<1>1. Q!Cardinality({}) = 0
  BY FS_EmptySet, QCardinality
<1>2. o \in [1 .. 0 -> {}]
  BY <1>1 DEF Q!SetToSeqs
<1> QED BY <1>2

\* A topic begins with the prefix; the rest follows.
LEMMA Prefixed ==
  ASSUME NEW S, "flowgent" \in S, "v1" \in S, NEW r \in Seq(S), NEW t, t = Q!TopicPrefix \o r
  PROVE  /\ Len(t) = Len(r) + 2 /\ DOMAIN t = 1 .. Len(r) + 2
         /\ \A i \in 1 .. Len(r) : t[i + 2] = r[i]
         /\ t[1] = "flowgent" /\ t[2] = "v1"
<1> DEFINE p == <<"flowgent", "v1">>
<1>1. p \in Seq(S) /\ Len(p) = 2 /\ p[1] = "flowgent" /\ p[2] = "v1"
  OBVIOUS
<1>2. t = p \o r
  BY DEF Q!TopicPrefix
<1> HIDE DEF p
<1>3. /\ Len(t) = 2 + Len(r) /\ t \in Seq(S) /\ Len(r) \in Nat
      /\ \A i \in 1 .. 2 + Len(r) : t[i] = IF i <= 2 THEN p[i] ELSE r[i - 2]
  BY <1>1, <1>2, ConcatProperties
<1>4. t[1] = p[1] /\ t[2] = p[2]
  BY <1>1, <1>3
<1>5. ASSUME NEW i \in 1 .. Len(r) PROVE t[i + 2] = r[i]
  BY <1>3
<1> QED BY <1>1, <1>3, <1>4, <1>5

LEMMA RunTopics ==
  ASSUME NEW a, NEW part, NEW what, NEW t, t = Q!RunTopic(a, part, what)
  PROVE  /\ Len(t) = 9 /\ DOMAIN t = 1 .. 9
         /\ t[1] = "flowgent" /\ t[2] = "v1" /\ t[3] = a.ns /\ t[4] = "flows" /\ t[5] = a.flow
         /\ t[6] = "runs" /\ t[7] = a.run /\ t[8] = part /\ t[9] = what
<1> DEFINE r == <<a.ns, "flows", a.flow, "runs", a.run, part, what>>
           S == {"flowgent", "v1", a.ns, "flows", a.flow, "runs", a.run, part, what}
<1>1. t = Q!TopicPrefix \o r
  BY DEF Q!RunTopic
<1>2. r \in Seq(S) /\ Len(r) = 7 /\ "flowgent" \in S /\ "v1" \in S
  OBVIOUS
<1>3. /\ r[1] = a.ns /\ r[2] = "flows" /\ r[3] = a.flow /\ r[4] = "runs" /\ r[5] = a.run /\ r[6] = part
      /\ r[7] = what
  OBVIOUS
<1> HIDE DEF r, S
<1>4. /\ Len(t) = Len(r) + 2 /\ DOMAIN t = 1 .. Len(r) + 2 /\ t[1] = "flowgent" /\ t[2] = "v1"
      /\ \A i \in 1 .. Len(r) : t[i + 2] = r[i]
  BY <1>1, <1>2, Prefixed, Zenon
<1>5. /\ t[1 + 2] = r[1] /\ t[2 + 2] = r[2] /\ t[3 + 2] = r[3] /\ t[4 + 2] = r[4] /\ t[5 + 2] = r[5]
      /\ t[6 + 2] = r[6] /\ t[7 + 2] = r[7]
  BY <1>2, <1>4
<1> QED BY <1>2, <1>3, <1>4, <1>5

\* The kinds whose topics name a run.
RunKinds == {"plans", "results", "trigger", "scriptResult", "signRequest", "signResponse", "notify"}

\* The last level of the topics of a run.
What(kind) ==
  CASE kind = "plans" -> "plans" [] kind = "results" -> "results" [] kind = "trigger" -> "trigger"
    [] kind = "scriptResult" -> "result" [] kind = "signRequest" -> "request"
    [] kind = "signResponse" -> "response" [] OTHER -> "event"

\* The level before it.
Part(kind) ==
  CASE kind \in {"plans", "results"} -> "exec" [] kind \in {"trigger", "scriptResult"} -> "sandbox"
    [] kind \in {"signRequest", "signResponse"} -> "sign" [] OTHER -> "notify"

Wild == [ns |-> "+", flow |-> "+", run |-> "+"]

LEMMA RunTopicOf ==
  ASSUME NEW kind \in RunKinds, NEW a
  PROVE  Q!TopicOf(kind, a) = Q!RunTopic(a, Part(kind), What(kind))
  BY DEF Q!TopicOf, RunKinds, Part, What, Q!ExecPlansTopic, Q!ExecResultsTopic, Q!SandboxTriggerTopic,
     Q!SandboxResultTopic, Q!SignRequestTopic, Q!SignResponseTopic, Q!NotifyEventTopic

LEMMA SharedFilterOf ==
  ASSUME NEW kind \in Q!SharedKinds, NEW a
  PROVE  /\ Q!FilterOf(kind, a).parts = Q!RunTopic(Wild, Part(kind), What(kind))
         /\ Q!FilterOf(kind, a).group # ""
         /\ \A b : Q!FilterOf(kind, b) = Q!FilterOf(kind, a)
  BY DEF Q!SharedKinds, Q!FilterOf, Q!SharedExecPlans, Q!SharedSandboxTrigger, Q!SharedSignRequest,
     Q!NotifyQueueWildcard, Q!Shared, Q!RunTopic, Wild, Part, What

LEMMA OwnFilterOf ==
  ASSUME NEW kind \in {"results", "scriptResult", "signResponse"}, NEW a
  PROVE  /\ Q!FilterOf(kind, a) = [group |-> "", parts |-> Q!RunTopic(a, Part(kind), What(kind))]
         /\ Q!FilterOf(kind, a).group = "" /\ Q!FilterOf(kind, a).parts = Q!RunTopic(a, Part(kind), What(kind))
  BY RunTopicOf DEF Q!FilterOf, Q!Plain, RunKinds

LEMMA HeartbeatTopics ==
  ASSUME NEW x, NEW t, t = Q!TopicPrefix \o <<"heartbeat", x>>
  PROVE  Len(t) = 4 /\ DOMAIN t = 1 .. 4 /\ t[1] = "flowgent" /\ t[2] = "v1" /\ t[3] = "heartbeat" /\ t[4] = x
<1> DEFINE r == <<"heartbeat", x>>
           S == {"flowgent", "v1", "heartbeat", x}
<1>1. r \in Seq(S) /\ Len(r) = 2 /\ "flowgent" \in S /\ "v1" \in S /\ r[1] = "heartbeat" /\ r[2] = x
  OBVIOUS
<1>2. t = Q!TopicPrefix \o r
  OBVIOUS
<1> HIDE DEF r, S
<1>3. /\ Len(t) = Len(r) + 2 /\ DOMAIN t = 1 .. Len(r) + 2 /\ t[1] = "flowgent" /\ t[2] = "v1"
      /\ \A i \in 1 .. Len(r) : t[i + 2] = r[i]
  BY <1>1, <1>2, Prefixed, Zenon
<1>4. t[1 + 2] = r[1] /\ t[2 + 2] = r[2]
  BY <1>1, <1>3
<1> QED BY <1>1, <1>3, <1>4

LEMMA PushTopics ==
  ASSUME NEW x, NEW y, NEW t, t = Q!NotifyPodWSTopic(x, y)
  PROVE  /\ Len(t) = 7 /\ DOMAIN t = 1 .. 7 /\ t[1] = "flowgent" /\ t[2] = "v1" /\ t[3] = "notify" /\ t[4] = "pod"
         /\ t[5] = x /\ t[6] = "ws" /\ t[7] = y
<1> DEFINE r == <<"notify", "pod", x, "ws", y>>
           S == {"flowgent", "v1", "notify", "pod", "ws", x, y}
<1>1. r \in Seq(S) /\ Len(r) = 5 /\ "flowgent" \in S /\ "v1" \in S
  OBVIOUS
<1>2. r[1] = "notify" /\ r[2] = "pod" /\ r[3] = x /\ r[4] = "ws" /\ r[5] = y
  OBVIOUS
<1>3. t = Q!TopicPrefix \o r
  BY DEF Q!NotifyPodWSTopic
<1> HIDE DEF r, S
<1>4. /\ Len(t) = Len(r) + 2 /\ DOMAIN t = 1 .. Len(r) + 2 /\ t[1] = "flowgent" /\ t[2] = "v1"
      /\ \A i \in 1 .. Len(r) : t[i + 2] = r[i]
  BY <1>1, <1>3, Prefixed, Zenon
<1>5. t[1 + 2] = r[1] /\ t[2 + 2] = r[2] /\ t[3 + 2] = r[3] /\ t[4 + 2] = r[4] /\ t[5 + 2] = r[5]
  BY <1>1, <1>4
<1> QED BY <1>1, <1>2, <1>4, <1>5

\* Whether a listener at b for the kind is one a message of the kind to a is for.
SameAddr(kind, a, b) ==
  /\ kind \in {"results", "scriptResult", "signResponse"} => b.ns = a.ns /\ b.flow = a.flow /\ b.run = a.run
  /\ kind = "push" => b.pod = a.pod

\* What a filter asks of a topic, by kind.
LEMMA FilterShape ==
  ASSUME NEW kind \in Q!Kinds, NEW a, NEW f, f = Q!FilterOf(kind, a)
  PROVE  /\ kind \in RunKinds => Len(f.parts) = 9 /\ f.parts[9] = What(kind) /\ f.parts[8] = Part(kind)
         /\ kind \in Q!SharedKinds =>
              /\ f.parts[1] = "flowgent" /\ f.parts[2] = "v1" /\ f.parts[4] = "flows" /\ f.parts[6] = "runs"
              /\ f.parts[3] = "+" /\ f.parts[5] = "+" /\ f.parts[7] = "+"
         /\ kind \in {"results", "scriptResult", "signResponse"} =>
              /\ f.parts[1] = "flowgent" /\ f.parts[2] = "v1" /\ f.parts[4] = "flows" /\ f.parts[6] = "runs"
              /\ f.parts[3] = a.ns /\ f.parts[5] = a.flow /\ f.parts[7] = a.run
         /\ kind = "heartbeat" =>
              /\ Len(f.parts) = 4 /\ f.parts[1] = "flowgent" /\ f.parts[2] = "v1" /\ f.parts[3] = "heartbeat"
              /\ f.parts[4] = "+"
         /\ kind = "push" =>
              /\ Len(f.parts) = 7 /\ f.parts[1] = "flowgent" /\ f.parts[2] = "v1" /\ f.parts[3] = "notify"
              /\ f.parts[4] = "pod" /\ f.parts[5] = a.pod /\ f.parts[6] = "ws" /\ f.parts[7] = "+"
<1>1. CASE kind \in Q!SharedKinds
  <2>1. f.parts = Q!RunTopic(Wild, Part(kind), What(kind)) /\ Wild.ns = "+" /\ Wild.flow = "+" /\ Wild.run = "+"
    BY <1>1, SharedFilterOf DEF Wild
  <2>2. kind \notin {"heartbeat", "push", "results", "scriptResult", "signResponse"}
    BY <1>1 DEF Q!SharedKinds
  <2> QED BY <2>1, <2>2, RunTopics
<1>2. CASE kind \in {"results", "scriptResult", "signResponse"}
  <2>1. f.parts = Q!RunTopic(a, Part(kind), What(kind))
    BY <1>2, OwnFilterOf
  <2>2. kind \notin Q!SharedKinds \union {"heartbeat", "push"}
    BY <1>2 DEF Q!SharedKinds
  <2> QED BY <2>1, <2>2, RunTopics
<1>3. CASE kind = "heartbeat"
  <2>1. f.parts = Q!TopicPrefix \o <<"heartbeat", "+">>
    BY <1>3 DEF Q!FilterOf, Q!Plain, Q!HeartbeatWildcard
  <2> QED BY <1>3, <2>1, HeartbeatTopics DEF RunKinds, Q!SharedKinds
<1>4. CASE kind = "push"
  <2>1. f.parts = Q!TopicPrefix \o <<"notify", "pod", a.pod, "ws", "+">>
    BY <1>4 DEF Q!FilterOf, Q!Plain, Q!NotifyPodWSWildcard
  <2>2. /\ Len(f.parts) = 7 /\ f.parts[1] = "flowgent" /\ f.parts[2] = "v1" /\ f.parts[3] = "notify"
        /\ f.parts[4] = "pod" /\ f.parts[5] = a.pod /\ f.parts[6] = "ws" /\ f.parts[7] = "+"
    <3>1. f.parts = Q!NotifyPodWSTopic(a.pod, "+")
      BY <2>1 DEF Q!NotifyPodWSTopic
    <3> QED BY <3>1, PushTopics
  <2> QED BY <1>4, <2>2 DEF RunKinds, Q!SharedKinds
<1> QED BY <1>1, <1>2, <1>3, <1>4 DEF Q!Kinds, Q!SharedKinds, RunKinds

\* The levels of a topic, by kind.
LEMMA TopicShape ==
  ASSUME NEW kind \in Q!Kinds, NEW a, NEW t, t = Q!TopicOf(kind, a)
  PROVE  /\ kind \in RunKinds =>
              /\ Len(t) = 9 /\ DOMAIN t = 1 .. 9 /\ t[9] = What(kind) /\ t[8] = Part(kind)
              /\ t[1] = "flowgent" /\ t[2] = "v1" /\ t[4] = "flows" /\ t[6] = "runs"
              /\ t[3] = a.ns /\ t[5] = a.flow /\ t[7] = a.run
         /\ kind = "heartbeat" =>
              /\ Len(t) = 4 /\ DOMAIN t = 1 .. 4 /\ t[1] = "flowgent" /\ t[2] = "v1" /\ t[3] = "heartbeat"
              /\ t[4] = a.pod
         /\ kind = "push" =>
              /\ Len(t) = 7 /\ DOMAIN t = 1 .. 7 /\ t[1] = "flowgent" /\ t[2] = "v1" /\ t[3] = "notify"
              /\ t[4] = "pod" /\ t[5] = a.pod /\ t[6] = "ws" /\ t[7] = a.run
<1>1. CASE kind \in RunKinds
  <2>1. t = Q!RunTopic(a, Part(kind), What(kind))
    BY <1>1, RunTopicOf
  <2> QED BY <1>1, <2>1, RunTopics DEF RunKinds
<1>2. CASE kind = "heartbeat"
  <2>1. t = Q!TopicPrefix \o <<"heartbeat", a.pod>>
    BY <1>2 DEF Q!TopicOf, Q!HeartbeatTopic
  <2> QED BY <1>2, <2>1, HeartbeatTopics DEF RunKinds
<1>3. CASE kind = "push"
  <2>1. t = Q!NotifyPodWSTopic(a.pod, a.run)
    BY <1>3 DEF Q!TopicOf
  <2> QED BY <1>3, <2>1, PushTopics DEF RunKinds
<1> QED BY <1>1, <1>2, <1>3 DEF Q!Kinds, RunKinds

\* A subscription catches the messages of its own kind and address, and no others.
LEMMA OnlyOwnMatch ==
  ASSUME NEW kind \in Q!Kinds, NEW k2 \in Q!Kinds, NEW a, NEW b,
         "+" \notin {a.ns, a.flow, a.run, a.pod, b.ns, b.flow, b.run, b.pod}
  PROVE  Q!TopicMatch(Q!FilterOf(k2, b), Q!TopicOf(kind, a)) <=> k2 = kind /\ SameAddr(kind, a, b)
<1> DEFINE f == Q!FilterOf(k2, b)
           t == Q!TopicOf(kind, a)
<1>1. /\ kind \in RunKinds \/ kind = "heartbeat" \/ kind = "push"
      /\ k2 \in Q!SharedKinds \/ k2 \in {"results", "scriptResult", "signResponse"} \/ k2 = "heartbeat" \/ k2 = "push"
      /\ Q!SharedKinds \subseteq RunKinds /\ {"results", "scriptResult", "signResponse"} \subseteq RunKinds
      /\ ~("heartbeat" \in RunKinds) /\ ~("push" \in RunKinds)
      /\ \A k \in Q!SharedKinds : k \notin {"results", "scriptResult", "signResponse"} 
  BY DEF Q!Kinds, RunKinds, Q!SharedKinds
<1>2. \A k, j \in RunKinds : What(k) = What(j) => k = j
  BY DEF RunKinds, What
<1>3. \A k \in RunKinds : What(k) # "+" /\ Part(k) # "+"
  BY DEF RunKinds, What, Part
<1>4. ASSUME Q!TopicMatch(f, t) PROVE k2 = kind
  <2>1. Len(f.parts) = Len(t) /\ \A i \in DOMAIN t : f.parts[i] \in {"+", t[i]}
    BY <1>4 DEF Q!TopicMatch
  <2> HIDE DEF f, t
  <2>2. CASE kind \in RunKinds
    <3>1. Len(t) = 9 /\ DOMAIN t = 1 .. 9 /\ t[9] = What(kind)
      BY <2>2, TopicShape DEF t
    <3>2. k2 \in RunKinds
      <4>1. k2 = "heartbeat" => Len(f.parts) = 4
        BY FilterShape DEF f
      <4>2. k2 = "push" => Len(f.parts) = 7
        BY FilterShape DEF f
      <4> QED BY <1>1, <2>1, <3>1, <4>1, <4>2
    <3>3. f.parts[9] = What(k2)
      BY <3>2, FilterShape DEF f
    <3>4. What(k2) = What(kind)
      BY <1>3, <2>1, <3>1, <3>2, <3>3
    <3> QED BY <1>2, <2>2, <3>2, <3>4
  <2>3. CASE kind = "heartbeat"
    <3>1. Len(t) = 4
      BY <2>3, TopicShape DEF t
    <3>2. k2 \in RunKinds => Len(f.parts) = 9
      BY FilterShape DEF f
    <3>3. k2 = "push" => Len(f.parts) = 7
      BY FilterShape DEF f
    <3> QED BY <1>1, <2>1, <2>3, <3>1, <3>2, <3>3
  <2>4. CASE kind = "push"
    <3>1. Len(t) = 7
      BY <2>4, TopicShape DEF t
    <3>2. k2 \in RunKinds => Len(f.parts) = 9
      BY FilterShape DEF f
    <3>3. k2 = "heartbeat" => Len(f.parts) = 4
      BY FilterShape DEF f
    <3> QED BY <1>1, <2>1, <2>4, <3>1, <3>2, <3>3
  <2> QED BY <1>1, <2>2, <2>3, <2>4
<1>5. ASSUME k2 = kind PROVE Q!TopicMatch(f, t) <=> SameAddr(kind, a, b)
  <2> HIDE DEF f, t
  <2>1. CASE kind \in Q!SharedKinds
    <3>1. /\ Len(t) = 9 /\ DOMAIN t = 1 .. 9 /\ t[9] = What(kind) /\ t[8] = Part(kind)
          /\ t[1] = "flowgent" /\ t[2] = "v1" /\ t[4] = "flows" /\ t[6] = "runs"
      BY <1>1, <2>1, TopicShape DEF t
    <3>2. /\ Len(f.parts) = 9 /\ f.parts[9] = What(kind) /\ f.parts[8] = Part(kind)
          /\ f.parts[1] = "flowgent" /\ f.parts[2] = "v1" /\ f.parts[4] = "flows" /\ f.parts[6] = "runs"
          /\ f.parts[3] = "+" /\ f.parts[5] = "+" /\ f.parts[7] = "+"
      BY <1>1, <1>5, <2>1, FilterShape DEF f
    <3>3. SameAddr(kind, a, b)
      BY <1>1, <2>1 DEF SameAddr
    <3>4. Q!TopicMatch(f, t)
      BY <3>1, <3>2 DEF Q!TopicMatch
    <3> QED BY <3>3, <3>4
  <2>2. CASE kind \in {"results", "scriptResult", "signResponse"}
    <3>1. /\ Len(t) = 9 /\ DOMAIN t = 1 .. 9 /\ t[9] = What(kind) /\ t[8] = Part(kind)
          /\ t[1] = "flowgent" /\ t[2] = "v1" /\ t[4] = "flows" /\ t[6] = "runs"
          /\ t[3] = a.ns /\ t[5] = a.flow /\ t[7] = a.run
      BY <1>1, <2>2, TopicShape DEF t
    <3>2. /\ Len(f.parts) = 9 /\ f.parts[9] = What(kind) /\ f.parts[8] = Part(kind)
          /\ f.parts[1] = "flowgent" /\ f.parts[2] = "v1" /\ f.parts[4] = "flows" /\ f.parts[6] = "runs"
          /\ f.parts[3] = b.ns /\ f.parts[5] = b.flow /\ f.parts[7] = b.run
      BY <1>1, <1>5, <2>2, FilterShape DEF f
    <3>3. Q!TopicMatch(f, t) <=> b.ns = a.ns /\ b.flow = a.flow /\ b.run = a.run
      BY <3>1, <3>2 DEF Q!TopicMatch
    <3> QED BY <2>2, <3>3 DEF SameAddr
  <2>3. CASE kind = "heartbeat"
    <3>1. /\ Len(t) = 4 /\ DOMAIN t = 1 .. 4 /\ t[1] = "flowgent" /\ t[2] = "v1" /\ t[3] = "heartbeat"
      BY <2>3, TopicShape DEF t
    <3>2. /\ Len(f.parts) = 4 /\ f.parts[1] = "flowgent" /\ f.parts[2] = "v1" /\ f.parts[3] = "heartbeat"
          /\ f.parts[4] = "+"
      BY <1>5, <2>3, FilterShape DEF f
    <3>3. SameAddr(kind, a, b)
      BY <2>3 DEF SameAddr
    <3>4. Q!TopicMatch(f, t)
      BY <3>1, <3>2 DEF Q!TopicMatch
    <3> QED BY <3>3, <3>4
  <2>4. CASE kind = "push"
    <3>1. /\ Len(t) = 7 /\ DOMAIN t = 1 .. 7 /\ t[1] = "flowgent" /\ t[2] = "v1" /\ t[3] = "notify"
          /\ t[4] = "pod" /\ t[5] = a.pod /\ t[6] = "ws"
      BY <2>4, TopicShape DEF t
    <3>2. /\ Len(f.parts) = 7 /\ f.parts[1] = "flowgent" /\ f.parts[2] = "v1" /\ f.parts[3] = "notify"
          /\ f.parts[4] = "pod" /\ f.parts[5] = b.pod /\ f.parts[6] = "ws" /\ f.parts[7] = "+"
      BY <1>5, <2>4, FilterShape DEF f
    <3>3. Q!TopicMatch(f, t) <=> b.pod = a.pod
      BY <3>1, <3>2 DEF Q!TopicMatch
    <3> QED BY <2>4, <3>3 DEF SameAddr
  <2> QED BY <1>1, <1>5, <2>1, <2>2, <2>3, <2>4
<1> QED BY <1>4, <1>5

\* Those a message is for share one subscription, shared if the work is.
LEMMA OneFilter ==
  ASSUME NEW kind \in Q!Kinds, NEW a, NEW b, SameAddr(kind, a, b)
  PROVE  Q!FilterOf(kind, a) = Q!FilterOf(kind, b)
<1>1. CASE kind \in Q!SharedKinds
  BY <1>1, SharedFilterOf
<1>2. CASE kind \in {"results", "scriptResult", "signResponse"}
  BY <1>2, OwnFilterOf DEF SameAddr, Q!RunTopic
<1>3. CASE kind \in {"heartbeat", "push"}
  BY <1>3 DEF SameAddr, Q!FilterOf, Q!NotifyPodWSWildcard
<1> QED BY <1>1, <1>2, <1>3 DEF Q!Kinds, Q!SharedKinds

\* Whether a subscription is shared depends on the kind alone.
LEMMA SharedByKind ==
  ASSUME NEW kind \in Q!Kinds, NEW a
  PROVE  Q!IsShared(Q!FilterOf(kind, a)) <=> kind \in Q!SharedKinds
<1>1. CASE kind \in Q!SharedKinds
  BY <1>1, SharedFilterOf DEF Q!IsShared
<1>2. CASE kind \in {"results", "scriptResult", "signResponse"}
  BY <1>2, OwnFilterOf DEF Q!IsShared, Q!SharedKinds
<1>3. CASE kind \in {"heartbeat", "push"}
  BY <1>3 DEF Q!FilterOf, Q!IsShared, Q!SharedKinds, Q!Plain
<1> QED BY <1>1, <1>2, <1>3 DEF Q!Kinds, Q!SharedKinds

Message == [kind : Q!Kinds, for : SUBSET Listeners, to : Seq(Listeners), heard : SUBSET Listeners]

\* A handler stands once, under the filter it subscribed with.
Subscriptions ==
  /\ subs \in [DOMAIN subs -> Seq(Listeners)] /\ next \in [DOMAIN next -> Nat] /\ open \in BOOLEAN
  /\ open => DOMAIN next = DOMAIN subs
  /\ ~open => DOMAIN subs = {}
  /\ \A f \in DOMAIN subs :
       /\ subs[f] # << >> /\ next[f] <= Len(subs[f])
       /\ \A i \in DOMAIN subs[f] : Q!FilterOf(subs[f][i].kind, subs[f][i].addr) = f
       /\ \A i, j \in DOMAIN subs[f] : subs[f][i] = subs[f][j] => i = j

\* A message that is being delivered has one publisher, who has still to call
\* the chosen handlers that have not heard it.
Delivering ==
  /\ callees \in [Publishers -> Seq(Listeners)] /\ msg \in [Publishers -> 0 .. Len(log)] /\ log \in Seq(Message)
  /\ \A p \in Publishers : callees[p] # << >> =>
       /\ msg[p] \in DOMAIN log
       /\ log[msg[p]].heard \union Q!ToSet(callees[p]) = Q!ToSet(log[msg[p]].to)
       /\ \A q \in Publishers : callees[q] # << >> /\ msg[q] = msg[p] => q = p
  /\ \A i \in DOMAIN log : Q!Done(i) => log[i].heard = Q!ToSet(log[i].to)

\* Chosen are those a message is for, or one of them.
ChosenRight ==
  \A i \in DOMAIN log :
    IF log[i].kind \in Q!SharedKinds /\ log[i].for # {}
    THEN \E l \in log[i].for : log[i].to = <<l>>
    ELSE Q!ToSet(log[i].to) = log[i].for

\* The messages of the kind of the i-th of s, from that one to the j-th.
Round(s, i, j) == {k \in i .. j : s[k].kind = s[i].kind}

\* A message that went to a worker of a pool.
Pooled(i) == log[i].kind \in Q!SharedKinds /\ log[i].to # << >>

\* How far the turns of the pool have come since the i-th message went to the
\* worker at position pos: so far that all had one, or up to the turn before
\* next, on from pos or round from the first.
TurnsTaken(i) ==
  \A f \in DOMAIN subs : \A pos \in DOMAIN subs[f] :
    log[i].to = <<subs[f][pos]>> =>
      LET c == Cardinality(Round(log, i, Len(log)))
          all == Cardinality(log[i].for)
      IN /\ all <= Len(subs[f])
         /\ \/ c >= all
            \/ next[f] >= pos /\ c + pos >= next[f] + 1
            \/ next[f] < pos /\ c + pos >= all + next[f] + 1

\* Every message to a pool counts from its worker on.
Turns ==
  \A i \in DOMAIN log : Pooled(i) =>
    /\ log[i].to[1].kind = log[i].kind /\ (open => log[i].to[1] \in Q!Subscribed)
    /\ Cardinality(log[i].for) \in Nat /\ TurnsTaken(i)

\* Before a worker gets the next message, all there were at its last had one.
Fair ==
  \A i, j \in DOMAIN log :
    i < j /\ log[i].kind = log[j].kind /\ Pooled(i) /\ log[i].to = log[j].to
    => Cardinality(Round(log, i, j - 1)) >= Cardinality(log[i].for)

\* What every step of the messager preserves.
MessagerInv == Subscriptions /\ Delivering /\ ChosenRight /\ Turns /\ Fair

LEMMA MessagerInitial == Q!Init => MessagerInv
<1> SUFFICES ASSUME Q!Init PROVE MessagerInv
  OBVIOUS
<1>1. subs = << >> /\ next = << >> /\ open = TRUE /\ log = << >> /\ DOMAIN subs = {} /\ DOMAIN next = {} /\ DOMAIN log = {}
      /\ callees = [p \in Publishers |-> << >>] /\ msg = [p \in Publishers |-> 0]
  BY DEF Q!Init
<1>2. Subscriptions
  BY <1>1 DEF Subscriptions
<1>3. Delivering
  BY <1>1 DEF Delivering
<1>4. ChosenRight /\ Turns /\ Fair
  BY <1>1 DEF ChosenRight, Turns, Fair
<1> QED BY <1>2, <1>3, <1>4 DEF MessagerInv

\* The turn after n of m workers.
LEMMA Remainder ==
  ASSUME NEW L \in Nat, NEW n \in 0 .. L, L # 0
  PROVE  n % L = IF n = L THEN 0 ELSE n
  OBVIOUS

\* Under one filter stand all a message is for.
All(f) == IF f \in DOMAIN subs THEN Q!ToSet(subs[f]) ELSE {}

\* At most one filter matches a message: the one those it is for stand under.
LEMMA Matched ==
  ASSUME Subscriptions, NEW kind \in Q!Kinds, NEW a \in Addresses
  PROVE  /\ Q!Matching(Q!TopicOf(kind, a)) = {Q!FilterOf(kind, a)} \intersect DOMAIN subs
         /\ Q!For(kind, a) = All(Q!FilterOf(kind, a))
<1> DEFINE t == Q!TopicOf(kind, a)
           own == Q!FilterOf(kind, a)
<1>1. \A x \in Addresses : "+" \notin {x.ns, x.flow, x.run, x.pod}
  BY AddressesAssumption
<1>2. \A l \in Listeners : l.kind \in Q!Kinds /\ l.addr \in Addresses
  BY AddressesAssumption
<1>3. \A f \in DOMAIN subs : \A i \in DOMAIN subs[f] :
        subs[f][i] \in Listeners /\ Q!FilterOf(subs[f][i].kind, subs[f][i].addr) = f
  BY DEF Subscriptions
<1>4. \A l \in Listeners : Q!TopicMatch(Q!FilterOf(l.kind, l.addr), t) <=> l.kind = kind /\ SameAddr(kind, a, l.addr)
  BY <1>1, <1>2, OnlyOwnMatch
<1>5. Q!TopicMatch(own, t)
  <2>1. SameAddr(kind, a, a)
    BY DEF SameAddr
  <2> QED BY <1>1, <2>1, OnlyOwnMatch
<1>6. \A l \in Listeners : l.kind = kind /\ SameAddr(kind, a, l.addr) => Q!FilterOf(l.kind, l.addr) = own
  BY <1>2, OneFilter
<1> HIDE DEF t, own
<1>7. ASSUME NEW f \in DOMAIN subs PROVE Q!TopicMatch(f, t) <=> f = own
  <2>1. 1 \in DOMAIN subs[f]
    BY DEF Subscriptions
  <2> QED BY <1>3, <1>4, <1>5, <1>6, <2>1
<1>8. Q!Matching(t) = {own} \intersect DOMAIN subs
  BY <1>7 DEF Q!Matching
<1>9. ASSUME NEW l PROVE l \in Q!For(kind, a) <=> l \in All(own)
  <2>1. l \in Q!For(kind, a) <=> l \in Q!Subscribed /\ l.kind = kind /\ SameAddr(kind, a, l.addr)
    BY DEF Q!For, SameAddr
  <2>2. l \in Q!Subscribed <=> \E f \in DOMAIN subs : \E i \in DOMAIN subs[f] : l = subs[f][i]
    BY DEF Q!Subscribed, Q!ToSet
  <2>3. l \in All(own) <=> own \in DOMAIN subs /\ \E i \in DOMAIN subs[own] : l = subs[own][i]
    BY DEF All, Q!ToSet
  <2>4. ASSUME l \in Q!For(kind, a) PROVE l \in All(own)
    <3>1. PICK f \in DOMAIN subs : \E i \in DOMAIN subs[f] : l = subs[f][i]
      BY <2>1, <2>2, <2>4
    <3>2. l \in Listeners /\ Q!FilterOf(l.kind, l.addr) = f
      BY <1>3, <3>1
    <3>3. f = own
      BY <1>6, <2>1, <2>4, <3>2
    <3> QED BY <2>3, <3>1, <3>3
  <2>5. ASSUME l \in All(own) PROVE l \in Q!For(kind, a)
    <3>1. l \in Q!Subscribed /\ l \in Listeners /\ Q!FilterOf(l.kind, l.addr) = own
      BY <1>3, <2>2, <2>3, <2>5
    <3> QED BY <1>4, <1>5, <2>1, <3>1
  <2> QED BY <2>4, <2>5
<1> QED BY <1>8, <1>9 DEF t, own

\* What Publish does, in terms of the one filter that matches.
Published(p, kind, f, to) ==
  /\ subs' = subs /\ open' = open
  /\ callees' = [callees EXCEPT ![p] = to] /\ msg' = [msg EXCEPT ![p] = Len(log) + 1]
  /\ log' = Append(log, [kind |-> kind, for |-> All(f), to |-> to, heard |-> {}])
  /\ next' = [g \in DOMAIN next |->
                IF g = f /\ f \in DOMAIN subs /\ kind \in Q!SharedKinds THEN Q!Turn(f) + 1 ELSE next[g]]
  /\ to = IF f \notin DOMAIN subs THEN << >>
          ELSE IF kind \in Q!SharedKinds THEN <<subs[f][Q!Turn(f) + 1]>> ELSE subs[f]

\* A Publish is a step of that form.
LEMMA Publishing ==
  ASSUME Subscriptions, NEW p \in Publishers, NEW kind \in Q!Kinds, NEW a \in Addresses, Q!Publish(p, kind, a)
  PROVE  \E to : Published(p, kind, Q!FilterOf(kind, a), to)
<1> DEFINE f == Q!FilterOf(kind, a)
           m == Q!Matching(Q!TopicOf(kind, a))
<1>1. m = {f} \intersect DOMAIN subs /\ Q!For(kind, a) = All(f)
  BY Matched
<1>2. Q!IsShared(f) <=> kind \in Q!SharedKinds
  BY SharedByKind
<1>3. PICK order \in Q!SetToSeqs(m) :
        LET to == Q!FlattenSeq([i \in DOMAIN order |-> Q!Chosen(order[i])])
        IN /\ callees' = [callees EXCEPT ![p] = to]
           /\ log' = Append(log, [kind |-> kind, for |-> Q!For(kind, a), to |-> to, heard |-> {}])
  BY DEF Q!Publish
<1>4. next' = [g \in DOMAIN next |-> IF g \in m /\ Q!IsShared(g) THEN Q!Turn(g) + 1 ELSE next[g]]
  BY DEF Q!Publish
<1>5. msg' = [msg EXCEPT ![p] = Len(log) + 1] /\ subs' = subs /\ open' = open
  BY DEF Q!Publish
<1> HIDE DEF f, m
<1> DEFINE to == Q!FlattenSeq([i \in DOMAIN order |-> Q!Chosen(order[i])])
<1>6. to = IF f \notin DOMAIN subs THEN << >> ELSE Q!Chosen(f)
  <2>1. CASE f \in DOMAIN subs
    <3>1. order = <<f>>
      <4>1. m = {f}
        BY <1>1, <2>1
      <4> QED BY <4>1, OneOrder, Zenon
    <3>2. [i \in DOMAIN order |-> Q!Chosen(order[i])] = <<Q!Chosen(f)>>
      BY <3>1
    <3> QED BY <2>1, <3>2, FlattenOne
  <2>2. CASE f \notin DOMAIN subs
    <3>1. order = << >>
      BY <1>1, <2>2, NoOrder
    <3>2. [i \in DOMAIN order |-> Q!Chosen(order[i])] = << >>
      BY <3>1
    <3>3. Q!FlattenSeq(<< >>) = << >>
      BY DEF Q!FlattenSeq
    <3> QED BY <2>2, <3>2, <3>3
  <2> QED BY <2>1, <2>2
<1>7. Published(p, kind, f, to)
  <2>1. callees' = [callees EXCEPT ![p] = to] /\ log' = Append(log, [kind |-> kind, for |-> All(f), to |-> to, heard |-> {}])
    BY <1>1, <1>3
  <2> HIDE DEF to
  <2>2. next' = [g \in DOMAIN next |->
                   IF g = f /\ f \in DOMAIN subs /\ kind \in Q!SharedKinds THEN Q!Turn(f) + 1 ELSE next[g]]
    BY <1>1, <1>2, <1>4
  <2>3. to = IF f \notin DOMAIN subs THEN << >>
             ELSE IF kind \in Q!SharedKinds THEN <<subs[f][Q!Turn(f) + 1]>> ELSE subs[f]
    BY <1>2, <1>6 DEF Q!Chosen
  <2> QED BY <1>5, <2>1, <2>2, <2>3 DEF Published
<1> QED BY <1>7 DEF f

LEMMA RoundFinite ==
  ASSUME NEW s, NEW i \in Nat, NEW j \in Nat
  PROVE  IsFiniteSet(Round(s, i, j)) /\ Cardinality(Round(s, i, j)) \in Nat
<1>1. IsFiniteSet(i .. j) /\ Round(s, i, j) \subseteq i .. j
  BY FS_Interval DEF Round
<1> QED BY <1>1, FS_Subset, FS_CardinalityType

\* A further message counts if it is of the kind.
LEMMA RoundGrows ==
  ASSUME NEW s \in Seq(Message), NEW e, NEW i \in DOMAIN s
  PROVE  /\ \A j \in 0 .. Len(s) : Round(Append(s, e), i, j) = Round(s, i, j)
         /\ Cardinality(Round(Append(s, e), i, Len(s) + 1)) =
              Cardinality(Round(s, i, Len(s))) + IF e.kind = s[i].kind THEN 1 ELSE 0
<1> DEFINE t == Append(s, e)
           n == Len(s)
<1>1. i \in 1 .. n /\ n \in Nat /\ t[n + 1] = e /\ \A k \in 1 .. n : t[k] = s[k]
  OBVIOUS
<1> HIDE DEF t, n
<1>2. ASSUME NEW j \in 0 .. n PROVE Round(t, i, j) = Round(s, i, j)
  <2>1. \A k \in i .. j : t[k] = s[k] /\ t[i] = s[i]
    BY <1>1
  <2> QED BY <2>1 DEF Round
<1>3. Round(t, i, n) = Round(s, i, n)
  BY <1>1, <1>2
<1>4. IsFiniteSet(Round(s, i, n)) /\ n + 1 \notin Round(s, i, n) /\ Cardinality(Round(s, i, n)) \in Nat
  <2>1. i \in Nat /\ n \in Nat
    BY <1>1
  <2>2. n + 1 \notin Round(s, i, n)
    BY <2>1 DEF Round
  <2> QED BY <2>1, <2>2, RoundFinite
<1>5. Round(t, i, n + 1) = IF e.kind = s[i].kind THEN Round(s, i, n) \union {n + 1} ELSE Round(s, i, n)
  <2>1. \A k \in i .. n + 1 : k \in i .. n \/ k = n + 1
    <3>1. i \in Nat /\ n \in Nat
      BY <1>1
    <3> QED BY <3>1
  <2>2. t[i] = s[i] /\ i .. n \subseteq i .. n + 1 /\ n + 1 \in i .. n + 1
    BY <1>1
  <2>3. Round(t, i, n + 1) = Round(t, i, n) \union {k \in {n + 1} : t[k].kind = t[i].kind}
    BY <2>1, <2>2 DEF Round
  <2> QED BY <1>1, <1>3, <2>2, <2>3
<1>6. Cardinality(Round(s, i, n) \union {n + 1}) = Cardinality(Round(s, i, n)) + 1
  BY <1>4, FS_AddElement
<1>7. Cardinality(Round(t, i, n + 1)) = Cardinality(Round(s, i, n)) + IF e.kind = s[i].kind THEN 1 ELSE 0
  BY <1>4, <1>5, <1>6
<1> QED BY <1>2, <1>7 DEF t, n

\* A list holds no more members than it is long.
LEMMA ToSetBound ==
  ASSUME NEW S, NEW s \in Seq(S)
  PROVE  Cardinality(Q!ToSet(s)) \in Nat /\ Cardinality(Q!ToSet(s)) <= Len(s)
<1> DEFINE n == Len(s)
           image == Q!ToSet(s)
<1>1. n \in Nat /\ DOMAIN s = 1 .. n /\ s = [k \in 1 .. n |-> s[k]]
  OBVIOUS
<1>2. image = {s[k] : k \in 1 .. n}
  BY <1>1 DEF Q!ToSet
<1> HIDE DEF n, image
<1>3. s \in Surjection(1 .. n, image)
  BY <1>1, <1>2 DEF Surjection
<1>4. IsFiniteSet(1 .. n) /\ Cardinality(1 .. n) = n
  BY <1>1, FS_Interval
<1>5. IsFiniteSet(image) /\ Cardinality(image) <= n
  BY <1>3, <1>4, FS_Surjection
<1> QED BY <1>5, FS_CardinalityType DEF n, image

\* A step that changes no more of a message than who has heard it, and no
\* subscription unless all go.
LEMMA LogKept ==
  ASSUME MessagerInv, log' \in Seq(Message), Len(log') = Len(log),
         \A i \in DOMAIN log : log'[i].kind = log[i].kind /\ log'[i].for = log[i].for /\ log'[i].to = log[i].to,
         (subs' = subs /\ next' = next /\ open' = open) \/ (DOMAIN subs' = {} /\ open' = FALSE)
  PROVE  ChosenRight' /\ Turns' /\ Fair'
<1>1. DOMAIN log' = DOMAIN log /\ log \in Seq(Message) /\ DOMAIN log = 1 .. Len(log)
  BY DEF MessagerInv, Delivering
<1>2. ChosenRight'
  BY <1>1 DEF MessagerInv, ChosenRight
<1>3. \A i \in DOMAIN log : Pooled(i)' <=> Pooled(i)
  BY <1>1 DEF Pooled
<1>4. ASSUME NEW i \in DOMAIN log, NEW j \in 0 .. Len(log) PROVE Round(log', i, j) = Round(log, i, j)
  <2>1. \A k \in i .. j : k \in DOMAIN log
    BY <1>1
  <2> QED BY <2>1 DEF Round
<1>5. Turns'
  <2> SUFFICES ASSUME NEW i \in DOMAIN log, Pooled(i)
               PROVE  /\ log'[i].to[1].kind = log'[i].kind /\ (open' => log'[i].to[1] \in Q!Subscribed')
                      /\ Cardinality(log'[i].for) \in Nat /\ TurnsTaken(i)'
    BY <1>1, <1>3 DEF Turns
  <2>1. /\ log[i].to[1].kind = log[i].kind /\ (open => log[i].to[1] \in Q!Subscribed)
        /\ Cardinality(log[i].for) \in Nat /\ TurnsTaken(i)
    BY DEF MessagerInv, Turns
  <2>2. open' => log'[i].to[1] \in Q!Subscribed'
    BY <2>1 DEF Q!Subscribed
  <2>3. Len(log) \in 0 .. Len(log)
    BY <1>1
  <2>4. Round(log', i, Len(log')) = Round(log, i, Len(log))
    BY <1>4, <2>3
  <2>5. TurnsTaken(i)'
    BY <2>1, <2>4 DEF TurnsTaken
  <2> QED BY <2>1, <2>2, <2>5
<1>6. Fair'
  <2> SUFFICES ASSUME NEW i \in DOMAIN log, NEW j \in DOMAIN log,
                      i < j, log[i].kind = log[j].kind, Pooled(i), log[i].to = log[j].to
               PROVE  Cardinality(Round(log', i, j - 1)) >= Cardinality(log[i].for)
    BY <1>1, <1>3 DEF Fair
  <2>1. j - 1 \in 0 .. Len(log)
    BY <1>1
  <2>2. Round(log', i, j - 1) = Round(log, i, j - 1)
    BY <1>4, <2>1
  <2> QED BY <2>2 DEF MessagerInv, Fair
<1> QED BY <1>2, <1>5, <1>6

\* Of a pool, the kind of work tells the filter.
LEMMA PoolOfKind ==
  ASSUME NEW kind \in Q!Kinds, NEW a \in Addresses, NEW l \in Listeners, l.kind \in Q!SharedKinds
  PROVE  Q!FilterOf(l.kind, l.addr) = Q!FilterOf(kind, a) <=> l.kind = kind
<1>1. /\ "+" \notin {a.ns, a.flow, a.run, a.pod} /\ l.kind \in Q!Kinds
      /\ "+" \notin {l.addr.ns, l.addr.flow, l.addr.run, l.addr.pod}
  BY AddressesAssumption
<1>2. SameAddr(kind, a, a)
  BY DEF SameAddr
<1>3. ASSUME Q!FilterOf(l.kind, l.addr) = Q!FilterOf(kind, a) PROVE l.kind = kind
  <2>1. Q!TopicMatch(Q!FilterOf(kind, a), Q!TopicOf(kind, a))
    BY <1>1, <1>2, OnlyOwnMatch
  <2>2. Q!TopicMatch(Q!FilterOf(l.kind, l.addr), Q!TopicOf(kind, a))
    BY <1>3, <2>1
  <2> QED BY <1>1, <2>2, OnlyOwnMatch
<1>4. ASSUME l.kind = kind PROVE Q!FilterOf(l.kind, l.addr) = Q!FilterOf(kind, a)
  <2>1. kind \in Q!SharedKinds
    BY <1>4
  <2> QED BY <1>4, <2>1, SharedFilterOf
<1> QED BY <1>3, <1>4

\* The turn of a filter, and the next.
LEMMA TurnFacts ==
  ASSUME Subscriptions, NEW f \in DOMAIN subs
  PROVE  /\ Q!Turn(f) = IF next[f] = Len(subs[f]) THEN 0 ELSE next[f]
         /\ Len(subs[f]) \in Nat \ {0} /\ next[f] \in 0 .. Len(subs[f])
         /\ Q!Turn(f) + 1 \in DOMAIN subs[f] /\ DOMAIN subs[f] = 1 .. Len(subs[f])
<1>1. Len(subs[f]) \in Nat \ {0} /\ next[f] \in 0 .. Len(subs[f]) /\ DOMAIN subs[f] = 1 .. Len(subs[f])
  <2>1. subs[f] \in Seq(Listeners) /\ subs[f] # << >> /\ next[f] <= Len(subs[f]) /\ f \in DOMAIN next
    BY DEF Subscriptions
  <2>2. next[f] \in Nat
    BY <2>1 DEF Subscriptions
  <2> QED BY <2>1, <2>2
<1>2. Q!Turn(f) = IF next[f] = Len(subs[f]) THEN 0 ELSE next[f]
  BY <1>1, Remainder DEF Q!Turn
<1> QED BY <1>1, <1>2

\* Subscribe puts a handler at the end of its pool: no turn under way changes.
LEMMA SubscribeKeeps ==
  ASSUME MessagerInv, NEW l \in Listeners, Q!Subscribe(l)
  PROVE  MessagerInv'
<1> DEFINE f == Q!FilterOf(l.kind, l.addr)
           old == IF f \in DOMAIN subs THEN subs[f] ELSE << >>
           S == DOMAIN subs \union {f}
<1>1. /\ open /\ l \notin Q!Subscribed
      /\ subs' = [g \in S |-> IF g = f THEN Append(old, l) ELSE subs[g]]
      /\ next' = [g \in S |-> IF g \in DOMAIN next THEN next[g] ELSE 0]
      /\ open' = open /\ callees' = callees /\ msg' = msg /\ log' = log
  BY DEF Q!Subscribe
<1>2. Subscriptions /\ Delivering /\ ChosenRight /\ Turns /\ Fair
  BY DEF MessagerInv
<1>3. DOMAIN next = DOMAIN subs /\ subs \in [DOMAIN subs -> Seq(Listeners)] /\ next \in [DOMAIN next -> Nat]
  BY <1>1, <1>2 DEF Subscriptions
<1>4. /\ old \in Seq(Listeners) /\ Append(old, l) \in Seq(Listeners) /\ Len(Append(old, l)) = Len(old) + 1
      /\ Len(old) \in Nat /\ DOMAIN old = 1 .. Len(old) /\ DOMAIN Append(old, l) = 1 .. Len(old) + 1
      /\ \A i \in 1 .. Len(old) : Append(old, l)[i] = old[i]
      /\ Append(old, l)[Len(old) + 1] = l
  <2>1. old \in Seq(Listeners)
    BY <1>3
  <2> HIDE DEF old
  <2> QED BY <2>1
<1>5. \A i \in 1 .. Len(old) : f \in DOMAIN subs /\ old[i] = subs[f][i]
  BY <1>4
<1>6. \A g \in DOMAIN subs : \A i \in DOMAIN subs[g] : subs[g][i] \in Q!Subscribed
  BY DEF Q!Subscribed, Q!ToSet
<1>7. \A i \in 1 .. Len(old) : old[i] # l
  BY <1>1, <1>3, <1>5, <1>6
<1> HIDE DEF f, old
<1>8. DOMAIN subs' = S /\ DOMAIN next' = S /\ subs'[f] = Append(old, l) /\ \A g \in DOMAIN subs \ {f} : subs'[g] = subs[g]
  BY <1>1
<1>9. Subscriptions'
  <2>1. subs' \in [DOMAIN subs' -> Seq(Listeners)]
    BY <1>1, <1>3, <1>4
  <2>2. next' \in [DOMAIN next' -> Nat] /\ open' \in BOOLEAN /\ open' /\ DOMAIN next' = DOMAIN subs'
    BY <1>1, <1>2, <1>3 DEF Subscriptions
  <2>3. ASSUME NEW g \in DOMAIN subs, g # f
        PROVE  /\ subs'[g] # << >> /\ next'[g] <= Len(subs'[g])
               /\ \A i \in DOMAIN subs'[g] : Q!FilterOf(subs'[g][i].kind, subs'[g][i].addr) = g
               /\ \A i, j \in DOMAIN subs'[g] : subs'[g][i] = subs'[g][j] => i = j
    <3>1. subs'[g] = subs[g] /\ next'[g] = next[g]
      BY <1>1, <1>3, <2>3
    <3> QED BY <1>2, <3>1 DEF Subscriptions
  <2>4. subs'[f] # << >> /\ next'[f] <= Len(subs'[f])
    <3>1. f \in DOMAIN subs => next[f] <= Len(old) /\ next[f] \in Nat
      BY <1>2, <1>3 DEF Subscriptions, old
    <3>2. next'[f] = IF f \in DOMAIN subs THEN next[f] ELSE 0
      BY <1>1, <1>3
    <3>3. Len(subs'[f]) = Len(old) + 1 /\ Len(old) \in Nat /\ subs'[f] \in Seq(Listeners)
      BY <1>4, <1>8
    <3> QED BY <3>1, <3>2, <3>3
  <2>5. ASSUME NEW i \in DOMAIN subs'[f] PROVE Q!FilterOf(subs'[f][i].kind, subs'[f][i].addr) = f
    <3>1. CASE i = Len(old) + 1
      BY <1>4, <1>8, <3>1 DEF f
    <3>2. CASE i \in 1 .. Len(old)
      <4>1. subs'[f][i] = subs[f][i] /\ f \in DOMAIN subs /\ i \in DOMAIN subs[f]
        BY <1>4, <1>5, <1>8, <3>2 DEF old
      <4> QED BY <1>2, <4>1 DEF Subscriptions
    <3> QED BY <1>4, <1>8, <3>1, <3>2
  <2>6. ASSUME NEW i \in DOMAIN subs'[f], NEW j \in DOMAIN subs'[f], subs'[f][i] = subs'[f][j] PROVE i = j
    <3>1. i \in 1 .. Len(old) + 1 /\ j \in 1 .. Len(old) + 1
      BY <1>4, <1>8
    <3>2. CASE i \in 1 .. Len(old) /\ j \in 1 .. Len(old)
      <4>1. subs[f][i] = subs[f][j] /\ f \in DOMAIN subs /\ i \in DOMAIN subs[f] /\ j \in DOMAIN subs[f]
        BY <1>4, <1>5, <1>8, <2>6, <3>2 DEF old
      <4> QED BY <1>2, <4>1 DEF Subscriptions
    <3>3. CASE i = Len(old) + 1 \/ j = Len(old) + 1
      BY <1>4, <1>7, <1>8, <2>6, <3>1, <3>3
    <3> QED BY <1>4, <3>1, <3>2, <3>3
  <2> QED BY <1>8, <2>1, <2>2, <2>3, <2>4, <2>5, <2>6 DEF Subscriptions
<1>10. Delivering'
  BY <1>1, <1>2 DEF Delivering, Q!Done
<1>11. ChosenRight' /\ Fair'
  BY <1>1, <1>2 DEF ChosenRight, Fair, Pooled
<1>12. Turns'
  <2> SUFFICES ASSUME NEW i \in DOMAIN log, Pooled(i)
               PROVE  /\ log[i].to[1].kind = log[i].kind /\ (open => log[i].to[1] \in Q!Subscribed')
                      /\ Cardinality(log[i].for) \in Nat /\ TurnsTaken(i)'
    BY <1>1 DEF Turns, Pooled
  <2>1. /\ log[i].to[1].kind = log[i].kind /\ log[i].to[1] \in Q!Subscribed
        /\ Cardinality(log[i].for) \in Nat /\ TurnsTaken(i)
    BY <1>1, <1>2 DEF Turns
  <2>2. Q!Subscribed \subseteq Q!Subscribed'
    <3> SUFFICES ASSUME NEW g \in DOMAIN subs, NEW k \in DOMAIN subs[g]
                 PROVE  \E h \in DOMAIN subs' : \E n \in DOMAIN subs'[h] : subs'[h][n] = subs[g][k]
      BY DEF Q!Subscribed, Q!ToSet
    <3>1. CASE g = f
      <4>1. k \in 1 .. Len(old) /\ subs'[f][k] = subs[g][k] /\ k \in DOMAIN subs'[f]
        BY <1>4, <1>8, <3>1 DEF old
      <4> QED BY <1>8, <4>1
    <3>2. CASE g # f
      BY <1>8, <3>2
    <3> QED BY <3>1, <3>2
  <2>3. ASSUME NEW g \in DOMAIN subs', NEW pos \in DOMAIN subs'[g], log[i].to = <<subs'[g][pos]>>
        PROVE  /\ g \in DOMAIN subs /\ pos \in DOMAIN subs[g] /\ subs'[g][pos] = subs[g][pos]
               /\ Len(subs[g]) <= Len(subs'[g]) /\ next'[g] = next[g]
    <3>1. log[i].to[1] = subs'[g][pos] /\ subs'[g][pos] # l
      BY <1>1, <2>1, <2>3
    <3>2. CASE g = f
      <4>1. pos \in 1 .. Len(old)
        BY <1>4, <1>8, <3>1, <3>2
      <4>2. f \in DOMAIN subs /\ old = subs[f]
        BY <1>5, <4>1 DEF old
      <4> QED BY <1>1, <1>3, <1>4, <1>8, <3>2, <4>1, <4>2
    <3>3. CASE g # f
      <4>1. g \in DOMAIN subs /\ subs'[g] = subs[g] /\ next'[g] = next[g]
        BY <1>1, <1>3, <1>8, <3>3
      <4>2. Len(subs[g]) \in Nat
        BY <1>3, <4>1
      <4> QED BY <2>3, <4>1, <4>2
    <3> QED BY <3>2, <3>3
  <2>4. TurnsTaken(i)'
    <3> SUFFICES ASSUME NEW g \in DOMAIN subs', NEW pos \in DOMAIN subs'[g], log[i].to = <<subs'[g][pos]>>
                 PROVE  LET c == Cardinality(Round(log, i, Len(log)))
                            all == Cardinality(log[i].for)
                        IN /\ all <= Len(subs'[g])
                           /\ \/ c >= all
                              \/ next'[g] >= pos /\ c + pos >= next'[g] + 1
                              \/ next'[g] < pos /\ c + pos >= all + next'[g] + 1
      BY <1>1 DEF TurnsTaken
    <3>1. /\ g \in DOMAIN subs /\ pos \in DOMAIN subs[g] /\ log[i].to = <<subs[g][pos]>>
          /\ Len(subs[g]) <= Len(subs'[g]) /\ next'[g] = next[g]
      BY <2>3
    <3>2. Cardinality(log[i].for) <= Len(subs[g]) /\ Len(subs[g]) \in Nat /\ Len(subs'[g]) \in Nat
      BY <1>3, <1>9, <2>1, <3>1 DEF TurnsTaken, Subscriptions
    <3> QED BY <2>1, <3>1, <3>2 DEF TurnsTaken
  <2> QED BY <2>1, <2>2, <2>4
<1> QED BY <1>9, <1>10, <1>11, <1>12 DEF MessagerInv

\* A handler is called.
LEMMA DeliverKeeps ==
  ASSUME MessagerInv, NEW p \in Publishers, Q!Deliver(p)
  PROVE  MessagerInv'
<1> DEFINE m == msg[p]
           h == Head(callees[p])
<1>1. /\ callees[p] # << >> /\ callees' = [callees EXCEPT ![p] = Tail(@)]
      /\ log' = [log EXCEPT ![m].heard = @ \union {h}]
      /\ subs' = subs /\ next' = next /\ open' = open /\ msg' = msg
  BY DEF Q!Deliver
<1>2. Subscriptions /\ Delivering
  BY DEF MessagerInv
<1>3. /\ callees \in [Publishers -> Seq(Listeners)] /\ log \in Seq(Message) /\ m \in DOMAIN log
      /\ log[m].heard \union Q!ToSet(callees[p]) = Q!ToSet(log[m].to)
      /\ \A q \in Publishers : callees[q] # << >> /\ msg[q] = m => q = p
  BY <1>1, <1>2 DEF Delivering
<1>4. /\ h \in Listeners /\ Tail(callees[p]) \in Seq(Listeners)
      /\ Q!ToSet(callees[p]) = {h} \union Q!ToSet(Tail(callees[p]))
      /\ Q!ToSet(<< >>) = {}
  <2>1. callees[p] \in Seq(Listeners) /\ callees[p] # << >>
    BY <1>1, <1>3
  <2> DEFINE c == callees[p]
             d == Tail(callees[p])
  <2>2. /\ h = c[1] /\ h \in Listeners /\ Len(c) \in Nat \ {0} /\ DOMAIN c = 1 .. Len(c)
        /\ d \in Seq(Listeners) /\ DOMAIN d = 1 .. Len(c) - 1 /\ \A k \in 1 .. Len(c) - 1 : d[k] = c[k + 1]
    BY <2>1
  <2> HIDE DEF c, d, h
  <2>3. \A k \in 1 .. Len(c) : k = 1 \/ (k - 1 \in 1 .. Len(c) - 1 /\ c[k] = d[k - 1])
    BY <2>2
  <2>4. 1 \in 1 .. Len(c) /\ \A k \in 1 .. Len(c) - 1 : k + 1 \in 1 .. Len(c)
    BY <2>2
  <2>5. Q!ToSet(c) = {h} \union Q!ToSet(d)
    <3>1. \A k \in DOMAIN c : c[k] = h \/ \E j \in DOMAIN d : c[k] = d[j]
      BY <2>2, <2>3
    <3>2. h = c[1] /\ 1 \in DOMAIN c
      BY <2>2, <2>4
    <3>3. \A j \in DOMAIN d : \E k \in DOMAIN c : d[j] = c[k]
      BY <2>2, <2>4
    <3> QED BY <3>1, <3>2, <3>3 DEF Q!ToSet
  <2>6. Q!ToSet(<< >>) = {}
    BY DEF Q!ToSet
  <2> QED BY <2>2, <2>5, <2>6 DEF c, d
<1> HIDE DEF m, h
<1>5. /\ Len(log') = Len(log) /\ DOMAIN log' = DOMAIN log
      /\ \A i \in DOMAIN log : log'[i].kind = log[i].kind /\ log'[i].for = log[i].for /\ log'[i].to = log[i].to
      /\ \A i \in DOMAIN log \ {m} : log'[i] = log[i]
      /\ log'[m].heard = log[m].heard \union {h}
      /\ log' \in Seq(Message)
  <2> DEFINE old == log[m]
             new == [old EXCEPT !.heard = @ \union {h}]
  <2>1. old \in Message /\ log' = [log EXCEPT ![m] = new]
    BY <1>1, <1>3
  <2> HIDE DEF old
  <2>2. /\ new \in Message /\ new.kind = old.kind /\ new.for = old.for /\ new.to = old.to
        /\ new.heard = old.heard \union {h}
    BY <1>4, <2>1 DEF Message
  <2> HIDE DEF new
  <2>3. log' \in Seq(Message) /\ Len(log') = Len(log) /\ DOMAIN log' = DOMAIN log
    BY <1>3, <2>1, <2>2
  <2>4. log'[m] = new /\ \A i \in DOMAIN log \ {m} : log'[i] = log[i]
    BY <1>3, <2>1
  <2> QED BY <2>2, <2>3, <2>4 DEF old
<1>6. ChosenRight' /\ Turns' /\ Fair'
  BY <1>1, <1>5, LogKept
<1>7. Subscriptions'
  BY <1>1, <1>2 DEF Subscriptions
<1>8. callees' \in [Publishers -> Seq(Listeners)] /\ callees'[p] = Tail(callees[p])
      /\ \A q \in Publishers \ {p} : callees'[q] = callees[q]
  BY <1>1, <1>3, <1>4
<1>9. ASSUME NEW q \in Publishers, callees'[q] # << >>
      PROVE  /\ msg[q] \in DOMAIN log
             /\ log'[msg[q]].heard \union Q!ToSet(callees'[q]) = Q!ToSet(log'[msg[q]].to)
             /\ \A r \in Publishers : callees'[r] # << >> /\ msg[r] = msg[q] => r = q
  <2>1. \A r \in Publishers : callees'[r] # << >> => callees[r] # << >>
    BY <1>1, <1>8
  <2>2. /\ msg[q] \in DOMAIN log /\ \A r \in Publishers : callees'[r] # << >> /\ msg[r] = msg[q] => r = q
    BY <1>2, <1>9, <2>1 DEF Delivering
  <2>3. CASE q = p
    BY <1>3, <1>4, <1>5, <1>8, <2>2, <2>3 DEF m
  <2>4. CASE q # p
    <3>1. msg[q] # m
      BY <1>3, <1>9, <2>1, <2>4
    <3>2. log'[msg[q]] = log[msg[q]] /\ callees'[q] = callees[q]
      BY <1>5, <1>8, <2>2, <2>4, <3>1
    <3>3. log[msg[q]].heard \union Q!ToSet(callees[q]) = Q!ToSet(log[msg[q]].to)
      BY <1>2, <1>9, <3>2 DEF Delivering
    <3> QED BY <2>2, <3>2, <3>3
  <2> QED BY <2>3, <2>4
<1>10. ASSUME NEW i \in DOMAIN log, Q!Done(i)' PROVE log'[i].heard = Q!ToSet(log'[i].to)
  <2>1. CASE i = m
    <3>1. callees'[p] = << >>
      BY <1>1, <1>10, <2>1 DEF Q!Done, m
    <3> QED BY <1>3, <1>4, <1>5, <1>8, <2>1, <3>1
  <2>2. CASE i # m
    <3>1. Q!Done(i)
      BY <1>1, <1>8, <1>10, <2>2 DEF Q!Done, m
    <3>2. log[i].heard = Q!ToSet(log[i].to)
      BY <1>2, <3>1 DEF Delivering
    <3> QED BY <1>5, <2>2, <3>2
  <2> QED BY <2>1, <2>2
<1>11. Delivering'
  <2>1. msg' \in [Publishers -> 0 .. Len(log')]
    BY <1>1, <1>2, <1>5 DEF Delivering
  <2> QED BY <1>1, <1>5, <1>8, <1>9, <1>10, <2>1 DEF Delivering
<1> QED BY <1>6, <1>7, <1>11 DEF MessagerInv

\* Close drops all subscriptions; deliveries under way go on.
LEMMA CloseKeeps ==
  ASSUME MessagerInv, Q!Close
  PROVE  MessagerInv'
<1>1. /\ open' = FALSE /\ subs' = << >> /\ DOMAIN subs' = {} /\ next' = next /\ callees' = callees /\ msg' = msg
      /\ log' = log
  BY DEF Q!Close
<1>2. Subscriptions /\ Delivering
  BY DEF MessagerInv
<1>3. Subscriptions'
  <2>1. subs' \in [DOMAIN subs' -> Seq(Listeners)]
    BY <1>1
  <2> QED BY <1>1, <1>2, <2>1 DEF Subscriptions
<1>4. Delivering'
  BY <1>1, <1>2 DEF Delivering, Q!Done
<1>5. ChosenRight' /\ Turns' /\ Fair'
  BY <1>1, <1>2, LogKept DEF Delivering
<1> QED BY <1>3, <1>4, <1>5 DEF MessagerInv

LEMMA MessagerStutters == MessagerInv /\ UNCHANGED messagerVars => MessagerInv'
<1> SUFFICES ASSUME MessagerInv, UNCHANGED messagerVars PROVE MessagerInv'
  OBVIOUS
<1>1. subs' = subs /\ open' = open /\ next' = next /\ callees' = callees /\ msg' = msg /\ log' = log
  BY DEF messagerVars
<1>2. Subscriptions /\ Delivering
  BY DEF MessagerInv
<1>3. Subscriptions'
  BY <1>1, <1>2 DEF Subscriptions
<1>4. Delivering'
  BY <1>1, <1>2 DEF Delivering, Q!Done
<1>5. ChosenRight' /\ Turns' /\ Fair'
  BY <1>1, <1>2, LogKept DEF Delivering
<1> QED BY <1>3, <1>4, <1>5 DEF MessagerInv

\* Publish chooses the handlers and moves the turn on.
LEMMA PublishKeeps ==
  ASSUME MessagerInv, NEW p \in Publishers, NEW kind \in Q!Kinds, NEW a \in Addresses, Q!Publish(p, kind, a)
  PROVE  MessagerInv'
<1> DEFINE f == Q!FilterOf(kind, a)
<1>0. PICK n : n = Len(log)
  OBVIOUS
<1>1. PICK to : Published(p, kind, f, to)
  BY Publishing DEF MessagerInv
<1> DEFINE e == [kind |-> kind, for |-> All(f), to |-> to, heard |-> {}]
<1>2. Subscriptions /\ Delivering /\ ChosenRight /\ Turns /\ Fair /\ callees[p] = << >>
  BY DEF MessagerInv, Q!Publish
<1>3. /\ subs' = subs /\ open' = open /\ callees' = [callees EXCEPT ![p] = to]
      /\ msg' = [msg EXCEPT ![p] = n + 1] /\ log' = Append(log, e)
      /\ next' = [g \in DOMAIN next |->
                    IF g = f /\ f \in DOMAIN subs /\ kind \in Q!SharedKinds THEN Q!Turn(f) + 1 ELSE next[g]]
      /\ to = IF f \notin DOMAIN subs THEN << >>
              ELSE IF kind \in Q!SharedKinds THEN <<subs[f][Q!Turn(f) + 1]>> ELSE subs[f]
  BY <1>0, <1>1 DEF Published
<1> HIDE DEF f
<1>4. /\ callees \in [Publishers -> Seq(Listeners)] /\ msg \in [Publishers -> 0 .. n] /\ log \in Seq(Message)
      /\ n \in Nat /\ DOMAIN log = 1 .. n
  BY <1>0, <1>2 DEF Delivering
<1>5. f \in DOMAIN subs =>
        /\ Q!Turn(f) = IF next[f] = Len(subs[f]) THEN 0 ELSE next[f]
        /\ Len(subs[f]) \in Nat \ {0} /\ next[f] \in 0 .. Len(subs[f])
        /\ Q!Turn(f) + 1 \in DOMAIN subs[f] /\ DOMAIN subs[f] = 1 .. Len(subs[f])
        /\ subs[f] \in Seq(Listeners) /\ subs[f][Q!Turn(f) + 1] \in Listeners
        /\ subs[f][Q!Turn(f) + 1] \in Q!ToSet(subs[f])
  <2>1. f \in DOMAIN subs => subs[f] \in Seq(Listeners)
    BY <1>2 DEF Subscriptions
  <2> QED BY <1>2, <2>1, TurnFacts DEF Q!ToSet
<1>6. to \in Seq(Listeners) /\ All(f) \subseteq Listeners /\ Q!ToSet(to) \subseteq All(f)
  <2>1. CASE f \notin DOMAIN subs
    BY <1>3, <2>1 DEF All, Q!ToSet
  <2>2. CASE f \in DOMAIN subs
    <3>1. Q!ToSet(subs[f]) \subseteq Listeners
      BY <1>5, <2>2 DEF Q!ToSet
    <3>2. Q!ToSet(<<subs[f][Q!Turn(f) + 1]>>) = {subs[f][Q!Turn(f) + 1]}
      BY DEF Q!ToSet
    <3> QED BY <1>3, <1>5, <2>2, <3>1, <3>2 DEF All
  <2> QED BY <2>1, <2>2
<1>7. /\ e \in Message /\ e.kind = kind /\ e.for = All(f) /\ e.to = to /\ e.heard = {}
  BY <1>6 DEF Message
<1> HIDE DEF e
<1>8. /\ log' \in Seq(Message) /\ Len(log') = n + 1 /\ DOMAIN log' = 1 .. n + 1 /\ log'[n + 1] = e
      /\ \A i \in 1 .. n : log'[i] = log[i]
  BY <1>0, <1>3, <1>4, <1>7
<1>9. Subscriptions'
  <2>1. ASSUME NEW g \in DOMAIN next PROVE next'[g] \in Nat /\ (g \in DOMAIN subs => next'[g] <= Len(subs[g]))
    <3>1. next[g] \in Nat /\ (g \in DOMAIN subs => next[g] <= Len(subs[g]))
      BY <1>2 DEF Subscriptions
    <3>2. CASE g = f /\ f \in DOMAIN subs /\ kind \in Q!SharedKinds
      BY <1>3, <1>5, <3>2
    <3>3. CASE ~(g = f /\ f \in DOMAIN subs /\ kind \in Q!SharedKinds)
      BY <1>3, <3>1, <3>3
    <3> QED BY <3>2, <3>3
  <2>2. DOMAIN next' = DOMAIN next /\ next' \in [DOMAIN next' -> Nat]
    BY <1>3, <2>1
  <2>3. DOMAIN subs \subseteq DOMAIN next
    BY <1>2 DEF Subscriptions
  <2> QED BY <1>2, <1>3, <2>1, <2>2, <2>3 DEF Subscriptions
<1>10. Delivering'
  <2>1. /\ callees' \in [Publishers -> Seq(Listeners)] /\ callees'[p] = to
        /\ \A q \in Publishers \ {p} : callees'[q] = callees[q] /\ msg'[q] = msg[q] /\ msg[q] \in 0 .. n
        /\ msg'[p] = n + 1 /\ msg' \in [Publishers -> 0 .. n + 1]
    BY <1>3, <1>4, <1>6
  <2>2. ASSUME NEW q \in Publishers, callees'[q] # << >>
        PROVE  /\ msg'[q] \in DOMAIN log'
               /\ log'[msg'[q]].heard \union Q!ToSet(callees'[q]) = Q!ToSet(log'[msg'[q]].to)
               /\ \A r \in Publishers : callees'[r] # << >> /\ msg'[r] = msg'[q] => r = q
    <3>1. CASE q = p
      <4>1. msg'[q] \in DOMAIN log' /\ log'[msg'[q]] = e
        BY <1>4, <1>8, <2>1, <3>1
      <4>2. \A r \in Publishers \ {p} : msg'[r] # n + 1
        BY <1>4, <2>1
      <4> QED BY <1>7, <2>1, <3>1, <4>1, <4>2
    <3>2. CASE q # p
      <4>1. callees[q] # << >> /\ msg'[q] = msg[q]
        BY <2>1, <2>2, <3>2
      <4>2. /\ msg[q] \in 1 .. n /\ log[msg[q]].heard \union Q!ToSet(callees[q]) = Q!ToSet(log[msg[q]].to)
            /\ \A r \in Publishers : callees[r] # << >> /\ msg[r] = msg[q] => r = q
        BY <1>2, <1>4, <4>1 DEF Delivering
      <4>3. log'[msg'[q]] = log[msg[q]] /\ msg'[q] \in DOMAIN log' /\ msg'[q] # n + 1
        BY <1>4, <1>8, <4>1, <4>2
      <4> QED BY <2>1, <3>2, <4>1, <4>2, <4>3
    <3> QED BY <3>1, <3>2
  <2>3. ASSUME NEW i \in DOMAIN log', Q!Done(i)' PROVE log'[i].heard = Q!ToSet(log'[i].to)
    <3>1. CASE i = n + 1
      <4>1. callees'[p] = << >>
        BY <2>1, <2>3, <3>1 DEF Q!Done
      <4>2. Q!ToSet(<< >>) = {}
        BY DEF Q!ToSet
      <4> QED BY <1>7, <1>8, <2>1, <3>1, <4>1, <4>2
    <3>2. CASE i \in 1 .. n
      <4>1. Q!Done(i)
        BY <1>2, <2>1, <2>3 DEF Q!Done
      <4> QED BY <1>2, <1>4, <1>8, <3>2, <4>1 DEF Delivering
    <3> QED BY <1>4, <1>8, <3>1, <3>2
  <2> QED BY <1>8, <2>1, <2>2, <2>3 DEF Delivering
<1>11. ChosenRight'
  <2>1. IF kind \in Q!SharedKinds /\ e.for # {} THEN \E l \in e.for : e.to = <<l>> ELSE Q!ToSet(e.to) = e.for
    <3>1. CASE f \notin DOMAIN subs
      BY <1>3, <1>7, <3>1 DEF All, Q!ToSet
    <3>2. CASE f \in DOMAIN subs
      BY <1>3, <1>5, <1>7, <3>2 DEF All
    <3> QED BY <3>1, <3>2
  <2>2. \A i \in 1 .. n + 1 : i \in 1 .. n \/ i = n + 1
    BY <1>4
  <2> QED BY <1>2, <1>4, <1>7, <1>8, <2>1, <2>2 DEF ChosenRight
<1>12. \A i \in 1 .. n : Pooled(i)' <=> Pooled(i)
  BY <1>8 DEF Pooled
<1>13. ASSUME NEW i \in 1 .. n
       PROVE  /\ \A j \in 0 .. n : Round(log', i, j) = Round(log, i, j)
              /\ Cardinality(Round(log', i, n + 1)) =
                   Cardinality(Round(log, i, n)) + IF kind = log[i].kind THEN 1 ELSE 0
              /\ Cardinality(Round(log, i, n)) \in Nat
  <2>1. i \in DOMAIN log /\ i \in Nat /\ n \in Nat /\ Len(log) = n /\ log' = Append(log, e) /\ log \in Seq(Message)
    BY <1>0, <1>3, <1>4
  <2>2. /\ \A j \in 0 .. n : Round(Append(log, e), i, j) = Round(log, i, j)
        /\ Cardinality(Round(Append(log, e), i, n + 1)) =
             Cardinality(Round(log, i, n)) + IF e.kind = log[i].kind THEN 1 ELSE 0
    BY <2>1, RoundGrows, Zenon
  <2>3. Cardinality(Round(log, i, n)) \in Nat
    BY <2>1, RoundFinite
  <2> QED BY <1>7, <2>1, <2>2, <2>3
\* Of a message to a pool whose filter g is: whether this one goes there too.
<1>14. ASSUME NEW i \in 1 .. n, Pooled(i), NEW g \in DOMAIN subs, NEW pos \in DOMAIN subs[g],
              log[i].to = <<subs[g][pos]>>
       PROVE  g = f <=> log[i].kind = kind
  <2>1. subs[g][pos] \in Listeners /\ Q!FilterOf(subs[g][pos].kind, subs[g][pos].addr) = g
    BY <1>2 DEF Subscriptions
  <2>2. subs[g][pos].kind = log[i].kind /\ log[i].kind \in Q!SharedKinds
    <3>1. i \in DOMAIN log /\ log[i].to[1] = subs[g][pos]
      BY <1>4, <1>14
    <3> QED BY <1>2, <1>14, <3>1 DEF Turns, Pooled
  <2> QED BY <2>1, <2>2, PoolOfKind DEF f
<1>15. ASSUME NEW i \in 1 .. n, Pooled(i) PROVE TurnsTaken(i)'
  <2> SUFFICES ASSUME NEW g \in DOMAIN subs, NEW pos \in DOMAIN subs[g], log[i].to = <<subs[g][pos]>>
               PROVE  LET c == Cardinality(Round(log', i, n + 1))
                          all == Cardinality(log[i].for)
                      IN /\ all <= Len(subs[g])
                         /\ \/ c >= all
                            \/ next'[g] >= pos /\ c + pos >= next'[g] + 1
                            \/ next'[g] < pos /\ c + pos >= all + next'[g] + 1
    BY <1>3, <1>8 DEF TurnsTaken
  <2> DEFINE c == Cardinality(Round(log, i, n))
             all == Cardinality(log[i].for)
             L == Len(subs[g])
  <2>1. /\ all <= L /\ all \in Nat /\ c \in Nat
        /\ \/ c >= all
           \/ next[g] >= pos /\ c + pos >= next[g] + 1
           \/ next[g] < pos /\ c + pos >= all + next[g] + 1
    BY <1>0, <1>2, <1>4, <1>13, <1>15 DEF Turns, TurnsTaken
  <2>2. L \in Nat \ {0} /\ next[g] \in 0 .. L /\ pos \in 1 .. L
    BY <1>2, TurnFacts
  <2>3. CASE g = f
    <3>1. kind = log[i].kind /\ kind \in Q!SharedKinds
      BY <1>14, <1>15, <2>3 DEF Pooled
    <3>2. Cardinality(Round(log', i, n + 1)) = c + 1
      BY <1>13, <3>1
    <3>3. next'[g] = (IF next[g] = L THEN 0 ELSE next[g]) + 1
      <4>1. g \in DOMAIN next
        BY <1>2 DEF Subscriptions
      <4> QED BY <1>3, <1>5, <2>3, <3>1, <4>1
    <3> HIDE DEF c, all, L
    <3>4. \/ c + 1 >= all
          \/ next'[g] >= pos /\ c + 1 + pos >= next'[g] + 1
          \/ next'[g] < pos /\ c + 1 + pos >= all + next'[g] + 1
      BY <2>1, <2>2, <3>3
    <3> QED BY <2>1, <3>2, <3>4 DEF c, all, L
  <2>4. CASE g # f
    <3>1. kind # log[i].kind
      BY <1>14, <1>15, <2>4
    <3>2. Cardinality(Round(log', i, n + 1)) = c
      BY <1>13, <2>1, <3>1
    <3>3. next'[g] = next[g]
      <4>1. g \in DOMAIN next
        BY <1>2 DEF Subscriptions
      <4> QED BY <1>3, <2>4, <4>1
    <3> QED BY <2>1, <3>2, <3>3
  <2> QED BY <2>3, <2>4
\* The new message.
<1>16. ASSUME Pooled(n + 1)'
       PROVE  /\ kind \in Q!SharedKinds /\ f \in DOMAIN subs /\ to = <<subs[f][Q!Turn(f) + 1]>>
              /\ subs[f][Q!Turn(f) + 1].kind = kind
              /\ \A g \in DOMAIN subs : \A pos \in DOMAIN subs[g] :
                   to = <<subs[g][pos]>> => g = f /\ pos = Q!Turn(f) + 1
  <2>1. kind \in Q!SharedKinds /\ to # << >>
    BY <1>7, <1>8, <1>16 DEF Pooled
  <2>2. f \in DOMAIN subs /\ to = <<subs[f][Q!Turn(f) + 1]>>
    BY <1>3, <2>1
  <2>3. ASSUME NEW g \in DOMAIN subs, NEW pos \in DOMAIN subs[g], to = <<subs[g][pos]>>
        PROVE  g = f /\ pos = Q!Turn(f) + 1
    <3>1. subs[g][pos] = subs[f][Q!Turn(f) + 1] /\ Q!Turn(f) + 1 \in DOMAIN subs[f]
      BY <1>5, <2>2, <2>3
    <3>2. g = f
      BY <1>2, <2>2, <3>1 DEF Subscriptions
    <3> QED BY <1>2, <2>2, <3>1, <3>2 DEF Subscriptions
  <2>4. subs[f][Q!Turn(f) + 1].kind = kind
    <3> DEFINE l == subs[f][Q!Turn(f) + 1]
    <3>1. l \in Listeners /\ Q!FilterOf(l.kind, l.addr) = f
      BY <1>2, <1>5, <2>2 DEF Subscriptions
    <3>2. "+" \notin {l.addr.ns, l.addr.flow, l.addr.run, l.addr.pod} /\ l.kind \in Q!Kinds
          /\ "+" \notin {a.ns, a.flow, a.run, a.pod}
      BY <3>1, AddressesAssumption
    <3> HIDE DEF l
    <3>3. SameAddr(kind, a, a)
      BY DEF SameAddr
    <3>4. Q!TopicMatch(f, Q!TopicOf(kind, a))
      BY <3>2, <3>3, OnlyOwnMatch DEF f
    <3>5. l.kind = kind
      BY <3>1, <3>2, <3>4, OnlyOwnMatch
    <3> QED BY <3>5 DEF l
  <2> QED BY <2>1, <2>2, <2>3, <2>4
<1>17. ASSUME Pooled(n + 1)'
       PROVE  /\ e.to[1].kind = kind /\ e.to[1] \in Q!Subscribed
              /\ Cardinality(e.for) \in Nat /\ TurnsTaken(n + 1)'
  <2>1. /\ kind \in Q!SharedKinds /\ f \in DOMAIN subs /\ to = <<subs[f][Q!Turn(f) + 1]>>
        /\ subs[f][Q!Turn(f) + 1].kind = kind
        /\ \A g \in DOMAIN subs : \A pos \in DOMAIN subs[g] :
             to = <<subs[g][pos]>> => g = f /\ pos = Q!Turn(f) + 1
    BY <1>16, <1>17
  <2>2. e.to[1] = subs[f][Q!Turn(f) + 1]
    BY <1>7, <2>1
  <2>3. e.to[1] \in Q!Subscribed
    BY <1>5, <2>1, <2>2 DEF Q!Subscribed
  <2>4. e.for = Q!ToSet(subs[f]) /\ Cardinality(e.for) \in Nat /\ Cardinality(e.for) <= Len(subs[f])
    BY <1>5, <1>7, <2>1, ToSetBound DEF All
  <2>5. Cardinality(Round(log', n + 1, n + 1)) = 1
    <3>1. \A k : k \in n + 1 .. n + 1 <=> k = n + 1
      BY <1>4
    <3>2. Round(log', n + 1, n + 1) = {n + 1}
      BY <3>1 DEF Round
    <3> QED BY <3>2, FS_Singleton
  <2>6. next'[f] = Q!Turn(f) + 1
    <3>1. f \in DOMAIN next
      BY <1>2, <2>1 DEF Subscriptions
    <3> QED BY <1>3, <2>1, <3>1
  <2>7. Q!Turn(f) + 1 \in Nat
    BY <1>5, <2>1
  <2>8. TurnsTaken(n + 1)'
    <3>0. subs' = subs /\ log'[n + 1] = e /\ e.to = to /\ Len(log') = n + 1
      BY <1>3, <1>7, <1>8
    <3> SUFFICES ASSUME NEW g \in DOMAIN subs, NEW pos \in DOMAIN subs[g], to = <<subs[g][pos]>>
                 PROVE  /\ Cardinality(e.for) <= Len(subs[g])
                        /\ next'[g] >= pos /\ Cardinality(Round(log', n + 1, n + 1)) + pos >= next'[g] + 1
      BY <3>0 DEF TurnsTaken
    <3>1. g = f /\ pos = Q!Turn(f) + 1
      BY <2>1
    <3> QED BY <2>4, <2>5, <2>6, <2>7, <3>1
  <2> QED BY <2>1, <2>2, <2>3, <2>4, <2>8
<1>18. Turns'
  <2>1. \A i \in 1 .. n + 1 : i \in 1 .. n \/ i = n + 1
    BY <1>4
  <2>2. Q!Subscribed' = Q!Subscribed
    BY <1>3 DEF Q!Subscribed
  <2>3. ASSUME NEW i \in 1 .. n, Pooled(i)
        PROVE  /\ log'[i].to[1].kind = log'[i].kind /\ (open' => log'[i].to[1] \in Q!Subscribed')
               /\ Cardinality(log'[i].for) \in Nat /\ TurnsTaken(i)'
    BY <1>2, <1>3, <1>4, <1>8, <1>15, <2>2, <2>3 DEF Turns
  <2>4. ASSUME Pooled(n + 1)'
        PROVE  /\ log'[n + 1].to[1].kind = log'[n + 1].kind /\ (open' => log'[n + 1].to[1] \in Q!Subscribed')
               /\ Cardinality(log'[n + 1].for) \in Nat /\ TurnsTaken(n + 1)'
    BY <1>7, <1>8, <1>17, <2>2, <2>4
  <2> QED BY <1>8, <1>12, <2>1, <2>3, <2>4 DEF Turns
<1>19. Fair'
  <2> SUFFICES ASSUME NEW i \in 1 .. n + 1, NEW j \in 1 .. n + 1,
                      i < j, log'[i].kind = log'[j].kind, Pooled(i)', log'[i].to = log'[j].to
               PROVE  Cardinality(Round(log', i, j - 1)) >= Cardinality(log'[i].for)
    BY <1>8 DEF Fair
  <2>1. i \in 1 .. n /\ (j \in 1 .. n \/ j = n + 1) /\ j - 1 \in 0 .. n
    BY <1>4
  <2>2. Pooled(i) /\ log'[i] = log[i] /\ Round(log', i, j - 1) = Round(log, i, j - 1)
    BY <1>8, <1>12, <1>13, <2>1
  <2>3. CASE j \in 1 .. n
    <3>1. log'[j] = log[j] /\ i \in DOMAIN log /\ j \in DOMAIN log
      BY <1>4, <1>8, <2>1, <2>3
    <3> QED BY <1>2, <2>2, <3>1 DEF Fair
  <2>4. CASE j = n + 1
    <3>1. Pooled(n + 1)'
      BY <1>7, <1>8, <2>2, <2>4 DEF Pooled
    <3>2. f \in DOMAIN subs /\ to = <<subs[f][Q!Turn(f) + 1]>>
      BY <1>16, <3>1
    <3>3. log[i].to = <<subs[f][Q!Turn(f) + 1]>> /\ j - 1 = n
      BY <1>4, <1>7, <1>8, <2>2, <2>4, <3>2
    <3> DEFINE c == Cardinality(Round(log, i, n))
               all == Cardinality(log[i].for)
               L == Len(subs[f])
               pos == Q!Turn(f) + 1
    <3>4. /\ all <= L /\ all \in Nat /\ c \in Nat
          /\ \/ c >= all
             \/ next[f] >= pos /\ c + pos >= next[f] + 1
             \/ next[f] < pos /\ c + pos >= all + next[f] + 1
      BY <1>0, <1>2, <1>4, <1>5, <1>13, <2>1, <2>2, <3>2, <3>3 DEF Turns, TurnsTaken
    <3>5. L \in Nat \ {0} /\ next[f] \in 0 .. L /\ pos = (IF next[f] = L THEN 0 ELSE next[f]) + 1
      BY <1>5, <3>2
    <3> HIDE DEF c, all, L, pos
    <3>6. c >= all
      BY <3>4, <3>5
    <3> QED BY <2>2, <3>3, <3>6 DEF c, all
  <2> QED BY <2>1, <2>3, <2>4
<1> QED BY <1>9, <1>10, <1>11, <1>18, <1>19 DEF MessagerInv

LEMMA MessagerInductive == MessagerInv /\ Q!Next => MessagerInv'
<1> SUFFICES ASSUME MessagerInv, Q!Next PROVE MessagerInv'
  OBVIOUS
<1>1. CASE \E l \in Listeners : Q!Subscribe(l)
  BY <1>1, SubscribeKeeps
<1>2. CASE \E p \in Publishers : Q!Deliver(p)
  BY <1>2, DeliverKeeps
<1>3. CASE \E p \in Publishers, kind \in Q!Kinds, a \in Addresses : Q!Publish(p, kind, a)
  BY <1>3, PublishKeeps
<1>4. CASE Q!Close
  BY <1>4, CloseKeeps
<1> QED BY <1>1, <1>2, <1>3, <1>4 DEF Q!Next

LEMMA MessagerRouted == MessagerInv => RoutedLikeABroker
<1> SUFFICES ASSUME MessagerInv PROVE RoutedLikeABroker
  OBVIOUS
<1>1. Subscriptions /\ Delivering /\ ChosenRight /\ Turns /\ Fair
  BY DEF MessagerInv
<1>2. ASSUME NEW i \in DOMAIN log, Q!Done(i)
      PROVE  /\ log[i].heard \subseteq log[i].for
             /\ IF log[i].kind \in Q!SharedKinds /\ log[i].for # {}
                THEN Q!Cardinality(log[i].heard) = 1 ELSE log[i].heard = log[i].for
  <2>1. log[i].heard = Q!ToSet(log[i].to)
    BY <1>1, <1>2 DEF Delivering
  <2>2. CASE log[i].kind \in Q!SharedKinds /\ log[i].for # {}
    <3>1. PICK l \in log[i].for : log[i].to = <<l>>
      BY <1>1, <2>2 DEF ChosenRight
    <3>2. log[i].heard = {l}
      BY <2>1, <3>1 DEF Q!ToSet
    <3>3. Q!Cardinality({l}) = 1
      BY FS_Singleton, QCardinality
    <3> QED BY <2>2, <3>1, <3>2, <3>3
  <2>3. CASE ~(log[i].kind \in Q!SharedKinds /\ log[i].for # {})
    BY <1>1, <2>1, <2>3 DEF ChosenRight
  <2> QED BY <2>2, <2>3
<1>3. ASSUME NEW i \in DOMAIN log, NEW j \in DOMAIN log,
             i < j, log[i].kind = log[j].kind, log[i].kind \in Q!SharedKinds,
             log[i].to # << >>, log[i].to = log[j].to
      PROVE  Q!Cardinality({k \in i .. j - 1 : log[k].kind = log[i].kind}) >= Q!Cardinality(log[i].for)
  <2>1. Cardinality(Round(log, i, j - 1)) >= Cardinality(log[i].for)
    BY <1>1, <1>3 DEF Fair, Pooled
  <2>2. {k \in i .. j - 1 : log[k].kind = log[i].kind} = Round(log, i, j - 1)
    BY DEF Round
  <2> QED BY <2>1, <2>2, QCardinality
<1> QED BY <1>2, <1>3 DEF RoutedLikeABroker, Q!RoutedLikeABroker

----------------------------------------------------------------------------
(* The resource tables and the console.                                    *)

\* What callers send.
Input == [status : R!Text, enabled : BOOLEAN, body : Nat, needs : SUBSET ({"agent", "mcp"} \X RowKeys)]

\* The order both export and import keep to.
Rank == [llm |-> 1, channel |-> 2, mcp |-> 3, skill |-> 4, agent |-> 5, flow |-> 6, run |-> 7]
Ordered(s) == \A i, j \in DOMAIN s : i < j => Rank[s[i]] < Rank[s[j]]

\* Tables, requests and queue.
ResourceTypes ==
  /\ rows \in [R!Kinds -> [RowKeys -> R!Row \union {Nil}]]
  /\ \A kind \in R!Kinds, k \in RowKeys : rows[kind][k] # Nil => rows[kind][k] \in R!RowOf(kind)
  /\ ids \in Nat /\ namespace \in R!Text /\ DOMAIN req = Updaters
  /\ \A c \in Updaters : req[c] # Nil =>
       /\ req[c].kind \in {"agent", "mcp", "knowledge"} /\ req[c].key \in RowKeys /\ req[c].row \in R!Row
  /\ todo \in Seq(R!Slots) /\ Ordered(todo)

\* A file under construction is a backup, too; flows and skills get into it
\* one by one, and import starts from a file that stays.
Exporting ==
  /\ (doing \in {"export", "specs"} \/ file # Nil) => R!Backup(file)
  /\ doing \in {"export", "specs"} => home = "" /\ \A i \in DOMAIN todo : todo[i] # "skill"
  /\ doing = "export" /\ (\E i \in DOMAIN todo : todo[i] = "flow") => file["flow"] = {} /\ file["skill"] = {}
  /\ doing = "specs" =>
       /\ todo # << >> /\ todo[1] = "flow" /\ left \subseteq RowKeys
       /\ \A slot \in {"flow", "skill"} : \A item \in file[slot] : item.key \notin left
  /\ doing = "start" => \A it \in left : it.key \in RowKeys /\ rows["run"][it.key] # Nil /\ it.row \in R!Row

\* A row that the import has written and nobody has changed since.
Restored(slot, item) == <<R!KindOf(slot), item.key>> \in touched \/ R!Holds(slot, item)

\* What an import has gone through is there, kind by kind and row by row.
Importing ==
  /\ home # "" => file # Nil
  /\ doing = "import" =>
       /\ todo # << >> /\ home # "" /\ namespace = home /\ left \subseteq file[todo[1]]
       /\ todo[1] # "run" => \A item \in file[todo[1]] \ left : Restored(todo[1], item)
  /\ home # "" =>
       \A slot \in R!Slots \ {"run"} : (\A i \in DOMAIN todo : todo[i] # slot) =>
         \A item \in file[slot] : Restored(slot, item)

\* A row whose names are found, or that somebody else has a part in.
Whole(kind, k) ==
  \/ rows[kind][k].sort = "skill" \/ <<kind, k>> \in touched
  \/ \A n \in rows[kind][k].needs : n[2] \in R!Live(n[1]) \/ n \in touched

\* Nothing the import has written names a missing row.
NoneDangles ==
  home # "" /\ closed /\ R!FileClosed => \A kind \in {"flow", "run"} : \A k \in R!Live(kind) : Whole(kind, k)

\* What every step on the tables and of the console preserves.
ResourceInv == ResourceTypes /\ Exporting /\ Importing /\ NoneDangles

LEMMA NoElements == \A S : << >> \in Seq(S) /\ DOMAIN << >> = {}
  OBVIOUS

LEMMA SeqHead ==
  ASSUME NEW S, NEW s \in Seq(S), s # << >>
  PROVE  /\ s[1] \in S /\ Head(s) = s[1] /\ 1 \in DOMAIN s /\ Tail(s) \in Seq(S)
         /\ Len(s) \in Nat \ {0} /\ DOMAIN s = 1 .. Len(s) /\ DOMAIN Tail(s) = 1 .. Len(s) - 1
         /\ \A i \in 1 .. Len(s) - 1 : Tail(s)[i] = s[i + 1]
  OBVIOUS

\* The names in a row are of agents, MCP servers and flows.
LEMMA NeedOf ==
  ASSUME NEW row \in R!Row, NEW n \in row.needs
  PROVE  n = <<n[1], n[2]>> /\ n[1] \in {"agent", "mcp", "flow"} /\ n[2] \in RowKeys
<1>1. n \in {"agent", "mcp", "flow"} \X RowKeys
  BY DEF R!Row
<1> QED BY <1>1

LEMMA SameFile == ASSUME file' = file PROVE R!Backup(file)' <=> R!Backup(file)
  BY DEF R!Backup

LEMMA ResourceInitial == R!Init => ResourceInv
<1> SUFFICES ASSUME R!Init PROVE ResourceInv
  OBVIOUS
<1>1. /\ rows \in Contents /\ ids = UsedIds /\ req = [c \in Updaters |-> Nil] /\ namespace = "" /\ doing = "idle"
      /\ todo = << >> /\ file \in Backups /\ home = "" /\ closed = FALSE
  BY DEF R!Init
<1>2. ResourceTypes
  <2>1. /\ rows \in [R!Kinds -> [RowKeys -> R!Row \union {Nil}]]
        /\ \A kind \in R!Kinds, k \in RowKeys : rows[kind][k] # Nil => rows[kind][k] \in R!RowOf(kind)
    BY <1>1, ResourcesAssumption
  <2>2. DOMAIN req = Updaters /\ \A c \in Updaters : req[c] = Nil
    BY <1>1
  <2>3. ids \in Nat
    BY <1>1, ResourcesAssumption
  <2>4. todo \in Seq(R!Slots) /\ DOMAIN todo = {}
    <3>1. todo = << >>
      BY <1>1
    <3> QED BY <3>1, NoElements
  <2>5. Ordered(todo)
    BY <2>4 DEF Ordered
  <2>6. namespace \in R!Text
    BY <1>1, TextsAssumption
  <2> QED BY <2>1, <2>2, <2>3, <2>4, <2>5, <2>6 DEF ResourceTypes
<1>3. Exporting
  <2>1. file # Nil => R!Backup(file)
    BY <1>1, ResourcesAssumption
  <2> QED BY <1>1, <2>1 DEF Exporting
<1>4. Importing /\ NoneDangles
  BY <1>1 DEF Importing, NoneDangles
<1> QED BY <1>2, <1>3, <1>4 DEF ResourceInv

\* Rows as the handlers and commands make them.
LEMMA MadeRow ==
  ASSUME NEW id \in Nat, NEW ns \in R!Text, NEW in \in Input, NEW sort \in R!Text
  PROVE  /\ R!NewRow(id, ns, in, sort) \in R!Row
         /\ R!NewRow(id, ns, in, sort).sort = sort /\ R!NewRow(id, ns, in, sort).needs = in.needs
         /\ R!NewRow(id, ns, in, sort).id = id
  BY DEF R!NewRow, R!Row, Input

LEMMA ReceivedInput ==
  ASSUME NEW kind, NEW in \in Input
  PROVE  R!Received(kind, in) \in Input
<1>1. R!LlmStatus(in) \in R!Text /\ R!KnowledgeStatus(in) \in R!Text
  BY TextsAssumption DEF R!LlmStatus, R!KnowledgeStatus, Input
<1>2. \A st \in R!Text : [in EXCEPT !.status = st] \in Input
  BY DEF Input
<1> QED BY <1>1, <1>2 DEF R!Received

\* A write of one row, which may drop others, but no run.
Written(kind, k) ==
  /\ kind \in R!Kinds /\ k \in RowKeys
  /\ rows' \in [R!Kinds -> [RowKeys -> R!Row \union {Nil}]]
  /\ \A kd \in R!Kinds, j \in RowKeys :
       /\ rows'[kd][j] # Nil => rows'[kd][j] \in R!RowOf(kd)
       /\ kd = "run" /\ rows[kd][j] # Nil => rows'[kd][j] # Nil
       /\ <<kd, j>> # <<kind, k>> => rows'[kd][j] = rows[kd][j] \/ <<kd, j>> \in R!Dropped

\* A write that changes one row at most.
OneRow(kind, k) ==
  rows' = rows \/ \E row \in R!RowOf(kind) : rows' = [rows EXCEPT ![kind][k] = row]

LEMMA OneRowWrites ==
  ASSUME ResourceTypes, NEW kind \in R!Kinds, NEW k \in RowKeys, OneRow(kind, k)
  PROVE  Written(kind, k)
<1>1. CASE rows' = rows
  BY <1>1 DEF ResourceTypes, Written
<1>2. CASE rows' # rows
  <2>1. PICK row \in R!RowOf(kind) : rows' = [rows EXCEPT ![kind][k] = row]
    BY <1>2 DEF OneRow
  <2>2. row \in R!Row /\ row # Nil
    BY ResourcesAssumption DEF R!RowOf
  <2>3. /\ rows' \in [R!Kinds -> [RowKeys -> R!Row \union {Nil}]] /\ rows'[kind][k] = row
        /\ \A kd \in R!Kinds, j \in RowKeys : kd # kind \/ j # k => rows'[kd][j] = rows[kd][j]
    BY <2>1, <2>2 DEF ResourceTypes
  <2> QED BY <2>2, <2>3 DEF ResourceTypes, Written
<1> QED BY <1>1, <1>2

\* Whether a row of the backup is there depends on the one row.
LEMMA SameHold ==
  ASSUME NEW slot \in R!Slots, NEW item, item.key \in RowKeys, home' = home,
         rows'[R!KindOf(slot)][item.key] = rows[R!KindOf(slot)][item.key]
  PROVE  R!Holds(slot, item)' <=> R!Holds(slot, item)
  BY DEF R!Holds, R!Live

LEMMA SlotKinds == \A slot \in R!Slots : R!KindOf(slot) \in R!Kinds
  BY DEF R!Slots, R!KindOf, R!Kinds

\* The rows of a backup.
LEMMA BackupItems ==
  ASSUME R!Backup(file), NEW slot \in R!Slots, NEW item \in file[slot]
  PROVE  /\ item.key \in RowKeys /\ item.row \in R!Row /\ item.row \in R!RowOf(R!KindOf(slot))
         /\ R!KindOf(slot) = "flow" => item.row.sort = slot
  BY DEF R!Backup

\* What others do between the steps of the console.
Edit(kind, k) ==
  /\ Written(kind, k) /\ touched' = touched \union {<<kind, k>>} \union R!Dropped
  /\ UNCHANGED <<namespace, home, closed, file, todo>>
  /\ ids' \in Nat
  /\ req' = req \/ \E c \in Updaters : req' = [req EXCEPT ![c] = Nil]
  /\ \/ doing' = doing /\ left' = left
     \/ doing = "start" /\ doing' = "idle" /\ left' = {}

\* Such a write may take away what the import restored, and is held against it.
LEMMA EditKeeps ==
  ASSUME ResourceInv, NEW kind, NEW k, Edit(kind, k)
  PROVE  ResourceInv'
<1>1. ResourceTypes /\ Exporting /\ Importing /\ NoneDangles /\ Written(kind, k) /\ kind \in R!Kinds /\ k \in RowKeys
  BY DEF ResourceInv, Edit, Written
<1>2. /\ rows' \in [R!Kinds -> [RowKeys -> R!Row \union {Nil}]]
      /\ \A kd \in R!Kinds, j \in RowKeys :
           /\ rows'[kd][j] # Nil => rows'[kd][j] \in R!RowOf(kd)
           /\ kd = "run" /\ rows[kd][j] # Nil => rows'[kd][j] # Nil
           /\ <<kd, j>> \notin touched' => rows'[kd][j] = rows[kd][j]
  BY <1>1 DEF Written, Edit
<1>3. /\ touched \subseteq touched' /\ namespace' = namespace /\ home' = home /\ closed' = closed
      /\ file' = file /\ todo' = todo /\ ids' \in Nat
  BY DEF Edit
<1>4. \/ doing' = doing /\ left' = left
      \/ doing = "start" /\ doing' = "idle" /\ left' = {}
  BY DEF Edit
<1>5. ResourceTypes'
  <2>1. /\ DOMAIN req' = Updaters
        /\ \A c \in Updaters : req'[c] # Nil =>
             /\ req'[c].kind \in {"agent", "mcp", "knowledge"} /\ req'[c].key \in RowKeys /\ req'[c].row \in R!Row
    <3>1. CASE req' = req
      BY <1>1, <3>1 DEF ResourceTypes
    <3>2. CASE \E c \in Updaters : req' = [req EXCEPT ![c] = Nil]
      BY <1>1, <3>2 DEF ResourceTypes
    <3> QED BY <3>1, <3>2 DEF Edit
  <2> QED BY <1>1, <1>2, <1>3, <2>1 DEF ResourceTypes
<1>6. Exporting'
  <2>1. doing' = "start" => \A it \in left' : it.key \in RowKeys /\ rows'["run"][it.key] # Nil /\ it.row \in R!Row
    <3>1. doing' = "start" => doing = "start" /\ left' = left
      BY <1>4
    <3>2. "run" \in R!Kinds
      BY DEF R!Kinds
    <3> QED BY <1>1, <1>2, <3>1, <3>2 DEF Exporting
  <2> QED BY <1>1, <1>3, <1>4, <2>1, SameFile DEF Exporting
<1>7. ASSUME NEW slot \in R!Slots, NEW item, item.key \in RowKeys, Restored(slot, item)
      PROVE  Restored(slot, item)'
  <2>1. CASE <<R!KindOf(slot), item.key>> \in touched'
    BY <2>1 DEF Restored
  <2>2. CASE <<R!KindOf(slot), item.key>> \notin touched'
    <3>1. rows'[R!KindOf(slot)][item.key] = rows[R!KindOf(slot)][item.key]
      BY <1>2, <1>7, <2>2, SlotKinds
    <3> QED BY <1>3, <1>7, <3>1, SameHold DEF Restored
  <2> QED BY <2>1, <2>2
<1>8. home # "" => R!Backup(file) /\ file # Nil
  BY <1>1 DEF Importing, Exporting
<1>9. Importing'
  <2>1. ASSUME doing' = "import"
        PROVE  /\ todo # << >> /\ home # "" /\ namespace = home /\ left' \subseteq file[todo[1]]
               /\ todo[1] # "run" => \A item \in file[todo[1]] \ left' : Restored(todo[1], item)'
    <3>1. doing = "import" /\ left' = left
      BY <1>4, <2>1
    <3>2. todo # << >> /\ home # "" /\ namespace = home /\ left \subseteq file[todo[1]]
      BY <1>1, <3>1 DEF Importing
    <3>3. todo[1] \in R!Slots
      <4>1. todo \in Seq(R!Slots)
        BY <1>1 DEF ResourceTypes
      <4> QED BY <3>2, <4>1, SeqHead, Zenon
    <3>4. ASSUME todo[1] # "run", NEW item \in file[todo[1]] \ left PROVE Restored(todo[1], item)'
      <4>1. Restored(todo[1], item)
        BY <1>1, <3>1, <3>4 DEF Importing
      <4>2. item.key \in RowKeys
        BY <1>8, <3>2, <3>3, BackupItems
      <4>3. \A s \in R!Slots : Restored(s, item) => Restored(s, item)'
        BY <1>7, <4>2
      <4>4. \A s : s = todo[1] => Restored(s, item)'
        BY <3>3, <4>1, <4>3
      <4> QED BY <1>3, <4>4
    <3> QED BY <3>1, <3>2, <3>4
  <2>2. ASSUME home # "", NEW slot \in R!Slots \ {"run"}, \A i \in DOMAIN todo : todo[i] # slot, NEW item \in file[slot]
        PROVE  Restored(slot, item)'
    <3>1. Restored(slot, item)
      BY <1>1, <2>2 DEF Importing
    <3> QED BY <1>7, <1>8, <2>2, <3>1, BackupItems
  <2> QED BY <1>3, <1>8, <2>1, <2>2 DEF Importing
<1>10. NoneDangles'
  <2> SUFFICES ASSUME home # "", closed, R!FileClosed, NEW kd \in {"flow", "run"}, NEW j \in R!Live(kd)'
               PROVE  Whole(kd, j)'
    BY <1>3 DEF NoneDangles, R!FileClosed
  <2>1. kd \in R!Kinds /\ j \in RowKeys /\ {"agent", "mcp", "flow"} \subseteq R!Kinds
    BY DEF R!Kinds, R!Live
  <2>2. CASE <<kd, j>> \in touched'
    BY <2>2 DEF Whole
  <2>3. CASE <<kd, j>> \notin touched'
    <3>1. rows'[kd][j] = rows[kd][j] /\ j \in R!Live(kd)
      BY <1>2, <2>1, <2>3 DEF R!Live
    <3>2. Whole(kd, j) /\ rows[kd][j] \in R!Row
      BY <1>1, <2>1, <3>1 DEF NoneDangles, ResourceTypes, R!RowOf, R!Live
    <3>3. ASSUME NEW n \in rows[kd][j].needs, n[2] \in R!Live(n[1]) \/ n \in touched
          PROVE  n[2] \in R!Live(n[1])' \/ n \in touched'
      <4>1. n = <<n[1], n[2]>> /\ n[1] \in R!Kinds /\ n[2] \in RowKeys
        BY <2>1, <3>2, NeedOf
      <4>2. CASE n \in touched'
        BY <4>2
      <4>3. CASE n \notin touched'
        <5>1. rows'[n[1]][n[2]] = rows[n[1]][n[2]]
          BY <1>2, <4>1, <4>3
        <5> QED BY <1>3, <3>3, <4>1, <5>1 DEF R!Live
      <4> QED BY <4>2, <4>3
    <3> QED BY <1>3, <3>1, <3>2, <3>3 DEF Whole
  <2> QED BY <2>2, <2>3
<1> QED BY <1>5, <1>6, <1>9, <1>10 DEF ResourceInv

LEMMA PlainRows == \A kind : kind # "flow" => R!RowOf(kind) = R!Row
  BY DEF R!RowOf

LEMMA FlowRows ==
  ASSUME NEW row \in R!Row, row.sort \in {"flow", "skill"}, \A n \in row.needs : n[1] # "flow"
  PROVE  row \in R!RowOf("flow")
  BY DEF R!RowOf

\* A row with other values in the columns that RowOf does not look at.
LEMMA Altered ==
  ASSUME NEW kind, NEW row \in R!RowOf(kind), NEW row2 \in R!Row, row2.sort = row.sort, row2.needs = row.needs
  PROVE  row2 \in R!RowOf(kind)
  BY DEF R!RowOf

\* The row that a save leaves that is not refused.
LEMMA SavedRow ==
  ASSUME ResourceTypes, NEW kind \in R!Kinds, NEW k \in RowKeys, NEW row \in R!RowOf(kind), R!Save(kind, k, row),
         ~R!IdTaken(kind, k, row.id)
  PROVE  /\ Written(kind, k) /\ rows'[kind][k] \in R!RowOf(kind) /\ rows'[kind][k].del = FALSE
         /\ rows'[kind][k].needs = row.needs /\ rows'[kind][k].sort = row.sort /\ rows'[kind][k].body = row.body
         /\ rows'[kind][k].ns = row.ns /\ (R!Usable(kind, row) => R!Usable(kind, rows'[kind][k]))
         /\ kind \notin {"agent", "mcp"} => R!Dropped = {}
<1> DEFINE new == [row EXCEPT !.del = FALSE]
           same == R!SameId(kind, k, row.id)
<1>1. row \in R!Row
  BY DEF R!RowOf
<1>2. rows' = [rows EXCEPT ![kind] =
                 [j \in RowKeys |-> IF j = k THEN new ELSE IF j \in same THEN Nil ELSE rows[kind][j]]]
  BY DEF R!Save, R!Saved, ResourceTypes
<1>3. /\ new \in R!Row /\ new.del = FALSE /\ new.needs = row.needs /\ new.sort = row.sort /\ new.body = row.body
      /\ new.ns = row.ns /\ new.status = row.status /\ new.enabled = row.enabled
  BY <1>1 DEF R!Row
<1>4. /\ \A j \in same : j # k /\ rows[kind][j] # Nil
      /\ kind \notin {"agent", "mcp"} => same = {}
  BY DEF R!SameId
<1> HIDE DEF new, same
<1>5. /\ rows'[kind][k] = new
      /\ \A j \in same : j \in RowKeys => rows'[kind][j] = Nil
      /\ \A kd \in R!Kinds, j \in RowKeys : kd # kind \/ (j # k /\ j \notin same) => rows'[kd][j] = rows[kd][j]
  BY <1>2, <1>4 DEF ResourceTypes
<1>6. new \in R!RowOf(kind) /\ new # Nil
  BY <1>3, Altered, ResourcesAssumption
<1>7. rows' \in [R!Kinds -> [RowKeys -> R!Row \union {Nil}]]
  BY <1>2, <1>3 DEF ResourceTypes
<1>8. ASSUME NEW kd \in R!Kinds, NEW j \in RowKeys
      PROVE  /\ rows'[kd][j] # Nil => rows'[kd][j] \in R!RowOf(kd)
             /\ kd = "run" /\ rows[kd][j] # Nil => rows'[kd][j] # Nil
             /\ <<kd, j>> # <<kind, k>> => rows'[kd][j] = rows[kd][j] \/ <<kd, j>> \in R!Dropped
             /\ kind \notin {"agent", "mcp"} => <<kd, j>> \notin R!Dropped
  <2>1. CASE kd = kind /\ j = k
    BY <1>5, <1>6, <2>1 DEF R!Dropped
  <2>2. CASE kd = kind /\ j \in same
    BY <1>4, <1>5, <2>2 DEF R!Dropped
  <2>3. CASE kd # kind \/ (j # k /\ j \notin same)
    <3>1. rows'[kd][j] = rows[kd][j]
      BY <1>5, <2>3
    <3> QED BY <3>1 DEF R!Dropped, ResourceTypes
  <2> QED BY <2>1, <2>2, <2>3
<1>9. Written(kind, k)
  BY <1>7, <1>8 DEF Written
<1>10. R!Usable(kind, row) => R!Usable(kind, new)
  BY <1>3 DEF R!Usable
<1>11. kind \notin {"agent", "mcp"} => R!Dropped = {}
  BY <1>8 DEF R!Dropped
<1> QED BY <1>3, <1>5, <1>6, <1>9, <1>10, <1>11

\* Saves and deletions are writes of one row.
LEMMA SaveWrites ==
  ASSUME ResourceTypes, NEW kind \in R!Kinds, NEW k \in RowKeys, NEW row \in R!RowOf(kind), R!Save(kind, k, row)
  PROVE  Written(kind, k)
<1>1. CASE rows' = rows
  BY <1>1, OneRowWrites DEF OneRow
<1>2. CASE rows' # rows
  <2>1. ~R!IdTaken(kind, k, row.id)
    BY <1>2 DEF R!Save, R!Saved
  <2> QED BY <2>1, SavedRow
<1> QED BY <1>1, <1>2

LEMMA DeleteWrites ==
  ASSUME ResourceTypes, NEW kind \in R!Kinds, NEW k \in RowKeys, rows' = R!Deleted(kind, k)
  PROVE  Written(kind, k)
<1> DEFINE old == rows[kind][k]
           new == [old EXCEPT !.del = TRUE, !.status = "DELETED"]
<1>1. CASE old = Nil
  BY <1>1, OneRowWrites DEF R!Deleted, OneRow
<1>2. CASE old # Nil
  <2>1. rows' = [rows EXCEPT ![kind][k] = new]
    BY <1>2 DEF R!Deleted, ResourceTypes
  <2>2. old \in R!RowOf(kind) /\ old \in R!Row
    BY <1>2 DEF ResourceTypes, R!RowOf
  <2>3. new \in R!Row /\ new.sort = old.sort /\ new.needs = old.needs
    BY <2>2, TextsAssumption DEF R!Row
  <2>4. new \in R!RowOf(kind)
    BY <2>2, <2>3, Altered
  <2> QED BY <2>1, <2>4, OneRowWrites DEF OneRow
<1> QED BY <1>1, <1>2

LEMMA InputTypes == /\ \A in \in Inputs : in \in Input /\ \A n \in in.needs : n[1] # "flow"
                    /\ \A ns \in Spaces : ns \in R!Text /\ ns # ""
<1>1. ASSUME NEW in \in Inputs PROVE in \in Input /\ \A n \in in.needs : n[1] # "flow"
  <2>1. in \in Input
    BY ResourcesAssumption DEF Input
  <2>2. in.needs \subseteq {"agent", "mcp"} \X RowKeys
    BY <2>1 DEF Input
  <2> QED BY <2>1, <2>2
<1> QED BY <1>1, ResourcesAssumption

\* The handlers and commands, one by one, are edits.
LEMMA CreateEdits ==
  ASSUME ResourceTypes, NEW kind \in R!Kinds \ {"flow"}, NEW k \in RowKeys, NEW ns \in Spaces, NEW in \in Inputs,
         R!Create(kind, k, ns, in)
  PROVE  Edit(kind, k)
<1>1. R!NewRow(ids + 1, ns, R!Received(kind, in), "") \in R!RowOf(kind) /\ ids + 1 \in Nat
  <2>1. ids + 1 \in Nat /\ ns \in R!Text /\ R!Received(kind, in) \in Input /\ "" \in R!Text
    <3>1. ids + 1 \in Nat
      BY DEF ResourceTypes
    <3> QED BY <3>1, ReceivedInput, InputTypes, TextsAssumption
  <2> QED BY <2>1, MadeRow, PlainRows
<1>2. Written(kind, k)
  BY <1>1, SaveWrites DEF R!Create
<1> QED BY <1>1, <1>2 DEF R!Create, R!Write, R!Fresh, R!consoleVars, Edit

LEMMA ReplaceEdits ==
  ASSUME ResourceTypes, NEW kind \in {"llm", "channel"}, NEW k \in RowKeys, NEW in \in Inputs,
         R!Replace(kind, k, in), k \in Nat
  PROVE  Edit(kind, k)
<1>1. R!NewRow(k, "", R!Received(kind, in), "") \in R!RowOf(kind)
  <2>1. R!Received(kind, in) \in Input /\ "" \in R!Text
    BY ReceivedInput, InputTypes, TextsAssumption
  <2> QED BY <2>1, MadeRow, PlainRows
<1>2. kind \in R!Kinds /\ ids \in Nat
  BY DEF R!Kinds, ResourceTypes
<1>3. Written(kind, k)
  BY <1>1, <1>2, SaveWrites DEF R!Replace
<1> QED BY <1>2, <1>3 DEF R!Replace, R!Write, R!consoleVars, Edit

LEMMA UpdateEdits ==
  ASSUME ResourceTypes, NEW c \in Updaters, NEW ns \in Spaces, NEW in \in Inputs, R!UpdateRow(c, ns, in)
  PROVE  \E kind, k : Edit(kind, k)
<1> DEFINE kind == req[c].kind
           k == req[c].key
           old == req[c].row
<1>1. PICK row : R!EndUpdate(c, kind, row) /\ row \in {R!Merge(old, ns, in), R!MergeMcp(old, in)} /\ req[c] # Nil
  BY DEF R!UpdateRow, R!UpdateAgent, R!UpdateMcp, R!UpdateKnowledge, R!EndUpdate
<1>2. kind \in R!Kinds \ {"flow"} /\ k \in RowKeys /\ old \in R!Row /\ in \in Input /\ ns \in R!Text /\ ids \in Nat
  BY <1>1, InputTypes DEF ResourceTypes, R!Kinds
<1> HIDE DEF kind, k, old
<1>3. \A n \in R!Text : R!Merge(old, n, in) \in R!Row
  BY <1>2 DEF R!Merge, R!Row, Input
<1>4. R!MergeMcp(old, in) \in R!Row
  <2>1. old.ns \in R!Text
    BY <1>2 DEF R!Row
  <2>2. R!Merge(old, old.ns, in) \in R!Row
    BY <1>3, <2>1
  <2> QED BY <1>2, <2>2 DEF R!MergeMcp, R!Row, Input
<1>5. row \in R!RowOf(kind)
  BY <1>1, <1>2, <1>3, <1>4, PlainRows
<1>6. R!Write(kind, k) /\ R!Save(kind, k, row) /\ req' = [req EXCEPT ![c] = Nil]
  BY <1>1 DEF R!EndUpdate, kind, k
<1>7. Written(kind, k)
  BY <1>2, <1>5, <1>6, SaveWrites
<1>8. Edit(kind, k)
  BY <1>1, <1>2, <1>6, <1>7 DEF R!EndUpdate, R!Write, R!consoleVars, Edit
<1> QED BY <1>8

LEMMA DeleteEdits ==
  ASSUME ResourceTypes, NEW kind \in R!Kinds, NEW k \in RowKeys, R!Delete(kind, k)
  PROVE  Edit(kind, k)
<1>1. Written(kind, k)
  BY DeleteWrites DEF R!Delete
<1> QED BY <1>1 DEF R!Delete, R!Write, R!consoleVars, Edit, ResourceTypes

\* A run with another status and output.
LEMMA RunWrites ==
  ASSUME ResourceTypes, NEW k \in RowKeys, rows["run"][k] # Nil, NEW st \in R!Text, NEW b \in Nat
  PROVE  /\ rows' = [rows EXCEPT !["run"][k].status = st] => Written("run", k)
         /\ rows' = [rows EXCEPT !["run"][k].status = st, !["run"][k].body = b] => Written("run", k)
<1> DEFINE old == rows["run"][k]
<1>1. "run" \in R!Kinds /\ old \in R!Row /\ R!RowOf("run") = R!Row
  BY PlainRows DEF ResourceTypes, R!Kinds, R!RowOf
<1>2. [old EXCEPT !.status = st] \in R!Row /\ [old EXCEPT !.status = st, !.body = b] \in R!Row
  BY <1>1 DEF R!Row
<1>3. /\ [rows EXCEPT !["run"][k].status = st] = [rows EXCEPT !["run"][k] = [old EXCEPT !.status = st]]
      /\ [rows EXCEPT !["run"][k].status = st, !["run"][k].body = b] =
           [rows EXCEPT !["run"][k] = [old EXCEPT !.status = st, !.body = b]]
  BY <1>1 DEF ResourceTypes
<1> QED BY <1>1, <1>2, <1>3, OneRowWrites DEF OneRow

LEMMA AdvanceEdits ==
  ASSUME ResourceTypes, NEW k \in RowKeys, R!Advance(k)
  PROVE  Edit("run", k)
<1>1. rows["run"][k] # Nil
  BY DEF R!Advance, R!Live
<1>2. Written("run", k)
  BY <1>1, RunWrites, TextsAssumption DEF R!Advance
<1> QED BY <1>2 DEF R!Advance, R!Write, R!consoleVars, Edit, ResourceTypes

LEMMA KeyFacts == MaxIds \in Nat /\ 1 .. MaxIds \subseteq RowKeys /\ RowKeys \subseteq Nat
  BY ResourcesAssumption

LEMMA CommandEdits ==
  ASSUME NEW kind, NEW k, R!Command(kind, k), Written(kind, k), ids' \in Nat
  PROVE  Edit(kind, k)
  BY DEF R!Command, R!Write, R!consoleVars, Edit

LEMMA AddEdits ==
  ASSUME ResourceTypes, NEW k \in RowKeys, NEW id \in Nat, NEW in \in Inputs, R!AddRow(k, id, in)
  PROVE  \E kind : Edit(kind, k)
<1>1. /\ ids \in Nat /\ ids + 1 \in Nat /\ namespace \in R!Text /\ k \in Nat /\ 0 \in Nat
      /\ in \in Input /\ "" \in R!Text
      /\ "llm" \in R!Kinds /\ "channel" \in R!Kinds /\ "agent" \in R!Kinds /\ "mcp" \in R!Kinds /\ "flow" \in R!Kinds
  <2>1. ids \in Nat /\ namespace \in R!Text
    BY DEF ResourceTypes
  <2>2. k \in Nat /\ in \in Input
    BY KeyFacts, InputTypes
  <2>3. "" \in R!Text
    BY TextsAssumption
  <2>4. /\ "llm" \in R!Kinds /\ "channel" \in R!Kinds /\ "agent" \in R!Kinds /\ "mcp" \in R!Kinds
        /\ "flow" \in R!Kinds
    BY DEF R!Kinds
  <2>5. ids + 1 \in Nat /\ 0 \in Nat
    BY <2>1
  <2> QED BY <2>1, <2>2, <2>3, <2>4, <2>5, Zenon
<1>2. ASSUME NEW kind \in {"llm", "channel", "agent", "mcp"}, NEW i \in Nat, R!Command(kind, k),
             R!Save(kind, k, R!NewRow(i, namespace, in, "")), ids' \in Nat
      PROVE  Edit(kind, k)
  <2>1. R!NewRow(i, namespace, in, "") \in R!RowOf(kind)
    BY <1>1, <1>2, MadeRow, PlainRows
  <2>2. Written(kind, k)
    BY <1>1, <1>2, <2>1, SaveWrites
  <2> QED BY <1>2, <2>2, CommandEdits
<1>3. ASSUME NEW sort \in {"flow", "skill"}, R!Command("flow", k), R!SaveSpec(k, in, sort) PROVE Edit("flow", k)
  <2> DEFINE active == [in EXCEPT !.status = "ACTIVE"]
  <2>1. active \in Input /\ active.needs = in.needs
    BY <1>1, TextsAssumption DEF Input
  <2>2. R!Save("flow", k, R!NewRow(k, namespace, active, sort)) /\ ids' = ids
    BY <1>3 DEF R!SaveSpec
  <2> HIDE DEF active
  <2>3. sort \in R!Text
    BY TextsAssumption
  <2>4. /\ R!NewRow(k, namespace, active, sort) \in R!Row
        /\ R!NewRow(k, namespace, active, sort).sort = sort /\ R!NewRow(k, namespace, active, sort).needs = active.needs
    <3>1. k \in Nat /\ namespace \in R!Text /\ active \in Input /\ sort \in R!Text
      BY <1>1, <2>1, <2>3
    <3> QED BY <3>1, MadeRow
  <2>5. R!NewRow(k, namespace, active, sort) \in R!RowOf("flow")
    BY <2>1, <2>4, InputTypes, FlowRows
  <2>6. Written("flow", k)
    BY <1>1, <2>2, <2>5, SaveWrites
  <2> QED BY <1>1, <1>3, <2>2, <2>6, CommandEdits
<1>4. CASE R!LlmAdd(k, in)
  BY <1>1, <1>2, <1>4 DEF R!LlmAdd, R!AddLLM, R!Fresh
<1>5. CASE R!ChannelAdd(k, in)
  BY <1>1, <1>2, <1>5 DEF R!ChannelAdd, R!AddChannel, R!Fresh
<1>6. CASE R!AgentAdd(k, id, in)
  BY <1>1, <1>2, <1>6 DEF R!AgentAdd, R!AddAgent
<1>7. CASE R!McpAdd(k, id, in)
  BY <1>1, <1>2, <1>7 DEF R!McpAdd, R!AddMCP
<1>8. CASE R!FlowAdd(k, in) \/ R!SkillAdd(k, in)
  BY <1>3, <1>8 DEF R!FlowAdd, R!AddFlow, R!SkillAdd, R!AddSkill
<1> QED BY <1>4, <1>5, <1>6, <1>7, <1>8 DEF R!AddRow

LEMMA RemoveEdits ==
  ASSUME ResourceTypes, NEW k \in RowKeys, R!RemoveRow(k)
  PROVE  \E kind : Edit(kind, k)
<1>1. PICK kind \in {"llm", "channel", "agent", "mcp", "flow"} : R!RemoveCommand(kind, k) /\ rows' = R!Deleted(kind, k)
  BY DEF R!RemoveRow, R!LlmRemove, R!ChannelRemove, R!AgentRemove, R!McpRemove, R!FlowRemove, R!SkillRemove,
     R!RemoveLLM, R!RemoveChannel, R!RemoveAgent, R!RemoveMCP, R!RemoveFlow, R!RemoveSkill
<1>2. kind \in R!Kinds
  BY DEF R!Kinds
<1>3. Written(kind, k) /\ ids' \in Nat /\ R!Command(kind, k)
  BY <1>1, <1>2, DeleteWrites DEF R!RemoveCommand, ResourceTypes
<1> QED BY <1>3, CommandEdits

LEMMA RunEdits ==
  ASSUME ResourceInv, NEW k, (k \in RowKeys /\ (R!RunCreate(k) \/ R!RunStop(k))) \/ R!StartRun
  PROVE  \E kind, j : Edit(kind, j)
<1>1. ResourceTypes /\ "run" \in R!Kinds /\ ids \in Nat /\ namespace \in R!Text
  BY DEF ResourceInv, ResourceTypes, R!Kinds
<1>2. CASE k \in RowKeys /\ R!RunCreate(k)
  <2> DEFINE j == ids + 1
             row == [id |-> j, ns |-> namespace, status |-> "PENDING", enabled |-> FALSE,
                     sort |-> "", body |-> 1, needs |-> {<<"flow", k>>}, del |-> FALSE]
  <2>1. R!Command("run", j) /\ R!Save("run", j, row) /\ ids' = j /\ ids < MaxIds
    BY <1>2 DEF R!RunCreate, R!CreateRun, R!Fresh
  <2>2. j \in Nat /\ j \in RowKeys
    <3>1. ids + 1 \in 1 .. MaxIds
      <4>1. ids \in Nat /\ ids < MaxIds /\ MaxIds \in Nat
        BY <1>1, <2>1, KeyFacts
      <4> QED BY <4>1
    <3> QED BY <3>1, KeyFacts
  <2> HIDE DEF j
  <2>3. row \in R!Row
    <3>1. {<<"flow", k>>} \in SUBSET ({"agent", "mcp", "flow"} \X RowKeys)
      BY <1>2
    <3>2. "PENDING" \in R!Text /\ "" \in R!Text
      BY TextsAssumption
    <3> QED BY <1>1, <2>2, <3>1, <3>2 DEF R!Row
  <2> HIDE DEF row
  <2>4. Written("run", j)
    BY <1>1, <2>1, <2>2, <2>3, SaveWrites, PlainRows
  <2>5. Edit("run", j)
    BY <2>1, <2>2, <2>4, CommandEdits
  <2> QED BY <2>5
<1>3. CASE k \in RowKeys /\ R!RunStop(k)
  <2>1. rows["run"][k] # Nil /\ rows' = [rows EXCEPT !["run"][k].status = "CANCELLED"] /\ R!Command("run", k) /\ ids' = ids
    BY <1>3 DEF R!RunStop, R!StopRun, R!RemoveCommand, R!Live
  <2>2. Written("run", k)
    BY <1>1, <1>3, <2>1, RunWrites, TextsAssumption
  <2> QED BY <1>1, <2>1, <2>2, CommandEdits
<1>4. CASE R!StartRun
  <2>1. PICK it \in left : /\ R!Write("run", it.key)
                           /\ rows' = [rows EXCEPT !["run"][it.key].status = "RUNNING", !["run"][it.key].body = it.row.body]
    BY <1>4 DEF R!StartRun
  <2>2. doing = "start" /\ doing' = "idle" /\ left' = {} /\ UNCHANGED <<ids, req, namespace, todo, wanted, file>>
    BY <1>4 DEF R!StartRun
  <2>3. it.key \in RowKeys /\ rows["run"][it.key] # Nil /\ it.row.body \in Nat
    <3>1. it.key \in RowKeys /\ rows["run"][it.key] # Nil /\ it.row \in R!Row
      BY <2>2 DEF ResourceInv, Exporting
    <3> QED BY <3>1 DEF R!Row
  <2>4. Written("run", it.key)
    BY <1>1, <2>1, <2>3, RunWrites, TextsAssumption
  <2>5. Edit("run", it.key)
    BY <1>1, <2>1, <2>2, <2>4 DEF R!Write, Edit
  <2> QED BY <2>5
<1> QED BY <1>2, <1>3, <1>4

LEMMA ImportResourceEdits ==
  ASSUME ResourceTypes, NEW slot \in R!Slots, NEW k \in RowKeys, NEW said \in Nat, NEW ns \in Spaces,
         NEW in \in Inputs, R!ImportResource(slot, k, said, ns, in)
  PROVE  \E kind : Edit(kind, k)
<1> DEFINE kind == R!KindOf(slot)
           isFlow == kind = "flow"
           given == slot \in {"agent", "mcp"} /\ said # 0
           id == IF isFlow THEN k ELSE IF given THEN said ELSE ids + 1
           sort == IF isFlow THEN slot ELSE ""
           row == R!NewRow(id, ns, in, sort)
           status == CASE slot = "llm" -> R!RuntimeStatus(row.status) [] isFlow -> "ACTIVE" [] OTHER -> row.status
           on == row.enabled \/ (slot = "mcp" /\ in.status = "active")
           new == [row EXCEPT !.status = status, !.enabled = on]
<1>1. /\ R!Write(kind, k) /\ R!Save(kind, k, new) /\ R!RequireNamespace /\ ids' \in {ids, ids + 1}
      /\ UNCHANGED <<req, namespace, R!consoleVars>>
  BY DEF R!ImportResource, R!Fresh
<1>2. ids \in Nat /\ id \in Nat /\ ns \in R!Text /\ sort \in R!Text /\ in \in Input /\ kind \in R!Kinds
  <2>1. ids \in Nat /\ k \in Nat
    BY KeyFacts DEF ResourceTypes
  <2>2. isFlow => slot \in {"flow", "skill"}
    BY DEF R!KindOf
  <2>3. sort \in R!Text
    BY <2>2, TextsAssumption
  <2>4. id \in Nat
    BY <2>1
  <2> QED BY <2>1, <2>3, <2>4, SlotKinds, InputTypes
<1> HIDE DEF id, sort, kind
<1>3. row \in R!Row /\ row.sort = sort /\ row.needs = in.needs
  BY <1>2, MadeRow
<1> HIDE DEF row
<1>4. status \in R!Text /\ on \in BOOLEAN
  BY <1>3, TextsAssumption DEF R!Row, R!RuntimeStatus
<1> HIDE DEF status, on
<1>5. new \in R!Row /\ new.sort = sort /\ new.needs = in.needs
  BY <1>3, <1>4 DEF R!Row
<1> HIDE DEF new
<1>6. new \in R!RowOf(kind)
  <2>1. CASE isFlow
    <3>1. sort \in {"flow", "skill"}
      BY <2>1 DEF R!KindOf, sort, kind
    <3> QED BY <1>5, <2>1, <3>1, FlowRows, InputTypes
  <2>2. CASE ~isFlow
    BY <1>5, <2>2, PlainRows
  <2> QED BY <2>1, <2>2
<1>7. Written(kind, k)
  BY <1>1, <1>2, <1>6, SaveWrites
<1>8. Edit(kind, k)
  <2>1. ids' \in Nat
    BY <1>1, <1>2
  <2> QED BY <1>1, <1>7, <2>1 DEF R!Write, R!consoleVars, Edit
<1> QED BY <1>8

LEMMA RestoredKept ==
  ASSUME rows' = rows, touched' = touched, home' = home, NEW slot, NEW item
  PROVE  Restored(slot, item)' <=> Restored(slot, item)
  BY DEF Restored, R!Holds, R!Live

\* A step that leaves tables and file as they are.
LEMMA QuietKeeps ==
  ASSUME ResourceInv, UNCHANGED <<rows, touched, home, closed, file, todo>>, ResourceTypes', Exporting',
         doing' = "import" => doing = "import" /\ left' = left /\ namespace' = namespace
  PROVE  ResourceInv'
<1>1. Importing /\ NoneDangles
  BY DEF ResourceInv
<1>2. Importing'
  <2>1. ASSUME doing' = "import"
        PROVE  /\ todo # << >> /\ home # "" /\ namespace' = home /\ left' \subseteq file[todo[1]]
               /\ todo[1] # "run" => \A item \in file[todo[1]] \ left' : Restored(todo[1], item)'
    <3>1. doing = "import" /\ left' = left /\ namespace' = namespace
      BY <2>1
    <3>2. \A slot, item : Restored(slot, item) => Restored(slot, item)'
      BY RestoredKept
    <3> QED BY <1>1, <3>1, <3>2 DEF Importing
  <2>2. ASSUME home # "", NEW slot \in R!Slots \ {"run"}, \A i \in DOMAIN todo : todo[i] # slot, NEW item \in file[slot]
        PROVE  Restored(slot, item)'
    BY <1>1, <2>2, RestoredKept DEF Importing
  <2>3. home # "" => file # Nil
    BY <1>1 DEF Importing
  <2> QED BY <2>1, <2>2, <2>3 DEF Importing
<1>3. NoneDangles'
  BY <1>1 DEF NoneDangles, R!FileClosed, R!Live, Whole
<1> QED BY <1>2, <1>3 DEF ResourceInv

LEMMA ResourceStutters == ResourceInv /\ UNCHANGED resourceVars => ResourceInv'
<1> SUFFICES ASSUME ResourceInv, UNCHANGED resourceVars PROVE ResourceInv'
  OBVIOUS
<1>1. UNCHANGED <<rows, ids, req, namespace, doing, todo, left, file, home, closed, touched>>
  BY DEF resourceVars
<1>2. ResourceTypes'
  BY <1>1 DEF ResourceInv, ResourceTypes
<1>3. Exporting'
  BY <1>1, SameFile DEF ResourceInv, Exporting
<1> QED BY <1>1, <1>2, <1>3, QuietKeeps

LEMMA BeginUpdateKeeps ==
  ASSUME ResourceInv, NEW c \in Updaters, NEW kind \in {"agent", "mcp", "knowledge"}, NEW k \in RowKeys,
         R!BeginUpdate(c, kind, k)
  PROVE  ResourceInv'
<1>1. /\ UNCHANGED <<rows, ids, namespace, doing, todo, left, file, home, closed, touched>>
      /\ req' = [req EXCEPT ![c] = [kind |-> kind, key |-> k, row |-> rows[kind][k]]]
  BY DEF R!BeginUpdate, R!consoleVars
<1>2. ResourceTypes /\ kind \in R!Kinds /\ rows[kind][k] # Nil
  BY DEF ResourceInv, R!BeginUpdate, R!Live, R!Kinds
<1>3. rows[kind][k] \in R!Row
  BY <1>2 DEF ResourceTypes, R!RowOf
<1>4. ResourceTypes'
  BY <1>1, <1>2, <1>3 DEF ResourceTypes
<1>5. Exporting'
  BY <1>1, SameFile DEF ResourceInv, Exporting
<1> QED BY <1>1, <1>4, <1>5, QuietKeeps

LEMMA NamespaceKeeps ==
  ASSUME ResourceInv, NEW ns \in Spaces \union {""}, R!CmdNamespace(ns)
  PROVE  ResourceInv'
<1>1. /\ UNCHANGED <<rows, ids, req, doing, todo, left, file, home, closed, touched>>
      /\ namespace' = ns /\ doing = "idle"
  BY DEF R!CmdNamespace, R!consoleVars
<1>2. ns \in R!Text
  BY InputTypes, TextsAssumption
<1>3. ResourceTypes'
  BY <1>1, <1>2 DEF ResourceInv, ResourceTypes
<1>4. Exporting'
  BY <1>1, SameFile DEF ResourceInv, Exporting
<1> QED BY <1>1, <1>3, <1>4, QuietKeeps

LEMMA RunStartKeeps ==
  ASSUME ResourceInv, NEW k \in RowKeys, R!RunStart(k)
  PROVE  ResourceInv'
<1>1. /\ UNCHANGED <<rows, ids, req, namespace, todo, file, home, closed, touched>>
      /\ doing = "idle" /\ doing' = "start" /\ left' = {[key |-> k, row |-> rows["run"][k]]} /\ rows["run"][k] # Nil
  BY DEF R!RunStart, R!RequireNamespace, R!Live
<1>2. ResourceTypes'
  BY <1>1 DEF ResourceInv, ResourceTypes
<1>3. rows["run"][k] \in R!Row
  BY <1>1 DEF ResourceInv, ResourceTypes, R!RowOf, R!Kinds
<1>4. Exporting'
  BY <1>1, <1>3, SameFile DEF ResourceInv, Exporting
<1> QED BY <1>1, <1>2, <1>4, QuietKeeps

LEMMA EndImportKeeps ==
  ASSUME ResourceInv, doing = "import", R!EndImport
  PROVE  ResourceInv'
<1>1. UNCHANGED <<rows, ids, req, namespace, todo, file, home, closed, touched>> /\ doing' = "idle"
  BY DEF R!EndImport
<1>2. ResourceTypes'
  BY <1>1 DEF ResourceInv, ResourceTypes
<1>3. Exporting'
  BY <1>1, SameFile DEF ResourceInv, Exporting, Importing
<1> QED BY <1>1, <1>2, <1>3, QuietKeeps

LEMMA RankTypes == \A slot \in R!Slots : Rank[slot] \in Nat
  BY DEF R!Slots, Rank

\* What is left of an ordered queue is ordered and does not hold its first again.
LEMMA OrderedTail ==
  ASSUME NEW s \in Seq(R!Slots), s # << >>, Ordered(s)
  PROVE  /\ Tail(s) \in Seq(R!Slots) /\ Ordered(Tail(s))
         /\ \A i \in DOMAIN Tail(s) : i + 1 \in DOMAIN s /\ Tail(s)[i] = s[i + 1] /\ Tail(s)[i] # s[1]
         /\ \A slot : (\A i \in DOMAIN Tail(s) : Tail(s)[i] # slot) => slot = s[1] \/ \A i \in DOMAIN s : s[i] # slot
<1> DEFINE t == Tail(s)
           n == Len(s)
<1>1. /\ t \in Seq(R!Slots) /\ n \in Nat \ {0} /\ DOMAIN s = 1 .. n /\ DOMAIN t = 1 .. n - 1
      /\ \A i \in 1 .. n - 1 : t[i] = s[i + 1]
  BY SeqHead
<1> HIDE DEF t, n
<1>2. \A i \in DOMAIN t : i + 1 \in DOMAIN s /\ t[i] = s[i + 1] /\ i \in Nat /\ 1 < i + 1 /\ 1 \in DOMAIN s
  BY <1>1
<1>3. Ordered(t)
  BY <1>2 DEF Ordered
<1>4. \A i \in DOMAIN s : Rank[s[i]] \in Nat
  BY RankTypes
<1>5. ASSUME NEW i \in DOMAIN t PROVE t[i] # s[1]
  <2>1. Rank[s[1]] < Rank[s[i + 1]] /\ Rank[s[1]] \in Nat
    BY <1>2, <1>4 DEF Ordered
  <2> QED BY <1>2, <2>1
<1>6. ASSUME NEW slot, \A i \in DOMAIN t : t[i] # slot, slot # s[1], NEW i \in DOMAIN s PROVE s[i] # slot
  <2>1. i = 1 \/ (i - 1 \in 1 .. n - 1 /\ s[i] = t[i - 1])
    BY <1>1
  <2> QED BY <1>1, <1>6, <2>1
<1> QED BY <1>1, <1>2, <1>3, <1>5, <1>6 DEF t

LEMMA ImportOrdered ==
  /\ R!ImportOrder \in Seq(R!Slots) /\ Ordered(R!ImportOrder) /\ R!ImportOrder # << >>
  /\ R!ImportOrder[1] = "llm" /\ Head(R!ImportOrder) = "llm"
  /\ \A slot \in R!Slots : \E i \in DOMAIN R!ImportOrder : R!ImportOrder[i] = slot
<1> DEFINE o == R!ImportOrder
<1>1. /\ o \in Seq(R!Slots) /\ Len(o) = 7 /\ o # << >> /\ DOMAIN o = 1 .. 7 /\ Head(o) = "llm"
      /\ o[1] = "llm" /\ o[2] = "channel" /\ o[3] = "mcp" /\ o[4] = "skill" /\ o[5] = "agent" /\ o[6] = "flow"
      /\ o[7] = "run"
  BY DEF R!ImportOrder, R!Slots
<1> HIDE DEF o
<1>2. \A i \in DOMAIN o : Rank[o[i]] = i
  BY <1>1 DEF Rank
<1>3. Ordered(o)
  BY <1>1, <1>2 DEF Ordered
<1>4. \A slot \in R!Slots : \E i \in DOMAIN o : o[i] = slot
  BY <1>1 DEF R!Slots
<1> QED BY <1>1, <1>3, <1>4 DEF o

LEMMA ExportOrdered ==
  /\ R!ExportOrder \in Seq(R!Slots) /\ Ordered(R!ExportOrder)
  /\ \A i \in DOMAIN R!ExportOrder : R!ExportOrder[i] # "skill"
<1> DEFINE o == R!ExportOrder
<1>1. /\ o \in Seq(R!Slots) /\ Len(o) = 6 /\ DOMAIN o = 1 .. 6
      /\ o[1] = "llm" /\ o[2] = "channel" /\ o[3] = "mcp" /\ o[4] = "agent" /\ o[5] = "flow" /\ o[6] = "run"
  BY DEF R!ExportOrder, R!Slots
<1> HIDE DEF o
<1>2. \A i \in DOMAIN o : Rank[o[i]] = IF i <= 3 THEN i ELSE i + 1
  BY <1>1 DEF Rank
<1>3. Ordered(o)
  BY <1>1, <1>2 DEF Ordered
<1>4. \A i \in DOMAIN o : o[i] # "skill"
  BY <1>1
<1> QED BY <1>1, <1>3, <1>4 DEF o

\* Before the first import only the file and the queue matter.
LEMMA ExportKeeps ==
  ASSUME ResourceInv, UNCHANGED <<rows, ids, req, namespace, home>>, home = "", doing' # "import",
         todo' \in Seq(R!Slots), Ordered(todo'), Exporting'
  PROVE  ResourceInv'
<1>1. ResourceTypes'
  <2>1. Ordered(todo)'
    BY DEF Ordered
  <2> QED BY <2>1 DEF ResourceInv, ResourceTypes
<1>2. Importing' /\ NoneDangles'
  BY DEF Importing, NoneDangles
<1> QED BY <1>1, <1>2 DEF ResourceInv

LEMMA EmptyBackup == R!Backup([s \in R!Slots |-> {}])
  BY DEF R!Backup

LEMMA CmdExportKeeps ==
  ASSUME ResourceInv, NEW selection, R!CmdExport(selection)
  PROVE  ResourceInv'
<1>1. /\ doing' = "export" /\ file = Nil /\ file' = [s \in R!Slots |-> {}] /\ todo' = R!ExportOrder
      /\ UNCHANGED <<rows, ids, req, namespace, home>>
  BY DEF R!CmdExport
<1>2. home = ""
  BY <1>1 DEF ResourceInv, Importing
<1>3. Exporting'
  <2>1. R!Backup(file)'
    BY <1>1, EmptyBackup DEF R!Backup
  <2>2. file'["flow"] = {} /\ file'["skill"] = {}
    BY <1>1 DEF R!Slots
  <2>3. \A i \in DOMAIN todo' : todo'[i] # "skill"
    BY <1>1, ExportOrdered
  <2> QED BY <1>1, <1>2, <2>1, <2>2, <2>3 DEF Exporting
<1>4. todo' \in Seq(R!Slots) /\ Ordered(todo')
  BY <1>1, ExportOrdered
<1> QED BY <1>1, <1>2, <1>3, <1>4, ExportKeeps

\* The rows that a query finds.
LEMMA Selected ==
  ASSUME ResourceTypes, NEW kind \in R!Kinds, NEW item \in R!Select(kind)
  PROVE  /\ item = [key |-> item.key, row |-> rows[kind][item.key]] /\ item.key \in RowKeys
         /\ item.row \in R!Row /\ item.row \in R!RowOf(kind)
<1>1. PICK k \in R!Live(kind) : item = [key |-> k, row |-> rows[kind][k]]
  BY DEF R!Select
<1>2. k \in RowKeys /\ rows[kind][k] # Nil
  BY DEF R!Live
<1>3. rows[kind][k] \in R!RowOf(kind) /\ rows[kind][k] \in R!Row
  BY <1>2 DEF ResourceTypes, R!RowOf
<1> QED BY <1>1, <1>2, <1>3

\* A kind is added to the backup.
LEMMA SelectBackup ==
  ASSUME ResourceTypes, R!Backup(file), NEW kind \in R!Slots \ {"flow", "skill"},
         file' = [file EXCEPT ![kind] = R!Select(kind)]
  PROVE  R!Backup(file)' /\ file'["flow"] = file["flow"] /\ file'["skill"] = file["skill"]
<1>1. kind \in R!Kinds /\ R!KindOf(kind) = kind /\ kind # "flow"
  BY DEF R!KindOf, R!Kinds, R!Slots
<1>2. \A s \in R!Slots : R!KindOf(s) = kind => s = kind
  BY DEF R!KindOf, R!Slots
<1>3. /\ \A s \in R!Slots : file'[s] = IF s = kind THEN R!Select(kind) ELSE file[s]
      /\ file \in [R!Slots -> SUBSET [key : RowKeys, row : R!Row]]
      /\ file' = [s \in R!Slots |-> file'[s]]
  BY DEF R!Backup
<1>4. R!Select(kind) \subseteq [key : RowKeys, row : R!Row]
  BY <1>1, Selected
<1>5. file' \in [R!Slots -> SUBSET [key : RowKeys, row : R!Row]]
  BY <1>3, <1>4
<1>6. \A slot \in R!Slots : \A item \in file'[slot] :
        item.row \in R!RowOf(R!KindOf(slot)) /\ (R!KindOf(slot) = "flow" => item.row.sort = slot)
  <2> SUFFICES ASSUME NEW slot \in R!Slots, NEW item \in file'[slot]
               PROVE  item.row \in R!RowOf(R!KindOf(slot)) /\ (R!KindOf(slot) = "flow" => item.row.sort = slot)
    OBVIOUS
  <2>1. CASE slot = kind
    BY <1>1, <1>3, <2>1, Selected
  <2>2. CASE slot # kind
    BY <1>3, <2>2, BackupItems
  <2> QED BY <2>1, <2>2
<1>7. ASSUME NEW slot \in R!Slots, NEW s \in R!Slots, NEW item \in file'[slot], NEW other \in file'[s],
             R!KindOf(slot) = R!KindOf(s), item.key = other.key
      PROVE  slot = s /\ item = other
  <2>1. CASE slot = kind \/ s = kind
    <3>1. slot = kind /\ s = kind
      BY <1>1, <1>2, <1>7, <2>1
    <3>2. item \in R!Select(kind) /\ other \in R!Select(kind)
      BY <1>3, <3>1
    <3> QED BY <1>1, <1>7, <3>1, <3>2, Selected
  <2>2. CASE slot # kind /\ s # kind
    <3>1. item \in file[slot] /\ other \in file[s]
      BY <1>3, <2>2
    <3> QED BY <1>7, <3>1 DEF R!Backup
  <2> QED BY <2>1, <2>2
<1>8. R!Backup(file)'
  BY <1>5, <1>6, <1>7 DEF R!Backup
<1>9. "flow" \in R!Slots /\ "skill" \in R!Slots
  BY DEF R!Slots
<1> QED BY <1>3, <1>8, <1>9

\* The facts about a queue whose first kind is done with.
LEMMA Dequeued ==
  ASSUME ResourceInv, todo # << >>, todo' = Tail(todo)
  PROVE  /\ todo' \in Seq(R!Slots) /\ Ordered(todo') /\ Head(todo) = todo[1] /\ todo[1] \in R!Slots
         /\ \A i \in DOMAIN todo' : todo'[i] # todo[1] /\ \E j \in DOMAIN todo : todo[j] = todo'[i]
         /\ \A slot : (\A i \in DOMAIN todo' : todo'[i] # slot) => slot = todo[1] \/ \A i \in DOMAIN todo : todo[i] # slot
<1>1. todo \in Seq(R!Slots) /\ Ordered(todo)
  BY DEF ResourceInv, ResourceTypes
<1>2. /\ Tail(todo) \in Seq(R!Slots) /\ Ordered(Tail(todo))
      /\ \A i \in DOMAIN Tail(todo) : i + 1 \in DOMAIN todo /\ Tail(todo)[i] = todo[i + 1] /\ Tail(todo)[i] # todo[1]
      /\ \A slot : (\A i \in DOMAIN Tail(todo) : Tail(todo)[i] # slot) => slot = todo[1] \/ \A i \in DOMAIN todo : todo[i] # slot
  BY <1>1, OrderedTail
<1>3. Head(todo) = todo[1] /\ todo[1] \in R!Slots
  BY <1>1, SeqHead, Zenon
<1>4. \A i \in DOMAIN Tail(todo) : \E j \in DOMAIN todo : todo[j] = Tail(todo)[i]
  BY <1>2
<1> QED BY <1>2, <1>3, <1>4

\* A kind is passed over, or found empty, or its query failed.
LEMMA PassOver ==
  ASSUME ResourceInv, doing = "export", todo # << >>, todo' = Tail(todo),
         UNCHANGED <<rows, ids, req, namespace, doing, file, home>>
  PROVE  ResourceInv'
<1>1. /\ todo' \in Seq(R!Slots) /\ Ordered(todo')
      /\ \A i \in DOMAIN todo' : todo'[i] # todo[1] /\ \E j \in DOMAIN todo : todo[j] = todo'[i]
  BY Dequeued
<1>2. home = "" /\ Exporting
  BY DEF ResourceInv, Exporting
<1>3. Exporting'
  BY <1>1, <1>2, SameFile DEF Exporting
<1> QED BY <1>1, <1>2, <1>3, ExportKeeps

LEMMA ExportKindKeeps ==
  ASSUME ResourceInv, R!ExportKind
  PROVE  ResourceInv'
<1>1. /\ doing = "export" /\ todo # << >> /\ UNCHANGED <<rows, ids, req, namespace, home>>
      /\ home = "" /\ Exporting /\ R!Backup(file) /\ ResourceTypes
  BY DEF R!ExportKind, ResourceInv, Exporting
<1>2. todo \in Seq(R!Slots) /\ Ordered(todo)
  BY <1>1 DEF ResourceTypes
<1>3. Head(todo) = todo[1] /\ 1 \in DOMAIN todo /\ todo[1] \in R!Slots
  BY <1>1, <1>2, SeqHead, Zenon
<1>4. CASE todo[1] = "flow"
  <2>1. doing' = "specs" /\ left' = R!Live("flow") /\ todo' = todo /\ file' = file
    BY <1>3, <1>4 DEF R!ExportKind
  <2>2. file["flow"] = {} /\ file["skill"] = {} /\ left' \subseteq RowKeys
    BY <1>1, <1>3, <1>4, <2>1 DEF Exporting, R!Live
  <2>3. Exporting'
    BY <1>1, <1>4, <2>1, <2>2, SameFile DEF Exporting
  <2> QED BY <1>1, <1>2, <2>1, <2>3, ExportKeeps
<1>5. CASE todo[1] # "flow"
  <2>1. doing' = doing /\ todo' = Tail(todo) /\ file' = [file EXCEPT ![todo[1]] = R!Select(todo[1])]
    BY <1>3, <1>5 DEF R!ExportKind
  <2>2. /\ todo' \in Seq(R!Slots) /\ Ordered(todo')
        /\ \A i \in DOMAIN todo' : \E j \in DOMAIN todo : todo[j] = todo'[i]
    BY <1>1, <2>1, Dequeued
  <2>3. todo[1] # "skill"
    BY <1>1, <1>3 DEF Exporting
  <2>4. R!Backup(file)' /\ file'["flow"] = file["flow"] /\ file'["skill"] = file["skill"]
    <3>1. PICK kind : kind = todo[1]
      OBVIOUS
    <3>2. kind \in R!Slots \ {"flow", "skill"} /\ file' = [file EXCEPT ![kind] = R!Select(kind)]
      BY <1>3, <1>5, <2>1, <2>3, <3>1
    <3> QED BY <1>1, <3>2, SelectBackup
  <2>5. Exporting'
    BY <1>1, <2>1, <2>2, <2>4 DEF Exporting
  <2> QED BY <1>1, <2>1, <2>2, <2>5, ExportKeeps
<1> QED BY <1>4, <1>5

\* A flow or skill is added to the backup.
LEMMA SpecBackup ==
  ASSUME R!Backup(file), NEW k \in RowKeys, NEW row \in R!RowOf("flow"),
         \A slot \in {"flow", "skill"} : \A item \in file[slot] : item.key # k,
         file' = [file EXCEPT ![row.sort] = @ \union {[key |-> k, row |-> row]}]
  PROVE  R!Backup(file)' /\ \A slot \in {"flow", "skill"} : \A item \in file'[slot] : item \in file[slot] \/ item.key = k
<1> DEFINE new == [key |-> k, row |-> row]
<1>1. row.sort \in {"flow", "skill"} /\ row \in R!Row
  BY DEF R!RowOf
<1>2. PICK sort \in {"flow", "skill"} : sort = row.sort
  BY <1>1
<1>3. sort \in R!Slots /\ R!KindOf(sort) = "flow" /\ {"flow", "skill"} \subseteq R!Slots
  BY DEF R!Slots, R!KindOf
<1>4. \A s \in R!Slots : R!KindOf(s) = "flow" => s \in {"flow", "skill"}
  BY DEF R!KindOf
<1>5. new \in [key : RowKeys, row : R!Row] /\ new.key = k /\ new.row = row
  BY <1>1
<1>6. /\ file \in [R!Slots -> SUBSET [key : RowKeys, row : R!Row]]
      /\ \A s \in R!Slots : file'[s] = IF s = sort THEN file[s] \union {new} ELSE file[s]
      /\ file' = [s \in R!Slots |-> file'[s]]
  BY <1>2, <1>3 DEF R!Backup
<1> HIDE DEF new
<1>7. file' \in [R!Slots -> SUBSET [key : RowKeys, row : R!Row]]
  BY <1>5, <1>6
<1>8. ASSUME NEW s \in R!Slots, NEW item \in file'[s] PROVE item \in file[s] \/ (s = sort /\ item = new)
  <2>1. CASE s = sort
    <3>1. file'[s] = file[s] \union {new}
      BY <1>6, <2>1
    <3> QED BY <2>1, <3>1
  <2>2. CASE s # sort
    <3>1. file'[s] = file[s]
      BY <1>6, <2>2
    <3> QED BY <3>1
  <2> QED BY <2>1, <2>2
<1>9. \A slot \in R!Slots : \A item \in file'[slot] :
        item.row \in R!RowOf(R!KindOf(slot)) /\ (R!KindOf(slot) = "flow" => item.row.sort = slot)
  BY <1>2, <1>3, <1>5, <1>8, BackupItems
<1>10. ASSUME NEW slot \in R!Slots, NEW s \in R!Slots, NEW item \in file'[slot], NEW other \in file'[s],
             R!KindOf(slot) = R!KindOf(s), item.key = other.key
      PROVE  slot = s /\ item = other
  <2>1. CASE item \in file[slot] /\ other \in file[s]
    BY <1>10, <2>1 DEF R!Backup
  <2>2. CASE item \in file[slot] /\ other \notin file[s]
    <3>1. s = sort /\ other = new /\ slot \in {"flow", "skill"}
      BY <1>3, <1>4, <1>8, <1>10, <2>2
    <3> QED BY <1>5, <1>10, <2>2, <3>1
  <2>3. CASE item \notin file[slot] /\ other \in file[s]
    <3>1. slot = sort /\ item = new /\ s \in {"flow", "skill"}
      BY <1>3, <1>4, <1>8, <1>10, <2>3
    <3> QED BY <1>5, <1>10, <2>3, <3>1
  <2>4. CASE item \notin file[slot] /\ other \notin file[s]
    BY <1>8, <2>4
  <2> QED BY <2>1, <2>2, <2>3, <2>4
<1>11. R!Backup(file)'
  BY <1>7, <1>9, <1>10 DEF R!Backup
<1> QED BY <1>3, <1>5, <1>8, <1>11

LEMMA ExportSpecKeeps ==
  ASSUME ResourceInv, NEW k \in RowKeys, R!ExportSpec(k)
  PROVE  ResourceInv'
<1>1. /\ doing = "specs" /\ k \in left /\ left' = left \ {k} /\ UNCHANGED <<rows, ids, req, namespace, doing, todo, home>>
      /\ home = "" /\ Exporting /\ R!Backup(file) /\ ResourceTypes /\ todo \in Seq(R!Slots) /\ Ordered(todo)
  BY DEF R!ExportSpec, ResourceInv, Exporting, ResourceTypes
<1>2. /\ left \subseteq RowKeys /\ todo # << >> /\ todo[1] = "flow"
      /\ \A slot \in {"flow", "skill"} : \A item \in file[slot] : item.key \notin left
  BY <1>1 DEF Exporting
<1>3. /\ R!Backup(file)'
      /\ \A slot \in {"flow", "skill"} : \A item \in file'[slot] : item \in file[slot] \/ item.key = k
  <2>1. CASE file' = file
    BY <1>1, <2>1, SameFile
  <2>2. CASE file' # file
    <3>1. /\ k \in R!Live("flow")
          /\ file' = [file EXCEPT ![rows["flow"][k].sort] = @ \union {[key |-> k, row |-> rows["flow"][k]]}]
      BY <2>2 DEF R!ExportSpec
    <3>2. rows["flow"][k] \in R!RowOf("flow")
      BY <1>1, <3>1 DEF ResourceTypes, R!Live, R!Kinds
    <3>3. PICK row \in R!RowOf("flow") : row = rows["flow"][k]
      BY <3>2
    <3>4. file' = [file EXCEPT ![row.sort] = @ \union {[key |-> k, row |-> row]}]
      BY <3>1, <3>3
    <3>5. \A slot \in {"flow", "skill"} : \A item \in file[slot] : item.key # k
      BY <1>1, <1>2
    <3> QED BY <1>1, <3>4, <3>5, SpecBackup
  <2> QED BY <2>1, <2>2
<1>4. Exporting'
  BY <1>1, <1>2, <1>3 DEF Exporting
<1> QED BY <1>1, <1>4, ExportKeeps

LEMMA ExportDoneKeeps ==
  ASSUME ResourceInv, R!ExportDone
  PROVE  ResourceInv'
<1>1. UNCHANGED <<rows, ids, req, namespace, left, file, home>> /\ Exporting /\ ResourceTypes
  BY DEF R!ExportDone, ResourceInv
<1>2. CASE doing = "specs" /\ left = {} /\ doing' = "export" /\ todo' = Tail(todo)
  <2>1. home = "" /\ todo # << >> /\ todo[1] = "flow" /\ R!Backup(file)
    BY <1>1, <1>2 DEF Exporting
  <2>2. /\ todo' \in Seq(R!Slots) /\ Ordered(todo')
        /\ \A i \in DOMAIN todo' : todo'[i] # "flow" /\ \E j \in DOMAIN todo : todo[j] = todo'[i]
    BY <1>2, <2>1, Dequeued
  <2>3. Exporting'
    BY <1>1, <1>2, <2>1, <2>2, SameFile DEF Exporting
  <2> QED BY <1>1, <1>2, <2>1, <2>2, <2>3, ExportKeeps
<1>3. CASE doing = "export" /\ doing' = "idle" /\ todo' = todo
  <2>1. home = "" /\ R!Backup(file) /\ todo \in Seq(R!Slots) /\ Ordered(todo)
    BY <1>1, <1>3 DEF Exporting, ResourceTypes
  <2>2. Exporting'
    BY <1>1, <1>3, <2>1, SameFile DEF Exporting
  <2> QED BY <1>1, <1>3, <2>1, <2>2, ExportKeeps
<1> QED BY <1>2, <1>3 DEF R!ExportDone

\* The import begins with all slots before it.
LEMMA CmdImportKeeps ==
  ASSUME ResourceInv, R!CmdImport
  PROVE  ResourceInv'
<1>1. /\ doing' = "import" /\ todo' = R!ImportOrder /\ left' = file[Head(R!ImportOrder)] /\ home' = namespace
      /\ namespace # "" /\ file # Nil /\ touched' = {} /\ closed' = (\A kind \in R!Kinds : R!Dangling(kind) = {})
      /\ UNCHANGED <<rows, ids, req, namespace, file>>
  BY DEF R!CmdImport, R!RequireNamespace
<1>2. /\ todo' \in Seq(R!Slots) /\ Ordered(todo)' /\ todo' # << >> /\ left' = file[todo'[1]]
      /\ \A slot \in R!Slots : \E i \in DOMAIN todo' : todo'[i] = slot
  BY <1>1, ImportOrdered DEF Ordered
<1>3. ResourceTypes'
  BY <1>1, <1>2 DEF ResourceInv, ResourceTypes
<1>4. Exporting'
  BY <1>1, SameFile DEF ResourceInv, Exporting
<1>5. Importing'
  BY <1>1, <1>2 DEF Importing
<1>6. NoneDangles'
  <2> SUFFICES ASSUME closed', NEW kind \in {"flow", "run"}, NEW k \in R!Live(kind)'
               PROVE  Whole(kind, k)'
    BY DEF NoneDangles
  <2>1. k \in R!Live(kind) /\ R!Dangling(kind) = {}
    BY <1>1 DEF R!Live, R!Kinds
  <2>2. \A n \in rows[kind][k].needs : n[2] \in R!Live(n[1])
    BY <2>1 DEF R!Dangling
  <2>3. \A n \in rows[kind][k].needs : n[2] \in R!Live(n[1])'
    BY <1>1, <2>2 DEF R!Live
  <2> QED BY <1>1, <2>3 DEF Whole
<1> QED BY <1>3, <1>4, <1>5, <1>6 DEF ResourceInv

\* A slot is done: all its rows have been written.
LEMMA ImportSlotKeeps ==
  ASSUME ResourceInv, R!ImportSlot
  PROVE  ResourceInv'
<1>1. /\ doing = "import" /\ left = {} /\ todo' = Tail(todo)
      /\ left' = IF Tail(todo) = << >> THEN {} ELSE file[Head(Tail(todo))]
      /\ doing' = IF Tail(todo) = << >> THEN "idle" ELSE "import"
      /\ UNCHANGED <<rows, ids, req, namespace, file, home, closed, touched>>
  BY DEF R!ImportSlot
<1>2. ResourceTypes /\ Exporting /\ Importing /\ NoneDangles /\ todo # << >>
  BY <1>1 DEF ResourceInv, Importing
<1>3. /\ todo' \in Seq(R!Slots) /\ Ordered(todo') /\ todo[1] \in R!Slots
      /\ \A slot : (\A i \in DOMAIN todo' : todo'[i] # slot) => slot = todo[1] \/ \A i \in DOMAIN todo : todo[i] # slot
  BY <1>1, <1>2, Dequeued
<1>4. todo' # << >> => Head(todo') = todo'[1]
  BY <1>3, SeqHead, Zenon
<1>5. ResourceTypes'
  <2>1. Ordered(todo)'
    BY <1>3 DEF Ordered
  <2> QED BY <1>1, <1>2, <1>3, <2>1 DEF ResourceTypes
<1>6. Exporting'
  BY <1>1, <1>2, SameFile DEF Exporting
<1>7. Importing'
  <2>1. doing' = "import" => todo' # << >> /\ left' = file[todo'[1]]
    BY <1>1, <1>4
  <2>2. home # "" /\ namespace = home /\ file # Nil /\ (todo[1] # "run" => \A item \in file[todo[1]] : Restored(todo[1], item))
    BY <1>1, <1>2 DEF Importing
  <2>3. ASSUME NEW slot \in R!Slots \ {"run"}, \A i \in DOMAIN todo' : todo'[i] # slot, NEW item \in file[slot]
        PROVE  Restored(slot, item)'
    <3>1. CASE slot = todo[1]
      BY <1>1, <2>2, <2>3, <3>1, RestoredKept
    <3>2. CASE \A i \in DOMAIN todo : todo[i] # slot
      <4>1. Restored(slot, item)
        BY <1>2, <2>2, <2>3, <3>2 DEF Importing
      <4> QED BY <1>1, <4>1, RestoredKept
    <3> QED BY <1>3, <2>3, <3>1, <3>2
  <2> QED BY <1>1, <2>1, <2>2, <2>3 DEF Importing
<1>8. NoneDangles'
  BY <1>1, <1>2 DEF NoneDangles, R!FileClosed, R!Live, Whole
<1> QED BY <1>5, <1>6, <1>7, <1>8 DEF ResourceInv

\* With the order of the import, what a flow or a run names is there before it.
LEMMA NeedFound ==
  ASSUME ResourceInv, doing = "import", R!FileClosed, todo[1] \in {"flow", "run"},
         NEW item \in file[todo[1]], NEW n \in item.row.needs
  PROVE  n[2] \in R!Live(n[1]) \/ n \in touched
<1>1. ResourceTypes /\ Importing /\ home # "" /\ R!Backup(file) /\ todo # << >> /\ Ordered(todo) /\ todo \in Seq(R!Slots)
  BY DEF ResourceInv, ResourceTypes, Importing, Exporting
<1>2. PICK slot \in R!Slots : slot = todo[1]
  BY DEF R!Slots
<1>3. item.row \in R!Row /\ item.row \in R!RowOf(R!KindOf(slot))
  BY <1>1, <1>2, BackupItems
<1>4. n = <<n[1], n[2]>> /\ n[1] \in {"agent", "mcp", "flow"}
  BY <1>3, NeedOf
<1>5. slot = "flow" => n[1] # "flow"
  BY <1>3 DEF R!RowOf, R!KindOf
<1>6. PICK s \in R!Slots : R!KindOf(s) = n[1] /\ \E it \in file[s] : it.key = n[2]
  BY <1>2 DEF R!FileClosed
<1>7. PICK it \in file[s] : it.key = n[2]
  BY <1>6
<1>8. s \in {"agent", "mcp", "flow", "skill"} /\ (slot = "flow" => s \in {"agent", "mcp"})
  BY <1>4, <1>5, <1>6 DEF R!KindOf
<1>9. Rank[s] < Rank[slot] /\ Rank[s] \in Nat /\ Rank[slot] \in Nat
  BY <1>2, <1>8 DEF Rank
<1>10. ASSUME NEW i \in DOMAIN todo PROVE todo[i] # s
  <2>1. i \in Nat /\ 1 \in DOMAIN todo /\ (i = 1 \/ 1 < i)
    <3>1. 1 \in DOMAIN todo /\ Len(todo) \in Nat /\ DOMAIN todo = 1 .. Len(todo)
      BY <1>1, SeqHead, Zenon
    <3> QED BY <3>1
  <2>2. i = 1 \/ Rank[slot] < Rank[todo[i]]
    BY <1>1, <1>2, <2>1 DEF Ordered
  <2>3. i = 1 => todo[i] = slot
    BY <1>2
  <2> QED BY <1>9, <2>2, <2>3
<1>11. Restored(s, it)
  BY <1>1, <1>7, <1>8, <1>10 DEF Importing
<1> QED BY <1>4, <1>6, <1>7, <1>11 DEF Restored, R!Holds

\* One row of the file gets into its table.
LEMMA ItemKeeps ==
  ASSUME ResourceInv, doing = "import", NEW slot \in R!Slots, slot = todo[1], NEW item \in left,
         NEW k \in RowKeys, NEW row \in R!RowOf(R!KindOf(slot)),
         row.del = FALSE, row.needs = item.row.needs, row.sort = item.row.sort,
         Written(R!KindOf(slot), k), rows'[R!KindOf(slot)][k] = row, ids' \in Nat, left' = left \ {item},
         UNCHANGED <<req, namespace, doing, todo, file, home, closed>>,
         slot = "run" => touched' = touched,
         slot = "run" => R!Dropped = {},
         slot # "run" => /\ k = item.key /\ touched' = (touched \ {<<R!KindOf(slot), k>>}) \union R!Dropped
                         /\ R!Holds(slot, item)'
  PROVE  ResourceInv'
<1>1. PICK kind \in R!Kinds : kind = R!KindOf(slot)
  BY SlotKinds
<1>2. /\ ResourceTypes /\ Exporting /\ Importing /\ NoneDangles /\ todo # << >> /\ home # "" /\ namespace = home
      /\ file # Nil /\ R!Backup(file) /\ left \subseteq file[slot]
  BY DEF ResourceInv, Importing, Exporting
<1>3. Written(kind, k)
  BY <1>1
<1>4. /\ rows' \in [R!Kinds -> [RowKeys -> R!Row \union {Nil}]]
      /\ \A kd \in R!Kinds, j \in RowKeys :
           /\ rows'[kd][j] # Nil => rows'[kd][j] \in R!RowOf(kd)
           /\ <<kd, j>> # <<kind, k>> => rows'[kd][j] = rows[kd][j] \/ <<kd, j>> \in touched'
  <2>1. R!Dropped \subseteq touched'
    OBVIOUS
  <2> QED BY <1>3, <2>1 DEF Written
<1>5. rows'[kind][k] = row /\ k \in R!Live(kind)'
  <2>1. rows'[kind][k] = row
    BY <1>1
  <2>2. row # Nil
    BY ResourcesAssumption DEF R!RowOf
  <2> QED BY <2>1, <2>2 DEF R!Live
<1>6. ResourceTypes'
  BY <1>2, <1>4 DEF ResourceTypes
<1>7. Exporting'
  BY <1>2, SameFile DEF Exporting
<1>8. ASSUME NEW s \in R!Slots \ {"run"}, NEW it \in file[s], Restored(s, it) \/ (s = slot /\ it = item)
      PROVE  Restored(s, it)'
  <2>1. it.key \in RowKeys /\ R!KindOf(s) \in R!Kinds
    BY <1>2, BackupItems, SlotKinds
  <2>2. CASE <<R!KindOf(s), it.key>> = <<kind, k>>
    <3>1. slot # "run"
      BY <1>1, <1>8, <2>2 DEF R!KindOf
    <3>2. item \in file[slot] /\ item.key = it.key /\ R!KindOf(s) = R!KindOf(slot)
      BY <1>1, <1>2, <2>2, <3>1
    <3>3. s = slot /\ it = item
      BY <1>2, <3>2 DEF R!Backup
    <3> QED BY <3>1, <3>3 DEF Restored
  <2>3. CASE <<R!KindOf(s), it.key>> # <<kind, k>> /\ <<R!KindOf(s), it.key>> \notin touched'
    <3>1. rows'[R!KindOf(s)][it.key] = rows[R!KindOf(s)][it.key]
      BY <1>4, <2>1, <2>3
    <3>2. R!Holds(s, it) => R!Holds(s, it)'
      BY <2>1, <3>1, SameHold
    <3>3. <<R!KindOf(s), it.key>> \in touched => <<R!KindOf(s), it.key>> \in touched'
      BY <1>1, <2>3
    <3>4. Restored(s, it)
      <4>1. s # slot \/ it # item
        <5>1. slot # "run" => <<R!KindOf(slot), item.key>> = <<kind, k>>
          BY <1>1
        <5> QED BY <1>8, <2>3, <5>1
      <4> QED BY <1>8, <4>1
    <3> QED BY <3>2, <3>3, <3>4 DEF Restored
  <2>4. CASE <<R!KindOf(s), it.key>> \in touched'
    BY <2>4 DEF Restored
  <2> QED BY <2>2, <2>3, <2>4
<1>9. Importing'
  <2>1. ASSUME slot # "run", NEW it \in file[slot] \ left' PROVE Restored(slot, it)'
    <3>1. it = item \/ it \in file[slot] \ left
      OBVIOUS
    <3>2. it \in file[slot] \ left => Restored(slot, it)
      BY <1>2, <2>1 DEF Importing
    <3> QED BY <1>8, <2>1, <3>1, <3>2
  <2>2. todo[1] # "run" => \A it \in file[todo[1]] \ left' : Restored(todo[1], it)'
    <3>1. \A s : s = slot /\ s # "run" => \A it \in file[s] \ left' : Restored(s, it)'
      BY <2>1
    <3> QED BY <3>1
  <2>3. ASSUME NEW s \in R!Slots \ {"run"}, \A i \in DOMAIN todo : todo[i] # s, NEW it \in file[s]
        PROVE  Restored(s, it)'
    <3>1. Restored(s, it)
      BY <1>2, <2>3 DEF Importing
    <3> QED BY <1>8, <3>1
  <2>4. left' \subseteq file[todo[1]]
    BY <1>2
  <2> QED BY <1>2, <2>2, <2>3, <2>4 DEF Importing
<1>10. ASSUME NEW n, n = <<n[1], n[2]>>, n[1] \in R!Kinds, n[2] \in RowKeys, n[2] \in R!Live(n[1]) \/ n \in touched
       PROVE  n[2] \in R!Live(n[1])' \/ n \in touched'
  <2>1. CASE n = <<kind, k>>
    BY <1>5, <2>1
  <2>2. CASE n # <<kind, k>> /\ n \notin touched'
    <3>1. rows'[n[1]][n[2]] = rows[n[1]][n[2]]
      BY <1>4, <1>10, <2>2
    <3>2. n \in touched => n \in touched'
      BY <1>1, <2>2
    <3> QED BY <1>10, <3>1, <3>2 DEF R!Live
  <2> QED BY <2>1, <2>2
<1>11. NoneDangles'
  <2> SUFFICES ASSUME closed, R!FileClosed, NEW kd \in {"flow", "run"}, NEW j \in R!Live(kd)'
               PROVE  Whole(kd, j)'
    BY DEF NoneDangles, R!FileClosed
  <2>1. kd \in R!Kinds /\ j \in RowKeys /\ {"agent", "mcp", "flow"} \subseteq R!Kinds
    BY DEF R!Kinds, R!Live
  <2>2. CASE <<kd, j>> = <<kind, k>>
    <3>1. rows'[kd][j] = row /\ row \in R!Row
      BY <1>5, <2>2 DEF R!RowOf
    <3>2. CASE slot = "skill"
      <4>1. row.sort = "skill"
        BY <1>2, <3>2, BackupItems DEF R!KindOf
      <4> QED BY <3>1, <4>1 DEF Whole
    <3>3. CASE slot # "skill"
      <4>1. slot \in {"flow", "run"}
        BY <1>1, <2>2, <3>3 DEF R!KindOf
      <4>2. ASSUME NEW n \in row.needs PROVE n[2] \in R!Live(n[1])' \/ n \in touched'
        <5>1. n = <<n[1], n[2]>> /\ n[1] \in R!Kinds /\ n[2] \in RowKeys
          BY <2>1, <3>1, NeedOf
        <5>2. n \in item.row.needs /\ item \in file[todo[1]] /\ todo[1] \in {"flow", "run"}
          BY <1>2, <4>1
        <5>3. n[2] \in R!Live(n[1]) \/ n \in touched
          BY <5>2, NeedFound
        <5> QED BY <1>10, <5>1, <5>3
      <4> QED BY <3>1, <4>2 DEF Whole
    <3> QED BY <3>2, <3>3
  <2>3. CASE <<kd, j>> # <<kind, k>> /\ <<kd, j>> \notin touched'
    <3>1. rows'[kd][j] = rows[kd][j] /\ j \in R!Live(kd)
      BY <1>4, <2>1, <2>3 DEF R!Live
    <3>2. Whole(kd, j) /\ rows[kd][j] \in R!Row
      BY <1>2, <2>1, <3>1 DEF NoneDangles, ResourceTypes, R!RowOf, R!Live
    <3>3. <<kd, j>> \in touched => <<kd, j>> \in touched'
      BY <1>1, <2>3
    <3>4. ASSUME NEW n \in rows[kd][j].needs, n[2] \in R!Live(n[1]) \/ n \in touched
          PROVE  n[2] \in R!Live(n[1])' \/ n \in touched'
      <4>1. n = <<n[1], n[2]>> /\ n[1] \in R!Kinds /\ n[2] \in RowKeys
        BY <2>1, <3>2, NeedOf
      <4> QED BY <1>10, <3>4, <4>1
    <3> QED BY <3>1, <3>2, <3>3, <3>4 DEF Whole
  <2>4. CASE <<kd, j>> \in touched'
    BY <2>4 DEF Whole
  <2> QED BY <2>2, <2>3, <2>4
<1> QED BY <1>6, <1>7, <1>9, <1>11 DEF ResourceInv

\* The row import makes of an item has its content and is as usable.
LEMMA ImportedRow ==
  ASSUME ids \in Nat, namespace \in R!Text, NEW slot \in R!Slots, NEW item, item.row \in R!RowOf(R!KindOf(slot))
  PROVE  LET row == R!Imported(slot, item)
         IN /\ row \in R!Row /\ row.body = item.row.body /\ row.needs = item.row.needs /\ row.sort = item.row.sort
            /\ row.ns = namespace /\ (R!Usable(R!KindOf(slot), item.row) => R!Usable(R!KindOf(slot), row))
            /\ row \in R!RowOf(R!KindOf(slot))
<1> DEFINE old == item.row
           id == IF old.id = 0 THEN ids + 1 ELSE old.id
           st == IF R!KindOf(slot) = "flow" THEN "ACTIVE" ELSE old.status
           on == old.enabled \/ (slot = "mcp" /\ old.status = "active")
           row == [old EXCEPT !.ns = namespace, !.id = id, !.status = st, !.enabled = on]
<1>1. old \in R!Row
  BY DEF R!RowOf
<1>2. id \in Nat
  BY <1>1 DEF R!Row
<1>3. st \in R!Text /\ on \in BOOLEAN /\ (R!KindOf(slot) # "flow" => st = old.status) /\ (old.enabled => on)
  BY <1>1, TextsAssumption DEF R!Row
<1>4. R!Imported(slot, item) = row
  BY DEF R!Imported
<1> HIDE DEF id, st, on
<1>5. /\ row \in R!Row /\ row.body = old.body /\ row.needs = old.needs /\ row.sort = old.sort /\ row.ns = namespace
      /\ row.status = st /\ row.enabled = on
  BY <1>1, <1>2, <1>3 DEF R!Row
<1> HIDE DEF row
<1>6. row \in R!RowOf(R!KindOf(slot))
  BY <1>5, Altered
<1>7. R!Usable(R!KindOf(slot), old) => R!Usable(R!KindOf(slot), row)
  BY <1>3, <1>5 DEF R!Usable
<1> QED BY <1>4, <1>5, <1>6, <1>7

\* A row of the file, or a run under a fresh id.
LEMMA ImportItemKeeps ==
  ASSUME ResourceInv, NEW item \in left, R!ImportItem(item)
  PROVE  ResourceInv'
<1>1. /\ doing = "import" /\ left' = left \ {item} /\ UNCHANGED <<req, namespace, doing, todo, file, home, closed>>
      /\ ResourceTypes /\ Exporting /\ Importing
  BY DEF R!ImportItem, ResourceInv
<1>2. todo # << >> /\ home # "" /\ namespace = home /\ left \subseteq file[todo[1]] /\ R!Backup(file) /\ todo \in Seq(R!Slots)
  BY <1>1 DEF Importing, Exporting, ResourceTypes
<1>3. PICK slot \in R!Slots : slot = todo[1] /\ slot = Head(todo)
  BY <1>2, SeqHead, Zenon
<1>4. PICK kind \in R!Kinds : kind = R!KindOf(slot)
  BY SlotKinds
<1>5. item.key \in RowKeys /\ item.row \in R!RowOf(kind)
  BY <1>2, <1>3, <1>4, BackupItems
<1>6. ids \in Nat /\ namespace \in R!Text
  BY <1>1 DEF ResourceTypes
<1>7. ids' \in Nat
  BY <1>6 DEF R!ImportItem, R!Fresh
<1>8. PICK row : row = R!Imported(slot, item)
  OBVIOUS
<1>9. /\ row \in R!Row /\ row.body = item.row.body /\ row.needs = item.row.needs /\ row.sort = item.row.sort
      /\ row.ns = namespace /\ (R!Usable(kind, item.row) => R!Usable(kind, row)) /\ row \in R!RowOf(kind)
  BY <1>4, <1>5, <1>6, <1>8, ImportedRow
<1>10. CASE slot = "run"
  <2>1. kind = "run"
    BY <1>4, <1>10 DEF R!KindOf
  <2>2. R!Save("run", ids + 1, [row EXCEPT !.id = ids + 1]) /\ touched' = touched /\ ids < MaxIds
    BY <1>3, <1>8, <1>10 DEF R!ImportItem, R!CreateImportedRun, R!NeedsId, R!Fresh
  <2>3. PICK k : k = ids + 1
    OBVIOUS
  <2>4. k \in Nat /\ k \in RowKeys
    <3>1. k \in 1 .. MaxIds
      <4>1. ids \in Nat /\ ids < MaxIds /\ MaxIds \in Nat
        BY <1>6, <2>2, KeyFacts
      <4> QED BY <2>3, <4>1
    <3> QED BY <3>1, KeyFacts
  <2>5. PICK new : new = [row EXCEPT !.id = k]
    OBVIOUS
  <2>6. new \in R!Row /\ new.needs = row.needs /\ new.sort = row.sort
    BY <1>9, <2>4, <2>5 DEF R!Row
  <2>7. new \in R!RowOf(kind) /\ R!Save(kind, k, new) /\ ~R!IdTaken(kind, k, new.id)
    BY <2>1, <2>2, <2>3, <2>5, <2>6, PlainRows DEF R!IdTaken, R!SameId
  <2>8. /\ Written(kind, k) /\ rows'[kind][k] \in R!RowOf(kind) /\ rows'[kind][k].del = FALSE
        /\ rows'[kind][k].needs = new.needs /\ rows'[kind][k].sort = new.sort /\ R!Dropped = {}
    BY <1>1, <2>1, <2>4, <2>7, SavedRow
  <2>9. PICK put \in R!RowOf(kind) : put = rows'[kind][k]
    BY <2>8
  <2>10. /\ put.del = FALSE /\ put.needs = item.row.needs /\ put.sort = item.row.sort
    BY <1>9, <2>6, <2>8, <2>9
  <2>11. /\ put \in R!RowOf(R!KindOf(slot)) /\ Written(R!KindOf(slot), k) /\ rows'[R!KindOf(slot)][k] = put
    BY <1>4, <2>8, <2>9
  <2> QED BY <1>1, <1>3, <1>7, <1>10, <2>2, <2>4, <2>8, <2>10, <2>11, ItemKeeps
<1>11. CASE slot # "run"
  <2>1. R!Save(kind, item.key, row) /\ touched' = (touched \ {<<kind, item.key>>}) \union R!Dropped
        /\ ~R!IdTaken(slot, item.key, row.id)
    BY <1>3, <1>4, <1>8, <1>11 DEF R!ImportItem, R!IdConflicts
  <2>2. ~R!IdTaken(kind, item.key, row.id)
    <3>1. kind = slot \/ kind = "flow"
      BY <1>4 DEF R!KindOf
    <3> QED BY <2>1, <3>1 DEF R!IdTaken, R!SameId
  <2>3. PICK k \in RowKeys : k = item.key
    BY <1>5
  <2>4. R!Save(kind, k, row) /\ ~R!IdTaken(kind, k, row.id)
    BY <2>1, <2>2, <2>3
  <2>5. /\ Written(kind, k) /\ rows'[kind][k] \in R!RowOf(kind) /\ rows'[kind][k].del = FALSE
        /\ rows'[kind][k].needs = row.needs /\ rows'[kind][k].sort = row.sort /\ rows'[kind][k].body = row.body
        /\ rows'[kind][k].ns = row.ns /\ (R!Usable(kind, row) => R!Usable(kind, rows'[kind][k]))
    BY <1>1, <1>9, <2>4, SavedRow
  <2>6. PICK put \in R!RowOf(kind) : put = rows'[kind][k]
    BY <2>5
  <2>7. /\ put.del = FALSE /\ put.needs = item.row.needs /\ put.sort = item.row.sort /\ put.body = item.row.body
        /\ put.ns = home /\ (R!Usable(kind, item.row) => R!Usable(kind, put)) /\ put # Nil
    <3>1. put # Nil
      BY ResourcesAssumption DEF R!RowOf
    <3> QED BY <1>2, <1>9, <2>5, <2>6, <3>1
  <2>8. R!Holds(slot, item)'
    <3>1. item.key \in R!Live(kind)'
      BY <1>5, <2>3, <2>6, <2>7 DEF R!Live
    <3>2. R!Holds(slot, item)' <=>
            /\ item.key \in R!Live(kind)'
            /\ put.body = item.row.body /\ put.needs = item.row.needs /\ put.sort = item.row.sort
            /\ put.ns = home' /\ (R!Usable(kind, item.row) => R!Usable(kind, put))
      BY <1>4, <2>3, <2>6 DEF R!Holds
    <3> QED BY <1>1, <2>7, <3>1, <3>2
  <2>9. /\ put \in R!RowOf(R!KindOf(slot)) /\ Written(R!KindOf(slot), k) /\ rows'[R!KindOf(slot)][k] = put
        /\ touched' = (touched \ {<<R!KindOf(slot), k>>}) \union R!Dropped
    BY <1>4, <2>1, <2>3, <2>5, <2>6
  <2> QED BY <1>1, <1>3, <1>7, <1>11, <2>3, <2>7, <2>8, <2>9, ItemKeeps
<1> QED BY <1>10, <1>11

LEMMA RestKeeps == ResourceInv /\ R!Rest => ResourceInv'
<1> SUFFICES ASSUME ResourceInv, R!Rest PROVE ResourceInv'
  OBVIOUS
<1>1. ResourceTypes
  BY DEF ResourceInv
<1>2. ASSUME \E kind, k : Edit(kind, k) PROVE ResourceInv'
  BY <1>2, EditKeeps
<1>3. ASSUME NEW k \in RowKeys, NEW in \in Inputs,
             R!UpdateLlm(k, in) \/ R!UpdateChannel(k, in) \/ \E ns \in Spaces : R!CreateRow(k, ns, in)
      PROVE  ResourceInv'
  <2>1. CASE R!UpdateLlm(k, in) \/ R!UpdateChannel(k, in)
    <3>1. PICK kind \in {"llm", "channel"} : R!Replace(kind, k, in)
      BY <2>1 DEF R!UpdateLlm, R!UpdateChannel
    <3>2. k \in Nat
      BY KeyFacts
    <3>3. Edit(kind, k)
      BY <1>1, <3>1, <3>2, ReplaceEdits
    <3> QED BY <1>2, <3>3
  <2>2. ASSUME NEW ns \in Spaces, R!CreateRow(k, ns, in) PROVE ResourceInv'
    <3>1. PICK kind \in R!Kinds \ {"flow"} : R!Create(kind, k, ns, in)
      BY <2>2 DEF R!CreateRow, R!CreateLlm, R!CreateChannel, R!CreateMcp, R!CreateAgent, R!CreateKnowledge, R!Kinds
    <3>2. Edit(kind, k)
      BY <1>1, <3>1, CreateEdits
    <3> QED BY <1>2, <3>2
  <2> QED BY <1>3, <2>1, <2>2
<1>4. ASSUME NEW k \in RowKeys, R!DeleteRow(k) \/ R!Advance(k) PROVE ResourceInv'
  <2>1. CASE R!DeleteRow(k)
    <3>1. PICK kind \in R!Kinds : R!Delete(kind, k)
      BY <2>1 DEF R!DeleteRow, R!DeleteLlm, R!DeleteChannel, R!DeleteMcp, R!DeleteAgent, R!DeleteKnowledge, R!Kinds
    <3>2. Edit(kind, k)
      BY <1>1, <3>1, DeleteEdits
    <3> QED BY <1>2, <3>2
  <2>2. CASE R!Advance(k)
    <3>1. Edit("run", k)
      BY <1>1, <2>2, AdvanceEdits
    <3> QED BY <1>2, <3>1
  <2> QED BY <1>4, <2>1, <2>2
<1>5. ASSUME NEW c \in Updaters, NEW kind \in {"agent", "mcp", "knowledge"}, NEW k \in RowKeys, R!BeginUpdate(c, kind, k)
      PROVE  ResourceInv'
  BY <1>5, BeginUpdateKeeps
<1>6. ASSUME NEW c \in Updaters, NEW ns \in Spaces, NEW in \in Inputs, R!UpdateRow(c, ns, in) PROVE ResourceInv'
  <2>1. \E kind, k : Edit(kind, k)
    BY <1>1, <1>6, UpdateEdits
  <2> QED BY <1>2, <2>1
<1> QED BY <1>3, <1>4, <1>5, <1>6 DEF R!Rest

LEMMA ConsoleKeeps == ResourceInv /\ R!Console => ResourceInv'
<1> SUFFICES ASSUME ResourceInv, R!Console PROVE ResourceInv'
  OBVIOUS
<1>1. ResourceTypes
  BY DEF ResourceInv
<1>2. ASSUME \E kind, k : Edit(kind, k) PROVE ResourceInv'
  BY <1>2, EditKeeps
<1>3. CASE \E ns \in Spaces \union {""} : R!CmdNamespace(ns)
  BY <1>3, NamespaceKeeps
<1>4. ASSUME NEW k \in RowKeys, NEW id \in 0 .. ids, NEW in \in Inputs,
             R!AddRow(k, id, in) \/ \E slot \in R!Slots, ns \in Spaces : R!ImportResource(slot, k, id, ns, in)
      PROVE  ResourceInv'
  <2>1. id \in Nat
    BY <1>1 DEF ResourceTypes
  <2>2. CASE R!AddRow(k, id, in)
    BY <1>1, <1>2, <2>1, <2>2, AddEdits
  <2>3. ASSUME NEW slot \in R!Slots, NEW ns \in Spaces, R!ImportResource(slot, k, id, ns, in) PROVE ResourceInv'
    BY <1>1, <1>2, <2>1, <2>3, ImportResourceEdits
  <2> QED BY <1>4, <2>2, <2>3
<1>5. ASSUME NEW k \in RowKeys, R!RemoveRow(k) \/ R!ExportSpec(k) PROVE ResourceInv'
  <2>1. CASE R!RemoveRow(k)
    BY <1>1, <1>2, <2>1, RemoveEdits
  <2>2. CASE R!ExportSpec(k)
    BY <2>2, ExportSpecKeeps
  <2> QED BY <1>5, <2>1, <2>2
<1>6. CASE R!CmdRun
  <2>1. CASE R!StartRun
    BY <1>2, <2>1, RunEdits
  <2>2. ASSUME NEW k \in RowKeys, R!RunCreate(k) \/ R!RunStop(k) PROVE ResourceInv'
    BY <1>2, <2>2, RunEdits
  <2>3. ASSUME NEW k \in RowKeys, R!RunStart(k) PROVE ResourceInv'
    BY <2>3, RunStartKeeps
  <2> QED BY <1>6, <2>1, <2>2, <2>3 DEF R!CmdRun
<1>7. CASE \E selection \in Selections : R!CmdExport(selection)
  BY <1>7, CmdExportKeeps
<1>8. CASE R!ExportKind
  BY <1>8, ExportKindKeeps
<1>9. CASE R!ExportNothing \/ R!ExportError
  BY <1>9, PassOver DEF R!ExportNothing, R!ExportError
<1>10. CASE R!ExportDone
  BY <1>10, ExportDoneKeeps
<1>11. CASE R!CmdImport
  BY <1>11, CmdImportKeeps
<1>12. CASE R!ImportSlot
  BY <1>12, ImportSlotKeeps
<1>13. CASE R!ImportError \/ \E item \in left : R!ImportRefused(item)
  BY <1>13, EndImportKeeps DEF R!ImportError, R!ImportRefused
<1>14. CASE \E item \in left : R!ImportItem(item)
  BY <1>14, ImportItemKeeps
<1> QED BY <1>3, <1>4, <1>5, <1>6, <1>7, <1>8, <1>9, <1>10, <1>11, <1>12, <1>13, <1>14 DEF R!Console

LEMMA ResourceInductive == ResourceInv /\ R!Next => ResourceInv'
  BY RestKeeps, ConsoleKeeps DEF R!Next

LEMMA ResourceRestored == ResourceInv => ImportRestores
<1> SUFFICES ASSUME ResourceInv, home # "", NEW slot \in R!Slots \ ({"run"} \union R!Range(todo)), NEW item \in file[slot]
             PROVE  <<R!KindOf(slot), item.key>> \in touched \/ R!Holds(slot, item)
  BY DEF ImportRestores, R!ImportRestores
<1>1. \A i \in DOMAIN todo : todo[i] # slot
  BY DEF R!Range
<1>2. Restored(slot, item)
  BY <1>1 DEF ResourceInv, Importing
<1> QED BY <1>2 DEF Restored

LEMMA ResourceWhole == ResourceInv => ImportNeverDangles
  BY DEF ResourceInv, NoneDangles, Whole, ImportNeverDangles, R!ImportNeverDangles, R!Dangling

----------------------------------------------------------------------------
(* All services: a step of one leaves the state of the others alone.       *)

ServicesInv == AuthInv /\ FlowInv /\ TaskInv /\ ExecutorInv /\ MigrationInv /\ ResourceInv /\ MessagerInv

LEMMA AuthStutters == AuthInv /\ UNCHANGED authVars => AuthInv'
  BY DEF AuthInv, AuthTypes, Past, Checked, Issued, ServedAsLoggedIn, A!ServedAsLoggedIn, A!NoLogin,
    A!Validities, authVars

LEMMA FlowStutters == FlowInv /\ UNCHANGED flowVars => FlowInv'
<1> SUFFICES ASSUME FlowInv, UNCHANGED flowVars PROVE FlowInv'
  OBVIOUS
<1> USE DEF FlowInv, flowVars
<1>1. FlowTypes'
  BY DEF FlowTypes, RequestOK
<1>2. AllFresh'
  BY DEF AllFresh, Fresh, Clean, Asks, F!GetSpec
<1>3. CacheFollowsStore' /\ RunReachesItsJobManager'
  BY DEF CacheFollowsStore, F!CacheFollowsStore, F!GetSpec, F!Pending, F!Serving,
    RunReachesItsJobManager, F!RunReachesItsJobManager
<1> QED BY <1>1, <1>2, <1>3

LEMMA TaskStutters == TaskInv /\ UNCHANGED taskVars => TaskInv'
  BY DEF TaskInv, TaskTypes, Performed, Truthful, Announced, taskVars

LEMMA ServicesInductive == ServicesSpec => []ServicesInv
<1>1. ServicesInit => ServicesInv
  BY AuthInitial, FlowInitial, TaskInitial, ExecutorInitial, MigrationInitial, ResourceInitial, MessagerInitial
     DEF ServicesInit, ServicesInv
<1>2. ServicesInv /\ [ServicesNext]_serviceVars => ServicesInv'
  <2> SUFFICES ASSUME ServicesInv, [ServicesNext]_serviceVars PROVE ServicesInv'
    OBVIOUS
  <2> USE AuthStutters, FlowStutters, TaskStutters, ExecutorStutters, MigrationStutters, ResourceStutters,
          MessagerStutters DEF ServicesInv
  <2>1. CASE AuthStep
    BY <2>1, AuthInductive DEF AuthStep
  <2>2. CASE FlowStep
    BY <2>2, FlowInductive DEF FlowStep
  <2>3. CASE TaskStep
    BY <2>3, TaskInductive DEF TaskStep
  <2>4. CASE ExecutorStep
    BY <2>4, ExecutorInductive DEF ExecutorStep
  <2>5. CASE MigrationStep
    BY <2>5, MigrationInductive DEF MigrationStep
  <2>6. CASE ResourceStep
    BY <2>6, ResourceInductive DEF ResourceStep
  <2>7. CASE MessagerStep
    BY <2>7, MessagerInductive DEF MessagerStep
  <2>8. CASE UNCHANGED serviceVars
    BY <2>8 DEF serviceVars
  <2> QED BY <2>1, <2>2, <2>3, <2>4, <2>5, <2>6, <2>7, <2>8 DEF ServicesNext
<1> QED BY <1>1, <1>2, PTL DEF ServicesSpec

\* The middleware of any number of replicas, with keys of their own or a
\* configured pair, serves a request in a user's name only within a token's
\* validity of a login that proved the user's identity.
THEOREM ServedIsLoggedIn == ServicesSpec => []ServedAsLoggedIn
<1>1. ServicesInv => ServedAsLoggedIn
  BY DEF ServicesInv, AuthInv
<1> QED BY <1>1, ServicesInductive, PTL

\* FlowDefHandler: the copy of a flow that no other write has overtaken is
\* its row, whatever requests and restarts come in between.
THEOREM CachesFollow == ServicesSpec => []CacheFollowsStore
<1>1. ServicesInv => CacheFollowsStore
  BY DEF ServicesInv, FlowInv
<1> QED BY <1>1, ServicesInductive, PTL

\* CreateRunFromTrigger: a run asked for through a clean copy lies where the
\* JobManager of its flow polls, and is one the stored flow asks for.
THEOREM RunsArrive == ServicesSpec => []RunReachesItsJobManager
<1>1. ServicesInv => RunReachesItsJobManager
  BY DEF ServicesInv, FlowInv
<1> QED BY <1>1, ServicesInductive, PTL

\* The A2A server: a task that is seen as completed stands for an action that
\* was carried out, for any number of tasks, messages, faults and cancels.
THEOREM CompletionsApply == ServicesSpec => []CompletedIsApplied
<1>1. ServicesInv => CompletedIsApplied
  BY DEF ServicesInv, TaskInv, Truthful, Announced, CompletedIsApplied, T!CompletedIsApplied
<1> QED BY <1>1, ServicesInductive, PTL

\* The executors: through every retry, late server, panic and lost row, a
\* node is reported as done only if what it heard entitles it to that, an
\* agent is given up only after its last retry, and a committee of any size
\* decides as its strategy says, a strict majority up to two votes early.
THEOREM VerdictsAreEarned == ServicesSpec => []VerdictEarned
<1>1. ServicesInv => VerdictEarned
  BY ExecutorEarned DEF ServicesInv
<1> QED BY <1>1, ServicesInductive, PTL

\* RunMigrations: for any files in which a table is created before it is used
\* and any number of processes that start, crash and overtake each other, one
\* that reports no error leaves the whole schema behind, unless it swallowed
\* the error of a rename, and one that no error hit and nobody overtook does
\* not fail.
THEOREM MigrationsConverge == ServicesSpec => []MigrationConverges
<1>1. ServicesInv => MigrationConverges
  BY MigrationConverged DEF ServicesInv
<1> QED BY <1>1, ServicesInductive, PTL

\* ImportAll: whatever callers and the engine write meanwhile, every row of
\* the file of a kind that the import is past is in its table, with the
\* content it had and as usable as it was, or somebody else wrote it since, or
\* SQLite dropped it for a row with the same id.
THEOREM ImportsRestore == ServicesSpec => []ImportRestores
<1>1. ServicesInv => ImportRestores
  BY ResourceRestored DEF ServicesInv
<1> QED BY <1>1, ServicesInductive, PTL

\* ImportAll: with tables and a file in which every name is found, the order
\* of the kinds is one in which no flow and no run is written before what it
\* names, wherever the import stops; a flow or run that names a missing row
\* has lost it to somebody else, or to a row with the same id in SQLite.
THEOREM ImportsNeverDangle == ServicesSpec => []ImportNeverDangles
<1>1. ServicesInv => ImportNeverDangles
  BY ResourceWhole DEF ServicesInv
<1> QED BY <1>1, ServicesInductive, PTL

\* Publish of the in-process messager: for any listeners, publishers and
\* messages, and a broker closed in between, a message is for those whose kind
\* and address it has, each of them or one of the pool gets it once, and a
\* pool's members take turns.
THEOREM MessagesAreRouted == ServicesSpec => []RoutedLikeABroker
<1>1. ServicesInv => RoutedLikeABroker
  BY MessagerRouted DEF ServicesInv
<1> QED BY <1>1, ServicesInductive, PTL
=============================================================================
