----------------------------- MODULE FlowWatch -----------------------------
(***************************************************************************)
(* The long poll for changes of the flow definitions on one apiserver      *)
(* replica: the handlers that change a definition announce it              *)
(* (notifyWatchers), the callers of WatchFlows poll again and again.  The  *)
(* version is compared in one lock section and the channel registered in   *)
(* a later one.                                                            *)
(***************************************************************************)
EXTENDS Naturals

CONSTANTS
  Watchers,
  MaxChanges,   \* bound on the announcements
  MaxBoots      \* bound on the restarts of the replica

VARIABLES
  version,    \* watchVersion
  chans,      \* watchers whose channel is in watchChs
  watch,      \* a caller's poll: its since, the version read, the version last listed
  boots

vars == <<version, chans, watch, boots>>

Init ==
  /\ version = 1 /\ chans = {} /\ boots = 0
  /\ watch \in [Watchers -> [pc : {"idle"}, since : {0, 1}, cur : {0}, listed : {0}]]

\* The channels are taken under the lock that counts the version up.
Wake ==
  /\ chans' = {}
  /\ watch' = [w \in Watchers |->
                 IF w \in chans /\ watch[w].pc = "waiting"
                 THEN [watch[w] EXCEPT !.pc = "woken"] ELSE watch[w]]

NotifyWatchers ==
  /\ version <= MaxChanges /\ version' = version + 1
  /\ Wake
  /\ UNCHANGED boots

\* WatchFlows keeps the caller's version when it gets a list: the list
\* carries none.
Listed(w) == [watch[w] EXCEPT !.pc = "idle", !.listed = version]

Watch(w) ==
  /\ watch[w].pc = "idle"
  /\ watch' = [watch EXCEPT ![w] =
       IF version > watch[w].since THEN Listed(w)
       ELSE [watch[w] EXCEPT !.pc = "read", !.cur = version]]
  /\ UNCHANGED <<version, chans, boots>>

Register(w) ==
  /\ watch[w].pc = "read"
  /\ chans' = chans \union {w}
  /\ watch' = [watch EXCEPT ![w].pc = "waiting"]
  /\ UNCHANGED <<version, boots>>

Woken(w) ==
  /\ watch[w].pc = "woken"
  /\ watch' = [watch EXCEPT ![w] = Listed(w)]
  /\ UNCHANGED <<version, chans, boots>>

TimeoutCurrent(w) ==
  /\ watch[w].pc = "waiting"
  /\ watch' = [watch EXCEPT ![w].pc = "idle", ![w].since = version]
  /\ UNCHANGED <<version, chans, boots>>

\* 30 seconds: the answer is the version read before the wait, and the
\* channel stays in watchChs.
WatchTimeout(w) ==
  /\ watch[w].pc = "waiting"
  /\ watch' = [watch EXCEPT ![w].pc = "idle", ![w].since = watch[w].cur]
  /\ UNCHANGED <<version, chans, boots>>

Restart ==
  /\ boots < MaxBoots /\ boots' = boots + 1
  /\ version' = 1 /\ chans' = {}
  /\ watch' = [w \in Watchers |-> [watch[w] EXCEPT !.pc = "idle", !.listed = 0]]

WatchStep(w) == Watch(w) \/ Register(w) \/ Woken(w) \/ WatchTimeout(w)

Next == NotifyWatchers \/ Restart \/ \E w \in Watchers : WatchStep(w)

\* A caller polls again and the server answers it.
Fairness == \A w \in Watchers : WF_vars(WatchStep(w))

Spec == Init /\ [][Next]_vars /\ Fairness

----------------------------------------------------------------------------
\* Once the changes cease every watcher has been listed the last one, also
\* when it was announced between the comparison of the versions and the
\* registration of the channel (the poll that missed it times out with the
\* older version and the next one lists it), or after a restart of the
\* replica, which counts from 1 again.
ChangeIsListed == <>[](\A w \in Watchers : version = 1 \/ watch[w].listed = version)
============================================================================
