---------------------------- MODULE MCJobManager ----------------------------
(***************************************************************************)
(* The loops that poll the apiserver, as `subject' says: the run poller in *)
(* its two deployments, JobManager processes that share the postgres lock  *)
(* and the all-in-one binary, which sets no lock; or the callers of        *)
(* WatchFlows.                                                             *)
(***************************************************************************)
EXTENDS Naturals, Sequences

CONSTANTS None, MaxFaults

VARIABLES
  subject,  \* "split", "all-in-one" or "watch"
  status, created, lockValue, unexpired, held, page, phase, jmOf, runOf, cancelled,
  late, claims, faults,
  version, chans, watch, boots

runVars == <<status, created, lockValue, unexpired, held, page, phase, jmOf, runOf,
             cancelled, late, claims, faults>>
watchVars == <<version, chans, watch, boots>>
vars == <<subject, runVars, watchVars>>

Split == INSTANCE JobManager
  WITH JMs <- {"j1", "j2"}, Runs <- {"r1"}, Values <- {"v1", "v2", "v3"}, Locked <- TRUE, PageSize <- 50

AllInOne == INSTANCE JobManager
  WITH JMs <- {"j1"}, Runs <- {"r1", "r2"}, Values <- {"v1", "v2"}, Locked <- FALSE, PageSize <- 50

Watch == INSTANCE FlowWatch WITH Watchers <- {"w1", "w2"}, MaxChanges <- 2, MaxBoots <- 1

Init ==
  /\ Watch!Init
  /\ \/ subject = "split" /\ Split!Init
     \/ subject \in {"all-in-one", "watch"} /\ AllInOne!Init
  /\ subject = "watch" \/ \A w \in DOMAIN watch : watch[w].since = 0

SplitStep(A) == subject = "split" /\ A /\ UNCHANGED <<subject, watchVars>>
AllInOneStep(A) == subject = "all-in-one" /\ A /\ UNCHANGED <<subject, watchVars>>
WatchStep(A) == subject = "watch" /\ A /\ UNCHANGED <<subject, runVars>>

Next == SplitStep(Split!Next) \/ AllInOneStep(AllInOne!Next) \/ WatchStep(Watch!Next)

\* The fairness of JobManager!FairSpec and of FlowWatch!Fairness.
FairSpec ==
  /\ Init /\ [][Next]_vars
  /\ \A j \in {"j1", "j2"} : WF_vars(SplitStep(Split!PollerStep(j)))
  /\ \A v \in {"v1", "v2", "v3"} : WF_vars(SplitStep(Split!ClaimStep(v)))
  /\ WF_vars(SplitStep(Split!Expire("r1")))
  /\ SF_vars(SplitStep(\E v \in {"v1", "v2", "v3"} : Split!Begin(v)))
  /\ WF_vars(AllInOneStep(AllInOne!PollerStep("j1")))
  /\ \A v \in {"v1", "v2"} : WF_vars(AllInOneStep(AllInOne!ClaimStep(v)))
  /\ SF_vars(AllInOneStep(\E v \in {"v1", "v2"} : AllInOne!Begin(v)))
  /\ \A w \in {"w1", "w2"} : WF_vars(WatchStep(Watch!WatchStep(w)))

\* A pending run does not stay pending for ever, with or without a lock:
\* locks left behind by crashes and lost answers expire, pollers come back.
PendingIsPickedUp ==
  \A r \in {"r1", "r2"} :
    (r \in DOMAIN status /\ status[r] = "PENDING") ~> (r \notin DOMAIN status \/ status[r] # "PENDING")

\* FlowWatch!ChangeIsListed, of the callers of WatchFlows.
ChangeIsListed == subject = "watch" => Watch!ChangeIsListed
=============================================================================
