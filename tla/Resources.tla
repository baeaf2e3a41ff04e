----------------------------- MODULE Resources ------------------------------
(***************************************************************************)
(* The tables of LLM providers, notification channels, MCP servers,        *)
(* agents, flows with skills, runs and knowledge entries, written by the   *)
(* REST handlers of the apiserver and, directly, by the management         *)
(* console, whose export and import go table by table and row by row.      *)
(*                                                                         *)
(* A row has [id, ns, status, enabled, sort, body, needs, del]: sort tells *)
(* a skill from a flow, needs holds the rows it names, del is the soft     *)
(* deletion.  Keys and ids are numbers, 0 an empty id.                     *)
(***************************************************************************)
EXTENDS Naturals, FiniteSets, Sequences, Functions

CONSTANTS
  Keys,        \* names of agents, MCP servers and flows, ids of the others
  Clients,     \* concurrent REST requests
  Spaces,      \* namespaces
  Inputs,      \* what a caller sends: [status, enabled, body, needs]
  Tables,      \* contents the tables may start with
  Backups,     \* None and backups of another installation
  Selections,  \* sets of kinds a user asks export for
  None,
  UsedIds,     \* ids given out before
  MaxIds,      \* bound on ids given out
  MaxWrites,   \* bound on the writes of REST callers and console commands
  MaxFaults    \* bound on failing queries

VARIABLES
  dialect,     \* the database: "sqlite" or "postgres"
  rows,        \* rows[kind][key]
  ids,         \* ids given out
  req,         \* the row a REST update has read
  namespace,   \* namespace of the console, "" when not set
  doing,       \* "idle", "start", "export", "specs" or "import"
  todo,        \* kinds left to export, or slots left to import
  left,        \* flows left to read, items left to import in the slot
  wanted,      \* kinds the export was asked for
  file,        \* the backup: by slot a set of [key, row]
  home,        \* history: namespace of the last import, "" before one
  closed,      \* history: at the import's start no row named a missing one
  touched,     \* history: rows others wrote, or SQLite dropped, since then
  writes, faults

vars == <<dialect, rows, ids, req, namespace, doing, todo, left, wanted, file, home,
          closed, touched, writes, faults>>
consoleVars == <<doing, todo, left, wanted, file>>

----------------------------------------------------------------------------
(* Tables.                                                                 *)

Kinds == {"llm", "channel", "mcp", "agent", "flow", "run", "knowledge"}
Named == {"mcp", "agent", "flow"}            \* keyed by a name the caller gives

\* Parts of a backup.  Flows and skills share a table.
Slots == {"llm", "channel", "mcp", "skill", "agent", "flow", "run"}
KindOf(slot) == IF slot = "skill" THEN "flow" ELSE slot

\* Rows as the tables hold them: a flow names agents and MCP servers, a run
\* its flow.
Text == STRING
Row ==
  [id : Nat, ns : Text, status : Text, enabled : BOOLEAN, sort : Text, body : Nat,
   needs : SUBSET ({"agent", "mcp", "flow"} \X Keys), del : BOOLEAN]
RowOf(kind) ==
  {row \in Row : kind = "flow" => row.sort \in {"flow", "skill"} /\ \A n \in row.needs : n[1] # "flow"}

\* Backups as an export writes them: every row once, flows apart from skills.
Backup(b) ==
  /\ b \in [Slots -> SUBSET [key : Keys, row : Row]]
  /\ \A slot \in Slots : \A item \in b[slot] :
       item.row \in RowOf(KindOf(slot)) /\ (KindOf(slot) = "flow" => item.row.sort = slot)
  /\ \A slot, s \in Slots : \A item \in b[slot], other \in b[s] :
       KindOf(slot) = KindOf(s) /\ item.key = other.key => slot = s /\ item = other

Live(kind) == {k \in Keys : rows[kind][k] # None /\ ~rows[kind][k].del}

\* Agents and MCP servers are upserted on their name while their id is the
\* primary key: the other rows with that id, deleted ones included.
SameId(kind, k, id) ==
  {j \in Keys \ {k} : kind \in {"agent", "mcp"} /\ rows[kind][j] # None /\ rows[kind][j].id = id}

\* PostgreSQL refuses the second row with an id.
IdTaken(kind, k, id) == dialect = "postgres" /\ SameId(kind, k, id) # {}

SavedKeepingDeletion(kind, k, row) ==
  [rows EXCEPT ![kind][k] = [row EXCEPT !.del = rows[kind][k] # None /\ rows[kind][k].del]]

\* INSERT ... ON CONFLICT DO UPDATE of every column, del_flag included; the
\* INSERT OR REPLACE of SQLite drops the other row with that id for good.
Saved(kind, k, row) ==
  IF IdTaken(kind, k, row.id) THEN rows
  ELSE [rows EXCEPT ![kind] =
          [j \in Keys |-> IF j = k THEN [row EXCEPT !.del = FALSE]
                          ELSE IF j \in SameId(kind, k, row.id) THEN None ELSE @[j]]]

Save(kind, k, row) == rows' = Saved(kind, k, row)

\* The rows a step drops.
Dropped == {n \in Kinds \X Keys : rows[n[1]][n[2]] # None /\ rows'[n[1]][n[2]] = None}

Deleted(kind, k) ==
  IF rows[kind][k] = None THEN rows
  ELSE [rows EXCEPT ![kind][k].del = TRUE, ![kind][k].status = "DELETED"]

NewRow(id, ns, in, sort) ==
  [id |-> id, ns |-> ns, status |-> in.status, enabled |-> in.enabled, sort |-> sort,
   body |-> in.body, needs |-> in.needs, del |-> FALSE]

\* What the TaskManager loads: providers by status, MCP servers by flag.
Usable(kind, row) ==
  CASE kind = "llm" -> row.status = "ACTIVE"
    [] kind = "mcp" -> row.enabled
    [] OTHER -> TRUE

\* The rows that name a row nobody finds.
Dangling(kind) == {k \in Live(kind) : \E n \in rows[kind][k].needs : n[2] \notin Live(n[1])}

----------------------------------------------------------------------------
Init ==
  /\ dialect \in {"sqlite", "postgres"} /\ rows \in Tables /\ ids = UsedIds /\ req = [c \in Clients |-> None]
  /\ namespace = "" /\ doing = "idle" /\ todo = << >> /\ left = {} /\ wanted = {} /\ file \in Backups
  /\ home = "" /\ closed = FALSE /\ touched = {} /\ writes = 0 /\ faults = 0

Fault == faults < MaxFaults /\ faults' = faults + 1
Fresh == ids < MaxIds /\ ids' = ids + 1

\* A write by a caller, or by a console command other than import.
Write(kind, k) ==
  /\ writes < MaxWrites /\ writes' = writes + 1
  /\ touched' = touched \union {<<kind, k>>} \union Dropped
  /\ UNCHANGED <<home, closed>>

----------------------------------------------------------------------------
(* REST handlers.                                                          *)

\* fixEnabled: a provider without a status takes it from the flag.
LlmStatus(in) ==
  IF in.status # "" THEN in.status ELSE IF in.enabled THEN "ACTIVE" ELSE "INACTIVE"
KnowledgeStatus(in) == IF in.status = "" THEN "ACTIVE" ELSE in.status

Received(kind, in) ==
  CASE kind = "llm" -> [in EXCEPT !.status = LlmStatus(in)]
    [] kind = "knowledge" -> [in EXCEPT !.status = KnowledgeStatus(in)]
    [] OTHER -> in

\* POST: a fresh id; an agent or MCP server of that name is overwritten.
Create(kind, k, ns, in) ==
  /\ kind \notin Named => k = ids + 1
  /\ Fresh /\ Save(kind, k, NewRow(ids + 1, ns, Received(kind, in), "")) /\ Write(kind, k)
  /\ UNCHANGED <<req, namespace, consoleVars, faults>>

CreateLlm(k, ns, in) == Create("llm", k, ns, in)
CreateChannel(k, ns, in) == Create("channel", k, ns, in)
CreateMcp(k, ns, in) == Create("mcp", k, ns, in)
CreateAgent(k, ns, in) == Create("agent", k, ns, in)
CreateKnowledge(k, ns, in) == Create("knowledge", k, ns, in)

\* PUT of a provider or a channel: an upsert of what was sent, which has no
\* namespace.
Replace(kind, k, in) ==
  /\ k <= ids
  /\ Save(kind, k, NewRow(k, "", Received(kind, in), "")) /\ Write(kind, k)
  /\ UNCHANGED <<ids, req, namespace, consoleVars, faults>>

UpdateLlm(k, in) == Replace("llm", k, in)
UpdateChannel(k, in) == Replace("channel", k, in)

\* PUT of the others: the row is read, merged and saved.
BeginUpdate(c, kind, k) ==
  /\ req[c] = None /\ k \in Live(kind) /\ writes < MaxWrites
  /\ req' = [req EXCEPT ![c] = [kind |-> kind, key |-> k, row |-> rows[kind][k]]]
  /\ UNCHANGED <<rows, ids, namespace, consoleVars, home, closed, touched, writes, faults>>

\* An empty body field keeps the old one; the MCP flag is always taken.
Merge(old, ns, in) == [old EXCEPT !.body = IF in.body = 0 THEN @ ELSE in.body, !.ns = ns]
MergeMcp(old, in) == [Merge(old, old.ns, in) EXCEPT !.enabled = in.enabled]

EndUpdate(c, kind, row) ==
  /\ req[c] # None /\ req[c].kind = kind
  /\ req' = [req EXCEPT ![c] = None]
  /\ Save(kind, req[c].key, row) /\ Write(kind, req[c].key)
  /\ UNCHANGED <<ids, namespace, consoleVars, faults>>

UpdateAgent(c, ns, in) == EndUpdate(c, "agent", Merge(req[c].row, ns, in))
UpdateMcp(c, in) == EndUpdate(c, "mcp", MergeMcp(req[c].row, in))
UpdateKnowledge(c, ns, in) == EndUpdate(c, "knowledge", Merge(req[c].row, ns, in))

\* DELETE, whatever the namespace of the row.
Delete(kind, k) ==
  /\ k \in Live(kind) /\ rows' = Deleted(kind, k) /\ Write(kind, k)
  /\ UNCHANGED <<ids, req, namespace, consoleVars, faults>>

DeleteLlm(k) == Delete("llm", k)
DeleteChannel(k) == Delete("channel", k)
DeleteMcp(k) == Delete("mcp", k)
DeleteAgent(k) == Delete("agent", k)
DeleteKnowledge(k) == Delete("knowledge", k)

\* The engine takes a run on; a run's body is its output.
Advance(k) ==
  /\ k \in Live("run") /\ rows["run"][k].status \in {"PENDING", "RUNNING"}
  /\ \/ rows' = [rows EXCEPT !["run"][k].status = "RUNNING"]
     \/ rows' = [rows EXCEPT !["run"][k].status = "SUCCEEDED", !["run"][k].body = 2]
  /\ Write("run", k) /\ UNCHANGED <<ids, req, namespace, consoleVars, faults>>

----------------------------------------------------------------------------
(* Console commands.                                                       *)

CmdNamespace(ns) ==
  /\ doing = "idle" /\ namespace' = ns /\ namespace # ns
  /\ UNCHANGED <<rows, ids, req, consoleVars, home, closed, touched, writes, faults>>

RequireNamespace == doing = "idle" /\ namespace # ""

\* The console's store calls.  A fresh id is the key of providers and
\* channels; agents and MCP servers keep the id of their JSON, empty or given,
\* so that a second one with that id fails, or takes the first one's place.
AddLLM(k, in) == k = ids + 1 /\ Fresh /\ Save("llm", k, NewRow(k, namespace, in, ""))
AddChannel(k, in) == k = ids + 1 /\ Fresh /\ Save("channel", k, NewRow(k, namespace, in, ""))
AddAgent(k, id, in) == Save("agent", k, NewRow(id, namespace, in, "")) /\ UNCHANGED ids
AddMCP(k, id, in) == Save("mcp", k, NewRow(id, namespace, in, "")) /\ UNCHANGED ids

SaveSpec(k, in, sort) ==
  Save("flow", k, NewRow(k, namespace, [in EXCEPT !.status = "ACTIVE"], sort)) /\ UNCHANGED ids
AddFlow(k, in) == SaveSpec(k, in, "flow")
AddSkill(k, in) == SaveSpec(k, in, "skill")

RemoveLLM(k) == rows' = Deleted("llm", k)
RemoveChannel(k) == rows' = Deleted("channel", k)
RemoveAgent(k) == rows' = Deleted("agent", k)
RemoveMCP(k) == rows' = Deleted("mcp", k)
RemoveFlow(k) == rows' = Deleted("flow", k)
RemoveSkill(k) == rows' = Deleted("flow", k)   \* whatever the row's kind

\* The commands: one of them at a time, and only in a namespace.
Command(kind, k) ==
  RequireNamespace /\ Write(kind, k) /\ UNCHANGED <<req, namespace, consoleVars, faults>>
RemoveCommand(kind, k) == Command(kind, k) /\ k \in Live(kind) /\ UNCHANGED ids

LlmAdd(k, in) == AddLLM(k, in) /\ Command("llm", k)
ChannelAdd(k, in) == AddChannel(k, in) /\ Command("channel", k)
AgentAdd(k, id, in) == AddAgent(k, id, in) /\ Command("agent", k)
McpAdd(k, id, in) == AddMCP(k, id, in) /\ Command("mcp", k)
FlowAdd(k, in) == AddFlow(k, in) /\ Command("flow", k)
SkillAdd(k, in) == AddSkill(k, in) /\ Command("flow", k)

LlmRemove(k) == RemoveLLM(k) /\ RemoveCommand("llm", k)
ChannelRemove(k) == RemoveChannel(k) /\ RemoveCommand("channel", k)
AgentRemove(k) == RemoveAgent(k) /\ RemoveCommand("agent", k)
McpRemove(k) == RemoveMCP(k) /\ RemoveCommand("mcp", k)
FlowRemove(k) == RemoveFlow(k) /\ RemoveCommand("flow", k)
SkillRemove(k) == RemoveSkill(k) /\ RemoveCommand("flow", k)

\* The flow is not looked up.
CreateRun(k, f) ==
  Save("run", k, [id |-> k, ns |-> namespace, status |-> "PENDING", enabled |-> FALSE,
                  sort |-> "", body |-> 1, needs |-> {<<"flow", f>>}, del |-> FALSE])
RunCreate(f) == Fresh /\ CreateRun(ids + 1, f) /\ Command("run", ids + 1)

\* The run is read, then its mutable columns are written.
RunStart(k) ==
  /\ RequireNamespace /\ k \in Live("run") /\ writes < MaxWrites
  /\ doing' = "start" /\ left' = {[key |-> k, row |-> rows["run"][k]]}
  /\ UNCHANGED <<rows, ids, req, namespace, todo, wanted, file, home, closed, touched, writes, faults>>

StartRun ==
  /\ doing = "start" /\ doing' = "idle" /\ left' = {}
  /\ \E it \in left :
       /\ rows' = [rows EXCEPT !["run"][it.key].status = "RUNNING", !["run"][it.key].body = it.row.body]
       /\ Write("run", it.key)
  /\ UNCHANGED <<ids, req, namespace, todo, wanted, file, faults>>

StopRun(k) == rows' = [rows EXCEPT !["run"][k].status = "CANCELLED"]
RunStop(k) == k \in Live("run") /\ StopRun(k) /\ RemoveCommand("run", k)

----------------------------------------------------------------------------
(* Export, one query per kind; flows are then read one by one.             *)

ExportOrder == <<"llm", "channel", "mcp", "agent", "flow", "run">>
Select(kind) == {[key |-> k, row |-> rows[kind][k]] : k \in Live(kind)}

\* cmdExport asks for no namespace and ExportKinds selects in all of them.
CmdExport(selection) ==
  /\ doing = "idle" /\ file = None
  /\ doing' = "export" /\ file' = [s \in Slots |-> {}] /\ wanted' = selection
  /\ todo' = ExportOrder
  /\ UNCHANGED <<rows, ids, req, namespace, left, home, closed, touched, writes, faults>>

Included(kind) == \E slot \in wanted : KindOf(slot) = kind

\* A kind nobody asked for is passed over.
ExportKind ==
  /\ doing = "export" /\ todo # << >> /\ Included(Head(todo))
  /\ IF Head(todo) = "flow"
     THEN doing' = "specs" /\ left' = Live("flow") /\ UNCHANGED <<todo, file>>
     ELSE /\ file' = [file EXCEPT ![Head(todo)] = Select(Head(todo))] /\ todo' = Tail(todo)
          /\ UNCHANGED <<doing, left>>
  /\ UNCHANGED <<rows, ids, req, namespace, wanted, home, closed, touched, writes, faults>>

ExportNothing ==
  /\ doing = "export" /\ todo # << >> /\ ~Included(Head(todo))
  /\ todo' = Tail(todo)
  /\ UNCHANGED <<rows, ids, req, namespace, doing, left, file, wanted, home, closed, touched, writes, faults>>

\* A query that fails leaves its kind out, and export goes on.
ExportError ==
  /\ doing = "export" /\ todo # << >> /\ Included(Head(todo)) /\ Fault
  /\ todo' = Tail(todo)
  /\ UNCHANGED <<rows, ids, req, namespace, doing, left, file, wanted, home, closed, touched, writes>>

\* A flow deleted since the listing is left out.
ExportSpec(k) ==
  /\ doing = "specs" /\ k \in left /\ left' = left \ {k}
  /\ file' = IF k \in Live("flow") /\ rows["flow"][k].sort \in wanted
             THEN [file EXCEPT ![rows["flow"][k].sort] = @ \union {[key |-> k, row |-> rows["flow"][k]]}]
             ELSE file
  /\ UNCHANGED <<rows, ids, req, namespace, doing, todo, wanted, home, closed, touched, writes, faults>>

ExportDone ==
  /\ \/ doing = "specs" /\ left = {} /\ doing' = "export" /\ todo' = Tail(todo)
     \/ doing = "export" /\ todo = << >> /\ doing' = "idle" /\ UNCHANGED todo
  /\ UNCHANGED <<rows, ids, req, namespace, left, file, wanted, home, closed, touched, writes, faults>>

----------------------------------------------------------------------------
(* Import.                                                                 *)

ImportOrderFlowsFirst == <<"llm", "channel", "mcp", "skill", "flow", "agent", "run">>
ImportOrder == <<"llm", "channel", "mcp", "skill", "agent", "flow", "run">>

CmdImport ==
  /\ RequireNamespace /\ file # None
  /\ doing' = "import" /\ todo' = ImportOrder /\ left' = file[Head(ImportOrder)]
  /\ home' = namespace /\ touched' = {}
  /\ closed' = \A kind \in Kinds : Dangling(kind) = {}
  /\ UNCHANGED <<rows, ids, req, namespace, wanted, file, writes, faults>>

\* An id is kept when there is one; flows become active; a status "active"
\* switches an MCP server on.
Imported(slot, item) ==
  [item.row EXCEPT !.ns = namespace,
                   !.id = IF @ = 0 THEN ids + 1 ELSE @,
                   !.status = IF KindOf(slot) = "flow" THEN "ACTIVE" ELSE @,
                   !.enabled = @ \/ (slot = "mcp" /\ item.row.status = "active")]

NeedsId(slot, item) == slot = "run" \/ item.row.id = 0

\* runs.Create draws an id whatever the file says.
CreateImportedRun(item) == Save("run", ids + 1, [Imported("run", item) EXCEPT !.id = ids + 1])

IdConflicts(slot, item) == IdTaken(slot, item.key, Imported(slot, item).id)

ImportItem(item) ==
  /\ doing = "import" /\ item \in left /\ ~IdConflicts(Head(todo), item) /\ left' = left \ {item}
  /\ IF NeedsId(Head(todo), item) THEN Fresh ELSE UNCHANGED ids
  /\ IF Head(todo) = "run" THEN CreateImportedRun(item) /\ UNCHANGED touched
     ELSE /\ Save(KindOf(Head(todo)), item.key, Imported(Head(todo), item))
          /\ touched' = (touched \ {<<KindOf(Head(todo)), item.key>>}) \union Dropped
  /\ UNCHANGED <<req, namespace, doing, todo, wanted, file, home, closed, writes, faults>>

ImportSlot ==
  /\ doing = "import" /\ left = {}
  /\ todo' = Tail(todo)
  /\ left' = IF Tail(todo) = << >> THEN {} ELSE file[Head(Tail(todo))]
  /\ doing' = IF Tail(todo) = << >> THEN "idle" ELSE "import"
  /\ UNCHANGED <<rows, ids, req, namespace, wanted, file, home, closed, touched, writes, faults>>

\* A write that fails ends the import; what was written stays.
EndImport ==
  /\ doing' = "idle" /\ left' = {}
  /\ UNCHANGED <<rows, ids, req, namespace, todo, wanted, file, home, closed, touched, writes>>

ImportRefused(item) ==
  doing = "import" /\ item \in left /\ IdConflicts(Head(todo), item) /\ EndImport /\ UNCHANGED faults
ImportError == doing = "import" /\ left # {} /\ Fault /\ EndImport

\* A file with a single resource, in the namespace its metadata names or the
\* console's.  Agents and MCP servers keep an id that it gives; providers,
\* channels and runs get a fresh one whatever it says.
RuntimeStatus(st) == IF st = "active" THEN "ACTIVE" ELSE st

ImportResource(slot, k, id, ns, in) ==
  LET isFlow == KindOf(slot) = "flow"
      given == slot \in {"agent", "mcp"} /\ id # 0
      row == NewRow(IF isFlow THEN k ELSE IF given THEN id ELSE ids + 1, ns, in, IF isFlow THEN slot ELSE "")
  IN /\ RequireNamespace
     /\ IF isFlow \/ given THEN UNCHANGED ids ELSE Fresh
     /\ slot \in {"llm", "channel", "run"} => k = ids + 1
     /\ Save(KindOf(slot), k,
             [row EXCEPT !.status = CASE slot = "llm" -> RuntimeStatus(@)
                                      [] isFlow -> "ACTIVE"
                                      [] OTHER -> @,
                         !.enabled = @ \/ (slot = "mcp" /\ in.status = "active")])
     /\ Write(KindOf(slot), k)
     /\ UNCHANGED <<req, namespace, consoleVars, faults>>

----------------------------------------------------------------------------
CreateRow(k, ns, in) ==
  \/ CreateLlm(k, ns, in) \/ CreateChannel(k, ns, in) \/ CreateMcp(k, ns, in)
  \/ CreateAgent(k, ns, in) \/ CreateKnowledge(k, ns, in)

UpdateRow(c, ns, in) == UpdateAgent(c, ns, in) \/ UpdateMcp(c, in) \/ UpdateKnowledge(c, ns, in)

DeleteRow(k) ==
  DeleteLlm(k) \/ DeleteChannel(k) \/ DeleteMcp(k) \/ DeleteAgent(k) \/ DeleteKnowledge(k)

Rest ==
  \/ \E k \in Keys, in \in Inputs :
       UpdateLlm(k, in) \/ UpdateChannel(k, in) \/ \E ns \in Spaces : CreateRow(k, ns, in)
  \/ \E k \in Keys : DeleteRow(k) \/ Advance(k)
  \/ \E c \in Clients :
       \/ \E kind \in {"agent", "mcp", "knowledge"}, k \in Keys : BeginUpdate(c, kind, k)
       \/ \E ns \in Spaces, in \in Inputs : UpdateRow(c, ns, in)

AddRow(k, id, in) ==
  \/ LlmAdd(k, in) \/ ChannelAdd(k, in) \/ FlowAdd(k, in) \/ SkillAdd(k, in)
  \/ AgentAdd(k, id, in) \/ McpAdd(k, id, in)

RemoveRow(k) ==
  LlmRemove(k) \/ ChannelRemove(k) \/ AgentRemove(k) \/ McpRemove(k) \/ FlowRemove(k) \/ SkillRemove(k)

CmdRun == StartRun \/ \E k \in Keys : RunCreate(k) \/ RunStart(k) \/ RunStop(k)

Console ==
  \/ \E ns \in Spaces \union {""} : CmdNamespace(ns)
  \/ \E k \in Keys, id \in 0 .. ids, in \in Inputs :
       AddRow(k, id, in) \/ \E slot \in Slots, ns \in Spaces : ImportResource(slot, k, id, ns, in)
  \/ \E k \in Keys : RemoveRow(k) \/ ExportSpec(k)
  \/ CmdRun
  \/ \E selection \in Selections : CmdExport(selection)
  \/ ExportKind \/ ExportNothing \/ ExportError \/ ExportDone
  \/ CmdImport \/ ImportSlot \/ ImportError \/ \E item \in left : ImportItem(item) \/ ImportRefused(item)

Next == (Rest \/ Console) /\ UNCHANGED dialect

Spec == Init /\ [][Next]_vars
----------------------------------------------------------------------------
Holds(slot, item) ==
  LET kind == KindOf(slot) now == rows[kind][item.key]
  IN /\ item.key \in Live(kind)
     /\ now.body = item.row.body /\ now.needs = item.row.needs /\ now.sort = item.row.sort
     /\ now.ns = home /\ (Usable(kind, item.row) => Usable(kind, now))

\* ImportAll: as soon as the import is past a kind, every row of that kind in
\* the file is in the table again, deleted since or not, with the content it
\* had and as usable as it was, in the console's namespace; only a later
\* write by somebody else takes it away or, in SQLite, a row saved since under
\* another name with the same id.
ImportRestores ==
  home # "" =>
    \A slot \in Slots \ ({"run"} \union Range(todo)) : \A item \in file[slot] :
      <<KindOf(slot), item.key>> \in touched \/ Holds(slot, item)

FileClosed ==
  \A slot \in Slots : \A item \in file[slot] : \A n \in item.row.needs :
    \E s \in Slots : KindOf(s) = n[1] /\ \E it \in file[s] : it.key = n[2]

\* ImportAll: with a file in which every name is found, a flow or a run that
\* names a missing row has lost it, or got the name, through somebody else, or
\* SQLite has dropped the row for one with the same id; in PostgreSQL no step
\* of the import leaves one behind.
ImportNeverDangles ==
  home # "" /\ closed /\ FileClosed =>
    \A kind \in {"flow", "run"} : \A k \in Dangling(kind) :
      \/ rows[kind][k].sort = "skill" \/ <<kind, k>> \in touched
      \/ \A n \in rows[kind][k].needs : n[2] \in Live(n[1]) \/ n \in touched
=============================================================================
