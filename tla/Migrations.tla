----------------------------- MODULE Migrations -----------------------------
(***************************************************************************)
(* npm run migrate (infra/migrations/run.mjs) on the two databases: the    *)
(* numbered files of infra/migrations on Postgres, each in a transaction   *)
(* with the row that records it, and the one file of infra/timescaledb.    *)
(* The entrypoint of the database images may have run the first file of    *)
(* each before.  Several runners may be started, and started again.        *)
(*                                                                         *)
(* A file is the sequence of its parts; what was made of them is all of    *)
(* the schema that counts.                                                 *)
(***************************************************************************)
EXTENDS Naturals, Sequences, Functions

CONSTANTS
  Runners,
  LastFile,     \* the files of Postgres are 1..LastFile, sorted by their names
  Script,       \* Script[f]: the parts of file f, in their order
  Needs,        \* Needs[f]: the parts that file f refers to
  Probe,        \* Probe[f]: the part whose table tells that Docker ran file f
  Repeatable,   \* files that do not fail on what is there already
  MaxFailures   \* bound on crashes and on statements that fail by themselves

Meter == 0      \* the file of TimescaleDB
Files == Meter..LastFile
Mounted == {1, Meter}    \* in docker-entrypoint-initdb.d

Parts(f) == Range(Script[f])

AllParts == UNION {Parts(f) : f \in Files}

(* The file of TimescaleDB is on its own; each file of Postgres refers to    *)
(* the one before, and the second to all of the first.                       *)
ASSUME MigrationsAssumption ==
  /\ LastFile \in Nat \ {0} /\ MaxFailures \in Nat
  /\ Script \in [Files -> Seq(AllParts)] /\ Needs \in [Files -> SUBSET AllParts]
  /\ \A f, g \in Files : f # g => Parts(f) \intersect Parts(g) = {}
  /\ Needs[1] = {} /\ (LastFile > 1 => Parts(1) \subseteq Needs[2])
  /\ Probe \in [Mounted -> AllParts] /\ \A f \in Mounted : Probe[f] \in Parts(f)
  /\ Meter \in Repeatable

VARIABLES
  init,       \* the entrypoint of each database: may never run, be interrupted
  schema,     \* the parts that were made, and committed
  recorded,   \* schema_migrations of both databases
  runner,     \* what each runner does next, and the file it is at
  failures

vars == <<init, schema, recorded, runner, failures>>

Steps == {"off", "probe", "record", "check", "sql", "commit",
          "tsProbe", "tsRecord", "tsSql", "tsMark", "done"}

TypeOK ==
  /\ init \in [Mounted -> {"unused", "running", "torn", "over"}]
  /\ schema \subseteq AllParts
  /\ recorded \subseteq Files
  /\ runner \in [Runners -> [pc : Steps, file : 1..(LastFile + 1)]]
  /\ failures \in 0..MaxFailures

Init ==
  /\ init \in [Mounted -> {"unused", "running"}]
  /\ schema = {} /\ recorded = {}
  /\ runner = [r \in Runners |-> [pc |-> "off", file |-> 1]]
  /\ failures = 0

Fails == failures < MaxFailures /\ failures' = failures + 1

Complete(f) == Parts(f) \subseteq schema
-----------------------------------------------------------------------------
(* The entrypoint runs once, on an empty volume, statement by statement, and *)
(* nobody else can connect until it is over.                                 *)
InitStatement(f) ==
  /\ init[f] = "running"
  /\ \E i \in DOMAIN Script[f] :
       /\ Script[f][i] \notin schema
       /\ \A j \in 1..(i - 1) : Script[f][j] \in schema
       /\ schema' = schema \cup {Script[f][i]}
  /\ UNCHANGED <<init, recorded, runner, failures>>

InitOver(f) ==
  /\ init[f] = "running" /\ Complete(f)
  /\ init' = [init EXCEPT ![f] = "over"]
  /\ UNCHANGED <<schema, recorded, runner, failures>>

(* The volume is not empty any more: it will not run again. *)
InitInterrupted(f) ==
  /\ init[f] = "running" /\ Fails
  /\ init' = [init EXCEPT ![f] = "torn"]
  /\ UNCHANGED <<schema, recorded, runner>>
-----------------------------------------------------------------------------
At(r, pc) == runner[r].pc = pc

Goes(r, pc, f) == runner' = [runner EXCEPT ![r] = [pc |-> pc, file |-> f]]

File(r) == runner[r].file

FromZero == 0

FirstFile == 1

Record(f) == recorded' = recorded \cup {f}

Idle(r) == At(r, "off") \/ At(r, "done")

Start(r) ==
  /\ Idle(r) /\ init[1] # "running"
  /\ Goes(r, "probe", FirstFile)
  /\ UNCHANGED <<init, schema, recorded, failures>>

(* If docker-entrypoint already created core tables, record 001 as applied. *)
ProbeCore(r) ==
  /\ At(r, "probe")
  /\ Goes(r, IF Probe[1] \in schema THEN "record" ELSE "check", FirstFile)
  /\ UNCHANGED <<init, schema, recorded, failures>>

RecordCore(r) ==
  /\ At(r, "record")
  /\ Record(1)
  /\ Goes(r, "check", FirstFile)
  /\ UNCHANGED <<init, schema, failures>>

(* The loop over the files; behind the last the other database is connected. *)
Check(r) ==
  /\ At(r, "check") /\ File(r) <= LastFile
  /\ IF File(r) \in recorded THEN Goes(r, "check", File(r) + 1) ELSE Goes(r, "sql", File(r))
  /\ UNCHANGED <<init, schema, recorded, failures>>

(* A transaction keeps what it made to itself until it commits, and whoever  *)
(* makes the same waits for its end.  An error, of the file or any other,    *)
(* rolls it back and ends the runner.                                        *)
Locked(f, r) == \E q \in Runners \ {r} : At(q, "commit") /\ File(q) = f

Applicable(f) ==
  /\ Needs[f] \subseteq schema
  /\ f \in Repeatable \/ Parts(f) \intersect schema = {}

RunSql(r) ==
  /\ At(r, "sql") /\ ~Locked(File(r), r) /\ Applicable(File(r))
  /\ Goes(r, "commit", File(r))
  /\ UNCHANGED <<init, schema, recorded, failures>>

MadeBefore(f) == {Head(Script[f])}

LeftBehind(f) == {}

MarkAndGoOn(r) ==
  /\ Record(File(r))
  /\ Goes(r, "check", File(r) + 1)
  /\ UNCHANGED <<init, schema>>

Abort(r) ==
  /\ schema' = schema \cup LeftBehind(File(r))
  /\ Goes(r, "off", FirstFile)
  /\ UNCHANGED <<init, recorded>>

SqlError(r) ==
  /\ At(r, "sql") /\ ~Locked(File(r), r) /\ ~Applicable(File(r))
  /\ Abort(r) /\ UNCHANGED failures

Disconnect(r) == At(r, "sql") /\ Fails /\ Abort(r)

Commit(r) ==
  /\ At(r, "commit")
  /\ schema' = schema \cup Parts(File(r)) /\ Record(File(r))
  /\ Goes(r, "check", File(r) + 1)
  /\ UNCHANGED <<init, failures>>
-----------------------------------------------------------------------------
(* The file of TimescaleDB: its statements are one query and so one implicit *)
(* transaction, the row that records it is another.                          *)
ConnectTimescale(r) ==
  /\ At(r, "check") /\ File(r) > LastFile /\ init[Meter] # "running"
  /\ Goes(r, "tsProbe", File(r))
  /\ UNCHANGED <<init, schema, recorded, failures>>

SkipIfThere == IF Probe[Meter] \in schema \/ Meter \in recorded THEN "done" ELSE "tsSql"

NextForMeter ==
  IF Meter \in recorded THEN "done" ELSE IF Probe[Meter] \in schema THEN "tsRecord" ELSE "tsSql"

ProbeMeter(r) ==
  /\ At(r, "tsProbe")
  /\ Goes(r, NextForMeter, File(r))
  /\ UNCHANGED <<init, schema, recorded, failures>>

RunMeterSql(r) ==
  /\ At(r, "tsSql")
  /\ schema' = schema \cup Parts(Meter)
  /\ Goes(r, "tsMark", File(r))
  /\ UNCHANGED <<init, recorded, failures>>

RecordMeter(r) ==
  /\ At(r, "tsRecord") \/ At(r, "tsMark")
  /\ Record(Meter)
  /\ Goes(r, "done", File(r))
  /\ UNCHANGED <<init, schema, failures>>
-----------------------------------------------------------------------------
(* A runner dies, or one of its single queries fails; a transaction that was *)
(* open is gone.                                                             *)
Crash(r) ==
  /\ ~Idle(r) /\ Fails
  /\ Goes(r, "off", FirstFile)
  /\ UNCHANGED <<init, schema, recorded>>

Step(r) ==
  \/ Start(r) \/ ProbeCore(r) \/ RecordCore(r)
  \/ Check(r) \/ RunSql(r) \/ SqlError(r) \/ Commit(r)
  \/ ConnectTimescale(r) \/ ProbeMeter(r) \/ RunMeterSql(r) \/ RecordMeter(r)

Entrypoint(f) == InitStatement(f) \/ InitOver(f)

Next ==
  \/ \E f \in Mounted : Entrypoint(f) \/ InitInterrupted(f)
  \/ \E r \in Runners : Step(r) \/ Disconnect(r) \/ Crash(r)

Spec == Init /\ [][Next]_vars

(* A runner that ended is started again, "npm run migrate" being a step of   *)
(* every deployment.                                                         *)
LiveSpec ==
  /\ Spec
  /\ \A f \in Mounted : WF_vars(Entrypoint(f))
  /\ \A r \in Runners : WF_vars(Step(r))
-----------------------------------------------------------------------------
Torn(f) == f \in Mounted /\ init[f] = "torn"

(***************************************************************************)
(* A file that is recorded was applied, all of it, by whoever did it, as   *)
(* far as Docker was not interrupted over it: one table of its beginning   *)
(* is all that run.mjs looks at, and a runner may die at any statement     *)
(* while another one is at the same file.                                  *)
(***************************************************************************)
RecordedIsComplete == \A f \in recorded : Complete(f) \/ Torn(f)

(***************************************************************************)
(* Nothing is built on a file that is missing, or that Docker left         *)
(* incomplete: if a later file is recorded, all before it were applied.    *)
(***************************************************************************)
BuiltOnWhole ==
  \A f \in recorded \ Mounted : \A g \in 1..(f - 1) : g \in recorded /\ Complete(g)

(***************************************************************************)
(* Half of a file is nowhere but where Docker works or was interrupted.    *)
(***************************************************************************)
AllOrNothing ==
  \A f \in Files :
    \/ Complete(f) \/ Parts(f) \intersect schema = {}
    \/ f \in Mounted /\ init[f] \in {"running", "torn"}

(***************************************************************************)
(* A runner that says it is done leaves both databases migrated.           *)
(***************************************************************************)
DoneIsMigrated == \A r \in Runners : At(r, "done") => recorded = Files

(***************************************************************************)
(* Whatever fails, the databases are migrated in the end if the runner is  *)
(* started again, unless Docker was interrupted: no crash leaves a state   *)
(* in which the files fail for ever.                                       *)
(***************************************************************************)
MigratedInTheEnd == <>(recorded = Files \/ \E f \in Mounted : Torn(f))
=============================================================================
