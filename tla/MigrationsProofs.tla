-------------------------- MODULE MigrationsProofs --------------------------
(***************************************************************************)
(* What module Migrations promises of the two databases holds for any      *)
(* number of runners, files and failures.                                  *)
(***************************************************************************)
EXTENDS Migrations, TLAPS

(* What a runner knows when it is at a step. *)
InLoop == {"check", "sql", "commit"}
AtMeter == {"tsProbe", "tsRecord", "tsSql", "tsMark"}

Knows(r) ==
  /\ runner[r].pc # "off" => init[1] # "running"
  /\ runner[r].pc \in InLoop \cup AtMeter \cup {"done"} => 1..(File(r) - 1) \subseteq recorded
  /\ runner[r].pc \in {"sql", "commit"} => File(r) <= LastFile
  /\ At(r, "record") => Complete(1) \/ Torn(1)
  /\ At(r, "commit") => Needs[File(r)] \subseteq schema
  /\ runner[r].pc \in AtMeter \cup {"done"} => File(r) = LastFile + 1
  /\ runner[r].pc \in AtMeter => init[Meter] # "running"
  /\ At(r, "tsRecord") \/ At(r, "tsMark") => Complete(Meter) \/ Torn(Meter)
  /\ At(r, "done") => Meter \in recorded

Knowledge == \A r \in Runners : Knows(r)

MigrationsInv ==
  TypeOK /\ AllOrNothing /\ RecordedIsComplete /\ BuiltOnWhole /\ Knowledge
-----------------------------------------------------------------------------
LEMMA PartsOfFile ==
  ASSUME NEW f \in Files
  PROVE  /\ Parts(f) \subseteq AllParts
         /\ \A i \in DOMAIN Script[f] : Script[f][i] \in Parts(f)
BY DEF Parts, AllParts, Range

(* The start. *)
LEMMA InitInv == Init => MigrationsInv
<1> SUFFICES ASSUME Init PROVE MigrationsInv
  OBVIOUS
<1>1. TypeOK
  BY MigrationsAssumption DEF Init, TypeOK, Steps
<1>2. AllOrNothing /\ RecordedIsComplete /\ BuiltOnWhole
  BY DEF Init, AllOrNothing, RecordedIsComplete, BuiltOnWhole
<1>3. Knowledge
  BY DEF Init, Knowledge, Knows, At, InLoop, AtMeter
<1> QED
  BY <1>1, <1>2, <1>3 DEF MigrationsInv
-----------------------------------------------------------------------------
(* A step that only moves one runner on. *)
LEMMA Moved ==
  ASSUME TypeOK, NEW r \in Runners, NEW pc \in Steps, NEW f \in 1..(LastFile + 1), Goes(r, pc, f)
  PROVE  /\ runner' \in [Runners -> [pc : Steps, file : 1..(LastFile + 1)]]
         /\ runner'[r] = [pc |-> pc, file |-> f]
         /\ \A q \in Runners \ {r} : runner'[q] = runner[q]
BY DEF TypeOK, Goes

(* The others keep what they know while the schema and the records grow. *)
LEMMA OthersKnow ==
  ASSUME Knowledge, NEW r \in Runners, \A q \in Runners \ {r} : runner'[q] = runner[q],
         UNCHANGED init, schema \subseteq schema', recorded \subseteq recorded'
  PROVE  \A q \in Runners \ {r} : Knows(q)'
<1> TAKE q \in Runners \ {r}
<1>1. Knows(q)
  BY DEF Knowledge
<1> QED
  BY <1>1 DEF Knows, At, File, Complete, Torn

(* Runners that only move.                                                   *)
LEMMA OnlyMoved ==
  ASSUME MigrationsInv, NEW r \in Runners, NEW pc \in Steps, NEW f \in 1..(LastFile + 1),
         Goes(r, pc, f), UNCHANGED <<init, schema, recorded>>, failures' \in 0..MaxFailures,
         Knows(r)'
  PROVE  MigrationsInv'
<1>1. TypeOK'
  BY Moved DEF MigrationsInv, TypeOK
<1>2. AllOrNothing' /\ RecordedIsComplete' /\ BuiltOnWhole'
  BY DEF MigrationsInv, AllOrNothing, RecordedIsComplete, BuiltOnWhole, Complete, Torn
<1>3. Knowledge'
  <2>1. \A q \in Runners \ {r} : Knows(q)'
    BY Moved, OthersKnow DEF MigrationsInv
  <2> QED
    BY <2>1 DEF Knowledge
<1> QED
  BY <1>1, <1>2, <1>3 DEF MigrationsInv

(* Steps of the runners that change neither the schema nor the records.      *)
LEMMA FailsBounded == ASSUME TypeOK, Fails PROVE failures' \in 0..MaxFailures
BY MigrationsAssumption DEF TypeOK, Fails

LEMMA MovingSteps ==
  ASSUME MigrationsInv, NEW r \in Runners,
         \/ Start(r) \/ ProbeCore(r) \/ Check(r) \/ RunSql(r)
         \/ ConnectTimescale(r) \/ ProbeMeter(r)
  PROVE  MigrationsInv'
<1> USE DEF FirstFile
<1>0. /\ TypeOK /\ Knows(r) /\ LastFile \in Nat \ {0}
      /\ File(r) \in 1..(LastFile + 1) /\ failures \in 0..MaxFailures
  BY MigrationsAssumption DEF MigrationsInv, Knowledge, TypeOK, File
<1>1. CASE Start(r)
  <2>1. Goes(r, "probe", 1) /\ UNCHANGED <<init, schema, recorded, failures>>
    BY <1>1 DEF Start
  <2>2. runner'[r] = [pc |-> "probe", file |-> 1]
    BY <2>1, <1>0, Moved DEF Steps
  <2>3. Knows(r)'
    BY <1>1, <2>1, <2>2 DEF Start, Knows, At, File, InLoop, AtMeter
  <2> QED
    BY <2>1, <2>3, <1>0, OnlyMoved DEF Steps
<1>2. CASE ProbeCore(r)
  <2> DEFINE pc == IF Probe[1] \in schema THEN "record" ELSE "check"
  <2>1. Goes(r, pc, 1) /\ UNCHANGED <<init, schema, recorded, failures>>
    BY <1>2 DEF ProbeCore
  <2>2. runner'[r] = [pc |-> pc, file |-> 1]
    BY <2>1, <1>0, Moved DEF Steps
  <2>3. init[1] # "running"
    BY <1>2, <1>0 DEF ProbeCore, Knows, At
  <2>4. ASSUME Probe[1] \in schema PROVE Complete(1) \/ Torn(1)
    <3>1. Parts(1) \intersect schema # {}
      BY <2>4, MigrationsAssumption DEF Mounted
    <3>2. 1 \in Files /\ 1 \in Mounted
      BY <1>0 DEF Files, Mounted, Meter
    <3>3. Complete(1) \/ init[1] \in {"running", "torn"}
      BY <3>1, <3>2 DEF MigrationsInv, AllOrNothing
    <3> QED
      BY <3>2, <3>3, <2>3 DEF Torn
  <2>5. Knows(r)'
    BY <2>1, <2>2, <2>3, <2>4, <1>0 DEF Knows, At, File, InLoop, AtMeter, Complete, Torn
  <2> QED
    BY <2>1, <2>5, <1>0, OnlyMoved DEF Steps
<1>3. CASE Check(r)
  <2> DEFINE pc == IF File(r) \in recorded THEN "check" ELSE "sql"
  <2> DEFINE f == IF File(r) \in recorded THEN File(r) + 1 ELSE File(r)
  <2>1. /\ Goes(r, pc, f) /\ UNCHANGED <<init, schema, recorded, failures>>
        /\ File(r) <= LastFile /\ At(r, "check")
    BY <1>3 DEF Check
  <2>2. f \in 1..(LastFile + 1) /\ pc \in Steps
    BY <1>0, <2>1 DEF Steps
  <2>3. runner'[r] = [pc |-> pc, file |-> f]
    BY <2>1, <2>2, <1>0, Moved
  <2>4. init[1] # "running" /\ 1..(File(r) - 1) \subseteq recorded
    BY <2>1, <1>0 DEF Knows, At, InLoop
  <2>5. 1..(f - 1) \subseteq recorded
    BY <2>4, <1>0
  <2>6. Knows(r)'
    BY <2>1, <2>3, <2>4, <2>5, <1>0 DEF Knows, At, File, InLoop, AtMeter
  <2> QED
    BY <2>1, <2>2, <2>6, <1>0, OnlyMoved
<1>4. CASE RunSql(r)
  <2>1. /\ Goes(r, "commit", File(r)) /\ UNCHANGED <<init, schema, recorded, failures>>
        /\ At(r, "sql") /\ Needs[File(r)] \subseteq schema
    BY <1>4 DEF RunSql, Applicable
  <2>2. runner'[r] = [pc |-> "commit", file |-> File(r)]
    BY <2>1, <1>0, Moved DEF Steps
  <2>3. Knows(r)'
    BY <2>1, <2>2, <1>0 DEF Knows, At, File, InLoop, AtMeter
  <2> QED
    BY <2>1, <2>3, <1>0, OnlyMoved DEF Steps
<1>5. CASE ConnectTimescale(r)
  <2>1. /\ Goes(r, "tsProbe", File(r)) /\ UNCHANGED <<init, schema, recorded, failures>>
        /\ At(r, "check") /\ File(r) > LastFile /\ init[Meter] # "running"
    BY <1>5 DEF ConnectTimescale
  <2>2. runner'[r] = [pc |-> "tsProbe", file |-> File(r)]
    BY <2>1, <1>0, Moved DEF Steps
  <2>3. Knows(r)'
    BY <2>1, <2>2, <1>0 DEF Knows, At, File, InLoop, AtMeter
  <2> QED
    BY <2>1, <2>3, <1>0, OnlyMoved DEF Steps
<1>6. CASE ProbeMeter(r)
  <2>1. /\ Goes(r, NextForMeter, File(r)) /\ UNCHANGED <<init, schema, recorded, failures>>
        /\ At(r, "tsProbe")
    BY <1>6 DEF ProbeMeter
  <2>2. NextForMeter \in {"done", "tsRecord", "tsSql"}
    BY DEF NextForMeter
  <2>3. runner'[r] = [pc |-> NextForMeter, file |-> File(r)]
    BY <2>1, <2>2, <1>0, Moved DEF Steps
  <2>4. init[Meter] # "running"
    BY <2>1, <1>0 DEF Knows, At, AtMeter
  <2>5. ASSUME NextForMeter = "tsRecord" PROVE Complete(Meter) \/ Torn(Meter)
    <3>1. Probe[Meter] \in schema
      BY <2>5 DEF NextForMeter
    <3>2. Parts(Meter) \intersect schema # {}
      BY <3>1, MigrationsAssumption DEF Mounted
    <3>3. Meter \in Files /\ Meter \in Mounted
      BY <1>0 DEF Files, Mounted, Meter
    <3>4. Complete(Meter) \/ init[Meter] \in {"running", "torn"}
      BY <3>2, <3>3 DEF MigrationsInv, AllOrNothing
    <3> QED
      BY <3>3, <3>4, <2>4 DEF Torn
  <2>6. NextForMeter = "done" => Meter \in recorded
    BY DEF NextForMeter
  <2>7. Knows(r)'
    <3>1. File(r) = LastFile + 1 /\ 1..(File(r) - 1) \subseteq recorded /\ init[1] # "running"
      BY <2>1, <1>0 DEF Knows, At, AtMeter
    <3> QED
      BY <2>1, <2>2, <2>3, <2>4, <2>5, <2>6, <3>1
      DEF Knows, At, File, InLoop, AtMeter, Complete, Torn
  <2> QED
    BY <2>1, <2>2, <2>7, <1>0, OnlyMoved DEF Steps
<1> QED
  BY <1>1, <1>2, <1>3, <1>4, <1>5, <1>6

(* Errors and crashes.                                                       *)
LEMMA EndingSteps ==
  ASSUME MigrationsInv, NEW r \in Runners, SqlError(r) \/ Disconnect(r) \/ Crash(r)
  PROVE  MigrationsInv'
<1>1. /\ Goes(r, "off", 1) /\ UNCHANGED <<init, schema, recorded>>
      /\ Fails \/ UNCHANGED failures
  BY DEF SqlError, Disconnect, Crash, Abort, LeftBehind, FirstFile
<1>2. TypeOK /\ failures' \in 0..MaxFailures /\ 1 \in 1..(LastFile + 1)
  BY <1>1, FailsBounded, MigrationsAssumption DEF MigrationsInv, TypeOK
<1>3. runner'[r] = [pc |-> "off", file |-> 1]
  BY <1>1, <1>2, Moved DEF Steps
<1>4. Knows(r)'
  BY <1>3 DEF Knows, At, InLoop, AtMeter
<1> QED
  BY <1>1, <1>2, <1>4, OnlyMoved DEF Steps
-----------------------------------------------------------------------------
(* Steps that record a file.                                                 *)
LEMMA RecordingSteps ==
  ASSUME MigrationsInv, NEW r \in Runners, RecordCore(r) \/ RecordMeter(r)
  PROVE  MigrationsInv'
<1>0. /\ TypeOK /\ Knows(r) /\ LastFile \in Nat \ {0}
      /\ File(r) \in 1..(LastFile + 1) /\ failures \in 0..MaxFailures
  BY MigrationsAssumption DEF MigrationsInv, Knowledge, TypeOK, File
<1>1. PICK f \in Mounted, pc \in {"check", "done"}, g \in 1..(LastFile + 1) :
        /\ Goes(r, pc, g) /\ recorded' = recorded \cup {f}
        /\ UNCHANGED <<init, schema, failures>>
        /\ Complete(f) \/ Torn(f)
        /\ pc = "check" => g = 1
        /\ pc = "done" => f = Meter /\ g = LastFile + 1 /\ 1..LastFile \subseteq recorded
        /\ init[1] # "running"
  <2>1. CASE RecordCore(r)
    BY <2>1, <1>0 DEF RecordCore, Record, Knows, At, Mounted, FirstFile
  <2>2. CASE RecordMeter(r)
    <3>1. File(r) = LastFile + 1 /\ 1..(File(r) - 1) \subseteq recorded
      BY <2>2, <1>0 DEF RecordMeter, Knows, At, AtMeter
    <3> QED
      BY <2>2, <3>1, <1>0 DEF RecordMeter, Record, Knows, At, Mounted, AtMeter
  <2> QED
    BY <2>1, <2>2
<1>2. runner'[r] = [pc |-> pc, file |-> g] /\ \A q \in Runners \ {r} : runner'[q] = runner[q]
  BY <1>0, <1>1, Moved DEF Steps
<1>3. TypeOK'
  <2>1. f \in Files
    BY <1>0 DEF Files, Mounted, Meter
  <2>2. runner' \in [Runners -> [pc : Steps, file : 1..(LastFile + 1)]]
    BY <1>0, <1>1, Moved DEF Steps
  <2>3. recorded' \subseteq Files
    BY <2>1, <1>0, <1>1 DEF TypeOK
  <2> QED
    BY <2>2, <2>3, <1>0, <1>1 DEF TypeOK
<1>4. AllOrNothing'
  BY <1>1 DEF MigrationsInv, AllOrNothing, Complete
<1>5. RecordedIsComplete'
  BY <1>1 DEF MigrationsInv, RecordedIsComplete, Complete, Torn
<1>6. BuiltOnWhole'
  BY <1>1 DEF MigrationsInv, BuiltOnWhole, Complete
<1>7. Knowledge'
  <2>1. \A q \in Runners \ {r} : Knows(q)'
    BY <1>1, <1>2, OthersKnow DEF MigrationsInv
  <2>2. Knows(r)'
    BY <1>0, <1>1, <1>2 DEF Knows, At, File, InLoop, AtMeter
  <2> QED
    BY <2>1, <2>2 DEF Knowledge
<1> QED
  BY <1>3, <1>4, <1>5, <1>6, <1>7 DEF MigrationsInv
-----------------------------------------------------------------------------
(* Whole files that are committed keep the schema without halves.            *)
LEMMA WholeFile ==
  ASSUME AllOrNothing, NEW f \in Files, schema' = schema \cup Parts(f), UNCHANGED init
  PROVE  AllOrNothing'
<1> SUFFICES ASSUME NEW g \in Files
             PROVE  \/ Parts(g) \subseteq schema' \/ Parts(g) \intersect schema' = {}
                    \/ g \in Mounted /\ init[g] \in {"running", "torn"}
  BY DEF AllOrNothing, Complete
<1>1. f # g => Parts(f) \intersect Parts(g) = {}
  BY MigrationsAssumption
<1> QED
  BY <1>1 DEF AllOrNothing, Complete

LEMMA CommitStep ==
  ASSUME MigrationsInv, NEW r \in Runners, Commit(r)
  PROVE  MigrationsInv'
<1> DEFINE f == File(r)
<1>0. /\ TypeOK /\ Knows(r) /\ LastFile \in Nat \ {0} /\ f \in 1..(LastFile + 1)
  BY MigrationsAssumption DEF MigrationsInv, Knowledge, TypeOK, File
<1>1. /\ At(r, "commit") /\ Goes(r, "check", f + 1) /\ UNCHANGED <<init, failures>>
      /\ schema' = schema \cup Parts(f) /\ recorded' = recorded \cup {f}
  BY DEF Commit, Record
<1>2. /\ f \in 1..LastFile /\ f \in Files /\ f + 1 \in 1..(LastFile + 1)
      /\ 1..(f - 1) \subseteq recorded /\ Needs[f] \subseteq schema /\ init[1] # "running"
  BY <1>0, <1>1 DEF Knows, At, InLoop, Files, Meter
<1>3. runner'[r] = [pc |-> "check", file |-> f + 1]
      /\ \A q \in Runners \ {r} : runner'[q] = runner[q]
  BY <1>0, <1>1, <1>2, Moved DEF Steps
<1>4. TypeOK'
  BY <1>0, <1>1, <1>2, Moved, PartsOfFile DEF TypeOK, Steps
<1>5. AllOrNothing'
  BY <1>1, <1>2, WholeFile DEF MigrationsInv
<1>6. RecordedIsComplete'
  BY <1>1 DEF MigrationsInv, RecordedIsComplete, Complete, Torn
<1>7. BuiltOnWhole'
  <2> SUFFICES ASSUME NEW h \in recorded' \ Mounted, NEW g \in 1..(h - 1)
               PROVE  g \in recorded' /\ Complete(g)'
    BY DEF BuiltOnWhole
  <2>1. CASE h \in recorded
    BY <2>1, <1>1 DEF MigrationsInv, BuiltOnWhole, Complete
  <2>2. CASE h = f
    <3>1. g \in recorded
      BY <2>2, <1>2
    <3>2. CASE g # 1
      <4>1. g \notin Mounted
        BY <3>2 DEF Mounted, Meter
      <4> QED
        BY <3>1, <4>1, <1>1 DEF MigrationsInv, RecordedIsComplete, Torn, Complete
    <3>3. CASE g = 1 /\ f = 2
      BY <3>1, <3>3, <1>0, <1>1, <1>2, MigrationsAssumption DEF Complete
    <3>4. CASE g = 1 /\ f > 2
      <4>1. 2 \in 1..(f - 1) /\ 2 \notin Mounted /\ 1 \in 1..(2 - 1)
        BY <3>4, <1>2 DEF Mounted, Meter
      <4>2. 2 \in recorded
        BY <4>1, <1>2
      <4>3. Complete(1)
        BY <4>1, <4>2 DEF MigrationsInv, BuiltOnWhole
      <4> QED
        BY <3>1, <3>4, <4>3, <1>1 DEF Complete
    <3> QED
      BY <2>2, <3>2, <3>3, <3>4, <1>2
  <2> QED
    BY <2>1, <2>2, <1>1
<1>8. Knowledge'
  <2>1. \A q \in Runners \ {r} : Knows(q)'
    BY <1>1, <1>3, OthersKnow DEF MigrationsInv
  <2>2. 1..((f + 1) - 1) \subseteq recorded'
    BY <1>1, <1>2
  <2>3. Knows(r)'
    BY <1>1, <1>2, <1>3, <2>2 DEF Knows, At, File, InLoop, AtMeter
  <2> QED
    BY <2>1, <2>3 DEF Knowledge
<1> QED
  BY <1>4, <1>5, <1>6, <1>7, <1>8 DEF MigrationsInv

LEMMA MeterStep ==
  ASSUME MigrationsInv, NEW r \in Runners, RunMeterSql(r)
  PROVE  MigrationsInv'
<1>0. /\ TypeOK /\ Knows(r) /\ LastFile \in Nat \ {0} /\ File(r) \in 1..(LastFile + 1)
  BY MigrationsAssumption DEF MigrationsInv, Knowledge, TypeOK, File
<1>1. /\ At(r, "tsSql") /\ Goes(r, "tsMark", File(r)) /\ UNCHANGED <<init, recorded, failures>>
      /\ schema' = schema \cup Parts(Meter)
  BY DEF RunMeterSql
<1>2. /\ Meter \in Files /\ File(r) = LastFile + 1 /\ 1..(File(r) - 1) \subseteq recorded
      /\ init[1] # "running" /\ init[Meter] # "running"
  BY <1>0, <1>1 DEF Knows, At, AtMeter, Files, Meter
<1>3. runner'[r] = [pc |-> "tsMark", file |-> File(r)]
      /\ \A q \in Runners \ {r} : runner'[q] = runner[q]
  BY <1>0, <1>1, Moved DEF Steps
<1>4. TypeOK'
  BY <1>0, <1>1, <1>2, Moved, PartsOfFile DEF TypeOK, Steps
<1>5. AllOrNothing'
  BY <1>1, <1>2, WholeFile DEF MigrationsInv
<1>6. RecordedIsComplete' /\ BuiltOnWhole'
  BY <1>1 DEF MigrationsInv, RecordedIsComplete, BuiltOnWhole, Complete, Torn
<1>7. Knowledge'
  <2>1. \A q \in Runners \ {r} : Knows(q)'
    BY <1>1, <1>3, OthersKnow DEF MigrationsInv
  <2>2. Knows(r)'
    BY <1>1, <1>2, <1>3 DEF Knows, At, File, InLoop, AtMeter, Complete
  <2> QED
    BY <2>1, <2>2 DEF Knowledge
<1> QED
  BY <1>4, <1>5, <1>6, <1>7 DEF MigrationsInv
-----------------------------------------------------------------------------
(* Docker: it keeps the runners out while it works.                          *)
LEMMA StatementStep ==
  ASSUME MigrationsInv, NEW f \in Mounted, InitStatement(f)
  PROVE  MigrationsInv'
<1>0. LastFile \in Nat \ {0} /\ TypeOK
  BY MigrationsAssumption DEF MigrationsInv
<1>1. PICK i \in DOMAIN Script[f] : schema' = schema \cup {Script[f][i]}
  BY DEF InitStatement
<1>2. init[f] = "running" /\ UNCHANGED <<init, recorded, runner, failures>>
  BY DEF InitStatement
<1>3. f \in Files /\ Script[f][i] \in Parts(f)
  <2>1. f \in Files
    BY <1>0 DEF Files, Mounted, Meter
  <2> QED
    BY <2>1, PartsOfFile
<1>4. TypeOK'
  BY <1>0, <1>1, <1>2, <1>3, PartsOfFile DEF TypeOK
<1>5. AllOrNothing'
  <2> SUFFICES ASSUME NEW g \in Files
               PROVE  \/ Parts(g) \subseteq schema' \/ Parts(g) \intersect schema' = {}
                      \/ g \in Mounted /\ init[g] \in {"running", "torn"}
    BY <1>2 DEF AllOrNothing, Complete
  <2>1. f # g => Parts(f) \intersect Parts(g) = {}
    BY <1>3, MigrationsAssumption
  <2> QED
    BY <2>1, <1>1, <1>2, <1>3 DEF MigrationsInv, AllOrNothing, Complete
<1>6. RecordedIsComplete' /\ BuiltOnWhole'
  BY <1>1, <1>2 DEF MigrationsInv, RecordedIsComplete, BuiltOnWhole, Complete, Torn
<1>7. Knowledge'
  <2> SUFFICES ASSUME NEW r \in Runners PROVE Knows(r)'
    BY DEF Knowledge
  <2>1. Knows(r)
    BY DEF MigrationsInv, Knowledge
  <2> QED
    BY <2>1, <1>1, <1>2 DEF Knows, At, File, Complete, Torn
<1> QED
  BY <1>4, <1>5, <1>6, <1>7 DEF MigrationsInv

LEMMA EndOfDocker ==
  ASSUME MigrationsInv, NEW f \in Mounted, InitOver(f) \/ InitInterrupted(f)
  PROVE  MigrationsInv'
<1>1. PICK s \in {"over", "torn"} :
        /\ init' = [init EXCEPT ![f] = s] /\ (s = "over" => Complete(f))
        /\ UNCHANGED <<schema, recorded, runner>> /\ init[f] = "running"
        /\ Fails \/ UNCHANGED failures
  BY DEF InitOver, InitInterrupted
<1>2. TypeOK /\ failures' \in 0..MaxFailures
  BY <1>1, FailsBounded DEF MigrationsInv, TypeOK
<1>3. TypeOK'
  BY <1>1, <1>2 DEF TypeOK
<1>4. \A g \in Mounted : init'[g] = IF g = f THEN s ELSE init[g]
  BY <1>1, <1>2 DEF TypeOK
<1>5. \A g \in Files : Torn(g) => Torn(g)'
  BY <1>1, <1>4 DEF Torn
<1>6. AllOrNothing'
  BY <1>1, <1>4 DEF MigrationsInv, AllOrNothing, Complete
<1>7. RecordedIsComplete' /\ BuiltOnWhole'
  BY <1>1, <1>2, <1>5 DEF MigrationsInv, RecordedIsComplete, BuiltOnWhole, Complete, TypeOK
<1>8. Knowledge'
  <2> SUFFICES ASSUME NEW r \in Runners PROVE Knows(r)'
    BY DEF Knowledge
  <2>1. Knows(r)
    BY DEF MigrationsInv, Knowledge
  <2>2. 1 \in Mounted /\ Meter \in Mounted /\ 1 \in Files /\ Meter \in Files
    BY MigrationsAssumption DEF Mounted, Files, Meter
  <2> QED
    BY <2>1, <2>2, <1>1, <1>4, <1>5 DEF Knows, At, File, Complete
<1> QED
  BY <1>3, <1>6, <1>7, <1>8 DEF MigrationsInv
-----------------------------------------------------------------------------
LEMMA NextInv == MigrationsInv /\ [Next]_vars => MigrationsInv'
<1> SUFFICES ASSUME MigrationsInv, [Next]_vars PROVE MigrationsInv'
  OBVIOUS
<1>1. CASE \E f \in Mounted : Entrypoint(f) \/ InitInterrupted(f)
  BY <1>1, StatementStep, EndOfDocker DEF Entrypoint
<1>2. CASE \E r \in Runners : Step(r) \/ Disconnect(r) \/ Crash(r)
  BY <1>2, MovingSteps, EndingSteps, RecordingSteps, CommitStep, MeterStep DEF Step
<1>3. CASE UNCHANGED vars
  BY <1>3 DEF vars, MigrationsInv, TypeOK, AllOrNothing, RecordedIsComplete, BuiltOnWhole,
              Knowledge, Knows, At, File, Complete, Torn
<1> QED
  BY <1>1, <1>2, <1>3 DEF Next

THEOREM MigrationsSafe == Spec => []MigrationsInv
BY InitInv, NextInv, PTL DEF Spec

(***************************************************************************)
(* Whatever runners are killed, fail or run at once: a recorded file was   *)
(* applied as a whole, unless Docker was interrupted over it.              *)
(***************************************************************************)
THEOREM RecordedFilesAreComplete == Spec => []RecordedIsComplete
<1>1. MigrationsInv => RecordedIsComplete
  BY DEF MigrationsInv
<1> QED
  BY <1>1, MigrationsSafe, PTL

(***************************************************************************)
(* A file is recorded only on top of all the files before it, applied as a *)
(* whole, the one Docker was interrupted over included.                    *)
(***************************************************************************)
THEOREM FilesAreBuiltOnWhole == Spec => []BuiltOnWhole
<1>1. MigrationsInv => BuiltOnWhole
  BY DEF MigrationsInv
<1> QED
  BY <1>1, MigrationsSafe, PTL

(***************************************************************************)
(* No runner leaves half of a file.                                        *)
(***************************************************************************)
THEOREM FilesAreAllOrNothing == Spec => []AllOrNothing
<1>1. MigrationsInv => AllOrNothing
  BY DEF MigrationsInv
<1> QED
  BY <1>1, MigrationsSafe, PTL

(***************************************************************************)
(* A runner that ends without an error has recorded all files.             *)
(***************************************************************************)
THEOREM DoneRunnersMigrated == Spec => []DoneIsMigrated
<1>1. MigrationsInv => DoneIsMigrated
  <2> SUFFICES ASSUME MigrationsInv, NEW r \in Runners, At(r, "done") PROVE recorded = Files
    BY DEF DoneIsMigrated
  <2>1. Knows(r) /\ recorded \subseteq Files /\ LastFile \in Nat
    BY MigrationsAssumption DEF MigrationsInv, Knowledge, TypeOK
  <2>2. Meter \in recorded /\ 1..LastFile \subseteq recorded
    BY <2>1 DEF Knows, At
  <2>3. Files = {Meter} \cup 1..LastFile
    BY <2>1 DEF Files, Meter
  <2> QED
    BY <2>1, <2>2, <2>3
<1> QED
  BY <1>1, MigrationsSafe, PTL
=============================================================================
