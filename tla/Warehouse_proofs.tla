---------------------------- MODULE Warehouse_proofs ----------------------------
(***************************************************************************)
(* What BronzeSilver_proofs shows of bronze and silver holds of the whole  *)
(* job, whose source files are replaced, whose runs are repaired, and      *)
(* which goes on to build gold.                                            *)
(***************************************************************************)
EXTENDS Warehouse, BronzeSilver_proofs

(* A step of the whole job is one of bronze and silver, or one that leaves *)
(* them alone, or replaces files.                                          *)
Earlier(r) == (\E mode \in Modes : Start(r, mode)) \/ IngestTable(r) \/ CleanStep(r)

Later(r) == BuildTable(r) \/ FinishJob(r) \/ FailTask(r) \/ Repair(r)

TablesUnchanged == UNCHANGED <<landing, bronze, loaded, silver, quarantine, dq_results, base>>

(* What an earlier step notes: a layer is missed by the failed runs when   *)
(* it changes, and bronze by nobody once a run has cleaned all of it.      *)
Noted(r) ==
    \A q \in Runs :
        /\ "silver" \notin missed'[q] =>
              "silver" \notin missed[q] /\ (task[q].phase = "failed" => UNCHANGED silver)
        /\ "bronze" \notin missed'[q] =>
              \/ CleanStep(r) /\ task'[r].phase = "cleaned"
              \/ "bronze" \notin missed[q] /\ (task[q].phase = "failed" => UNCHANGED bronze)

LEMMA IngestNotes ==
    ASSUME NEW r \in Runs, Ingest(r)
    PROVE  Noted(r)
  <1>1. UNCHANGED silver
    BY DEF Ingest, IngestTable
  <1>2. PICK layers : /\ layers = IF bronze' = bronze THEN {} ELSE {"bronze"}
                      /\ Note(layers, {})
    BY DEF Ingest
  <1>3. \A q \in Runs :
          missed'[q] = missed[q] \cup (IF task[q].phase = "failed" THEN layers ELSE {})
    BY <1>2 DEF Note
  <1> QED
    BY <1>1, <1>2, <1>3 DEF Noted

LEMMA CleanNotes ==
    ASSUME NEW r \in Runs, CleanTables(r)
    PROVE  Noted(r)
  <1>1. UNCHANGED bronze /\ CleanStep(r)
    BY DEF CleanTables, CleanStep, CountTable, WriteClean, WriteQuarantine, RecordDq
  <1>2. PICK layers, caughtUp : /\ layers = IF silver' = silver THEN {} ELSE {"silver"}
                                /\ caughtUp = IF task'[r].phase = "cleaned" THEN {"bronze"} ELSE {}
                                /\ Note(layers, caughtUp)
    BY DEF CleanTables
  <1>3. \A q \in Runs : missed'[q] =
          (missed[q] \cup (IF task[q].phase = "failed" THEN layers ELSE {})) \ caughtUp
    BY <1>2 DEF Note
  <1> QED
    BY <1>1, <1>2, <1>3 DEF Noted

LEMMA StartNotes ==
    ASSUME NEW r \in Runs, NEW mode \in Modes, Start(r, mode), UNCHANGED goldVars
    PROVE  Noted(r)
  BY DEF Start, goldVars, Noted

LEMMA JobSteps ==
    ASSUME [WNext]_wvars
    PROVE  \/ \E r \in Runs : /\ Earlier(r) /\ Noted(r)
                              /\ UNCHANGED <<gold, stopped, published, seeded>>
           \/ \E r \in Runs : Later(r)
           \/ ReplaceFiles /\ UNCHANGED goldVars
           \/ UNCHANGED wvars
  <1>1. ASSUME NEW r \in Runs, NEW mode \in Modes, Start(r, mode), UNCHANGED goldVars
        PROVE  Earlier(r) /\ Noted(r) /\ UNCHANGED <<gold, stopped, published, seeded>>
    BY <1>1, StartNotes DEF Earlier, goldVars
  <1>2. ASSUME NEW r \in Runs, Ingest(r) \/ CleanTables(r)
        PROVE  Earlier(r) /\ Noted(r) /\ UNCHANGED <<gold, stopped, published, seeded>>
    BY <1>2, IngestNotes, CleanNotes DEF Earlier, Ingest, CleanTables
  <1> QED
    BY <1>1, <1>2 DEF WNext, Later, Rest, wvars

LEMMA EarlierIsNext ==
    ASSUME NEW r \in Runs, Earlier(r)
    PROVE  [Next]_vars
  BY DEF Earlier, Next, JobNext

LEMMA LaterLeavesTables ==
    ASSUME NEW r \in Runs, Later(r)
    PROVE  TablesUnchanged
  BY DEF Later, BuildTable, FinishJob, FailTask, Repair, TablesUnchanged

(* A failed run has noted a task that it can be taken up at.               *)
StoppedKnown ==
    /\ stopped \in [Runs -> DOMAIN TaskStart \cup {"none"}]
    /\ \A r \in Runs : task[r].phase = "failed" => stopped[r] # "none"

TakenUp(t, x) ==
    \/ t = "bronze_ingest" /\ x.phase = "ingest" /\ x.at = 1
    \/ t = "silver_clean" /\ x.phase = "count" /\ x.at = 1
    \/ t = "gold_dims" /\ x.phase = "cleaned" /\ x.at = 1
    \/ t = "gold_facts" /\ x.phase = "cleaned" /\ x.at = 7
    \/ t = "idempotency_check" /\ x.phase = "built"

LEMMA TaskNames ==
    DOMAIN TaskStart = {"bronze_ingest", "silver_clean", "gold_dims", "gold_facts",
                        "idempotency_check"}
  BY DEF TaskStart

LEMMA RepairTakesUp ==
    ASSUME StoppedKnown, NEW r \in Runs, Repair(r)
    PROVE  \E x : /\ DOMAIN x = TaskFields /\ task' = [task EXCEPT ![r] = x]
                  /\ TakenUp(stopped[r], x) /\ (x.phase = "ingest" => x.mode \in Modes)
  <1>1. PICK mode \in IF stopped[r] = "bronze_ingest" THEN Modes ELSE {"none"} :
          task' = [task EXCEPT ![r] = [Idle EXCEPT !.phase = TaskStart[stopped[r]][1],
                                                   !.at = TaskStart[stopped[r]][2],
                                                   !.mode = mode]]
    BY DEF Repair
  <1>2. PICK x : x = [Idle EXCEPT !.phase = TaskStart[stopped[r]][1],
                                  !.at = TaskStart[stopped[r]][2], !.mode = mode]
    OBVIOUS
  <1>3. /\ DOMAIN x = TaskFields /\ x.phase = TaskStart[stopped[r]][1]
        /\ x.at = TaskStart[stopped[r]][2] /\ x.mode = mode
    BY <1>2 DEF Idle, TaskFields
  <1>4. stopped[r] \in {"bronze_ingest", "silver_clean", "gold_dims", "gold_facts",
                        "idempotency_check"}
    BY TaskNames DEF StoppedKnown, Repair
  <1>5. /\ TaskStart["bronze_ingest"] = <<"ingest", 1>>
        /\ TaskStart["silver_clean"] = <<"count", 1>>
        /\ TaskStart["gold_dims"] = <<"cleaned", 1>>
        /\ TaskStart["gold_facts"] = <<"cleaned", 7>>
        /\ TaskStart["idempotency_check"] = <<"built", 1>>
    BY DEF TaskStart, FirstFact
  <1>6. TakenUp(stopped[r], x)
    BY <1>3, <1>4, <1>5 DEF TakenUp
  <1>7. x.phase = "ingest" => x.mode \in Modes
    BY <1>1, <1>3, <1>6 DEF TakenUp
  <1> QED
    BY <1>1, <1>2, <1>3, <1>6, <1>7

(* How a later step moves its run.                                         *)
LaterMove(r, new) ==
    \/ new.phase \in {"failed", "succeeded"}
    \/ task[r].phase = "cleaned" /\ new.phase \in {"cleaned", "built"}
    \/ task[r].phase = "failed" /\ TakenUp(stopped[r], new)
         /\ (new.phase = "ingest" => new.mode \in Modes)

LEMMA LaterMoves ==
    ASSUME LandInv, StoppedKnown, NEW r \in Runs, Later(r)
    PROVE  \E new : /\ DOMAIN new = TaskFields /\ task' = [task EXCEPT ![r] = new]
                    /\ LaterMove(r, new)
  <1>1. DOMAIN task[r] = TaskFields
    BY DEF LandInv, Standing, Located, Writers
  <1>2. CASE BuildTable(r)
    <2>1. CASE task[r].at < Len(GoldTables)
      <3>1. PICK new : new = [task[r] EXCEPT !.at = task[r].at + 1]
        OBVIOUS
      <3>2. task' = [task EXCEPT ![r] = new] /\ task[r].phase = "cleaned"
        BY <1>2, <2>1, <3>1 DEF BuildTable
      <3>3. DOMAIN new = TaskFields /\ new.phase = "cleaned"
        BY <1>1, <3>1, <3>2 DEF TaskFields
      <3> QED
        BY <3>2, <3>3 DEF LaterMove
    <2>2. CASE ~(task[r].at < Len(GoldTables))
      <3>1. PICK new : new = [task[r] EXCEPT !.phase = "built"]
        OBVIOUS
      <3>2. task' = [task EXCEPT ![r] = new] /\ task[r].phase = "cleaned"
        BY <1>2, <2>2, <3>1 DEF BuildTable, GoTo
      <3>3. DOMAIN new = TaskFields /\ new.phase = "built"
        BY <1>1, <3>1 DEF TaskFields
      <3> QED
        BY <3>2, <3>3 DEF LaterMove
    <2> QED
      BY <2>1, <2>2
  <1>3. CASE FinishJob(r)
    <2>1. PICK new : new = [task[r] EXCEPT !.phase = "succeeded"]
      OBVIOUS
    <2>2. task' = [task EXCEPT ![r] = new]
      BY <1>3, <2>1 DEF FinishJob, GoTo
    <2>3. DOMAIN new = TaskFields /\ new.phase = "succeeded"
      BY <1>1, <2>1 DEF TaskFields
    <2> QED
      BY <2>2, <2>3 DEF LaterMove
  <1>4. CASE FailTask(r)
    <2>1. PICK new : new = [Idle EXCEPT !.phase = "failed"]
      OBVIOUS
    <2>2. task' = [task EXCEPT ![r] = new]
      BY <1>4, <2>1 DEF FailTask
    <2>3. DOMAIN new = TaskFields /\ new.phase = "failed"
      BY <2>1 DEF Idle, TaskFields
    <2> QED
      BY <2>2, <2>3 DEF LaterMove
  <1>5. CASE Repair(r)
    BY <1>5, RepairTakesUp DEF Repair, LaterMove
  <1> QED
    BY <1>2, <1>3, <1>4, <1>5 DEF Later

LEMMA LaterLands ==
    ASSUME LandInv, StoppedKnown, NEW r \in Runs, Later(r)
    PROVE  LandInv'
  <1>1. r \in Writers /\ r # Probe /\ landing \in Uploads
    BY ProbeIsNoRun DEF LandInv, Versioned, Writers
  <1>2. UNCHANGED <<landing, bronze, loaded, quarantine, base>>
    BY LaterLeavesTables DEF TablesUnchanged
  <1>3. PICK new : /\ DOMAIN new = TaskFields /\ task' = [task EXCEPT ![r] = new]
                   /\ LaterMove(r, new)
    BY LaterMoves
  <1>4. new.phase \in OnTables => new.at \in DOMAIN Tables
    BY <1>3, TablesAreListed DEF LaterMove, TakenUp, OnTables
  <1>5. DOMAIN quarantine' \subseteq TableNames
    BY <1>2 DEF LandInv, Standing, KnownTables
  <1>6. Standing'
    BY <1>1, <1>3, <1>4, <1>5, TaskMoves DEF LandInv
  <1>7. task'[Probe] = task[Probe]
    BY <1>1, <1>3 DEF LandInv, Standing, Located, Writers
  <1> QED
    BY <1>1, <1>2, <1>6, <1>7, QuietLands

LEMMA ReplaceLands ==
    ASSUME LandInv, ReplaceFiles
    PROVE  LandInv'
  <1>1. UNCHANGED <<bronze, loaded, quarantine, task, base>> /\ landing' \in Uploads
    BY DEF ReplaceFiles
  <1>2. Standing'
    BY <1>1 DEF LandInv, Standing, Located, ProbeHasTable, KnownTables
  <1> QED
    BY <1>1, <1>2, QuietLands

LEMMA JobLands ==
    ASSUME LandInv, StoppedKnown, [WNext]_wvars
    PROVE  LandInv'
  <1>1. ASSUME UNCHANGED wvars PROVE LandInv'
    BY <1>1, NextLands DEF wvars
  <1> QED
    BY <1>1, JobSteps, EarlierIsNext, NextLands, LaterLands, ReplaceLands

(* How an earlier step moves its run: on, and to gold at its first table.  *)
EarlierMove(r, new) ==
    /\ new.phase \in {"ingest", "count", "clean", "quarantine", "record", "cleaned"}
    /\ new.phase = "cleaned" => new.at = 1
    /\ new.phase = "ingest" =>
          \/ new.mode \in Modes
          \/ task[r].phase = "ingest" /\ new.mode = task[r].mode

LEMMA EarlierMoves ==
    ASSUME LandInv, NEW r \in Runs, Earlier(r)
    PROVE  \E new : task' = [task EXCEPT ![r] = new] /\ EarlierMove(r, new)
  <1>1. DOMAIN task[r] = TaskFields /\ r # Probe
    BY ProbeIsNoRun DEF LandInv, Standing, Located, Writers
  <1>2. CASE \E mode \in Modes : Start(r, mode)
    <2>1. PICK mode \in Modes :
            task' = [task EXCEPT ![r] = [Idle EXCEPT !.phase = "ingest", !.mode = mode]]
      BY <1>2 DEF Start
    <2>2. PICK new : new = [Idle EXCEPT !.phase = "ingest", !.mode = mode]
      OBVIOUS
    <2>3. new.phase = "ingest" /\ new.mode = mode
      BY <2>2 DEF Idle
    <2> QED
      BY <2>1, <2>2, <2>3 DEF EarlierMove
  <1>3. CASE IngestTable(r)
    <2>1. CASE task[r].at < Len(Tables)
      <3>1. PICK new : new = [task[r] EXCEPT !.at = task[r].at + 1]
        OBVIOUS
      <3>2. task' = [task EXCEPT ![r] = new] /\ task[r].phase = "ingest"
        BY <1>3, <2>1, <3>1 DEF IngestTable
      <3>3. new.phase = "ingest" /\ new.mode = task[r].mode
        BY <1>1, <3>1, <3>2 DEF TaskFields
      <3> QED
        BY <3>2, <3>3 DEF EarlierMove
    <2>2. CASE ~(task[r].at < Len(Tables))
      <3>1. PICK new : new = [task[r] EXCEPT !.phase = "count", !.at = 1]
        OBVIOUS
      <3>2. new.phase = "count" /\ task' = [task EXCEPT ![r] = new]
        BY <1>1, <1>3, <2>2, <3>1 DEF IngestTable, TaskFields
      <3> QED
        BY <3>2 DEF EarlierMove
    <2> QED
      BY <2>1, <2>2
  <1>4. CASE CountTable(r)
    <2>1. PICK counts : task' = [task EXCEPT ![r].phase = "clean", ![r].counts = counts]
      BY <1>4 DEF CountTable
    <2>2. PICK new : new = [task[r] EXCEPT !.phase = "clean", !.counts = counts]
      OBVIOUS
    <2>3. new.phase = "clean" /\ task' = [task EXCEPT ![r] = new]
      BY <1>1, <2>1, <2>2 DEF TaskFields
    <2> QED
      BY <2>3 DEF EarlierMove
  <1>5. EarlierMove(r, AfterTable(r))
    <2>1. CASE task[r].at < Len(Tables)
      BY <1>1, <2>1 DEF AfterTable, TaskFields, EarlierMove
    <2>2. CASE ~(task[r].at < Len(Tables))
      BY <1>1, <2>2 DEF AfterTable, TaskFields, EarlierMove
    <2> QED
      BY <2>1, <2>2
  <1>6. CASE WriteClean(r)
    <2>1. CASE HasRules(At(r))
      <3>1. PICK new : new = [task[r] EXCEPT !.phase = "quarantine"]
        OBVIOUS
      <3>2. new.phase = "quarantine" /\ task' = [task EXCEPT ![r] = new]
        BY <1>1, <1>6, <2>1, <3>1 DEF WriteClean, TaskFields
      <3> QED
        BY <3>2 DEF EarlierMove
    <2>2. CASE ~HasRules(At(r))
      BY <1>5, <1>6, <2>2 DEF WriteClean
    <2> QED
      BY <2>1, <2>2
  <1>7. CASE WriteQuarantine(r)
    <2>1. PICK new : new = [task[r] EXCEPT !.phase = "record",
                                           !.n_clean = Cardinality(silver[At(r)])]
      OBVIOUS
    <2>2. new.phase = "record" /\ task' = [task EXCEPT ![r] = new]
      BY <1>1, <1>7, <2>1 DEF WriteQuarantine, TaskFields
    <2> QED
      BY <2>2 DEF EarlierMove
  <1>8. CASE RecordDq(r)
    BY <1>5, <1>8 DEF RecordDq
  <1> QED
    BY <1>2, <1>3, <1>4, <1>6, <1>7, <1>8 DEF Earlier, CleanStep

LEMMA TaskTaken ==
    ASSUME NEW r \in Runs, NEW new, task' = [task EXCEPT ![r] = new], LandInv
    PROVE  task'[r] = new /\ \A q \in Runs \ {r} : task'[q] = task[q]
  <1>1. DOMAIN task = Writers
    BY DEF LandInv, Standing, Located
  <1>2. r \in Writers /\ \A q \in Runs : q \in Writers
    BY DEF Writers
  <1>3. ASSUME NEW q \in Runs \ {r} PROVE task'[q] = task[q]
    BY <1>1, <1>2
  <1>4. task'[r] = new
    BY <1>1, <1>2
  <1> QED
    BY <1>3, <1>4

(* A failed run is one that FailTask failed.                               *)
LEMMA NobodyFails ==
    ASSUME LandInv, StoppedKnown, NEW r \in Runs, BuildTable(r) \/ FinishJob(r) \/ Repair(r)
    PROVE  \A q \in Runs : task'[q].phase = "failed" => task[q].phase = "failed"
  <1>1. DOMAIN task[r] = TaskFields
    BY DEF LandInv, Standing, Located, Writers
  <1>2. PICK new : task' = [task EXCEPT ![r] = new] /\ new.phase # "failed"
    <2>1. CASE BuildTable(r)
      <3>1. CASE task[r].at < Len(GoldTables)
        <4>1. PICK new : new = [task[r] EXCEPT !.at = task[r].at + 1]
          OBVIOUS
        <4>2. task' = [task EXCEPT ![r] = new] /\ task[r].phase = "cleaned"
          BY <2>1, <3>1, <4>1 DEF BuildTable
        <4>3. new.phase # "failed"
          BY <1>1, <4>1, <4>2 DEF TaskFields
        <4> QED
          BY <4>2, <4>3
      <3>2. CASE ~(task[r].at < Len(GoldTables))
        <4>1. PICK new : new = [task[r] EXCEPT !.phase = "built"]
          OBVIOUS
        <4>2. task' = [task EXCEPT ![r] = new]
          BY <2>1, <3>2, <4>1 DEF BuildTable, GoTo
        <4>3. new.phase # "failed"
          BY <1>1, <4>1 DEF TaskFields
        <4> QED
          BY <4>2, <4>3
      <3> QED
        BY <3>1, <3>2
    <2>2. CASE FinishJob(r)
      <3>1. PICK new : new = [task[r] EXCEPT !.phase = "succeeded"]
        OBVIOUS
      <3>2. task' = [task EXCEPT ![r] = new]
        BY <2>2, <3>1 DEF FinishJob, GoTo
      <3>3. new.phase # "failed"
        BY <1>1, <3>1 DEF TaskFields
      <3> QED
        BY <3>2, <3>3
    <2>3. CASE Repair(r)
      BY <2>3, RepairTakesUp DEF TakenUp
    <2> QED
      BY <2>1, <2>2, <2>3
  <1> QED
    BY <1>2, TaskTaken

LEMMA StopsKnown ==
    ASSUME LandInv, StoppedKnown, [WNext]_wvars
    PROVE  StoppedKnown'
  <1>1. ASSUME UNCHANGED stopped, \A q \in Runs : task'[q].phase = "failed" => task[q].phase = "failed"
        PROVE  StoppedKnown'
    BY <1>1 DEF StoppedKnown
  <1>2. ASSUME NEW r \in Runs, Earlier(r), UNCHANGED stopped PROVE StoppedKnown'
    <2>1. PICK new : task' = [task EXCEPT ![r] = new] /\ EarlierMove(r, new)
      BY <1>2, EarlierMoves
    <2>2. new.phase # "failed"
      BY <2>1 DEF EarlierMove
    <2> QED
      BY <1>1, <1>2, <2>1, <2>2, TaskTaken
  <1>3. ASSUME NEW r \in Runs, FailTask(r) PROVE StoppedKnown'
    <2>1. PICK t \in TasksAt(r) : stopped' = [stopped EXCEPT ![r] = t]
      BY <1>3 DEF FailTask
    <2>2. t \in DOMAIN TaskStart /\ t # "none"
      BY <2>1, TaskNames DEF TasksAt, StillIn
    <2>3. \A q \in Runs \ {r} : task'[q] = task[q]
      BY <1>3, TaskTaken DEF FailTask
    <2> QED
      BY <2>1, <2>2, <2>3 DEF StoppedKnown
  <1>4. ASSUME NEW r \in Runs, BuildTable(r) \/ FinishJob(r) \/ Repair(r) PROVE StoppedKnown'
    <2>1. UNCHANGED stopped
      BY <1>4 DEF BuildTable, FinishJob, Repair, goldVars
    <2> QED
      BY <1>1, <1>4, <2>1, NobodyFails
  <1>5. ASSUME UNCHANGED <<task, stopped>> PROVE StoppedKnown'
    BY <1>5 DEF StoppedKnown
  <1> QED
    BY <1>2, <1>3, <1>4, <1>5, JobSteps DEF Later, ReplaceFiles, wvars, vars, goldVars

LEMMA InitStops == WInit => StoppedKnown
  BY DEF WInit, Init, Idle, Writers, StoppedKnown

(* SilverStaysClean, whatever files are replaced and whatever gold does.   *)
THEOREM JobKeepsSilverClean == WSpec => []SilverIsClean
  <1>1. WInit => SilverIsClean
    BY DEF WInit, Init, SilverIsClean
  <1>2. ASSUME SilverIsClean, [WNext]_wvars PROVE SilverIsClean'
    <2>1. ASSUME NEW r \in Runs, Earlier(r) PROVE SilverIsClean'
      BY <1>2, <2>1, EarlierIsNext, StepKeepsSilverClean
    <2>2. CASE UNCHANGED silver
      BY <1>2, <2>2 DEF SilverIsClean
    <2> QED
      BY <1>2, <2>1, <2>2, JobSteps, LaterLeavesTables
         DEF ReplaceFiles, TablesUnchanged, wvars, vars
  <1> QED
    BY <1>1, <1>2, PTL DEF WSpec

(* FilesLandOnce when the file under a path is another one later: replaced *)
(* or not, and whichever runs are repaired in whichever mode, it is        *)
(* consumed once in each ingest mode.                                      *)
THEOREM ReplacedFilesLandOnce == WSpec => []EachFileLandsOnce
  <1>1. WInit => LandInv /\ StoppedKnown
    BY InitLands, InitStops DEF WInit
  <1>2. LandInv /\ StoppedKnown /\ [WNext]_wvars => (LandInv /\ StoppedKnown)'
    BY JobLands, StopsKnown
  <1> QED
    BY <1>1, <1>2, LandedOnce, PTL DEF WSpec
-----------------------------------------------------------------------------
(***************************************************************************)
(* Routing.  The probe is not at work, so every bronze table consists of   *)
(* whole landings (BronzeInv), and whatever a run counts or writes comes   *)
(* from an evaluation in which the decided keys have their rows            *)
(* (DedupedRight): not the same evaluation for the counts, the silver      *)
(* table and the quarantine table, but the same verdict on those keys.     *)
(***************************************************************************)
PastIngest == {"count", "clean", "quarantine", "record", "cleaned", "built"}

TablesRight ==
    /\ DOMAIN silver \subseteq TableNames /\ DOMAIN quarantine \subseteq DOMAIN silver
    /\ \A t \in DOMAIN silver :
          \E rows : DedupedRight(t, rows) /\ silver[t] = Clean(t, rows)
    /\ \A t \in DOMAIN quarantine :
          HasRules(t) /\ \E rows : DedupedRight(t, rows) /\ quarantine[t] = Quarantined(t, rows)

(* What a run has behind it, from where it stands.                         *)
Progress(x) ==
    /\ x.phase \in PastIngest \cup {"idle", "ingest", "succeeded", "failed"}
    /\ x.phase = "ingest" => \A i \in DOMAIN Tables : i < x.at => loaded[Tables[i]] # {}
    /\ x.phase \in PastIngest => \A t \in TableNames : loaded[t] # {}
    /\ x.phase \in {"clean", "quarantine", "record"} =>
          \E rows : /\ DedupedRight(Tables[x.at], rows)
                    /\ x.counts = CountFailures(Tables[x.at], rows)
    /\ x.phase \in {"quarantine", "record"} =>
          Tables[x.at] \in DOMAIN silver /\ HasRules(Tables[x.at])
    /\ x.phase = "record" =>
          /\ Tables[x.at] \in DOMAIN quarantine
          /\ \E rows : /\ DedupedRight(Tables[x.at], rows)
                       /\ x.n_clean = Cardinality(Clean(Tables[x.at], rows))
    /\ x.phase \in {"count", "clean", "quarantine", "record"} =>
          \A i \in DOMAIN Tables : i < x.at => Tables[i] \in DOMAIN silver
    /\ x.phase \in {"cleaned", "built"} => TableNames \subseteq DOMAIN silver

RouteInv == BronzeInv /\ TablesRight /\ \A r \in Runs : Progress(task[r])

(* And what a failed one has behind it, which it will not do again.        *)
Behind(t) ==
    /\ t \in {"silver_clean", "gold_dims", "gold_facts", "idempotency_check"} =>
          \A u \in TableNames : loaded[u] # {}
    /\ t \in {"gold_dims", "gold_facts", "idempotency_check"} => TableNames \subseteq DOMAIN silver

ResumeInv == \A r \in Runs : task[r].phase = "failed" => Behind(stopped[r])

LEMMA StaysBehind ==
    ASSUME Grows, NEW x, Progress(x)
    PROVE  Progress(x)'
  <1>1. \A i \in DOMAIN Tables : Tables[i] \in TableNames
    BY DEF TableNames
  <1>2. \A t \in TableNames : loaded[t] # {} => loaded'[t] # {}
    BY DEF Grows
  <1> QED
    BY <1>1, <1>2 DEF Progress, Grows

LEMMA RunProgresses ==
    ASSUME LandInv, RouteInv, Grows, NEW r \in Runs, NEW new,
           task' = [task EXCEPT ![r] = new], Progress(new)'
    PROVE  (\A q \in Runs : Progress(task[q]))'
  <1> SUFFICES ASSUME NEW q \in Runs PROVE Progress(task[q])'
    OBVIOUS
  <1>1. task'[r] = new /\ (q # r => task'[q] = task[q])
    BY DEF LandInv, Standing, Located, Writers
  <1>2. Progress(task[q])
    BY DEF RouteInv
  <1>3. CASE q = r
    BY <1>1, <1>3 DEF Progress
  <1>4. CASE q # r
    <2>1. PICK x : x = task[q]
      OBVIOUS
    <2>2. Progress(x)'
      BY <1>2, <2>1, StaysBehind
    <2> QED
      BY <1>1, <1>4, <2>1, <2>2 DEF Progress
  <1> QED
    BY <1>3, <1>4

(* A landing is a whole file under a new time.                             *)
LEMMA LandingIsWhole ==
    ASSUME LandInv, BronzeInv, NEW t \in TableNames,
           bronze' = [bronze EXCEPT ![t] = Append(@, Now(t) \cup Landed(t))],
           UNCHANGED landing
    PROVE  WholeFiles' /\ Now(t)' = Now(t) \cup Landed(t)
           /\ \A u \in TableNames : u # t => Now(u)' = Now(u)
  <1> DEFINE rows == Now(t) \cup Landed(t)
  <1>0. PICK time : time = Len(bronze[t])
    OBVIOUS
  <1>1. time \in Nat /\ Now(t) \in SUBSET BronzeRow /\ landing \in Uploads
    BY <1>0, CurrentVersion DEF LandInv, Versioned
  <1>2. rows \in SUBSET BronzeRow
    <2>1. landing[t] \subseteq SourceRow
      BY <1>1, LandedRowsAreSource
    <2>2. Landed(t) \subseteq BronzeRow
      BY <1>1, <2>1 DEF Landed, BronzeRow
    <2> QED
      BY <1>1, <2>2
  <1>3. /\ \A u \in TableNames : u # t => bronze'[u] = bronze[u]
        /\ DOMAIN bronze'[t] = 1 .. time + 1
        /\ bronze'[t][time + 1] = rows
        /\ bronze'[t] \in Seq(SUBSET BronzeRow)
    <2> HIDE DEF rows
    <2>1. bronze' = [bronze EXCEPT ![t] = Append(@, rows)]
      BY DEF rows
    <2>2. Versioned'
      BY <1>2, <2>1, Commit DEF LandInv
    <2> QED
      BY <1>0, <1>2, <2>1, <2>2, Commit DEF LandInv, Versioned
  <1>4. Len(bronze'[t]) = time + 1
    BY <1>1, <1>3
  <1>5. Now(t)' = rows
    BY <1>3, <1>4 DEF Now
  <1>6. \A u \in TableNames : u # t => Now(u)' = Now(u)
    BY <1>3 DEF Now
  <1>7. \A x \in Now(t) : x.ingest_ts < time
    BY <1>0 DEF BronzeInv, WholeFiles
  <1>8. \A x \in Landed(t) : x.ingest_ts = time
    BY <1>0 DEF Landed
  <1>9. Batch(t, time)' = landing[t]
    <2>1. {x \in rows : x.ingest_ts = time} = Landed(t)
      BY <1>1, <1>7, <1>8
    <2>2. /\ \A q \in landing[t] : \E x \in Landed(t) : x.src = q
          /\ \A x \in Landed(t) : x.src \in landing[t]
      <3>1. ASSUME NEW q \in landing[t] PROVE \E x \in Landed(t) : x.src = q
        <4>1. PICK x : x = [src |-> q, ingest_ts |-> Len(bronze[t])]
          OBVIOUS
        <4>2. x \in Landed(t) /\ x.src = q
          BY <4>1 DEF Landed
        <4> QED
          BY <4>2
      <3>2. \A x \in Landed(t) : x.src \in landing[t]
        BY DEF Landed
      <3> QED
        BY <3>1, <3>2
    <2>3. Batch(t, time)' = {x.src : x \in {y \in rows : y.ingest_ts = time}}
      BY <1>5 DEF Batch
    <2> QED
      BY <2>1, <2>2, <2>3
  <1>10. ASSUME NEW x \in Now(t) PROVE Batch(t, x.ingest_ts)' = Batch(t, x.ingest_ts)
    <2>1. x.ingest_ts # time
      BY <1>1, <1>7
    <2>2. {y \in rows : y.ingest_ts = x.ingest_ts} = {y \in Now(t) : y.ingest_ts = x.ingest_ts}
      BY <1>8, <2>1
    <2> QED
      BY <1>5, <2>2 DEF Batch
  <1>11. ASSUME NEW u \in TableNames, NEW x \in Now(u)'
         PROVE  /\ x.ingest_ts < Len(bronze'[u])
                /\ \E f \in Uploads : Batch(u, x.ingest_ts)' = f[u]
    <2>1. CASE u # t
      <3>1. Now(u)' = Now(u) /\ Len(bronze'[u]) = Len(bronze[u])
        BY <1>3, <1>6, <2>1
      <3>2. Batch(u, x.ingest_ts)' = Batch(u, x.ingest_ts)
        BY <3>1 DEF Batch
      <3> QED
        BY <1>11, <3>1, <3>2 DEF BronzeInv, WholeFiles
    <2>2. CASE u = t /\ x \in Now(t)
      <3>1. x.ingest_ts < time /\ x.ingest_ts \in Nat
        BY <1>1, <1>7, <2>2 DEF BronzeRow
      <3> QED
        BY <1>0, <1>1, <1>4, <1>10, <2>2, <3>1 DEF BronzeInv, WholeFiles
    <2>3. CASE u = t /\ x \in Landed(t)
      BY <1>1, <1>4, <1>8, <1>9, <2>3
    <2> QED
      BY <1>5, <1>11, <2>1, <2>2, <2>3
  <1> QED
    BY <1>5, <1>6, <1>11 DEF WholeFiles

LEMMA IngestRoutes ==
    ASSUME LandInv, RouteInv, NEW r \in Runs, IngestTable(r)
    PROVE  RouteInv'
  <1>1. /\ r \in Writers /\ DOMAIN task[r] = TaskFields /\ task[r].phase = "ingest"
        /\ task[r].at \in DOMAIN Tables
    BY DEF IngestTable, LandInv, Standing, Located, Writers, OnTables
  <1>2. PICK t \in TableNames : t = Tables[task[r].at]
    BY <1>1 DEF TableNames
  <1>3. UNCHANGED <<landing, silver, quarantine>>
    BY DEF IngestTable
  <1>4. /\ BronzeInv' /\ loaded'[t] # {}
        /\ \A u \in TableNames : loaded[u] \subseteq loaded'[u]
    <2>1. CASE Consumed(t, task[r].mode)
      <3>1. UNCHANGED <<bronze, loaded>>
        BY <1>2, <2>1 DEF IngestTable
      <3> QED
        BY <2>1, <3>1 DEF Consumed, RouteInv, BronzeInv, WholeFiles, LoadedMeansLanded, Now, Batch
    <2>2. CASE ~Consumed(t, task[r].mode)
      <3>1. /\ bronze' = [bronze EXCEPT ![t] = Append(@, Now(t) \cup Landed(t))]
            /\ loaded' = [loaded EXCEPT ![t] = @ \cup {task[r].mode}]
        BY <1>2, <2>2 DEF IngestTable
      <3>2. /\ WholeFiles' /\ Now(t)' = Now(t) \cup Landed(t)
            /\ \A u \in TableNames : u # t => Now(u)' = Now(u)
        BY <1>3, <3>1, LandingIsWhole DEF RouteInv
      <3>3. /\ loaded'[t] = loaded[t] \cup {task[r].mode}
            /\ \A u \in TableNames : u # t => loaded'[u] = loaded[u]
        BY <3>1 DEF LandInv, VersionsFitLoads
      <3>4. landing[t] # {} => Landed(t) # {}
        BY DEF Landed
      <3>5. landing \in Uploads
        BY DEF LandInv, Versioned
      <3>6. LoadedMeansLanded'
        <4> SUFFICES ASSUME NEW u \in TableNames, loaded'[u] # {}
                     PROVE  Now(u)' # {} \/ \E f \in Uploads : f[u] = {}
          BY DEF LoadedMeansLanded
        <4>1. CASE u = t
          BY <3>2, <3>4, <3>5, <4>1
        <4>2. CASE u # t
          BY <3>2, <3>3, <4>2 DEF RouteInv, BronzeInv, LoadedMeansLanded
        <4> QED
          BY <4>1, <4>2
      <3> QED
        BY <3>2, <3>3, <3>6 DEF BronzeInv
    <2> QED
      BY <2>1, <2>2
  <1>5. Grows
    BY <1>3, <1>4 DEF Grows
  <1>6. \A i \in DOMAIN Tables : i < task[r].at \/ i = task[r].at => loaded'[Tables[i]] # {}
    <2>1. \A i \in DOMAIN Tables : Tables[i] \in TableNames
      BY DEF TableNames
    <2>2. \A i \in DOMAIN Tables : i < task[r].at => loaded[Tables[i]] # {}
      BY <1>1 DEF RouteInv, Progress
    <2> QED
      BY <1>2, <1>4, <2>1, <2>2
  <1>7. (\A q \in Runs : Progress(task[q]))'
    <2>1. CASE task[r].at < Len(Tables)
      <3> DEFINE new == [task[r] EXCEPT !.at = task[r].at + 1]
      <3>1. new.phase = "ingest" /\ new.at = task[r].at + 1 /\ task' = [task EXCEPT ![r] = new]
        BY <1>1, <2>1 DEF IngestTable, TaskFields
      <3> HIDE DEF new
      <3>2. \A i \in DOMAIN Tables : i < new.at => loaded'[Tables[i]] # {}
        BY <1>1, <1>6, <3>1, TablesAreListed
      <3>3. PICK x : x = new
        OBVIOUS
      <3>4. Progress(x)'
        BY <3>1, <3>2, <3>3 DEF Progress, PastIngest
      <3> QED
        BY <1>5, <3>1, <3>3, <3>4, RunProgresses
    <2>2. CASE ~(task[r].at < Len(Tables))
      <3> DEFINE new == [task[r] EXCEPT !.phase = "count", !.at = 1]
      <3>1. new.phase = "count" /\ new.at = 1 /\ task' = [task EXCEPT ![r] = new]
        BY <1>1, <2>2 DEF IngestTable, TaskFields
      <3> HIDE DEF new
      <3>2. \A i \in DOMAIN Tables : i < task[r].at \/ i = task[r].at
        BY <1>1, <2>2, TablesAreListed
      <3>3. \A u \in TableNames : loaded'[u] # {}
        BY <1>6, <3>2 DEF TableNames
      <3>4. PICK x : x = new
        OBVIOUS
      <3>5. ~\E i \in DOMAIN Tables : i < 1
        BY TablesAreListed
      <3>6. Progress(x)'
        BY <3>1, <3>3, <3>4, <3>5 DEF Progress, PastIngest
      <3> QED
        BY <1>5, <3>1, <3>4, <3>6, RunProgresses
    <2> QED
      BY <2>1, <2>2
  <1>8. TablesRight'
    BY <1>3 DEF RouteInv, TablesRight
  <1> QED
    BY <1>4, <1>7, <1>8 DEF RouteInv

LEMMA BronzeStays ==
    ASSUME BronzeInv, UNCHANGED <<bronze, loaded>>
    PROVE  BronzeInv'
  BY DEF BronzeInv, WholeFiles, LoadedMeansLanded, Now, Batch

LEMMA RunStands ==
    ASSUME LandInv, RouteInv, NEW r \in Runs,
           task[r].phase \in {"count", "clean", "quarantine", "record"}
    PROVE  /\ At(r) = Tables[task[r].at] /\ At(r) \in TableNames /\ loaded[At(r)] # {}
           /\ DOMAIN task[r] = TaskFields /\ Versioned /\ BronzeInv
           /\ \A t \in TableNames : loaded[t] # {}
  <1>1. /\ r \in Writers /\ r # Probe /\ task[r].at \in DOMAIN Tables
        /\ DOMAIN task[r] = TaskFields
    BY ProbeIsNoRun DEF LandInv, Standing, Located, Writers, OnTables
  <1>2. At(r) = Tables[task[r].at] /\ At(r) \in TableNames
    BY <1>1 DEF At, TableNames
  <1>3. \A t \in TableNames : loaded[t] # {}
    BY DEF RouteInv, Progress, PastIngest
  <1> QED
    BY <1>1, <1>2, <1>3 DEF LandInv, RouteInv

LEMMA CountRoutes ==
    ASSUME LandInv, RouteInv, NEW r \in Runs, CountTable(r)
    PROVE  RouteInv'
  <1>1. task[r].phase = "count" /\ UNCHANGED <<bronze, loaded, silver, quarantine>>
    BY DEF CountTable
  <1>2. PICK rows \in Deduped(At(r)) :
          task' = [task EXCEPT ![r].phase = "clean", ![r].counts = CountFailures(At(r), rows)]
    BY DEF CountTable
  <1>3. /\ At(r) = Tables[task[r].at] /\ At(r) \in TableNames /\ loaded[At(r)] # {}
        /\ DOMAIN task[r] = TaskFields /\ Versioned /\ BronzeInv
        /\ \A t \in TableNames : loaded[t] # {}
    BY <1>1, RunStands
  <1>4. DedupedRight(At(r), rows)
    BY <1>3, DedupedIsRight
  <1>5. Grows
    BY <1>1 DEF Grows
  <1> DEFINE new == [task[r] EXCEPT !.phase = "clean", !.counts = CountFailures(At(r), rows)]
  <1>6. /\ new.phase = "clean" /\ new.at = task[r].at
        /\ new.counts = CountFailures(Tables[task[r].at], rows)
        /\ task' = [task EXCEPT ![r] = new]
    BY <1>2, <1>3 DEF TaskFields
  <1> HIDE DEF new
  <1>7. PICK x : x = new
    OBVIOUS
  <1>8. /\ DedupedRight(Tables[x.at], rows) /\ x.counts = CountFailures(Tables[x.at], rows)
        /\ \A i \in DOMAIN Tables : i < x.at => Tables[i] \in DOMAIN silver'
    BY <1>1, <1>3, <1>4, <1>6, <1>7 DEF RouteInv, Progress
  <1>9. Progress(x)'
    BY <1>1, <1>3, <1>6, <1>7, <1>8 DEF Progress, PastIngest
  <1>10. (\A q \in Runs : Progress(task[q]))'
    BY <1>5, <1>6, <1>7, <1>9, RunProgresses
  <1>11. TablesRight'
    BY <1>1 DEF RouteInv, TablesRight
  <1> QED
    BY <1>1, <1>3, <1>10, <1>11, BronzeStays DEF RouteInv

LEMMA AfterTableProgresses ==
    ASSUME LandInv, RouteInv, NEW r \in Runs, Grows, \A t \in TableNames : loaded[t] # {},
           task[r].phase \in {"clean", "record"}, At(r) \in DOMAIN silver',
           task' = [task EXCEPT ![r] = AfterTable(r)]
    PROVE  (\A q \in Runs : Progress(task[q]))'
  <1>1. /\ r \in Writers /\ r # Probe /\ DOMAIN task[r] = TaskFields
        /\ task[r].at \in DOMAIN Tables
    BY ProbeIsNoRun DEF LandInv, Standing, Located, Writers, OnTables
  <1>2. \A i \in DOMAIN Tables : i < task[r].at \/ i = task[r].at => Tables[i] \in DOMAIN silver'
    BY <1>1 DEF At, RouteInv, Progress, Grows
  <1>3. \A t \in TableNames : loaded'[t] # {}
    BY DEF Grows
  <1>4. PICK x : x = AfterTable(r)
    OBVIOUS
  <1>5. CASE task[r].at < Len(Tables)
    <2>1. x.phase = "count" /\ x.at = task[r].at + 1
      BY <1>1, <1>4, <1>5 DEF AfterTable, TaskFields
    <2>2. \A i \in DOMAIN Tables : i < x.at => i < task[r].at \/ i = task[r].at
      BY <1>1, <2>1, TablesAreListed
    <2>3. Progress(x)'
      BY <1>2, <1>3, <2>1, <2>2 DEF Progress, PastIngest
    <2> QED
      BY <1>4, <2>3, RunProgresses
  <1>6. CASE ~(task[r].at < Len(Tables))
    <2>1. x.phase = "cleaned"
      BY <1>1, <1>4, <1>6 DEF AfterTable, TaskFields
    <2>2. \A i \in DOMAIN Tables : i < task[r].at \/ i = task[r].at
      BY <1>1, <1>6, TablesAreListed
    <2>3. TableNames \subseteq DOMAIN silver'
      BY <1>2, <2>2 DEF TableNames
    <2>4. Progress(x)'
      BY <1>3, <2>1, <2>3 DEF Progress, PastIngest
    <2> QED
      BY <1>4, <2>4, RunProgresses
  <1> QED
    BY <1>5, <1>6

LEMMA SilverWritten ==
    ASSUME TablesRight, NEW t \in TableNames, NEW rows, DedupedRight(t, rows),
           silver' = Overwritten(silver, t, Clean(t, rows)), UNCHANGED quarantine
    PROVE  TablesRight' /\ t \in DOMAIN silver' /\ DOMAIN silver \subseteq DOMAIN silver'
  <1>1. /\ DOMAIN silver' = {t} \cup DOMAIN silver
        /\ silver'[t] = Clean(t, rows)
        /\ \A u \in DOMAIN silver : u # t => silver'[u] = silver[u]
    BY DEF Overwritten
  <1>2. \A u \in DOMAIN silver' :
          \E some : DedupedRight(u, some) /\ silver'[u] = Clean(u, some)
    BY <1>1 DEF TablesRight
  <1> QED
    BY <1>1, <1>2 DEF TablesRight

LEMMA QuarantineWritten ==
    ASSUME TablesRight, NEW t \in DOMAIN silver, HasRules(t), NEW rows, DedupedRight(t, rows),
           quarantine' = Overwritten(quarantine, t, Quarantined(t, rows)), UNCHANGED silver
    PROVE  /\ TablesRight'
           /\ t \in DOMAIN quarantine' /\ DOMAIN quarantine \subseteq DOMAIN quarantine'
  <1>1. /\ DOMAIN quarantine' = {t} \cup DOMAIN quarantine
        /\ quarantine'[t] = Quarantined(t, rows)
        /\ \A u \in DOMAIN quarantine : u # t => quarantine'[u] = quarantine[u]
    BY DEF Overwritten
  <1>2. \A u \in DOMAIN quarantine' : HasRules(u)
          /\ \E some : DedupedRight(u, some) /\ quarantine'[u] = Quarantined(u, some)
    BY <1>1 DEF TablesRight
  <1> QED
    BY <1>1, <1>2 DEF TablesRight

LEMMA CleanRoutes ==
    ASSUME LandInv, RouteInv, NEW r \in Runs, WriteClean(r)
    PROVE  RouteInv'
  <1>1. task[r].phase = "clean" /\ UNCHANGED <<bronze, loaded, quarantine>>
    BY DEF WriteClean
  <1>2. PICK rows \in Deduped(At(r)) : silver' = Overwritten(silver, At(r), Clean(At(r), rows))
    BY DEF WriteClean
  <1>3. /\ At(r) = Tables[task[r].at] /\ At(r) \in TableNames /\ loaded[At(r)] # {}
        /\ DOMAIN task[r] = TaskFields /\ Versioned /\ BronzeInv
        /\ \A t \in TableNames : loaded[t] # {}
    BY <1>1, RunStands
  <1>4. DedupedRight(At(r), rows)
    BY <1>3, DedupedIsRight
  <1>5. TablesRight' /\ At(r) \in DOMAIN silver' /\ DOMAIN silver \subseteq DOMAIN silver'
    BY <1>1, <1>2, <1>3, <1>4, SilverWritten DEF RouteInv
  <1>6. Grows
    BY <1>1, <1>5 DEF Grows
  <1>7. (\A q \in Runs : Progress(task[q]))'
    <2>1. CASE HasRules(At(r))
      <3> DEFINE new == [task[r] EXCEPT !.phase = "quarantine"]
      <3>1. /\ new.phase = "quarantine" /\ new.at = task[r].at /\ new.counts = task[r].counts
            /\ task' = [task EXCEPT ![r] = new]
        BY <1>3, <2>1 DEF WriteClean, TaskFields
      <3> HIDE DEF new
      <3>2. PICK x : x = new
        OBVIOUS
      <3>3. \E some : /\ DedupedRight(Tables[x.at], some)
                      /\ x.counts = CountFailures(Tables[x.at], some)
        BY <1>1, <3>1, <3>2 DEF RouteInv, Progress
      <3>4. /\ Tables[x.at] \in DOMAIN silver' /\ HasRules(Tables[x.at])
            /\ \A i \in DOMAIN Tables : i < x.at => Tables[i] \in DOMAIN silver'
        BY <1>1, <1>3, <1>5, <2>1, <3>1, <3>2 DEF RouteInv, Progress
      <3>5. Progress(x)'
        BY <1>1, <1>3, <3>1, <3>2, <3>3, <3>4 DEF Progress, PastIngest
      <3> QED
        BY <1>6, <3>1, <3>2, <3>5, RunProgresses
    <2>2. CASE ~HasRules(At(r))
      BY <1>1, <1>3, <1>5, <1>6, <2>2, AfterTableProgresses DEF WriteClean
    <2> QED
      BY <2>1, <2>2
  <1> QED
    BY <1>1, <1>3, <1>5, <1>7, BronzeStays DEF RouteInv

LEMMA QuarantineRoutes ==
    ASSUME LandInv, RouteInv, NEW r \in Runs, WriteQuarantine(r)
    PROVE  RouteInv'
  <1>1. task[r].phase = "quarantine" /\ UNCHANGED <<bronze, loaded, silver>>
    BY DEF WriteQuarantine
  <1>2. PICK rows \in Deduped(At(r)) :
          quarantine' = Overwritten(quarantine, At(r), Quarantined(At(r), rows))
    BY DEF WriteQuarantine
  <1>3. /\ At(r) = Tables[task[r].at] /\ At(r) \in TableNames /\ loaded[At(r)] # {}
        /\ DOMAIN task[r] = TaskFields /\ Versioned /\ BronzeInv
        /\ \A t \in TableNames : loaded[t] # {}
    BY <1>1, RunStands
  <1>4. DedupedRight(At(r), rows)
    BY <1>3, DedupedIsRight
  <1>5. At(r) \in DOMAIN silver /\ HasRules(At(r))
    BY <1>1, <1>3 DEF RouteInv, Progress
  <1>6. /\ TablesRight' /\ At(r) \in DOMAIN quarantine'
        /\ DOMAIN quarantine \subseteq DOMAIN quarantine'
    BY <1>1, <1>2, <1>4, <1>5, QuarantineWritten DEF RouteInv
  <1>7. Grows
    BY <1>1, <1>6 DEF Grows
  <1> DEFINE new == [task[r] EXCEPT !.phase = "record", !.n_clean = Cardinality(silver[At(r)])]
  <1>8. /\ new.phase = "record" /\ new.at = task[r].at /\ new.counts = task[r].counts
        /\ new.n_clean = Cardinality(silver[At(r)])
        /\ task' = [task EXCEPT ![r] = new]
    BY <1>3 DEF WriteQuarantine, TaskFields
  <1> HIDE DEF new
  <1>9. PICK x : x = new
    OBVIOUS
  <1>10. \E some : /\ DedupedRight(Tables[x.at], some)
                   /\ x.counts = CountFailures(Tables[x.at], some)
    BY <1>1, <1>8, <1>9 DEF RouteInv, Progress
  <1>11. \E some : /\ DedupedRight(Tables[x.at], some)
                   /\ x.n_clean = Cardinality(Clean(Tables[x.at], some))
    BY <1>3, <1>5, <1>8, <1>9 DEF RouteInv, TablesRight
  <1>12. /\ Tables[x.at] \in DOMAIN silver' /\ HasRules(Tables[x.at])
         /\ Tables[x.at] \in DOMAIN quarantine'
         /\ \A i \in DOMAIN Tables : i < x.at => Tables[i] \in DOMAIN silver'
    BY <1>1, <1>3, <1>5, <1>6, <1>8, <1>9 DEF RouteInv, Progress
  <1>13. Progress(x)'
    BY <1>1, <1>3, <1>8, <1>9, <1>10, <1>11, <1>12 DEF Progress, PastIngest
  <1>14. (\A q \in Runs : Progress(task[q]))'
    BY <1>7, <1>8, <1>9, <1>13, RunProgresses
  <1> QED
    BY <1>1, <1>3, <1>6, <1>14, BronzeStays DEF RouteInv

(* Steps that leave the tables alone.                                      *)
LEMMA TablesStay ==
    ASSUME RouteInv, UNCHANGED <<bronze, loaded, silver, quarantine>>
    PROVE  BronzeInv' /\ TablesRight' /\ Grows
  BY BronzeStays DEF RouteInv, TablesRight, Grows

LEMMA RecordRoutes ==
    ASSUME LandInv, RouteInv, NEW r \in Runs, RecordDq(r)
    PROVE  RouteInv'
  <1>1. task[r].phase = "record" /\ UNCHANGED <<bronze, loaded, silver, quarantine>>
    BY DEF RecordDq
  <1>2. \A t \in TableNames : loaded[t] # {}
    BY <1>1, RunStands
  <1>3. BronzeInv' /\ TablesRight' /\ Grows
    BY <1>1, TablesStay
  <1>4. At(r) \in DOMAIN silver'
    BY <1>1, RunStands DEF RouteInv, Progress
  <1>5. (\A q \in Runs : Progress(task[q]))'
    BY <1>1, <1>2, <1>3, <1>4, AfterTableProgresses DEF RecordDq
  <1> QED
    BY <1>3, <1>5 DEF RouteInv

LEMMA StartRoutes ==
    ASSUME LandInv, RouteInv, NEW r \in Runs, NEW mode \in Modes, Start(r, mode)
    PROVE  RouteInv'
  <1>1. UNCHANGED <<bronze, loaded, silver, quarantine>>
    BY DEF Start
  <1>2. PICK x : x = [Idle EXCEPT !.phase = "ingest", !.mode = mode]
    OBVIOUS
  <1>3. x.phase = "ingest" /\ x.at = 1 /\ task' = [task EXCEPT ![r] = x]
    BY <1>2 DEF Start, Idle
  <1>4. ~\E i \in DOMAIN Tables : i < 1
    BY TablesAreListed
  <1>5. Progress(x)'
    BY <1>3, <1>4 DEF Progress, PastIngest
  <1>6. BronzeInv' /\ TablesRight' /\ Grows
    BY <1>1, TablesStay
  <1> QED
    BY <1>3, <1>5, <1>6, RunProgresses DEF RouteInv

LEMMA LaterRoutes ==
    ASSUME LandInv, StoppedKnown, RouteInv, ResumeInv, NEW r \in Runs, Later(r)
    PROVE  RouteInv'
  <1>1. UNCHANGED <<bronze, loaded, silver, quarantine>>
    BY LaterLeavesTables DEF TablesUnchanged
  <1>2. BronzeInv' /\ TablesRight' /\ Grows
    BY <1>1, TablesStay
  <1>3. PICK x : task' = [task EXCEPT ![r] = x] /\ LaterMove(r, x)
    BY LaterMoves
  <1>4. x.phase \in PastIngest => \A t \in TableNames : loaded'[t] # {}
    BY <1>1, <1>3 DEF LaterMove, TakenUp, RouteInv, Progress, ResumeInv, Behind, PastIngest
  <1>5. x.phase \in {"cleaned", "built"} => TableNames \subseteq DOMAIN silver'
    BY <1>1, <1>3 DEF LaterMove, TakenUp, RouteInv, Progress, ResumeInv, Behind
  <1>6. /\ x.phase \in {"failed", "succeeded", "cleaned", "built", "ingest", "count"}
        /\ x.phase \in {"ingest", "count"} => x.at = 1
    BY <1>3 DEF LaterMove, TakenUp
  <1>7. ~\E i \in DOMAIN Tables : i < 1
    BY TablesAreListed
  <1>8. Progress(x)'
    BY <1>4, <1>5, <1>6, <1>7 DEF Progress, PastIngest
  <1> QED
    BY <1>2, <1>3, <1>8, RunProgresses DEF RouteInv

LEMMA JobRoutes ==
    ASSUME LandInv, StoppedKnown, RouteInv, ResumeInv, [WNext]_wvars
    PROVE  RouteInv'
  <1>1. ASSUME NEW r \in Runs, Earlier(r) PROVE RouteInv'
    BY <1>1, StartRoutes, IngestRoutes, CountRoutes, CleanRoutes, QuarantineRoutes, RecordRoutes
       DEF Earlier, CleanStep
  <1>2. ASSUME NEW r \in Runs, Later(r) PROVE RouteInv'
    BY <1>2, LaterRoutes
  <1>3. ASSUME UNCHANGED <<bronze, loaded, silver, quarantine, task>> PROVE RouteInv'
    <2>1. BronzeInv' /\ TablesRight' /\ Grows
      BY <1>3, TablesStay
    <2>2. ASSUME NEW q \in Runs PROVE Progress(task[q])'
      <3>1. PICK x : x = task[q]
        OBVIOUS
      <3>2. Progress(x)'
        BY <2>1, <3>1, StaysBehind DEF RouteInv
      <3> QED
        BY <1>3, <3>1, <3>2 DEF Progress
    <2> QED
      BY <2>1, <2>2 DEF RouteInv
  <1> QED
    BY <1>1, <1>2, <1>3, JobSteps DEF ReplaceFiles, wvars, vars

(* Silver tables and consumed files stay, so what is behind a run stays.   *)
LEMMA EarlierGrows ==
    ASSUME LandInv, NEW r \in Runs, Earlier(r)
    PROVE  Grows
  <1>1. CASE IngestTable(r)
    <2>1. UNCHANGED silver /\ DOMAIN loaded = TableNames
      BY <1>1 DEF IngestTable, LandInv, VersionsFitLoads
    <2>2. ASSUME NEW t \in TableNames PROVE loaded[t] \subseteq loaded'[t]
      <3>1. \/ UNCHANGED loaded
            \/ loaded' = [loaded EXCEPT ![Tables[task[r].at]] = @ \cup {task[r].mode}]
        BY <1>1 DEF IngestTable
      <3> QED
        BY <2>1, <3>1
    <2> QED
      BY <1>1, <2>1, <2>2 DEF Grows, IngestTable
  <1>2. CASE WriteClean(r)
    BY <1>2 DEF WriteClean, Overwritten, Grows
  <1>3. CASE WriteQuarantine(r)
    BY <1>3 DEF WriteQuarantine, Overwritten, Grows
  <1>4. ASSUME UNCHANGED <<loaded, silver, quarantine>> PROVE Grows
    BY <1>4 DEF Grows
  <1> QED
    BY <1>1, <1>2, <1>3, <1>4 DEF Earlier, CleanStep, Start, CountTable, RecordDq

LEMMA JobResumes ==
    ASSUME LandInv, StoppedKnown, RouteInv, ResumeInv, [WNext]_wvars
    PROVE  ResumeInv'
  <1>1. ASSUME NEW t, Behind(t), Grows PROVE Behind(t)'
    BY <1>1 DEF Behind, Grows
  <1>2. ASSUME NEW r \in Runs, Earlier(r), UNCHANGED stopped PROVE ResumeInv'
    <2>1. PICK new : task' = [task EXCEPT ![r] = new] /\ new.phase # "failed"
      BY <1>2, EarlierMoves DEF EarlierMove
    <2>2. ASSUME NEW q \in Runs, task'[q].phase = "failed" PROVE Behind(stopped[q])'
      <3>1. Behind(stopped[q])
        BY <2>1, <2>2, TaskTaken DEF ResumeInv
      <3>2. PICK t : t = stopped[q] /\ Behind(t)
        BY <3>1
      <3>3. Behind(t)'
        BY <1>1, <1>2, <3>2, EarlierGrows
      <3> QED
        BY <1>2, <3>2, <3>3
    <2> QED
      BY <2>2 DEF ResumeInv
  <1>3. ASSUME NEW r \in Runs, Later(r) PROVE ResumeInv'
    <2>1. Grows
      BY <1>3, LaterLeavesTables DEF TablesUnchanged, Grows
    <2>2. PICK new : task' = [task EXCEPT ![r] = new]
      BY <1>3, LaterMoves
    <2>3. ASSUME NEW q \in Runs, task'[q].phase = "failed", task[q].phase = "failed",
                 stopped'[q] = stopped[q]
          PROVE  Behind(stopped[q])'
      <3>1. PICK t : t = stopped[q] /\ Behind(t)
        BY <2>3 DEF ResumeInv
      <3>2. Behind(t)'
        BY <1>1, <2>1, <3>1
      <3> QED
        BY <2>3, <3>1, <3>2
    <2>4. CASE FailTask(r)
      <3>1. PICK t \in TasksAt(r) : stopped' = [stopped EXCEPT ![r] = t]
        BY <2>4 DEF FailTask
      <3>2. stopped'[r] = t /\ \A q \in Runs \ {r} : stopped'[q] = stopped[q] /\ task'[q] = task[q]
        BY <2>2, <3>1, TaskTaken DEF StoppedKnown
      <3>3. Active(r) /\ Progress(task[r])
        BY <2>4 DEF FailTask, RouteInv
      <3>4. Behind(t)
        <4>1. t # "bronze_ingest" => \A u \in TableNames : loaded[u] # {}
          BY <3>1, <3>3 DEF TasksAt, StillIn, Progress, PastIngest, Active, Ended
        <4>2. t \in {"gold_dims", "gold_facts", "idempotency_check"}
                => TableNames \subseteq DOMAIN silver
          BY <3>1, <3>3 DEF TasksAt, StillIn, Progress
        <4> QED
          BY <4>1, <4>2 DEF Behind
      <3>5. Behind(t)'
        BY <1>1, <2>1, <3>4
      <3>6. \A q \in Runs \ {r} : task'[q].phase = "failed" => Behind(stopped[q])'
        BY <2>3, <3>2
      <3>7. Behind(stopped[r])'
        BY <3>2, <3>5
      <3> QED
        BY <3>6, <3>7 DEF ResumeInv
    <2>5. CASE BuildTable(r) \/ FinishJob(r) \/ Repair(r)
      <3>1. UNCHANGED stopped
        BY <2>5 DEF BuildTable, FinishJob, Repair, goldVars
      <3>2. \A q \in Runs : task'[q].phase = "failed" => task[q].phase = "failed"
        BY <2>5, NobodyFails
      <3> QED
        BY <2>3, <3>1, <3>2 DEF ResumeInv
    <2> QED
      BY <1>3, <2>4, <2>5 DEF Later
  <1>4. ASSUME UNCHANGED <<task, stopped, loaded, silver>> PROVE ResumeInv'
    BY <1>4 DEF ResumeInv, Behind
  <1> QED
    BY <1>2, <1>3, <1>4, JobSteps DEF ReplaceFiles, wvars, vars, goldVars

LEMMA InitRoutes == WInit => RouteInv
  <1> SUFFICES ASSUME WInit PROVE RouteInv
    OBVIOUS
  <1>1. /\ bronze = [t \in TableNames |-> <<{}>>] /\ loaded = [t \in TableNames |-> {}]
        /\ silver = <<>> /\ quarantine = <<>> /\ \A r \in Runs : task[r] = Idle
    BY DEF WInit, Init, Writers
  <1>2. \A t \in TableNames : Now(t) = {}
    BY <1>1 DEF Now
  <1>3. BronzeInv
    BY <1>1, <1>2 DEF BronzeInv, WholeFiles, LoadedMeansLanded
  <1>4. TablesRight
    BY <1>1 DEF TablesRight
  <1>5. \A r \in Runs : Progress(task[r])
    BY <1>1 DEF Progress, PastIngest, Idle
  <1> QED
    BY <1>3, <1>4, <1>5 DEF RouteInv

(* What the routing and rebuild properties follow from.                    *)
LEMMA RightIsRouted == TablesRight => KeysRouted
  BY DEF TablesRight, KeysRouted, KeysStand, StandsAlone, DedupedRight

LEMMA SilverKept ==
    ASSUME [WNext]_wvars
    PROVE  DOMAIN silver \subseteq DOMAIN silver'
  <1>1. ASSUME NEW r \in Runs, WriteClean(r) PROVE DOMAIN silver \subseteq DOMAIN silver'
    BY <1>1 DEF WriteClean, Overwritten
  <1>2. (\E r \in Runs : WriteClean(r)) \/ UNCHANGED silver
    BY JobSteps, LaterLeavesTables
       DEF Earlier, CleanStep, Start, IngestTable, CountTable, WriteQuarantine, RecordDq,
           TablesUnchanged, ReplaceFiles, wvars, vars
  <1> QED
    BY <1>1, <1>2

(* The rows a count counts.                                                *)
LEMMA FailuresFit ==
    ASSUME NEW t \in TableNames, NEW rows, DedupedRight(t, rows), NEW rule \in RulesFor(t),
           Uploads # {}
    PROVE  CountFailures(t, rows)[rule] \in
             Cardinality(FailingKeys[t][rule])
               .. Cardinality(FailingKeys[t][rule]) + Cardinality(Undecided[t])
  <1> DEFINE some == {r \in rows : Fails(r, rule)}
             keys == FailingKeys[t][rule]
  <1>1. keys = {k \in Decided[t] : \A f \in Uploads : \A s \in Latest(f, t, k) :
                  Predicate(rule, s) # "true"}
    BY DEF FailingKeys
  <1>2. ASSUME NEW r \in rows, Key(t, r.src) \in Decided[t]
        PROVE  r \in some <=> Key(t, r.src) \in keys
    <2>1. PICK k \in Decided[t] : k = Key(t, r.src)
      BY <1>2
    <2>2. r.src = TheRow(t, k)
      BY <2>1 DEF DedupedRight, RowsOf
    <2>3. \A f \in Uploads : Latest(f, t, k) = {TheRow(t, k)}
      BY DecidedRow
    <2>4. k \in keys <=> Predicate(rule, TheRow(t, k)) # "true"
      BY <1>1, <2>3
    <2> QED
      BY <2>1, <2>2, <2>4 DEF Fails
  <1>3. CountFailures(t, rows)[rule] = Cardinality(some)
    BY DEF CountFailures
  <1>4. some \in SUBSET rows /\ keys \in SUBSET Decided[t]
    BY <1>1
  <1> HIDE DEF some, keys
  <1>5. Cardinality(some) \in Cardinality(keys) .. Cardinality(keys) + Cardinality(Undecided[t])
    BY <1>2, <1>4, RowsCounted
  <1> QED
    BY <1>3, <1>5 DEF keys

RejectedKeys(t) == {k \in Decided[t] : \E r : r.src = TheRow(t, k) /\ Rejected(t, r)}

LEMMA SplitFits ==
    ASSUME NEW t \in TableNames, NEW rows, DedupedRight(t, rows), NEW others, DedupedRight(t, others)
    PROVE  /\ Cardinality(Clean(t, rows)) \in Nat /\ Cardinality(Quarantined(t, others)) \in Nat
           /\ Cardinality(Clean(t, rows)) + Cardinality(Quarantined(t, others)) \in
                Cardinality(Decided[t]) .. Cardinality(Decided[t]) + 2 * Cardinality(Undecided[t])
  <1> DEFINE bad  == RejectedKeys(t)
             good == Decided[t] \ bad
  <1>1. ASSUME NEW some, DedupedRight(t, some), NEW r \in some, Key(t, r.src) \in Decided[t]
        PROVE  Rejected(t, r) <=> Key(t, r.src) \in bad
    <2>1. PICK k \in Decided[t] : k = Key(t, r.src)
      BY <1>1
    <2>2. r.src = TheRow(t, k)
      BY <1>1, <2>1 DEF DedupedRight, RowsOf
    <2> QED
      BY <2>1, <2>2, VerdictOfRow DEF RejectedKeys
  <1>2. /\ Clean(t, rows) \in SUBSET rows /\ Quarantined(t, others) \in SUBSET others
        /\ good \in SUBSET Decided[t] /\ bad \in SUBSET Decided[t]
    BY DEF Clean, Quarantined, RejectedKeys
  <1>3. \A r \in rows : Key(t, r.src) \in Decided[t]
          => (r \in Clean(t, rows) <=> Key(t, r.src) \in good)
    BY <1>1 DEF Clean
  <1>4. \A r \in others : Key(t, r.src) \in Decided[t]
          => (r \in Quarantined(t, others) <=> Key(t, r.src) \in bad)
    BY <1>1 DEF Quarantined
  <1>5. good \cap bad = {} /\ good \cup bad = Decided[t]
    BY <1>2
  <1> HIDE DEF good, bad
  <1>6. /\ IsFiniteSet(Clean(t, rows)) /\ IsFiniteSet(good) /\ IsFiniteSet(Undecided[t])
        /\ Cardinality(Clean(t, rows)) \in
             Cardinality(good) .. Cardinality(good) + Cardinality(Undecided[t])
    BY <1>2, <1>3, RowsCounted
  <1>7. /\ IsFiniteSet(Quarantined(t, others)) /\ IsFiniteSet(bad)
        /\ Cardinality(Quarantined(t, others)) \in
             Cardinality(bad) .. Cardinality(bad) + Cardinality(Undecided[t])
    BY <1>2, <1>4, RowsCounted
  <1>8. Cardinality(Decided[t]) = Cardinality(good) + Cardinality(bad)
    <2>1. Cardinality(good \cup bad) = Cardinality(good) + Cardinality(bad) - Cardinality(good \cap bad)
      BY <1>6, <1>7, FS_Union
    <2>2. Cardinality(good \cap bad) = 0
      BY <1>5, FS_EmptySet
    <2>3. Cardinality(good) \in Nat /\ Cardinality(bad) \in Nat
      BY <1>6, <1>7, FS_CardinalityType
    <2> QED
      <3>1. Cardinality(good \cup bad) = Cardinality(Decided[t])
        BY <1>5
      <3>2. Cardinality(good \cup bad) = Cardinality(good) + Cardinality(bad)
        BY <2>1, <2>2, <2>3
      <3> QED
        BY <3>1, <3>2
  <1>9. /\ Cardinality(good) \in Nat /\ Cardinality(bad) \in Nat
        /\ Cardinality(Undecided[t]) \in Nat
        /\ Cardinality(Clean(t, rows)) \in Nat /\ Cardinality(Quarantined(t, others)) \in Nat
    BY <1>6, <1>7, FS_CardinalityType
  <1> QED
    BY <1>6, <1>7, <1>8, <1>9

LEMMA RecordFits ==
    ASSUME LandInv, RouteInv, NEW r \in Runs, RecordDq(r), NEW d \in dq_results' \ dq_results
    PROVE  LET open == Cardinality(Undecided[d.table_name])
               failing == Cardinality(FailingKeys[d.table_name][d.rule_id])
               decided == Cardinality(Decided[d.table_name])
           IN  /\ d.rows_failed \in failing .. failing + open
               /\ d.rows_checked \in decided .. decided + 2 * open
  <1>1. task[r].phase = "record" /\ landing \in Uploads
    BY DEF RecordDq, LandInv, Versioned
  <1>2. PICK t \in TableNames : t = At(r) /\ t = Tables[task[r].at]
    BY <1>1, RunStands
  <1>3. PICK rule \in RulesFor(t) :
          /\ d.table_name = t /\ d.rule_id = rule /\ d.rows_failed = task[r].counts[rule]
          /\ d.rows_checked = task[r].n_clean + Cardinality(quarantine[t])
    BY <1>2 DEF RecordDq
  <1>4. PICK rows : DedupedRight(t, rows) /\ task[r].counts = CountFailures(t, rows)
    BY <1>1, <1>2 DEF RouteInv, Progress
  <1>5. PICK some : DedupedRight(t, some) /\ task[r].n_clean = Cardinality(Clean(t, some))
    BY <1>1, <1>2 DEF RouteInv, Progress
  <1>6. PICK others : DedupedRight(t, others) /\ quarantine[t] = Quarantined(t, others)
    BY <1>1, <1>2 DEF RouteInv, Progress, TablesRight
  <1>7. CountFailures(t, rows)[rule] \in
             Cardinality(FailingKeys[t][rule])
               .. Cardinality(FailingKeys[t][rule]) + Cardinality(Undecided[t])
    BY <1>1, <1>4, FailuresFit
  <1>8. Cardinality(Clean(t, some)) + Cardinality(Quarantined(t, others)) \in
                Cardinality(Decided[t]) .. Cardinality(Decided[t]) + 2 * Cardinality(Undecided[t])
    BY <1>5, <1>6, SplitFits
  <1> QED
    BY <1>3, <1>4, <1>5, <1>6, <1>7, <1>8

LEMMA WhoRecords ==
    ASSUME [WNext]_wvars
    PROVE  UNCHANGED dq_results \/ \E r \in Runs : RecordDq(r)
  BY JobSteps, LaterLeavesTables
     DEF Earlier, CleanStep, Start, IngestTable, CountTable, WriteClean, WriteQuarantine,
         TablesUnchanged, ReplaceFiles, wvars, vars

(* What a table may hold, and under which modes.                           *)
Uploaded(t) == UNION {f[t] : f \in Uploads}

HoldsUploads ==
    \A t \in TableNames : \A i \in DOMAIN bronze[t] :
        SourceRows(bronze[t][i]) \subseteq Uploaded(t) \cup ProbeRows

TypeInv == HoldsUploads /\ Deployed /\ CountsAreNumbers

LEMMA IngestHolds ==
    ASSUME LandInv, HoldsUploads, Deployed, NEW r \in Runs, IngestTable(r)
    PROVE  HoldsUploads' /\ Deployed'
  <1>1. /\ r \in Writers /\ DOMAIN task = Writers /\ DOMAIN task[r] = TaskFields
        /\ task[r].phase = "ingest" /\ task[r].at \in DOMAIN Tables /\ Versioned
        /\ landing \in Uploads /\ UNCHANGED landing /\ DOMAIN loaded = TableNames
    BY DEF IngestTable, LandInv, Standing, Located, Writers, OnTables, Versioned, VersionsFitLoads
  <1>2. PICK t \in TableNames : t = Tables[task[r].at]
    BY <1>1 DEF TableNames
  <1>3. \A q \in Runs : task'[q].mode = task[q].mode
                        /\ (task'[q].phase = "ingest" => task[q].phase = "ingest")
    <2>1. CASE task[r].at < Len(Tables)
      BY <1>1, <2>1 DEF IngestTable, LandInv, Standing, Located, Writers, TaskFields
    <2>2. CASE ~(task[r].at < Len(Tables))
      BY <1>1, <2>2 DEF IngestTable, LandInv, Standing, Located, Writers, TaskFields
    <2> QED
      BY <2>1, <2>2
  <1>4. CASE Consumed(t, task[r].mode)
    <2>1. UNCHANGED <<bronze, loaded>>
      BY <1>2, <1>4 DEF IngestTable
    <2> QED
      BY <1>3, <2>1 DEF HoldsUploads, Deployed
  <1>5. CASE ~Consumed(t, task[r].mode)
    <2> DEFINE rows == Now(t) \cup Landed(t)
    <2>1. /\ bronze' = [bronze EXCEPT ![t] = Append(@, rows)]
          /\ loaded' = [loaded EXCEPT ![t] = @ \cup {task[r].mode}]
      BY <1>2, <1>5 DEF IngestTable
    <2>2. rows \in SUBSET BronzeRow
      <3>1. landing[t] \subseteq SourceRow
        BY <1>1, LandedRowsAreSource
      <3>2. Landed(t) \subseteq BronzeRow
        BY <1>1, <3>1, CurrentVersion DEF Landed, BronzeRow
      <3> QED
        BY <1>1, <3>2, CurrentVersion
    <2>3. SourceRows(rows) \subseteq Uploaded(t) \cup ProbeRows
      <3>1. Now(t) = bronze[t][Len(bronze[t])] /\ Len(bronze[t]) \in DOMAIN bronze[t]
        BY <1>1, CurrentVersion DEF Now
      <3>2. SourceRows(Now(t)) \subseteq Uploaded(t) \cup ProbeRows
        BY <3>1 DEF HoldsUploads
      <3>3. \A x \in Landed(t) : x.src \in Uploaded(t)
        BY <1>1 DEF Landed, Uploaded
      <3> QED
        BY <3>2, <3>3 DEF SourceRows
    <2> HIDE DEF rows
    <2>4. /\ \A u \in TableNames : u # t => bronze'[u] = bronze[u]
          /\ DOMAIN bronze'[t] = 1 .. Len(bronze[t]) + 1
          /\ DOMAIN bronze[t] = 1 .. Len(bronze[t]) /\ Len(bronze[t]) \in Nat
          /\ \A i \in DOMAIN bronze[t] : bronze'[t][i] = bronze[t][i]
          /\ bronze'[t][Len(bronze[t]) + 1] = rows
      BY <1>1, <2>1, <2>2, Commit
    <2>5. HoldsUploads'
      <3> SUFFICES ASSUME NEW u \in TableNames, NEW i \in DOMAIN bronze'[u]
                   PROVE  SourceRows(bronze'[u][i]) \subseteq Uploaded(u) \cup ProbeRows
        BY DEF HoldsUploads
      <3>1. CASE u # t
        BY <2>4, <3>1 DEF HoldsUploads
      <3>2. CASE u = t /\ i \in DOMAIN bronze[t]
        BY <2>4, <3>2 DEF HoldsUploads
      <3>3. CASE u = t /\ i = Len(bronze[t]) + 1
        BY <2>3, <2>4, <3>3
      <3>4. u = t => i \in DOMAIN bronze[t] \/ i = Len(bronze[t]) + 1
        BY <2>4
      <3> QED
        BY <3>1, <3>2, <3>3, <3>4
    <2>6. Deployed'
      <3>1. \A u \in TableNames : loaded'[u] \subseteq loaded[u] \cup {task[r].mode}
        BY <1>1, <2>1
      <3>2. task[r].mode \in Modes
        BY <1>1 DEF Deployed
      <3> QED
        BY <1>3, <3>1, <3>2 DEF Deployed
    <2> QED
      BY <2>5, <2>6
  <1> QED
    BY <1>4, <1>5

LEMMA OtherStepsHold ==
    ASSUME LandInv, StoppedKnown, HoldsUploads, Deployed, NEW r \in Runs,
           (\E mode \in Modes : Start(r, mode)) \/ CleanStep(r) \/ Later(r)
    PROVE  HoldsUploads' /\ Deployed'
  <1>1. UNCHANGED <<bronze, loaded>>
    BY LaterLeavesTables DEF Start, CleanStep, CountTable, WriteClean, WriteQuarantine, RecordDq,
                             TablesUnchanged
  <1>2. PICK new : /\ task' = [task EXCEPT ![r] = new]
                   /\ EarlierMove(r, new) \/ LaterMove(r, new)
    BY EarlierMoves, LaterMoves DEF Earlier
  <1>3. new.phase = "ingest" => new.mode \in Modes
    BY <1>2 DEF EarlierMove, LaterMove, Deployed
  <1>4. \A q \in Runs : task'[q].phase = "ingest" => task'[q].mode \in Modes
    BY <1>2, <1>3, TaskTaken DEF Deployed
  <1> QED
    BY <1>1, <1>4 DEF HoldsUploads, Deployed

LEMMA RecordCounts ==
    ASSUME LandInv, RouteInv, CountsAreNumbers, [WNext]_wvars
    PROVE  CountsAreNumbers'
  <1>1. ASSUME NEW r \in Runs, RecordDq(r), NEW d \in dq_results' \ dq_results
        PROVE  d.rows_checked \in Nat /\ d.rows_failed \in Nat
    <2>1. PICK open, failing, decided :
            /\ open = Cardinality(Undecided[d.table_name])
            /\ failing = Cardinality(FailingKeys[d.table_name][d.rule_id])
            /\ decided = Cardinality(Decided[d.table_name])
            /\ d.rows_failed \in failing .. failing + open
            /\ d.rows_checked \in decided .. decided + 2 * open
      BY <1>1, RecordFits
    <2>2. /\ d.table_name \in TableNames /\ d.rule_id \in RulesFor(d.table_name)
      <3>1. task[r].phase = "record"
        BY <1>1 DEF RecordDq
      <3>2. At(r) \in TableNames
        BY <3>1, RunStands
      <3> QED
        BY <1>1, <3>2 DEF RecordDq
    <2>3. failing \in Nat /\ decided \in Nat
      <3>1. IsFiniteSet(Decided[d.table_name])
        BY <2>2, UploadedKeys, FS_Subset DEF Decided
      <3>2. IsFiniteSet(FailingKeys[d.table_name][d.rule_id])
        BY <2>2, <3>1, FS_Subset DEF FailingKeys
      <3> QED
        BY <2>1, <3>1, <3>2, FS_CardinalityType
    <2> QED
      BY <2>1, <2>3
  <1> QED
    BY <1>1, WhoRecords DEF CountsAreNumbers

JobInv == LandInv /\ StoppedKnown /\ RouteInv /\ ResumeInv /\ TypeInv

LEMMA JobInvariant == WSpec => []JobInv
  <1>1. WInit => JobInv
    <2> SUFFICES ASSUME WInit PROVE JobInv
      OBVIOUS
    <2>1. /\ bronze = [t \in TableNames |-> <<{}>>] /\ loaded = [t \in TableNames |-> {}]
          /\ dq_results = {} /\ \A r \in Runs : task[r].phase = "idle"
      BY DEF WInit, Init, Idle, Writers
    <2>2. TypeInv
      BY <2>1 DEF TypeInv, HoldsUploads, Deployed, CountsAreNumbers, SourceRows
    <2>3. ResumeInv
      BY <2>1 DEF ResumeInv
    <2> QED
      BY <2>2, <2>3, InitLands, InitStops, InitRoutes DEF WInit, JobInv
  <1>2. ASSUME JobInv, [WNext]_wvars PROVE JobInv'
    <2>1. LandInv' /\ StoppedKnown'
      BY <1>2, JobLands, StopsKnown DEF JobInv
    <2>2. RouteInv' /\ ResumeInv'
      BY <1>2, JobRoutes, JobResumes DEF JobInv
    <2>3. HoldsUploads' /\ Deployed'
      <3>1. ASSUME NEW r \in Runs, Earlier(r) \/ Later(r)
            PROVE  HoldsUploads' /\ Deployed'
        BY <1>2, <3>1, IngestHolds, OtherStepsHold DEF JobInv, TypeInv, Earlier
      <3>2. CASE UNCHANGED <<bronze, loaded, task>>
        BY <1>2, <3>2 DEF JobInv, TypeInv, HoldsUploads, Deployed
      <3> QED
        BY <1>2, <3>1, <3>2, JobSteps DEF ReplaceFiles, wvars, vars
    <2>4. CountsAreNumbers'
      BY <1>2, RecordCounts DEF JobInv, TypeInv
    <2> QED
      BY <2>1, <2>2, <2>3, <2>4 DEF JobInv, TypeInv
  <1> QED
    BY <1>1, <1>2, PTL DEF WSpec

(* TypeOK: modes, rows and tables are those that were deployed, uploaded   *)
(* and declared, and what dq_results records are numbers.                  *)
THEOREM JobTypes == WSpec => []TypeOK
  <1>1. JobInv => TypeOK
    <2> SUFFICES ASSUME JobInv PROVE TypeOK
      OBVIOUS
    <2>1. DOMAIN silver \subseteq TableNames /\ DOMAIN quarantine \subseteq TableNames
      BY DEF JobInv, RouteInv, TablesRight
    <2>2. \A t \in DOMAIN quarantine : t \in DOMAIN Rules
      BY DEF JobInv, RouteInv, TablesRight, HasRules, RulesFor
    <2>3. \A t \in TableNames : \A i \in DOMAIN bronze[t] :
            SourceRows(bronze[t][i]) \subseteq (UNION {f[t] : f \in Uploads}) \cup ProbeRows
      BY DEF JobInv, TypeInv, HoldsUploads, Uploaded
    <2> QED
      BY <2>1, <2>2, <2>3 DEF TypeOK, JobInv, TypeInv, Deployed, CountsAreNumbers
  <1> QED
    BY <1>1, JobInvariant, PTL

(* Rows are diverted, never lost: silver and quarantine are overwritten    *)
(* one after the other, each from an evaluation of its own, and whatever   *)
(* runs failed, ingested in another mode or found replaced files, each     *)
(* decided key is in exactly one of the two.                               *)
THEOREM RowsRoutedOnce == WSpec => []RoutedOnce
  <1>1. JobInv => RoutedOnce
    BY RightIsRouted, RoutedRight DEF JobInv, RouteInv
  <1> QED
    BY <1>1, JobInvariant, PTL

(* "Recomputing it is always safe" (clean.py:8): no rebuild of a silver    *)
(* table changes a decided key.                                            *)
THEOREM RebuildsAreSafe == WSpec => RebuildsChangeNothing
  <1>1. JobInv => KeysRouted
    BY RightIsRouted DEF JobInv, RouteInv
  <1>2. KeysRouted /\ KeysRouted' /\ [WNext]_wvars =>
          [\A t \in DOMAIN silver : \A k \in Decided[t] :
              /\ SourceRows(RowsOf(t, silver'[t], k)) = SourceRows(RowsOf(t, silver[t], k))
              /\ Cardinality(RowsOf(t, silver'[t], k)) = Cardinality(RowsOf(t, silver[t], k))]_vars
    BY SilverKept, RebuiltRight
  <1> QED
    BY <1>1, <1>2, JobInvariant, PTL DEF WSpec, RebuildsChangeNothing

(* The counts in dq_results: those of every rule, warn rules too, and the  *)
(* rows they were checked against, up to the keys that no deduplication    *)
(* decides.                                                                *)
THEOREM FailuresAreAllCounted == WSpec => FailuresAreCounted
  <1>1. JobInv /\ [WNext]_wvars =>
          [\A d \in dq_results' \ dq_results :
             LET open == Cardinality(Undecided[d.table_name])
                 failing == Cardinality(FailingKeys[d.table_name][d.rule_id])
                 decided == Cardinality(Decided[d.table_name])
             IN  /\ d.rows_failed \in failing .. failing + open
                 /\ d.rows_checked \in decided .. decided + 2 * open]_vars
    <2> SUFFICES ASSUME JobInv, [WNext]_wvars, NEW d \in dq_results' \ dq_results
                 PROVE  LET open == Cardinality(Undecided[d.table_name])
                            failing == Cardinality(FailingKeys[d.table_name][d.rule_id])
                            decided == Cardinality(Decided[d.table_name])
                        IN  /\ d.rows_failed \in failing .. failing + open
                            /\ d.rows_checked \in decided .. decided + 2 * open
      OBVIOUS
    <2> QED
      BY WhoRecords, RecordFits DEF JobInv
  <1> QED
    BY <1>1, JobInvariant, PTL DEF WSpec, FailuresAreCounted

-----------------------------------------------------------------------------
(***************************************************************************)
(* The declared keys.  A run builds all nine tables from one state of      *)
(* silver: no other run is active meanwhile, so what it has built stays as *)
(* it is until it has built the rest.  A run that is repaired in           *)
(* gold_facts finds the dimensions as they were, or rebuilt from silver as *)
(* it is now, unless silver was changed in between, which it has missed    *)
(* until somebody builds all dimensions.  The keys into dim_date need      *)
(* more: every order in silver has a time that could be read (a reject     *)
(* rule), and finitely many times have bounds.                             *)
(***************************************************************************)
Dated(S) == \A o \in Rows(S, "orders") :
    o.order_purchase_timestamp \in {d.date_sk : d \in DimDate(S)}

LEMMA DimDateCovers ==
    ASSUME NEW S, PurchaseTimes(S) \in SUBSET Nat, IsFiniteSet(PurchaseTimes(S))
    PROVE  Dated(S)
  <1> SUFFICES ASSUME NEW o \in Rows(S, "orders")
               PROVE  o.order_purchase_timestamp \in {d.date_sk : d \in DimDate(S)}
    BY DEF Dated
  <1>1. PICK times : times = PurchaseTimes(S)
    OBVIOUS
  <1>2. PICK time \in times : time = o.order_purchase_timestamp
    BY <1>1 DEF PurchaseTimes
  <1>3. times \in SUBSET Nat /\ IsFiniteSet(times)
    BY <1>1
  <1>4. /\ \E m \in times : \A x \in times : x <= m
        /\ \E m \in times : \A x \in times : m <= x
    BY <1>2, <1>3, Extremes
  <1>5. Min(times) \in times /\ Max(times) \in times /\ Min(times) <= time /\ time <= Max(times)
    BY <1>2, <1>4 DEF Min, Max
  <1>6. time \in Min(times) .. Max(times) + SlackDays
    BY <1>2, <1>3, <1>5, SlackIsNumber
  <1>7. [date_sk |-> time] \in DimDate(S)
    BY <1>1, <1>6 DEF DimDate
  <1> QED
    BY <1>2, <1>7

LEMMA PurchaseTimeRule ==
    ASSUME NEW row, Predicate("orders.purchase_ts_not_null", row) = "true"
    PROVE  row.order_purchase_timestamp # NULL
  <1>1. PICK rule : rule = "orders.purchase_ts_not_null"
    OBVIOUS
  <1>2. rule \in DOMAIN NotNull /\ NotNull[rule] = "order_purchase_timestamp"
    BY <1>1 DEF NotNull, Registry
  <1>3. Predicate(rule, row) = Truth(row[NotNull[rule]] # NULL)
    <2>1. rule \notin DOMAIN AtLeast /\ rule \notin DOMAIN InDomain
      BY <1>1 DEF AtLeast, InDomain, Registry
    <2> QED
      BY <1>1, <1>2, <2>1 DEF Predicate
  <1> QED
    BY <1>1, <1>2, <1>3 DEF Truth

(* The orders in silver have a time, and finitely many.                    *)
LEMMA SilverOrdersDated ==
    ASSUME JobInv, SilverIsClean, "orders" \in DOMAIN silver
    PROVE  Dated(silver)
  <1> DEFINE t == "orders"
             all == UNION {TypedFile(f, t) : f \in Uploads}
             times == PurchaseTimes(silver)
  <1>1. t \in TableNames
    BY DEF JobInv, RouteInv, TablesRight
  <1>2. PICK rows : DedupedRight(t, rows) /\ silver[t] = Clean(t, rows)
    BY DEF JobInv, RouteInv, TablesRight
  <1>3. ASSUME NEW r \in silver[t]
        PROVE  /\ r.src \in all
               /\ r.src.order_purchase_timestamp \in Nat
    <2>1. PICK f \in Uploads : r.src \in TypedFile(f, t)
      BY <1>2, <1>3 DEF DedupedRight, Clean
    <2>2. SequenceOf(t, r.src) \in Nat
      BY <1>1, <2>1, UploadedTable
    <2>3. r.src.order_purchase_timestamp # NULL
      <3>1. "orders.purchase_ts_not_null" \in RejectRules(t)
        BY DEF RejectRules, RulesFor, Rules, WarnRules
      <3>2. Predicate("orders.purchase_ts_not_null", r.src) = "true"
        BY <1>3, <3>1 DEF SilverIsClean
      <3> QED
        BY <3>2, PurchaseTimeRule
    <2>4. SequenceOf(t, r.src) = r.src.order_purchase_timestamp
      BY <2>3 DEF SequenceOf, SequenceCol
    <2> QED
      BY <2>1, <2>2, <2>4
  <1>4. IsFiniteSet(all)
    BY <1>1, UploadedKeys
  <1>5. IsFiniteSet(times)
    <2> DEFINE time == [s \in all |-> s.order_purchase_timestamp]
    <2>1. DOMAIN time = all /\ times \subseteq {time[s] : s \in all}
      BY <1>3 DEF PurchaseTimes, Rows
    <2> HIDE DEF time, all, times
    <2>2. IsFiniteSet({time[s] : s \in all})
      BY <1>4, <2>1, FiniteImage
    <2> QED
      BY <2>1, <2>2, FS_Subset
  <1>6. times \in SUBSET Nat
    BY <1>3 DEF PurchaseTimes, Rows
  <1> QED
    BY <1>5, <1>6, DimDateCovers

LEMMA GoldOrder ==
    /\ Len(GoldTables) = 9
    /\ GoldTables[1] = "dim_date" /\ GoldTables[2] = "dim_customer"
    /\ GoldTables[3] = "dim_product" /\ GoldTables[4] = "dim_seller"
    /\ GoldTables[5] = "dim_order_status" /\ GoldTables[6] = "dim_payment_type"
    /\ GoldTables[7] = "fact_order" /\ GoldTables[8] = "fact_order_item"
    /\ GoldTables[9] = "fact_payment"
  BY DEF GoldTables

(* What a left join on a dimension can leave in a column.                  *)
LEMMA JoinedKey ==
    ASSUME NEW matches, NEW column, NEW x \in LeftJoin(matches, column)
    PROVE  /\ x = NULL \/ \E m \in matches : x = m[column]
           /\ matches # {} => \E m \in matches : x = m[column]
  BY DEF LeftJoin

LEMMA CustomerKey ==
    ASSUME NEW S, NEW G, NEW o, NEW x \in CustomerSk(S, G, o)
    PROVE  x = NULL \/ x \in {d.customer_sk : d \in G["dim_customer"]}
  <1> DEFINE matches ==
         {v \in G["dim_customer"] :
            /\ \E c \in Rows(S, "customers") :
                 c.customer_id = o.customer_id /\ c.customer_unique_id = v.customer_unique_id
            /\ o.order_purchase_timestamp >= v.effective_from}
  <1>1. x \in LeftJoin(matches, "customer_sk")
    BY DEF CustomerSk
  <1>2. matches \subseteq G["dim_customer"]
    OBVIOUS
  <1> HIDE DEF matches
  <1> QED
    BY <1>1, <1>2, JoinedKey

LEMMA OrderReferences ==
    ASSUME NEW S, NEW G, NEW f \in FactOrder(S, G)
    PROVE  /\ f.customer_sk = NULL \/ f.customer_sk \in {d.customer_sk : d \in G["dim_customer"]}
           /\ \/ f.order_status_sk = NULL
              \/ f.order_status_sk \in {d.order_status_sk : d \in G["dim_order_status"]}
           /\ G["dim_order_status"] = DimOrderStatus(S) =>
                 f.order_status_sk \in {d.order_status_sk : d \in G["dim_order_status"]}
           /\ G["dim_date"] = DimDate(S) /\ Dated(S) =>
                 f.order_date_sk \in {d.date_sk : d \in G["dim_date"]}
  <1>1. PICK o \in Rows(S, "orders") :
          /\ f.order_date_sk = o.order_purchase_timestamp
          /\ f.customer_sk \in CustomerSk(S, G, o)
          /\ f.order_status_sk \in
               LeftJoin({d \in G["dim_order_status"] : d.order_status = o.order_status},
                        "order_status_sk")
    <2> DEFINE total(o) == Revenue({i \in Rows(S, "order_items") : i.order_id = o.order_id})
               status(o) == LeftJoin({d \in G["dim_order_status"] :
                                        d.order_status = o.order_status}, "order_status_sk")
    <2>1. FactOrder(S, G) =
            UNION {{[order_id |-> o.order_id, customer_sk |-> c, order_status_sk |-> s,
                     order_date_sk |-> o.order_purchase_timestamp, order_total |-> total(o)] :
                      c \in CustomerSk(S, G, o), s \in status(o)} : o \in Rows(S, "orders")}
      BY DEF FactOrder
    <2> HIDE DEF total, status
    <2>2. PICK o \in Rows(S, "orders") :
            /\ f.order_date_sk = o.order_purchase_timestamp
            /\ f.customer_sk \in CustomerSk(S, G, o) /\ f.order_status_sk \in status(o)
      BY <2>1
    <2> QED
      BY <2>2 DEF status
  <1> DEFINE matches == {d \in G["dim_order_status"] : d.order_status = o.order_status}
  <1>2. ASSUME G["dim_order_status"] = DimOrderStatus(S) PROVE matches # {}
    <2>1. [order_status_sk |-> Hash(o.order_status), order_status |-> o.order_status] \in matches
      BY <1>2 DEF DimOrderStatus
    <2> QED
      BY <2>1
  <1>3. matches \subseteq G["dim_order_status"] /\ f.order_status_sk \in LeftJoin(matches, "order_status_sk")
    BY <1>1
  <1> HIDE DEF matches
  <1>4. /\ \/ f.order_status_sk = NULL
           \/ f.order_status_sk \in {d.order_status_sk : d \in G["dim_order_status"]}
        /\ G["dim_order_status"] = DimOrderStatus(S) =>
              f.order_status_sk \in {d.order_status_sk : d \in G["dim_order_status"]}
    BY <1>2, <1>3, JoinedKey
  <1>5. G["dim_date"] = DimDate(S) /\ Dated(S) =>
          f.order_date_sk \in {d.date_sk : d \in G["dim_date"]}
    BY <1>1 DEF Dated
  <1> QED
    BY <1>1, <1>4, <1>5, CustomerKey

LEMMA ItemReferences ==
    ASSUME NEW S, NEW G, NEW f \in FactOrderItem(S, G)
    PROVE  /\ f.customer_sk = NULL \/ f.customer_sk \in {d.customer_sk : d \in G["dim_customer"]}
           /\ f.product_sk = NULL \/ f.product_sk \in {d.product_sk : d \in G["dim_product"]}
           /\ f.seller_sk = NULL \/ f.seller_sk \in {d.seller_sk : d \in G["dim_seller"]}
           /\ G["dim_date"] = DimDate(S) /\ Dated(S) =>
                 f.order_date_sk \in {d.date_sk : d \in G["dim_date"]}
  <1>1. PICK i \in Rows(S, "order_items") : \E o \in OrderOf(S, i) :
          /\ f.order_date_sk = o.order_purchase_timestamp
          /\ f.customer_sk \in CustomerSk(S, G, o)
          /\ f.product_sk \in
               LeftJoin({d \in G["dim_product"] : d.product_id = i.product_id}, "product_sk")
          /\ f.seller_sk \in
               LeftJoin({d \in G["dim_seller"] : d.seller_id = i.seller_id}, "seller_sk")
    BY DEF FactOrderItem
  <1>2. f.product_sk = NULL \/ f.product_sk \in {d.product_sk : d \in G["dim_product"]}
    BY <1>1, JoinedKey
  <1>3. f.seller_sk = NULL \/ f.seller_sk \in {d.seller_sk : d \in G["dim_seller"]}
    BY <1>1, JoinedKey
  <1>4. G["dim_date"] = DimDate(S) /\ Dated(S) =>
          f.order_date_sk \in {d.date_sk : d \in G["dim_date"]}
    BY <1>1 DEF Dated, OrderOf
  <1> QED
    BY <1>1, <1>2, <1>3, <1>4, CustomerKey

LEMMA PaymentReferences ==
    ASSUME NEW S, NEW G, NEW f \in FactPayment(S, G)
    PROVE  /\ f.customer_sk = NULL \/ f.customer_sk \in {d.customer_sk : d \in G["dim_customer"]}
           /\ \/ f.payment_type_sk = NULL
              \/ f.payment_type_sk \in {d.payment_type_sk : d \in G["dim_payment_type"]}
           /\ G["dim_payment_type"] = DimPaymentType(S) =>
                 f.payment_type_sk \in {d.payment_type_sk : d \in G["dim_payment_type"]}
           /\ G["dim_date"] = DimDate(S) /\ Dated(S) =>
                 f.order_date_sk \in {d.date_sk : d \in G["dim_date"]}
  <1>1. PICK p \in Rows(S, "order_payments") : \E o \in OrderOf(S, p) :
          /\ f.order_date_sk = o.order_purchase_timestamp
          /\ f.customer_sk \in CustomerSk(S, G, o)
          /\ f.payment_type_sk \in
               LeftJoin({d \in G["dim_payment_type"] : d.payment_type = p.payment_type},
                        "payment_type_sk")
    BY DEF FactPayment
  <1> DEFINE matches == {d \in G["dim_payment_type"] : d.payment_type = p.payment_type}
  <1>2. ASSUME G["dim_payment_type"] = DimPaymentType(S) PROVE matches # {}
    <2>1. [payment_type_sk |-> Hash(p.payment_type), payment_type |-> p.payment_type] \in matches
      BY <1>2 DEF DimPaymentType
    <2> QED
      BY <2>1
  <1>3. matches \subseteq G["dim_payment_type"] /\ f.payment_type_sk \in LeftJoin(matches, "payment_type_sk")
    BY <1>1
  <1> HIDE DEF matches
  <1>4. /\ \/ f.payment_type_sk = NULL
           \/ f.payment_type_sk \in {d.payment_type_sk : d \in G["dim_payment_type"]}
        /\ G["dim_payment_type"] = DimPaymentType(S) =>
              f.payment_type_sk \in {d.payment_type_sk : d \in G["dim_payment_type"]}
    BY <1>2, <1>3, JoinedKey
  <1>5. G["dim_date"] = DimDate(S) /\ Dated(S) =>
          f.order_date_sk \in {d.date_sk : d \in G["dim_date"]}
    BY <1>1 DEF Dated, OrderOf
  <1> QED
    BY <1>1, <1>4, <1>5, CustomerKey

(* A key resolves, but for what a run that missed these layers may leave.  *)
ResolvesBut(fk, layers) ==
    \A f \in gold[fk[1]] :
        \/ f[fk[2]] \in {d[fk[4]] : d \in gold[fk[3]]}
        \/ f[fk[2]] = NULL /\ fk[2] \notin Mandatory
        \/ "silver" \in layers /\ (f[fk[2]] = NULL \/ fk[2] = "order_date_sk")

ResolveIn(table, layers) == \A fk \in ForeignKeys : fk[1] = table => ResolvesBut(fk, layers)

(* What there is of gold before its table n, from silver as it is.         *)
Made(n) == \A j \in 1 .. 9 : j < n => GoldTables[j] \in DOMAIN gold

DimsFollow(n) ==
    /\ n > 1 => gold["dim_date"] = DimDate(silver)
    /\ n > 5 => gold["dim_order_status"] = DimOrderStatus(silver)
    /\ n > 6 => gold["dim_payment_type"] = DimPaymentType(silver)

FactsResolve(n, layers) ==
    /\ n > 7 => ResolveIn("fact_order", layers)
    /\ n > 8 => ResolveIn("fact_order_item", layers)
    /\ n > 9 => ResolveIn("fact_payment", layers)

Follows(n, layers) ==
    /\ Made(n)
    /\ DimsFollow(n) \/ (n > 6 /\ "silver" \in layers)
    /\ FactsResolve(n, layers)

(* The gold table a run is at, or would be at if it were repaired.         *)
Place(r) ==
    IF task[r].phase = "cleaned" THEN task[r].at
    ELSE IF task[r].phase = "built" /\ stopped[r] # "idempotency_check" THEN 10
    ELSE IF task[r].phase = "failed" /\ stopped[r] = "gold_facts" THEN 7
    ELSE 1

GoldFollows ==
    \A r \in Runs : /\ task[r].phase = "cleaned" => task[r].at \in 1 .. 9
                   /\ Follows(Place(r), missed[r])

OneRunAtWork == \A r, q \in Runs : Active(r) /\ Active(q) => r = q

PublishedResolve == IsPublished => \A fk \in ForeignKeys : Resolves(fk)

RefInv == OneRunAtWork /\ GoldFollows /\ PublishedResolve

LEMMA KnownKeys ==
    ASSUME NEW fk \in ForeignKeys
    PROVE  \/ fk[1] = "fact_order"
              /\ \/ fk = <<"fact_order", "customer_sk", "dim_customer", "customer_sk">>
                 \/ fk = <<"fact_order", "order_status_sk", "dim_order_status", "order_status_sk">>
                 \/ fk = <<"fact_order", "order_date_sk", "dim_date", "date_sk">>
           \/ fk[1] = "fact_order_item"
              /\ \/ fk = <<"fact_order_item", "customer_sk", "dim_customer", "customer_sk">>
                 \/ fk = <<"fact_order_item", "product_sk", "dim_product", "product_sk">>
                 \/ fk = <<"fact_order_item", "seller_sk", "dim_seller", "seller_sk">>
                 \/ fk = <<"fact_order_item", "order_date_sk", "dim_date", "date_sk">>
           \/ fk[1] = "fact_payment"
              /\ \/ fk = <<"fact_payment", "customer_sk", "dim_customer", "customer_sk">>
                 \/ fk = <<"fact_payment", "payment_type_sk", "dim_payment_type",
                           "payment_type_sk">>
                 \/ fk = <<"fact_payment", "order_date_sk", "dim_date", "date_sk">>
  BY DEF ForeignKeys

(* The facts a run builds resolve in the dimensions it has built.          *)
LEMMA BuiltReferences ==
    ASSUME NEW t \in {"fact_order", "fact_order_item", "fact_payment"},
           gold' = CreateOrReplace(gold, t, Build(t, silver, gold)),
           Dated(silver), NEW layers, DimsFollow(7) \/ "silver" \in layers,
           \A j \in 1 .. 6 : GoldTables[j] \in DOMAIN gold
    PROVE  ResolveIn(t, layers)'
  <1>1. /\ \A u \in DOMAIN gold : u # t => gold'[u] = gold[u]
        /\ gold'[t] = Build(t, silver, gold)
    BY DEF CreateOrReplace, Overwritten
  <1>2. /\ gold'["dim_customer"] = gold["dim_customer"]
        /\ gold'["dim_product"] = gold["dim_product"]
        /\ gold'["dim_seller"] = gold["dim_seller"]
        /\ gold'["dim_order_status"] = gold["dim_order_status"]
        /\ gold'["dim_payment_type"] = gold["dim_payment_type"]
        /\ gold'["dim_date"] = gold["dim_date"]
    <2>1. \A j \in 1 .. 6 : GoldTables[j] \in DOMAIN gold
      OBVIOUS
    <2>2. {"dim_date", "dim_customer", "dim_product", "dim_seller", "dim_order_status",
           "dim_payment_type"} \subseteq DOMAIN gold
      BY <2>1, GoldOrder
    <2> QED
      BY <1>1, <2>2
  <1> SUFFICES ASSUME NEW fk \in ForeignKeys, fk[1] = t, NEW f \in gold'[t]
               PROVE  \/ f[fk[2]] \in {d[fk[4]] : d \in gold'[fk[3]]}
                      \/ f[fk[2]] = NULL /\ fk[2] \notin Mandatory
                      \/ "silver" \in layers
                           /\ (f[fk[2]] = NULL \/ fk[2] = "order_date_sk")
    BY DEF ResolveIn, ResolvesBut
  <1>0. \/ /\ gold["dim_order_status"] = DimOrderStatus(silver)
           /\ gold["dim_payment_type"] = DimPaymentType(silver)
           /\ gold["dim_date"] = DimDate(silver)
        \/ "silver" \in layers
    BY DEF DimsFollow
  <1>3. CASE t = "fact_order"
    <2>1. f \in FactOrder(silver, gold)
      BY <1>1, <1>3 DEF Build
    <2>2. /\ f.customer_sk = NULL
                \/ f.customer_sk \in {d.customer_sk : d \in gold'["dim_customer"]}
          /\ \/ f.order_status_sk \in {d.order_status_sk : d \in gold'["dim_order_status"]}
             \/ "silver" \in layers /\ f.order_status_sk = NULL
          /\ \/ f.order_date_sk \in {d.date_sk : d \in gold'["dim_date"]}
             \/ "silver" \in layers
      BY <1>0, <1>2, <2>1, OrderReferences
    <2>3. \/ fk = <<"fact_order", "customer_sk", "dim_customer", "customer_sk">>
          \/ fk = <<"fact_order", "order_status_sk", "dim_order_status", "order_status_sk">>
          \/ fk = <<"fact_order", "order_date_sk", "dim_date", "date_sk">>
      BY <1>3, KnownKeys
    <2> QED
      BY <2>2, <2>3 DEF Mandatory
  <1>4. CASE t = "fact_order_item"
    <2>1. f \in FactOrderItem(silver, gold)
      BY <1>1, <1>4 DEF Build
    <2>2. /\ f.customer_sk = NULL
                \/ f.customer_sk \in {d.customer_sk : d \in gold'["dim_customer"]}
          /\ f.product_sk = NULL \/ f.product_sk \in {d.product_sk : d \in gold'["dim_product"]}
          /\ f.seller_sk = NULL \/ f.seller_sk \in {d.seller_sk : d \in gold'["dim_seller"]}
          /\ \/ f.order_date_sk \in {d.date_sk : d \in gold'["dim_date"]}
             \/ "silver" \in layers
      BY <1>0, <1>2, <2>1, ItemReferences
    <2>3. \/ fk = <<"fact_order_item", "customer_sk", "dim_customer", "customer_sk">>
          \/ fk = <<"fact_order_item", "product_sk", "dim_product", "product_sk">>
          \/ fk = <<"fact_order_item", "seller_sk", "dim_seller", "seller_sk">>
          \/ fk = <<"fact_order_item", "order_date_sk", "dim_date", "date_sk">>
      BY <1>4, KnownKeys
    <2> QED
      BY <2>2, <2>3 DEF Mandatory
  <1>5. CASE t = "fact_payment"
    <2>1. f \in FactPayment(silver, gold)
      BY <1>1, <1>5 DEF Build
    <2>2. /\ f.customer_sk = NULL
                \/ f.customer_sk \in {d.customer_sk : d \in gold'["dim_customer"]}
          /\ \/ f.payment_type_sk \in {d.payment_type_sk : d \in gold'["dim_payment_type"]}
             \/ "silver" \in layers /\ f.payment_type_sk = NULL
          /\ \/ f.order_date_sk \in {d.date_sk : d \in gold'["dim_date"]}
             \/ "silver" \in layers
      BY <1>0, <1>2, <2>1, PaymentReferences
    <2>3. \/ fk = <<"fact_payment", "customer_sk", "dim_customer", "customer_sk">>
          \/ fk = <<"fact_payment", "payment_type_sk", "dim_payment_type", "payment_type_sk">>
          \/ fk = <<"fact_payment", "order_date_sk", "dim_date", "date_sk">>
      BY <1>5, KnownKeys
    <2> QED
      BY <2>2, <2>3 DEF Mandatory
  <1> QED
    BY <1>3, <1>4, <1>5

(* Another table leaves them resolved.                                     *)
LEMMA OtherReferences ==
    ASSUME NEW t, NEW rows, gold' = CreateOrReplace(gold, t, rows),
           NEW table \in DOMAIN gold, table # t, NEW layers,
           ResolveIn(table, layers),
           t \notin {"dim_date", "dim_customer", "dim_product", "dim_seller",
                     "dim_order_status", "dim_payment_type"},
           \A j \in 1 .. 6 : GoldTables[j] \in DOMAIN gold
    PROVE  ResolveIn(table, layers)'
  <1>1. \A u \in DOMAIN gold : u # t => gold'[u] = gold[u]
    BY DEF CreateOrReplace, Overwritten
  <1>2. {"dim_date", "dim_customer", "dim_product", "dim_seller", "dim_order_status",
          "dim_payment_type"} \subseteq DOMAIN gold
    <2>1. \A j \in 1 .. 6 : GoldTables[j] \in DOMAIN gold
      OBVIOUS
    <2> QED
      BY <2>1, GoldOrder
  <1>3. \A fk \in ForeignKeys :
          fk[3] \in {"dim_date", "dim_customer", "dim_product", "dim_seller",
                     "dim_order_status", "dim_payment_type"}
    BY KnownKeys
  <1>4. ASSUME NEW fk \in ForeignKeys, fk[1] = table
        PROVE  ResolvesBut(fk, layers)'
    <2>1. gold'[fk[1]] = gold[fk[1]] /\ gold'[fk[3]] = gold[fk[3]]
      BY <1>1, <1>2, <1>3, <1>4
    <2>2. ResolvesBut(fk, layers)
      BY <1>4 DEF ResolveIn
    <2> QED
      BY <2>1, <2>2 DEF ResolvesBut
  <1> QED
    BY <1>4 DEF ResolveIn

(* A gold table is built: what the run has built stays, and the next fact  *)
(* resolves in it.                                                         *)
LEMMA MadeExtends ==
    ASSUME NEW n \in 1 .. 9, Made(n), NEW rows, gold' = CreateOrReplace(gold, GoldTables[n], rows)
    PROVE  Made(n + 1)'
  <1>1. DOMAIN gold' = {GoldTables[n]} \cup DOMAIN gold
    BY DEF CreateOrReplace, Overwritten
  <1>2. \A j \in 1 .. 9 : j < n + 1 => j < n \/ j = n
    OBVIOUS
  <1> QED
    BY <1>1, <1>2 DEF Made

LEMMA DimsExtend ==
    ASSUME NEW n \in 1 .. 9, Made(n), DimsFollow(n), UNCHANGED silver,
           gold' = CreateOrReplace(gold, GoldTables[n], Build(GoldTables[n], silver, gold))
    PROVE  DimsFollow(n + 1)'
  <1> DEFINE t == GoldTables[n]
  <1>1. /\ DOMAIN gold' = {t} \cup DOMAIN gold
        /\ \A u \in DOMAIN gold : u # t => gold'[u] = gold[u]
        /\ gold'[t] = Build(t, silver, gold)
    BY DEF CreateOrReplace, Overwritten
  <1>2. \A j \in 1 .. 9 : j < n => GoldTables[j] \in DOMAIN gold
    BY DEF Made
  <1>3. gold'["dim_date"] = DimDate(silver)
    <2>1. CASE n = 1
      BY <1>1, <2>1, GoldOrder DEF Build
    <2>2. CASE n > 1
      <3>1. "dim_date" \in DOMAIN gold /\ gold["dim_date"] = DimDate(silver)
        BY <1>2, <2>2, GoldOrder DEF DimsFollow
      <3>2. n = 2 \/ n = 3 \/ n = 4 \/ n = 5 \/ n = 6 \/ n = 7 \/ n = 8 \/ n = 9
        BY <2>2
      <3>3. t # "dim_date"
        BY <3>2, GoldOrder
      <3> QED
        BY <1>1, <3>1, <3>3
    <2> QED
      BY <2>1, <2>2
  <1>4. ASSUME n + 1 > 5
        PROVE  gold'["dim_order_status"] = DimOrderStatus(silver)
    <2>1. CASE n = 5
      BY <1>1, <2>1, GoldOrder DEF Build
    <2>2. CASE n > 5
      <3>1. "dim_order_status" \in DOMAIN gold /\ gold["dim_order_status"] = DimOrderStatus(silver)
        BY <1>2, <2>2, GoldOrder DEF DimsFollow
      <3>2. n = 6 \/ n = 7 \/ n = 8 \/ n = 9
        BY <2>2
      <3>3. t # "dim_order_status"
        BY <3>2, GoldOrder
      <3> QED
        BY <1>1, <3>1, <3>3
    <2> QED
      BY <1>4, <2>1, <2>2
  <1>5. ASSUME n + 1 > 6
        PROVE  gold'["dim_payment_type"] = DimPaymentType(silver)
    <2>1. CASE n = 6
      BY <1>1, <2>1, GoldOrder DEF Build
    <2>2. CASE n > 6
      <3>1. "dim_payment_type" \in DOMAIN gold /\ gold["dim_payment_type"] = DimPaymentType(silver)
        BY <1>2, <2>2, GoldOrder DEF DimsFollow
      <3>2. n = 7 \/ n = 8 \/ n = 9
        BY <2>2
      <3>3. t # "dim_payment_type"
        BY <3>2, GoldOrder
      <3> QED
        BY <1>1, <3>1, <3>3
    <2> QED
      BY <1>5, <2>1, <2>2
  <1> QED
    BY <1>3, <1>4, <1>5 DEF DimsFollow

LEMMA FactsExtend ==
    ASSUME NEW n \in 1 .. 9, NEW layers, Follows(n, layers), Dated(silver), UNCHANGED silver,
           gold' = CreateOrReplace(gold, GoldTables[n], Build(GoldTables[n], silver, gold))
    PROVE  FactsResolve(n + 1, layers)'
  <1> DEFINE t == GoldTables[n]
  <1>1. \A j \in 1 .. 9 : j < n => GoldTables[j] \in DOMAIN gold
    BY DEF Follows, Made
  <1>2. ASSUME n > 6
        PROVE  /\ \A j \in 1 .. 6 : GoldTables[j] \in DOMAIN gold
               /\ ResolveIn(t, layers)'
               /\ \A table \in DOMAIN gold : table # t /\ ResolveIn(table, layers) => ResolveIn(table, layers)'
    <2>1. \A j \in 1 .. 6 : GoldTables[j] \in DOMAIN gold
      BY <1>1, <1>2
    <2>2. n = 7 \/ n = 8 \/ n = 9
      BY <1>2
    <2>3. t \in {"fact_order", "fact_order_item", "fact_payment"}
      BY <2>2, GoldOrder
    <2>4. DimsFollow(7) \/ "silver" \in layers
      BY <2>2 DEF Follows, DimsFollow
    <2> HIDE DEF t
    <2>5. gold' = CreateOrReplace(gold, t, Build(t, silver, gold))
      BY DEF t
    <2>6. ResolveIn(t, layers)'
      BY <2>1, <2>3, <2>4, <2>5, BuiltReferences
    <2>7. t \notin {"dim_date", "dim_customer", "dim_product", "dim_seller",
                    "dim_order_status", "dim_payment_type"}
      BY <2>3
    <2>8. ASSUME NEW table \in DOMAIN gold, table # t, ResolveIn(table, layers)
          PROVE  ResolveIn(table, layers)'
      BY <2>1, <2>5, <2>7, <2>8, OtherReferences
    <2> QED
      BY <2>1, <2>6, <2>8
  <1>3. n + 1 > 7 => ResolveIn("fact_order", layers)'
    <2>1. CASE n = 7
      BY <1>2, <2>1, GoldOrder
    <2>2. CASE n = 8 \/ n = 9
      <3>1. "fact_order" \in DOMAIN gold /\ ResolveIn("fact_order", layers) /\ t # "fact_order"
        BY <1>1, <2>2, GoldOrder DEF Follows, FactsResolve
      <3> QED
        BY <1>2, <2>2, <3>1
    <2> QED
      BY <2>1, <2>2
  <1>4. n + 1 > 8 => ResolveIn("fact_order_item", layers)'
    <2>1. CASE n = 8
      BY <1>2, <2>1, GoldOrder
    <2>2. CASE n = 9
      <3>1. /\ "fact_order_item" \in DOMAIN gold /\ ResolveIn("fact_order_item", layers)
            /\ t # "fact_order_item"
        BY <1>1, <2>2, GoldOrder DEF Follows, FactsResolve
      <3> QED
        BY <1>2, <2>2, <3>1
    <2> QED
      BY <2>1, <2>2
  <1>5. n + 1 > 9 => ResolveIn("fact_payment", layers)'
    <2>1. CASE n = 9
      BY <1>2, <2>1, GoldOrder
    <2> QED
      BY <2>1
  <1> QED
    BY <1>3, <1>4, <1>5 DEF FactsResolve

LEMMA BuildExtends ==
    ASSUME NEW n \in 1 .. 9, NEW layers, Follows(n, layers), Dated(silver), UNCHANGED silver,
           gold' = CreateOrReplace(gold, GoldTables[n], Build(GoldTables[n], silver, gold))
    PROVE  Follows(n + 1, layers)' /\ (n < 7 => DimsFollow(n + 1)')
  <1>1. Made(n + 1)' /\ FactsResolve(n + 1, layers)'
    BY MadeExtends, FactsExtend DEF Follows
  <1>2. CASE DimsFollow(n)
    BY <1>1, <1>2, DimsExtend DEF Follows
  <1>3. CASE n > 6 /\ "silver" \in layers
    BY <1>1, <1>3 DEF Follows
  <1> QED
    BY <1>2, <1>3 DEF Follows

(* Any table built from the same silver leaves the dimensions as they were. *)
LEMMA DimsStay ==
    ASSUME NEW n \in 1 .. 9, Made(7), UNCHANGED silver,
           gold' = CreateOrReplace(gold, GoldTables[n], Build(GoldTables[n], silver, gold))
    PROVE  Made(7)' /\ (DimsFollow(7) => DimsFollow(7)')
  <1> DEFINE t == GoldTables[n]
  <1>1. /\ DOMAIN gold' = {t} \cup DOMAIN gold
        /\ \A u \in DOMAIN gold : u # t => gold'[u] = gold[u]
        /\ gold'[t] = Build(t, silver, gold)
    BY DEF CreateOrReplace, Overwritten
  <1>2. Made(7)'
    BY <1>1 DEF Made
  <1>3. \A j \in 1 .. 6 : GoldTables[j] \in DOMAIN gold
    BY DEF Made
  <1>4. {"dim_date", "dim_order_status", "dim_payment_type"} \subseteq DOMAIN gold
    BY <1>3, GoldOrder
  <1>5. /\ Build("dim_date", silver, gold) = DimDate(silver)
        /\ Build("dim_order_status", silver, gold) = DimOrderStatus(silver)
        /\ Build("dim_payment_type", silver, gold) = DimPaymentType(silver)
    BY DEF Build
  <1> HIDE DEF t
  <1>6. ASSUME DimsFollow(7) PROVE DimsFollow(7)'
    <2>1. /\ gold["dim_date"] = DimDate(silver)
          /\ gold["dim_order_status"] = DimOrderStatus(silver)
          /\ gold["dim_payment_type"] = DimPaymentType(silver)
      BY <1>6 DEF DimsFollow
    <2>2. gold'["dim_date"] = DimDate(silver)
      BY <1>1, <1>4, <1>5, <2>1
    <2>3. gold'["dim_order_status"] = DimOrderStatus(silver)
      BY <1>1, <1>4, <1>5, <2>1
    <2>4. gold'["dim_payment_type"] = DimPaymentType(silver)
      BY <1>1, <1>4, <1>5, <2>1
    <2> QED
      BY <2>2, <2>3, <2>4 DEF DimsFollow
  <1> QED
    BY <1>2, <1>6

(* Only the run that takes a step is at work.                              *)
LEMMA NobodyElse ==
    ASSUME LandInv, StoppedKnown, OneRunAtWork, NEW r \in Runs, Earlier(r) \/ Later(r)
    PROVE  /\ \A q \in Runs \ {r} : ~Active(q) /\ task'[q] = task[q]
           /\ OneRunAtWork'
  <1>1. \A q \in Runs \ {r} : ~Active(q)
    <2>1. CASE (\E mode \in Modes : Start(r, mode)) \/ Repair(r)
      BY <2>1 DEF Start, Repair
    <2>2. CASE IngestTable(r) \/ CleanStep(r) \/ BuildTable(r) \/ FinishJob(r) \/ FailTask(r)
      <3>1. Active(r)
        BY <2>2 DEF IngestTable, CleanStep, CountTable, WriteClean, WriteQuarantine, RecordDq,
                    BuildTable, FinishJob, FailTask, Active, Ended
      <3> QED
        BY <3>1 DEF OneRunAtWork
    <2> QED
      BY <2>1, <2>2 DEF Earlier, Later
  <1>2. \A q \in Runs \ {r} : task'[q] = task[q]
    BY EarlierMoves, LaterMoves, TaskTaken
  <1>3. OneRunAtWork'
    BY <1>1, <1>2 DEF OneRunAtWork, Active, Ended
  <1> QED
    BY <1>1, <1>2, <1>3

LEMMA NothingFollows ==
    ASSUME NEW layers
    PROVE  Follows(1, layers)
  BY DEF Follows, Made, DimsFollow, FactsResolve

(* A run that is not at work is at the facts, or has everything before it. *)
LEMMA PlaceOfIdle ==
    ASSUME NEW q \in Runs, ~Active(q)
    PROVE  \/ Place(q) = 1
           \/ Place(q) = 7 /\ task[q].phase = "failed" /\ stopped[q] = "gold_facts"
  BY DEF Place, Active, Ended

(* Up to silver_clean: what failed runs have built of gold stays, and      *)
(* follows from silver unless they missed that it was written.             *)
LEMMA EarlierKeepsRefs ==
    ASSUME JobInv, RefInv, NEW r \in Runs, Earlier(r), Noted(r),
           UNCHANGED <<gold, stopped, published>>
    PROVE  RefInv'
  <1>1. /\ \A q \in Runs \ {r} : ~Active(q) /\ task'[q] = task[q]
        /\ OneRunAtWork'
    BY NobodyElse DEF JobInv, RefInv
  <1>2. PICK new : task' = [task EXCEPT ![r] = new] /\ EarlierMove(r, new)
    BY EarlierMoves DEF JobInv
  <1>3. task'[r] = new
    BY <1>2, TaskTaken DEF JobInv
  <1>4. /\ task'[r].phase = "cleaned" => task'[r].at = 1
        /\ task'[r].phase \notin {"built", "failed"}
    BY <1>2, <1>3 DEF EarlierMove
  <1>5. Place(r)' = 1
    BY <1>4 DEF Place
  <1>6. ASSUME NEW q \in Runs \ {r}
        PROVE  Follows(Place(q), missed[q])' /\ task'[q].phase # "cleaned"
    <2>1. ~Active(q) /\ task'[q] = task[q] /\ Place(q)' = Place(q) /\ task[q].phase # "cleaned"
      BY <1>1 DEF Place, Active, Ended
    <2>2. CASE Place(q) = 1
      <3>1. PICK layers : layers = missed'[q]
        OBVIOUS
      <3>2. Follows(1, layers)'
        BY DEF Follows, Made, DimsFollow, FactsResolve
      <3> QED
        BY <2>1, <2>2, <3>1, <3>2 DEF Follows, FactsResolve, ResolveIn, ResolvesBut
    <2>3. CASE Place(q) = 7 /\ task[q].phase = "failed"
      <3>1. /\ Made(7)
            /\ DimsFollow(7) \/ "silver" \in missed[q]
        BY <2>3 DEF RefInv, GoldFollows, Follows
      <3>2. \/ "silver" \in missed'[q]
            \/ "silver" \notin missed[q] /\ UNCHANGED silver
        BY <2>3 DEF Noted
      <3>3. Made(7)' /\ (DimsFollow(7)' \/ "silver" \in missed'[q])
        BY <3>1, <3>2 DEF Made, DimsFollow
      <3> QED
        BY <2>1, <2>3, <3>3 DEF Follows, FactsResolve
    <2> QED
      BY <2>1, <2>2, <2>3, PlaceOfIdle
  <1>7. Follows(Place(r), missed[r])'
    <2>1. PICK layers : layers = missed'[r]
      OBVIOUS
    <2>2. Follows(1, layers)'
      BY DEF Follows, Made, DimsFollow, FactsResolve
    <2> QED
      BY <1>5, <2>1, <2>2 DEF Follows, FactsResolve, ResolveIn, ResolvesBut
  <1>8. GoldFollows'
    <2>1. \A q \in Runs : q = r \/ q \in Runs \ {r}
      OBVIOUS
    <2> QED
      BY <1>4, <1>6, <1>7, <2>1 DEF GoldFollows
  <1>9. PublishedResolve'
    BY DEF RefInv, PublishedResolve, IsPublished, Resolves, Overtaken
  <1> QED
    BY <1>1, <1>8, <1>9 DEF RefInv

(* A step between tables of gold goes on with what there is.               *)
LEMMA StandingKeepsRefs ==
    ASSUME JobInv, RefInv, NEW r \in Runs, FinishJob(r) \/ FailTask(r) \/ Repair(r)
    PROVE  RefInv'
  <1>1. /\ \A q \in Runs \ {r} : ~Active(q) /\ task'[q] = task[q]
        /\ OneRunAtWork'
    BY NobodyElse DEF JobInv, RefInv, Later
  <1>2. /\ UNCHANGED <<silver, gold, missed, published>>
        /\ \A q \in Runs \ {r} : stopped'[q] = stopped[q]
    BY DEF FinishJob, FailTask, Repair, goldVars, JobInv, StoppedKnown
  <1>3. \A q \in Runs \ {r} : Place(q)' = Place(q)
    BY <1>1, <1>2 DEF Place
  <1>4. /\ \/ Place(r)' = 1
           \/ Place(r)' = Place(r)
           \/ Place(r)' = 7 /\ Place(r) \in 7 .. 10
        /\ task'[r].phase = "cleaned" => task'[r].at \in 1 .. 9
    <2>1. DOMAIN task[r] = TaskFields /\ (task[r].phase = "cleaned" => task[r].at \in 1 .. 9)
      BY DEF JobInv, LandInv, Standing, Located, Writers, RefInv, GoldFollows
    <2>2. CASE FinishJob(r)
      <3>1. PICK new : new = [task[r] EXCEPT !.phase = "succeeded"]
        OBVIOUS
      <3>2. new.phase = "succeeded" /\ task' = [task EXCEPT ![r] = new]
        BY <2>1, <2>2, <3>1 DEF FinishJob, GoTo, TaskFields
      <3>3. task'[r].phase = "succeeded"
        BY <3>2, TaskTaken DEF JobInv
      <3> QED
        BY <3>3 DEF Place
    <2>3. CASE FailTask(r)
      <3>1. PICK new : new = [Idle EXCEPT !.phase = "failed"]
        OBVIOUS
      <3>2. new.phase = "failed" /\ task' = [task EXCEPT ![r] = new]
        BY <2>3, <3>1 DEF FailTask, Idle
      <3>3. task'[r].phase = "failed"
        BY <3>2, TaskTaken DEF JobInv
      <3>4. PICK t \in TasksAt(r) : stopped' = [stopped EXCEPT ![r] = t]
        BY <2>3 DEF FailTask
      <3>5. stopped'[r] = t
        BY <3>4 DEF JobInv, StoppedKnown
      <3>6. CASE t = "gold_facts"
        <4>1. Place(r)' = 7
          BY <3>3, <3>5, <3>6 DEF Place
        <4>2. \/ task[r].phase = "cleaned" /\ task[r].at >= 7
              \/ task[r].phase = "built" /\ stopped[r] # "idempotency_check"
          BY <2>1, <3>4, <3>6 DEF TasksAt, StillIn, FirstFact
        <4>3. Place(r) \in 7 .. 10
          BY <2>1, <4>2 DEF Place
        <4> QED
          BY <3>3, <4>1, <4>3
      <3>7. CASE t # "gold_facts"
        BY <3>3, <3>5, <3>7 DEF Place
      <3> QED
        BY <3>6, <3>7
    <2>4. CASE Repair(r)
      <3>1. PICK x : task' = [task EXCEPT ![r] = x] /\ TakenUp(stopped[r], x)
        BY <2>4, RepairTakesUp DEF JobInv
      <3>2. task'[r] = x /\ UNCHANGED stopped /\ task[r].phase = "failed"
        BY <2>4, <3>1, TaskTaken DEF JobInv, Repair, goldVars
      <3> QED
        BY <3>1, <3>2 DEF TakenUp, Place
    <2> QED
      BY <2>2, <2>3, <2>4
  <1>5. Follows(Place(r)', missed[r])
    <2>1. Follows(Place(r), missed[r])
      BY DEF RefInv, GoldFollows
    <2>2. CASE Place(r)' = 1
      BY <2>2, NothingFollows
    <2>3. CASE Place(r)' = 7 /\ Place(r) \in 7 .. 10
      <3>1. PICK n \in 7 .. 10 : n = Place(r)
        BY <2>3
      <3>2. Made(n) /\ (DimsFollow(n) \/ "silver" \in missed[r])
        BY <2>1, <3>1 DEF Follows
      <3>3. Made(7) /\ (DimsFollow(7) \/ "silver" \in missed[r])
        BY <3>2 DEF Made, DimsFollow
      <3> QED
        BY <2>3, <3>3 DEF Follows, FactsResolve
    <2> QED
      BY <1>4, <2>1, <2>2, <2>3
  <1>6. ASSUME NEW n, NEW layers, Follows(n, layers) PROVE Follows(n, layers)'
    BY <1>2, <1>6 DEF Follows, Made, DimsFollow, FactsResolve, ResolveIn, ResolvesBut
  <1>7. ASSUME NEW q \in Runs PROVE Follows(Place(q), missed[q])'
    <2>1. Follows(Place(q)', missed[q])
      <3>1. CASE q = r
        BY <1>5, <3>1
      <3>2. CASE q # r
        BY <1>3, <3>2 DEF RefInv, GoldFollows
      <3> QED
        BY <3>1, <3>2
    <2>2. PICK n, layers : n = Place(q)' /\ layers = missed[q]
      OBVIOUS
    <2>3. Follows(n, layers)'
      BY <1>6, <2>1, <2>2
    <2> QED
      BY <1>2, <2>2, <2>3 DEF Follows, Made, DimsFollow, FactsResolve, ResolveIn, ResolvesBut
  <1>8. GoldFollows'
    <2>1. \A q \in Runs : task'[q].phase = "cleaned" => task'[q].at \in 1 .. 9
      BY <1>1, <1>4 DEF Active, Ended
    <2> QED
      BY <1>7, <2>1 DEF GoldFollows
  <1>9. PublishedResolve'
    BY <1>2 DEF RefInv, PublishedResolve, IsPublished, Resolves, Overtaken
  <1> QED
    BY <1>1, <1>8, <1>9 DEF RefInv

LEMMA BuildMoves ==
    ASSUME LandInv, NEW r \in Runs, BuildTable(r)
    PROVE  /\ task[r].phase = "cleaned"
           /\ \/ /\ task[r].at < 9 /\ published' = Nothing
                 /\ task'[r].phase = "cleaned" /\ task'[r].at = task[r].at + 1
              \/ /\ ~(task[r].at < 9) /\ task'[r].phase = "built"
                 /\ published' = [silver |-> silver, bronze |-> [x \in TableNames |-> Now(x)],
                                  missed |-> missed[r]]
           /\ \A q \in Runs \ {r} : task'[q] = task[q]
  <1>1. DOMAIN task[r] = TaskFields
    BY DEF LandInv, Standing, Located, Writers
  <1>2. CASE task[r].at < 9
    <2>1. PICK new : new = [task[r] EXCEPT !.at = task[r].at + 1]
      OBVIOUS
    <2>2. /\ task' = [task EXCEPT ![r] = new] /\ task[r].phase = "cleaned"
          /\ published' = Nothing
      BY <1>2, <2>1, GoldOrder DEF BuildTable
    <2>3. new.phase = "cleaned" /\ new.at = task[r].at + 1
      BY <1>1, <2>1, <2>2 DEF TaskFields
    <2> QED
      BY <1>2, <2>2, <2>3, TaskTaken
  <1>3. CASE ~(task[r].at < 9)
    <2>1. PICK new : new = [task[r] EXCEPT !.phase = "built"]
      OBVIOUS
    <2>2. /\ task' = [task EXCEPT ![r] = new] /\ task[r].phase = "cleaned"
          /\ published' = [silver |-> silver, bronze |-> [x \in TableNames |-> Now(x)],
                           missed |-> missed[r]]
      BY <1>3, <2>1, GoldOrder DEF BuildTable, GoTo
    <2>3. new.phase = "built"
      BY <1>1, <2>1 DEF TaskFields
    <2> QED
      BY <1>3, <2>2, <2>3, TaskTaken
  <1> QED
    BY <1>2, <1>3

LEMMA BuildKeepsRefs ==
    ASSUME JobInv, SilverIsClean, RefInv, NEW r \in Runs, BuildTable(r)
    PROVE  RefInv'
  <1>1. /\ \A q \in Runs \ {r} : ~Active(q) /\ task'[q] = task[q]
        /\ OneRunAtWork'
    BY NobodyElse DEF JobInv, RefInv, Later
  <1>2. PICK n \in 1 .. 9 : n = task[r].at /\ Follows(n, missed[r])
    BY DEF BuildTable, RefInv, GoldFollows, Place
  <1>built. n = 9 => /\ task'[r].phase = "built"
                     /\ published' = [silver |-> silver, bronze |-> [x \in TableNames |-> Now(x)],
                                   missed |-> missed[r]]
    <2>1. LandInv
      BY DEF JobInv
    <2>2. n = 9 => ~(task[r].at < 9)
      BY <1>2
    <2> QED
      BY <2>1, <2>2, BuildMoves
  <1>3. /\ UNCHANGED <<silver, stopped>>
        /\ gold' = CreateOrReplace(gold, GoldTables[n], Build(GoldTables[n], silver, gold))
    BY <1>2 DEF BuildTable
  <1>4. PICK layers : layers = missed[r]
    OBVIOUS
  <1>5. Follows(n + 1, layers)' /\ (n < 7 => DimsFollow(n + 1)')
    <2>1. "orders" \in DOMAIN silver
      <3>1. "orders" \in TableNames
        BY RegistryIsIngested DEF BusinessKey
      <3> QED
        BY <3>1 DEF BuildTable, JobInv, RouteInv, Progress
    <2>2. Dated(silver)
      BY <2>1, SilverOrdersDated
    <2>3. Follows(n, layers)
      BY <1>2, <1>4
    <2> QED
      BY <1>3, <2>2, <2>3, BuildExtends
  <1>6. \A q \in Runs : missed'[q] = missed[q] \ (IF n = 6 THEN {"silver"} ELSE {})
    <2>1. Note({}, IF n = 6 THEN {"silver"} ELSE {})
      BY <1>2 DEF BuildTable, FirstFact
    <2> QED
      BY <2>1 DEF Note
  <1>7. PICK left : left = missed'[r]
    OBVIOUS
  <1>8. Follows(n + 1, left)'
    <2>1. CASE n = 6
      <3>1. Made(7)' /\ DimsFollow(7)'
        BY <1>5, <2>1 DEF Follows
      <3> QED
        BY <2>1, <3>1 DEF Follows, FactsResolve
    <2>2. CASE n # 6
      <3>1. left = layers
        BY <1>4, <1>6, <1>7, <2>2
      <3> QED
        BY <1>5, <3>1
    <2> QED
      BY <2>1, <2>2
  <1>9. Follows(Place(r), missed[r])'
    <2>1. CASE n < 9
      <3>1. Place(r)' = n + 1
        BY <1>2, <2>1, BuildMoves DEF JobInv, Place
      <3> QED
        BY <1>7, <1>8, <3>1 DEF Follows, Made, DimsFollow, FactsResolve, ResolveIn, ResolvesBut
    <2>2. CASE n = 9
      <3>1. Place(r)' = 10 \/ Place(r)' = 1
        BY <1>built, <2>2 DEF Place
      <3>2. CASE Place(r)' = 10
        BY <1>7, <1>8, <2>2, <3>2
           DEF Follows, Made, DimsFollow, FactsResolve, ResolveIn, ResolvesBut
      <3>3. CASE Place(r)' = 1
        <4>1. Follows(1, left)'
          BY DEF Follows, Made, DimsFollow, FactsResolve
        <4> QED
          BY <1>7, <3>3, <4>1
             DEF Follows, Made, DimsFollow, FactsResolve, ResolveIn, ResolvesBut
      <3> QED
        BY <3>1, <3>2, <3>3
    <2> QED
      BY <2>1, <2>2
  <1>10. ASSUME NEW q \in Runs \ {r}
         PROVE  Follows(Place(q), missed[q])' /\ task'[q].phase # "cleaned"
    <2>1. /\ ~Active(q) /\ task'[q] = task[q] /\ Place(q)' = Place(q)
          /\ task'[q].phase # "cleaned"
      BY <1>1, <1>3 DEF Place, Active, Ended
    <2>2. CASE Place(q) = 1
      <3>1. PICK some : some = missed'[q]
        OBVIOUS
      <3>2. Follows(1, some)'
        BY DEF Follows, Made, DimsFollow, FactsResolve
      <3> QED
        BY <2>1, <2>2, <3>1, <3>2
           DEF Follows, Made, DimsFollow, FactsResolve, ResolveIn, ResolvesBut
    <2>3. CASE Place(q) = 7
      <3>1. Made(7) /\ (DimsFollow(7) \/ "silver" \in missed[q])
        BY <2>3 DEF RefInv, GoldFollows, Follows
      <3>2. Made(7)' /\ (DimsFollow(7) => DimsFollow(7)')
        BY <1>3, <3>1, DimsStay
      <3>3. DimsFollow(7)' \/ "silver" \in missed'[q]
        <4>1. CASE n = 6
          BY <1>5, <4>1
        <4>2. CASE n # 6
          BY <1>6, <3>1, <3>2, <4>2
        <4> QED
          BY <4>1, <4>2
      <3> QED
        BY <2>1, <2>3, <3>2, <3>3 DEF Follows, FactsResolve
    <2> QED
      BY <2>1, <2>2, <2>3, PlaceOfIdle
  <1>11. GoldFollows'
    <2>1. \A q \in Runs : q = r \/ q \in Runs \ {r}
      OBVIOUS
    <2>2. task'[r].phase = "cleaned" => task'[r].at \in 1 .. 9
      BY <1>2, BuildMoves DEF JobInv
    <2> QED
      BY <1>9, <1>10, <2>1, <2>2 DEF GoldFollows
  <1>12. PublishedResolve'
    <2>1. CASE n < 9
      BY <1>2, <2>1, BuildMoves DEF JobInv, PublishedResolve, IsPublished
    <2>2. CASE n = 9
      <3>1. published'.missed = layers
        BY <1>4, <1>built, <2>2
      <3>2. /\ ResolveIn("fact_order", layers)' /\ ResolveIn("fact_order_item", layers)'
            /\ ResolveIn("fact_payment", layers)'
        BY <1>5, <2>2 DEF Follows, FactsResolve
      <3>3. \A fk \in ForeignKeys : ResolvesBut(fk, layers)'
        BY <3>2, KnownKeys DEF ResolveIn
      <3> QED
        BY <3>1, <3>3 DEF PublishedResolve, Resolves, ResolvesBut, Overtaken
    <2> QED
      BY <2>1, <2>2
  <1> QED
    BY <1>1, <1>11, <1>12 DEF RefInv

LEMMA RefsInvariant == WSpec => [](JobInv /\ SilverIsClean /\ RefInv)
  <1>1. WInit => RefInv
    <2> SUFFICES ASSUME WInit PROVE RefInv
      OBVIOUS
    <2>1. \A r \in Runs : task[r].phase = "idle" /\ ~Active(r)
      BY DEF WInit, Init, Idle, Writers, Active
    <2>2. \A r \in Runs : Follows(Place(r), missed[r])
      BY <2>1, NothingFollows DEF Place
    <2> QED
      BY <2>1, <2>2 DEF WInit, RefInv, OneRunAtWork, GoldFollows, PublishedResolve, IsPublished
  <1>2. ASSUME JobInv, SilverIsClean, RefInv, [WNext]_wvars
        PROVE  RefInv'
    <2>1. ASSUME NEW r \in Runs, Earlier(r) /\ Noted(r), UNCHANGED <<gold, stopped, published>>
          PROVE  RefInv'
      BY <1>2, <2>1, EarlierKeepsRefs
    <2>2. ASSUME NEW r \in Runs, Later(r)
          PROVE  RefInv'
      BY <1>2, <2>2, BuildKeepsRefs, StandingKeepsRefs DEF Later
    <2>3. CASE UNCHANGED <<task, silver, gold, stopped, missed, published>>
      <3>1. OneRunAtWork'
        BY <1>2, <2>3 DEF RefInv, OneRunAtWork, Active, Ended
      <3>2. GoldFollows'
        BY <1>2, <2>3 DEF RefInv, GoldFollows, Follows, Place, Made, DimsFollow, FactsResolve,
                          ResolveIn, ResolvesBut
      <3>3. PublishedResolve'
        BY <1>2, <2>3 DEF RefInv, PublishedResolve, IsPublished, Resolves, Overtaken
      <3> QED
        BY <3>1, <3>2, <3>3 DEF RefInv
    <2> QED
      BY <1>2, <2>1, <2>2, <2>3, JobSteps DEF ReplaceFiles, wvars, vars, goldVars
  <1> QED
    BY <1>1, <1>2, JobInvariant, JobKeepsSilverClean, PTL DEF WSpec

(* ReferencesResolve: whenever gold is whole, however many runs failed and *)
(* at whichever task they were taken up again, and whatever silver was     *)
(* when dim_customer was seeded, a key in a fact is a key of its           *)
(* dimension, or it is NULL and may be.  A status, a payment type and a    *)
(* date may only be missing from a fact if another run changed silver      *)
(* between the failure and the repair of the one that finished gold.       *)
THEOREM JobReferencesResolve == WSpec => []ReferencesResolve
  <1>1. RefInv => ReferencesResolve
    BY DEF RefInv, PublishedResolve, ReferencesResolve
  <1> QED
    BY <1>1, RefsInvariant, PTL

-----------------------------------------------------------------------------
(***************************************************************************)
(* Freshness.  A run cleans a table after it has ingested all of them, and *)
(* nobody else lands anything meanwhile, so the silver tables behind it    *)
(* have the valid rows of what landed last.  A run that failed later than  *)
(* that may still say so, until another lands something; and again once    *)
(* another has cleaned it all.                                             *)
(***************************************************************************)
HasLatest(t, landed, S) ==
    \A r \in LastLanded(landed) :
        Valid(t, Typed(r.src)) /\ ~Outranked(t, r, landed) => Typed(r.src) \in Rows(S, t)

Fresh(t) == HasLatest(t, Now(t), silver)

AllFresh == \A t \in TableNames : Fresh(t)

FreshSoFar(x) ==
    /\ x.phase \in {"count", "clean", "quarantine", "record"} =>
          \A i \in DOMAIN Tables : i < x.at => Fresh(Tables[i])
    /\ x.phase \in {"quarantine", "record"} => Fresh(Tables[x.at])

ComesFresh(x) == FreshSoFar(x) /\ (x.phase = "cleaned" => AllFresh)

(* A run that has silver_clean behind it.                                  *)
AtClean(r) ==
    \/ task[r].phase \in {"cleaned", "built"}
    \/ task[r].phase = "failed" /\ stopped[r] \in {"gold_dims", "gold_facts", "idempotency_check"}

CleanIsFresh == \A r \in Runs : AtClean(r) /\ "bronze" \notin missed[r] => AllFresh

PublishedFresh ==
    IsPublished /\ ~Overtaken("bronze") =>
        \A t \in TableNames : HasLatest(t, published.bronze[t], published.silver)

FreshInv == PublishedFresh /\ (\A r \in Runs : FreshSoFar(task[r])) /\ CleanIsFresh

(* A row of the last landing that nothing outranks survives.              *)
LEMMA LatestSurvives ==
    ASSUME Versioned, WholeFiles, NEW t \in TableNames, NEW rows \in Deduped(t),
           NEW r \in LastLanded(Now(t)), ~Outranked(t, r, Now(t))
    PROVE  \E w \in rows : w.src = Typed(r.src)
  <1> DEFINE typed   == TypedRows(t)
             winners == Winners(t, typed)
             tied    == {w \in winners : \E q \in winners : q # w /\ SameKey(t, q.src, w.src)}
  <1>1. r \in Now(t) /\ \A q \in Now(t) : q.ingest_ts <= r.ingest_ts
    BY DEF LastLanded
  <1>2. \A x \in Now(t) : x = [src |-> x.src, ingest_ts |-> x.ingest_ts] /\ x.ingest_ts \in Nat
    BY CurrentVersion DEF BronzeRow
  <1>3. PICK w : w = [r EXCEPT !.src = Typed(r.src)]
    OBVIOUS
  <1>4. w \in typed /\ w.src = Typed(r.src) /\ w.ingest_ts = r.ingest_ts
    BY <1>1, <1>2, <1>3 DEF TypedRows
  <1>5. \A q \in typed : SequenceOf(t, q.src) \in Nat
    <2> SUFFICES ASSUME NEW q \in typed PROVE SequenceOf(t, q.src) \in Nat
      OBVIOUS
    <2>1. PICK f \in Uploads : q.src \in TypedFile(f, t)
      BY TypedBronze
    <2> QED
      BY <2>1, UploadedTable
  <1>6. ASSUME NEW q \in typed, SameKey(t, q.src, w.src), q # w
        PROVE  /\ SequenceOf(t, q.src) <= SequenceOf(t, w.src)
               /\ q.ingest_ts < w.ingest_ts
               /\ q.ingest_ts \in Nat
    <2>1. PICK x \in Now(t) : q = [x EXCEPT !.src = Typed(x.src)]
      BY DEF TypedRows
    <2>2. q.src = Typed(x.src) /\ q.ingest_ts = x.ingest_ts /\ x \in Now(t) \ {r}
      BY <1>2, <1>3, <1>6, <2>1
    <2>3. /\ q.ingest_ts # w.ingest_ts
          /\ ~(t \in DOMAIN SequenceCol /\ SequenceOf(t, q.src) > SequenceOf(t, w.src))
      BY <1>4, <1>6, <2>2 DEF Outranked
    <2>4. q.ingest_ts < w.ingest_ts /\ q.ingest_ts \in Nat
      BY <1>1, <1>2, <1>4, <2>2, <2>3
    <2>5. CASE t \in DOMAIN SequenceCol
      BY <1>4, <1>5, <2>3, <2>4, <2>5
    <2>6. CASE t \notin DOMAIN SequenceCol
      BY <2>4, <2>6 DEF SequenceOf
    <2> QED
      BY <2>5, <2>6
  <1>7. w.ingest_ts \in Nat /\ SequenceOf(t, w.src) \in Nat
    BY <1>1, <1>2, <1>4, <1>5
  <1>8. ASSUME NEW q \in typed, SameKey(t, q.src, w.src), q # w
        PROVE  Beats(t, w, q) /\ ~Beats(t, q, w)
    BY <1>5, <1>6, <1>7, <1>8 DEF Beats
  <1>9. ~Beats(t, w, w)
    BY <1>7 DEF Beats
  <1> HIDE DEF typed
  <1>10. w \in winners
    BY <1>4, <1>8, <1>9 DEF Winners
  <1>11. w \notin tied
    <2> SUFFICES ASSUME NEW q \in winners, q # w, SameKey(t, q.src, w.src) PROVE FALSE
      OBVIOUS
    <2>1. q \in typed /\ Beats(t, w, q)
      BY <1>8 DEF Winners
    <2>2. SameKey(t, w.src, q.src)
      BY DEF SameKey
    <2> QED
      BY <1>4, <2>1, <2>2 DEF Winners
  <1>12. rows \in Survivors(t, typed)
    BY DedupedAreSurvivors DEF typed
  <1>13. winners \ tied \subseteq rows
    BY <1>12 DEF Survivors, OneOfEachKey
  <1> QED
    BY <1>4, <1>10, <1>11, <1>13

LEMMA CleanedIsFresh ==
    ASSUME Versioned, WholeFiles, NEW t \in TableNames, NEW rows \in Deduped(t),
           silver' = Overwritten(silver, t, Clean(t, rows)), UNCHANGED bronze
    PROVE  Fresh(t)' /\ \A u : u # t /\ u \in DOMAIN silver /\ Fresh(u) => Fresh(u)'
  <1>1. /\ silver'[t] = Clean(t, rows)
        /\ \A u \in DOMAIN silver : u # t => silver'[u] = silver[u]
    BY DEF Overwritten
  <1>2. ASSUME NEW r \in LastLanded(Now(t)), Valid(t, Typed(r.src)), ~Outranked(t, r, Now(t))
        PROVE  Typed(r.src) \in Rows(silver', t)
    <2>1. PICK w \in rows : w.src = Typed(r.src)
      BY <1>2, LatestSurvives
    <2>2. ~Rejected(t, w)
      BY <1>2, <2>1 DEF Valid, Rejected, FailedRules, Fails
    <2> QED
      BY <1>1, <2>1, <2>2 DEF Clean, Rows
  <1>3. \A u : Now(u)' = Now(u)
    BY DEF Now
  <1>4. Fresh(t)'
    BY <1>2, <1>3 DEF Fresh, HasLatest
  <1>5. ASSUME NEW u, u # t, u \in DOMAIN silver, Fresh(u) PROVE Fresh(u)'
    <2>1. Rows(silver', u) = Rows(silver, u)
      BY <1>1, <1>5 DEF Rows
    <2> QED
      BY <1>3, <1>5, <2>1 DEF Fresh, HasLatest
  <1> QED
    BY <1>4, <1>5

LEMMA FreshKept ==
    ASSUME UNCHANGED <<bronze, silver>>
    PROVE  \A t : Fresh(t)' <=> Fresh(t)
  BY DEF Fresh, HasLatest, Now

LEMMA AfterTableFresh ==
    ASSUME LandInv, NEW r \in Runs, task[r].phase \in {"clean", "record"},
           \A i \in DOMAIN Tables : i < task[r].at \/ i = task[r].at => Fresh(Tables[i])',
           NEW x, x = AfterTable(r)
    PROVE  ComesFresh(x)'
  <1>1. /\ r \in Writers /\ r # Probe /\ DOMAIN task[r] = TaskFields
        /\ task[r].at \in DOMAIN Tables
    BY ProbeIsNoRun DEF LandInv, Standing, Located, Writers, OnTables
  <1>2. CASE task[r].at < Len(Tables)
    <2>1. x.phase = "count" /\ x.at = task[r].at + 1
      BY <1>1, <1>2 DEF AfterTable, TaskFields
    <2>2. \A i \in DOMAIN Tables : i < x.at => i < task[r].at \/ i = task[r].at
      BY <1>1, <2>1, TablesAreListed
    <2> QED
      BY <2>1, <2>2 DEF ComesFresh, FreshSoFar
  <1>3. CASE ~(task[r].at < Len(Tables))
    <2>1. x.phase = "cleaned"
      BY <1>1, <1>3 DEF AfterTable, TaskFields
    <2>2. \A i \in DOMAIN Tables : i < task[r].at \/ i = task[r].at
      BY <1>1, <1>3, TablesAreListed
    <2>3. \A t \in TableNames : Fresh(t)'
      BY <2>2 DEF TableNames
    <2> QED
      BY <2>1, <2>3 DEF ComesFresh, FreshSoFar, AllFresh
  <1> QED
    BY <1>2, <1>3

LEMMA EarlierComesFresh ==
    ASSUME JobInv, FreshInv, NEW r \in Runs, Earlier(r)
    PROVE  ComesFresh(task[r])'
  <1>0. LandInv /\ RouteInv /\ Versioned /\ WholeFiles
    BY DEF JobInv, LandInv, RouteInv, BronzeInv
  <1>1. r \in Writers /\ r # Probe /\ DOMAIN task[r] = TaskFields
    BY <1>0, ProbeIsNoRun DEF LandInv, Standing, Located, Writers
  <1>2. ASSUME NEW x, task' = [task EXCEPT ![r] = x], ComesFresh(x)'
        PROVE  ComesFresh(task[r])'
    <2>1. task'[r] = x
      BY <1>0, <1>2, TaskTaken
    <2> QED
      BY <1>2, <2>1 DEF ComesFresh, FreshSoFar
  <1>3. ASSUME NEW new, task' = [task EXCEPT ![r] = new],
               new.phase = "ingest" \/ (new.phase = "count" /\ new.at = 1)
        PROVE  ComesFresh(task[r])'
    <2>1. PICK x : x = new
      OBVIOUS
    <2>2. ~\E i \in DOMAIN Tables : i < 1
      BY TablesAreListed
    <2>3. ComesFresh(x)'
      BY <1>3, <2>1, <2>2 DEF ComesFresh, FreshSoFar
    <2> QED
      BY <1>2, <1>3, <2>1, <2>3
  <1>4. CASE \E mode \in Modes : Start(r, mode)
    <2>1. PICK mode \in Modes :
            task' = [task EXCEPT ![r] = [Idle EXCEPT !.phase = "ingest", !.mode = mode]]
      BY <1>4 DEF Start
    <2> DEFINE new == [Idle EXCEPT !.phase = "ingest", !.mode = mode]
    <2>2. new.phase = "ingest" /\ task' = [task EXCEPT ![r] = new]
      BY <2>1 DEF Idle
    <2> HIDE DEF new
    <2> QED
      BY <1>3, <2>2
  <1>5. CASE IngestTable(r)
    <2>1. CASE task[r].at < Len(Tables)
      <3> DEFINE new == [task[r] EXCEPT !.at = task[r].at + 1]
      <3>1. new.phase = "ingest" /\ task' = [task EXCEPT ![r] = new]
        BY <1>1, <1>5, <2>1 DEF IngestTable, TaskFields
      <3> HIDE DEF new
      <3> QED
        BY <1>3, <3>1
    <2>2. CASE ~(task[r].at < Len(Tables))
      <3> DEFINE new == [task[r] EXCEPT !.phase = "count", !.at = 1]
      <3>1. new.phase = "count" /\ new.at = 1 /\ task' = [task EXCEPT ![r] = new]
        BY <1>1, <1>5, <2>2 DEF IngestTable, TaskFields
      <3> HIDE DEF new
      <3> QED
        BY <1>3, <3>1
    <2> QED
      BY <2>1, <2>2
  <1>6. CASE CountTable(r)
    <2>1. PICK counts : /\ task' = [task EXCEPT ![r].phase = "clean", ![r].counts = counts]
                        /\ task[r].phase = "count" /\ UNCHANGED <<bronze, silver>>
      BY <1>6 DEF CountTable
    <2>2. PICK x : x = [task[r] EXCEPT !.phase = "clean", !.counts = counts]
      OBVIOUS
    <2>3. x.phase = "clean" /\ x.at = task[r].at /\ task' = [task EXCEPT ![r] = x]
      BY <1>1, <2>1, <2>2 DEF TaskFields
    <2>4. ComesFresh(x)'
      BY <2>1, <2>3, FreshKept DEF FreshInv, ComesFresh, FreshSoFar
    <2> QED
      BY <1>2, <2>3, <2>4
  <1>7. CASE WriteClean(r)
    <2>1. task[r].phase = "clean" /\ UNCHANGED bronze
      BY <1>7 DEF WriteClean
    <2>2. PICK t \in TableNames : t = At(r) /\ t = Tables[task[r].at]
      BY <1>0, <2>1, RunStands
    <2>3. PICK rows \in Deduped(t) : silver' = Overwritten(silver, t, Clean(t, rows))
      BY <1>7, <2>2 DEF WriteClean
    <2>4. Fresh(t)' /\ \A u : u # t /\ u \in DOMAIN silver /\ Fresh(u) => Fresh(u)'
      BY <1>0, <2>1, <2>3, CleanedIsFresh
    <2>5. \A i \in DOMAIN Tables : i < task[r].at \/ i = task[r].at => Fresh(Tables[i])'
      <3> SUFFICES ASSUME NEW i \in DOMAIN Tables, i < task[r].at \/ i = task[r].at
                   PROVE  Fresh(Tables[i])'
        OBVIOUS
      <3>1. PICK u : u = Tables[i]
        OBVIOUS
      <3>2. CASE u = t
        BY <2>4, <3>1, <3>2
      <3>3. CASE u # t
        <4>1. u \in DOMAIN silver /\ Fresh(u)
          BY <1>0, <2>1, <2>2, <3>1, <3>3 DEF RouteInv, Progress, FreshInv, FreshSoFar
        <4>2. Fresh(u)'
          BY <2>4, <3>3, <4>1
        <4> QED
          BY <3>1, <4>2
      <3> QED
        BY <3>2, <3>3
    <2>6. CASE HasRules(At(r))
      <3>1. PICK x : x = [task[r] EXCEPT !.phase = "quarantine"]
        OBVIOUS
      <3>2. x.phase = "quarantine" /\ x.at = task[r].at /\ task' = [task EXCEPT ![r] = x]
        BY <1>1, <1>7, <2>6, <3>1 DEF WriteClean, TaskFields
      <3>3. task[r].at \in DOMAIN Tables
        BY <1>0, <1>1, <2>1 DEF LandInv, Standing, Located, OnTables
      <3>4. ComesFresh(x)'
        BY <2>5, <3>2, <3>3 DEF ComesFresh, FreshSoFar
      <3> QED
        BY <1>2, <3>2, <3>4
    <2>7. CASE ~HasRules(At(r))
      <3>1. PICK x : x = AfterTable(r)
        OBVIOUS
      <3>2. task' = [task EXCEPT ![r] = x]
        BY <1>7, <2>7, <3>1 DEF WriteClean
      <3>3. ComesFresh(x)'
        BY <1>0, <2>1, <2>5, <3>1, AfterTableFresh
      <3> QED
        BY <1>2, <3>2, <3>3
    <2> QED
      BY <2>6, <2>7
  <1>8. CASE WriteQuarantine(r)
    <2>1. task[r].phase = "quarantine" /\ UNCHANGED <<bronze, silver>>
      BY <1>8 DEF WriteQuarantine
    <2>2. PICK x : x = [task[r] EXCEPT !.phase = "record", !.n_clean = Cardinality(silver[At(r)])]
      OBVIOUS
    <2>3. x.phase = "record" /\ x.at = task[r].at /\ task' = [task EXCEPT ![r] = x]
      BY <1>1, <1>8, <2>2 DEF WriteQuarantine, TaskFields
    <2>4. ComesFresh(x)'
      BY <2>1, <2>3, FreshKept DEF FreshInv, ComesFresh, FreshSoFar
    <2> QED
      BY <1>2, <2>3, <2>4
  <1>9. CASE RecordDq(r)
    <2>1. task[r].phase = "record" /\ UNCHANGED <<bronze, silver>>
      BY <1>9 DEF RecordDq
    <2>2. PICK x : x = AfterTable(r)
      OBVIOUS
    <2>3. task' = [task EXCEPT ![r] = x]
      BY <1>9, <2>2 DEF RecordDq
    <2>4. \A i \in DOMAIN Tables : i < task[r].at \/ i = task[r].at => Fresh(Tables[i])
      BY <2>1 DEF FreshInv, ComesFresh, FreshSoFar
    <2>5. \A i \in DOMAIN Tables : i < task[r].at \/ i = task[r].at => Fresh(Tables[i])'
      <3> SUFFICES ASSUME NEW i \in DOMAIN Tables, i < task[r].at \/ i = task[r].at
                   PROVE  Fresh(Tables[i])'
        OBVIOUS
      <3>1. PICK u : u = Tables[i] /\ Fresh(u)
        BY <2>4
      <3>2. Fresh(u)'
        BY <2>1, <3>1, FreshKept
      <3> QED
        BY <3>1, <3>2 DEF Fresh
    <2>6. ComesFresh(x)'
      BY <1>0, <2>1, <2>2, <2>5, AfterTableFresh
    <2> QED
      BY <1>2, <2>3, <2>6
  <1> QED
    BY <1>4, <1>5, <1>6, <1>7, <1>8, <1>9 DEF Earlier, CleanStep

(* While nothing lands, cleaning a table once more leaves the rest fresh.  *)
LEMMA EarlierStaysFresh ==
    ASSUME LandInv, RouteInv, NEW r \in Runs, Earlier(r), UNCHANGED bronze,
           TableNames \subseteq DOMAIN silver, AllFresh
    PROVE  AllFresh'
  <1>1. CASE UNCHANGED silver
    <2>1. \A t : Fresh(t)' <=> Fresh(t)
      BY <1>1, FreshKept
    <2> QED
      BY <2>1 DEF AllFresh
  <1>2. CASE WriteClean(r)
    <2>1. task[r].phase = "clean"
      BY <1>2 DEF WriteClean
    <2>2. PICK t \in TableNames : t = At(r)
      BY <2>1, RunStands
    <2>3. PICK rows \in Deduped(t) : silver' = Overwritten(silver, t, Clean(t, rows))
      BY <1>2, <2>2 DEF WriteClean
    <2>4. Fresh(t)' /\ \A u : u # t /\ u \in DOMAIN silver /\ Fresh(u) => Fresh(u)'
      BY <2>3, CleanedIsFresh DEF LandInv, RouteInv, BronzeInv
    <2> QED
      BY <2>4 DEF AllFresh
  <1> QED
    BY <1>1, <1>2
       DEF Earlier, Start, IngestTable, CleanStep, CountTable, WriteQuarantine, RecordDq

LEMMA EarlierKeepsFresh ==
    ASSUME JobInv, RefInv, FreshInv, NEW r \in Runs, Earlier(r), Noted(r),
           UNCHANGED <<stopped, published>>
    PROVE  FreshInv'
  <1>1. \A q \in Runs \ {r} : ~Active(q) /\ task'[q] = task[q]
    BY NobodyElse DEF JobInv, RefInv
  <1>2. ComesFresh(task[r])'
    BY EarlierComesFresh
  <1>3. PublishedFresh'
    BY DEF FreshInv, PublishedFresh, IsPublished, Overtaken, HasLatest
  <1>4. \A q \in Runs : FreshSoFar(task[q])'
    <2>1. FreshSoFar(task[r])'
      BY <1>2 DEF ComesFresh
    <2>2. \A q \in Runs \ {r} : FreshSoFar(task[q])'
      BY <1>1 DEF FreshSoFar, Active, Ended
    <2> QED
      BY <2>1, <2>2
  <1>5. task'[r].phase = "cleaned" => AllFresh'
    BY <1>2 DEF ComesFresh
  <1>6. ASSUME NEW q \in Runs, AtClean(q)', "bronze" \notin missed'[q]
        PROVE  AllFresh'
    <2>1. CASE q = r
      <3>1. PICK new : task' = [task EXCEPT ![r] = new] /\ EarlierMove(r, new)
        BY EarlierMoves DEF JobInv
      <3>2. task'[r].phase \notin {"built", "failed"}
        BY <3>1, TaskTaken DEF JobInv, EarlierMove
      <3> QED
        BY <1>5, <1>6, <2>1, <3>2 DEF AtClean
    <2>2. CASE q # r
      <3>1. /\ task[q].phase = "failed" /\ AtClean(q)
            /\ stopped[q] \in {"gold_dims", "gold_facts", "idempotency_check"}
        BY <1>1, <1>6, <2>2 DEF AtClean, Active, Ended
      <3>2. TableNames \subseteq DOMAIN silver
        BY <3>1 DEF JobInv, ResumeInv, Behind
      <3>3. \/ task'[r].phase = "cleaned"
            \/ "bronze" \notin missed[q] /\ UNCHANGED bronze
        BY <1>6, <3>1 DEF Noted
      <3>4. CASE "bronze" \notin missed[q] /\ UNCHANGED bronze
        <4>1. AllFresh
          BY <3>1, <3>4 DEF FreshInv, CleanIsFresh
        <4> QED
          BY <3>2, <3>4, <4>1, EarlierStaysFresh DEF JobInv
      <3> QED
        BY <1>5, <3>3, <3>4
    <2> QED
      BY <2>1, <2>2
  <1> QED
    BY <1>3, <1>4, <1>6 DEF FreshInv, CleanIsFresh

(* Silver is built from, or left, as it is.                                *)
LEMMA LaterKeepsFresh ==
    ASSUME JobInv, RefInv, FreshInv, NEW r \in Runs, Later(r)
    PROVE  FreshInv'
  <1>1. \A q \in Runs \ {r} : ~Active(q) /\ task'[q] = task[q]
    BY NobodyElse DEF JobInv, RefInv
  <1>2. UNCHANGED <<bronze, silver>>
    BY LaterLeavesTables DEF TablesUnchanged
  <1>3. \A t : Fresh(t)' <=> Fresh(t)
    BY <1>2, FreshKept
  <1>4. /\ \A q \in Runs : "bronze" \in missed[q] <=> "bronze" \in missed'[q]
        /\ \A q \in Runs \ {r} : stopped'[q] = stopped[q]
    <2>1. CASE BuildTable(r)
      <3>1. PICK caughtUp : "bronze" \notin caughtUp /\ Note({}, caughtUp)
        BY <2>1 DEF BuildTable
      <3> QED
        BY <2>1, <3>1 DEF Note, BuildTable
    <2>2. CASE FinishJob(r) \/ FailTask(r) \/ Repair(r)
      BY <2>2 DEF FinishJob, FailTask, Repair, goldVars, JobInv, StoppedKnown
    <2> QED
      BY <2>1, <2>2 DEF Later
  <1>5. /\ AtClean(r)' => AtClean(r)
        /\ task'[r].phase \notin {"clean", "quarantine", "record"}
        /\ task'[r].phase = "count" => task'[r].at = 1
    <2>1. CASE BuildTable(r)
      BY <2>1, BuildMoves DEF JobInv, AtClean
    <2>2. CASE FinishJob(r)
      <3>1. DOMAIN task[r] = TaskFields
        BY DEF JobInv, LandInv, Standing, Located, Writers
      <3>2. PICK new : new = [task[r] EXCEPT !.phase = "succeeded"]
        OBVIOUS
      <3>3. new.phase = "succeeded" /\ task' = [task EXCEPT ![r] = new]
        BY <2>2, <3>1, <3>2 DEF FinishJob, GoTo, TaskFields
      <3>4. task'[r].phase = "succeeded"
        BY <3>3, TaskTaken DEF JobInv
      <3> QED
        BY <3>4 DEF AtClean
    <2>3. CASE FailTask(r)
      <3>1. PICK new : new = [Idle EXCEPT !.phase = "failed"]
        OBVIOUS
      <3>2. new.phase = "failed" /\ task' = [task EXCEPT ![r] = new]
        BY <2>3, <3>1 DEF FailTask, Idle
      <3>3. task'[r].phase = "failed"
        BY <3>2, TaskTaken DEF JobInv
      <3>4. PICK t \in TasksAt(r) : stopped' = [stopped EXCEPT ![r] = t]
        BY <2>3 DEF FailTask
      <3>5. stopped'[r] = t
        BY <3>4 DEF JobInv, StoppedKnown
      <3>6. t \in {"gold_dims", "gold_facts", "idempotency_check"}
              => task[r].phase \in {"cleaned", "built"}
        BY <3>4 DEF TasksAt, StillIn
      <3> QED
        BY <3>3, <3>5, <3>6 DEF AtClean
    <2>4. CASE Repair(r)
      <3>1. PICK x : task' = [task EXCEPT ![r] = x] /\ TakenUp(stopped[r], x)
        BY <2>4, RepairTakesUp DEF JobInv
      <3>2. task'[r] = x /\ task[r].phase = "failed"
        BY <2>4, <3>1, TaskTaken DEF JobInv, Repair
      <3> QED
        BY <3>1, <3>2 DEF TakenUp, AtClean
    <2> QED
      BY <2>1, <2>2, <2>3, <2>4 DEF Later
  <1>6. \A q \in Runs : FreshSoFar(task[q])'
    <2>1. ~\E i \in DOMAIN Tables : i < 1
      BY TablesAreListed
    <2>2. FreshSoFar(task[r])'
      BY <1>5, <2>1 DEF FreshSoFar
    <2>3. \A q \in Runs \ {r} : FreshSoFar(task[q])'
      BY <1>1 DEF FreshSoFar, Active, Ended
    <2> QED
      BY <2>2, <2>3
  <1>7. CleanIsFresh'
    <2> SUFFICES ASSUME NEW q \in Runs, AtClean(q)', "bronze" \notin missed'[q]
                 PROVE  AllFresh'
      BY DEF CleanIsFresh
    <2>1. AtClean(q)
      BY <1>1, <1>4, <1>5 DEF AtClean
    <2>2. AllFresh
      BY <1>4, <2>1 DEF FreshInv, CleanIsFresh
    <2> QED
      BY <1>3, <2>2 DEF AllFresh
  <1>8. PublishedFresh'
    <2>1. CASE BuildTable(r) /\ task[r].at < 9
      BY <2>1, BuildMoves DEF JobInv, PublishedFresh, IsPublished
    <2>2. CASE BuildTable(r) /\ ~(task[r].at < 9)
      <3>1. LandInv /\ BuildTable(r)
        BY <2>2 DEF JobInv
      <3>2. /\ task[r].phase = "cleaned"
            /\ published' = [silver |-> silver, bronze |-> [x \in TableNames |-> Now(x)],
                             missed |-> missed[r]]
        BY <2>2, <3>1, BuildMoves
      <3>3. /\ published'.silver = silver /\ published'.missed = missed[r]
            /\ \A t \in TableNames : published'.bronze[t] = Now(t)
        BY <3>2
      <3>4. "bronze" \notin missed[r] => AllFresh
        BY <3>2 DEF FreshInv, CleanIsFresh, AtClean
      <3> QED
        BY <3>3, <3>4 DEF PublishedFresh, Overtaken, AllFresh, Fresh
    <2>3. CASE UNCHANGED published
      BY <2>3 DEF FreshInv, PublishedFresh, IsPublished, Overtaken, HasLatest
    <2> QED
      BY <2>1, <2>2, <2>3 DEF Later, FinishJob, FailTask, Repair, goldVars
  <1> QED
    BY <1>6, <1>7, <1>8 DEF FreshInv

(* "The most recently landed copy wins" (clean.py:96): whenever gold is    *)
(* whole, silver had each valid row of the file that landed last in a      *)
(* table, unless another row of that file or, in a table with a sequence   *)
(* column, a row with a later time has its key.  Only a run that failed    *)
(* after silver_clean and was repaired may publish without the rows that   *)
(* another run landed in between and did not come to clean.                *)
THEOREM LastFileIsPublished == WSpec => []LandedFileIsPublished
  <1>1. WInit => FreshInv
    <2> SUFFICES ASSUME WInit PROVE FreshInv
      OBVIOUS
    <2>1. \A r \in Runs : task[r].phase = "idle"
      BY DEF WInit, Init, Idle, Writers
    <2> QED
      BY <2>1 DEF WInit, FreshInv, FreshSoFar, PublishedFresh, IsPublished, CleanIsFresh, AtClean
  <1>2. ASSUME JobInv, RefInv, FreshInv, [WNext]_wvars
        PROVE  FreshInv'
    <2>1. ASSUME NEW r \in Runs, Earlier(r) /\ Noted(r), UNCHANGED <<stopped, published>>
          PROVE  FreshInv'
      BY <1>2, <2>1, EarlierKeepsFresh
    <2>2. ASSUME NEW r \in Runs, Later(r)
          PROVE  FreshInv'
      BY <1>2, <2>2, LaterKeepsFresh
    <2>3. CASE UNCHANGED <<task, bronze, silver, stopped, missed, published>>
      <3>1. PublishedFresh'
        BY <1>2, <2>3 DEF FreshInv, PublishedFresh, IsPublished, Overtaken, HasLatest
      <3>2. \A t : Fresh(t)' <=> Fresh(t)
        BY <2>3, FreshKept
      <3>3. \A r \in Runs : FreshSoFar(task[r])'
        BY <1>2, <2>3, <3>2 DEF FreshInv, FreshSoFar
      <3>4. CleanIsFresh'
        BY <1>2, <2>3, <3>2 DEF FreshInv, CleanIsFresh, AtClean, AllFresh
      <3> QED
        BY <3>1, <3>3, <3>4 DEF FreshInv
    <2> QED
      BY <1>2, <2>1, <2>2, <2>3, JobSteps DEF ReplaceFiles, wvars, vars, goldVars
  <1>3. FreshInv => LandedFileIsPublished
    BY DEF FreshInv, PublishedFresh, HasLatest, LandedFileIsPublished
  <1> QED
    BY <1>1, <1>2, <1>3, RefsInvariant, PTL DEF WSpec

-----------------------------------------------------------------------------
(***************************************************************************)
(* What the seed covers.  dim_customer is made once, from silver as it was *)
(* (seeded), and every later run joins against it: an order it had, with   *)
(* its customer, has a version that began in time.                         *)
(***************************************************************************)
SeedCovers ==
    "dim_customer" \in DOMAIN gold =>
        /\ \A v \in gold["dim_customer"] : v.customer_sk # NULL
        /\ \A o \in seeded["orders"] : \A c \in seeded["customers"] :
              c.customer_id = o.customer_id =>
                  \E v \in gold["dim_customer"] :
                      /\ v.customer_unique_id = c.customer_unique_id
                      /\ o.order_purchase_timestamp >= v.effective_from

SeedResolves(orders, customers) ==
    \A f \in gold["fact_order"] :
        f.customer_sk = NULL =>
            \A o \in orders : o.order_id = f.order_id =>
                \/ o \notin seeded["orders"]
                \/ ~\E c \in customers \cap seeded["customers"] : c.customer_id = o.customer_id

SeededSoFar(x) ==
    x.phase = "cleaned" /\ x.at > 7 => SeedResolves(Rows(silver, "orders"), Rows(silver, "customers"))

SeedInv == SeedCovers /\ SeededOrdersResolve /\ \A r \in Runs : SeededSoFar(task[r])

(* Silver rows are typed rows of uploads, and orders have times.           *)
LEMMA SilverIsUploaded ==
    ASSUME JobInv, NEW t \in DOMAIN silver, NEW s \in Rows(silver, t)
    PROVE  t \in TableNames /\ \E f \in Uploads : s \in TypedFile(f, t)
  <1>1. t \in TableNames
    BY DEF JobInv, RouteInv, TablesRight
  <1>2. PICK rows : DedupedRight(t, rows) /\ silver[t] = Clean(t, rows)
    BY DEF JobInv, RouteInv, TablesRight
  <1> QED
    BY <1>1, <1>2 DEF DedupedRight, Clean, Rows

LEMMA OrderTimes ==
    ASSUME JobInv, SilverIsClean, "orders" \in DOMAIN silver
    PROVE  /\ IsFiniteSet(Rows(silver, "orders"))
           /\ \A o \in Rows(silver, "orders") :
                 o.order_purchase_timestamp \in Nat \cap UploadedTimes
  <1> DEFINE t == "orders"
             all == UNION {TypedFile(f, t) : f \in Uploads}
  <1>1. t \in TableNames
    BY DEF JobInv, RouteInv, TablesRight
  <1>2. ASSUME NEW o \in Rows(silver, t)
        PROVE  o \in all /\ o.order_purchase_timestamp \in Nat \cap UploadedTimes
    <2>1. PICK f \in Uploads : o \in TypedFile(f, t)
      BY <1>2, SilverIsUploaded
    <2>2. SequenceOf(t, o) \in Nat
      BY <1>1, <2>1, UploadedTable
    <2>3. o.order_purchase_timestamp # NULL
      <3>1. "orders.purchase_ts_not_null" \in RejectRules(t)
        BY DEF RejectRules, RulesFor, Rules, WarnRules
      <3>2. PICK r \in silver[t] : o = r.src
        BY <1>2 DEF Rows
      <3>3. Predicate("orders.purchase_ts_not_null", o) = "true"
        BY <3>1, <3>2 DEF SilverIsClean
      <3> QED
        BY <3>3, PurchaseTimeRule
    <2>4. SequenceOf(t, o) = o.order_purchase_timestamp
      BY <2>3 DEF SequenceOf, SequenceCol
    <2>5. o.order_purchase_timestamp \in UploadedTimes
      <3>1. PICK s \in f[t] : o = Typed(s)
        BY <2>1 DEF TypedFile
      <3>2. s \in UNION {g["orders"] : g \in Uploads}
        BY <3>1
      <3> QED
        BY <3>1, <3>2 DEF UploadedTimes
    <2> QED
      BY <2>1, <2>2, <2>4, <2>5
  <1>3. IsFiniteSet(all)
    BY <1>1, UploadedKeys
  <1>4. IsFiniteSet(Rows(silver, t))
    <2>1. Rows(silver, t) \subseteq all
      BY <1>2
    <2> HIDE DEF all
    <2> QED
      BY <1>3, <2>1, FS_Subset
  <1> QED
    BY <1>2, <1>4

(* The first order of a person is one of its orders, and none is earlier.  *)
LEMMA FirstOrderIsFirst ==
    ASSUME JobInv, SilverIsClean, "orders" \in DOMAIN silver, NEW uid
    PROVE  /\ FirstOrder(silver, uid) \in {0} \cup UploadedTimes
           /\ \A o \in OrdersOf(silver, uid) :
                 o.order_purchase_timestamp >= FirstOrder(silver, uid)
  <1>1. CASE OrdersOf(silver, uid) = {}
    BY <1>1 DEF FirstOrder
  <1>2. CASE OrdersOf(silver, uid) # {}
    <2>1. PICK some : some = OrdersOf(silver, uid)
      OBVIOUS
    <2>2. PICK times : times = {o.order_purchase_timestamp : o \in some}
      OBVIOUS
    <2>3. some \subseteq Rows(silver, "orders")
      BY <2>1 DEF OrdersOf
    <2>4. IsFiniteSet(times)
      <3>1. PICK time : time = [o \in some |-> o.order_purchase_timestamp]
        OBVIOUS
      <3>2. DOMAIN time = some /\ times = {time[o] : o \in some}
        BY <2>2, <3>1
      <3>3. IsFiniteSet(some)
        BY <2>3, OrderTimes, FS_Subset
      <3> QED
        BY <3>2, <3>3, FiniteImage
    <2>5. times \in SUBSET Nat /\ times \subseteq UploadedTimes /\ times # {}
      BY <1>2, <2>1, <2>2, <2>3, OrderTimes
    <2>6. \E m \in times : \A x \in times : m <= x
      BY <2>4, <2>5, Extremes
    <2>7. Min(times) \in times /\ \A x \in times : Min(times) <= x
      BY <2>6 DEF Min
    <2>8. FirstOrder(silver, uid) = Min(times)
      BY <1>2, <2>1, <2>2 DEF FirstOrder
    <2>9. \A o \in some : o.order_purchase_timestamp \in times
      BY <2>2
    <2> QED
      BY <2>1, <2>5, <2>7, <2>8, <2>9
  <1> QED
    BY <1>1, <1>2

LEMMA SeedIsComplete ==
    ASSUME JobInv, SilverIsClean, {"orders", "customers"} \subseteq DOMAIN silver
    PROVE  /\ \A v \in SeededCustomers(silver) : v.customer_sk # NULL
           /\ \A o \in Rows(silver, "orders") : \A c \in Rows(silver, "customers") :
                c.customer_id = o.customer_id =>
                  \E v \in SeededCustomers(silver) :
                      /\ v.customer_unique_id = c.customer_unique_id
                      /\ o.order_purchase_timestamp >= v.effective_from
  <1>1. ASSUME NEW v \in SeededCustomers(silver) PROVE v.customer_sk # NULL
    <2>1. PICK uid \in {c.customer_unique_id : c \in Rows(silver, "customers")} :
            v = [customer_sk |-> Hash(<<uid, FirstOrder(silver, uid)>>),
                 customer_unique_id |-> uid, effective_from |-> FirstOrder(silver, uid)]
      BY DEF SeededCustomers
    <2>2. PICK c \in Rows(silver, "customers") : uid = c.customer_unique_id
      BY <2>1
    <2>3. PICK f \in Uploads : c \in TypedFile(f, "customers")
      BY SilverIsUploaded
    <2>4. PICK s \in f["customers"] : c = Typed(s)
      BY <2>3 DEF TypedFile
    <2>5. FirstOrder(silver, uid) \in {0} \cup UploadedTimes
      BY FirstOrderIsFirst
    <2>6. s \in UNION {g["customers"] : g \in Uploads}
      BY <2>4
    <2>7. Hash(<<Typed(s).customer_unique_id, FirstOrder(silver, uid)>>) # NULL
      BY <2>5, <2>6, HashesAreNotNull
    <2> QED
      BY <2>1, <2>2, <2>4, <2>7
  <1>2. ASSUME NEW o \in Rows(silver, "orders"), NEW c \in Rows(silver, "customers"),
               c.customer_id = o.customer_id
        PROVE  \E v \in SeededCustomers(silver) :
                      /\ v.customer_unique_id = c.customer_unique_id
                      /\ o.order_purchase_timestamp >= v.effective_from
    <2>1. PICK uid : uid = c.customer_unique_id
      OBVIOUS
    <2>2. PICK v : v = [customer_sk |-> Hash(<<uid, FirstOrder(silver, uid)>>),
                        customer_unique_id |-> uid, effective_from |-> FirstOrder(silver, uid)]
      OBVIOUS
    <2>3. v \in SeededCustomers(silver)
      BY <2>1, <2>2 DEF SeededCustomers
    <2>4. o \in OrdersOf(silver, uid)
      BY <1>2, <2>1 DEF OrdersOf
    <2>5. o.order_purchase_timestamp >= FirstOrder(silver, uid)
      BY <2>4, FirstOrderIsFirst
    <2> QED
      BY <2>1, <2>2, <2>3, <2>5
  <1> QED
    BY <1>1, <1>2

LEMMA OneOrderPerId ==
    ASSUME SilverIsClean, "orders" \in DOMAIN silver,
           NEW o \in Rows(silver, "orders"), NEW p \in Rows(silver, "orders"),
           o.order_id = p.order_id
    PROVE  o = p
  <1>1. PICK r \in silver["orders"], s \in silver["orders"] : o = r.src /\ p = s.src
    BY DEF Rows
  <1>2. Key("orders", r.src) = Key("orders", s.src)
    BY <1>1 DEF Key, BusinessKey
  <1> QED
    BY <1>1, <1>2 DEF SilverIsClean

(* An order that was there, with its customer, when the dimension was      *)
(* seeded joins a version of it.                                           *)
LEMMA SeededOrderJoins ==
    ASSUME SilverIsClean, SeedCovers, {"orders", "customers"} \subseteq DOMAIN silver,
           "dim_customer" \in DOMAIN gold, NEW f \in FactOrder(silver, gold),
           NEW o \in Rows(silver, "orders"), o.order_id = f.order_id, o \in seeded["orders"],
           NEW c \in Rows(silver, "customers") \cap seeded["customers"],
           c.customer_id = o.customer_id
    PROVE  f.customer_sk # NULL
  <1>1. PICK p \in Rows(silver, "orders") :
          f.order_id = p.order_id /\ f.customer_sk \in CustomerSk(silver, gold, p)
    <2> DEFINE total(x) == Revenue({i \in Rows(silver, "order_items") : i.order_id = x.order_id})
               status(x) == LeftJoin({d \in gold["dim_order_status"] :
                                        d.order_status = x.order_status}, "order_status_sk")
    <2>1. FactOrder(silver, gold) =
            UNION {{[order_id |-> x.order_id, customer_sk |-> k, order_status_sk |-> s,
                     order_date_sk |-> x.order_purchase_timestamp, order_total |-> total(x)] :
                      k \in CustomerSk(silver, gold, x), s \in status(x)} :
                   x \in Rows(silver, "orders")}
      BY DEF FactOrder
    <2> HIDE DEF total, status
    <2> QED
      BY <2>1
  <1>2. p = o
    BY <1>1, OneOrderPerId
  <1> DEFINE matches ==
         {v \in gold["dim_customer"] :
            /\ \E d \in Rows(silver, "customers") :
                 d.customer_id = o.customer_id /\ d.customer_unique_id = v.customer_unique_id
            /\ o.order_purchase_timestamp >= v.effective_from}
  <1>3. f.customer_sk \in LeftJoin(matches, "customer_sk")
    BY <1>1, <1>2 DEF CustomerSk
  <1>4. matches # {}
    BY DEF SeedCovers
  <1>5. \A m \in matches : m["customer_sk"] # NULL
    BY DEF SeedCovers
  <1> HIDE DEF matches
  <1>6. PICK m \in matches : f.customer_sk = m["customer_sk"]
    BY <1>3, <1>4, JoinedKey
  <1> QED
    BY <1>5, <1>6

(* A step that builds nothing leaves its run where a task of gold begins.   *)
Quiet(r) == Earlier(r) \/ FinishJob(r) \/ FailTask(r) \/ Repair(r)

LEMMA QuietMoves ==
    ASSUME JobInv, OneRunAtWork, NEW r \in Runs, Quiet(r)
    PROVE  \A q \in Runs : task'[q].phase = "cleaned" => task'[q].at \in {1, 7}
  <1>1. \A q \in Runs \ {r} : ~Active(q) /\ task'[q] = task[q]
    BY NobodyElse DEF JobInv, Quiet, Later
  <1>2. \A q \in Runs \ {r} : task'[q].phase # "cleaned"
    BY <1>1 DEF Active, Ended
  <1>3. task'[r].phase = "cleaned" => task'[r].at \in {1, 7}
    <2>1. CASE Earlier(r)
      <3>1. PICK new : task' = [task EXCEPT ![r] = new] /\ EarlierMove(r, new)
        BY <2>1, EarlierMoves DEF JobInv
      <3> QED
        BY <3>1, TaskTaken DEF JobInv, EarlierMove
    <2>2. CASE FinishJob(r) \/ FailTask(r)
      <3>1. DOMAIN task[r] = TaskFields
        BY DEF JobInv, LandInv, Standing, Located, Writers
      <3>2. \E new : task' = [task EXCEPT ![r] = new] /\ new.phase # "cleaned"
        <4>1. PICK x, y : x = [task[r] EXCEPT !.phase = "succeeded"]
                          /\ y = [Idle EXCEPT !.phase = "failed"]
          OBVIOUS
        <4>2. x.phase = "succeeded" /\ y.phase = "failed"
          BY <3>1, <4>1 DEF TaskFields, Idle
        <4>3. task' = [task EXCEPT ![r] = x] \/ task' = [task EXCEPT ![r] = y]
          BY <2>2, <4>1 DEF FinishJob, FailTask, GoTo
        <4> QED
          BY <4>2, <4>3
      <3> QED
        BY <3>2, TaskTaken DEF JobInv
    <2>3. CASE Repair(r)
      <3>1. PICK x : task' = [task EXCEPT ![r] = x] /\ TakenUp(stopped[r], x)
        BY <2>3, RepairTakesUp DEF JobInv
      <3> QED
        BY <3>1, TaskTaken DEF JobInv, TakenUp
    <2> QED
      BY <2>1, <2>2, <2>3 DEF Quiet
  <1> QED
    BY <1>2, <1>3

LEMMA QuietSteps ==
    ASSUME [WNext]_wvars
    PROVE  \/ \E r \in Runs : Quiet(r) /\ UNCHANGED <<gold, published, seeded>>
           \/ \E r \in Runs : BuildTable(r)
           \/ UNCHANGED <<task, silver, gold, published, seeded>>
  BY JobSteps DEF Quiet, Later, FinishJob, FailTask, Repair, ReplaceFiles, wvars, vars, goldVars

LEMMA QuietKeepsSeed ==
    ASSUME JobInv, RefInv, SeedInv, NEW r \in Runs, Quiet(r), UNCHANGED <<gold, published, seeded>>
    PROVE  SeedInv'
  <1>1. SeedCovers'
    BY DEF SeedInv, SeedCovers
  <1>2. SeededOrdersResolve'
    BY DEF SeedInv, SeededOrdersResolve, IsPublished
  <1>3. \A q \in Runs : task'[q].phase = "cleaned" => ~(task'[q].at > 7)
    BY QuietMoves DEF RefInv
  <1>4. \A q \in Runs : SeededSoFar(task[q])'
    BY <1>3 DEF SeededSoFar
  <1> QED
    BY <1>1, <1>2, <1>4 DEF SeedInv

LEMMA BuildKeepsCover ==
    ASSUME JobInv, SilverIsClean, SeedCovers, NEW r \in Runs, BuildTable(r),
           NEW n \in 1 .. 9, n = task[r].at, {"orders", "customers"} \subseteq DOMAIN silver
    PROVE  SeedCovers' /\ (n > 2 => UNCHANGED seeded)
  <1> DEFINE t == GoldTables[n]
  <1>1. /\ gold' = CreateOrReplace(gold, t, Build(t, silver, gold)) /\ UNCHANGED silver
        /\ seeded' = IF t = "dim_customer" /\ (t \notin DOMAIN gold \/ gold[t] = {})
                     THEN AllRows(silver) ELSE seeded
    BY DEF BuildTable
  <1>2. /\ DOMAIN gold' = {t} \cup DOMAIN gold
        /\ \A u \in DOMAIN gold : u # t => gold'[u] = gold[u]
        /\ gold'[t] = Build(t, silver, gold)
    BY <1>1 DEF CreateOrReplace, Overwritten
  <1>3. n = 2 <=> t = "dim_customer"
    <2>1. \/ n = 1 \/ n = 2 \/ n = 3 \/ n = 4 \/ n = 5 \/ n = 6 \/ n = 7 \/ n = 8 \/ n = 9
      OBVIOUS
    <2> QED
      BY <2>1, GoldOrder
  <1>4. CASE t = "dim_customer" /\ (t \notin DOMAIN gold \/ gold[t] = {})
    <2>1. seeded' = AllRows(silver)
      BY <1>1, <1>4
    <2>2. /\ seeded'["orders"] = Rows(silver, "orders")
          /\ seeded'["customers"] = Rows(silver, "customers")
      BY <2>1 DEF AllRows
    <2>3. gold'["dim_customer"] = SeededCustomers(silver)
      <3>1. Build("dim_customer", silver, gold) = DimCustomer(silver, gold)
        BY DEF Build
      <3>2. DimCustomer(silver, gold) = SeededCustomers(silver)
        BY <1>4 DEF DimCustomer
      <3> QED
        BY <1>2, <1>4, <3>1, <3>2
    <2>4. /\ \A v \in gold'["dim_customer"] : v.customer_sk # NULL
          /\ \A o \in seeded'["orders"] : \A c \in seeded'["customers"] :
                c.customer_id = o.customer_id =>
                  \E v \in gold'["dim_customer"] :
                      /\ v.customer_unique_id = c.customer_unique_id
                      /\ o.order_purchase_timestamp >= v.effective_from
      BY <2>2, <2>3, SeedIsComplete
    <2> QED
      BY <1>3, <1>4, <2>4 DEF SeedCovers
  <1>5. CASE ~(t = "dim_customer" /\ (t \notin DOMAIN gold \/ gold[t] = {}))
    <2>1. UNCHANGED seeded
      BY <1>1, <1>5
    <2>2. "dim_customer" \in DOMAIN gold' => /\ "dim_customer" \in DOMAIN gold
                                             /\ gold'["dim_customer"] = gold["dim_customer"]
      <3>1. CASE t = "dim_customer"
        <4>1. Build("dim_customer", silver, gold) = DimCustomer(silver, gold)
          BY DEF Build
        <4>2. DimCustomer(silver, gold) = gold["dim_customer"]
          BY <1>5, <3>1 DEF DimCustomer
        <4> QED
          BY <1>2, <1>5, <3>1, <4>1, <4>2
      <3>2. CASE t # "dim_customer"
        BY <1>2, <3>2
      <3> QED
        BY <3>1, <3>2
    <2> QED
      BY <2>1, <2>2 DEF SeedCovers
  <1> QED
    BY <1>4, <1>5

LEMMA BuildKeepsSeed ==
    ASSUME JobInv, SilverIsClean, RefInv, SeedInv, NEW r \in Runs, BuildTable(r)
    PROVE  SeedInv'
  <1>1. LandInv /\ \A q \in Runs \ {r} : ~Active(q)
    BY NobodyElse DEF JobInv, RefInv, Later
  <1>2. /\ task[r].phase = "cleaned" /\ UNCHANGED silver
        /\ gold' = CreateOrReplace(gold, GoldTables[task[r].at],
                                   Build(GoldTables[task[r].at], silver, gold))
    BY DEF BuildTable
  <1>3. PICK n \in 1 .. 9 : n = task[r].at /\ Made(n)
    BY <1>2 DEF RefInv, GoldFollows, Follows, Place
  <1>4. {"orders", "customers"} \subseteq DOMAIN silver
    <2>1. {"orders", "customers"} \subseteq TableNames
      BY RegistryIsIngested DEF BusinessKey
    <2> QED
      BY <1>2, <2>1 DEF JobInv, RouteInv, Progress
  <1>5. SeedCovers /\ SeedCovers' /\ (n > 2 => UNCHANGED seeded)
    BY <1>3, <1>4, BuildKeepsCover DEF SeedInv
  <1>6. n + 1 > 7 => SeedResolves(Rows(silver, "orders"), Rows(silver, "customers"))'
    <2>1. CASE n = 7
      <3>1. gold'["fact_order"] = FactOrder(silver, gold)
        BY <1>2, <1>3, <2>1, GoldOrder DEF CreateOrReplace, Overwritten, Build
      <3>2. "dim_customer" \in DOMAIN gold
        BY <1>3, <2>1, GoldOrder DEF Made
      <3>3. UNCHANGED seeded
        BY <1>5, <2>1
      <3>4. ASSUME NEW f \in FactOrder(silver, gold), f.customer_sk = NULL,
                   NEW o \in Rows(silver, "orders"), o.order_id = f.order_id, o \in seeded["orders"],
                   NEW c \in Rows(silver, "customers") \cap seeded["customers"],
                   c.customer_id = o.customer_id
            PROVE  FALSE
        BY <1>4, <1>5, <3>2, <3>4, SeededOrderJoins
      <3> QED
        BY <1>2, <3>1, <3>3, <3>4 DEF SeedResolves
    <2>2. CASE n = 8 \/ n = 9
      <3>1. UNCHANGED seeded
        BY <1>5, <2>2
      <3>2. "fact_order" \in DOMAIN gold /\ GoldTables[n] # "fact_order"
        BY <1>3, <2>2, GoldOrder DEF Made
      <3>3. gold'["fact_order"] = gold["fact_order"]
        BY <1>2, <1>3, <3>2 DEF CreateOrReplace, Overwritten
      <3>4. SeedResolves(Rows(silver, "orders"), Rows(silver, "customers"))
        BY <1>2, <1>3, <2>2 DEF SeedInv, SeededSoFar
      <3> QED
        BY <1>2, <3>1, <3>3, <3>4 DEF SeedResolves
    <2> QED
      BY <2>1, <2>2
  <1>7. ASSUME task'[r].phase = "built" \/ task'[r].at = n + 1
        PROVE  (\A q \in Runs : SeededSoFar(task[q]))'
    <2>1. \A q \in Runs \ {r} : task'[q] = task[q]
      BY <1>1, BuildMoves
    <2>2. \A q \in Runs \ {r} : SeededSoFar(task[q])'
      BY <1>1, <2>1 DEF SeededSoFar, Active, Ended
    <2>3. SeededSoFar(task[r])'
      BY <1>6, <1>7 DEF SeededSoFar
    <2> QED
      BY <2>2, <2>3
  <1>8. CASE n < 9
    <2>1. task'[r].at = n + 1 /\ published' = Nothing
      BY <1>1, <1>3, <1>8, BuildMoves
    <2>2. SeededOrdersResolve'
      BY <2>1 DEF SeededOrdersResolve, IsPublished
    <2> QED
      BY <1>5, <1>7, <2>1, <2>2 DEF SeedInv
  <1>9. CASE n = 9
    <2>1. ~(task[r].at < 9)
      BY <1>3, <1>9
    <2>2. /\ task'[r].phase = "built"
          /\ published' = [silver |-> silver, bronze |-> [x \in TableNames |-> Now(x)],
                           missed |-> missed[r]]
      BY <1>1, <2>1, BuildMoves
    <2>3. published'.silver = silver
      BY <2>2
    <2>4. SeedResolves(Rows(silver, "orders"), Rows(silver, "customers"))'
      BY <1>6, <1>9
    <2>5. SeededOrdersResolve'
      BY <1>2, <2>3, <2>4 DEF SeededOrdersResolve, SeedResolves
    <2> QED
      BY <1>5, <1>7, <2>2, <2>5 DEF SeedInv
  <1> QED
    BY <1>3, <1>8, <1>9

(* SeededOrdersResolve: dim_customer is seeded once and never refreshed by *)
(* the load, whatever lands, whichever runs fail, and wherever they are    *)
(* repaired; an order silver has as it had it then, with its customer,     *)
(* still joins a version.                                                  *)
THEOREM SeededOrdersAreFound == WSpec => []SeededOrdersResolve
  <1>1. WInit => SeedInv
    <2> SUFFICES ASSUME WInit PROVE SeedInv
      OBVIOUS
    <2>1. \A r \in Runs : task[r].phase = "idle"
      BY DEF WInit, Init, Idle, Writers
    <2> QED
      BY <2>1 DEF WInit, SeedInv, SeedCovers, SeededSoFar, SeededOrdersResolve, IsPublished
  <1>2. ASSUME JobInv, SilverIsClean, RefInv, SeedInv, [WNext]_wvars
        PROVE  SeedInv'
    <2>1. ASSUME NEW r \in Runs, Quiet(r), UNCHANGED <<gold, published, seeded>>
          PROVE  SeedInv'
      BY <1>2, <2>1, QuietKeepsSeed
    <2>2. ASSUME NEW r \in Runs, BuildTable(r)
          PROVE  SeedInv'
      BY <1>2, <2>2, BuildKeepsSeed
    <2>3. CASE UNCHANGED <<task, silver, gold, published, seeded>>
      <3>1. SeedCovers'
        BY <1>2, <2>3 DEF SeedInv, SeedCovers
      <3>2. SeededOrdersResolve'
        BY <1>2, <2>3 DEF SeedInv, SeededOrdersResolve, IsPublished
      <3>3. \A r \in Runs : SeededSoFar(task[r])'
        BY <1>2, <2>3 DEF SeedInv, SeededSoFar, SeedResolves
      <3> QED
        BY <2>3, <3>1, <3>2, <3>3 DEF SeedInv
    <2> QED
      BY <1>2, <2>1, <2>2, <2>3, QuietSteps
  <1>3. SeedInv => SeededOrdersResolve
    BY DEF SeedInv
  <1> QED
    BY <1>1, <1>2, <1>3, RefsInvariant, PTL DEF WSpec
-----------------------------------------------------------------------------
(* The folds of the code's views are such sums.                            *)
LEMMA RevenueSums ==
    ASSUME NEW items, IsFiniteSet(items)
    PROVE  \E sum : /\ Sums(sum, [i \in items |-> i.price + i.freight_value], items)
                    /\ Revenue(items) = sum[items]
  <1> DEFINE value == [i \in items |-> i.price + i.freight_value]
             total == CHOOSE sum : sum = [A \in SUBSET items |->
                         IF A = {} THEN 0
                         ELSE (OneOf(A).price + OneOf(A).freight_value) + sum[A \ {OneOf(A)}]]
  <1>1. \A A \in SUBSET items : A # {} =>
          value[OneOf(A)] = OneOf(A).price + OneOf(A).freight_value
    <2>1. \A A \in SUBSET items : A # {} => OneOf(A) \in items
      BY DEF OneOf
    <2> QED
      BY <2>1
  <1>2. PICK sum : Sums(sum, value, items)
    <2> HIDE DEF value
    <2> QED
      BY SumExists
  <1>3. total = [A \in SUBSET items |->
                   IF A = {} THEN 0
                   ELSE (OneOf(A).price + OneOf(A).freight_value) + total[A \ {OneOf(A)}]]
    <2> HIDE DEF value
    <2>1. sum = [A \in SUBSET items |->
                   IF A = {} THEN 0
                   ELSE (OneOf(A).price + OneOf(A).freight_value) + sum[A \ {OneOf(A)}]]
      BY <1>1, <1>2 DEF Sums
    <2> QED
      BY <2>1
  <1>4. Revenue(items) = total[items]
    BY DEF Revenue, MapThenSumSet, MapThenFoldSet, OneOf
  <1> HIDE DEF total, value
  <1>5. Sums(total, value, items)
    BY <1>1, <1>3 DEF Sums
  <1> QED
    BY <1>4, <1>5 DEF value

LEMMA FactRevenueSums ==
    ASSUME NEW facts, IsFiniteSet(facts)
    PROVE  \E sum : /\ Sums(sum, [f \in facts |-> f.item_revenue], facts)
                    /\ MapThenSumSet(LAMBDA f : f.item_revenue, facts) = sum[facts]
  <1> DEFINE value == [f \in facts |-> f.item_revenue]
             total == CHOOSE sum : sum = [A \in SUBSET facts |->
                         IF A = {} THEN 0 ELSE OneOf(A).item_revenue + sum[A \ {OneOf(A)}]]
  <1>1. \A A \in SUBSET facts : A # {} => value[OneOf(A)] = OneOf(A).item_revenue
    <2>1. \A A \in SUBSET facts : A # {} => OneOf(A) \in facts
      BY DEF OneOf
    <2> QED
      BY <2>1
  <1>2. PICK sum : Sums(sum, value, facts)
    <2> HIDE DEF value
    <2> QED
      BY SumExists
  <1>3. total = [A \in SUBSET facts |->
                   IF A = {} THEN 0 ELSE OneOf(A).item_revenue + total[A \ {OneOf(A)}]]
    <2> HIDE DEF value
    <2>1. sum = [A \in SUBSET facts |->
                   IF A = {} THEN 0 ELSE OneOf(A).item_revenue + sum[A \ {OneOf(A)}]]
      BY <1>1, <1>2 DEF Sums
    <2> QED
      BY <2>1
  <1>4. MapThenSumSet(LAMBDA f : f.item_revenue, facts) = total[facts]
    BY DEF MapThenSumSet, MapThenFoldSet, OneOf
  <1> HIDE DEF total, value
  <1>5. Sums(total, value, facts)
    BY <1>1, <1>3 DEF Sums
  <1> QED
    BY <1>4, <1>5 DEF value

-----------------------------------------------------------------------------
(***************************************************************************)
(* Reconciliation.  No join duplicates a row: a person has one version and *)
(* surrogate keys are functions of the natural ones, so a row of silver    *)
(* makes one fact, or none when silver does not have its order.            *)
(***************************************************************************)
LEMMA OneOfOne ==
    ASSUME NEW A, \E x : A = {x}
    PROVE  A = {OneOf(A)}
  BY DEF OneOf

LEMMA JoinsOnce ==
    ASSUME NEW matches, NEW column, \A m, n \in matches : m[column] = n[column]
    PROVE  \E x : LeftJoin(matches, column) = {x}
  <1>1. CASE matches = {}
    BY <1>1 DEF LeftJoin
  <1>2. CASE matches # {}
    <2>1. PICK m \in matches : TRUE
      BY <1>2
    <2>2. {n[column] : n \in matches} = {m[column]}
      BY <2>1
    <2> QED
      BY <1>2, <2>2 DEF LeftJoin
  <1> QED
    BY <1>1, <1>2

LEMMA OneCleanRow ==
    ASSUME SilverIsClean, NEW t \in DOMAIN silver, NEW r \in silver[t], NEW s \in silver[t],
           SameKey(t, r.src, s.src)
    PROVE  r = s
  <1>1. Key(t, r.src) = Key(t, s.src)
    BY DEF Key, SameKey
  <1> QED
    BY <1>1 DEF SilverIsClean

(* The rows of a silver table are as many as their source rows.            *)
LEMMA SilverRows ==
    ASSUME JobInv, SilverIsClean, NEW t \in DOMAIN silver
    PROVE  /\ IsFiniteSet(Rows(silver, t))
           /\ Cardinality(Rows(silver, t)) = Cardinality(silver[t])
           /\ \A i, j \in Rows(silver, t) : SameKey(t, i, j) => i = j
  <1>1. t \in TableNames
    BY DEF JobInv, RouteInv, TablesRight
  <1>2. ASSUME NEW r \in silver[t], NEW s \in silver[t], SameKey(t, r.src, s.src)
        PROVE  r = s
    BY <1>2, OneCleanRow
  <1>3. \A r, s \in silver[t] : r.src = s.src => r = s
    BY <1>2 DEF SameKey
  <1>4. IsFiniteSet(Rows(silver, t))
    <2>1. Rows(silver, t) \subseteq UNION {TypedFile(f, t) : f \in Uploads}
      BY SilverIsUploaded
    <2> QED
      BY <1>1, <2>1, UploadedKeys, FS_Subset
  <1>5. IsFiniteSet(silver[t])
    <2> DEFINE rowOf == [i \in Rows(silver, t) |-> CHOOSE r \in silver[t] : r.src = i]
    <2>1. \A i \in Rows(silver, t) : rowOf[i] \in silver[t] /\ rowOf[i].src = i
      BY DEF Rows
    <2>2. silver[t] \subseteq {rowOf[i] : i \in Rows(silver, t)}
      <3> SUFFICES ASSUME NEW r \in silver[t] PROVE r \in {rowOf[i] : i \in Rows(silver, t)}
        OBVIOUS
      <3>1. r.src \in Rows(silver, t)
        BY DEF Rows
      <3> HIDE DEF rowOf
      <3>2. rowOf[r.src] = r
        BY <1>3, <2>1, <3>1
      <3> QED
        BY <3>1, <3>2
    <2>3. DOMAIN rowOf = Rows(silver, t)
      OBVIOUS
    <2> HIDE DEF rowOf
    <2>4. IsFiniteSet({rowOf[i] : i \in Rows(silver, t)})
      BY <1>4, <2>3, FiniteImage
    <2> QED
      BY <2>2, <2>4, FS_Subset
  <1>6. Cardinality(Rows(silver, t)) = Cardinality(silver[t])
    <2> DEFINE srcOf == [r \in silver[t] |-> r.src]
    <2>1. /\ DOMAIN srcOf = silver[t] /\ Rows(silver, t) = {srcOf[r] : r \in silver[t]}
          /\ \A r, s \in silver[t] : srcOf[r] = srcOf[s] => r = s
      BY <1>3 DEF Rows
    <2> HIDE DEF srcOf
    <2> QED
      BY <1>5, <2>1, FiniteImage
  <1>7. \A i, j \in Rows(silver, t) : SameKey(t, i, j) => i = j
    BY <1>2 DEF Rows
  <1> QED
    BY <1>4, <1>6, <1>7

(* The surrogate keys of the dimensions there are.                         *)
DimsKeyed ==
    /\ "dim_customer" \in DOMAIN gold =>
          \A v, w \in gold["dim_customer"] : v.customer_unique_id = w.customer_unique_id => v = w
    /\ "dim_product" \in DOMAIN gold =>
          \A d \in gold["dim_product"] : d["product_sk"] = Hash(d.product_id)
    /\ "dim_seller" \in DOMAIN gold =>
          \A d \in gold["dim_seller"] : d["seller_sk"] = Hash(d.seller_id)
    /\ "dim_order_status" \in DOMAIN gold =>
          \A d \in gold["dim_order_status"] : d["order_status_sk"] = Hash(d.order_status)
    /\ "dim_payment_type" \in DOMAIN gold =>
          \A d \in gold["dim_payment_type"] : d["payment_type_sk"] = Hash(d.payment_type)

AllDims == {"dim_customer", "dim_product", "dim_seller", "dim_order_status", "dim_payment_type"}

StatusSk(o) ==
    LeftJoin({d \in gold["dim_order_status"] : d.order_status = o.order_status}, "order_status_sk")

ProductSk(i) ==
    LeftJoin({d \in gold["dim_product"] : d.product_id = i.product_id}, "product_sk")

SellerSk(i) == LeftJoin({d \in gold["dim_seller"] : d.seller_id = i.seller_id}, "seller_sk")

TypeSk(p) ==
    LeftJoin({d \in gold["dim_payment_type"] : d.payment_type = p.payment_type}, "payment_type_sk")

LEMMA OneKeyEach ==
    ASSUME JobInv, SilverIsClean, DimsKeyed, AllDims \subseteq DOMAIN gold,
           "customers" \in DOMAIN silver, NEW o
    PROVE  /\ \E x : CustomerSk(silver, gold, o) = {x}
           /\ \E x : StatusSk(o) = {x}
           /\ \E x : ProductSk(o) = {x}
           /\ \E x : SellerSk(o) = {x}
           /\ \E x : TypeSk(o) = {x}
  <1>1. \E x : CustomerSk(silver, gold, o) = {x}
    <2> DEFINE matches ==
           {v \in gold["dim_customer"] :
              /\ \E c \in Rows(silver, "customers") :
                   c.customer_id = o.customer_id /\ c.customer_unique_id = v.customer_unique_id
              /\ o.order_purchase_timestamp >= v.effective_from}
    <2>1. ASSUME NEW v \in matches, NEW w \in matches PROVE v = w
      <3>1. PICK c \in Rows(silver, "customers") :
              c.customer_id = o.customer_id /\ c.customer_unique_id = v.customer_unique_id
        OBVIOUS
      <3>2. PICK d \in Rows(silver, "customers") :
              d.customer_id = o.customer_id /\ d.customer_unique_id = w.customer_unique_id
        OBVIOUS
      <3>3. SameKey("customers", c, d)
        BY <3>1, <3>2 DEF SameKey, BusinessKey
      <3>4. c = d
        BY <3>3, SilverRows
      <3> QED
        BY <3>1, <3>2, <3>4 DEF DimsKeyed, AllDims
    <2>2. CustomerSk(silver, gold, o) = LeftJoin(matches, "customer_sk")
      BY DEF CustomerSk
    <2> HIDE DEF matches
    <2>3. \A v, w \in matches : v["customer_sk"] = w["customer_sk"]
      BY <2>1
    <2> QED
      BY <2>2, <2>3, JoinsOnce
  <1>2. (\E x : StatusSk(o) = {x}) /\ (\E x : TypeSk(o) = {x})
    BY JoinsOnce DEF StatusSk, TypeSk, DimsKeyed, AllDims
  <1>3. (\E x : ProductSk(o) = {x}) /\ (\E x : SellerSk(o) = {x})
    BY JoinsOnce DEF ProductSk, SellerSk, DimsKeyed, AllDims
  <1> QED
    BY <1>1, <1>2, <1>3

(* A fact of each row whose order silver has.                              *)
Joined(t) == Rows(silver, t) \ Orphans(t)

TheOrder(line) == OneOf(OrderOf(silver, line))

LEMMA OrderOfLine ==
    ASSUME JobInv, SilverIsClean, "orders" \in DOMAIN silver, NEW t, NEW i \in Joined(t)
    PROVE  OrderOf(silver, i) = {TheOrder(i)}
  <1>1. OrderOf(silver, i) # {}
    BY DEF Joined, Orphans
  <1>2. \A o, p \in OrderOf(silver, i) : o = p
    <2> SUFFICES ASSUME NEW o \in OrderOf(silver, i), NEW p \in OrderOf(silver, i) PROVE o = p
      OBVIOUS
    <2>1. SameKey("orders", o, p) /\ o \in Rows(silver, "orders") /\ p \in Rows(silver, "orders")
      BY DEF OrderOf, SameKey, BusinessKey
    <2> QED
      BY <2>1, SilverRows
  <1>3. \E o : OrderOf(silver, i) = {o}
    BY <1>1, <1>2
  <1> QED
    BY <1>3, OneOfOne DEF TheOrder

LEMMA LinesAreCounted ==
    ASSUME JobInv, SilverIsClean, NEW t \in DOMAIN silver, NEW fact, DOMAIN fact = Joined(t),
           \A i, j \in Joined(t) : fact[i] = fact[j] => SameKey(t, i, j)
    PROVE  /\ IsFiniteSet(Joined(t)) /\ IsFiniteSet(Orphans(t))
           /\ IsFiniteSet({fact[i] : i \in Joined(t)})
           /\ \A i, j \in Joined(t) : fact[i] = fact[j] => i = j
           /\ Cardinality({fact[i] : i \in Joined(t)}) + Cardinality(Orphans(t))
                = Cardinality(silver[t])
  <1>1. /\ IsFiniteSet(Rows(silver, t)) /\ Cardinality(Rows(silver, t)) = Cardinality(silver[t])
        /\ \A i, j \in Rows(silver, t) : SameKey(t, i, j) => i = j
    BY SilverRows
  <1>2. Orphans(t) \subseteq Rows(silver, t) /\ Joined(t) \subseteq Rows(silver, t)
    BY DEF Orphans, Joined
  <1>3. IsFiniteSet(Joined(t)) /\ IsFiniteSet(Orphans(t))
    BY <1>1, <1>2, FS_Subset
  <1>4. \A i, j \in Joined(t) : fact[i] = fact[j] => i = j
    BY <1>1, <1>2
  <1>5. /\ IsFiniteSet({fact[i] : i \in Joined(t)})
        /\ Cardinality({fact[i] : i \in Joined(t)}) = Cardinality(Joined(t))
    BY <1>3, <1>4, FiniteImage
  <1>6. Cardinality(Joined(t)) + Cardinality(Orphans(t)) = Cardinality(Rows(silver, t))
    <2>1. Joined(t) \cap Orphans(t) = {} /\ Joined(t) \cup Orphans(t) = Rows(silver, t)
      BY <1>2 DEF Joined
    <2>2. PICK whole : whole = Joined(t) \cup Orphans(t)
      OBVIOUS
    <2>3. PICK m \in Nat, n \in Nat : m = Cardinality(Joined(t)) /\ n = Cardinality(Orphans(t))
      BY <1>3, FS_CardinalityType
    <2>4. Cardinality(whole) = m + n - Cardinality({})
      BY <1>3, <2>1, <2>2, <2>3, FS_Union
    <2>5. Cardinality({}) = 0
      BY FS_EmptySet
    <2> QED
      BY <2>1, <2>2, <2>3, <2>4, <2>5
  <1> QED
    BY <1>1, <1>3, <1>4, <1>5, <1>6

(* The one fact of an order, of an item and of a payment.                  *)
OrderFact(o) ==
    [order_id |-> o.order_id, customer_sk |-> OneOf(CustomerSk(silver, gold, o)),
     order_status_sk |-> OneOf(StatusSk(o)), order_date_sk |-> o.order_purchase_timestamp,
     order_total |-> Revenue({i \in Rows(silver, "order_items") : i.order_id = o.order_id})]

LEMMA OrderFacts ==
    ASSUME JobInv, SilverIsClean, DimsKeyed, AllDims \subseteq DOMAIN gold,
           "customers" \in DOMAIN silver
    PROVE  FactOrder(silver, gold) = {OrderFact(o) : o \in Rows(silver, "orders")}
  <1> DEFINE total(o) == Revenue({i \in Rows(silver, "order_items") : i.order_id = o.order_id})
             customer(o) == CustomerSk(silver, gold, o)
             row(o, c, s) == [order_id |-> o.order_id, customer_sk |-> c, order_status_sk |-> s,
                              order_date_sk |-> o.order_purchase_timestamp,
                              order_total |-> total(o)]
             rows(o) == {row(o, c, s) : c \in customer(o), s \in StatusSk(o)}
  <1>1. FactOrder(silver, gold) = UNION {rows(o) : o \in Rows(silver, "orders")}
    BY DEF FactOrder, StatusSk
  <1>2. ASSUME NEW o \in Rows(silver, "orders")
        PROVE  rows(o) = {OrderFact(o)}
    <2>1. OrderFact(o) = row(o, OneOf(customer(o)), OneOf(StatusSk(o)))
      BY DEF OrderFact
    <2>2. PICK x : customer(o) = {x}
      BY OneKeyEach
    <2>3. PICK y : StatusSk(o) = {y}
      BY OneKeyEach
    <2>4. OneOf({x}) = x /\ OneOf({y}) = y
      BY DEF OneOf
    <2> HIDE DEF total, customer, row
    <2>5. OrderFact(o) = row(o, x, y)
      BY <2>1, <2>2, <2>3, <2>4
    <2> QED
      BY <2>2, <2>3, <2>5
  <1> HIDE DEF rows
  <1>3. ASSUME NEW f
        PROVE  f \in FactOrder(silver, gold) <=> \E o \in Rows(silver, "orders") : f = OrderFact(o)
    <2>1. f \in FactOrder(silver, gold) <=> \E o \in Rows(silver, "orders") : f \in rows(o)
      BY <1>1
    <2> QED
      BY <1>2, <2>1
  <1> QED
    BY <1>3

ItemFact(i) ==
    [order_id |-> i.order_id, order_item_id |-> i.order_item_id,
     product_sk |-> OneOf(ProductSk(i)), seller_sk |-> OneOf(SellerSk(i)),
     customer_sk |-> OneOf(CustomerSk(silver, gold, TheOrder(i))),
     order_date_sk |-> TheOrder(i).order_purchase_timestamp,
     item_revenue |-> i.price + i.freight_value]

LEMMA ItemFacts ==
    ASSUME JobInv, SilverIsClean, DimsKeyed, AllDims \subseteq DOMAIN gold,
           {"customers", "orders"} \subseteq DOMAIN silver
    PROVE  FactOrderItem(silver, gold) = {ItemFact(i) : i \in Joined("order_items")}
  <1> DEFINE customer(o) == CustomerSk(silver, gold, o)
             row(i, o, c, p, s) ==
                [order_id |-> i.order_id, order_item_id |-> i.order_item_id,
                 product_sk |-> p, seller_sk |-> s, customer_sk |-> c,
                 order_date_sk |-> o.order_purchase_timestamp,
                 item_revenue |-> i.price + i.freight_value]
             rows(i, o) == {row(i, o, c, p, s) :
                              c \in customer(o), p \in ProductSk(i), s \in SellerSk(i)}
  <1>1. FactOrderItem(silver, gold) =
          UNION {UNION {rows(i, o) : o \in OrderOf(silver, i)} : i \in Rows(silver, "order_items")}
    BY DEF FactOrderItem, ProductSk, SellerSk
  <1>2. ASSUME NEW i \in Joined("order_items")
        PROVE  rows(i, TheOrder(i)) = {ItemFact(i)}
    <2>1. ItemFact(i) = row(i, TheOrder(i), OneOf(customer(TheOrder(i))),
                            OneOf(ProductSk(i)), OneOf(SellerSk(i)))
      BY DEF ItemFact
    <2>2. PICK o : o = TheOrder(i)
      OBVIOUS
    <2>3. PICK x : customer(o) = {x}
      BY OneKeyEach
    <2>4. PICK y : ProductSk(i) = {y}
      BY OneKeyEach
    <2>5. PICK z : SellerSk(i) = {z}
      BY OneKeyEach
    <2>6. OneOf({x}) = x /\ OneOf({y}) = y /\ OneOf({z}) = z
      BY DEF OneOf
    <2> HIDE DEF customer, row
    <2>7. ItemFact(i) = row(i, o, x, y, z)
      BY <2>1, <2>2, <2>3, <2>4, <2>5, <2>6
    <2>8. rows(i, o) = {row(i, o, x, y, z)}
      BY <2>3, <2>4, <2>5
    <2> QED
      BY <2>2, <2>7, <2>8
  <1> HIDE DEF rows
  <1>3. ASSUME NEW i \in Rows(silver, "order_items")
        PROVE  /\ i \in Joined("order_items") => OrderOf(silver, i) = {TheOrder(i)}
               /\ i \notin Joined("order_items") => OrderOf(silver, i) = {}
    <2>1. i \in Joined("order_items") => OrderOf(silver, i) = {TheOrder(i)}
      BY OrderOfLine
    <2> QED
      BY <2>1 DEF Joined, Orphans
  <1>4. ASSUME NEW f
        PROVE  f \in FactOrderItem(silver, gold)
                 <=> \E i \in Joined("order_items") : f = ItemFact(i)
    <2>1. f \in FactOrderItem(silver, gold)
            <=> \E i \in Rows(silver, "order_items") : \E o \in OrderOf(silver, i) : f \in rows(i, o)
      BY <1>1
    <2>2. Joined("order_items") \subseteq Rows(silver, "order_items")
      BY DEF Joined
    <2> QED
      BY <1>2, <1>3, <2>1, <2>2
  <1> QED
    BY <1>4

PaymentFact(p) ==
    [order_id |-> p.order_id, payment_sequential |-> p.payment_sequential,
     payment_type_sk |-> OneOf(TypeSk(p)),
     customer_sk |-> OneOf(CustomerSk(silver, gold, TheOrder(p))),
     order_date_sk |-> TheOrder(p).order_purchase_timestamp,
     payment_value |-> p.payment_value]

LEMMA PaymentFacts ==
    ASSUME JobInv, SilverIsClean, DimsKeyed, AllDims \subseteq DOMAIN gold,
           {"customers", "orders"} \subseteq DOMAIN silver
    PROVE  FactPayment(silver, gold) = {PaymentFact(p) : p \in Joined("order_payments")}
  <1> DEFINE customer(o) == CustomerSk(silver, gold, o)
             row(p, o, c, t) ==
                [order_id |-> p.order_id, payment_sequential |-> p.payment_sequential,
                 payment_type_sk |-> t, customer_sk |-> c,
                 order_date_sk |-> o.order_purchase_timestamp,
                 payment_value |-> p.payment_value]
             rows(p, o) == {row(p, o, c, t) : c \in customer(o), t \in TypeSk(p)}
  <1>1. FactPayment(silver, gold) =
          UNION {UNION {rows(p, o) : o \in OrderOf(silver, p)} :
                 p \in Rows(silver, "order_payments")}
    BY DEF FactPayment, TypeSk
  <1>2. ASSUME NEW p \in Joined("order_payments")
        PROVE  rows(p, TheOrder(p)) = {PaymentFact(p)}
    <2>1. PaymentFact(p) =
            row(p, TheOrder(p), OneOf(customer(TheOrder(p))), OneOf(TypeSk(p)))
      BY DEF PaymentFact
    <2>2. PICK o : o = TheOrder(p)
      OBVIOUS
    <2>3. PICK x : customer(o) = {x}
      BY OneKeyEach
    <2>4. PICK y : TypeSk(p) = {y}
      BY OneKeyEach
    <2>5. OneOf({x}) = x /\ OneOf({y}) = y
      BY DEF OneOf
    <2> HIDE DEF customer, row
    <2>6. PaymentFact(p) = row(p, o, x, y)
      BY <2>1, <2>2, <2>3, <2>4, <2>5
    <2>7. rows(p, o) = {row(p, o, x, y)}
      BY <2>3, <2>4
    <2> QED
      BY <2>2, <2>6, <2>7
  <1> HIDE DEF rows
  <1>3. ASSUME NEW p \in Rows(silver, "order_payments")
        PROVE  /\ p \in Joined("order_payments") => OrderOf(silver, p) = {TheOrder(p)}
               /\ p \notin Joined("order_payments") => OrderOf(silver, p) = {}
    <2>1. p \in Joined("order_payments") => OrderOf(silver, p) = {TheOrder(p)}
      BY OrderOfLine
    <2> QED
      BY <2>1 DEF Joined, Orphans
  <1>4. ASSUME NEW f
        PROVE  f \in FactPayment(silver, gold)
                 <=> \E p \in Joined("order_payments") : f = PaymentFact(p)
    <2>1. f \in FactPayment(silver, gold)
            <=> \E p \in Rows(silver, "order_payments") :
                  \E o \in OrderOf(silver, p) : f \in rows(p, o)
      BY <1>1
    <2>2. Joined("order_payments") \subseteq Rows(silver, "order_payments")
      BY DEF Joined
    <2> QED
      BY <1>2, <1>3, <2>1, <2>2
  <1> QED
    BY <1>4

LEMMA OrdersAreCounted ==
    ASSUME JobInv, SilverIsClean, DimsKeyed, AllDims \subseteq DOMAIN gold,
           {"customers", "orders"} \subseteq DOMAIN silver,
           NEW facts, facts = FactOrder(silver, gold)
    PROVE  Cardinality(facts) = Cardinality(silver["orders"])
  <1>1. PICK fact : fact = [o \in Rows(silver, "orders") |-> OrderFact(o)]
    OBVIOUS
  <1>2. DOMAIN fact = Rows(silver, "orders") /\ facts = {fact[o] : o \in Rows(silver, "orders")}
    BY <1>1, OrderFacts
  <1>3. \A o, p \in Rows(silver, "orders") : fact[o] = fact[p] => o = p
    <2> SUFFICES ASSUME NEW o \in Rows(silver, "orders"), NEW p \in Rows(silver, "orders"),
                        fact[o] = fact[p]
                 PROVE  o = p
      OBVIOUS
    <2>1. OrderFact(o).order_id = OrderFact(p).order_id
      BY <1>1
    <2>2. SameKey("orders", o, p)
      BY <2>1 DEF OrderFact, SameKey, BusinessKey
    <2> QED
      BY <2>2, SilverRows
  <1> QED
    BY <1>2, <1>3, SilverRows, FiniteImage

LEMMA PaymentsAreCounted ==
    ASSUME JobInv, SilverIsClean, DimsKeyed, AllDims \subseteq DOMAIN gold,
           {"customers", "orders", "order_payments"} \subseteq DOMAIN silver,
           NEW facts, facts = FactPayment(silver, gold)
    PROVE  Cardinality(facts) + Cardinality(Orphans("order_payments"))
             = Cardinality(silver["order_payments"])
  <1>1. PICK fact : fact = [p \in Joined("order_payments") |-> PaymentFact(p)]
    OBVIOUS
  <1>2. /\ DOMAIN fact = Joined("order_payments")
        /\ facts = {fact[p] : p \in Joined("order_payments")}
    BY <1>1, PaymentFacts
  <1>3. \A p, q \in Joined("order_payments") :
          fact[p] = fact[q] => SameKey("order_payments", p, q)
    <2> SUFFICES ASSUME NEW p \in Joined("order_payments"), NEW q \in Joined("order_payments"),
                        fact[p] = fact[q]
                 PROVE  SameKey("order_payments", p, q)
      OBVIOUS
    <2>1. /\ PaymentFact(p).order_id = PaymentFact(q).order_id
          /\ PaymentFact(p).payment_sequential = PaymentFact(q).payment_sequential
      BY <1>1
    <2> QED
      BY <2>1 DEF PaymentFact, SameKey, BusinessKey
  <1> QED
    BY <1>2, <1>3, LinesAreCounted

(* What silver has of an item can be added: both amounts pass a rule that  *)
(* NULL does not pass.                                                     *)
LEMMA AmountRules ==
    ASSUME NEW row, Predicate("order_items.price_non_negative", row) = "true",
           Predicate("order_items.freight_non_negative", row) = "true"
    PROVE  row.price # NULL /\ row.freight_value # NULL
  <1>1. ASSUME NEW rule, NEW col,
               \/ rule = "order_items.price_non_negative" /\ col = "price"
               \/ rule = "order_items.freight_non_negative" /\ col = "freight_value",
               Predicate(rule, row) = "true"
        PROVE  row[col] # NULL
    <2>1. /\ rule \notin DOMAIN NotNull /\ rule \in DOMAIN AtLeast /\ rule \notin DOMAIN InDomain
          /\ rule # "customers.state_two_letters" /\ rule # "products.weight_non_negative"
          /\ rule # "orders.delivery_after_purchase"
      BY <1>1 DEF NotNull, AtLeast, InDomain, Registry
    <2>2. AtLeast[rule][1] = col
      BY <1>1 DEF AtLeast, Registry
    <2>3. row[AtLeast[rule][1]] = NULL => Predicate(rule, row) = "null"
      BY <2>1 DEF Predicate, Compare
    <2> QED
      BY <1>1, <2>2, <2>3
  <1> QED
    BY <1>1

LEMMA RevenueIsNumber ==
    ASSUME JobInv, SilverIsClean, "order_items" \in DOMAIN silver,
           NEW i \in Rows(silver, "order_items")
    PROVE  i.price + i.freight_value \in Int
  <1>1. PICK f \in Uploads : i \in TypedFile(f, "order_items")
    BY SilverIsUploaded
  <1>2. PICK s \in f["order_items"] : i = Typed(s)
    BY <1>1 DEF TypedFile
  <1>3. {i.price, i.freight_value} \subseteq Int \cup {NULL}
    <2>1. s \in UNION {g["order_items"] : g \in Uploads}
      BY <1>2
    <2> QED
      BY <1>2, <2>1, PricesAreNumbers
  <1>4. i.price # NULL /\ i.freight_value # NULL
    <2>1. PICK r \in silver["order_items"] : i = r.src
      BY DEF Rows
    <2>2. {"order_items.price_non_negative", "order_items.freight_non_negative"}
            \subseteq RejectRules("order_items")
      BY DEF RejectRules, RulesFor, Rules, WarnRules
    <2>3. /\ Predicate("order_items.price_non_negative", i) = "true"
          /\ Predicate("order_items.freight_non_negative", i) = "true"
      BY <2>1, <2>2 DEF SilverIsClean
    <2> QED
      BY <2>3, AmountRules
  <1> QED
    BY <1>3, <1>4

LEMMA ItemsAreCounted ==
    ASSUME JobInv, SilverIsClean, DimsKeyed, AllDims \subseteq DOMAIN gold,
           {"customers", "orders", "order_items"} \subseteq DOMAIN silver,
           NEW facts, facts = FactOrderItem(silver, gold)
    PROVE  /\ Cardinality(facts) + Cardinality(Orphans("order_items"))
                = Cardinality(silver["order_items"])
           /\ MapThenSumSet(LAMBDA f : f.item_revenue, facts) + Revenue(Orphans("order_items"))
                = Revenue(Rows(silver, "order_items"))
  <1>1. PICK all, part, rest : /\ all = Rows(silver, "order_items")
                               /\ part = Joined("order_items")
                               /\ rest = Orphans("order_items")
    OBVIOUS
  <1>2. part \subseteq all /\ rest \subseteq all /\ all \ rest = part
    BY <1>1 DEF Joined, Orphans
  <1>3. PICK fact : fact = [i \in part |-> ItemFact(i)]
    OBVIOUS
  <1>4. DOMAIN fact = part /\ facts = {fact[i] : i \in part}
    BY <1>1, <1>3, ItemFacts
  <1>5. \A i, j \in part : fact[i] = fact[j] => SameKey("order_items", i, j)
    <2> SUFFICES ASSUME NEW i \in part, NEW j \in part, fact[i] = fact[j]
                 PROVE  SameKey("order_items", i, j)
      OBVIOUS
    <2>1. /\ ItemFact(i).order_id = ItemFact(j).order_id
          /\ ItemFact(i).order_item_id = ItemFact(j).order_item_id
      BY <1>3
    <2> QED
      BY <2>1 DEF ItemFact, SameKey, BusinessKey
  <1>6. /\ IsFiniteSet(part) /\ IsFiniteSet(rest) /\ IsFiniteSet(facts)
        /\ \A i, j \in part : fact[i] = fact[j] => i = j
        /\ Cardinality(facts) + Cardinality(Orphans("order_items"))
             = Cardinality(silver["order_items"])
    BY <1>1, <1>4, <1>5, LinesAreCounted
  <1>7. IsFiniteSet(all) /\ \A i \in all : i.price + i.freight_value \in Int
    BY <1>1, SilverRows, RevenueIsNumber
  <1>8. PICK value : value = [i \in all |-> i.price + i.freight_value]
    OBVIOUS
  <1>9. Summable(value, all)
    BY <1>7, <1>8 DEF Summable
  <1>10. PICK sum : Sums(sum, value, all) /\ Revenue(all) = sum[all]
    BY <1>7, <1>8, RevenueSums
  <1>11. sum[all] = sum[rest] + sum[part]
    BY <1>2, <1>9, <1>10, SumSplits
  <1>12. Revenue(rest) = sum[rest]
    <2>1. PICK worth : worth = [i \in rest |-> i.price + i.freight_value]
      OBVIOUS
    <2>2. PICK other : Sums(other, worth, rest) /\ Revenue(rest) = other[rest]
      BY <1>6, <2>1, RevenueSums
    <2>3. \A i \in rest : worth[i] = value[i]
      BY <1>2, <1>8, <2>1
    <2> QED
      BY <1>2, <1>9, <1>10, <2>2, <2>3, SumOfPart
  <1>13. MapThenSumSet(LAMBDA f : f.item_revenue, facts) = sum[part]
    <2>1. PICK revenue : revenue = [f \in facts |-> f.item_revenue]
      OBVIOUS
    <2>2. PICK total : /\ Sums(total, revenue, facts)
                       /\ MapThenSumSet(LAMBDA f : f.item_revenue, facts) = total[facts]
      BY <1>6, <2>1, FactRevenueSums
    <2>3. \A i \in part : fact[i] \in facts /\ revenue[fact[i]] = value[i]
      BY <1>2, <1>3, <1>4, <1>8, <2>1 DEF ItemFact
    <2>4. PICK other : Sums(other, value, part)
      BY <1>6, SumExists
    <2>5. Summable(value, part)
      BY <1>2, <1>6, <1>9 DEF Summable
    <2>6. Summable(revenue, facts)
      BY <1>4, <1>6, <2>3, <2>5 DEF Summable
    <2>7. other[part] = total[{fact[i] : i \in part}]
      BY <1>6, <2>2, <2>3, <2>4, <2>5, <2>6, SumRenames
    <2>8. other[part] = sum[part]
      BY <1>2, <1>9, <1>10, <2>4, SumOfPart
    <2> QED
      BY <1>4, <2>2, <2>7, <2>8
  <1>14. sum[rest] \in Int /\ sum[part] \in Int
    <2>1. AddsUp(sum, value, all)
      BY <1>9, <1>10, SumAdds
    <2> QED
      BY <1>2, <2>1 DEF AddsUp
  <1> QED
    BY <1>1, <1>6, <1>10, <1>11, <1>12, <1>13, <1>14

ItemRevenue(facts) == MapThenSumSet(LAMBDA f : f.item_revenue, facts)

Missing(S, t) == {l \in Rows(S, t) : OrderOf(S, l) = {}}

OrdersReconcile(orders, S) == Cardinality(orders) = Cardinality(S["orders"])

ItemsReconcile(items, S) ==
    /\ Cardinality(items) + Cardinality(Missing(S, "order_items")) = Cardinality(S["order_items"])
    /\ ItemRevenue(items) + Revenue(Missing(S, "order_items")) = Revenue(Rows(S, "order_items"))

PaymentsReconcile(payments, S) ==
    Cardinality(payments) + Cardinality(Missing(S, "order_payments"))
      = Cardinality(S["order_payments"])

ReconciledSoFar(n) ==
    /\ n > 7 => OrdersReconcile(gold["fact_order"], silver)
    /\ n > 8 => ItemsReconcile(gold["fact_order_item"], silver)
    /\ n > 9 => PaymentsReconcile(gold["fact_payment"], silver)

PublishedReconciles ==
    IsPublished => /\ OrdersReconcile(gold["fact_order"], published.silver)
                   /\ ItemsReconcile(gold["fact_order_item"], published.silver)
                   /\ PaymentsReconcile(gold["fact_payment"], published.silver)

RecInv ==
    /\ DimsKeyed
    /\ PublishedReconciles
    /\ \A r \in Runs : task[r].phase = "cleaned" => ReconciledSoFar(task[r].at)

LEMMA QuietKeepsRec ==
    ASSUME JobInv, RefInv, RecInv, NEW r \in Runs, Quiet(r), UNCHANGED <<gold, published>>
    PROVE  RecInv'
  <1>1. DimsKeyed'
    BY DEF RecInv, DimsKeyed
  <1>2. PublishedReconciles'
    BY DEF RecInv, PublishedReconciles, IsPublished
  <1>3. \A q \in Runs : task'[q].phase = "cleaned" => task'[q].at \in {1, 7}
    BY QuietMoves DEF RefInv
  <1>4. ASSUME NEW q \in Runs, task'[q].phase = "cleaned"
        PROVE  ReconciledSoFar(task[q].at)'
    BY <1>3, <1>4 DEF ReconciledSoFar
  <1> QED
    BY <1>1, <1>2, <1>4 DEF RecInv

(* Every dimension is made with its keys.                                  *)
LEMMA BuildKeepsKeys ==
    ASSUME DimsKeyed, NEW t, gold' = CreateOrReplace(gold, t, Build(t, silver, gold))
    PROVE  DimsKeyed'
  <1>1. /\ DOMAIN gold' = {t} \cup DOMAIN gold
        /\ \A u \in DOMAIN gold : u # t => gold'[u] = gold[u]
        /\ gold'[t] = Build(t, silver, gold)
    BY DEF CreateOrReplace, Overwritten
  <1>2. ASSUME "dim_customer" \in DOMAIN gold'
        PROVE  \A v, w \in gold'["dim_customer"] :
                  v.customer_unique_id = w.customer_unique_id => v = w
    <2>1. CASE t = "dim_customer"
      <3>1. gold'["dim_customer"] = DimCustomer(silver, gold)
        BY <1>1, <2>1 DEF Build
      <3>2. \A v, w \in SeededCustomers(silver) :
              v.customer_unique_id = w.customer_unique_id => v = w
        <4> DEFINE first(uid) == FirstOrder(silver, uid)
                   version(uid) == [customer_sk |-> Hash(<<uid, first(uid)>>),
                                    customer_unique_id |-> uid, effective_from |-> first(uid)]
                   people == {c.customer_unique_id : c \in Rows(silver, "customers")}
        <4>1. SeededCustomers(silver) = {version(uid) : uid \in people}
          BY DEF SeededCustomers
        <4>2. \A uid \in people : version(uid).customer_unique_id = uid
          OBVIOUS
        <4> HIDE DEF people, version
        <4> QED
          BY <4>1, <4>2
      <3> QED
        BY <3>1, <3>2 DEF DimCustomer, DimsKeyed
    <2>2. CASE t # "dim_customer"
      BY <1>1, <1>2, <2>2 DEF DimsKeyed
    <2> QED
      BY <2>1, <2>2
  <1>3. ASSUME "dim_product" \in DOMAIN gold'
        PROVE  \A d \in gold'["dim_product"] : d["product_sk"] = Hash(d.product_id)
    <2>1. CASE t = "dim_product"
      <3> DEFINE english(p) == LeftJoin({x \in Rows(silver, "product_category_translation") :
                                           /\ p.product_category_name # NULL
                                           /\ x.product_category_name = p.product_category_name},
                                        "product_category_name_english")
      <3>1. gold'["dim_product"] = DimProduct(silver)
        BY <1>1, <2>1 DEF Build
      <3>2. DimProduct(silver) =
              UNION {{[product_sk |-> Hash(p.product_id), product_id |-> p.product_id,
                       category |-> IF name = NULL THEN UNKNOWN ELSE name] : name \in english(p)} :
                     p \in Rows(silver, "products")}
        BY DEF DimProduct
      <3> HIDE DEF english
      <3> QED
        BY <3>1, <3>2
    <2>2. CASE t # "dim_product"
      BY <1>1, <1>3, <2>2 DEF DimsKeyed
    <2> QED
      BY <2>1, <2>2
  <1>4. ASSUME "dim_seller" \in DOMAIN gold'
        PROVE  \A d \in gold'["dim_seller"] : d["seller_sk"] = Hash(d.seller_id)
    <2>1. CASE t = "dim_seller"
      BY <1>1, <2>1 DEF Build, DimSeller
    <2>2. CASE t # "dim_seller"
      BY <1>1, <1>4, <2>2 DEF DimsKeyed
    <2> QED
      BY <2>1, <2>2
  <1>5. ASSUME "dim_order_status" \in DOMAIN gold'
        PROVE  \A d \in gold'["dim_order_status"] : d["order_status_sk"] = Hash(d.order_status)
    <2>1. CASE t = "dim_order_status"
      BY <1>1, <2>1 DEF Build, DimOrderStatus
    <2>2. CASE t # "dim_order_status"
      BY <1>1, <1>5, <2>2 DEF DimsKeyed
    <2> QED
      BY <2>1, <2>2
  <1>6. ASSUME "dim_payment_type" \in DOMAIN gold'
        PROVE  \A d \in gold'["dim_payment_type"] : d["payment_type_sk"] = Hash(d.payment_type)
    <2>1. CASE t = "dim_payment_type"
      BY <1>1, <2>1 DEF Build, DimPaymentType
    <2>2. CASE t # "dim_payment_type"
      BY <1>1, <1>6, <2>2 DEF DimsKeyed
    <2> QED
      BY <2>1, <2>2
  <1> QED
    BY <1>2, <1>3, <1>4, <1>5, <1>6 DEF DimsKeyed

(* A fact is built reconciled, and building another leaves it so.          *)
LEMMA BuildReconciles ==
    ASSUME JobInv, SilverIsClean, DimsKeyed, NEW n \in 1 .. 9, Made(n), ReconciledSoFar(n),
           {"customers", "orders", "order_items", "order_payments"} \subseteq DOMAIN silver,
           UNCHANGED silver,
           gold' = CreateOrReplace(gold, GoldTables[n], Build(GoldTables[n], silver, gold))
    PROVE  ReconciledSoFar(n + 1)'
  <1> DEFINE t == GoldTables[n]
  <1>1. /\ \A u \in DOMAIN gold : u # t => gold'[u] = gold[u]
        /\ gold'[t] = Build(t, silver, gold)
    BY DEF CreateOrReplace, Overwritten
  <1>2. \A j \in 1 .. 9 : j < n => GoldTables[j] \in DOMAIN gold
    BY DEF Made
  <1>3. n > 6 => AllDims \subseteq DOMAIN gold
    BY <1>2, GoldOrder DEF AllDims
  <1>4. Missing(silver, "order_items") = Orphans("order_items")
        /\ Missing(silver, "order_payments") = Orphans("order_payments")
    BY DEF Missing, Orphans
  <1>5. n + 1 > 7 => OrdersReconcile(gold["fact_order"], silver)'
    <2>1. CASE n = 7
      <3>1. PICK facts : facts = gold'["fact_order"] /\ facts = FactOrder(silver, gold)
        BY <1>1, <2>1, GoldOrder DEF Build
      <3>2. Cardinality(facts) = Cardinality(silver["orders"])
        BY <1>3, <2>1, <3>1, OrdersAreCounted
      <3> QED
        BY <3>1, <3>2 DEF OrdersReconcile
    <2>2. CASE n = 8 \/ n = 9
      <3>1. "fact_order" \in DOMAIN gold /\ t # "fact_order"
        BY <1>2, <2>2, GoldOrder
      <3>2. PICK facts : facts = gold["fact_order"] /\ facts = gold'["fact_order"]
        BY <1>1, <3>1
      <3> QED
        BY <2>2, <3>2 DEF ReconciledSoFar, OrdersReconcile
    <2> QED
      BY <2>1, <2>2
  <1>6. n + 1 > 8 => ItemsReconcile(gold["fact_order_item"], silver)'
    <2>1. CASE n = 8
      <3>1. PICK facts : /\ facts = gold'["fact_order_item"]
                         /\ facts = FactOrderItem(silver, gold)
        BY <1>1, <2>1, GoldOrder DEF Build
      <3>2. ItemsReconcile(facts, silver)
        BY <1>3, <1>4, <2>1, <3>1, ItemsAreCounted DEF ItemsReconcile, ItemRevenue
      <3>3. ItemsReconcile(facts, silver)'
        BY <3>2 DEF ItemsReconcile, Missing, OrderOf, Rows
      <3> QED
        BY <3>1, <3>3 DEF ItemsReconcile
    <2>2. CASE n = 9
      <3>1. "fact_order_item" \in DOMAIN gold /\ t # "fact_order_item"
        BY <1>2, <2>2, GoldOrder
      <3>2. PICK facts : facts = gold["fact_order_item"] /\ facts = gold'["fact_order_item"]
        BY <1>1, <3>1
      <3>3. ItemsReconcile(facts, silver)
        BY <2>2, <3>2 DEF ReconciledSoFar
      <3>4. ItemsReconcile(facts, silver)'
        BY <3>3 DEF ItemsReconcile, Missing, OrderOf, Rows
      <3> QED
        BY <3>2, <3>4 DEF ItemsReconcile
    <2> QED
      BY <2>1, <2>2
  <1>7. n + 1 > 9 => PaymentsReconcile(gold["fact_payment"], silver)'
    <2>1. CASE n = 9
      <3>1. PICK facts : facts = gold'["fact_payment"] /\ facts = FactPayment(silver, gold)
        BY <1>1, <2>1, GoldOrder DEF Build
      <3>2. PaymentsReconcile(facts, silver)
        BY <1>3, <1>4, <2>1, <3>1, PaymentsAreCounted DEF PaymentsReconcile
      <3>3. PaymentsReconcile(facts, silver)'
        BY <3>2 DEF PaymentsReconcile, Missing, OrderOf, Rows
      <3> QED
        BY <3>1, <3>3 DEF PaymentsReconcile
    <2> QED
      BY <2>1
  <1> QED
    BY <1>5, <1>6, <1>7 DEF ReconciledSoFar

LEMMA BuildKeepsRec ==
    ASSUME JobInv, SilverIsClean, RefInv, RecInv, NEW r \in Runs, BuildTable(r)
    PROVE  RecInv'
  <1>1. LandInv /\ \A q \in Runs \ {r} : ~Active(q)
    BY NobodyElse DEF JobInv, RefInv, Later
  <1>2. /\ task[r].phase = "cleaned" /\ UNCHANGED silver
        /\ gold' = CreateOrReplace(gold, GoldTables[task[r].at],
                                   Build(GoldTables[task[r].at], silver, gold))
    BY DEF BuildTable
  <1>3. PICK n \in 1 .. 9 : n = task[r].at /\ Made(n) /\ ReconciledSoFar(n)
    BY <1>2 DEF RefInv, GoldFollows, Follows, Place, RecInv
  <1>4. {"customers", "orders", "order_items", "order_payments"} \subseteq DOMAIN silver
    <2>1. {"customers", "orders", "order_items", "order_payments"} \subseteq TableNames
      BY RegistryIsIngested DEF BusinessKey
    <2> QED
      BY <1>2, <2>1 DEF JobInv, RouteInv, Progress
  <1>5. DimsKeyed'
    BY <1>2, BuildKeepsKeys DEF RecInv
  <1>6. ReconciledSoFar(n + 1)'
    BY <1>2, <1>3, <1>4, BuildReconciles DEF RecInv
  <1>7. ASSUME task'[r].phase = "built" \/ task'[r].at = n + 1
        PROVE  (\A q \in Runs : task[q].phase = "cleaned" => ReconciledSoFar(task[q].at))'
    <2>1. \A q \in Runs \ {r} : task'[q] = task[q]
      BY <1>1, BuildMoves
    <2>2. \A q \in Runs \ {r} : task'[q].phase # "cleaned"
      BY <1>1, <2>1 DEF Active, Ended
    <2>3. task'[r].phase = "cleaned" => ReconciledSoFar(task[r].at)'
      BY <1>6, <1>7 DEF ReconciledSoFar
    <2> QED
      BY <2>2, <2>3
  <1>8. CASE n < 9
    <2>1. task'[r].at = n + 1 /\ published' = Nothing
      BY <1>1, <1>3, <1>8, BuildMoves
    <2>2. PublishedReconciles'
      BY <2>1 DEF PublishedReconciles, IsPublished
    <2> QED
      BY <1>5, <1>7, <2>1, <2>2 DEF RecInv
  <1>9. CASE n = 9
    <2>1. ~(task[r].at < 9)
      BY <1>3, <1>9
    <2>2. /\ task'[r].phase = "built"
          /\ published' = [silver |-> silver, bronze |-> [x \in TableNames |-> Now(x)],
                           missed |-> missed[r]]
      BY <1>1, <2>1, BuildMoves
    <2>3. published'.silver = silver'
      BY <1>2, <2>2
    <2>4. PublishedReconciles'
      BY <1>6, <1>9, <2>3 DEF PublishedReconciles, ReconciledSoFar
    <2> QED
      BY <1>5, <1>7, <2>2, <2>4 DEF RecInv
  <1> QED
    BY <1>3, <1>8, <1>9

(* Reconciles, what v_reconciliation looks at (10_reconciliation.sql):     *)
(* with any rows uploaded, no join of a fact duplicates a row, and the     *)
(* rows and the revenue a fact lacks are those of the lines and payments   *)
(* whose order silver does not have.                                       *)
THEOREM GoldReconciles == WSpec => []Reconciles
  <1>1. WInit => RecInv
    <2> SUFFICES ASSUME WInit PROVE RecInv
      OBVIOUS
    <2>1. \A r \in Runs : task[r].phase = "idle"
      BY DEF WInit, Init, Idle, Writers
    <2> QED
      BY <2>1 DEF WInit, RecInv, DimsKeyed, PublishedReconciles, IsPublished
  <1>2. ASSUME JobInv, SilverIsClean, RefInv, RecInv, [WNext]_wvars
        PROVE  RecInv'
    <2>1. ASSUME NEW r \in Runs, Quiet(r), UNCHANGED <<gold, published>>
          PROVE  RecInv'
      BY <1>2, <2>1, QuietKeepsRec
    <2>2. ASSUME NEW r \in Runs, BuildTable(r)
          PROVE  RecInv'
      BY <1>2, <2>2, BuildKeepsRec
    <2>3. CASE UNCHANGED <<task, silver, gold, published>>
      <3>1. DimsKeyed'
        BY <1>2, <2>3 DEF RecInv, DimsKeyed
      <3>2. PublishedReconciles'
        BY <1>2, <2>3 DEF RecInv, PublishedReconciles, IsPublished
      <3>3. \A r \in Runs : task'[r].phase = "cleaned" => ReconciledSoFar(task[r].at)'
        BY <1>2, <2>3 DEF RecInv, ReconciledSoFar
      <3> QED
        BY <3>1, <3>2, <3>3 DEF RecInv
    <2> QED
      BY <1>2, <2>1, <2>2, <2>3, QuietSteps
  <1>3. RecInv => Reconciles
    <2> SUFFICES ASSUME RecInv, published.silver = silver, IsPublished
                 PROVE  /\ OrdersReconcile(gold["fact_order"], silver)
                        /\ ItemsReconcile(gold["fact_order_item"], silver)
                        /\ PaymentsReconcile(gold["fact_payment"], silver)
      BY DEF Reconciles, OrdersReconcile, ItemsReconcile, ItemRevenue, PaymentsReconcile,
             Missing, Orphans
    <2> QED
      BY DEF RecInv, PublishedReconciles
  <1> QED
    BY <1>1, <1>2, <1>3, RefsInvariant, PTL DEF WSpec
=============================================================================
