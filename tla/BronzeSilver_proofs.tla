--------------------------- MODULE BronzeSilver_proofs ---------------------------
(***************************************************************************)
(* Proofs about BronzeSilver, for every list of tables, every set of runs  *)
(* and ingest modes and every content of the landing volume.               *)
(***************************************************************************)
EXTENDS BronzeSilver, FiniteSums

-----------------------------------------------------------------------------
(* What deduplication promises.                                            *)

LEMMA KeyIsSameKey ==
    ASSUME NEW t, NEW r, NEW s
    PROVE  Key(t, r) = Key(t, s) <=> SameKey(t, r, s)
  BY DEF Key, SameKey

(* Of the rows with one key exactly one survives.                          *)
LEMMA OneSurvivor ==
    ASSUME NEW t, NEW rows, NEW survivors \in Survivors(t, rows),
           NEW r \in survivors, NEW s \in survivors, SameKey(t, r.src, s.src)
    PROVE  r = s
  <1> DEFINE winners == Winners(t, rows)
             tied == {w \in winners : \E q \in winners : q # w /\ SameKey(t, q.src, w.src)}
  <1>0. survivors \in OneOfEachKey(t, winners)
    BY DEF Survivors
  <1>1. PICK some \in SUBSET tied :
            /\ survivors = (winners \ tied) \cup some
            /\ \A q \in tied : \E one \in some : {x \in some : SameKey(t, q.src, x.src)} = {one}
    BY <1>0 DEF OneOfEachKey
  <1>2. r \in winners /\ s \in winners
    BY <1>1
  <1> HIDE DEF winners
  <1>3. SUFFICES ASSUME r # s PROVE FALSE
    OBVIOUS
  <1>4. SameKey(t, s.src, r.src) /\ SameKey(t, r.src, r.src)
    BY DEF SameKey
  <1>5. r \in tied /\ s \in tied
    BY <1>2, <1>3, <1>4
  <1>6. r \in some /\ s \in some
    BY <1>1, <1>5
  <1> QED
    BY <1>1, <1>3, <1>4, <1>5, <1>6

LEMMA DedupedAreSurvivors ==
    ASSUME NEW t, NEW rows \in Deduped(t)
    PROVE  rows \in Survivors(t, TypedRows(t))
  BY DEF Deduped

(* The rows that are not diverted satisfy every reject rule.               *)
LEMMA CleanRowsPass ==
    ASSUME NEW t, NEW rows, NEW r \in Clean(t, rows), NEW rule \in RejectRules(t)
    PROVE  Predicate(rule, r.src) = "true"
  BY DEF Clean, Rejected, FailedRules, Fails, RejectRules

-----------------------------------------------------------------------------
CleanTable(t, rows) ==
    \A r, s \in rows :
        /\ Key(t, r.src) = Key(t, s.src) => r = s
        /\ \A rule \in RejectRules(t) : Predicate(rule, r.src) = "true"

LEMMA WriteCleanKeepsSilverClean ==
    ASSUME SilverIsClean, NEW w, WriteClean(w)
    PROVE  SilverIsClean'
  <1>1. PICK t : t = At(w)
    OBVIOUS
  <1>0. PICK rows \in Deduped(t) : silver' = Overwritten(silver, t, Clean(t, rows))
    BY <1>1 DEF WriteClean
  <1>2. rows \in Survivors(t, TypedRows(t))
    BY DedupedAreSurvivors
  <1>3. CleanTable(t, Clean(t, rows))
    <2> SUFFICES ASSUME NEW r \in Clean(t, rows), NEW s \in Clean(t, rows)
                 PROVE  /\ Key(t, r.src) = Key(t, s.src) => r = s
                        /\ \A rule \in RejectRules(t) : Predicate(rule, r.src) = "true"
      BY DEF CleanTable
    <2>1. r \in rows /\ s \in rows
      BY DEF Clean
    <2>2. Key(t, r.src) = Key(t, s.src) => r = s
      BY <1>2, <2>1, KeyIsSameKey, OneSurvivor
    <2> QED
      BY <2>2, CleanRowsPass
  <1>4. \A u \in DOMAIN silver : CleanTable(u, silver[u])
    BY DEF SilverIsClean, CleanTable
  <1>5. \A u \in DOMAIN silver' : CleanTable(u, silver'[u])
    <2> SUFFICES ASSUME NEW u \in DOMAIN silver' PROVE CleanTable(u, silver'[u])
      OBVIOUS
    <2>1. CASE u = t
      BY <1>0, <1>3, <2>1 DEF Overwritten
    <2>2. CASE u # t
      <3>1. u \in DOMAIN silver /\ silver'[u] = silver[u]
        BY <1>0, <2>2 DEF Overwritten
      <3> QED
        BY <1>4, <3>1
    <2> QED
      BY <2>1, <2>2
  <1> QED
    BY <1>5 DEF SilverIsClean, CleanTable

LEMMA StepKeepsSilverClean ==
    ASSUME SilverIsClean, [Next]_vars
    PROVE  SilverIsClean'
  <1>1. ASSUME NEW w, WriteClean(w) PROVE SilverIsClean'
    BY <1>1, WriteCleanKeepsSilverClean
  <1>2. ASSUME UNCHANGED silver PROVE SilverIsClean'
    BY <1>2 DEF SilverIsClean
  <1> QED
    BY <1>1, <1>2
    DEF Next, JobNext, ProbeStep, CleanStep, vars, Start, IngestTable, CountTable,
        WriteQuarantine, RecordDq, Baseline, Inject, AssertRouting, RestoreBronze, Verdict,
        Fail, Finish, Rest

(* One row per key, and none that a reject rule does not pass, through any *)
(* runs, ingest modes and probes, whatever fails.                          *)
THEOREM SilverStaysClean == Spec => []SilverIsClean
  <1>1. Init => SilverIsClean
    BY DEF Init, SilverIsClean
  <1> QED
    BY <1>1, StepKeepsSilverClean, PTL DEF Spec

-----------------------------------------------------------------------------
(* Where the writers stand.  Only a run at work on the source tables is at *)
(* one of them; whatever follows counts something else with `at`.          *)
OnTables == {"ingest", "count", "clean", "quarantine", "record"}

TaskFields == {"phase", "at", "mode", "counts", "n_clean"}

Located ==
    /\ DOMAIN task = Writers
    /\ \A w \in Writers : DOMAIN task[w] = TaskFields
    /\ \A r \in Runs : task[r].phase \in OnTables => task[r].at \in DOMAIN Tables

(* Before its first cell the probe has checked that its table is there.    *)
ProbeHasTable == task[Probe].phase # "idle" => ProbeTable \in TableNames

KnownTables == DOMAIN quarantine \subseteq TableNames

SourceRow == (UNION {UNION {f[t] : t \in TableNames} : f \in Uploads}) \cup ProbeRows

BronzeRow == [src : SourceRow, ingest_ts : Nat]

(* A bronze table has a version, and what is landed comes from an upload.  *)
Versioned ==
    /\ landing \in Uploads
    /\ bronze \in [TableNames -> Seq(SUBSET BronzeRow)]
    /\ \A t \in TableNames : Len(bronze[t]) > 0

(* The version the probe noted is one that bronze still has.               *)
BaseNoted ==
    /\ "version" \in DOMAIN base
    /\ task[Probe].phase # "idle" => base.version \in DOMAIN bronze[ProbeTable]

(* No version of a bronze table, restored or not, has rows of the file     *)
(* from more landings than there are modes that have consumed it.          *)
Stamps(rows) == {r.ingest_ts : r \in {x \in rows : x.src \notin ProbeRows}}

FitsLoads(rows, modes) ==
    IsFiniteSet(Stamps(rows)) /\ Cardinality(Stamps(rows)) <= Cardinality(modes)

VersionsFitLoads ==
    /\ DOMAIN loaded = TableNames
    /\ \A t \in TableNames :
          /\ IsFiniteSet(loaded[t])
          /\ \A i \in DOMAIN bronze[t] : FitsLoads(bronze[t][i], loaded[t])

Standing == Located /\ ProbeHasTable /\ KnownTables

LandInv == Standing /\ Versioned /\ BaseNoted /\ VersionsFitLoads

-----------------------------------------------------------------------------
(* One writer's entry changes, as a record.                                *)
LEMMA TaskMoves ==
    ASSUME Standing, NEW w \in Writers, NEW new, DOMAIN new = TaskFields,
           task' = [task EXCEPT ![w] = new],
           w \in Runs /\ new.phase \in OnTables => new.at \in DOMAIN Tables,
           w = Probe /\ new.phase # "idle" => ProbeTable \in TableNames,
           DOMAIN quarantine' \subseteq TableNames
    PROVE  Standing'
  <1>1. DOMAIN task' = Writers /\ task'[w] = new
    BY DEF Standing, Located
  <1>2. \A v \in Writers \ {w} : task'[v] = task[v]
    BY DEF Standing, Located
  <1>3. \A r \in Runs : r \in Writers
    BY DEF Writers
  <1>4. Located'
    BY <1>1, <1>2, <1>3 DEF Standing, Located
  <1>5. ProbeHasTable'
    BY <1>1, <1>2 DEF Standing, ProbeHasTable, Writers
  <1> QED
    BY <1>4, <1>5 DEF Standing, KnownTables

LEMMA PhaseMoves ==
    ASSUME NEW x, DOMAIN x = TaskFields, NEW phase
    PROVE  /\ DOMAIN [x EXCEPT !.phase = phase] = TaskFields
           /\ [x EXCEPT !.phase = phase].phase = phase
           /\ [x EXCEPT !.phase = phase].at = x.at
  BY DEF TaskFields

LEMMA GoToStands ==
    ASSUME Standing, NEW w \in Writers, NEW phase, GoTo(w, phase),
           w \in Runs => phase \notin OnTables,
           w = Probe => ProbeTable \in TableNames, UNCHANGED quarantine
    PROVE  Standing'
  <1>1. DOMAIN task[w] = TaskFields
    BY DEF Standing, Located
  <1>2. task' = [task EXCEPT ![w] = [task[w] EXCEPT !.phase = phase]]
    BY DEF GoTo
  <1> QED
    BY <1>1, <1>2, PhaseMoves, TaskMoves DEF Standing, KnownTables

LEMMA StartStands ==
    ASSUME Standing, NEW r \in Runs, NEW mode \in Modes, Start(r, mode)
    PROVE  Standing'
  <1> DEFINE new == [Idle EXCEPT !.phase = "ingest", !.mode = mode]
  <1>1. DOMAIN new = TaskFields /\ new.at = 1
    BY DEF Idle, TaskFields
  <1>2. task' = [task EXCEPT ![r] = new] /\ UNCHANGED quarantine
    BY DEF Start
  <1>3. 1 \in DOMAIN Tables
    BY TablesAreListed
  <1>4. r \in Writers /\ r # Probe
    BY ProbeIsNoRun DEF Writers
  <1> HIDE DEF new
  <1> QED
    BY <1>1, <1>2, <1>3, <1>4, TaskMoves DEF Standing, KnownTables

LEMMA IngestStands ==
    ASSUME Standing, NEW r \in Runs, IngestTable(r)
    PROVE  Standing'
  <1>1. /\ DOMAIN task[r] = TaskFields /\ task[r].phase = "ingest"
        /\ task[r].at \in DOMAIN Tables /\ r \in Writers /\ r # Probe
    BY ProbeIsNoRun DEF IngestTable, Standing, Located, Writers, OnTables
  <1>2. UNCHANGED quarantine
    BY DEF IngestTable
  <1>3. CASE task[r].at < Len(Tables)
    <2> DEFINE new == [task[r] EXCEPT !.at = task[r].at + 1]
    <2>1. task' = [task EXCEPT ![r] = new]
      BY <1>3 DEF IngestTable
    <2>2. DOMAIN new = TaskFields /\ new.at = task[r].at + 1
      BY <1>1 DEF TaskFields
    <2>3. new.at \in DOMAIN Tables
      BY <1>1, <1>3, <2>2, TablesAreListed
    <2> HIDE DEF new
    <2> QED
      BY <1>1, <1>2, <2>1, <2>2, <2>3, TaskMoves DEF Standing, KnownTables
  <1>4. CASE ~(task[r].at < Len(Tables))
    <2> DEFINE new == [task[r] EXCEPT !.phase = "count", !.at = 1]
    <2>1. task' = [task EXCEPT ![r] = new]
      BY <1>4 DEF IngestTable
    <2>2. DOMAIN new = TaskFields /\ new.at = 1
      BY <1>1 DEF TaskFields
    <2>3. new.at \in DOMAIN Tables
      BY <2>2, TablesAreListed
    <2> HIDE DEF new
    <2> QED
      BY <1>1, <1>2, <2>1, <2>2, <2>3, TaskMoves DEF Standing, KnownTables
  <1> QED
    BY <1>3, <1>4

LEMMA AtIsKnown ==
    ASSUME Standing, NEW w \in Writers, task[w].phase \in OnTables
    PROVE  At(w) \in TableNames
  <1>1. CASE w = Probe
    BY <1>1 DEF Standing, ProbeHasTable, At, OnTables
  <1>2. CASE w # Probe
    <2>1. w \in Runs
      BY <1>2 DEF Writers
    <2> QED
      BY <1>2, <2>1 DEF Standing, Located, At, TableNames
  <1> QED
    BY <1>1, <1>2

LEMMA AfterTableFits ==
    ASSUME Standing, NEW w \in Writers, task[w].phase \in OnTables
    PROVE  /\ DOMAIN AfterTable(w) = TaskFields
           /\ w \in Runs /\ AfterTable(w).phase \in OnTables => AfterTable(w).at \in DOMAIN Tables
  <1>1. DOMAIN task[w] = TaskFields /\ (w \in Runs => task[w].at \in DOMAIN Tables)
    BY DEF Standing, Located
  <1>2. CASE w = Probe
    BY <1>1, <1>2, PhaseMoves, ProbeIsNoRun DEF AfterTable
  <1>3. CASE w # Probe /\ task[w].at < Len(Tables)
    <2> DEFINE new == [task[w] EXCEPT !.phase = "count", !.at = task[w].at + 1]
    <2>1. AfterTable(w) = new
      BY <1>3 DEF AfterTable
    <2>2. DOMAIN new = TaskFields /\ new.at = task[w].at + 1
      BY <1>1 DEF TaskFields
    <2>3. task[w].at + 1 \in DOMAIN Tables
      BY <1>1, <1>3, TablesAreListed DEF Writers
    <2> HIDE DEF new
    <2> QED
      BY <2>1, <2>2, <2>3
  <1>4. CASE w # Probe /\ ~(task[w].at < Len(Tables))
    <2> DEFINE new == [task[w] EXCEPT !.phase = "cleaned", !.at = 1]
    <2>1. AfterTable(w) = new
      BY <1>4 DEF AfterTable
    <2>2. DOMAIN new = TaskFields /\ new.at = 1
      BY <1>1 DEF TaskFields
    <2>3. new.at \in DOMAIN Tables
      BY <2>2, TablesAreListed
    <2> HIDE DEF new
    <2> QED
      BY <2>1, <2>2, <2>3
  <1> QED
    BY <1>2, <1>3, <1>4

LEMMA CleanStands ==
    ASSUME Standing, NEW w \in Writers, CleanStep(w)
    PROVE  Standing'
  <1>1. task[w].phase \in OnTables /\ DOMAIN task[w] = TaskFields
    BY DEF CleanStep, CountTable, WriteClean, WriteQuarantine, RecordDq, OnTables, Standing,
           Located
  <1>2. w = Probe => ProbeTable \in TableNames
    BY <1>1 DEF Standing, ProbeHasTable, OnTables
  <1>3. w \in Runs => task[w].at \in DOMAIN Tables
    BY <1>1 DEF Standing, Located
  <1>4. CASE CountTable(w)
    <2>1. PICK counts : task' = [task EXCEPT ![w] = [task[w] EXCEPT !.phase = "clean", !.counts = counts]]
      BY <1>4 DEF CountTable
    <2> DEFINE new == [task[w] EXCEPT !.phase = "clean", !.counts = counts]
    <2>2. DOMAIN new = TaskFields /\ new.at = task[w].at
      BY <1>1 DEF TaskFields
    <2>3. UNCHANGED quarantine
      BY <1>4 DEF CountTable
    <2>4. task' = [task EXCEPT ![w] = new]
      BY <2>1
    <2> HIDE DEF new
    <2> QED
      BY <1>2, <1>3, <2>2, <2>3, <2>4, TaskMoves DEF Standing, KnownTables
  <1>5. CASE WriteClean(w)
    <2>1. UNCHANGED quarantine
      BY <1>5 DEF WriteClean
    <2>2. CASE HasRules(At(w))
      <3>1. task' = [task EXCEPT ![w] = [task[w] EXCEPT !.phase = "quarantine"]]
        BY <1>5, <2>2 DEF WriteClean
      <3> QED
        BY <1>1, <1>2, <1>3, <2>1, <3>1, PhaseMoves, TaskMoves DEF Standing, KnownTables
    <2>3. CASE ~HasRules(At(w))
      <3>1. task' = [task EXCEPT ![w] = AfterTable(w)]
        BY <1>5, <2>3 DEF WriteClean
      <3> QED
        BY <1>1, <1>2, <2>1, <3>1, AfterTableFits, TaskMoves DEF Standing, KnownTables
    <2> QED
      BY <2>2, <2>3
  <1>6. CASE WriteQuarantine(w)
    <2>1. PICK n : task' = [task EXCEPT ![w] = [task[w] EXCEPT !.phase = "record", !.n_clean = n]]
      BY <1>6 DEF WriteQuarantine
    <2> DEFINE new == [task[w] EXCEPT !.phase = "record", !.n_clean = n]
    <2>2. DOMAIN new = TaskFields /\ new.at = task[w].at
      BY <1>1 DEF TaskFields
    <2>3. task' = [task EXCEPT ![w] = new]
      BY <2>1
    <2>4. DOMAIN quarantine' = {At(w)} \cup DOMAIN quarantine
      BY <1>6 DEF WriteQuarantine, Overwritten
    <2>5. DOMAIN quarantine' \subseteq TableNames
      BY <1>1, <2>4, AtIsKnown DEF Standing, KnownTables
    <2> HIDE DEF new
    <2> QED
      BY <1>2, <1>3, <2>2, <2>3, <2>5, TaskMoves
  <1>7. CASE RecordDq(w)
    <2>1. task' = [task EXCEPT ![w] = AfterTable(w)] /\ UNCHANGED quarantine
      BY <1>7 DEF RecordDq
    <2> QED
      BY <1>1, <1>2, <2>1, AfterTableFits, TaskMoves DEF Standing, KnownTables
  <1> QED
    BY <1>4, <1>5, <1>6, <1>7 DEF CleanStep

LEMMA ProbeCellStands ==
    ASSUME Standing, Baseline \/ Inject \/ AssertRouting \/ RestoreBronze \/ Verdict
    PROVE  Standing'
  <1>0. Probe \in Writers /\ Probe \notin Runs
    BY ProbeIsNoRun DEF Writers
  <1>1. UNCHANGED quarantine
    BY DEF Baseline, Inject, AssertRouting, RestoreBronze, Verdict
  <1>2. CASE RestoreBronze
    <2> DEFINE new == [task[Probe] EXCEPT !.phase = "count", !.at = 2]
    <2>1. DOMAIN new = TaskFields
      BY <1>0 DEF Standing, Located, TaskFields
    <2>2. task' = [task EXCEPT ![Probe] = new]
      BY <1>2 DEF RestoreBronze
    <2>3. ProbeTable \in TableNames
      BY <1>2 DEF RestoreBronze, Standing, ProbeHasTable
    <2> HIDE DEF new
    <2> QED
      BY <1>0, <1>1, <2>1, <2>2, <2>3, TaskMoves DEF Standing, KnownTables
  <1>3. CASE Baseline
    <2>1. ProbeTable \in TableNames /\ GoTo(Probe, "inject")
      BY <1>3 DEF Baseline, Standing, KnownTables
    <2> QED
      BY <1>0, <1>1, <2>1, GoToStands
  <1>4. CASE Inject \/ AssertRouting \/ Verdict
    <2>1. task[Probe].phase # "idle" /\ \E phase : GoTo(Probe, phase)
      BY <1>4 DEF Inject, AssertRouting, Verdict
    <2> QED
      BY <1>0, <1>1, <2>1, GoToStands DEF Standing, ProbeHasTable
  <1> QED
    BY <1>2, <1>3, <1>4

LEMMA FailStands ==
    ASSUME Standing, NEW w \in Writers, Fail(w)
    PROVE  Standing'
  <1>1. GoTo(w, "failed") /\ UNCHANGED quarantine /\ task[w].phase # "idle"
    BY DEF Fail, Active
  <1>2. w = Probe => ProbeTable \in TableNames
    BY <1>1 DEF Standing, ProbeHasTable
  <1> QED
    BY <1>1, <1>2, GoToStands DEF OnTables

LEMMA FinishStands ==
    ASSUME Standing, NEW r \in Runs, Finish(r)
    PROVE  Standing'
  <1>1. r \in Writers /\ r # Probe
    BY ProbeIsNoRun DEF Writers
  <1> QED
    BY <1>1, GoToStands DEF Finish, OnTables

-----------------------------------------------------------------------------
(* A commit adds a version to one bronze table and keeps the others.       *)
LEMMA Commit ==
    ASSUME Versioned, NEW t \in TableNames, NEW rows \in SUBSET BronzeRow,
           bronze' = [bronze EXCEPT ![t] = Append(@, rows)], UNCHANGED landing
    PROVE  /\ Versioned'
           /\ \A u \in TableNames : u # t => bronze'[u] = bronze[u]
           /\ DOMAIN bronze'[t] = 1 .. Len(bronze[t]) + 1
           /\ DOMAIN bronze[t] = 1 .. Len(bronze[t]) /\ Len(bronze[t]) \in Nat
           /\ \A i \in DOMAIN bronze[t] : bronze'[t][i] = bronze[t][i]
           /\ bronze'[t][Len(bronze[t]) + 1] = rows
  <1>1. bronze[t] \in Seq(SUBSET BronzeRow)
    BY DEF Versioned
  <1> DEFINE longer == Append(bronze[t], rows)
  <1>2. /\ longer \in Seq(SUBSET BronzeRow)
        /\ Len(bronze[t]) \in Nat
        /\ DOMAIN bronze[t] = 1 .. Len(bronze[t])
        /\ Len(longer) = Len(bronze[t]) + 1
        /\ DOMAIN longer = 1 .. Len(bronze[t]) + 1
        /\ \A i \in DOMAIN bronze[t] : longer[i] = bronze[t][i]
        /\ longer[Len(bronze[t]) + 1] = rows
    BY <1>1
  <1>3. bronze' = [bronze EXCEPT ![t] = longer]
    OBVIOUS
  <1> HIDE DEF longer
  <1>4. bronze'[t] = longer /\ \A u \in TableNames : u # t => bronze'[u] = bronze[u]
    BY <1>3 DEF Versioned
  <1>5. bronze' \in [TableNames -> Seq(SUBSET BronzeRow)]
    BY <1>2, <1>3 DEF Versioned
  <1>6. \A u \in TableNames : Len(bronze'[u]) > 0
    BY <1>2, <1>4 DEF Versioned
  <1> QED
    BY <1>2, <1>4, <1>5, <1>6 DEF Versioned

LEMMA CurrentVersion ==
    ASSUME Versioned, NEW t \in TableNames
    PROVE  /\ Len(bronze[t]) \in DOMAIN bronze[t] /\ Len(bronze[t]) \in Nat
           /\ Now(t) \in SUBSET BronzeRow
           /\ \A i \in DOMAIN bronze[t] : bronze[t][i] \in SUBSET BronzeRow
  <1>1. bronze[t] \in Seq(SUBSET BronzeRow) /\ Len(bronze[t]) > 0
    BY DEF Versioned
  <1> QED
    BY <1>1 DEF Now

(* More modes have consumed a file, so old versions still fit.             *)
LEMMA StillFits ==
    ASSUME NEW rows, NEW modes, NEW more, IsFiniteSet(more), modes \subseteq more,
           FitsLoads(rows, modes)
    PROVE  FitsLoads(rows, more)
  <1>1. IsFiniteSet(modes) /\ Cardinality(modes) <= Cardinality(more)
    BY FS_Subset
  <1>2. /\ Cardinality(modes) \in Nat /\ Cardinality(more) \in Nat
        /\ Cardinality(Stamps(rows)) \in Nat
    BY <1>1, FS_CardinalityType DEF FitsLoads
  <1> QED
    BY <1>1, <1>2 DEF FitsLoads

(* A landing adds one ingest time and one mode.                            *)
LEMMA LandingFits ==
    ASSUME NEW rows, NEW landed, NEW modes, NEW mode, NEW time,
           IsFiniteSet(modes), mode \notin modes, FitsLoads(rows, modes),
           \A r \in landed : r.ingest_ts = time
    PROVE  FitsLoads(rows \cup landed, modes \cup {mode})
  <1>1. Stamps(rows \cup landed) \in SUBSET (Stamps(rows) \cup {time})
    BY DEF Stamps
  <1>2. /\ IsFiniteSet(Stamps(rows) \cup {time})
        /\ Cardinality(Stamps(rows) \cup {time}) <= Cardinality(Stamps(rows)) + 1
        /\ Cardinality(Stamps(rows)) \in Nat
        /\ Cardinality(Stamps(rows)) <= Cardinality(modes)
    <2>1. IsFiniteSet(Stamps(rows)) /\ Cardinality(Stamps(rows)) <= Cardinality(modes)
      BY DEF FitsLoads
    <2>2. Cardinality(Stamps(rows)) \in Nat
      BY <2>1, FS_CardinalityType
    <2>3. PICK stamps : stamps = Stamps(rows)
      OBVIOUS
    <2>4. /\ IsFiniteSet(stamps \cup {time})
          /\ \/ Cardinality(stamps \cup {time}) = Cardinality(stamps)
             \/ Cardinality(stamps \cup {time}) = Cardinality(stamps) + 1
      <3>1. IsFiniteSet(stamps)
        BY <2>1, <2>3
      <3> QED
        BY <3>1, FS_AddElement
    <2>5. Cardinality(stamps) \in Nat /\ Cardinality(stamps) <= Cardinality(modes)
      BY <2>1, <2>2, <2>3
    <2>6. Cardinality(stamps \cup {time}) <= Cardinality(stamps) + 1
      BY <2>4, <2>5
    <2> QED
      BY <2>3, <2>4, <2>5, <2>6
  <1>3. /\ IsFiniteSet(Stamps(rows \cup landed))
        /\ Cardinality(Stamps(rows \cup landed)) <= Cardinality(Stamps(rows) \cup {time})
    BY <1>1, <1>2, FS_Subset
  <1>4. Cardinality(modes \cup {mode}) = Cardinality(modes) + 1 /\ Cardinality(modes) \in Nat
    BY FS_AddElement, FS_CardinalityType
  <1>5. /\ Cardinality(Stamps(rows \cup landed)) \in Nat
        /\ Cardinality(Stamps(rows) \cup {time}) \in Nat
    BY <1>2, <1>3, FS_CardinalityType
  <1> QED
    BY <1>2, <1>3, <1>4, <1>5 DEF FitsLoads

(* What a commit of one more version that fits leaves.                     *)
LEMMA CommitFits ==
    ASSUME Versioned, VersionsFitLoads, NEW t \in TableNames, NEW rows \in SUBSET BronzeRow,
           bronze' = [bronze EXCEPT ![t] = Append(@, rows)], UNCHANGED landing,
           NEW modes, DOMAIN loaded' = TableNames, loaded'[t] = modes,
           \A u \in TableNames : u # t => loaded'[u] = loaded[u],
           IsFiniteSet(modes), loaded[t] \subseteq modes, FitsLoads(rows, modes)
    PROVE  Versioned' /\ VersionsFitLoads'
  <1>1. /\ Versioned'
        /\ \A u \in TableNames : u # t => bronze'[u] = bronze[u]
        /\ DOMAIN bronze'[t] = 1 .. Len(bronze[t]) + 1
        /\ DOMAIN bronze[t] = 1 .. Len(bronze[t]) /\ Len(bronze[t]) \in Nat
        /\ \A i \in DOMAIN bronze[t] : bronze'[t][i] = bronze[t][i]
        /\ bronze'[t][Len(bronze[t]) + 1] = rows
    BY Commit
  <1>4. ASSUME NEW i \in DOMAIN bronze'[t] PROVE FitsLoads(bronze'[t][i], modes)
    <2>1. CASE i \in DOMAIN bronze[t]
      <3>1. FitsLoads(bronze[t][i], loaded[t]) /\ bronze'[t][i] = bronze[t][i]
        BY <1>1, <2>1 DEF VersionsFitLoads
      <3>2. FitsLoads(bronze[t][i], modes)
        BY <3>1, StillFits
      <3> QED
        BY <3>1, <3>2
    <2>2. CASE i = Len(bronze[t]) + 1
      BY <1>1, <2>2
    <2> QED
      BY <1>1, <2>1, <2>2
  <1>5. ASSUME NEW u \in TableNames
        PROVE  /\ IsFiniteSet(loaded'[u])
               /\ \A i \in DOMAIN bronze'[u] : FitsLoads(bronze'[u][i], loaded'[u])
    <2>1. CASE u = t
      BY <1>4, <2>1
    <2>2. CASE u # t
      BY <1>1, <2>2 DEF VersionsFitLoads
    <2> QED
      BY <2>1, <2>2
  <1> QED
    BY <1>1, <1>5 DEF VersionsFitLoads

-----------------------------------------------------------------------------
LEMMA BaseKept ==
    ASSUME LandInv, Standing', UNCHANGED base,
           task[Probe].phase = "idle" => task'[Probe].phase = "idle",
           \A t \in TableNames : DOMAIN bronze[t] \subseteq DOMAIN bronze'[t]
    PROVE  BaseNoted'
  BY DEF LandInv, Standing, BaseNoted, ProbeHasTable

LEMMA LandedRowsAreSource ==
    ASSUME NEW f \in Uploads, NEW t \in TableNames
    PROVE  f[t] \subseteq SourceRow
  <1>1. UNION {f[u] : u \in TableNames} \in {UNION {g[u] : u \in TableNames} : g \in Uploads}
    OBVIOUS
  <1>2. f[t] \in {f[u] : u \in TableNames}
    OBVIOUS
  <1>3. ASSUME NEW x \in f[t] PROVE x \in SourceRow
    <2>1. x \in UNION {f[u] : u \in TableNames}
      BY <1>2, <1>3
    <2> QED
      BY <1>1, <2>1 DEF SourceRow
  <1> QED
    BY <1>3

LEMMA IngestLands ==
    ASSUME LandInv, NEW r \in Runs, IngestTable(r)
    PROVE  LandInv'
  <1>1. r \in Writers /\ r # Probe /\ task[r].phase \in OnTables /\ task[r].phase = "ingest"
    BY ProbeIsNoRun DEF IngestTable, Writers, OnTables
  <1>2. PICK t \in TableNames : t = Tables[task[r].at]
    BY <1>1 DEF LandInv, Standing, Located, TableNames
  <1>3. Standing'
    BY IngestStands DEF LandInv
  <1>4. UNCHANGED <<base, landing>>
    BY DEF IngestTable
  <1>5. task'[Probe] = task[Probe]
    BY <1>1 DEF IngestTable, LandInv, Standing, Located, Writers
  <1>6. CASE Consumed(t, task[r].mode)
    <2>1. UNCHANGED <<bronze, loaded>>
      BY <1>2, <1>6 DEF IngestTable
    <2>2. Versioned' /\ VersionsFitLoads'
      BY <1>4, <2>1 DEF LandInv, Versioned, VersionsFitLoads
    <2>3. BaseNoted'
      BY <1>3, <1>4, <1>5, <2>1, BaseKept
    <2> QED
      BY <1>3, <2>2, <2>3 DEF LandInv
  <1>7. CASE ~Consumed(t, task[r].mode)
    <2> DEFINE mode  == task[r].mode
               rows  == Now(t) \cup Landed(t)
               modes == loaded[t] \cup {mode}
    <2>1. mode \notin loaded[t]
      BY <1>7 DEF Consumed
    <2>2. bronze' = [bronze EXCEPT ![t] = Append(@, rows)] /\ loaded' = [loaded EXCEPT ![t] = modes]
      BY <1>2, <1>7 DEF IngestTable
    <2>3. /\ Len(bronze[t]) \in DOMAIN bronze[t] /\ Len(bronze[t]) \in Nat
          /\ Now(t) \in SUBSET BronzeRow
      BY CurrentVersion DEF LandInv
    <2>4. rows \in SUBSET BronzeRow
      <3>1. landing[t] \subseteq SourceRow
        BY LandedRowsAreSource DEF LandInv, Versioned
      <3>2. Landed(t) \subseteq BronzeRow
        BY <2>3, <3>1 DEF Landed, BronzeRow
      <3> QED
        BY <2>3, <3>2
    <2>5. IsFiniteSet(loaded[t]) /\ FitsLoads(Now(t), loaded[t])
      BY <2>3 DEF LandInv, VersionsFitLoads, Now
    <2>6. \A x \in Landed(t) : x.ingest_ts = Len(bronze[t])
      BY DEF Landed
    <2>7. FitsLoads(rows, modes)
      BY <2>1, <2>5, <2>6, LandingFits
    <2>8. IsFiniteSet(modes) /\ loaded[t] \subseteq modes
      BY <2>5, FS_AddElement
    <2> HIDE DEF rows, modes
    <2>12. /\ DOMAIN loaded' = TableNames /\ loaded'[t] = modes
           /\ \A u \in TableNames : u # t => loaded'[u] = loaded[u]
      BY <2>2 DEF LandInv, VersionsFitLoads
    <2>9. Versioned' /\ VersionsFitLoads'
      BY <1>4, <2>2, <2>4, <2>5, <2>7, <2>8, <2>12, CommitFits DEF LandInv
    <2>10. \A u \in TableNames : DOMAIN bronze[u] \subseteq DOMAIN bronze'[u]
      <3>1. /\ \A u \in TableNames : u # t => bronze'[u] = bronze[u]
            /\ DOMAIN bronze'[t] = 1 .. Len(bronze[t]) + 1
            /\ DOMAIN bronze[t] = 1 .. Len(bronze[t])
        BY <1>4, <2>2, <2>4, Commit DEF LandInv
      <3> QED
        BY <2>3, <3>1
    <2>11. BaseNoted'
      BY <1>3, <1>4, <1>5, <2>10, BaseKept
    <2> QED
      BY <1>3, <2>9, <2>11 DEF LandInv
  <1> QED
    BY <1>6, <1>7

LEMMA InjectLands ==
    ASSUME LandInv, Inject
    PROVE  LandInv'
  <1>1. task[Probe].phase = "inject" /\ UNCHANGED <<base, landing, loaded>>
    BY DEF Inject
  <1>2. PICK t \in TableNames : t = ProbeTable
    BY <1>1 DEF LandInv, Standing, ProbeHasTable
  <1>3. Standing'
    BY ProbeCellStands DEF LandInv
  <1> DEFINE rows == Now(t) \cup Injected
  <1>4. bronze' = [bronze EXCEPT ![t] = Append(@, rows)]
    BY <1>2 DEF Inject
  <1>5. /\ Len(bronze[t]) \in DOMAIN bronze[t] /\ Len(bronze[t]) \in Nat
        /\ Now(t) \in SUBSET BronzeRow
    BY CurrentVersion DEF LandInv
  <1>6. Injected \subseteq BronzeRow
    <2>1. Injected = {[src |-> p, ingest_ts |-> Len(bronze[t])] : p \in ProbeRows}
      BY <1>2 DEF Injected
    <2>2. ProbeRows \subseteq SourceRow
      BY DEF SourceRow
    <2>3. PICK now \in Nat : now = Len(bronze[t])
      BY <1>5
    <2>4. \A p \in ProbeRows : [src |-> p, ingest_ts |-> now] \in BronzeRow
      BY <2>2 DEF BronzeRow
    <2> HIDE DEF Injected
    <2> QED
      BY <2>1, <2>3, <2>4
  <1>7. IsFiniteSet(loaded[t]) /\ FitsLoads(Now(t), loaded[t])
    BY <1>5 DEF LandInv, VersionsFitLoads, Now
  <1>8. Stamps(rows) = Stamps(Now(t))
    <2>1. \A x \in Injected : x.src \in ProbeRows
      BY DEF Injected
    <2> QED
      BY <2>1 DEF Stamps
  <1>9. FitsLoads(rows, loaded[t])
    BY <1>7, <1>8 DEF FitsLoads
  <1>10. DOMAIN loaded' = TableNames /\ \A u \in TableNames : loaded'[u] = loaded[u]
    BY <1>1 DEF LandInv, VersionsFitLoads
  <1>11. rows \in SUBSET BronzeRow
    BY <1>5, <1>6
  <1> HIDE DEF rows
  <1>12. Versioned' /\ VersionsFitLoads'
    BY <1>1, <1>4, <1>7, <1>9, <1>10, <1>11, CommitFits DEF LandInv
  <1>13. \A u \in TableNames : DOMAIN bronze[u] \subseteq DOMAIN bronze'[u]
    <2>1. /\ \A u \in TableNames : u # t => bronze'[u] = bronze[u]
          /\ DOMAIN bronze'[t] = 1 .. Len(bronze[t]) + 1
          /\ DOMAIN bronze[t] = 1 .. Len(bronze[t])
      BY <1>1, <1>4, <1>11, Commit DEF LandInv
    <2> QED
      BY <1>5, <2>1
  <1>14. BaseNoted'
    BY <1>1, <1>3, <1>13, BaseKept
  <1> QED
    BY <1>3, <1>12, <1>14 DEF LandInv

(* The restored version fits: it was a version of the table before.        *)
LEMMA RestoreLands ==
    ASSUME LandInv, RestoreBronze
    PROVE  LandInv'
  <1>1. task[Probe].phase = "restore" /\ UNCHANGED <<base, landing, loaded>>
    BY DEF RestoreBronze
  <1>2. PICK t \in TableNames : t = ProbeTable
    BY <1>1 DEF LandInv, Standing, ProbeHasTable
  <1>3. Standing'
    BY ProbeCellStands DEF LandInv
  <1>4. base.version \in DOMAIN bronze[t]
    BY <1>1, <1>2 DEF LandInv, BaseNoted
  <1>5. PICK rows : rows = bronze[t][base.version]
    OBVIOUS
  <1>6. bronze' = [bronze EXCEPT ![t] = Append(@, rows)]
    BY <1>2, <1>5 DEF RestoreBronze, BaseVersion
  <1>7. rows \in SUBSET BronzeRow
    BY <1>4, <1>5, CurrentVersion DEF LandInv
  <1>8. IsFiniteSet(loaded[t]) /\ FitsLoads(rows, loaded[t])
    BY <1>4, <1>5 DEF LandInv, VersionsFitLoads
  <1>9. DOMAIN loaded' = TableNames /\ \A u \in TableNames : loaded'[u] = loaded[u]
    BY <1>1 DEF LandInv, VersionsFitLoads
  <1>10. Versioned' /\ VersionsFitLoads'
    BY <1>1, <1>6, <1>7, <1>8, <1>9, CommitFits DEF LandInv
  <1>11. \A u \in TableNames : DOMAIN bronze[u] \subseteq DOMAIN bronze'[u]
    <2>1. /\ \A u \in TableNames : u # t => bronze'[u] = bronze[u]
          /\ DOMAIN bronze'[t] = 1 .. Len(bronze[t]) + 1
          /\ DOMAIN bronze[t] = 1 .. Len(bronze[t]) /\ Len(bronze[t]) \in Nat
      BY <1>1, <1>6, <1>7, Commit DEF LandInv
    <2> QED
      BY <2>1
  <1>12. BaseNoted'
    BY <1>1, <1>3, <1>11, BaseKept
  <1> QED
    BY <1>3, <1>10, <1>12 DEF LandInv

LEMMA BaselineLands ==
    ASSUME LandInv, Baseline
    PROVE  LandInv'
  <1>1. Standing' /\ UNCHANGED <<bronze, loaded, landing>>
    BY ProbeCellStands DEF LandInv, Baseline
  <1>2. ProbeTable \in TableNames
    BY DEF Baseline, LandInv, Standing, KnownTables
  <1>3. Len(bronze[ProbeTable]) \in DOMAIN bronze[ProbeTable]
    BY <1>2, CurrentVersion DEF LandInv
  <1>4. BaseNoted'
    BY <1>1, <1>3 DEF Baseline, BaseNoted
  <1> QED
    BY <1>1, <1>4 DEF LandInv, Versioned, VersionsFitLoads

(* A step that leaves bronze alone, and the baseline but for its verdict.  *)
LEMMA QuietLands ==
    ASSUME LandInv, Standing', UNCHANGED <<bronze, loaded>>, landing' \in Uploads,
           base' = base \/ \E ok : base' = [base EXCEPT !.ok = ok],
           task[Probe].phase = "idle" => task'[Probe].phase = "idle"
    PROVE  LandInv'
  <1>1. Versioned' /\ VersionsFitLoads'
    BY DEF LandInv, Versioned, VersionsFitLoads
  <1>2. "version" \in DOMAIN base' /\ base'.version = base.version
    BY DEF LandInv, BaseNoted
  <1>3. BaseNoted'
    BY <1>2 DEF LandInv, BaseNoted
  <1> QED
    BY <1>1, <1>3 DEF LandInv

LEMMA ProbeStays ==
    ASSUME Standing, NEW w \in Writers, NEW new, task' = [task EXCEPT ![w] = new],
           w # Probe \/ task[Probe].phase # "idle"
    PROVE  task[Probe].phase = "idle" => task'[Probe].phase = "idle"
  <1>1. CASE w # Probe
    BY <1>1 DEF Standing, Located, Writers
  <1> QED
    BY <1>1

LEMMA CleanLands ==
    ASSUME LandInv, NEW w \in Writers, CleanStep(w)
    PROVE  LandInv'
  <1>1. Standing'
    BY CleanStands DEF LandInv
  <1>2. UNCHANGED <<landing, bronze, loaded, base>> /\ landing \in Uploads
    BY DEF CleanStep, CountTable, WriteClean, WriteQuarantine, RecordDq, LandInv, Versioned
  <1>3. task[w].phase # "idle"
    BY DEF CleanStep, CountTable, WriteClean, WriteQuarantine, RecordDq
  <1>4. \E new : task' = [task EXCEPT ![w] = new]
    BY DEF CleanStep, CountTable, WriteClean, WriteQuarantine, RecordDq
  <1>5. task[Probe].phase = "idle" => task'[Probe].phase = "idle"
    BY <1>3, <1>4, ProbeStays DEF LandInv
  <1> QED
    BY <1>1, <1>2, <1>5, QuietLands

LEMMA RunLands ==
    ASSUME LandInv, NEW r \in Runs,
           (\E mode \in Modes : Start(r, mode)) \/ Finish(r) \/ Fail(r)
    PROVE  LandInv'
  <1>1. r \in Writers /\ r # Probe
    BY ProbeIsNoRun DEF Writers
  <1>2. Standing'
    BY <1>1, StartStands, FinishStands, FailStands DEF LandInv
  <1>3. UNCHANGED <<landing, bronze, loaded, base>> /\ landing \in Uploads
    BY DEF Start, Finish, Fail, LandInv, Versioned
  <1>4. \E new : task' = [task EXCEPT ![r] = new]
    BY DEF Start, Finish, Fail, GoTo
  <1>5. task[Probe].phase = "idle" => task'[Probe].phase = "idle"
    BY <1>1, <1>4, ProbeStays DEF LandInv
  <1> QED
    BY <1>2, <1>3, <1>5, QuietLands

LEMMA ProbeLands ==
    ASSUME LandInv, AssertRouting \/ Verdict \/ Fail(Probe)
    PROVE  LandInv'
  <1>1. Probe \in Writers
    BY DEF Writers
  <1>2. Standing'
    BY <1>1, ProbeCellStands, FailStands DEF LandInv
  <1>3. UNCHANGED <<landing, bronze, loaded>> /\ landing \in Uploads
    BY DEF AssertRouting, Verdict, Fail, LandInv, Versioned
  <1>4. base' = base \/ \E ok : base' = [base EXCEPT !.ok = ok]
    BY DEF AssertRouting, Verdict, Fail
  <1>5. task[Probe].phase # "idle"
    BY DEF AssertRouting, Verdict, Fail, Active
  <1> QED
    BY <1>2, <1>3, <1>4, <1>5, QuietLands

LEMMA InitLands ==
    ASSUME Init
    PROVE  LandInv
  <1>1. Standing
    <2>1. Located
      BY DEF Init, Located, Idle, TaskFields, OnTables, Writers
    <2>2. ProbeHasTable
      BY DEF Init, ProbeHasTable, Idle, Writers
    <2> QED
      BY <2>1, <2>2 DEF Init, Standing, KnownTables
  <1>2. Versioned
    BY DEF Init, Versioned
  <1>3. BaseNoted
    BY DEF Init, BaseNoted, Idle, Writers
  <1>4. VersionsFitLoads
    <2>1. Stamps({}) = {}
      BY DEF Stamps
    <2>2. FitsLoads({}, {})
      BY <2>1, FS_EmptySet DEF FitsLoads
    <2>3. \A t \in TableNames : loaded[t] = {} /\ bronze[t] = <<{}>>
      BY DEF Init
    <2>4. \A i \in DOMAIN <<{}>> : <<{}>>[i] = {}
      OBVIOUS
    <2> QED
      BY <2>2, <2>3, <2>4, FS_EmptySet DEF Init, VersionsFitLoads
  <1> QED
    BY <1>1, <1>2, <1>3, <1>4 DEF LandInv

LEMMA NextLands ==
    ASSUME LandInv, [Next]_vars
    PROVE  LandInv'
  <1>1. ASSUME NEW r \in Runs, NEW mode \in Modes, Start(r, mode) PROVE LandInv'
    BY <1>1, RunLands
  <1>2. ASSUME NEW r \in Runs, IngestTable(r) PROVE LandInv'
    BY <1>2, IngestLands
  <1>3. ASSUME NEW w \in Writers, CleanStep(w) PROVE LandInv'
    BY <1>3, CleanLands
  <1>4. ASSUME NEW w \in Writers, (w \in Runs /\ Finish(w)) \/ Fail(w) PROVE LandInv'
    <2>1. CASE w = Probe /\ Fail(w)
      BY <2>1, ProbeLands
    <2>2. CASE w \in Runs
      BY <1>4, <2>2, RunLands
    <2> QED
      BY <1>4, <2>1, <2>2, ProbeIsNoRun DEF Writers
  <1>5. CASE ProbeStep
    <2>1. Probe \in Writers
      BY DEF Writers
    <2> QED
      BY <1>3, <1>5, <2>1, BaselineLands, InjectLands, RestoreLands, ProbeLands DEF ProbeStep
  <1>6. CASE UNCHANGED vars
    BY <1>6 DEF vars, LandInv, Standing, Located, ProbeHasTable, KnownTables, Versioned, BaseNoted,
                VersionsFitLoads
  <1>7. \A r \in Runs : r \in Writers
    BY DEF Writers
  <1> QED
    BY <1>1, <1>2, <1>3, <1>4, <1>5, <1>6, <1>7 DEF Next, JobNext, Rest, Writers

LEMMA LandedOnce == LandInv => EachFileLandsOnce
  <1> SUFFICES ASSUME LandInv, NEW t \in TableNames
               PROVE  Cardinality(Stamps(Now(t))) <= Cardinality(loaded[t])
    BY DEF EachFileLandsOnce, Stamps
  <1>1. Len(bronze[t]) \in DOMAIN bronze[t]
    BY CurrentVersion DEF LandInv
  <1> QED
    BY <1>1 DEF LandInv, VersionsFitLoads, FitsLoads, Now

(* The rows of a bronze table come from no more landings than there were   *)
(* ingest modes, for every sequence of runs, failures and probe restores:  *)
(* "nothing is ingested twice" (README.md:288).                            *)
THEOREM FilesLandOnce == Spec => []EachFileLandsOnce
  BY InitLands, NextLands, LandedOnce, PTL DEF Spec

-----------------------------------------------------------------------------
(***************************************************************************)
(* What deduplication decides.  In the table of a job without a probe,     *)
(* each landing is a whole upload, under an ingest time of its own.        *)
(***************************************************************************)
Batch(t, time) == {r.src : r \in {x \in Now(t) : x.ingest_ts = time}}

WholeFiles ==
    \A t \in TableNames : \A r \in Now(t) :
        /\ r.ingest_ts < Len(bronze[t])
        /\ \E f \in Uploads : Batch(t, r.ingest_ts) = f[t]

(* A mode that has consumed a file has landed one.                         *)
LoadedMeansLanded ==
    \A t \in TableNames : loaded[t] # {} => Now(t) # {} \/ \E f \in Uploads : f[t] = {}

BronzeInv == WholeFiles /\ LoadedMeansLanded

(* The row that wins a decided key, in every upload.                       *)
TheRow(t, k) == CHOOSE s : \A f \in Uploads : Latest(f, t, k) = {s}

LEMMA UploadedTable ==
    ASSUME NEW t \in TableNames, NEW f \in Uploads
    PROVE  /\ IsFiniteSet(f[t]) /\ IsFiniteSet(TypedFile(f, t))
           /\ \A s \in TypedFile(f, t) : SequenceOf(t, s) \in Nat
  <1>1. PICK i \in DOMAIN Tables : t = Tables[i]
    BY DEF TableNames
  <1>2. IsFiniteSet(f[t]) /\ \A s \in f[t] : SequenceOf(t, Typed(s)) \in Nat
    BY <1>1, UploadsAreFinite, TimesAreNumbers
  <1> DEFINE typed == [s \in f[t] |-> Typed(s)]
  <1>3. IsFiniteSet({typed[s] : s \in f[t]})
    <2> HIDE DEF typed
    <2>1. DOMAIN typed = f[t]
      BY DEF typed
    <2> QED
      BY <1>2, <2>1, FiniteImage
  <1>4. TypedFile(f, t) = {typed[s] : s \in f[t]}
    BY DEF TypedFile
  <1> QED
    BY <1>2, <1>3, <1>4 DEF TypedFile

LEMMA UploadedKeys ==
    ASSUME NEW t \in TableNames
    PROVE  /\ IsFiniteSet(UNION {TypedFile(f, t) : f \in Uploads})
           /\ IsFiniteSet(KeysOf(t))
  <1> DEFINE files == [f \in Uploads |-> TypedFile(f, t)]
             all   == UNION {files[f] : f \in Uploads}
             keys  == [s \in all |-> Key(t, s)]
  <1>1. IsFiniteSet(all)
    <2>1. DOMAIN files = Uploads /\ \A f \in Uploads : IsFiniteSet(files[f])
      BY UploadedTable
    <2> HIDE DEF files
    <2> QED
      BY <2>1, UploadsAreFinite, FiniteUnion
  <1>2. all = UNION {TypedFile(f, t) : f \in Uploads}
    OBVIOUS
  <1>3. DOMAIN keys = all /\ KeysOf(t) = {keys[s] : s \in all}
    BY <1>2 DEF KeysOf
  <1> HIDE DEF all, keys
  <1> QED
    BY <1>1, <1>2, <1>3, FiniteImage

LEMMA DecidedRow ==
    ASSUME NEW t \in TableNames, NEW k \in Decided[t], NEW f \in Uploads
    PROVE  Latest(f, t, k) = {TheRow(t, k)}
  <1> DEFINE rows == UNION {Latest(g, t, k) : g \in Uploads}
  <1>1. (\A g \in Uploads : Latest(g, t, k) # {}) /\ Cardinality(rows) = 1
    BY DEF Decided
  <1>2. rows \subseteq UNION {TypedFile(g, t) : g \in Uploads}
    BY DEF Latest
  <1>3. IsFiniteSet(rows)
    <2> HIDE DEF rows
    <2> QED
      BY <1>2, UploadedKeys, FS_Subset
  <1>4. PICK s : rows = {s}
    <2> HIDE DEF rows
    <2> QED
      BY <1>1, <1>3, FS_Singleton
  <1>5. \A g \in Uploads : Latest(g, t, k) = {s}
    BY <1>1, <1>4
  <1> QED
    BY <1>5 DEF TheRow

LEMMA DecidedWins ==
    ASSUME NEW t \in TableNames, NEW k \in Decided[t], NEW f \in Uploads
    PROVE  /\ TheRow(t, k) \in TypedFile(f, t)
           /\ Key(t, TheRow(t, k)) = k
           /\ SequenceOf(t, TheRow(t, k)) \in Nat
           /\ \A u \in TypedFile(f, t) :
                Key(t, u) = k /\ u # TheRow(t, k)
                  => SequenceOf(t, u) < SequenceOf(t, TheRow(t, k)) /\ SequenceOf(t, u) \in Nat
  <1> DEFINE s == TheRow(t, k)
  <1>1. Latest(f, t, k) = {s}
    BY DecidedRow
  <1>2. /\ s \in TypedFile(f, t) /\ Key(t, s) = k
        /\ \A u \in TypedFile(f, t) : Key(t, u) = k => SequenceOf(t, u) <= SequenceOf(t, s)
    BY <1>1 DEF Latest
  <1>3. \A u \in TypedFile(f, t) : SequenceOf(t, u) \in Nat
    BY UploadedTable
  <1>4. ASSUME NEW u \in TypedFile(f, t), Key(t, u) = k, SequenceOf(t, u) = SequenceOf(t, s)
        PROVE  u = s
    <2>1. u \in Latest(f, t, k)
      BY <1>2, <1>4 DEF Latest
    <2> QED
      BY <1>1, <2>1
  <1> HIDE DEF s
  <1>5. \A u \in TypedFile(f, t) : Key(t, u) = k /\ u # s
          => SequenceOf(t, u) < SequenceOf(t, s) /\ SequenceOf(t, u) \in Nat
    BY <1>2, <1>3, <1>4
  <1> QED
    BY <1>2, <1>3, <1>5 DEF s


(* Rows of the uploads, one per key, and for a decided key its row.        *)
OneRowPerKey(t, rows) ==
    \A r, s \in rows : Key(t, r.src) = Key(t, s.src) => r = s

DedupedRight(t, rows) ==
    /\ \A r \in rows : \E f \in Uploads : r.src \in TypedFile(f, t)
    /\ OneRowPerKey(t, rows)
    /\ \A k \in Decided[t] : \E r \in rows : RowsOf(t, rows, k) = {r} /\ r.src = TheRow(t, k)

LEMMA TypedBronze ==
    ASSUME Versioned, WholeFiles, NEW t \in TableNames, NEW r \in TypedRows(t)
    PROVE  /\ r.ingest_ts \in Nat /\ r.ingest_ts < Len(bronze[t])
           /\ \E f \in Uploads : r.src \in TypedFile(f, t)
           /\ r = [src |-> r.src, ingest_ts |-> r.ingest_ts]
  <1>1. PICK x \in Now(t) : r = [x EXCEPT !.src = Typed(x.src)]
    BY DEF TypedRows
  <1>2. x \in BronzeRow
    BY CurrentVersion
  <1>3. r = [src |-> Typed(x.src), ingest_ts |-> x.ingest_ts] /\ x.ingest_ts \in Nat
    BY <1>1, <1>2 DEF BronzeRow
  <1>4. PICK f \in Uploads : Batch(t, x.ingest_ts) = f[t]
    BY DEF WholeFiles
  <1>5. x.src \in f[t]
    BY <1>4 DEF Batch
  <1>6. Typed(x.src) \in TypedFile(f, t)
    BY <1>5 DEF TypedFile
  <1> QED
    BY <1>3, <1>6 DEF WholeFiles

(* Once a table is loaded, the row of a decided key is in bronze.          *)
LEMMA DecidedLanded ==
    ASSUME Versioned, BronzeInv, NEW t \in TableNames, loaded[t] # {}, NEW k \in Decided[t]
    PROVE  \E r \in TypedRows(t) : r.src = TheRow(t, k)
  <1>1. \A f \in Uploads : f[t] # {}
    BY DecidedWins DEF TypedFile
  <1>2. PICK q \in Now(t) : TRUE
    BY <1>1 DEF BronzeInv, LoadedMeansLanded
  <1>3. PICK f \in Uploads : Batch(t, q.ingest_ts) = f[t]
    BY DEF BronzeInv, WholeFiles
  <1>4. PICK s \in f[t] : Typed(s) = TheRow(t, k)
    BY DecidedWins DEF TypedFile
  <1>5. PICK x \in Now(t) : x.src = s
    BY <1>3 DEF Batch
  <1>6. x \in BronzeRow
    BY CurrentVersion
  <1>7. [x EXCEPT !.src = Typed(x.src)] \in TypedRows(t)
    BY DEF TypedRows
  <1>8. [x EXCEPT !.src = Typed(x.src)].src = TheRow(t, k)
    BY <1>4, <1>5, <1>6 DEF BronzeRow
  <1> QED
    BY <1>7, <1>8

(* Bronze holds the row of k, and of that key nothing else but rows of     *)
(* uploads.                                                                *)
BronzeShaped(r) == r.ingest_ts \in Nat /\ r = [src |-> r.src, ingest_ts |-> r.ingest_ts]

HoldsKey(t, k) ==
    /\ \E n \in Nat : \A r \in TypedRows(t) : r.ingest_ts < n
    /\ \A r \in TypedRows(t) :
          /\ BronzeShaped(r)
          /\ Key(t, r.src) = k => \E f \in Uploads : r.src \in TypedFile(f, t)
    /\ \E r \in TypedRows(t) : r.src = TheRow(t, k)

(* Then the latest landing of it wins.                                     *)
LEMMA DecidedWinner ==
    ASSUME NEW t \in TableNames, NEW k \in Decided[t], HoldsKey(t, k), Uploads # {}
    PROVE  \E w \in Winners(t, TypedRows(t)) :
              /\ w.src = TheRow(t, k)
              /\ RowsOf(t, Winners(t, TypedRows(t)), k) = {w}
  <1> DEFINE rows  == TypedRows(t)
             times == {r.ingest_ts : r \in {x \in rows : x.src = TheRow(t, k)}}
  <1>1. PICK f \in Uploads : TRUE
    OBVIOUS
  <1>2. /\ Key(t, TheRow(t, k)) = k /\ SequenceOf(t, TheRow(t, k)) \in Nat
    BY <1>1, DecidedWins
  <1>3. times \in SUBSET Nat /\ times # {} /\ \E n \in Nat : \A time \in times : time < n
    BY DEF HoldsKey, BronzeShaped
  <1>4. PICK m \in times : \A time \in times : time <= m
    <2> HIDE DEF times
    <2> QED
      BY <1>3, GreatestBelow
  <1>5. PICK w \in rows : w.src = TheRow(t, k) /\ w.ingest_ts = m
    BY <1>4
  <1>6. ASSUME NEW q \in rows, Key(t, q.src) = k, q # w
        PROVE  /\ Beats(t, w, q)
               /\ ~Beats(t, q, w)
    <2>1. /\ q = [src |-> q.src, ingest_ts |-> q.ingest_ts] /\ q.ingest_ts \in Nat
          /\ w = [src |-> w.src, ingest_ts |-> w.ingest_ts] /\ w.ingest_ts \in Nat
          /\ \E g \in Uploads : q.src \in TypedFile(g, t)
      BY <1>6 DEF HoldsKey, BronzeShaped
    <2>2. CASE q.src = TheRow(t, k)
      <3>1. q.ingest_ts <= m /\ q.ingest_ts # w.ingest_ts
        BY <1>4, <1>5, <1>6, <2>1, <2>2
      <3> QED
        BY <1>2, <1>5, <2>1, <2>2, <3>1 DEF Beats
    <2>3. CASE q.src # TheRow(t, k)
      <3>1. SequenceOf(t, q.src) < SequenceOf(t, TheRow(t, k)) /\ SequenceOf(t, q.src) \in Nat
        BY <1>6, <2>1, <2>3, DecidedWins
      <3> QED
        BY <1>2, <1>5, <3>1 DEF Beats
    <2> QED
      BY <2>2, <2>3
  <1>7. \A q \in rows : SameKey(t, q.src, w.src) <=> Key(t, q.src) = k
    BY <1>2, <1>5, KeyIsSameKey
  <1>8. ~Beats(t, w, w)
    <2>1. w.ingest_ts \in Nat
      BY DEF HoldsKey, BronzeShaped
    <2> QED
      BY <1>2, <1>5, <2>1 DEF Beats
  <1> HIDE DEF rows
  <1>9. w \in Winners(t, rows)
    BY <1>6, <1>7, <1>8 DEF Winners
  <1>10. ASSUME NEW q \in Winners(t, rows), Key(t, q.src) = k PROVE q = w
    <2>1. q \in rows /\ ~(Beats(t, w, q) /\ SameKey(t, w.src, q.src))
      BY DEF Winners
    <2>2. SameKey(t, w.src, q.src)
      BY <1>2, <1>5, <1>10, KeyIsSameKey
    <2> QED
      BY <1>6, <1>10, <2>1, <2>2
  <1> QED
    BY <1>2, <1>5, <1>9, <1>10 DEF rows, RowsOf

(* It has no equal, so it survives whatever becomes of ties.               *)
StandsAlone(t, rows, k) == \E r \in rows : RowsOf(t, rows, k) = {r} /\ r.src = TheRow(t, k)

LEMMA DecidedSurvives ==
    ASSUME NEW t \in TableNames, NEW k \in Decided[t], HoldsKey(t, k), Uploads # {},
           NEW rows \in Deduped(t)
    PROVE  StandsAlone(t, rows, k)
  <1> DEFINE winners == Winners(t, TypedRows(t))
             tied == {w \in winners : \E q \in winners : q # w /\ SameKey(t, q.src, w.src)}
  <1>1. rows \in Survivors(t, TypedRows(t))
    BY DedupedAreSurvivors
  <1>2. rows \subseteq winners /\ winners \ tied \subseteq rows
    BY <1>1 DEF Survivors, OneOfEachKey
  <1>3. PICK w \in winners : w.src = TheRow(t, k) /\ RowsOf(t, winners, k) = {w}
    BY DecidedWinner
  <1>4. Key(t, w.src) = k /\ \A q \in winners : Key(t, q.src) = k => q = w
    BY <1>3 DEF RowsOf
  <1>5. w \notin tied
    BY <1>4, KeyIsSameKey
  <1> HIDE DEF winners, tied
  <1>6. w \in rows /\ RowsOf(t, rows, k) = {w}
    BY <1>2, <1>4, <1>5 DEF RowsOf
  <1> QED
    BY <1>3, <1>6 DEF StandsAlone

LEMMA SurvivorsAreRows ==
    ASSUME NEW t, NEW rows \in Deduped(t)
    PROVE  rows \subseteq TypedRows(t)
  BY DedupedAreSurvivors DEF Survivors, OneOfEachKey, Winners

LEMMA DedupedIsRight ==
    ASSUME Versioned, BronzeInv, NEW t \in TableNames, loaded[t] # {}, NEW rows \in Deduped(t)
    PROVE  DedupedRight(t, rows)
  <1>1. Uploads # {}
    BY DEF Versioned
  <1>2. \A r \in rows : \E f \in Uploads : r.src \in TypedFile(f, t)
    BY SurvivorsAreRows, TypedBronze DEF BronzeInv
  <1>3. OneRowPerKey(t, rows)
    BY DedupedAreSurvivors, KeyIsSameKey, OneSurvivor DEF OneRowPerKey
  <1>4. ASSUME NEW k \in Decided[t] PROVE StandsAlone(t, rows, k)
    <2>1. HoldsKey(t, k)
      BY TypedBronze, DecidedLanded, CurrentVersion DEF BronzeInv, HoldsKey, BronzeShaped
    <2> QED
      BY <1>1, <2>1, DecidedSurvives
  <1> QED
    BY <1>2, <1>3, <1>4 DEF DedupedRight, StandsAlone


(* How many rows of some kind survive: the decided keys of that kind, and  *)
(* perhaps some of the undecided ones.                                     *)
LEMMA RowsCounted ==
    ASSUME NEW t \in TableNames, NEW rows, DedupedRight(t, rows),
           NEW some \in SUBSET rows, NEW keys \in SUBSET Decided[t],
           \A r \in rows : Key(t, r.src) \in Decided[t]
                             => (r \in some <=> Key(t, r.src) \in keys)
    PROVE  /\ IsFiniteSet(some) /\ IsFiniteSet(keys) /\ IsFiniteSet(Undecided[t])
           /\ Cardinality(some) \in
                Cardinality(keys) .. Cardinality(keys) + Cardinality(Undecided[t])
  <1> DEFINE key  == [r \in some |-> Key(t, r.src)]
             used == {key[r] : r \in some}
             open == Undecided[t]
  <1>1. /\ IsFiniteSet(KeysOf(t)) /\ Decided[t] \subseteq KeysOf(t)
        /\ open = KeysOf(t) \ Decided[t]
    BY UploadedKeys DEF Decided, Undecided
  <1>2. IsFiniteSet(keys) /\ IsFiniteSet(open)
    BY <1>1, FS_Subset
  <1>3. ASSUME NEW r \in rows PROVE Key(t, r.src) \in KeysOf(t)
    <2>1. PICK f \in Uploads : r.src \in TypedFile(f, t)
      BY DEF DedupedRight
    <2> QED
      BY <2>1 DEF KeysOf
  <1>4. used \subseteq keys \cup open
    BY <1>1, <1>3
  <1>5. keys \subseteq used
    <2> SUFFICES ASSUME NEW k \in keys PROVE k \in used
      OBVIOUS
    <2>1. PICK r \in rows : RowsOf(t, rows, k) = {r}
      BY DEF DedupedRight
    <2>2. r \in rows /\ Key(t, r.src) = k
      BY <2>1 DEF RowsOf
    <2> QED
      BY <2>2
  <1>6. \A r, s \in some : key[r] = key[s] => r = s
    BY DEF DedupedRight, OneRowPerKey
  <1>7. used \subseteq KeysOf(t)
    BY <1>3
  <1>8. IsFiniteSet(used)
    <2> HIDE DEF used
    <2> QED
      BY <1>1, <1>7, FS_Subset
  <1>9. IsFiniteSet(some) /\ Cardinality(some) = Cardinality(used)
    <2> DEFINE back == [k \in used |-> CHOOSE r \in some : key[r] = k]
    <2>1. /\ DOMAIN back = used /\ {back[k] : k \in used} = some
          /\ \A k, l \in used : back[k] = back[l] => k = l
      <3>1. \A r \in some : key[r] \in used
        OBVIOUS
      <3>2. \A k \in used : \E r \in some : key[r] = k
        OBVIOUS
      <3> HIDE DEF used, key
      <3>3. \A k \in used : back[k] \in some /\ key[back[k]] = k
        BY <3>2
      <3>4. \A r \in some : back[key[r]] = r
        BY <1>6, <3>1, <3>3
      <3> QED
        BY <3>1, <3>3, <3>4
    <2> HIDE DEF used, back
    <2> QED
      BY <1>8, <2>1, FiniteImage
  <1> HIDE DEF used, key, open
  <1>10. Cardinality(keys) <= Cardinality(used)
    BY <1>5, <1>8, FS_Subset
  <1>11. Cardinality(used) <= Cardinality(keys) + Cardinality(open)
    <2>1. keys \cap open = {}
      BY <1>1
    <2>2. /\ IsFiniteSet(keys \cup open)
          /\ Cardinality(keys \cup open) =
               Cardinality(keys) + Cardinality(open) - Cardinality(keys \cap open)
      BY <1>2, FS_Union
    <2>3. Cardinality(keys \cap open) = 0
      BY <2>1, FS_EmptySet
    <2>4. Cardinality(used) <= Cardinality(keys \cup open)
      BY <1>4, <2>2, FS_Subset
    <2>5. Cardinality(keys) \in Nat /\ Cardinality(open) \in Nat
      BY <1>2, FS_CardinalityType
    <2> QED
      BY <2>2, <2>3, <2>4, <2>5
  <1>12. Cardinality(keys) \in Nat /\ Cardinality(open) \in Nat /\ Cardinality(used) \in Nat
    BY <1>2, <1>8, FS_CardinalityType
  <1> QED
    BY <1>2, <1>9, <1>10, <1>11, <1>12 DEF open

-----------------------------------------------------------------------------
(***************************************************************************)
(* Routing.  Whether a row is rejected depends on its columns alone, so    *)
(* silver and quarantine agree on a decided key though they come from      *)
(* different evaluations.                                                  *)
(***************************************************************************)
KeysStand(t, rows) == \A k \in Decided[t] : StandsAlone(t, rows, k)

KeysRouted ==
    /\ DOMAIN silver \subseteq TableNames /\ DOMAIN quarantine \subseteq DOMAIN silver
    /\ \A t \in DOMAIN silver : \E rows : KeysStand(t, rows) /\ silver[t] = Clean(t, rows)
    /\ \A t \in DOMAIN quarantine :
          \E rows : KeysStand(t, rows) /\ quarantine[t] = Quarantined(t, rows)

LEMMA VerdictOfRow ==
    ASSUME NEW t, NEW r, NEW s, r.src = s.src
    PROVE  Rejected(t, r) <=> Rejected(t, s)
  BY DEF Rejected, FailedRules, Fails

LEMMA CleanOrNot ==
    ASSUME NEW t \in TableNames, NEW rows, KeysStand(t, rows), NEW k \in Decided[t],
           NEW one, one.src = TheRow(t, k)
    PROVE  /\ ~Rejected(t, one) => /\ RowsOf(t, Quarantined(t, rows), k) = {}
                                   /\ \E r : /\ RowsOf(t, Clean(t, rows), k) = {r}
                                             /\ r.src = TheRow(t, k)
           /\ Rejected(t, one) => /\ RowsOf(t, Clean(t, rows), k) = {}
                                  /\ \E r : /\ RowsOf(t, Quarantined(t, rows), k) = {r}
                                            /\ r.src = TheRow(t, k)
  <1>1. PICK r \in rows : RowsOf(t, rows, k) = {r} /\ r.src = TheRow(t, k)
    BY DEF KeysStand, StandsAlone
  <1>2. Rejected(t, r) <=> Rejected(t, one)
    BY <1>1, VerdictOfRow
  <1>3. /\ RowsOf(t, Clean(t, rows), k) = {q \in RowsOf(t, rows, k) : ~Rejected(t, q)}
        /\ RowsOf(t, Quarantined(t, rows), k) = {q \in RowsOf(t, rows, k) : Rejected(t, q)}
    BY DEF RowsOf, Clean, Quarantined
  <1>4. /\ RowsOf(t, Clean(t, rows), k) = {q \in {r} : ~Rejected(t, q)}
        /\ RowsOf(t, Quarantined(t, rows), k) = {q \in {r} : Rejected(t, q)}
    BY <1>1, <1>3
  <1>5. CASE ~Rejected(t, one)
    <2>1. /\ RowsOf(t, Clean(t, rows), k) = {r}
          /\ RowsOf(t, Quarantined(t, rows), k) = {}
      BY <1>2, <1>4, <1>5
    <2> QED
      BY <1>1, <1>5, <2>1
  <1>6. CASE Rejected(t, one)
    <2>1. /\ RowsOf(t, Clean(t, rows), k) = {}
          /\ RowsOf(t, Quarantined(t, rows), k) = {r}
      BY <1>2, <1>4, <1>6
    <2> QED
      BY <1>1, <1>6, <2>1
  <1> QED
    BY <1>5, <1>6

LEMMA RoutedRight == KeysRouted => RoutedOnce
  <1> SUFFICES ASSUME KeysRouted, NEW t \in DOMAIN quarantine, NEW k \in Decided[t]
               PROVE  Cardinality(RowsOf(t, silver[t], k))
                        + Cardinality(RowsOf(t, quarantine[t], k)) = 1
    BY DEF RoutedOnce
  <1>1. t \in DOMAIN silver /\ t \in TableNames
    BY DEF KeysRouted
  <1>2. PICK rows : KeysStand(t, rows) /\ silver[t] = Clean(t, rows)
    BY <1>1 DEF KeysRouted
  <1>3. PICK others : KeysStand(t, others) /\ quarantine[t] = Quarantined(t, others)
    BY DEF KeysRouted
  <1>4. PICK one : one = [src |-> TheRow(t, k)]
    OBVIOUS
  <1>5. one.src = TheRow(t, k)
    BY <1>4
  <1>6. \A r : Cardinality({r}) = 1 /\ Cardinality({}) = 0
    BY FS_Singleton, FS_EmptySet
  <1>7. CASE Rejected(t, one)
    <2>1. RowsOf(t, silver[t], k) = {}
      BY <1>1, <1>2, <1>5, <1>7, CleanOrNot
    <2>2. PICK r : RowsOf(t, quarantine[t], k) = {r} /\ r.src = TheRow(t, k)
      BY <1>1, <1>3, <1>5, <1>7, CleanOrNot
    <2>3. Cardinality(RowsOf(t, silver[t], k)) = 0
      BY <1>6, <2>1
    <2>4. Cardinality(RowsOf(t, quarantine[t], k)) = 1
      BY <1>6, <2>2
    <2> QED
      BY <2>3, <2>4
  <1>8. CASE ~Rejected(t, one)
    <2>1. RowsOf(t, quarantine[t], k) = {}
      BY <1>1, <1>3, <1>5, <1>8, CleanOrNot
    <2>2. PICK r : RowsOf(t, silver[t], k) = {r} /\ r.src = TheRow(t, k)
      BY <1>1, <1>2, <1>5, <1>8, CleanOrNot
    <2>3. Cardinality(RowsOf(t, quarantine[t], k)) = 0
      BY <1>6, <2>1
    <2>4. Cardinality(RowsOf(t, silver[t], k)) = 1
      BY <1>6, <2>2
    <2> QED
      BY <2>3, <2>4
  <1> QED
    BY <1>7, <1>8

LEMMA RebuiltRight ==
    ASSUME KeysRouted, KeysRouted', DOMAIN silver \subseteq DOMAIN silver',
           NEW t \in DOMAIN silver, NEW k \in Decided[t]
    PROVE  /\ SourceRows(RowsOf(t, silver'[t], k)) = SourceRows(RowsOf(t, silver[t], k))
           /\ Cardinality(RowsOf(t, silver'[t], k)) = Cardinality(RowsOf(t, silver[t], k))
  <1>1. t \in DOMAIN silver' /\ t \in TableNames
    BY DEF KeysRouted
  <1>2. PICK rows : KeysStand(t, rows) /\ silver[t] = Clean(t, rows)
    BY DEF KeysRouted
  <1>3. PICK others : KeysStand(t, others) /\ silver'[t] = Clean(t, others)
    BY <1>1 DEF KeysRouted
  <1>4. PICK one : one = [src |-> TheRow(t, k)]
    OBVIOUS
  <1>5. one.src = TheRow(t, k)
    BY <1>4
  <1>6. CASE Rejected(t, one)
    <2>1. RowsOf(t, silver[t], k) = {}
      BY <1>1, <1>2, <1>5, <1>6, CleanOrNot
    <2>2. RowsOf(t, silver'[t], k) = {}
      BY <1>1, <1>3, <1>5, <1>6, CleanOrNot
    <2> QED
      BY <2>1, <2>2
  <1>7. CASE ~Rejected(t, one)
    <2>1. PICK r : RowsOf(t, silver[t], k) = {r} /\ r.src = TheRow(t, k)
      BY <1>1, <1>2, <1>5, <1>7, CleanOrNot
    <2>2. PICK q : RowsOf(t, silver'[t], k) = {q} /\ q.src = TheRow(t, k)
      BY <1>1, <1>3, <1>5, <1>7, CleanOrNot
    <2>3. SourceRows({r}) = SourceRows({q})
      BY <2>1, <2>2 DEF SourceRows
    <2>4. Cardinality({r}) = Cardinality({q})
      BY FS_Singleton
    <2> QED
      BY <2>1, <2>2, <2>3, <2>4
  <1> QED
    BY <1>6, <1>7

-----------------------------------------------------------------------------
(***************************************************************************)
(* The probe beside the job.  Between its append and its restore the rows  *)
(* of the probe are in bronze, and whoever rebuilds the table puts them    *)
(* into silver and quarantine; a table is rid of them only when something  *)
(* rewrites it after the restore.  That the probe comes past its second    *)
(* pass says that it did so itself.                                        *)
(***************************************************************************)
AtRest == task[Probe].phase \in {"idle", "inject"} \/ task[Probe].at # 1

SilverAtRest ==
    \/ task[Probe].phase \in {"idle", "inject"}
    \/ task[Probe].at # 1 /\ task[Probe].phase \in {"quarantine", "record", "verdict", "succeeded"}

QuarantineAtRest ==
    \/ task[Probe].phase \in {"idle", "inject"}
    \/ task[Probe].at # 1 /\ task[Probe].phase \in {"record", "verdict", "succeeded"}

OfFile(t, rows) == \A r \in rows : r.src \in landing[t]

TypedOfFile(t, rows) == \A r \in rows : r.src \in TypedFile(landing, t)

(* What the writers have behind them.                                      *)
Reached(x) ==
    /\ x.phase = "ingest" => \A i \in DOMAIN Tables : i < x.at => loaded[Tables[i]] # {}
    /\ x.phase \in {"count", "clean", "quarantine", "record"} =>
          \A t \in TableNames : loaded[t] # {}
    /\ x.phase \in {"quarantine", "record"} => Tables[x.at] \in DOMAIN silver

WritersReached ==
    /\ \A r \in Runs : Reached(task[r])
    /\ \A t \in DOMAIN silver : t \in TableNames /\ loaded[t] # {}
    /\ task[Probe].phase # "idle" => ProbeTable \in DOMAIN quarantine
    /\ task[Probe].phase \in {"idle", "inject"} => task[Probe].at = 1
    /\ task[Probe].phase \in {"verdict", "succeeded"} => task[Probe].at # 1

(* What bronze holds: rows of the file or of the probe, the whole file     *)
(* once it is loaded, and at rest, as in the version the probe noted,      *)
(* nothing else.                                                           *)
OnlyKnownRows ==
    \A t \in TableNames : \A i \in DOMAIN bronze[t] : \A x \in bronze[t][i] :
        /\ x.ingest_ts < Len(bronze[t])
        /\ x.src \in landing[t] \/ (t = ProbeTable /\ x.src \in ProbeRows)

BronzeHolds ==
    /\ OnlyKnownRows
    /\ \A t \in TableNames : loaded[t] # {} => landing[t] \subseteq SourceRows(Now(t))
    /\ task[Probe].phase # "idle" => SourceRows(bronze[ProbeTable][base.version]) = landing[ProbeTable]
    /\ AtRest /\ ProbeTable \in TableNames => OfFile(ProbeTable, Now(ProbeTable))

TablesHold ==
    /\ KeysRouted
    /\ \A t \in DOMAIN silver : t # ProbeTable \/ SilverAtRest => TypedOfFile(t, silver[t])
    /\ \A t \in DOMAIN quarantine :
          t # ProbeTable \/ QuarantineAtRest => TypedOfFile(t, quarantine[t])

RestoreInv == WritersReached /\ BronzeHolds /\ TablesHold

-----------------------------------------------------------------------------
(* The rows of the probe have keys of their own.                           *)
LEMMA ProbeKeysAreNew ==
    ASSUME ProbeTable \in TableNames, NEW f \in Uploads, NEW s \in f[ProbeTable],
           NEW p \in ProbeRows
    PROVE  Key(ProbeTable, Typed(s)) # Key(ProbeTable, Typed(p))
  <1>1. Typed(s).order_id # p.order_id
    BY ProbeOrdersAreNew
  <1>2. DOMAIN p = {"order_id", "order_item_id", "product_id", "seller_id", "price", "freight_value"}
    BY DEF ProbeRows, ProbeRow
  <1>3. Typed(p).order_id = p.order_id
    BY <1>2 DEF Typed, NumericCols, TimestampCols, StringCols
  <1>4. BusinessKey[ProbeTable] = {"order_id", "order_item_id"}
    BY DEF BusinessKey, ProbeTable
  <1>5. \A r : Key(ProbeTable, r)["order_id"] = r.order_id
    BY <1>4 DEF Key
  <1> QED
    BY <1>1, <1>3, <1>5

LEMMA TypedRow ==
    ASSUME LandInv, OnlyKnownRows, NEW t \in TableNames, NEW r \in TypedRows(t)
    PROVE  /\ BronzeShaped(r) /\ r.ingest_ts < Len(bronze[t])
           /\ \E x \in Now(t) : r.src = Typed(x.src)
           /\ \/ r.src \in TypedFile(landing, t)
              \/ t = ProbeTable /\ \E p \in ProbeRows : r.src = Typed(p)
  <1>1. PICK x \in Now(t) : r = [x EXCEPT !.src = Typed(x.src)]
    BY DEF TypedRows
  <1>2. /\ x \in BronzeRow /\ Now(t) = bronze[t][Len(bronze[t])]
        /\ Len(bronze[t]) \in DOMAIN bronze[t]
    BY CurrentVersion DEF LandInv, Now
  <1>3. r = [src |-> Typed(x.src), ingest_ts |-> x.ingest_ts] /\ x.ingest_ts \in Nat
    BY <1>1, <1>2 DEF BronzeRow
  <1>4. /\ x.ingest_ts < Len(bronze[t])
        /\ x.src \in landing[t] \/ (t = ProbeTable /\ x.src \in ProbeRows)
    BY <1>2 DEF OnlyKnownRows
  <1>5. x.src \in landing[t] => Typed(x.src) \in TypedFile(landing, t)
    BY DEF TypedFile
  <1> QED
    BY <1>3, <1>4, <1>5 DEF BronzeShaped

(* What any writer evaluates: every decided key has its row, and at rest   *)
(* there is nothing but rows of the file.                                  *)
LEMMA EvaluationHolds ==
    ASSUME LandInv, BronzeHolds, NEW t \in TableNames, loaded[t] # {}, NEW rows \in Deduped(t)
    PROVE  /\ KeysStand(t, rows)
           /\ t # ProbeTable \/ AtRest => TypedOfFile(t, rows)
  <1>1. landing \in Uploads /\ Len(bronze[t]) \in Nat
    BY CurrentVersion DEF LandInv, Versioned
  <1>2. ASSUME NEW k \in Decided[t] PROVE StandsAlone(t, rows, k)
    <2>1. \A r \in TypedRows(t) : BronzeShaped(r) /\ r.ingest_ts < Len(bronze[t])
      BY TypedRow DEF BronzeHolds
    <2>2. ASSUME NEW r \in TypedRows(t), Key(t, r.src) = k
          PROVE  \E f \in Uploads : r.src \in TypedFile(f, t)
      <3>1. CASE r.src \in TypedFile(landing, t)
        BY <1>1, <3>1
      <3>2. ASSUME t = ProbeTable, NEW p \in ProbeRows, r.src = Typed(p) PROVE FALSE
        <4>1. TheRow(t, k) \in TypedFile(landing, t) /\ Key(t, TheRow(t, k)) = k
          BY <1>1, DecidedWins
        <4>2. PICK s \in landing[t] : TheRow(t, k) = Typed(s)
          BY <4>1 DEF TypedFile
        <4> QED
          BY <1>1, <2>2, <3>2, <4>1, <4>2, ProbeKeysAreNew
      <3> QED
        BY <3>1, <3>2, TypedRow DEF BronzeHolds
    <2>3. \E r \in TypedRows(t) : r.src = TheRow(t, k)
      <3>1. PICK s \in landing[t] : Typed(s) = TheRow(t, k)
        BY <1>1, DecidedWins DEF TypedFile
      <3>2. PICK x \in Now(t) : x.src = s
        BY <3>1 DEF BronzeHolds, SourceRows
      <3>3. x \in BronzeRow
        BY CurrentVersion DEF LandInv
      <3>4. [x EXCEPT !.src = Typed(x.src)] \in TypedRows(t)
        BY DEF TypedRows
      <3>5. [x EXCEPT !.src = Typed(x.src)].src = TheRow(t, k)
        BY <3>1, <3>2, <3>3 DEF BronzeRow
      <3> QED
        BY <3>4, <3>5
    <2>4. HoldsKey(t, k)
      BY <1>1, <2>1, <2>2, <2>3 DEF HoldsKey
    <2> QED
      BY <1>1, <2>4, DecidedSurvives
  <1>3. ASSUME t # ProbeTable \/ AtRest, NEW r \in rows PROVE r.src \in TypedFile(landing, t)
    <2>1. r \in TypedRows(t)
      BY SurvivorsAreRows
    <2>2. CASE t # ProbeTable
      BY <2>1, <2>2, TypedRow DEF BronzeHolds
    <2>3. CASE t = ProbeTable
      <3>1. PICK x \in Now(t) : r.src = Typed(x.src)
        BY <2>1, TypedRow DEF BronzeHolds
      <3>2. x.src \in landing[t]
        BY <1>3, <2>3 DEF BronzeHolds, OfFile
      <3> QED
        BY <3>1, <3>2 DEF TypedFile
    <2> QED
      BY <2>2, <2>3
  <1> QED
    BY <1>2, <1>3 DEF KeysStand, TypedOfFile

(* Every writer that evaluates a table does so after it was loaded.        *)
LEMMA EvaluatedIsLoaded ==
    ASSUME LandInv, RestoreInv, NEW w \in Writers,
           task[w].phase \in {"count", "clean", "quarantine", "record"}
    PROVE  /\ At(w) \in TableNames /\ loaded[At(w)] # {}
           /\ task[w].phase \in {"quarantine", "record"} => At(w) \in DOMAIN silver
  <1>1. At(w) \in TableNames
    BY AtIsKnown DEF LandInv, OnTables
  <1>2. CASE w = Probe
    BY <1>2 DEF At, RestoreInv, WritersReached, TablesHold, KeysRouted
  <1>3. CASE w # Probe
    BY <1>1, <1>3 DEF Writers, At, RestoreInv, WritersReached, Reached
  <1> QED
    BY <1>1, <1>2, <1>3

-----------------------------------------------------------------------------
LEMMA RestoredAtTheEnd == LandInv /\ RestoreInv => ProbeRestores
  <1> SUFFICES ASSUME LandInv, RestoreInv, task[Probe].phase \in {"verdict", "succeeded"}
               PROVE  NoTraceLeft /\ landing[ProbeTable] \subseteq SourceRows(Now(ProbeTable))
    BY DEF ProbeRestores
  <1>1. /\ AtRest /\ SilverAtRest /\ QuarantineAtRest /\ landing \in Uploads
        /\ DOMAIN quarantine \subseteq DOMAIN silver
        /\ \A t \in DOMAIN silver : t \in TableNames /\ loaded[t] # {}
        /\ ProbeTable \in DOMAIN silver
    BY DEF RestoreInv, WritersReached, TablesHold, KeysRouted, AtRest, SilverAtRest,
           QuarantineAtRest, LandInv, Versioned
  <1>2. ASSUME NEW t \in TableNames, NEW s \in landing[t]
        PROVE  s \notin ProbeSources /\ Typed(s) \notin ProbeSources
    BY <1>1, <1>2, ProbeRowsAreNoData DEF TableNames
  <1>3. Traces(Now(ProbeTable)) = {}
    BY <1>1, <1>2 DEF RestoreInv, BronzeHolds, OfFile, Traces, SourceRows
  <1>4. ASSUME NEW t \in TableNames, NEW rows, TypedOfFile(t, rows) PROVE Traces(rows) = {}
    BY <1>2, <1>4 DEF TypedOfFile, TypedFile, Traces, SourceRows
  <1>5. \A t \in DOMAIN silver : Traces(silver[t]) = {}
    BY <1>1, <1>4 DEF RestoreInv, TablesHold
  <1>6. \A t \in DOMAIN quarantine : Traces(quarantine[t]) = {}
    BY <1>1, <1>4 DEF RestoreInv, TablesHold
  <1>7. landing[ProbeTable] \subseteq SourceRows(Now(ProbeTable))
    BY <1>1 DEF RestoreInv, BronzeHolds
  <1> QED
    BY <1>3, <1>5, <1>6, <1>7 DEF NoTraceLeft

Grows ==
    /\ \A t \in TableNames : loaded[t] \subseteq loaded'[t]
    /\ DOMAIN silver \subseteq DOMAIN silver' /\ DOMAIN quarantine \subseteq DOMAIN quarantine'

Written == \A t \in DOMAIN silver' : t \in TableNames /\ loaded'[t] # {}

LEMMA StillReached ==
    ASSUME Grows, NEW x, Reached(x)
    PROVE  Reached(x)'
  <1>1. \A i \in DOMAIN Tables : Tables[i] \in TableNames
    BY DEF TableNames
  <1>2. \A t \in TableNames : loaded[t] # {} => loaded'[t] # {}
    BY DEF Grows
  <1> QED
    BY <1>1, <1>2 DEF Reached, Grows

LEMMA RunReaches ==
    ASSUME LandInv, RestoreInv, Grows, Written, NEW r \in Runs, NEW new,
           task' = [task EXCEPT ![r] = new], Reached(new)'
    PROVE  WritersReached'
  <1>1. /\ task'[r] = new /\ \A q \in Writers : q # r => task'[q] = task[q]
        /\ r # Probe /\ Probe \in Writers /\ \A q \in Runs : q \in Writers
    BY ProbeIsNoRun DEF LandInv, Standing, Located, Writers
  <1>2. ASSUME NEW q \in Runs PROVE Reached(task[q])'
    <2>1. CASE q = r
      BY <1>1, <2>1 DEF Reached
    <2>2. CASE q # r
      <3>1. PICK x : x = task[q]
        OBVIOUS
      <3>2. Reached(x)'
        BY <3>1, StillReached DEF RestoreInv, WritersReached
      <3> QED
        BY <1>1, <2>2, <3>1, <3>2 DEF Reached
    <2> QED
      BY <2>1, <2>2
  <1>3. task'[Probe] = task[Probe]
    BY <1>1
  <1> QED
    BY <1>2, <1>3 DEF WritersReached, RestoreInv, Written, Grows

LEMMA ProbeReaches ==
    ASSUME LandInv, RestoreInv, Grows, Written, NEW new, task' = [task EXCEPT ![Probe] = new],
           ProbeTable \in DOMAIN quarantine,
           new.phase \in {"idle", "inject"} => new.at = 1,
           new.phase \in {"verdict", "succeeded"} => new.at # 1
    PROVE  WritersReached'
  <1>1. /\ task'[Probe] = new /\ \A q \in Runs : task'[q] = task[q]
    BY ProbeIsNoRun DEF LandInv, Standing, Located, Writers
  <1>2. ASSUME NEW q \in Runs PROVE Reached(task[q])'
    <2>1. PICK x : x = task[q]
      OBVIOUS
    <2>2. Reached(x)'
      BY <2>1, StillReached DEF RestoreInv, WritersReached
    <2> QED
      BY <1>1, <2>1, <2>2 DEF Reached
  <1> QED
    BY <1>1, <1>2 DEF WritersReached, Written, Grows

(* A step that leaves bronze alone and does not bring the probe to rest.   *)
LEMMA QuietHolds ==
    ASSUME BronzeHolds, UNCHANGED <<landing, bronze, loaded>>, base'.version = base.version,
           task'[Probe].phase # "idle" => task[Probe].phase # "idle", AtRest' => AtRest
    PROVE  BronzeHolds'
  BY DEF BronzeHolds, OnlyKnownRows, SourceRows, Now, OfFile

LEMMA TablesStandStill ==
    ASSUME TablesHold, UNCHANGED <<landing, silver, quarantine>>,
           SilverAtRest' => SilverAtRest, QuarantineAtRest' => QuarantineAtRest
    PROVE  TablesHold'
  BY DEF TablesHold, KeysRouted, KeysStand, StandsAlone, TypedOfFile

(* A commit to one bronze table.                                           *)
LEMMA CommitHolds ==
    ASSUME LandInv, BronzeHolds, NEW t \in TableNames, NEW rows \in SUBSET BronzeRow,
           bronze' = [bronze EXCEPT ![t] = Append(@, rows)], UNCHANGED <<landing, base>>,
           \A u \in TableNames : u # t => loaded'[u] = loaded[u],
           \A x \in rows : /\ x.ingest_ts < Len(bronze[t]) + 1
                           /\ x.src \in landing[t] \/ (t = ProbeTable /\ x.src \in ProbeRows),
           loaded'[t] # {} => landing[t] \subseteq SourceRows(rows),
           task'[Probe].phase # "idle" => task[Probe].phase # "idle",
           AtRest' => IF t = ProbeTable THEN OfFile(t, rows) ELSE AtRest
    PROVE  BronzeHolds'
  <1>1. /\ \A u \in TableNames : u # t => bronze'[u] = bronze[u]
        /\ DOMAIN bronze'[t] = 1 .. Len(bronze[t]) + 1
        /\ DOMAIN bronze[t] = 1 .. Len(bronze[t]) /\ Len(bronze[t]) \in Nat
        /\ \A i \in DOMAIN bronze[t] : bronze'[t][i] = bronze[t][i]
        /\ bronze'[t][Len(bronze[t]) + 1] = rows
        /\ Versioned'
    BY Commit DEF LandInv
  <1>2. Len(bronze'[t]) = Len(bronze[t]) + 1
    <2>1. bronze'[t] \in Seq(SUBSET BronzeRow)
      BY <1>1 DEF Versioned
    <2> QED
      BY <1>1, <2>1
  <1>3. Now(t)' = rows /\ \A u \in TableNames : u # t => Now(u)' = Now(u)
    BY <1>1, <1>2 DEF Now
  <1>4. OnlyKnownRows'
    <2> SUFFICES ASSUME NEW u \in TableNames, NEW i \in DOMAIN bronze'[u], NEW x \in bronze'[u][i]
                 PROVE  /\ x.ingest_ts < Len(bronze'[u])
                        /\ x.src \in landing'[u] \/ (u = ProbeTable /\ x.src \in ProbeRows)
      BY DEF OnlyKnownRows
    <2>1. CASE u # t
      BY <1>1, <2>1 DEF BronzeHolds, OnlyKnownRows
    <2>2. CASE u = t /\ i \in DOMAIN bronze[t]
      <3>1. x \in bronze[t][i] /\ bronze[t][i] \in SUBSET BronzeRow
        BY <1>1, <2>2, CurrentVersion DEF LandInv
      <3>2. x.ingest_ts < Len(bronze[t]) /\ x.ingest_ts \in Nat
        BY <2>2, <3>1 DEF BronzeHolds, OnlyKnownRows, BronzeRow
      <3>3. x.src \in landing[t] \/ (t = ProbeTable /\ x.src \in ProbeRows)
        BY <2>2, <3>1 DEF BronzeHolds, OnlyKnownRows
      <3> QED
        BY <1>1, <1>2, <2>2, <3>2, <3>3
    <2>3. CASE u = t /\ i = Len(bronze[t]) + 1
      BY <1>1, <1>2, <2>3
    <2>4. u = t => i \in DOMAIN bronze[t] \/ i = Len(bronze[t]) + 1
      BY <1>1
    <2> QED
      BY <2>1, <2>2, <2>3, <2>4
  <1>5. \A u \in TableNames : loaded'[u] # {} => landing'[u] \subseteq SourceRows(Now(u)')
    BY <1>3 DEF BronzeHolds
  <1>6. ASSUME task'[Probe].phase # "idle"
        PROVE  SourceRows(bronze'[ProbeTable][base'.version]) = landing'[ProbeTable]
    <2>1. /\ base.version \in DOMAIN bronze[ProbeTable] /\ ProbeTable \in TableNames
          /\ SourceRows(bronze[ProbeTable][base.version]) = landing[ProbeTable]
      BY <1>6 DEF LandInv, BaseNoted, Standing, ProbeHasTable, BronzeHolds
    <2>2. bronze'[ProbeTable][base.version] = bronze[ProbeTable][base.version]
      BY <1>1, <2>1
    <2> QED
      BY <2>1, <2>2
  <1>7. AtRest' /\ ProbeTable \in TableNames => OfFile(ProbeTable, Now(ProbeTable))'
    BY <1>3 DEF BronzeHolds, OfFile
  <1> QED
    BY <1>4, <1>5, <1>6, <1>7 DEF BronzeHolds, SourceRows

-----------------------------------------------------------------------------
(* Steps of the job.                                                       *)
LEMMA ProbeUnmoved ==
    ASSUME LandInv, NEW r \in Runs, \E new : task' = [task EXCEPT ![r] = new]
    PROVE  /\ task'[Probe] = task[Probe]
           /\ AtRest' = AtRest /\ SilverAtRest' = SilverAtRest
           /\ QuarantineAtRest' = QuarantineAtRest
  <1>1. task'[Probe] = task[Probe]
    BY ProbeIsNoRun DEF LandInv, Standing, Located, Writers
  <1> QED
    BY <1>1 DEF AtRest, SilverAtRest, QuarantineAtRest

LEMMA NothingWritten ==
    ASSUME RestoreInv, UNCHANGED <<loaded, silver, quarantine>>
    PROVE  Grows /\ Written
  BY DEF Grows, Written, RestoreInv, WritersReached

LEMMA AfterTableReaches ==
    ASSUME LandInv, NEW r \in Runs, Grows, \A t \in TableNames : loaded[t] # {},
           task[r].phase \in OnTables, NEW x, x = AfterTable(r)
    PROVE  Reached(x)'
  <1>1. /\ r \in Writers /\ r # Probe /\ DOMAIN task[r] = TaskFields
    BY ProbeIsNoRun DEF LandInv, Standing, Located, Writers
  <1>2. \A t \in TableNames : loaded'[t] # {}
    BY DEF Grows
  <1>3. x.phase \in {"count", "cleaned"}
    <2>1. CASE task[r].at < Len(Tables)
      BY <1>1, <2>1 DEF AfterTable, TaskFields
    <2>2. CASE ~(task[r].at < Len(Tables))
      BY <1>1, <2>2 DEF AfterTable, TaskFields
    <2> QED
      BY <2>1, <2>2
  <1> QED
    BY <1>2, <1>3 DEF Reached

LEMMA QuietRunRestores ==
    ASSUME LandInv, RestoreInv, NEW r \in Runs,
           \/ \E mode \in Modes : Start(r, mode)
           \/ Finish(r) \/ Fail(r) \/ CountTable(r) \/ RecordDq(r)
    PROVE  RestoreInv'
  <1>1. UNCHANGED <<landing, bronze, loaded, silver, quarantine, base>>
    BY DEF Start, Finish, Fail, CountTable, RecordDq
  <1>2. \E new : task' = [task EXCEPT ![r] = new]
    BY DEF Start, Finish, Fail, CountTable, RecordDq, GoTo
  <1>3. /\ task'[Probe] = task[Probe]
        /\ AtRest' = AtRest /\ SilverAtRest' = SilverAtRest
        /\ QuarantineAtRest' = QuarantineAtRest
    BY <1>2, ProbeUnmoved
  <1>4. BronzeHolds' /\ TablesHold'
    BY <1>1, <1>3, QuietHolds, TablesStandStill DEF RestoreInv
  <1>5. Grows /\ Written
    BY <1>1, NothingWritten
  <1>6. r \in Writers /\ DOMAIN task[r] = TaskFields
    BY DEF LandInv, Standing, Located, Writers
  <1>7. ASSUME NEW new, task' = [task EXCEPT ![r] = new],
               \/ new.phase \notin {"ingest", "count", "clean", "quarantine", "record"}
               \/ new.phase = "ingest" /\ new.at = 1
               \/ new.phase = "clean" /\ task[r].phase = "count"
        PROVE  WritersReached'
    <2>1. PICK x : x = new
      OBVIOUS
    <2>2. ~\E i \in DOMAIN Tables : i < 1
      BY TablesAreListed
    <2>3. x.phase = "clean" => \A t \in TableNames : loaded'[t] # {}
      BY <1>1, <1>7, <2>1 DEF RestoreInv, WritersReached, Reached
    <2>4. Reached(x)'
      BY <1>7, <2>1, <2>2, <2>3 DEF Reached
    <2> QED
      BY <1>5, <1>7, <2>1, <2>4, RunReaches
  <1>8. CASE \E mode \in Modes : Start(r, mode)
    <2>1. PICK mode \in Modes :
            task' = [task EXCEPT ![r] = [Idle EXCEPT !.phase = "ingest", !.mode = mode]]
      BY <1>8 DEF Start
    <2> DEFINE new == [Idle EXCEPT !.phase = "ingest", !.mode = mode]
    <2>2. new.phase = "ingest" /\ new.at = 1 /\ task' = [task EXCEPT ![r] = new]
      BY <2>1 DEF Idle
    <2> HIDE DEF new
    <2> QED
      BY <1>4, <1>7, <2>2 DEF RestoreInv
  <1>9. CASE Finish(r) \/ Fail(r)
    <2>1. PICK phase \in {"succeeded", "failed"} : GoTo(r, phase)
      BY <1>9 DEF Finish, Fail
    <2> DEFINE new == [task[r] EXCEPT !.phase = phase]
    <2>2. new.phase = phase /\ task' = [task EXCEPT ![r] = new]
      BY <1>6, <2>1 DEF GoTo, TaskFields
    <2> HIDE DEF new
    <2> QED
      BY <1>4, <1>7, <2>2 DEF RestoreInv
  <1>10. CASE CountTable(r)
    <2>1. PICK counts :
            task' = [task EXCEPT ![r] = [task[r] EXCEPT !.phase = "clean", !.counts = counts]]
      BY <1>10 DEF CountTable
    <2> DEFINE new == [task[r] EXCEPT !.phase = "clean", !.counts = counts]
    <2>2. new.phase = "clean" /\ task[r].phase = "count" /\ task' = [task EXCEPT ![r] = new]
      BY <1>6, <1>10, <2>1 DEF TaskFields, CountTable
    <2> HIDE DEF new
    <2> QED
      BY <1>4, <1>7, <2>2 DEF RestoreInv
  <1>11. CASE RecordDq(r)
    <2>1. task' = [task EXCEPT ![r] = AfterTable(r)] /\ task[r].phase = "record"
      BY <1>11 DEF RecordDq
    <2>2. \A t \in TableNames : loaded[t] # {}
      BY <2>1 DEF RestoreInv, WritersReached, Reached
    <2>3. PICK x : x = AfterTable(r)
      OBVIOUS
    <2>5. Reached(x)'
      BY <1>5, <2>1, <2>2, <2>3, AfterTableReaches DEF OnTables
    <2>4. WritersReached'
      BY <1>5, <2>1, <2>3, <2>5, RunReaches
    <2> QED
      BY <1>4, <2>4 DEF RestoreInv
  <1> QED
    BY <1>8, <1>9, <1>10, <1>11

LEMMA IngestRestores ==
    ASSUME LandInv, RestoreInv, NEW r \in Runs, IngestTable(r)
    PROVE  RestoreInv'
  <1>1. /\ r \in Writers /\ DOMAIN task[r] = TaskFields /\ task[r].phase = "ingest"
        /\ task[r].at \in DOMAIN Tables
    BY DEF IngestTable, LandInv, Standing, Located, Writers, OnTables
  <1>2. PICK t \in TableNames : t = Tables[task[r].at]
    BY <1>1 DEF TableNames
  <1>3. UNCHANGED <<landing, silver, quarantine, base>>
    BY DEF IngestTable
  <1>4. \E new : task' = [task EXCEPT ![r] = new]
    BY DEF IngestTable
  <1>5. /\ task'[Probe] = task[Probe]
        /\ AtRest' = AtRest /\ SilverAtRest' = SilverAtRest
        /\ QuarantineAtRest' = QuarantineAtRest
    BY <1>4, ProbeUnmoved
  <1>6. TablesHold'
    BY <1>3, <1>5, TablesStandStill DEF RestoreInv
  <1>7. /\ BronzeHolds' /\ loaded'[t] # {}
        /\ \A u \in TableNames : loaded[u] \subseteq loaded'[u]
    <2>1. CASE Consumed(t, task[r].mode)
      <3>1. UNCHANGED <<bronze, loaded>>
        BY <1>2, <2>1 DEF IngestTable
      <3> QED
        BY <1>3, <1>5, <2>1, <3>1, QuietHolds DEF Consumed, RestoreInv
    <2>2. CASE ~Consumed(t, task[r].mode)
      <3> DEFINE rows == Now(t) \cup Landed(t)
      <3>1. /\ bronze' = [bronze EXCEPT ![t] = Append(@, rows)]
            /\ loaded' = [loaded EXCEPT ![t] = @ \cup {task[r].mode}]
        BY <1>2, <2>2 DEF IngestTable
      <3>2. /\ loaded'[t] = loaded[t] \cup {task[r].mode}
            /\ \A u \in TableNames : u # t => loaded'[u] = loaded[u]
        BY <3>1 DEF LandInv, VersionsFitLoads
      <3>3. PICK time \in Nat : time = Len(bronze[t])
        BY CurrentVersion DEF LandInv
      <3>4. /\ Now(t) \in SUBSET BronzeRow /\ Now(t) = bronze[t][Len(bronze[t])]
            /\ Len(bronze[t]) \in DOMAIN bronze[t] /\ landing \in Uploads
        BY CurrentVersion DEF LandInv, Versioned, Now
      <3>5. /\ \A x \in Landed(t) : x.ingest_ts = time /\ x.src \in landing[t]
            /\ \A s \in landing[t] : [src |-> s, ingest_ts |-> time] \in Landed(t)
        BY <3>3 DEF Landed
      <3>6. rows \in SUBSET BronzeRow
        <4>1. landing[t] \subseteq SourceRow
          BY <3>4, LandedRowsAreSource
        <4>2. Landed(t) \subseteq BronzeRow
          BY <3>3, <4>1 DEF Landed, BronzeRow
        <4> QED
          BY <3>4, <4>2
      <3>7. \A x \in rows : /\ x.ingest_ts < Len(bronze[t]) + 1
                            /\ x.src \in landing[t] \/ (t = ProbeTable /\ x.src \in ProbeRows)
        <4>1. ASSUME NEW x \in Now(t)
              PROVE  /\ x.ingest_ts < Len(bronze[t]) + 1
                     /\ x.src \in landing[t] \/ (t = ProbeTable /\ x.src \in ProbeRows)
          <5>1. x.ingest_ts \in Nat
            BY <3>4 DEF BronzeRow
          <5> QED
            BY <3>3, <3>4, <5>1 DEF RestoreInv, BronzeHolds, OnlyKnownRows
        <4>2. ASSUME NEW x \in Landed(t)
              PROVE  x.ingest_ts < Len(bronze[t]) + 1 /\ x.src \in landing[t]
          BY <3>3, <3>5
        <4> QED
          BY <4>1, <4>2
      <3>8. landing[t] \subseteq SourceRows(rows)
        <4> SUFFICES ASSUME NEW s \in landing[t] PROVE s \in SourceRows(rows)
          OBVIOUS
        <4>1. PICK x \in Landed(t) : x = [src |-> s, ingest_ts |-> time]
          BY <3>5
        <4> QED
          BY <4>1 DEF SourceRows
      <3>9. t = ProbeTable /\ AtRest => OfFile(t, rows)
        BY <3>5 DEF RestoreInv, BronzeHolds, OfFile
      <3> HIDE DEF rows
      <3>10. BronzeHolds'
        BY <1>3, <1>5, <3>1, <3>2, <3>6, <3>7, <3>8, <3>9, CommitHolds DEF RestoreInv
      <3> QED
        BY <3>2, <3>10
    <2> QED
      BY <2>1, <2>2
  <1>8. Grows /\ Written
    BY <1>3, <1>7 DEF Grows, Written, RestoreInv, WritersReached
  <1>9. \A i \in DOMAIN Tables : i < task[r].at \/ i = task[r].at => loaded'[Tables[i]] # {}
    <2>1. \A i \in DOMAIN Tables : Tables[i] \in TableNames
      BY DEF TableNames
    <2>2. \A i \in DOMAIN Tables : i < task[r].at => loaded[Tables[i]] # {}
      BY <1>1 DEF RestoreInv, WritersReached, Reached
    <2> QED
      BY <1>2, <1>7, <2>1, <2>2
  <1>10. WritersReached'
    <2>1. CASE task[r].at < Len(Tables)
      <3> DEFINE new == [task[r] EXCEPT !.at = task[r].at + 1]
      <3>1. new.phase = "ingest" /\ new.at = task[r].at + 1 /\ task' = [task EXCEPT ![r] = new]
        BY <1>1, <2>1 DEF IngestTable, TaskFields
      <3> HIDE DEF new
      <3>2. \A i \in DOMAIN Tables : i < new.at => loaded'[Tables[i]] # {}
        BY <1>1, <1>9, <3>1, TablesAreListed
      <3>3. PICK x : x = new
        OBVIOUS
      <3>4. Reached(x)'
        BY <3>1, <3>2, <3>3 DEF Reached
      <3> QED
        BY <1>8, <3>1, <3>3, <3>4, RunReaches
    <2>2. CASE ~(task[r].at < Len(Tables))
      <3> DEFINE new == [task[r] EXCEPT !.phase = "count", !.at = 1]
      <3>1. new.phase = "count" /\ new.at = 1 /\ task' = [task EXCEPT ![r] = new]
        BY <1>1, <2>2 DEF IngestTable, TaskFields
      <3> HIDE DEF new
      <3>2. \A i \in DOMAIN Tables : i < task[r].at \/ i = task[r].at
        BY <1>1, <2>2, TablesAreListed
      <3>3. \A u \in TableNames : loaded'[u] # {}
        BY <1>9, <3>2 DEF TableNames
      <3>4. PICK x : x = new
        OBVIOUS
      <3>5. Reached(x)'
        BY <3>1, <3>3, <3>4 DEF Reached
      <3> QED
        BY <1>8, <3>1, <3>4, <3>5, RunReaches
    <2> QED
      BY <2>1, <2>2
  <1> QED
    BY <1>6, <1>7, <1>10 DEF RestoreInv

-----------------------------------------------------------------------------
(* Steps that write the tables.                                            *)
LEMMA SilverRewritten ==
    ASSUME LandInv, RestoreInv, NEW t \in TableNames, loaded[t] # {}, NEW rows \in Deduped(t),
           silver' = Overwritten(silver, t, Clean(t, rows)),
           UNCHANGED <<landing, loaded, quarantine>>,
           SilverAtRest' => IF t = ProbeTable THEN AtRest ELSE SilverAtRest,
           QuarantineAtRest' => QuarantineAtRest
    PROVE  TablesHold' /\ Grows /\ Written
  <1>1. /\ DOMAIN silver' = {t} \cup DOMAIN silver
        /\ silver'[t] = Clean(t, rows)
        /\ \A u \in DOMAIN silver : u # t => silver'[u] = silver[u]
    BY DEF Overwritten
  <1>2. /\ KeysStand(t, rows)
        /\ t # ProbeTable \/ AtRest => TypedOfFile(t, rows)
    BY EvaluationHolds DEF RestoreInv
  <1>3. TypedOfFile(t, rows) => TypedOfFile(t, Clean(t, rows))
    BY DEF TypedOfFile, Clean
  <1>4. /\ DOMAIN silver' \subseteq TableNames /\ DOMAIN quarantine' \subseteq DOMAIN silver'
        /\ \A u \in DOMAIN silver' :
              \E some : KeysStand(u, some) /\ silver'[u] = Clean(u, some)
    BY <1>1, <1>2 DEF RestoreInv, TablesHold, KeysRouted
  <1>5. KeysRouted'
    BY <1>4 DEF RestoreInv, TablesHold, KeysRouted
  <1>6. ASSUME NEW u \in DOMAIN silver', u # ProbeTable \/ SilverAtRest'
        PROVE  TypedOfFile(u, silver'[u])
    <2>1. CASE u = t
      BY <1>1, <1>2, <1>3, <1>6, <2>1
    <2>2. CASE u # t
      BY <1>1, <1>6, <2>2 DEF RestoreInv, TablesHold
    <2> QED
      BY <2>1, <2>2
  <1>7. TablesHold'
    BY <1>5, <1>6 DEF RestoreInv, TablesHold, TypedOfFile
  <1> QED
    BY <1>1, <1>7 DEF Grows, Written, RestoreInv, WritersReached

LEMMA QuarantineRewritten ==
    ASSUME LandInv, RestoreInv, NEW t \in DOMAIN silver, loaded[t] # {}, NEW rows \in Deduped(t),
           quarantine' = Overwritten(quarantine, t, Quarantined(t, rows)),
           UNCHANGED <<landing, loaded, silver>>,
           QuarantineAtRest' => IF t = ProbeTable THEN AtRest ELSE QuarantineAtRest,
           SilverAtRest' => SilverAtRest
    PROVE  TablesHold' /\ Grows /\ Written
  <1>1. /\ DOMAIN quarantine' = {t} \cup DOMAIN quarantine
        /\ quarantine'[t] = Quarantined(t, rows)
        /\ \A u \in DOMAIN quarantine : u # t => quarantine'[u] = quarantine[u]
    BY DEF Overwritten
  <1>2. t \in TableNames
    BY DEF RestoreInv, WritersReached
  <1>3. /\ KeysStand(t, rows)
        /\ t # ProbeTable \/ AtRest => TypedOfFile(t, rows)
    BY <1>2, EvaluationHolds DEF RestoreInv
  <1>4. TypedOfFile(t, rows) => TypedOfFile(t, Quarantined(t, rows))
    BY DEF TypedOfFile, Quarantined
  <1>5. /\ DOMAIN quarantine' \subseteq DOMAIN silver'
        /\ \A u \in DOMAIN quarantine' :
              \E some : KeysStand(u, some) /\ quarantine'[u] = Quarantined(u, some)
    BY <1>1, <1>3 DEF RestoreInv, TablesHold, KeysRouted
  <1>6. KeysRouted'
    BY <1>5 DEF RestoreInv, TablesHold, KeysRouted
  <1>7. ASSUME NEW u \in DOMAIN quarantine', u # ProbeTable \/ QuarantineAtRest'
        PROVE  TypedOfFile(u, quarantine'[u])
    <2>1. CASE u = t
      BY <1>1, <1>3, <1>4, <1>7, <2>1
    <2>2. CASE u # t
      BY <1>1, <1>7, <2>2 DEF RestoreInv, TablesHold
    <2> QED
      BY <2>1, <2>2
  <1>8. TablesHold'
    BY <1>6, <1>7 DEF RestoreInv, TablesHold, TypedOfFile
  <1> QED
    BY <1>1, <1>8 DEF Grows, Written, RestoreInv, WritersReached

LEMMA RunWritesRestore ==
    ASSUME LandInv, RestoreInv, NEW r \in Runs, WriteClean(r) \/ WriteQuarantine(r)
    PROVE  RestoreInv'
  <1>1. /\ r \in Writers /\ r # Probe /\ DOMAIN task[r] = TaskFields
        /\ task[r].phase \in {"clean", "quarantine"} /\ At(r) = Tables[task[r].at]
    BY ProbeIsNoRun
       DEF LandInv, Standing, Located, Writers, WriteClean, WriteQuarantine, At
  <1>2. UNCHANGED <<landing, bronze, loaded, base>>
    BY DEF WriteClean, WriteQuarantine
  <1>3. \E new : task' = [task EXCEPT ![r] = new]
    BY DEF WriteClean, WriteQuarantine
  <1>4. /\ task'[Probe] = task[Probe]
        /\ AtRest' = AtRest /\ SilverAtRest' = SilverAtRest
        /\ QuarantineAtRest' = QuarantineAtRest
    BY <1>3, ProbeUnmoved
  <1>5. (SilverAtRest => AtRest) /\ (QuarantineAtRest => AtRest)
    BY DEF AtRest, SilverAtRest, QuarantineAtRest
  <1>6. BronzeHolds'
    BY <1>2, <1>4, QuietHolds DEF RestoreInv
  <1>7. /\ At(r) \in TableNames /\ loaded[At(r)] # {}
        /\ task[r].phase = "quarantine" => At(r) \in DOMAIN silver
    BY <1>1, EvaluatedIsLoaded
  <1>8. \A t \in TableNames : loaded[t] # {}
    BY <1>1 DEF RestoreInv, WritersReached, Reached
  <1>9. CASE WriteClean(r)
    <2>1. PICK rows \in Deduped(At(r)) : silver' = Overwritten(silver, At(r), Clean(At(r), rows))
      BY <1>9 DEF WriteClean
    <2>2. UNCHANGED <<landing, loaded, quarantine>>
      BY <1>9 DEF WriteClean
    <2>3. TablesHold' /\ Grows /\ Written
      BY <1>4, <1>5, <1>7, <2>1, <2>2, SilverRewritten
    <2>4. At(r) \in DOMAIN silver'
      BY <2>1 DEF Overwritten
    <2>5. WritersReached'
      <3>1. CASE HasRules(At(r))
        <4> DEFINE new == [task[r] EXCEPT !.phase = "quarantine"]
        <4>1. new.phase = "quarantine" /\ new.at = task[r].at /\ task' = [task EXCEPT ![r] = new]
          BY <1>1, <1>9, <3>1 DEF WriteClean, TaskFields
        <4> HIDE DEF new
        <4>2. PICK x : x = new
          OBVIOUS
        <4>3. Reached(x)'
          BY <1>1, <1>2, <1>8, <2>4, <4>1, <4>2 DEF Reached
        <4> QED
          BY <2>3, <4>1, <4>2, <4>3, RunReaches
      <3>2. CASE ~HasRules(At(r))
        <4>1. PICK x : x = AfterTable(r)
          OBVIOUS
        <4>2. task' = [task EXCEPT ![r] = x]
          BY <1>9, <3>2, <4>1 DEF WriteClean
        <4>3. Reached(x)'
          BY <1>1, <1>8, <2>3, <4>1, AfterTableReaches DEF OnTables
        <4> QED
          BY <2>3, <4>2, <4>3, RunReaches
      <3> QED
        BY <3>1, <3>2
    <2> QED
      BY <1>6, <2>3, <2>5 DEF RestoreInv
  <1>10. CASE WriteQuarantine(r)
    <2>1. PICK rows \in Deduped(At(r)) :
            quarantine' = Overwritten(quarantine, At(r), Quarantined(At(r), rows))
      BY <1>10 DEF WriteQuarantine
    <2>2. UNCHANGED <<landing, loaded, silver>> /\ task[r].phase = "quarantine"
      BY <1>10 DEF WriteQuarantine
    <2>3. TablesHold' /\ Grows /\ Written
      BY <1>4, <1>5, <1>7, <2>1, <2>2, QuarantineRewritten
    <2> DEFINE new == [task[r] EXCEPT !.phase = "record", !.n_clean = Cardinality(silver[At(r)])]
    <2>4. new.phase = "record" /\ new.at = task[r].at /\ task' = [task EXCEPT ![r] = new]
      BY <1>1, <1>10 DEF WriteQuarantine, TaskFields
    <2> HIDE DEF new
    <2>5. PICK x : x = new
      OBVIOUS
    <2>6. Reached(x)'
      BY <1>1, <1>2, <1>7, <1>8, <2>2, <2>4, <2>5 DEF Reached
    <2>7. WritersReached'
      BY <2>3, <2>4, <2>5, <2>6, RunReaches
    <2> QED
      BY <1>6, <2>3, <2>7 DEF RestoreInv
  <1> QED
    BY <1>9, <1>10

-----------------------------------------------------------------------------
(* Steps of the probe.                                                     *)
LEMMA ProbeTableHasRules == HasRules(ProbeTable)
  <1>1. ProbeTable \in DOMAIN Rules /\ "order_items.order_id_not_null" \in Rules[ProbeTable]
    BY DEF Rules, ProbeTable
  <1> QED
    BY <1>1 DEF HasRules, RulesFor

LEMMA ProbeStands ==
    ASSUME LandInv, RestoreInv
    PROVE  /\ Probe \in Writers /\ DOMAIN task = Writers /\ DOMAIN task[Probe] = TaskFields
           /\ At(Probe) = ProbeTable
           /\ task[Probe].phase # "idle" =>
                /\ ProbeTable \in TableNames /\ loaded[ProbeTable] # {}
                /\ ProbeTable \in DOMAIN silver /\ ProbeTable \in DOMAIN quarantine
                /\ base.version \in DOMAIN bronze[ProbeTable]
  BY DEF LandInv, Standing, Located, Writers, At, RestoreInv, WritersReached, TablesHold,
         KeysRouted, BaseNoted

LEMMA QuietProbeRestores ==
    ASSUME LandInv, RestoreInv,
           CountTable(Probe) \/ RecordDq(Probe) \/ AssertRouting \/ Verdict \/ Fail(Probe)
    PROVE  RestoreInv'
  <1>1. /\ UNCHANGED <<landing, bronze, loaded, silver, quarantine>>
        /\ task[Probe].phase # "idle"
    BY DEF CountTable, RecordDq, AssertRouting, Verdict, Fail, Active
  <1>2. base'.version = base.version
    BY DEF CountTable, RecordDq, AssertRouting, Verdict, Fail, LandInv, BaseNoted
  <1>3. Grows /\ Written
    BY <1>1, NothingWritten
  <1>4. Probe \in Writers /\ DOMAIN task = Writers /\ DOMAIN task[Probe] = TaskFields
        /\ ProbeTable \in DOMAIN quarantine
    BY <1>1, ProbeStands
  <1>5. ASSUME NEW new, task' = [task EXCEPT ![Probe] = new], new.at = task[Probe].at,
               \/ new.phase \in {"clean", "assert", "restore", "failed"}
               \/ /\ new.phase \in {"verdict", "succeeded"}
                  /\ new.at # 1 /\ task[Probe].phase \in {"record", "verdict"}
        PROVE  RestoreInv'
    <2>1. task'[Probe] = new
      BY <1>4, <1>5
    <2>2. /\ AtRest' => AtRest
          /\ SilverAtRest' => SilverAtRest
          /\ QuarantineAtRest' => QuarantineAtRest
      BY <1>5, <2>1 DEF AtRest, SilverAtRest, QuarantineAtRest
    <2>3. BronzeHolds' /\ TablesHold'
      BY <1>1, <1>2, <2>2, QuietHolds, TablesStandStill DEF RestoreInv
    <2>4. WritersReached'
      BY <1>3, <1>4, <1>5, ProbeReaches
    <2> QED
      BY <2>3, <2>4 DEF RestoreInv
  <1>6. CASE CountTable(Probe)
    <2>1. PICK counts :
            task' = [task EXCEPT ![Probe] = [task[Probe] EXCEPT !.phase = "clean", !.counts = counts]]
      BY <1>6 DEF CountTable
    <2> DEFINE new == [task[Probe] EXCEPT !.phase = "clean", !.counts = counts]
    <2>2. new.phase = "clean" /\ new.at = task[Probe].at /\ task' = [task EXCEPT ![Probe] = new]
      BY <1>4, <2>1 DEF TaskFields
    <2> HIDE DEF new
    <2> QED
      BY <1>5, <2>2
  <1>7. CASE RecordDq(Probe)
    <2> DEFINE new == AfterTable(Probe)
    <2>1. /\ new.at = task[Probe].at /\ task' = [task EXCEPT ![Probe] = new]
          /\ new.phase = IF task[Probe].at = 1 THEN "assert" ELSE "verdict"
      BY <1>4, <1>7 DEF RecordDq, AfterTable, TaskFields
    <2>2. task[Probe].phase = "record"
      BY <1>7 DEF RecordDq
    <2> HIDE DEF new
    <2> QED
      BY <1>5, <2>1, <2>2
  <1>8. CASE AssertRouting \/ Verdict \/ Fail(Probe)
    <2>1. PICK phase : /\ GoTo(Probe, phase)
                       /\ \/ phase \in {"restore", "failed"}
                          \/ phase = "succeeded" /\ task[Probe].phase = "verdict"
      BY <1>8 DEF AssertRouting, Verdict, Fail
    <2>2. task[Probe].phase = "verdict" => task[Probe].at # 1
      BY DEF RestoreInv, WritersReached
    <2> DEFINE new == [task[Probe] EXCEPT !.phase = phase]
    <2>3. new.phase = phase /\ new.at = task[Probe].at /\ task' = [task EXCEPT ![Probe] = new]
      BY <1>4, <2>1 DEF GoTo, TaskFields
    <2> HIDE DEF new
    <2> QED
      BY <1>5, <2>1, <2>2, <2>3
  <1> QED
    BY <1>6, <1>7, <1>8

LEMMA ProbeWritesRestore ==
    ASSUME LandInv, RestoreInv, WriteClean(Probe) \/ WriteQuarantine(Probe)
    PROVE  RestoreInv'
  <1>1. /\ UNCHANGED <<landing, bronze, loaded, base>>
        /\ task[Probe].phase \in {"clean", "quarantine"}
    BY DEF WriteClean, WriteQuarantine
  <1>2. /\ Probe \in Writers /\ DOMAIN task = Writers /\ DOMAIN task[Probe] = TaskFields
        /\ At(Probe) = ProbeTable /\ ProbeTable \in TableNames /\ loaded[ProbeTable] # {}
        /\ ProbeTable \in DOMAIN silver /\ ProbeTable \in DOMAIN quarantine
    BY <1>1, ProbeStands
  <1>3. \E phase \in {"quarantine", "record"} :
          /\ task'[Probe].phase = phase /\ task'[Probe].at = task[Probe].at
          /\ phase = "record" => task[Probe].phase = "quarantine"
          /\ phase = "quarantine" => task[Probe].phase = "clean"
          /\ \E new : task' = [task EXCEPT ![Probe] = new] /\ new.phase = phase
    <2>1. CASE WriteClean(Probe)
      <3> DEFINE new == [task[Probe] EXCEPT !.phase = "quarantine"]
      <3>1. new.phase = "quarantine" /\ new.at = task[Probe].at
            /\ task' = [task EXCEPT ![Probe] = new]
        BY <1>2, <2>1, ProbeTableHasRules DEF WriteClean, TaskFields
      <3>2. task[Probe].phase = "clean"
        BY <2>1 DEF WriteClean
      <3> HIDE DEF new
      <3>3. task'[Probe] = new
        BY <1>2, <3>1
      <3> QED
        BY <3>1, <3>2, <3>3
    <2>2. CASE WriteQuarantine(Probe)
      <3> DEFINE new == [task[Probe] EXCEPT !.phase = "record",
                                            !.n_clean = Cardinality(silver[At(Probe)])]
      <3>1. new.phase = "record" /\ new.at = task[Probe].at
            /\ task' = [task EXCEPT ![Probe] = new]
        BY <1>2, <2>2 DEF WriteQuarantine, TaskFields
      <3>2. task[Probe].phase = "quarantine"
        BY <2>2 DEF WriteQuarantine
      <3> HIDE DEF new
      <3>3. task'[Probe] = new
        BY <1>2, <3>1
      <3> QED
        BY <3>1, <3>2, <3>3
    <2> QED
      BY <1>1, <2>1, <2>2
  <1>4. /\ AtRest' => AtRest
        /\ SilverAtRest' => AtRest
        /\ QuarantineAtRest' => AtRest
        /\ WriteClean(Probe) => ~QuarantineAtRest'
        /\ WriteQuarantine(Probe) => (SilverAtRest' => SilverAtRest)
    BY <1>1, <1>3 DEF AtRest, SilverAtRest, QuarantineAtRest, WriteClean, WriteQuarantine
  <1>5. BronzeHolds'
    BY <1>1, <1>4, QuietHolds DEF RestoreInv
  <1>6. TablesHold' /\ Grows /\ Written
    <2>1. CASE WriteClean(Probe)
      <3>1. PICK rows \in Deduped(ProbeTable) :
              silver' = Overwritten(silver, ProbeTable, Clean(ProbeTable, rows))
        BY <1>2, <2>1 DEF WriteClean
      <3>2. UNCHANGED <<landing, loaded, quarantine>>
        BY <2>1 DEF WriteClean
      <3> QED
        BY <1>2, <1>4, <2>1, <3>1, <3>2, SilverRewritten
    <2>2. CASE WriteQuarantine(Probe)
      <3>1. PICK rows \in Deduped(ProbeTable) :
              quarantine' = Overwritten(quarantine, ProbeTable, Quarantined(ProbeTable, rows))
        BY <1>2, <2>2 DEF WriteQuarantine
      <3>2. UNCHANGED <<landing, loaded, silver>>
        BY <2>2 DEF WriteQuarantine
      <3> QED
        BY <1>2, <1>4, <2>2, <3>1, <3>2, QuarantineRewritten
    <2> QED
      BY <2>1, <2>2
  <1>7. WritersReached'
    BY <1>2, <1>3, <1>6, ProbeReaches
  <1> QED
    BY <1>5, <1>6, <1>7 DEF RestoreInv

LEMMA BaselineRestores ==
    ASSUME LandInv, RestoreInv, Baseline
    PROVE  RestoreInv'
  <1>1. /\ UNCHANGED <<landing, bronze, loaded, silver, quarantine>>
        /\ task[Probe].phase = "idle" /\ ProbeTable \in DOMAIN quarantine
        /\ base'.version = Len(bronze[ProbeTable])
    BY DEF Baseline
  <1>2. Probe \in Writers /\ DOMAIN task = Writers /\ DOMAIN task[Probe] = TaskFields
    BY ProbeStands
  <1> DEFINE new == [task[Probe] EXCEPT !.phase = "inject"]
  <1>3. new.phase = "inject" /\ new.at = 1 /\ task' = [task EXCEPT ![Probe] = new]
    BY <1>1, <1>2 DEF Baseline, GoTo, TaskFields, RestoreInv, WritersReached
  <1> HIDE DEF new
  <1>4. Grows /\ Written
    BY <1>1, NothingWritten
  <1>5. WritersReached'
    BY <1>1, <1>3, <1>4, ProbeReaches
  <1>6. AtRest /\ SilverAtRest /\ QuarantineAtRest
    BY <1>1 DEF AtRest, SilverAtRest, QuarantineAtRest
  <1>7. TablesHold'
    BY <1>1, <1>6, TablesStandStill DEF RestoreInv
  <1>8. ProbeTable \in TableNames /\ loaded[ProbeTable] # {}
    BY <1>1 DEF RestoreInv, TablesHold, KeysRouted, WritersReached
  <1>9. SourceRows(Now(ProbeTable)) = landing[ProbeTable]
    <2>1. landing[ProbeTable] \subseteq SourceRows(Now(ProbeTable))
      BY <1>8 DEF RestoreInv, BronzeHolds
    <2>2. OfFile(ProbeTable, Now(ProbeTable))
      BY <1>6, <1>8 DEF RestoreInv, BronzeHolds
    <2> QED
      BY <2>1, <2>2 DEF OfFile, SourceRows
  <1>10. BronzeHolds'
    BY <1>1, <1>6, <1>9 DEF RestoreInv, BronzeHolds, OnlyKnownRows, SourceRows, Now, OfFile
  <1> QED
    BY <1>5, <1>7, <1>10 DEF RestoreInv

LEMMA InjectRestores ==
    ASSUME LandInv, RestoreInv, Inject
    PROVE  RestoreInv'
  <1>1. /\ UNCHANGED <<landing, loaded, silver, quarantine, base>>
        /\ task[Probe].phase = "inject"
    BY DEF Inject
  <1>2. /\ Probe \in Writers /\ DOMAIN task = Writers /\ DOMAIN task[Probe] = TaskFields
        /\ ProbeTable \in TableNames /\ loaded[ProbeTable] # {} /\ ProbeTable \in DOMAIN quarantine
    BY <1>1, ProbeStands
  <1> DEFINE new == [task[Probe] EXCEPT !.phase = "count"]
  <1>3. new.phase = "count" /\ new.at = 1 /\ task' = [task EXCEPT ![Probe] = new]
    BY <1>1, <1>2 DEF Inject, GoTo, TaskFields, RestoreInv, WritersReached
  <1> HIDE DEF new
  <1>4. Grows /\ Written
    BY <1>1, NothingWritten
  <1>5. WritersReached'
    BY <1>2, <1>3, <1>4, ProbeReaches
  <1>6. task'[Probe] = new
    BY <1>2, <1>3
  <1>7. SilverAtRest /\ QuarantineAtRest /\ ~AtRest'
    BY <1>1, <1>3, <1>6 DEF AtRest, SilverAtRest, QuarantineAtRest
  <1>8. TablesHold'
    BY <1>1, <1>7, TablesStandStill DEF RestoreInv
  <1>9. PICK t \in TableNames : t = ProbeTable
    BY <1>2
  <1> DEFINE rows == Now(t) \cup Injected
  <1>10. bronze' = [bronze EXCEPT ![t] = Append(@, rows)]
    BY <1>9 DEF Inject
  <1>11. PICK time \in Nat : time = Len(bronze[t])
    BY CurrentVersion DEF LandInv
  <1>12. /\ Now(t) \in SUBSET BronzeRow /\ Now(t) = bronze[t][Len(bronze[t])]
         /\ Len(bronze[t]) \in DOMAIN bronze[t]
    BY CurrentVersion DEF LandInv, Now
  <1>13. \A x \in Injected : x \in BronzeRow /\ x.ingest_ts = time /\ x.src \in ProbeRows
    <2>1. ProbeRows \subseteq SourceRow
      BY DEF SourceRow
    <2>2. Injected = {[src |-> p, ingest_ts |-> time] : p \in ProbeRows}
      BY <1>9, <1>11 DEF Injected
    <2> HIDE DEF Injected
    <2> QED
      BY <2>1, <2>2 DEF BronzeRow
  <1>14. rows \in SUBSET BronzeRow
    BY <1>12, <1>13
  <1>15. ASSUME NEW x \in rows
         PROVE  /\ x.ingest_ts < Len(bronze[t]) + 1
                /\ x.src \in landing[t] \/ (t = ProbeTable /\ x.src \in ProbeRows)
    <2>1. CASE x \in Now(t)
      <3>1. x.ingest_ts \in Nat
        BY <1>12, <2>1 DEF BronzeRow
      <3> QED
        BY <1>11, <1>12, <2>1, <3>1 DEF RestoreInv, BronzeHolds, OnlyKnownRows
    <2>2. CASE x \in Injected
      BY <1>9, <1>11, <1>13, <2>2
    <2> QED
      BY <2>1, <2>2
  <1>16. landing[t] \subseteq SourceRows(rows)
    BY <1>2, <1>9 DEF RestoreInv, BronzeHolds, SourceRows
  <1> HIDE DEF rows
  <1>17. BronzeHolds'
    BY <1>1, <1>7, <1>10, <1>14, <1>15, <1>16, CommitHolds DEF RestoreInv
  <1> QED
    BY <1>5, <1>8, <1>17 DEF RestoreInv

LEMMA BronzeRestored ==
    ASSUME LandInv, RestoreInv, RestoreBronze
    PROVE  RestoreInv'
  <1>1. /\ UNCHANGED <<landing, loaded, silver, quarantine, base>>
        /\ task[Probe].phase = "restore"
    BY DEF RestoreBronze
  <1>2. /\ Probe \in Writers /\ DOMAIN task = Writers /\ DOMAIN task[Probe] = TaskFields
        /\ ProbeTable \in TableNames /\ loaded[ProbeTable] # {} /\ ProbeTable \in DOMAIN quarantine
        /\ base.version \in DOMAIN bronze[ProbeTable]
    BY <1>1, ProbeStands
  <1> DEFINE new == [task[Probe] EXCEPT !.phase = "count", !.at = 2]
  <1>3. new.phase = "count" /\ task' = [task EXCEPT ![Probe] = new]
    BY <1>1, <1>2 DEF RestoreBronze, TaskFields
  <1> HIDE DEF new
  <1>4. Grows /\ Written
    BY <1>1, NothingWritten
  <1>5. WritersReached'
    BY <1>2, <1>3, <1>4, ProbeReaches
  <1>6. task'[Probe] = new
    BY <1>2, <1>3
  <1>7. ~SilverAtRest' /\ ~QuarantineAtRest'
    BY <1>3, <1>6 DEF SilverAtRest, QuarantineAtRest
  <1>8. TablesHold'
    BY <1>1, <1>7, TablesStandStill DEF RestoreInv
  <1>9. PICK t \in TableNames : t = ProbeTable
    BY <1>2
  <1>10. PICK rows : rows = bronze[t][base.version]
    OBVIOUS
  <1>11. bronze' = [bronze EXCEPT ![t] = Append(@, rows)]
    BY <1>9, <1>10 DEF RestoreBronze, BaseVersion
  <1>12. rows \in SUBSET BronzeRow /\ Len(bronze[t]) \in Nat
    BY <1>2, <1>9, <1>10, CurrentVersion DEF LandInv
  <1>13. SourceRows(rows) = landing[t]
    BY <1>1, <1>9, <1>10 DEF RestoreInv, BronzeHolds
  <1>14. OfFile(t, rows)
    BY <1>13 DEF OfFile, SourceRows
  <1>15. ASSUME NEW x \in rows
         PROVE  x.ingest_ts < Len(bronze[t]) + 1 /\ x.src \in landing[t]
    <2>1. x.ingest_ts \in Nat /\ x.ingest_ts < Len(bronze[t])
      BY <1>2, <1>9, <1>10, <1>12 DEF BronzeRow, RestoreInv, BronzeHolds, OnlyKnownRows
    <2> QED
      BY <1>12, <1>14, <2>1 DEF OfFile
  <1>16. BronzeHolds'
    BY <1>1, <1>9, <1>11, <1>12, <1>13, <1>14, <1>15, CommitHolds DEF RestoreInv
  <1> QED
    BY <1>5, <1>8, <1>16 DEF RestoreInv

LEMMA InitRestores == Init => RestoreInv
  <1> SUFFICES ASSUME Init PROVE RestoreInv
    OBVIOUS
  <1>1. /\ bronze = [t \in TableNames |-> <<{}>>] /\ loaded = [t \in TableNames |-> {}]
        /\ silver = <<>> /\ quarantine = <<>> /\ \A w \in Writers : task[w] = Idle
        /\ Probe \in Writers /\ \A r \in Runs : r \in Writers
    BY DEF Init, Writers
  <1>2. WritersReached
    BY <1>1 DEF WritersReached, Reached, Idle
  <1>3. \A t \in TableNames : Now(t) = {} /\ \A i \in DOMAIN bronze[t] : bronze[t][i] = {}
    BY <1>1 DEF Now
  <1>4. BronzeHolds
    BY <1>1, <1>3 DEF BronzeHolds, OnlyKnownRows, OfFile, Idle
  <1>5. TablesHold
    BY <1>1 DEF TablesHold, KeysRouted
  <1> QED
    BY <1>2, <1>4, <1>5 DEF RestoreInv

LEMMA NextRestores ==
    ASSUME LandInv, RestoreInv, [Next]_vars
    PROVE  RestoreInv'
  <1>1. ASSUME NEW r \in Runs,
               \/ \E mode \in Modes : Start(r, mode)
               \/ IngestTable(r) \/ CleanStep(r) \/ Finish(r) \/ Fail(r)
        PROVE  RestoreInv'
    BY <1>1, QuietRunRestores, IngestRestores, RunWritesRestore DEF CleanStep
  <1>2. CASE ProbeStep \/ Fail(Probe)
    BY <1>2, BaselineRestores, InjectRestores, BronzeRestored, QuietProbeRestores,
       ProbeWritesRestore DEF ProbeStep, CleanStep
  <1>3. CASE UNCHANGED vars
    BY <1>3 DEF vars, RestoreInv, WritersReached, Reached, BronzeHolds, OnlyKnownRows, AtRest,
                SourceRows, Now, OfFile, TablesHold, KeysRouted, KeysStand, StandsAlone,
                SilverAtRest, QuarantineAtRest, TypedOfFile
  <1> QED
    BY <1>1, <1>2, <1>3 DEF Next, JobNext, Rest

LEMMA RestoreInvariant == Spec => [](LandInv /\ RestoreInv)
  <1>1. Init => LandInv /\ RestoreInv
    BY InitLands, InitRestores
  <1>2. LandInv /\ RestoreInv /\ [Next]_vars => LandInv' /\ RestoreInv'
    BY NextLands, NextRestores
  <1> QED
    BY <1>1, <1>2, PTL DEF Spec

(* A probe that reaches its last cell has left none of its rows in bronze, *)
(* silver or quarantine and none of the file's rows is missing, whatever   *)
(* runs landed, rebuilt or failed while it was at work.                    *)
THEOREM TheProbeRestores == Spec => []ProbeRestores
  BY RestoreInvariant, RestoredAtTheEnd, PTL

(* The probe diverts no row of the data: at every moment of it, and if it  *)
(* dies between any two commits, each decided key of the data is in silver *)
(* or in quarantine, once.                                                 *)
THEOREM RowsRoutedOnceBesideTheProbe == Spec => []RoutedOnce
  <1>1. RestoreInv => RoutedOnce
    BY RoutedRight DEF RestoreInv, TablesHold
  <1> QED
    BY <1>1, RestoreInvariant, PTL

LEMMA SilverTablesStay ==
    ASSUME [Next]_vars
    PROVE  DOMAIN silver \subseteq DOMAIN silver'
  <1>1. ASSUME NEW w \in Writers, WriteClean(w) PROVE DOMAIN silver \subseteq DOMAIN silver'
    BY <1>1 DEF WriteClean, Overwritten
  <1>2. (\E w \in Writers : WriteClean(w)) \/ UNCHANGED silver
    BY DEF Next, JobNext, ProbeStep, CleanStep, Start, IngestTable, CountTable, WriteQuarantine,
           RecordDq, Fail, Finish, Baseline, Inject, AssertRouting, RestoreBronze, Verdict, Rest,
           vars, Writers
  <1> QED
    BY <1>1, <1>2

(* Nor does it change one: a rebuild over the rows it added leaves the     *)
(* decided keys of the data as they were.                                  *)
THEOREM RebuildsAreSafeBesideTheProbe == Spec => RebuildsChangeNothing
  <1>1. RestoreInv => KeysRouted
    BY DEF RestoreInv, TablesHold
  <1>2. KeysRouted /\ KeysRouted' /\ [Next]_vars =>
          [\A t \in DOMAIN silver : \A k \in Decided[t] :
              /\ SourceRows(RowsOf(t, silver'[t], k)) = SourceRows(RowsOf(t, silver[t], k))
              /\ Cardinality(RowsOf(t, silver'[t], k)) = Cardinality(RowsOf(t, silver[t], k))]_vars
    BY SilverTablesStay, RebuiltRight
  <1> QED
    BY <1>1, <1>2, RestoreInvariant, PTL DEF Spec, RebuildsChangeNothing

-----------------------------------------------------------------------------
(***************************************************************************)
(* The assertions of the probe.  Whoever evaluates the table between the   *)
(* append and the restore finds one row per key of the file and the eight  *)
(* rows of the probe; before and after there are those of the file only.   *)
(* So what the probe counts depends on nothing but where it stands.        *)
(***************************************************************************)
(* The five rules of the table, as the registry states them.               *)
LEMMA ItemRules ==
    ASSUME NEW row
    PROVE  /\ Predicate("order_items.order_id_not_null", row) = Truth(row.order_id # NULL)
           /\ Predicate("order_items.product_id_not_null", row) = Truth(row.product_id # NULL)
           /\ Predicate("order_items.price_non_negative", row)
                = Compare(row.price, row.price >= 0)
           /\ Predicate("order_items.freight_non_negative", row)
                = Compare(row.freight_value, row.freight_value >= 0)
           /\ Predicate("order_items.item_sequence_positive", row)
                = Compare(row.order_item_id, row.order_item_id >= 1)
  <1>1. ASSUME NEW rule, NEW col,
               \/ rule = "order_items.order_id_not_null" /\ col = "order_id"
               \/ rule = "order_items.product_id_not_null" /\ col = "product_id"
        PROVE  Predicate(rule, row) = Truth(row[col] # NULL)
    <2>1. rule \in DOMAIN NotNull /\ NotNull[rule] = col
      BY <1>1 DEF NotNull, Registry
    <2>2. rule \notin DOMAIN AtLeast /\ rule \notin DOMAIN InDomain
          /\ rule # "customers.state_two_letters" /\ rule # "products.weight_non_negative"
          /\ rule # "orders.delivery_after_purchase"
      BY <1>1 DEF AtLeast, InDomain, Registry
    <2> QED
      BY <2>1, <2>2 DEF Predicate
  <1>2. ASSUME NEW rule, NEW col, NEW least,
               \/ rule = "order_items.price_non_negative" /\ col = "price" /\ least = 0
               \/ rule = "order_items.freight_non_negative" /\ col = "freight_value" /\ least = 0
               \/ rule = "order_items.item_sequence_positive" /\ col = "order_item_id" /\ least = 1
        PROVE  Predicate(rule, row) = Compare(row[col], row[col] >= least)
    <2>1. rule \in DOMAIN AtLeast /\ AtLeast[rule] = <<col, least>>
      BY <1>2 DEF AtLeast, Registry
    <2>2. rule \notin DOMAIN NotNull /\ rule \notin DOMAIN InDomain
          /\ rule # "customers.state_two_letters" /\ rule # "products.weight_non_negative"
          /\ rule # "orders.delivery_after_purchase"
      BY <1>2 DEF NotNull, InDomain, Registry
    <2> QED
      BY <2>1, <2>2 DEF Predicate
  <1> QED
    BY <1>1, <1>2

(* The rows of the probe by what is wrong with them.                       *)
NoOrder    == ProbeRow(NULL, 1, "prod_x", 10, 5)
NoProduct  == ProbeRow("dqprobe_2", 1, NULL, 10, 5)
BadPrice   == ProbeRow("dqprobe_3", 1, "prod_x", -10, 5)
BadFreight == ProbeRow("dqprobe_4", 1, "prod_x", 10, -5)
BadItem    == ProbeRow("dqprobe_5", 0, "prod_x", 10, 5)
NoPrice    == ProbeRow("dqprobe_6", 1, "prod_x", NULL, 5)
BadBoth    == ProbeRow("dqprobe_7", 1, "prod_x", -1, -1)
GoodRow    == ProbeRow("dqprobe_8", 1, "prod_x", 10, 5)

BadRows == {NoOrder, NoProduct, BadPrice, BadFreight, BadItem, NoPrice, BadBoth}

FailingRows == Registry({
    <<"order_items.order_id_not_null", {NoOrder}>>,
    <<"order_items.product_id_not_null", {NoProduct}>>,
    <<"order_items.price_non_negative", {BadPrice, NoPrice, BadBoth}>>,
    <<"order_items.freight_non_negative", {BadFreight, BadBoth}>>,
    <<"order_items.item_sequence_positive", {BadItem}>>})

ItemRuleIds == {"order_items.order_id_not_null", "order_items.product_id_not_null",
                "order_items.price_non_negative", "order_items.freight_non_negative",
                "order_items.item_sequence_positive"}

LEMMA ItemRegistry ==
    /\ RulesFor(ProbeTable) = ItemRuleIds /\ RejectRules(ProbeTable) = ItemRuleIds
    /\ DOMAIN EXPECTED = ItemRuleIds /\ DOMAIN FailingRows = ItemRuleIds
  <1>1. Rules[ProbeTable] = ItemRuleIds /\ ProbeTable \in DOMAIN Rules
    BY DEF Rules, ProbeTable, ItemRuleIds
  <1>2. ItemRuleIds \cap WarnRules = {}
    BY DEF ItemRuleIds, WarnRules
  <1>3. DOMAIN EXPECTED = ItemRuleIds
    BY DEF EXPECTED, Registry, ItemRuleIds
  <1>4. DOMAIN FailingRows = ItemRuleIds
    BY DEF FailingRows, Registry, ItemRuleIds
  <1> QED
    BY <1>1, <1>2, <1>3, <1>4 DEF RulesFor, RejectRules

LEMMA ProbeRowsNamed ==
    /\ ProbeRows = BadRows \cup {GoodRow}
    /\ \A p, q \in ProbeRows : p.order_id = q.order_id => p = q
    /\ \A p \in ProbeRows : p.order_id = "dqprobe_8" <=> p = GoodRow
    /\ \A p \in ProbeRows : p.order_id = "dqprobe_7" <=> p = BadBoth
    /\ GoodRow \notin BadRows
  <1>1. NULL \notin {"dqprobe_2", "dqprobe_3", "dqprobe_4", "dqprobe_5", "dqprobe_6",
                    "dqprobe_7", "dqprobe_8"}
    BY ProbeWritesData
  <1>2. \A p, q \in ProbeRows : p.order_id = q.order_id => p = q
    BY <1>1 DEF ProbeRows, ProbeRow
  <1>3. ProbeRows = BadRows \cup {GoodRow}
    BY DEF ProbeRows, BadRows, NoOrder, NoProduct, BadPrice, BadFreight, BadItem, NoPrice,
           BadBoth, GoodRow
  <1>4. \A p \in BadRows : p.order_id # "dqprobe_8"
    BY <1>1 DEF BadRows, NoOrder, NoProduct, BadPrice, BadFreight, BadItem, NoPrice, BadBoth,
                ProbeRow
  <1>5. GoodRow.order_id = "dqprobe_8" /\ BadBoth.order_id = "dqprobe_7"
        /\ BadBoth \in BadRows
    BY DEF GoodRow, BadBoth, BadRows, ProbeRow
  <1> QED
    BY <1>2, <1>3, <1>4, <1>5

(* Silver takes the rows of the probe as they are.                         *)
LEMMA ProbeRowsAreTyped ==
    ASSUME NEW p \in ProbeRows
    PROVE  Typed(p) = p
  <1>1. /\ p = [order_id |-> p.order_id, order_item_id |-> p.order_item_id,
               product_id |-> p.product_id, seller_id |-> p.seller_id,
               price |-> p.price, freight_value |-> p.freight_value]
        /\ p.order_item_id \in Int /\ p.price \in Int \cup {NULL} /\ p.freight_value \in Int
    BY DEF ProbeRows, ProbeRow
  <1>2. /\ Read(p.order_item_id) = p.order_item_id /\ Read(p.price) = p.price
        /\ Read(p.freight_value) = p.freight_value
    BY <1>1, ProbeWritesData, UnreadableIsNotNull DEF Read
  <1> QED
    BY <1>1, <1>2 DEF Typed, NumericCols, TimestampCols, StringCols

LEMMA ProbeRowsFail ==
    ASSUME NEW rule \in ItemRuleIds, NEW p \in ProbeRows
    PROVE  Predicate(rule, p) # "true" <=> p \in FailingRows[rule]
  <1>1. NULL \notin Int /\ NULL \notin {"prod_x", "dqprobe_2", "dqprobe_3", "dqprobe_4",
                       "dqprobe_5", "dqprobe_6", "dqprobe_7", "dqprobe_8"}
    BY ProbeWritesData
  <1>2. CASE rule = "order_items.order_id_not_null"
    <2>1. FailingRows[rule] = {NoOrder}
      BY <1>2 DEF FailingRows, Registry
    <2> QED
      BY <1>1, <1>2, <2>1, ItemRules DEF Truth, ProbeRows, ProbeRow, NoOrder
  <1>3. CASE rule = "order_items.product_id_not_null"
    <2>1. FailingRows[rule] = {NoProduct}
      BY <1>3 DEF FailingRows, Registry
    <2> QED
      BY <1>1, <1>3, <2>1, ItemRules DEF Truth, ProbeRows, ProbeRow, NoProduct
  <1>4. CASE rule = "order_items.price_non_negative"
    <2>1. FailingRows[rule] = {BadPrice, NoPrice, BadBoth}
      BY <1>4 DEF FailingRows, Registry
    <2> QED
      BY <1>1, <1>4, <2>1, ItemRules
         DEF Truth, Compare, ProbeRows, ProbeRow, BadPrice, NoPrice, BadBoth
  <1>5. CASE rule = "order_items.freight_non_negative"
    <2>1. FailingRows[rule] = {BadFreight, BadBoth}
      BY <1>5 DEF FailingRows, Registry
    <2> QED
      BY <1>1, <1>5, <2>1, ItemRules DEF Truth, Compare, ProbeRows, ProbeRow, BadFreight, BadBoth
  <1>6. CASE rule = "order_items.item_sequence_positive"
    <2>1. FailingRows[rule] = {BadItem}
      BY <1>6 DEF FailingRows, Registry
    <2> QED
      BY <1>1, <1>6, <2>1, ItemRules DEF Truth, Compare, ProbeRows, ProbeRow, BadItem
  <1> QED
    BY <1>2, <1>3, <1>4, <1>5, <1>6 DEF ItemRuleIds

LEMMA RowsOfProbeCounted ==
    /\ IsFiniteSet(BadRows) /\ Cardinality(BadRows) = 7
    /\ \A rule \in ItemRuleIds :
          /\ FailingRows[rule] \subseteq BadRows
          /\ IsFiniteSet(FailingRows[rule]) /\ Cardinality(FailingRows[rule]) = EXPECTED[rule]
  <1>1. NULL \notin {"dqprobe_2", "dqprobe_3", "dqprobe_4", "dqprobe_5", "dqprobe_6",
                    "dqprobe_7", "dqprobe_8"}
    BY ProbeWritesData
  <1>2. /\ NoOrder.order_id = NULL /\ NoProduct.order_id = "dqprobe_2"
        /\ BadPrice.order_id = "dqprobe_3" /\ BadFreight.order_id = "dqprobe_4"
        /\ BadItem.order_id = "dqprobe_5" /\ NoPrice.order_id = "dqprobe_6"
        /\ BadBoth.order_id = "dqprobe_7"
    BY DEF NoOrder, NoProduct, BadPrice, BadFreight, BadItem, NoPrice, BadBoth, ProbeRow
  <1>3. IsFiniteSet(BadRows) /\ Cardinality(BadRows) = 7
    <2> DEFINE three == {NoOrder, NoProduct, BadPrice}
               other == {BadFreight, BadItem, NoPrice}
               six   == three \cup other
    <2>1. IsFiniteSet(three) /\ Cardinality(three) = 3
      <3>1. NoOrder # NoProduct /\ BadPrice # NoOrder /\ BadPrice # NoProduct
        BY <1>1, <1>2
      <3> QED
        BY <3>1, Three
    <2>2. IsFiniteSet(other) /\ Cardinality(other) = 3
      <3>1. BadFreight # BadItem /\ NoPrice # BadFreight /\ NoPrice # BadItem
        BY <1>2
      <3> QED
        BY <3>1, Three
    <2>3. three \cap other = {}
      BY <1>1, <1>2
    <2>4. BadBoth \notin six /\ BadRows = six \cup {BadBoth}
      BY <1>1, <1>2 DEF BadRows
    <2> HIDE DEF three, other
    <2>5. IsFiniteSet(six) /\ Cardinality(six) = 6
      BY <2>1, <2>2, <2>3, FS_Union, FS_EmptySet
    <2> HIDE DEF six
    <2> QED
      BY <2>4, <2>5, OneMore
  <1>4. ASSUME NEW rule \in ItemRuleIds
        PROVE  /\ FailingRows[rule] \subseteq BadRows
               /\ IsFiniteSet(FailingRows[rule])
               /\ Cardinality(FailingRows[rule]) = EXPECTED[rule]
    <2>1. CASE rule = "order_items.order_id_not_null"
      <3>1. FailingRows[rule] = {NoOrder} /\ EXPECTED[rule] = 1
        BY <2>1 DEF FailingRows, EXPECTED, Registry
      <3> QED
        BY <3>1, One DEF BadRows
    <2>2. CASE rule = "order_items.product_id_not_null"
      <3>1. FailingRows[rule] = {NoProduct} /\ EXPECTED[rule] = 1
        BY <2>2 DEF FailingRows, EXPECTED, Registry
      <3> QED
        BY <3>1, One DEF BadRows
    <2>3. CASE rule = "order_items.price_non_negative"
      <3>1. FailingRows[rule] = {BadPrice, NoPrice, BadBoth} /\ EXPECTED[rule] = 3
        BY <2>3 DEF FailingRows, EXPECTED, Registry
      <3>2. BadPrice # NoPrice /\ BadBoth # BadPrice /\ BadBoth # NoPrice
        BY <1>2
      <3>3. /\ IsFiniteSet({BadPrice, NoPrice, BadBoth})
            /\ Cardinality({BadPrice, NoPrice, BadBoth}) = 3
        BY <3>2, Three
      <3> QED
        BY <3>1, <3>3 DEF BadRows
    <2>4. CASE rule = "order_items.freight_non_negative"
      <3>1. FailingRows[rule] = {BadFreight, BadBoth} /\ EXPECTED[rule] = 2
        BY <2>4 DEF FailingRows, EXPECTED, Registry
      <3>2. BadFreight # BadBoth
        BY <1>2
      <3>3. IsFiniteSet(FailingRows[rule]) /\ Cardinality(FailingRows[rule]) = EXPECTED[rule]
        BY <3>1, <3>2, Two
      <3> QED
        BY <3>1, <3>3 DEF BadRows
    <2>5. CASE rule = "order_items.item_sequence_positive"
      <3>1. FailingRows[rule] = {BadItem} /\ EXPECTED[rule] = 1
        BY <2>5 DEF FailingRows, EXPECTED, Registry
      <3> QED
        BY <3>1, One DEF BadRows
    <2> QED
      BY <2>1, <2>2, <2>3, <2>4, <2>5 DEF ItemRuleIds
  <1> QED
    BY <1>3, <1>4

(* Each of the seven breaks a rule.                                        *)
LEMMA BadRowsFail ==
    \A p : p \in BadRows <=> \E rule \in ItemRuleIds : p \in FailingRows[rule]
  <1>1. /\ NoOrder \in FailingRows["order_items.order_id_not_null"]
        /\ NoProduct \in FailingRows["order_items.product_id_not_null"]
        /\ {BadPrice, NoPrice, BadBoth} \subseteq FailingRows["order_items.price_non_negative"]
        /\ BadFreight \in FailingRows["order_items.freight_non_negative"]
        /\ BadItem \in FailingRows["order_items.item_sequence_positive"]
    BY DEF FailingRows, Registry
  <1>2. \A p \in BadRows : \E rule \in ItemRuleIds : p \in FailingRows[rule]
    BY <1>1 DEF BadRows, ItemRuleIds
  <1> QED
    BY <1>2, RowsOfProbeCounted

(* A probe that is lost leaves its rows in bronze, and every run evaluates *)
(* them with the rest; of all of them silver only ever has the control row, *)
(* because each of the others fails a rule, and the decided keys of the    *)
(* file stay where they belong.                                            *)
THEOREM TheProbeIsContained == Spec => []ProbeIsContained
  <1>1. ASSUME LandInv, RestoreInv, SilverIsClean, NEW t \in DOMAIN silver, NEW r \in silver[t],
               r.src \in ProbeSources
        PROVE  r.src.order_id = "dqprobe_8"
    <2>1. PICK p \in ProbeRows : r.src = p
      BY <1>1, ProbeRowsAreTyped DEF ProbeSources
    <2>2. t = ProbeTable
      <3>1. landing \in Uploads /\ t \in TableNames
        BY <1>1 DEF LandInv, Versioned, RestoreInv, WritersReached
      <3>2. \A s \in landing[t] : Typed(s) \notin ProbeSources
        BY <3>1, ProbeRowsAreNoData DEF TableNames
      <3>3. ~TypedOfFile(t, silver[t])
        BY <1>1, <3>2 DEF TypedOfFile, TypedFile
      <3> QED
        BY <1>1, <3>3 DEF RestoreInv, TablesHold
    <2>3. \A rule \in ItemRuleIds : Predicate(rule, p) = "true"
      BY <1>1, <2>1, <2>2, ItemRegistry DEF SilverIsClean
    <2>4. p \notin BadRows
      BY <2>3, ProbeRowsFail, BadRowsFail
    <2> QED
      BY <2>1, <2>4, ProbeRowsNamed
  <1>2. LandInv /\ RestoreInv /\ SilverIsClean /\ RoutedOnce => ProbeIsContained
    BY <1>1 DEF ProbeIsContained
  <1> QED
    BY <1>2, RestoreInvariant, SilverStaysClean, RowsRoutedOnceBesideTheProbe, PTL

(* The sixth row of the seven breaks two rules.                            *)
LEMMA BadBothFailsTwice ==
    Cardinality({rule \in ItemRuleIds : BadBoth \in FailingRows[rule]}) = 2
  <1> DEFINE price == "order_items.price_non_negative"
             freight == "order_items.freight_non_negative"
  <1>1. BadBoth \in FailingRows[price] /\ BadBoth \in FailingRows[freight]
    BY DEF FailingRows, Registry
  <1>2. BadBoth.order_id = "dqprobe_7"
    BY DEF BadBoth, ProbeRow
  <1>3. ASSUME NEW rule \in ItemRuleIds \ {price, freight}
        PROVE  BadBoth \notin FailingRows[rule]
    <2>1. FailingRows[rule] \in {{NoOrder}, {NoProduct}, {BadItem}}
      BY <1>3 DEF FailingRows, Registry, ItemRuleIds
    <2>2. /\ NoOrder.order_id = NULL /\ NoProduct.order_id = "dqprobe_2"
          /\ BadItem.order_id = "dqprobe_5"
      BY DEF NoOrder, NoProduct, BadItem, ProbeRow
    <2>3. NULL # "dqprobe_7"
      BY ProbeWritesData
    <2> QED
      BY <1>2, <2>1, <2>2, <2>3
  <1>4. {rule \in ItemRuleIds : BadBoth \in FailingRows[rule]} = {price, freight}
    BY <1>1, <1>3 DEF ItemRuleIds
  <1> QED
    BY <1>4, Two

(* Of rows with one per key, as many as there are keys asked for.          *)
LEMMA RowsOfKeys ==
    ASSUME NEW t, NEW rows, OneRowPerKey(t, rows), NEW keys, IsFiniteSet(keys),
           \A k \in keys : \E r \in rows : Key(t, r.src) = k,
           NEW some, some = {r \in rows : Key(t, r.src) \in keys}
    PROVE  IsFiniteSet(some) /\ Cardinality(some) = Cardinality(keys)
  <1> DEFINE row == [k \in keys |-> CHOOSE r \in rows : Key(t, r.src) = k]
  <1>1. \A k \in keys : row[k] \in rows /\ Key(t, row[k].src) = k
    OBVIOUS
  <1>2. DOMAIN row = keys
    OBVIOUS
  <1> HIDE DEF row
  <1>3. \A k, l \in keys : row[k] = row[l] => k = l
    BY <1>1
  <1>4. \A r \in some : r = row[Key(t, r.src)]
    BY <1>1 DEF OneRowPerKey
  <1>5. {row[k] : k \in keys} = some
    BY <1>1, <1>4
  <1>6. IsFiniteSet({row[k] : k \in keys}) /\ Cardinality({row[k] : k \in keys}) = Cardinality(keys)
    BY <1>2, <1>3, FiniteImage
  <1> QED
    BY <1>5, <1>6

-----------------------------------------------------------------------------
(* In this table the row that landed last wins, so every key that bronze   *)
(* has survives.                                                           *)
LEMMA KeySurvives ==
    ASSUME LandInv, OnlyKnownRows, ProbeTable \in TableNames, NEW rows \in Deduped(ProbeTable),
           NEW r \in TypedRows(ProbeTable)
    PROVE  \E q \in rows : Key(ProbeTable, q.src) = Key(ProbeTable, r.src)
  <1>1. PICK t \in TableNames : t = ProbeTable
    OBVIOUS
  <1> DEFINE all     == TypedRows(t)
             equals  == {x \in all : Key(t, x.src) = Key(t, r.src)}
             times   == {x.ingest_ts : x \in equals}
             winners == Winners(t, all)
             tied    == {w \in winners : \E q \in winners : q # w /\ SameKey(t, q.src, w.src)}
  <1>2. \A x \in all : x.ingest_ts \in Nat /\ x.ingest_ts < Len(bronze[t])
    BY <1>1, TypedRow DEF BronzeShaped
  <1>3. Len(bronze[t]) \in Nat
    BY <1>1, CurrentVersion DEF LandInv
  <1>4. times \in SUBSET Nat /\ times # {} /\ \A time \in times : time < Len(bronze[t])
    BY <1>1, <1>2
  <1>5. PICK m \in times : \A time \in times : time <= m
    <2> HIDE DEF times
    <2> QED
      BY <1>3, <1>4, GreatestBelow
  <1>6. PICK w \in all : Key(t, w.src) = Key(t, r.src) /\ w.ingest_ts = m
    BY <1>5
  <1>7. ASSUME NEW x \in all, SameKey(t, x.src, w.src) PROVE ~Beats(t, x, w)
    <2>1. Key(t, x.src) = Key(t, r.src)
      BY <1>6, <1>7, KeyIsSameKey
    <2>2. x.ingest_ts <= w.ingest_ts /\ x.ingest_ts \in Nat /\ w.ingest_ts \in Nat
      BY <1>2, <1>5, <1>6, <2>1
    <2>3. \A y : SequenceOf(t, y) = 0
      BY <1>1 DEF SequenceOf, SequenceCol, ProbeTable
    <2> QED
      BY <2>2, <2>3 DEF Beats
  <1> HIDE DEF all
  <1>8. w \in winners
    BY <1>6, <1>7 DEF Winners
  <1>9. rows \in OneOfEachKey(t, winners)
    BY <1>1, DedupedAreSurvivors DEF Survivors, all
  <1> HIDE DEF winners
  <1>10. PICK some \in SUBSET tied :
            /\ rows = (winners \ tied) \cup some
            /\ \A q \in tied : \E one \in some : {s \in some : SameKey(t, q.src, s.src)} = {one}
    BY <1>9 DEF OneOfEachKey
  <1>11. CASE w \in tied
    <2>1. PICK one \in some : {s \in some : SameKey(t, w.src, s.src)} = {one}
      BY <1>10, <1>11
    <2>2. one \in rows /\ SameKey(t, w.src, one.src)
      BY <1>10, <2>1
    <2> QED
      BY <1>1, <1>6, <2>2, KeyIsSameKey
  <1> QED
    BY <1>1, <1>6, <1>8, <1>10, <1>11

(* One row for every row of the file and for each of these of the probe.   *)
Evaluated(rows, probes) ==
    /\ OneRowPerKey(ProbeTable, rows)
    /\ \A r \in rows : r.src \in TypedFile(landing, ProbeTable) \cup probes
    /\ \A s \in landing[ProbeTable] : \E r \in rows :
          Key(ProbeTable, r.src) = Key(ProbeTable, Typed(s))
    /\ \A p \in probes : \E r \in rows : Key(ProbeTable, r.src) = Key(ProbeTable, p)

Injecting ==
    /\ task[Probe].at = 1
    /\ task[Probe].phase \in {"count", "clean", "quarantine", "record", "assert", "restore"}

RowsAreInjected == Injecting => ProbeRows \subseteq SourceRows(Now(ProbeTable))

LEMMA EvaluatedRows ==
    ASSUME LandInv, RestoreInv, RowsAreInjected, ProbeTable \in TableNames,
           loaded[ProbeTable] # {}, NEW rows \in Deduped(ProbeTable)
    PROVE  /\ AtRest => Evaluated(rows, {})
           /\ Injecting => Evaluated(rows, ProbeRows)
  <1>1. OnlyKnownRows
    BY DEF RestoreInv, BronzeHolds
  <1>2. OneRowPerKey(ProbeTable, rows)
    BY DedupedAreSurvivors, KeyIsSameKey, OneSurvivor DEF OneRowPerKey
  <1>3. ASSUME NEW s \in SourceRows(Now(ProbeTable))
        PROVE  \E r \in rows : Key(ProbeTable, r.src) = Key(ProbeTable, Typed(s))
    <2>1. PICK x \in Now(ProbeTable) : x.src = s
      BY DEF SourceRows
    <2>2. x \in BronzeRow
      BY CurrentVersion DEF LandInv
    <2>3. [x EXCEPT !.src = Typed(x.src)].src = Typed(s)
      BY <2>1, <2>2 DEF BronzeRow
    <2>4. PICK y \in TypedRows(ProbeTable) : y.src = Typed(s)
      BY <2>3 DEF TypedRows
    <2>5. \E r \in rows : Key(ProbeTable, r.src) = Key(ProbeTable, y.src)
      BY <1>1, KeySurvives
    <2> QED
      BY <2>4, <2>5
  <1>4. landing[ProbeTable] \subseteq SourceRows(Now(ProbeTable))
    BY DEF RestoreInv, BronzeHolds
  <1>5. \A r \in rows : r.src \in TypedFile(landing, ProbeTable) \cup ProbeRows
    BY <1>1, SurvivorsAreRows, TypedRow, ProbeRowsAreTyped
  <1>6. AtRest => \A r \in rows : r.src \in TypedFile(landing, ProbeTable)
    BY EvaluationHolds DEF RestoreInv, TypedOfFile
  <1>7. ASSUME Injecting, NEW p \in ProbeRows
        PROVE  \E r \in rows : Key(ProbeTable, r.src) = Key(ProbeTable, p)
    <2>1. p \in SourceRows(Now(ProbeTable))
      BY <1>7 DEF RowsAreInjected
    <2> QED
      BY <1>3, <2>1, ProbeRowsAreTyped
  <1> QED
    BY <1>2, <1>3, <1>4, <1>5, <1>6, <1>7 DEF Evaluated

(* No row of the data fails a rule, which is what the notebook counts on:  *)
(* "no reject rule fires on the real data" (98_dq_probe.py:5).             *)
FilesPass ==
    ProbeTable \in TableNames =>
        \A f \in Uploads : \A s \in f[ProbeTable] : \A rule \in RulesFor(ProbeTable) :
            Predicate(rule, Typed(s)) = "true"

FileKeys == {Key(ProbeTable, Typed(s)) : s \in landing[ProbeTable]}

LEMMA FileKeysAreFinite ==
    ASSUME landing \in Uploads, ProbeTable \in TableNames
    PROVE  IsFiniteSet(FileKeys) /\ Cardinality(FileKeys) \in Nat
  <1> DEFINE key == [s \in landing[ProbeTable] |-> Key(ProbeTable, Typed(s))]
  <1>1. IsFiniteSet(landing[ProbeTable])
    BY UploadedTable
  <1>2. FileKeys = {key[s] : s \in landing[ProbeTable]} /\ DOMAIN key = landing[ProbeTable]
    BY DEF FileKeys
  <1> HIDE DEF key
  <1>3. IsFiniteSet(FileKeys)
    BY <1>1, <1>2, FiniteImage
  <1> QED
    BY <1>3, FS_CardinalityType

(* Which rules a surviving row fails, and which way it goes.               *)
LEMMA WayOfRow ==
    ASSUME FilesPass, landing \in Uploads, ProbeTable \in TableNames,
           NEW rows, Evaluated(rows, ProbeRows), NEW r \in rows
    PROVE  /\ r.src \in TypedFile(landing, ProbeTable) =>
                /\ \A rule \in ItemRuleIds : ~Fails(r, rule)
                /\ ~Rejected(ProbeTable, r)
                /\ \A p \in ProbeRows : /\ r.src # p /\ r.src.order_id # p.order_id
                                       /\ Key(ProbeTable, r.src) # Key(ProbeTable, p)
           /\ r.src \in ProbeRows =>
                /\ \A rule \in ItemRuleIds : Fails(r, rule) <=> r.src \in FailingRows[rule]
                /\ Rejected(ProbeTable, r) <=> r.src \in BadRows
                /\ Key(ProbeTable, r.src) \notin FileKeys
  <1>1. ASSUME NEW s \in landing[ProbeTable], r.src = Typed(s)
        PROVE  /\ \A rule \in ItemRuleIds : ~Fails(r, rule)
               /\ ~Rejected(ProbeTable, r)
               /\ \A p \in ProbeRows : /\ r.src # p /\ r.src.order_id # p.order_id
                                      /\ Key(ProbeTable, r.src) # Key(ProbeTable, p)
    <2>1. \A rule \in ItemRuleIds : ~Fails(r, rule)
      BY <1>1, ItemRegistry DEF FilesPass, Fails
    <2>2. ~Rejected(ProbeTable, r)
      BY <2>1, ItemRegistry DEF Rejected, FailedRules
    <2>3. \A p \in ProbeRows : Key(ProbeTable, r.src) # Key(ProbeTable, p)
      BY <1>1, ProbeKeysAreNew, ProbeRowsAreTyped
    <2>4. \A p \in ProbeRows : r.src.order_id # p.order_id
      BY <1>1, ProbeOrdersAreNew
    <2> QED
      BY <2>1, <2>2, <2>3, <2>4
  <1>2. ASSUME r.src \in ProbeRows
        PROVE  /\ \A rule \in ItemRuleIds : Fails(r, rule) <=> r.src \in FailingRows[rule]
               /\ Rejected(ProbeTable, r) <=> r.src \in BadRows
               /\ Key(ProbeTable, r.src) \notin FileKeys
    <2>1. \A rule \in ItemRuleIds : Fails(r, rule) <=> r.src \in FailingRows[rule]
      BY <1>2, ProbeRowsFail DEF Fails
    <2>2. Rejected(ProbeTable, r) <=> \E rule \in ItemRuleIds : r.src \in FailingRows[rule]
      BY <2>1, ItemRegistry DEF Rejected, FailedRules
    <2>3. r.src \in BadRows <=> \E rule \in ItemRuleIds : r.src \in FailingRows[rule]
      BY BadRowsFail
    <2>4. Key(ProbeTable, r.src) \notin FileKeys
      BY <1>2, ProbeKeysAreNew, ProbeRowsAreTyped DEF FileKeys
    <2> QED
      BY <2>1, <2>2, <2>3, <2>4
  <1> QED
    BY <1>1, <1>2 DEF TypedFile

(* The tables as the probe expects them, and as they are without it.       *)
SilverProbed(rows) ==
    /\ Cardinality(rows) = Cardinality(FileKeys) + 1
    /\ Cardinality(Order(rows, "dqprobe_8")) = 1

QuarantineProbed(rows) ==
    /\ Cardinality(rows) = 7
    /\ \A rule \in ItemRuleIds : Cardinality({q \in rows : Fails(q, rule)}) = EXPECTED[rule]
    /\ \E q \in Order(rows, "dqprobe_7") : Cardinality(FailedRules(ProbeTable, q)) = 2
    /\ Order(rows, "dqprobe_8") = {}

LEMMA PlainTables ==
    ASSUME FilesPass, landing \in Uploads, ProbeTable \in TableNames,
           NEW rows, Evaluated(rows, {})
    PROVE  /\ Cardinality(Clean(ProbeTable, rows)) = Cardinality(FileKeys)
           /\ Quarantined(ProbeTable, rows) = {}
  <1>1. ASSUME NEW r \in rows
        PROVE  ~Rejected(ProbeTable, r) /\ Key(ProbeTable, r.src) \in FileKeys
    <2>1. PICK s \in landing[ProbeTable] : r.src = Typed(s)
      BY DEF Evaluated, TypedFile
    <2>2. \A rule \in RulesFor(ProbeTable) : ~Fails(r, rule)
      BY <2>1 DEF FilesPass, Fails
    <2> QED
      BY <2>1, <2>2 DEF Rejected, FailedRules, FileKeys
  <1>2. Clean(ProbeTable, rows) = {r \in rows : Key(ProbeTable, r.src) \in FileKeys}
        /\ Quarantined(ProbeTable, rows) = {}
    BY <1>1 DEF Clean, Quarantined
  <1>3. OneRowPerKey(ProbeTable, rows)
        /\ \A k \in FileKeys : \E r \in rows : Key(ProbeTable, r.src) = k
    BY DEF Evaluated, FileKeys
  <1>4. IsFiniteSet(FileKeys)
    BY FileKeysAreFinite
  <1> QED
    BY <1>2, <1>3, <1>4, RowsOfKeys

(* As many rows as there are rows of the probe asked for.                  *)
LEMMA RowsOfProbe ==
    ASSUME FilesPass, landing \in Uploads, ProbeTable \in TableNames,
           NEW rows, Evaluated(rows, ProbeRows), NEW probes \in SUBSET ProbeRows,
           IsFiniteSet(probes), NEW some, some = {r \in rows : r.src \in probes}
    PROVE  IsFiniteSet(some) /\ Cardinality(some) = Cardinality(probes)
  <1> DEFINE key == [p \in probes |-> Key(ProbeTable, p)]
             keys == {key[p] : p \in probes}
  <1>1. \A p, q \in ProbeRows : Key(ProbeTable, p) = Key(ProbeTable, q) => p = q
    <2>1. \A p : Key(ProbeTable, p)["order_id"] = p.order_id
      BY DEF Key, BusinessKey, ProbeTable
    <2> QED
      BY <2>1, ProbeRowsNamed
  <1>2. \A p, q \in probes : key[p] = key[q] => p = q
    BY <1>1
  <1>3. DOMAIN key = probes
    OBVIOUS
  <1>4. IsFiniteSet(keys) /\ Cardinality(keys) = Cardinality(probes)
    <2> HIDE DEF key
    <2> QED
      BY <1>2, <1>3, FiniteImage
  <1>5. \A k \in keys : \E r \in rows : Key(ProbeTable, r.src) = k
    BY DEF Evaluated
  <1>6. ASSUME NEW r \in rows PROVE r.src \in probes <=> Key(ProbeTable, r.src) \in keys
    <2>1. CASE r.src \in TypedFile(landing, ProbeTable)
      BY <2>1, WayOfRow
    <2>2. CASE r.src \in ProbeRows
      BY <1>1, <2>2
    <2> QED
      BY <2>1, <2>2 DEF Evaluated
  <1>7. some = {r \in rows : Key(ProbeTable, r.src) \in keys}
    BY <1>6
  <1>8. OneRowPerKey(ProbeTable, rows)
    BY DEF Evaluated
  <1> HIDE DEF keys
  <1>9. IsFiniteSet(some) /\ Cardinality(some) = Cardinality(keys)
    BY <1>4, <1>5, <1>7, <1>8, RowsOfKeys
  <1> QED
    BY <1>4, <1>9

LEMMA ProbedTables ==
    ASSUME FilesPass, landing \in Uploads, ProbeTable \in TableNames,
           NEW rows, Evaluated(rows, ProbeRows)
    PROVE  /\ SilverProbed(Clean(ProbeTable, rows))
           /\ QuarantineProbed(Quarantined(ProbeTable, rows))
           /\ CountFailures(ProbeTable, rows) = [rule \in RulesFor(ProbeTable) |-> EXPECTED[rule]]
  <1> DEFINE clean == Clean(ProbeTable, rows)
             diverted == Quarantined(ProbeTable, rows)
  <1>1. \A r \in rows : r.src \in TypedFile(landing, ProbeTable) \/ r.src \in ProbeRows
    BY DEF Evaluated
  <1>2. ProbeRows = BadRows \cup {GoodRow} /\ GoodRow \notin BadRows
    BY ProbeRowsNamed
  <1>3. diverted = {r \in rows : r.src \in BadRows}
    BY <1>1, <1>2, WayOfRow DEF Quarantined
  <1>4. /\ {r \in rows : r.src \in {GoodRow}} = Order(clean, "dqprobe_8")
        /\ Order(diverted, "dqprobe_8") = {}
    <2>1. ASSUME NEW r \in rows
          PROVE  r.src.order_id = "dqprobe_8" <=> r.src = GoodRow
      <3>1. GoodRow \in ProbeRows /\ GoodRow.order_id = "dqprobe_8"
        BY ProbeRowsNamed
      <3>2. CASE r.src \in TypedFile(landing, ProbeTable)
        BY <3>1, <3>2, WayOfRow
      <3>3. CASE r.src \in ProbeRows
        BY <3>3, ProbeRowsNamed
      <3> QED
        BY <1>1, <3>2, <3>3
    <2>2. \A r \in rows : r.src = GoodRow => r \in clean /\ r \notin diverted
      BY <1>2, <1>3, WayOfRow DEF Clean
    <2>3. clean \subseteq rows /\ diverted \subseteq rows
      BY DEF Clean, Quarantined
    <2> HIDE DEF clean, diverted
    <2> QED
      BY <2>1, <2>2, <2>3 DEF Order
  <1>5. Cardinality(Order(clean, "dqprobe_8")) = 1 /\ IsFiniteSet(Order(clean, "dqprobe_8"))
    <2>1. IsFiniteSet({GoodRow}) /\ Cardinality({GoodRow}) = 1
      BY One
    <2> HIDE DEF clean, diverted
    <2> QED
      BY <1>2, <1>4, <2>1, RowsOfProbe
  <1>6. Cardinality(clean) = Cardinality(FileKeys) + 1
    <2> DEFINE ofFile == {r \in rows : Key(ProbeTable, r.src) \in FileKeys}
    <2>1. OneRowPerKey(ProbeTable, rows)
          /\ \A k \in FileKeys : \E r \in rows : Key(ProbeTable, r.src) = k
      BY DEF Evaluated, FileKeys
    <2>2. IsFiniteSet(FileKeys) /\ Cardinality(FileKeys) \in Nat
      BY FileKeysAreFinite
    <2>3. IsFiniteSet(ofFile) /\ Cardinality(ofFile) = Cardinality(FileKeys)
      BY <2>1, <2>2, RowsOfKeys
    <2>4. ASSUME NEW r \in rows
          PROVE  r \in clean <=> r \in ofFile \/ r \in Order(clean, "dqprobe_8")
      <3>1. CASE r.src \in TypedFile(landing, ProbeTable)
        <4>1. r \in clean
          BY <3>1, WayOfRow DEF Clean
        <4>2. r \in ofFile
          BY <3>1 DEF TypedFile, FileKeys
        <4> QED
          BY <4>1, <4>2
      <3>2. CASE r.src \in ProbeRows
        <4>1. r \notin ofFile
          BY <3>2, WayOfRow
        <4>2. r \in clean <=> r.src = GoodRow
          BY <1>2, <3>2, WayOfRow DEF Clean
        <4> QED
          BY <1>4, <4>1, <4>2
      <3> QED
        BY <1>1, <3>1, <3>2
    <2>5. ofFile \cap Order(clean, "dqprobe_8") = {}
      <3>1. \A r \in ofFile : r.src \notin ProbeRows
        BY WayOfRow
      <3> QED
        BY <1>2, <1>4, <3>1
    <2>6. clean = ofFile \cup Order(clean, "dqprobe_8")
      <3>1. clean \subseteq rows /\ ofFile \subseteq rows /\ Order(clean, "dqprobe_8") \subseteq rows
        BY DEF Clean, Order
      <3> QED
        BY <2>4, <3>1
    <2> HIDE DEF clean, ofFile
    <2>7. Cardinality(ofFile \cup Order(clean, "dqprobe_8")) =
            Cardinality(ofFile) + Cardinality(Order(clean, "dqprobe_8"))
              - Cardinality(ofFile \cap Order(clean, "dqprobe_8"))
      BY <1>5, <2>3, FS_Union
    <2>8. Cardinality(ofFile \cap Order(clean, "dqprobe_8")) = 0
      BY <2>5, FS_EmptySet
    <2>9. Cardinality(clean) = Cardinality(FileKeys) + 1 - 0
      BY <1>5, <2>3, <2>6, <2>7, <2>8
    <2> QED
      BY <2>2, <2>9
  <1>7. Cardinality(diverted) = 7
    <2> HIDE DEF diverted
    <2>1. IsFiniteSet(BadRows) /\ Cardinality(BadRows) = 7
      BY RowsOfProbeCounted
    <2> QED
      BY <1>2, <1>3, <2>1, RowsOfProbe
  <1>8. ASSUME NEW rule \in ItemRuleIds
        PROVE  /\ Cardinality({r \in rows : Fails(r, rule)}) = EXPECTED[rule]
               /\ Cardinality({q \in diverted : Fails(q, rule)}) = EXPECTED[rule]
    <2>1. /\ FailingRows[rule] \subseteq BadRows /\ IsFiniteSet(FailingRows[rule])
          /\ Cardinality(FailingRows[rule]) = EXPECTED[rule]
      BY RowsOfProbeCounted
    <2>2. \A r \in rows : Fails(r, rule) <=> r.src \in FailingRows[rule]
      BY <1>1, <1>2, <2>1, WayOfRow
    <2>3. PICK some : some = {r \in rows : r.src \in FailingRows[rule]}
      OBVIOUS
    <2>4. {r \in rows : Fails(r, rule)} = some /\ {q \in diverted : Fails(q, rule)} = some
      <3> HIDE DEF diverted
      <3> QED
        BY <1>3, <2>1, <2>2, <2>3
    <2>5. Cardinality(some) = EXPECTED[rule]
      BY <1>2, <2>1, <2>3, RowsOfProbe
    <2> QED
      BY <2>4, <2>5
  <1>9. \E q \in Order(diverted, "dqprobe_7") : Cardinality(FailedRules(ProbeTable, q)) = 2
    <2>1. BadBoth \in BadRows /\ BadBoth \in ProbeRows /\ BadBoth.order_id = "dqprobe_7"
      BY ProbeRowsNamed DEF BadRows
    <2>2. PICK q \in rows : Key(ProbeTable, q.src) = Key(ProbeTable, BadBoth)
      BY <2>1 DEF Evaluated
    <2>3. q.src \in ProbeRows
      BY <1>1, <2>1, <2>2, WayOfRow
    <2>4. q.src = BadBoth
      <3>1. \A p : Key(ProbeTable, p)["order_id"] = p.order_id
        BY DEF Key, BusinessKey, ProbeTable
      <3> QED
        BY <2>1, <2>2, <2>3, <3>1, ProbeRowsNamed
    <2>5. q \in Order(diverted, "dqprobe_7")
      BY <1>3, <2>1, <2>4 DEF Order
    <2>6. FailedRules(ProbeTable, q) = {rule \in ItemRuleIds : BadBoth \in FailingRows[rule]}
      BY <2>1, <2>3, <2>4, WayOfRow, ItemRegistry DEF FailedRules
    <2> QED
      BY <2>5, <2>6, BadBothFailsTwice
  <1>10. CountFailures(ProbeTable, rows) = [rule \in RulesFor(ProbeTable) |-> EXPECTED[rule]]
    BY <1>8, ItemRegistry DEF CountFailures
  <1> QED
    BY <1>4, <1>5, <1>6, <1>7, <1>8, <1>9, <1>10 DEF SilverProbed, QuarantineProbed

-----------------------------------------------------------------------------
(* What the probe counts, at every moment of it.                           *)
BaseCounts ==
    /\ base = [version |-> base.version, silver |-> base.silver,
               quarantine |-> base.quarantine, ok |-> TRUE]
    /\ task[Probe].phase # "idle" =>
          base.silver = Cardinality(FileKeys) /\ base.quarantine = 0

SilverCounts ==
    ProbeTable \in DOMAIN silver =>
        /\ SilverAtRest => Cardinality(silver[ProbeTable]) = Cardinality(FileKeys)
        /\ Injecting /\ task[Probe].phase \in {"quarantine", "record", "assert"} =>
              SilverProbed(silver[ProbeTable])

QuarantineCounts ==
    ProbeTable \in DOMAIN quarantine =>
        /\ QuarantineAtRest => quarantine[ProbeTable] = {}
        /\ Injecting /\ task[Probe].phase \in {"record", "assert"} =>
              QuarantineProbed(quarantine[ProbeTable])

ResultsCount ==
    /\ Injecting /\ task[Probe].phase \in {"clean", "quarantine", "record"} =>
          task[Probe].counts = [rule \in RulesFor(ProbeTable) |-> EXPECTED[rule]]
    /\ \A d \in dq_results : d.run_id = <<Probe, 1>> => d.rows_failed = EXPECTED[d.rule_id]

(* After the restore, bronze is what it was unless a run has landed rows.  *)
RestoredVersion ==
    /\ Injecting => base.version < Len(bronze[ProbeTable])
    /\ task[Probe].at # 1 =>
          /\ base.version + 1 < Len(bronze[ProbeTable])
          /\ Now(ProbeTable) = bronze[ProbeTable][base.version] \/ LandedSinceRestore

(* The probe asserts, and restores, in its first pass only.                *)
AssertsInTheFirstPass ==
    task[Probe].phase \in {"assert", "restore"} => task[Probe].at = 1

PassInv ==
    RowsAreInjected /\ BaseCounts /\ SilverCounts /\ QuarantineCounts /\ ResultsCount
      /\ RestoredVersion /\ AssertsInTheFirstPass

(* What a step leaves alone.                                               *)
LEMMA BronzeStill ==
    ASSUME RowsAreInjected, RestoredVersion, bronze'[ProbeTable] = bronze[ProbeTable],
           UNCHANGED base,
           task'[Probe].at = task[Probe].at, Injecting' => Injecting
    PROVE  RowsAreInjected' /\ RestoredVersion'
  BY DEF RowsAreInjected, RestoredVersion, LandedSinceRestore, SourceRows, Now

LEMMA BaseStill ==
    ASSUME BaseCounts, UNCHANGED <<landing, base>>,
           task'[Probe].phase # "idle" => task[Probe].phase # "idle"
    PROVE  BaseCounts'
  BY DEF BaseCounts, FileKeys

LEMMA SilverStill ==
    ASSUME SilverCounts, UNCHANGED landing,
           ProbeTable \in DOMAIN silver' =>
              ProbeTable \in DOMAIN silver /\ silver'[ProbeTable] = silver[ProbeTable],
           SilverAtRest' => SilverAtRest, Injecting' => Injecting,
           Injecting' /\ task'[Probe].phase \in {"quarantine", "record", "assert"} =>
              task[Probe].phase \in {"quarantine", "record", "assert"}
    PROVE  SilverCounts'
  BY DEF SilverCounts, SilverProbed, Order, FileKeys

LEMMA QuarantineStill ==
    ASSUME QuarantineCounts,
           ProbeTable \in DOMAIN quarantine' =>
              /\ ProbeTable \in DOMAIN quarantine
              /\ quarantine'[ProbeTable] = quarantine[ProbeTable],
           QuarantineAtRest' => QuarantineAtRest, Injecting' => Injecting,
           Injecting' /\ task'[Probe].phase \in {"record", "assert"} =>
              task[Probe].phase \in {"record", "assert"}
    PROVE  QuarantineCounts'
  BY DEF QuarantineCounts, QuarantineProbed, Order

LEMMA ResultsStill ==
    ASSUME ResultsCount, UNCHANGED dq_results, Injecting' => Injecting,
           Injecting' /\ task'[Probe].phase \in {"clean", "quarantine", "record"} =>
              /\ task[Probe].phase \in {"clean", "quarantine", "record"}
              /\ task'[Probe].counts = task[Probe].counts
    PROVE  ResultsCount'
  BY DEF ResultsCount

(* Steps of a run.                                                         *)
LEMMA ProbeAside ==
    ASSUME LandInv, NEW r \in Runs, \E new : task' = [task EXCEPT ![r] = new]
    PROVE  /\ task'[Probe] = task[Probe] /\ r # Probe
           /\ SilverAtRest' = SilverAtRest /\ QuarantineAtRest' = QuarantineAtRest
           /\ Injecting' = Injecting
  BY ProbeUnmoved, ProbeIsNoRun DEF Injecting

LEMMA RunRecordsPass ==
    ASSUME LandInv, PassInv, NEW r \in Runs,
           \/ \E mode \in Modes : Start(r, mode)
           \/ Finish(r) \/ Fail(r) \/ CountTable(r) \/ RecordDq(r)
    PROVE  PassInv'
  <1>1. UNCHANGED <<landing, bronze, silver, quarantine, base>>
        /\ \E new : task' = [task EXCEPT ![r] = new]
    BY DEF Start, Finish, Fail, CountTable, RecordDq, GoTo
  <1>2. /\ task'[Probe] = task[Probe] /\ r # Probe
        /\ SilverAtRest' = SilverAtRest /\ QuarantineAtRest' = QuarantineAtRest
        /\ Injecting' = Injecting
    BY <1>1, ProbeAside
  <1>3. RowsAreInjected' /\ RestoredVersion' /\ BaseCounts' /\ SilverCounts' /\ QuarantineCounts'
    BY <1>1, <1>2, BronzeStill, BaseStill, SilverStill, QuarantineStill DEF PassInv
  <1>4. ASSUME NEW d \in dq_results', d \notin dq_results PROVE d.run_id # <<Probe, 1>>
    <2>1. RecordDq(r)
      BY <1>4 DEF Start, Finish, Fail, CountTable
    <2>2. d.run_id = <<r, 1>>
      BY <1>2, <1>4, <2>1 DEF RecordDq
    <2> QED
      BY <1>2, <2>2
  <1>5. ResultsCount'
    BY <1>2, <1>4 DEF PassInv, ResultsCount
  <1> QED
    BY <1>2, <1>3, <1>5 DEF PassInv, AssertsInTheFirstPass

LEMMA RunWritesPass ==
    ASSUME FilesPass, LandInv, RestoreInv, PassInv, NEW r \in Runs,
           WriteClean(r) \/ WriteQuarantine(r)
    PROVE  PassInv'
  <1>1. /\ UNCHANGED <<landing, bronze, base, dq_results>>
        /\ \E new : task' = [task EXCEPT ![r] = new]
        /\ task[r].phase \in {"clean", "quarantine"} /\ r \in Writers
    BY DEF WriteClean, WriteQuarantine, Writers
  <1>2. /\ task'[Probe] = task[Probe]
        /\ SilverAtRest' = SilverAtRest /\ QuarantineAtRest' = QuarantineAtRest
        /\ Injecting' = Injecting
    BY <1>1, ProbeAside
  <1>3. RowsAreInjected' /\ RestoredVersion' /\ BaseCounts' /\ ResultsCount'
    BY <1>1, <1>2, BronzeStill, BaseStill, ResultsStill DEF PassInv
  <1>4. landing \in Uploads /\ At(r) \in TableNames /\ loaded[At(r)] # {}
    BY <1>1, EvaluatedIsLoaded DEF LandInv, Versioned
  <1>5. ASSUME At(r) = ProbeTable, NEW rows \in Deduped(ProbeTable)
        PROVE  /\ AtRest => Evaluated(rows, {})
               /\ Injecting => Evaluated(rows, ProbeRows)
    BY <1>4, <1>5, EvaluatedRows DEF PassInv
  <1>6. (SilverAtRest => AtRest) /\ (QuarantineAtRest => AtRest)
    BY DEF SilverAtRest, QuarantineAtRest, AtRest
  <1>7. FileKeys' = FileKeys
    BY <1>1 DEF FileKeys
  <1>8. CASE WriteClean(r)
    <2>1. PICK rows \in Deduped(At(r)) : silver' = Overwritten(silver, At(r), Clean(At(r), rows))
      BY <1>8 DEF WriteClean
    <2>2. UNCHANGED quarantine
      BY <1>8 DEF WriteClean
    <2>3. QuarantineCounts'
      BY <1>2, <2>2, QuarantineStill DEF PassInv
    <2>4. SilverCounts'
      <3>1. CASE At(r) # ProbeTable
        <4>1. ProbeTable \in DOMAIN silver' =>
                ProbeTable \in DOMAIN silver /\ silver'[ProbeTable] = silver[ProbeTable]
          BY <2>1, <3>1 DEF Overwritten
        <4> QED
          BY <1>1, <1>2, <4>1, SilverStill DEF PassInv
      <3>2. CASE At(r) = ProbeTable
        <4>1. silver'[ProbeTable] = Clean(ProbeTable, rows)
          BY <2>1, <3>2 DEF Overwritten
        <4>2. SilverAtRest => Cardinality(Clean(ProbeTable, rows)) = Cardinality(FileKeys)
          BY <1>4, <1>5, <1>6, <2>1, <3>2, PlainTables
        <4>3. Injecting => SilverProbed(Clean(ProbeTable, rows))
          BY <1>4, <1>5, <2>1, <3>2, ProbedTables
        <4> QED
          BY <1>2, <1>7, <4>1, <4>2, <4>3 DEF SilverCounts, SilverProbed, Order
      <3> QED
        BY <3>1, <3>2
    <2> QED
      BY <1>2, <1>3, <1>8, <2>3, <2>4 DEF PassInv, AssertsInTheFirstPass
  <1>9. CASE WriteQuarantine(r)
    <2>1. PICK rows \in Deduped(At(r)) :
            quarantine' = Overwritten(quarantine, At(r), Quarantined(At(r), rows))
      BY <1>9 DEF WriteQuarantine
    <2>2. UNCHANGED silver
      BY <1>9 DEF WriteQuarantine
    <2>3. SilverCounts'
      BY <1>1, <1>2, <2>2, SilverStill DEF PassInv
    <2>4. QuarantineCounts'
      <3>1. CASE At(r) # ProbeTable
        <4>1. ProbeTable \in DOMAIN quarantine' =>
                /\ ProbeTable \in DOMAIN quarantine
                /\ quarantine'[ProbeTable] = quarantine[ProbeTable]
          BY <2>1, <3>1 DEF Overwritten
        <4> QED
          BY <1>2, <4>1, QuarantineStill DEF PassInv
      <3>2. CASE At(r) = ProbeTable
        <4>1. quarantine'[ProbeTable] = Quarantined(ProbeTable, rows)
          BY <2>1, <3>2 DEF Overwritten
        <4>2. QuarantineAtRest => Quarantined(ProbeTable, rows) = {}
          BY <1>4, <1>5, <1>6, <2>1, <3>2, PlainTables
        <4>3. Injecting => QuarantineProbed(Quarantined(ProbeTable, rows))
          BY <1>4, <1>5, <2>1, <3>2, ProbedTables
        <4> QED
          BY <1>2, <4>1, <4>2, <4>3 DEF QuarantineCounts, QuarantineProbed, Order
      <3> QED
        BY <3>1, <3>2
    <2> QED
      BY <1>2, <1>3, <1>9, <2>3, <2>4 DEF PassInv, AssertsInTheFirstPass
  <1> QED
    BY <1>8, <1>9

LEMMA NewVersion ==
    ASSUME LandInv, NEW t \in TableNames, NEW rows \in SUBSET BronzeRow,
           bronze' = [bronze EXCEPT ![t] = Append(@, rows)], UNCHANGED landing
    PROVE  /\ \A u \in TableNames : u # t => bronze'[u] = bronze[u]
           /\ Len(bronze'[t]) = Len(bronze[t]) + 1 /\ Len(bronze[t]) \in Nat
           /\ DOMAIN bronze[t] = 1 .. Len(bronze[t])
           /\ \A i \in DOMAIN bronze[t] : bronze'[t][i] = bronze[t][i]
           /\ Now(t)' = rows
  <1>1. /\ \A u \in TableNames : u # t => bronze'[u] = bronze[u]
        /\ DOMAIN bronze'[t] = 1 .. Len(bronze[t]) + 1
        /\ DOMAIN bronze[t] = 1 .. Len(bronze[t]) /\ Len(bronze[t]) \in Nat
        /\ \A i \in DOMAIN bronze[t] : bronze'[t][i] = bronze[t][i]
        /\ bronze'[t][Len(bronze[t]) + 1] = rows
        /\ Versioned'
    BY Commit DEF LandInv
  <1>2. Len(bronze'[t]) = Len(bronze[t]) + 1
    <2>1. bronze'[t] \in Seq(SUBSET BronzeRow)
      BY <1>1 DEF Versioned
    <2> QED
      BY <1>1, <2>1
  <1> QED
    BY <1>1, <1>2 DEF Now

LEMMA IngestPasses ==
    ASSUME LandInv, RestoreInv, PassInv, NEW r \in Runs, IngestTable(r)
    PROVE  PassInv'
  <1>1. /\ r \in Writers /\ task[r].phase = "ingest" /\ task[r].at \in DOMAIN Tables
    BY DEF IngestTable, LandInv, Standing, Located, Writers, OnTables
  <1>2. PICK t \in TableNames : t = Tables[task[r].at]
    BY <1>1 DEF TableNames
  <1>3. UNCHANGED <<landing, silver, quarantine, dq_results, base>>
        /\ \E new : task' = [task EXCEPT ![r] = new]
    BY DEF IngestTable
  <1>4. /\ task'[Probe] = task[Probe]
        /\ SilverAtRest' = SilverAtRest /\ QuarantineAtRest' = QuarantineAtRest
        /\ Injecting' = Injecting
    BY <1>3, ProbeAside
  <1>5. BaseCounts' /\ SilverCounts' /\ QuarantineCounts' /\ ResultsCount'
    BY <1>3, <1>4, BaseStill, SilverStill, QuarantineStill, ResultsStill DEF PassInv
  <1>6. RowsAreInjected' /\ RestoredVersion'
    <2>1. CASE task[Probe].phase = "idle"
      BY <1>4, <2>1 DEF RowsAreInjected, RestoredVersion, Injecting, RestoreInv, WritersReached
    <2>2. CASE UNCHANGED bronze
      BY <1>3, <1>4, <2>2, BronzeStill DEF PassInv
    <2>3. CASE task[Probe].phase # "idle" /\ ~Consumed(t, task[r].mode)
      <3> DEFINE rows == Now(t) \cup Landed(t)
      <3>1. bronze' = [bronze EXCEPT ![t] = Append(@, rows)]
        BY <1>2, <2>3 DEF IngestTable
      <3>2. PICK time \in Nat : time = Len(bronze[t])
        BY CurrentVersion DEF LandInv
      <3>3. Now(t) \in SUBSET BronzeRow /\ landing[t] \subseteq SourceRow
        BY CurrentVersion, LandedRowsAreSource DEF LandInv, Versioned
      <3>4. Landed(t) \subseteq BronzeRow /\ \A x \in Landed(t) : x.ingest_ts = time
        BY <3>2, <3>3 DEF Landed, BronzeRow
      <3>5. rows \in SUBSET BronzeRow
        BY <3>3, <3>4
      <3>6. PICK new : new = rows
        OBVIOUS
      <3>7. /\ \A u \in TableNames : u # t => bronze'[u] = bronze[u]
            /\ Len(bronze'[t]) = time + 1
            /\ \A i \in DOMAIN bronze[t] : bronze'[t][i] = bronze[t][i]
            /\ Now(t)' = new
        BY <1>3, <3>1, <3>2, <3>5, <3>6, NewVersion
      <3>8. ProbeTable \in TableNames /\ base.version \in DOMAIN bronze[ProbeTable]
        BY <2>3, ProbeStands
      <3>9. CASE t # ProbeTable
        BY <1>3, <1>4, <3>7, <3>8, <3>9, BronzeStill DEF PassInv
      <3>10. CASE t = ProbeTable
        <4>1. base.version \in Nat
          <5>1. DOMAIN bronze[t] = 1 .. Len(bronze[t])
            BY <1>3, <3>1, <3>5, NewVersion
          <5> QED
            BY <3>8, <3>10, <5>1
        <4>2. bronze'[ProbeTable][base'.version] = bronze[ProbeTable][base.version]
          BY <1>3, <3>7, <3>8, <3>10
        <4>3. RowsAreInjected'
          BY <1>4, <3>6, <3>7, <3>10 DEF PassInv, RowsAreInjected, SourceRows
        <4>4. ASSUME task[Probe].at # 1
              PROVE  Now(ProbeTable)' = bronze'[ProbeTable][base'.version] \/ LandedSinceRestore'
          <5>1. base.version + 1 < time
            BY <3>2, <3>10, <4>4 DEF PassInv, RestoredVersion
          <5>2. CASE Landed(t) # {}
            <6>1. PICK x \in Landed(t) : TRUE
              BY <5>2
            <6>2. x \in Now(ProbeTable)' /\ x.ingest_ts > base'.version + 1
              BY <1>3, <3>4, <3>6, <3>7, <3>10, <4>1, <5>1, <6>1
            <6> QED
              BY <6>2 DEF LandedSinceRestore
          <5>3. CASE Landed(t) = {}
            <6>1. Now(ProbeTable)' = Now(ProbeTable)
              BY <3>6, <3>7, <3>10, <5>3
            <6> QED
              BY <1>3, <4>2, <4>4, <6>1 DEF PassInv, RestoredVersion, LandedSinceRestore
          <5> QED
            BY <5>2, <5>3
        <4>5. RestoredVersion'
          <5>1. base'.version = base.version /\ Len(bronze'[ProbeTable]) = Len(bronze[ProbeTable]) + 1
                /\ Len(bronze[ProbeTable]) \in Nat
            BY <1>3, <3>2, <3>7, <3>10
          <5> QED
            BY <1>4, <4>1, <4>4, <5>1 DEF PassInv, RestoredVersion
        <4> QED
          BY <4>3, <4>5
      <3> QED
        BY <3>9, <3>10
    <2>4. UNCHANGED bronze \/ ~Consumed(t, task[r].mode)
      BY <1>2 DEF IngestTable
    <2> QED
      BY <2>1, <2>2, <2>3, <2>4
  <1> QED
    BY <1>4, <1>5, <1>6 DEF PassInv, AssertsInTheFirstPass

(* Steps of the probe.  Where each takes it.                               *)
LEMMA ProbeMoves ==
    ASSUME LandInv, NEW new, DOMAIN new = TaskFields, task' = [task EXCEPT ![Probe] = new]
    PROVE  task'[Probe] = new
  BY DEF LandInv, Standing, Located, Writers

LEMMA ProbeGoes ==
    ASSUME LandInv, NEW phase, GoTo(Probe, phase)
    PROVE  /\ task'[Probe].phase = phase /\ task'[Probe].at = task[Probe].at
           /\ task'[Probe].counts = task[Probe].counts
  <1> DEFINE new == [task[Probe] EXCEPT !.phase = phase]
  <1>1. DOMAIN task = Writers /\ Probe \in Writers /\ DOMAIN task[Probe] = TaskFields
    BY DEF LandInv, Standing, Located, Writers
  <1>2. /\ task' = [task EXCEPT ![Probe] = new]
        /\ new.phase = phase /\ new.at = task[Probe].at /\ new.counts = task[Probe].counts
    BY <1>1 DEF GoTo, TaskFields
  <1> HIDE DEF new
  <1> QED
    BY <1>1, <1>2

LEMMA BaselinePasses ==
    ASSUME FilesPass, LandInv, RestoreInv, PassInv, Baseline
    PROVE  PassInv'
  <1>1. /\ UNCHANGED <<landing, bronze, silver, quarantine, dq_results>>
        /\ task[Probe].phase = "idle" /\ task[Probe].at = 1 /\ ProbeTable \in DOMAIN quarantine
        /\ base' = [version |-> Len(bronze[ProbeTable]),
                    silver |-> Cardinality(silver[ProbeTable]),
                    quarantine |-> Cardinality(quarantine[ProbeTable]), ok |-> TRUE]
    BY DEF Baseline, RestoreInv, WritersReached
  <1>2. task'[Probe].phase = "inject" /\ task'[Probe].at = 1
    BY <1>1, ProbeGoes DEF Baseline
  <1>3. ~Injecting /\ ~Injecting' /\ SilverAtRest /\ QuarantineAtRest
    BY <1>1, <1>2 DEF Injecting, SilverAtRest, QuarantineAtRest
  <1>4. ProbeTable \in DOMAIN silver
    BY <1>1 DEF RestoreInv, TablesHold, KeysRouted
  <1>5. /\ Cardinality(silver[ProbeTable]) = Cardinality(FileKeys)
        /\ Cardinality(quarantine[ProbeTable]) = 0
    <2>1. quarantine[ProbeTable] = {}
      BY <1>1, <1>3 DEF PassInv, QuarantineCounts
    <2>2. Cardinality(quarantine[ProbeTable]) = 0
      BY <2>1, FS_EmptySet
    <2> QED
      BY <1>3, <1>4, <2>2 DEF PassInv, SilverCounts
  <1>6. BaseCounts'
    BY <1>1, <1>5 DEF BaseCounts, FileKeys
  <1>7. RowsAreInjected' /\ RestoredVersion'
    BY <1>2, <1>3 DEF RowsAreInjected, RestoredVersion
  <1>8. SilverCounts' /\ QuarantineCounts' /\ ResultsCount'
    BY <1>1, <1>3, SilverStill, QuarantineStill, ResultsStill DEF PassInv
  <1> QED
    BY <1>2, <1>6, <1>7, <1>8 DEF PassInv, AssertsInTheFirstPass

LEMMA InjectPasses ==
    ASSUME LandInv, RestoreInv, PassInv, Inject
    PROVE  PassInv'
  <1>1. /\ UNCHANGED <<landing, silver, quarantine, dq_results, base>>
        /\ task[Probe].phase = "inject" /\ task[Probe].at = 1
    BY DEF Inject, RestoreInv, WritersReached
  <1>2. task'[Probe].phase = "count" /\ task'[Probe].at = 1
    BY <1>1, ProbeGoes DEF Inject
  <1>3. ~SilverAtRest' /\ ~QuarantineAtRest'
    BY <1>2 DEF SilverAtRest, QuarantineAtRest
  <1>4. BaseCounts' /\ SilverCounts' /\ QuarantineCounts' /\ ResultsCount'
    <2>1. BaseCounts'
      BY <1>1, BaseStill DEF PassInv
    <2>2. SilverCounts' /\ QuarantineCounts'
      BY <1>2, <1>3 DEF SilverCounts, QuarantineCounts
    <2>3. ResultsCount'
      BY <1>1, <1>2 DEF PassInv, ResultsCount
    <2> QED
      BY <2>1, <2>2, <2>3
  <1>5. PICK t \in TableNames : t = ProbeTable
    BY <1>1, ProbeStands
  <1>6. base.version \in DOMAIN bronze[t]
    BY <1>1, <1>5, ProbeStands
  <1> DEFINE rows == Now(t) \cup Injected
  <1>7. bronze' = [bronze EXCEPT ![t] = Append(@, rows)]
    BY <1>5 DEF Inject
  <1>8. PICK time \in Nat : time = Len(bronze[t])
    BY CurrentVersion DEF LandInv
  <1>9. Injected = {[src |-> p, ingest_ts |-> time] : p \in ProbeRows}
    BY <1>5, <1>8 DEF Injected
  <1>10. Injected \subseteq BronzeRow /\ ProbeRows \subseteq SourceRows(Injected)
    <2>1. ProbeRows \subseteq SourceRow
      BY DEF SourceRow
    <2> HIDE DEF Injected
    <2>2. Injected \subseteq BronzeRow
      BY <1>9, <2>1 DEF BronzeRow
    <2>3. \A p \in ProbeRows : \E x \in Injected : x.src = p
      <3>1. \A p \in ProbeRows : [src |-> p, ingest_ts |-> time] \in Injected
        BY <1>9
      <3>2. \A p : [src |-> p, ingest_ts |-> time].src = p
        OBVIOUS
      <3> QED
        BY <3>1, <3>2
    <2> QED
      BY <2>2, <2>3 DEF SourceRows
  <1>11. rows \in SUBSET BronzeRow
    BY <1>10, CurrentVersion DEF LandInv
  <1>12. PICK new : new = rows
    OBVIOUS
  <1>13. /\ Len(bronze'[t]) = time + 1 /\ DOMAIN bronze[t] = 1 .. time
         /\ Now(t)' = new
    BY <1>1, <1>7, <1>8, <1>11, <1>12, NewVersion
  <1>14. RowsAreInjected'
    BY <1>5, <1>10, <1>12, <1>13 DEF RowsAreInjected, SourceRows
  <1>15. base'.version < Len(bronze'[ProbeTable])
    BY <1>1, <1>5, <1>6, <1>8, <1>13
  <1>16. RestoredVersion'
    BY <1>2, <1>15 DEF RestoredVersion
  <1> QED
    BY <1>2, <1>4, <1>14, <1>16 DEF PassInv, AssertsInTheFirstPass

LEMMA ProbeCountPasses ==
    ASSUME FilesPass, LandInv, RestoreInv, PassInv, CountTable(Probe)
    PROVE  PassInv'
  <1>1. /\ UNCHANGED <<landing, bronze, silver, quarantine, dq_results, base>>
        /\ task[Probe].phase = "count"
    BY DEF CountTable
  <1>2. /\ At(Probe) = ProbeTable /\ ProbeTable \in TableNames /\ loaded[ProbeTable] # {}
        /\ DOMAIN task = Writers /\ Probe \in Writers /\ DOMAIN task[Probe] = TaskFields
    BY <1>1, ProbeStands
  <1>3. PICK rows \in Deduped(ProbeTable) :
          task' = [task EXCEPT ![Probe].phase = "clean",
                               ![Probe].counts = CountFailures(ProbeTable, rows)]
    BY <1>2 DEF CountTable
  <1>4. PICK counts : counts = CountFailures(ProbeTable, rows)
    OBVIOUS
  <1> DEFINE new == [task[Probe] EXCEPT !.phase = "clean", !.counts = counts]
  <1>5. /\ new.phase = "clean" /\ new.at = task[Probe].at /\ new.counts = counts
        /\ task' = [task EXCEPT ![Probe] = new]
    BY <1>2, <1>3, <1>4 DEF TaskFields
  <1> HIDE DEF new
  <1>6. task'[Probe].phase = "clean" /\ task'[Probe].at = task[Probe].at
        /\ task'[Probe].counts = counts
    BY <1>2, <1>5
  <1>7. ~SilverAtRest' /\ ~QuarantineAtRest' /\ (Injecting' => Injecting)
    BY <1>1, <1>6 DEF SilverAtRest, QuarantineAtRest, Injecting
  <1>8. RowsAreInjected' /\ RestoredVersion' /\ BaseCounts'
    BY <1>1, <1>6, <1>7, BronzeStill, BaseStill DEF PassInv
  <1>9. SilverCounts' /\ QuarantineCounts'
    BY <1>6, <1>7 DEF SilverCounts, QuarantineCounts
  <1>10. Injecting => counts = [rule \in RulesFor(ProbeTable) |-> EXPECTED[rule]]
    <2>1. Injecting => Evaluated(rows, ProbeRows)
      BY <1>2, EvaluatedRows DEF PassInv
    <2>2. landing \in Uploads
      BY DEF LandInv, Versioned
    <2> QED
      BY <1>2, <1>4, <2>1, <2>2, ProbedTables
  <1>11. ResultsCount'
    BY <1>1, <1>6, <1>7, <1>10 DEF PassInv, ResultsCount
  <1> QED
    BY <1>6, <1>8, <1>9, <1>11 DEF PassInv, AssertsInTheFirstPass

LEMMA ProbeWritesPass ==
    ASSUME FilesPass, LandInv, RestoreInv, PassInv,
           WriteClean(Probe) \/ WriteQuarantine(Probe)
    PROVE  PassInv'
  <1>1. /\ UNCHANGED <<landing, bronze, dq_results, base>>
        /\ task[Probe].phase \in {"clean", "quarantine"}
    BY DEF WriteClean, WriteQuarantine
  <1>2. /\ At(Probe) = ProbeTable /\ ProbeTable \in TableNames /\ loaded[ProbeTable] # {}
        /\ DOMAIN task = Writers /\ Probe \in Writers /\ DOMAIN task[Probe] = TaskFields
        /\ landing \in Uploads
    BY <1>1, ProbeStands DEF LandInv, Versioned
  <1>3. /\ task'[Probe].at = task[Probe].at /\ task'[Probe].counts = task[Probe].counts
        /\ WriteClean(Probe) => task'[Probe].phase = "quarantine" /\ task[Probe].phase = "clean"
        /\ WriteQuarantine(Probe) =>
              task'[Probe].phase = "record" /\ task[Probe].phase = "quarantine"
    <2>1. CASE WriteClean(Probe)
      <3> DEFINE new == [task[Probe] EXCEPT !.phase = "quarantine"]
      <3>1. /\ new.phase = "quarantine" /\ new.at = task[Probe].at
            /\ new.counts = task[Probe].counts /\ task' = [task EXCEPT ![Probe] = new]
        BY <1>2, <2>1, ProbeTableHasRules DEF WriteClean, TaskFields
      <3> HIDE DEF new
      <3> QED
        BY <1>2, <2>1, <3>1 DEF WriteClean, WriteQuarantine
    <2>2. CASE WriteQuarantine(Probe)
      <3> DEFINE new == [task[Probe] EXCEPT !.phase = "record",
                                            !.n_clean = Cardinality(silver[At(Probe)])]
      <3>1. /\ new.phase = "record" /\ new.at = task[Probe].at
            /\ new.counts = task[Probe].counts /\ task' = [task EXCEPT ![Probe] = new]
        BY <1>2, <2>2 DEF WriteQuarantine, TaskFields
      <3> HIDE DEF new
      <3> QED
        BY <1>2, <2>2, <3>1 DEF WriteClean, WriteQuarantine
    <2> QED
      BY <2>1, <2>2
  <1>4. Injecting' = Injecting /\ (AtRest <=> task[Probe].at # 1)
    BY <1>1, <1>3 DEF Injecting, AtRest
  <1>5. RowsAreInjected' /\ RestoredVersion' /\ BaseCounts' /\ ResultsCount'
    BY <1>1, <1>3, <1>4, BronzeStill, BaseStill, ResultsStill DEF PassInv
  <1>6. ASSUME NEW rows \in Deduped(ProbeTable)
        PROVE  /\ AtRest => Evaluated(rows, {})
               /\ Injecting => Evaluated(rows, ProbeRows)
    BY <1>2, EvaluatedRows DEF PassInv
  <1>7. FileKeys' = FileKeys
    BY <1>1 DEF FileKeys
  <1>8. CASE WriteClean(Probe)
    <2>1. PICK rows \in Deduped(ProbeTable) :
            silver' = Overwritten(silver, ProbeTable, Clean(ProbeTable, rows))
      BY <1>2, <1>8 DEF WriteClean
    <2>2. UNCHANGED quarantine /\ ~QuarantineAtRest' /\ task'[Probe].phase = "quarantine"
      BY <1>3, <1>8 DEF WriteClean, QuarantineAtRest
    <2>3. QuarantineCounts'
      BY <2>2 DEF QuarantineCounts
    <2>4. silver'[ProbeTable] = Clean(ProbeTable, rows)
      BY <2>1 DEF Overwritten
    <2>5. SilverAtRest' => Cardinality(Clean(ProbeTable, rows)) = Cardinality(FileKeys)
      <3>1. SilverAtRest' => AtRest
        BY <1>3, <1>4, <2>2 DEF SilverAtRest
      <3> QED
        BY <1>2, <1>6, <3>1, PlainTables
    <2>6. Injecting => SilverProbed(Clean(ProbeTable, rows))
      BY <1>2, <1>6, ProbedTables
    <2>7. SilverCounts'
      BY <1>4, <1>7, <2>4, <2>5, <2>6 DEF SilverCounts, SilverProbed, Order
    <2> QED
      BY <1>3, <1>5, <1>8, <2>3, <2>7 DEF PassInv, AssertsInTheFirstPass
  <1>9. CASE WriteQuarantine(Probe)
    <2>1. PICK rows \in Deduped(ProbeTable) :
            quarantine' = Overwritten(quarantine, ProbeTable, Quarantined(ProbeTable, rows))
      BY <1>2, <1>9 DEF WriteQuarantine
    <2>2. UNCHANGED silver /\ task'[Probe].phase = "record" /\ task[Probe].phase = "quarantine"
      BY <1>3, <1>9 DEF WriteQuarantine
    <2>3. SilverAtRest' => SilverAtRest
      BY <1>3, <2>2 DEF SilverAtRest
    <2>4. SilverCounts'
      BY <1>1, <1>4, <2>2, <2>3, SilverStill DEF PassInv
    <2>5. quarantine'[ProbeTable] = Quarantined(ProbeTable, rows)
      BY <2>1 DEF Overwritten
    <2>6. QuarantineAtRest' => Quarantined(ProbeTable, rows) = {}
      <3>1. QuarantineAtRest' => AtRest
        BY <1>3, <1>4, <2>2 DEF QuarantineAtRest
      <3> QED
        BY <1>2, <1>6, <3>1, PlainTables
    <2>7. Injecting => QuarantineProbed(Quarantined(ProbeTable, rows))
      BY <1>2, <1>6, ProbedTables
    <2>8. QuarantineCounts'
      BY <1>4, <2>5, <2>6, <2>7 DEF QuarantineCounts, QuarantineProbed, Order
    <2> QED
      BY <1>3, <1>5, <1>9, <2>4, <2>8 DEF PassInv, AssertsInTheFirstPass
  <1> QED
    BY <1>8, <1>9

LEMMA ProbeRecordPasses ==
    ASSUME LandInv, RestoreInv, PassInv, RecordDq(Probe)
    PROVE  PassInv'
  <1>1. /\ UNCHANGED <<landing, bronze, silver, quarantine, base>>
        /\ task[Probe].phase = "record"
    BY DEF RecordDq
  <1>2. /\ At(Probe) = ProbeTable
        /\ DOMAIN task = Writers /\ Probe \in Writers /\ DOMAIN task[Probe] = TaskFields
    BY <1>1, ProbeStands
  <1> DEFINE new == AfterTable(Probe)
  <1>3. /\ new.at = task[Probe].at /\ task' = [task EXCEPT ![Probe] = new]
        /\ new.phase = IF task[Probe].at = 1 THEN "assert" ELSE "verdict"
    BY <1>2 DEF RecordDq, AfterTable, TaskFields
  <1> HIDE DEF new
  <1>4. /\ task'[Probe].at = task[Probe].at
        /\ task'[Probe].phase = IF task[Probe].at = 1 THEN "assert" ELSE "verdict"
    BY <1>2, <1>3
  <1>5. /\ SilverAtRest' => SilverAtRest
        /\ QuarantineAtRest' => QuarantineAtRest
        /\ Injecting' => Injecting
    BY <1>1, <1>4 DEF SilverAtRest, QuarantineAtRest, Injecting
  <1>6. /\ RowsAreInjected' /\ RestoredVersion' /\ BaseCounts'
        /\ SilverCounts' /\ QuarantineCounts'
    BY <1>1, <1>4, <1>5, BronzeStill, BaseStill, SilverStill, QuarantineStill DEF PassInv
  <1>7. ASSUME NEW d \in dq_results', d \notin dq_results, d.run_id = <<Probe, 1>>
        PROVE  d.rows_failed = EXPECTED[d.rule_id]
    <2>1. PICK rule \in RulesFor(ProbeTable) :
            /\ d.run_id = <<Probe, task[Probe].at>> /\ d.rule_id = rule
            /\ d.rows_failed = task[Probe].counts[rule]
      BY <1>2, <1>7 DEF RecordDq
    <2>2. task[Probe].at = 1
      BY <1>7, <2>1
    <2>3. Injecting
      BY <1>1, <2>2 DEF Injecting
    <2>4. task[Probe].counts = [x \in RulesFor(ProbeTable) |-> EXPECTED[x]]
      BY <1>1, <2>3 DEF PassInv, ResultsCount
    <2> QED
      BY <2>1, <2>4
  <1>8. ResultsCount'
    <2>1. task'[Probe].phase \notin {"clean", "quarantine", "record"}
      BY <1>4
    <2> QED
      BY <1>7, <2>1 DEF PassInv, ResultsCount
  <1> QED
    BY <1>4, <1>6, <1>8 DEF PassInv, AssertsInTheFirstPass

(* The assertions hold when they are evaluated.                            *)
LEMMA RoutedAsExpected ==
    ASSUME LandInv, RestoreInv, PassInv, AssertRouting
    PROVE  RoutingIsAsExpected
  <1>1. task[Probe].phase = "assert"
    BY DEF AssertRouting
  <1>2. Injecting /\ ProbeTable \in DOMAIN silver /\ ProbeTable \in DOMAIN quarantine
    <2>1. task[Probe].at = 1
      BY <1>1 DEF PassInv, AssertsInTheFirstPass
    <2> QED
      BY <1>1, <2>1, ProbeStands DEF Injecting
  <1>3. SilverProbed(silver[ProbeTable]) /\ QuarantineProbed(quarantine[ProbeTable])
    BY <1>1, <1>2 DEF PassInv, SilverCounts, QuarantineCounts
  <1>4. base.silver = Cardinality(FileKeys)
    BY <1>1 DEF PassInv, BaseCounts
  <1>5. DOMAIN EXPECTED = ItemRuleIds
    BY ItemRegistry
  <1>6. \A d \in dq_results : d.run_id = <<Probe, 1>> => d.rows_failed = EXPECTED[d.rule_id]
    BY DEF PassInv, ResultsCount
  <1> QED
    BY <1>3, <1>4, <1>5, <1>6
       DEF RoutingIsAsExpected, SilverProbed, QuarantineProbed, EXPECT_QUARANTINED,
           EXPECT_CLEAN_DELTA

LEMMA AssertPasses ==
    ASSUME LandInv, RestoreInv, PassInv, AssertRouting
    PROVE  PassInv'
  <1>1. /\ UNCHANGED <<landing, bronze, silver, quarantine, dq_results>>
        /\ task[Probe].phase = "assert" /\ base' = [base EXCEPT !.ok = RoutingIsAsExpected]
    BY DEF AssertRouting
  <1>2. task'[Probe].phase = "restore" /\ task'[Probe].at = task[Probe].at
    BY ProbeGoes DEF AssertRouting
  <1>3. base' = base
    <2>1. base = [version |-> base.version, silver |-> base.silver,
                  quarantine |-> base.quarantine, ok |-> TRUE]
      BY DEF PassInv, BaseCounts
    <2>2. RoutingIsAsExpected <=> TRUE
      BY RoutedAsExpected
    <2>3. base' = [base EXCEPT !.ok = TRUE]
      BY <1>1, <2>2
    <2> QED
      BY <2>1, <2>3
  <1>4. ~SilverAtRest' /\ ~QuarantineAtRest' /\ (Injecting' => Injecting)
    BY <1>1, <1>2 DEF SilverAtRest, QuarantineAtRest, Injecting
  <1>5. RowsAreInjected' /\ RestoredVersion' /\ BaseCounts'
    BY <1>1, <1>2, <1>3, <1>4, BronzeStill, BaseStill DEF PassInv
  <1>6. SilverCounts' /\ QuarantineCounts' /\ ResultsCount'
    BY <1>1, <1>2, <1>4 DEF PassInv, SilverCounts, QuarantineCounts, ResultsCount
  <1> QED
    BY <1>1, <1>2, <1>5, <1>6 DEF PassInv, AssertsInTheFirstPass

LEMMA RestorePasses ==
    ASSUME LandInv, RestoreInv, PassInv, RestoreBronze
    PROVE  PassInv'
  <1>1. /\ UNCHANGED <<landing, silver, quarantine, dq_results, base>>
        /\ task[Probe].phase = "restore"
    BY DEF RestoreBronze
  <1>2. /\ DOMAIN task = Writers /\ Probe \in Writers /\ DOMAIN task[Probe] = TaskFields
        /\ base.version \in DOMAIN bronze[ProbeTable]
    BY <1>1, ProbeStands
  <1> DEFINE new == [task[Probe] EXCEPT !.phase = "count", !.at = 2]
  <1>3. new.phase = "count" /\ new.at = 2 /\ task' = [task EXCEPT ![Probe] = new]
    BY <1>2 DEF RestoreBronze, TaskFields
  <1> HIDE DEF new
  <1>4. task'[Probe].phase = "count" /\ task'[Probe].at = 2
    BY <1>2, <1>3
  <1>5. ~SilverAtRest' /\ ~QuarantineAtRest' /\ ~Injecting'
    BY <1>4 DEF SilverAtRest, QuarantineAtRest, Injecting
  <1>6. BaseCounts'
    BY <1>1, BaseStill DEF PassInv
  <1>7. RowsAreInjected' /\ SilverCounts' /\ QuarantineCounts' /\ ResultsCount'
    BY <1>1, <1>4, <1>5
       DEF RowsAreInjected, PassInv, SilverCounts, QuarantineCounts, ResultsCount
  <1>8. PICK t \in TableNames : t = ProbeTable
    BY <1>1, ProbeStands
  <1>9. PICK rows : rows = bronze[t][base.version]
    OBVIOUS
  <1>10. bronze' = [bronze EXCEPT ![t] = Append(@, rows)]
    BY <1>8, <1>9 DEF RestoreBronze, BaseVersion
  <1>11. rows \in SUBSET BronzeRow
    BY <1>2, <1>8, <1>9, CurrentVersion DEF LandInv
  <1>12. /\ Len(bronze'[t]) = Len(bronze[t]) + 1 /\ Len(bronze[t]) \in Nat
         /\ DOMAIN bronze[t] = 1 .. Len(bronze[t])
         /\ \A i \in DOMAIN bronze[t] : bronze'[t][i] = bronze[t][i]
         /\ Now(t)' = rows
    BY <1>1, <1>10, <1>11, NewVersion
  <1>13. base.version < Len(bronze[t])
    BY <1>1, <1>8 DEF PassInv, RestoredVersion, Injecting, AssertsInTheFirstPass
  <1>14. base'.version + 1 < Len(bronze'[ProbeTable])
    BY <1>1, <1>2, <1>8, <1>12, <1>13
  <1>15. Now(ProbeTable)' = bronze'[ProbeTable][base'.version]
    BY <1>1, <1>2, <1>8, <1>9, <1>12
  <1>16. RestoredVersion'
    BY <1>5, <1>14, <1>15 DEF RestoredVersion
  <1> QED
    BY <1>4, <1>6, <1>7, <1>16 DEF PassInv, AssertsInTheFirstPass

LEMMA ProbeEndsPass ==
    ASSUME LandInv, RestoreInv, PassInv, Verdict \/ Fail(Probe)
    PROVE  PassInv'
  <1>1. UNCHANGED <<landing, bronze, silver, quarantine, dq_results, base>>
        /\ task[Probe].phase # "idle"
    BY DEF Verdict, Fail, Active
  <1>2. PICK phase \in {"succeeded", "failed"} :
          GoTo(Probe, phase) /\ (phase = "succeeded" => task[Probe].phase = "verdict")
    BY DEF Verdict, Fail
  <1>3. task'[Probe].phase = phase /\ task'[Probe].at = task[Probe].at
    BY <1>2, ProbeGoes
  <1>4. /\ SilverAtRest' => SilverAtRest
        /\ QuarantineAtRest' => QuarantineAtRest
        /\ ~Injecting'
    BY <1>2, <1>3 DEF SilverAtRest, QuarantineAtRest, Injecting
  <1>5. RowsAreInjected' /\ RestoredVersion' /\ BaseCounts' /\ SilverCounts' /\ QuarantineCounts'
    BY <1>1, <1>3, <1>4, BronzeStill, BaseStill, SilverStill, QuarantineStill DEF PassInv
  <1>6. ResultsCount'
    BY <1>1, <1>4, ResultsStill DEF PassInv
  <1> QED
    BY <1>3, <1>5, <1>6 DEF PassInv, AssertsInTheFirstPass

LEMMA InitPasses == Init => PassInv
  <1> SUFFICES ASSUME Init PROVE PassInv
    OBVIOUS
  <1>1. /\ task[Probe] = Idle /\ silver = <<>> /\ quarantine = <<>> /\ dq_results = {}
        /\ base = [version |-> 0, silver |-> 0, quarantine |-> 0, ok |-> TRUE]
    BY DEF Init, Writers
  <1>2. task[Probe].phase = "idle" /\ task[Probe].at = 1
    BY <1>1 DEF Idle
  <1> QED
    BY <1>1, <1>2
       DEF PassInv, RowsAreInjected, BaseCounts, SilverCounts, QuarantineCounts, ResultsCount,
           RestoredVersion, Injecting, AssertsInTheFirstPass

LEMMA NextPasses ==
    ASSUME FilesPass, LandInv, RestoreInv, PassInv, [Next]_vars
    PROVE  PassInv'
  <1>1. ASSUME NEW r \in Runs,
               \/ \E mode \in Modes : Start(r, mode)
               \/ IngestTable(r) \/ CleanStep(r) \/ Finish(r) \/ Fail(r)
        PROVE  PassInv'
    BY <1>1, RunRecordsPass, IngestPasses, RunWritesPass DEF CleanStep
  <1>2. CASE ProbeStep \/ Fail(Probe)
    BY <1>2, BaselinePasses, InjectPasses, ProbeCountPasses, ProbeWritesPass, ProbeRecordPasses,
       AssertPasses, RestorePasses, ProbeEndsPass DEF ProbeStep, CleanStep
  <1>3. CASE UNCHANGED vars
    <2>1. UNCHANGED <<landing, bronze, silver, quarantine, dq_results, task, base>>
      BY <1>3 DEF vars
    <2>2. /\ SilverAtRest' = SilverAtRest /\ QuarantineAtRest' = QuarantineAtRest
          /\ Injecting' = Injecting
      BY <2>1 DEF SilverAtRest, QuarantineAtRest, Injecting
    <2> QED
      BY <2>1, <2>2, BronzeStill, BaseStill, SilverStill, QuarantineStill, ResultsStill
         DEF PassInv, AssertsInTheFirstPass
  <1> QED
    BY <1>1, <1>2, <1>3 DEF Next, JobNext, Rest

LEMMA PassesInTheEnd ==
    ASSUME LandInv, RestoreInv, PassInv
    PROVE  ProbePasses
  <1>1. base.ok
    BY DEF PassInv, BaseCounts
  <1>2. ASSUME task[Probe].phase = "verdict", ~LandedSinceRestore PROVE Unchanged
    <2>1. task[Probe].at # 1
      BY <1>2 DEF RestoreInv, WritersReached
    <2>2. SilverAtRest /\ QuarantineAtRest
      BY <1>2, <2>1 DEF SilverAtRest, QuarantineAtRest
    <2>3. ProbeTable \in DOMAIN silver /\ ProbeTable \in DOMAIN quarantine
      BY <1>2, ProbeStands
    <2>4. Now(ProbeTable) = bronze[ProbeTable][base.version]
      BY <1>2, <2>1 DEF PassInv, RestoredVersion
    <2>5. Cardinality(silver[ProbeTable]) = base.silver
      BY <1>2, <2>2, <2>3 DEF PassInv, SilverCounts, BaseCounts
    <2>6. Cardinality(quarantine[ProbeTable]) = base.quarantine
      <3>1. quarantine[ProbeTable] = {}
        BY <2>2, <2>3 DEF PassInv, QuarantineCounts
      <3>2. Cardinality(quarantine[ProbeTable]) = 0
        BY <3>1, FS_EmptySet
      <3> QED
        BY <1>2, <3>2 DEF PassInv, BaseCounts
    <2> QED
      BY <2>4, <2>5, <2>6 DEF Unchanged
  <1> QED
    BY <1>1, <1>2 DEF ProbePasses

(* With files in which no row fails a rule, the assertions of the probe    *)
(* hold however the job runs beside it, and its last cell finds everything *)
(* as it was unless a run has landed the table again since the restore.    *)
THEOREM TheProbePasses ==
    ASSUME FilesPass
    PROVE  Spec => []ProbePasses
  <1>1. Init => PassInv
    BY InitPasses
  <1>2. LandInv /\ RestoreInv /\ PassInv /\ [Next]_vars => PassInv'
    BY NextPasses
  <1>3. LandInv /\ RestoreInv /\ PassInv => ProbePasses
    BY PassesInTheEnd
  <1> QED
    BY <1>1, <1>2, <1>3, RestoreInvariant, PTL DEF Spec

-----------------------------------------------------------------------------
(***************************************************************************)
(* Types.  What a writer carries from one commit to the next are numbers,  *)
(* counted over sets that are finite because every version of a bronze     *)
(* table is made of rows of one file, and of the probe, landed at finitely *)
(* many times.                                                             *)
(***************************************************************************)
Deployed ==
    /\ \A r \in Runs : task[r].phase = "ingest" => task[r].mode \in Modes
    /\ \A t \in TableNames : loaded[t] \subseteq Modes

CountsAreNumbers == \A d \in dq_results : d.rows_checked \in Nat /\ d.rows_failed \in Nat

FiniteTables ==
    /\ \A t \in DOMAIN silver : IsFiniteSet(silver[t])
    /\ \A t \in DOMAIN quarantine : HasRules(t) /\ IsFiniteSet(quarantine[t])

Carries(x, t, quarantined) ==
    /\ x.phase \in {"clean", "quarantine", "record"} =>
          \A rule \in RulesFor(t) : x.counts[rule] \in Nat
    /\ x.phase = "quarantine" => HasRules(t)
    /\ x.phase = "record" => x.n_clean \in Nat /\ t \in quarantined

TableOf(w, x) == IF w = Probe THEN ProbeTable ELSE Tables[x.at]

WritersCarry == \A w \in Writers : Carries(task[w], TableOf(w, task[w]), DOMAIN quarantine)

TypedInv == Deployed /\ FiniteTables /\ WritersCarry /\ CountsAreNumbers

LEMMA AtIsTableOf == \A w : At(w) = TableOf(w, task[w])
  BY DEF At, TableOf

(* Rows of a finite set, landed at one of finitely many times.             *)
LEMMA LandedSetIsFinite ==
    ASSUME NEW S, IsFiniteSet(S), NEW n \in Nat,
           NEW rows, \A r \in rows : BronzeShaped(r) /\ r.src \in S /\ r.ingest_ts < n
    PROVE  IsFiniteSet(rows)
  <1> DEFINE pairs == S \X (0 .. n)
             row == [p \in pairs |-> [src |-> p[1], ingest_ts |-> p[2]]]
  <1>1. IsFiniteSet(pairs)
    <2>1. IsFiniteSet(0 .. n)
      BY FS_Interval
    <2> QED
      BY <2>1, FS_Product
  <1>2. IsFiniteSet({row[p] : p \in pairs})
    <2>1. DOMAIN row = pairs
      OBVIOUS
    <2> HIDE DEF row, pairs
    <2> QED
      BY <1>1, <2>1, FiniteImage
  <1>3. ASSUME NEW r \in rows PROVE r \in {row[p] : p \in pairs}
    <2>1. r = [src |-> r.src, ingest_ts |-> r.ingest_ts] /\ r.ingest_ts \in 0 .. n /\ r.src \in S
      BY DEF BronzeShaped
    <2>2. <<r.src, r.ingest_ts>> \in pairs /\ row[<<r.src, r.ingest_ts>>] = r
      BY <2>1
    <2> QED
      BY <2>2
  <1> HIDE DEF row
  <1> QED
    BY <1>2, <1>3, FS_Subset

LEMMA ProbeRowsAreFinite == IsFiniteSet(ProbeRows)
  BY RowsOfProbeCounted, ProbeRowsNamed, FS_AddElement

LEMMA BronzeIsFinite ==
    ASSUME LandInv, RestoreInv, NEW t \in TableNames
    PROVE  IsFiniteSet(Now(t))
  <1>1. /\ Len(bronze[t]) \in DOMAIN bronze[t] /\ Len(bronze[t]) \in Nat
        /\ Now(t) \in SUBSET BronzeRow /\ landing \in Uploads
    BY CurrentVersion DEF LandInv, Versioned
  <1>2. IsFiniteSet(landing[t] \cup ProbeRows)
    BY <1>1, UploadedTable, ProbeRowsAreFinite, FS_Union
  <1>3. ASSUME NEW r \in Now(t)
        PROVE  BronzeShaped(r) /\ r.src \in landing[t] \cup ProbeRows /\ r.ingest_ts < Len(bronze[t])
    <2>1. r.src \in landing[t] \cup ProbeRows /\ r.ingest_ts < Len(bronze[t])
      BY <1>1 DEF RestoreInv, BronzeHolds, OnlyKnownRows, Now
    <2>2. r \in BronzeRow
      BY <1>1
    <2> QED
      BY <2>1, <2>2 DEF BronzeShaped, BronzeRow
  <1> QED
    BY <1>1, <1>2, <1>3, LandedSetIsFinite

(* Whoever evaluates the plan of a table gets finitely many rows.          *)
LEMMA EvaluatedIsFinite ==
    ASSUME LandInv, RestoreInv, NEW t \in TableNames, NEW rows \in Deduped(t)
    PROVE  /\ IsFiniteSet(rows) /\ IsFiniteSet(Clean(t, rows)) /\ IsFiniteSet(Quarantined(t, rows))
           /\ \A rule \in RulesFor(t) : CountFailures(t, rows)[rule] \in Nat
  <1> DEFINE typed == [r \in Now(t) |-> [r EXCEPT !.src = Typed(@)]]
  <1>1. IsFiniteSet({typed[r] : r \in Now(t)})
    <2>1. DOMAIN typed = Now(t)
      OBVIOUS
    <2> HIDE DEF typed
    <2> QED
      BY <2>1, BronzeIsFinite, FiniteImage
  <1>2. TypedRows(t) = {typed[r] : r \in Now(t)}
    BY DEF TypedRows
  <1>3. IsFiniteSet(rows)
    <2> HIDE DEF typed
    <2> QED
      BY <1>1, <1>2, SurvivorsAreRows, FS_Subset
  <1>4. IsFiniteSet(Clean(t, rows)) /\ IsFiniteSet(Quarantined(t, rows))
    BY <1>3, FS_Subset DEF Clean, Quarantined
  <1>5. ASSUME NEW rule \in RulesFor(t) PROVE CountFailures(t, rows)[rule] \in Nat
    <2>1. Cardinality({r \in rows : Fails(r, rule)}) \in Nat
      BY <1>3, FS_Subset, FS_CardinalityType
    <2> QED
      BY <2>1 DEF CountFailures
  <1> QED
    BY <1>3, <1>4, <1>5

-----------------------------------------------------------------------------
(* One writer moves.                                                       *)
LEMMA OneMoves ==
    ASSUME LandInv, TypedInv, NEW w \in Writers, NEW new, task' = [task EXCEPT ![w] = new],
           Carries(new, TableOf(w, new), DOMAIN quarantine'),
           DOMAIN quarantine \subseteq DOMAIN quarantine',
           w \in Runs /\ new.phase = "ingest" => new.mode \in Modes,
           \A t \in TableNames : loaded'[t] \subseteq Modes,
           FiniteTables', CountsAreNumbers'
    PROVE  TypedInv'
  <1>1. task'[w] = new /\ \A v \in Writers : v # w => task'[v] = task[v]
    BY DEF LandInv, Standing, Located
  <1>2. Deployed'
    BY <1>1 DEF Deployed, TypedInv, Writers
  <1>3. ASSUME NEW v \in Writers, v # w
        PROVE  Carries(task[v], TableOf(v, task[v]), DOMAIN quarantine')
    BY DEF Carries, TypedInv, WritersCarry
  <1>4. \A v \in Writers : Carries(task'[v], TableOf(v, task'[v]), DOMAIN quarantine')
    BY <1>1, <1>3
  <1>5. WritersCarry'
    BY <1>4 DEF WritersCarry, TableOf
  <1> QED
    BY <1>2, <1>5 DEF TypedInv

(* The same of a step that writes no table and ends outside of clean_all.  *)
LEMMA OneMovesOn ==
    ASSUME LandInv, TypedInv, NEW w \in Writers, NEW new, task' = [task EXCEPT ![w] = new],
           new.phase \notin {"clean", "quarantine", "record"},
           w \in Runs /\ new.phase = "ingest" => new.mode \in Modes,
           UNCHANGED <<silver, quarantine, dq_results>>,
           \A t \in TableNames : loaded'[t] \subseteq Modes
    PROVE  TypedInv'
  <1>1. Carries(new, TableOf(w, new), DOMAIN quarantine')
    BY DEF Carries
  <1>2. FiniteTables' /\ CountsAreNumbers'
    BY DEF TypedInv, FiniteTables, CountsAreNumbers
  <1> QED
    BY <1>1, <1>2, OneMoves

LEMMA GoingIsTyped ==
    ASSUME LandInv, TypedInv, NEW w \in Writers, NEW phase, GoTo(w, phase),
           phase \notin {"ingest", "clean", "quarantine", "record"},
           UNCHANGED <<loaded, silver, quarantine, dq_results>>
    PROVE  TypedInv'
  <1> DEFINE new == [task[w] EXCEPT !.phase = phase]
  <1>1. new.phase = phase /\ task' = [task EXCEPT ![w] = new]
    BY DEF GoTo, LandInv, Standing, Located, TaskFields
  <1>2. \A t \in TableNames : loaded'[t] \subseteq Modes
    BY DEF TypedInv, Deployed
  <1> HIDE DEF new
  <1> QED
    BY <1>1, <1>2, OneMovesOn

LEMMA AfterTablePhase ==
    ASSUME LandInv, NEW w \in Writers
    PROVE  AfterTable(w).phase \in {"assert", "verdict", "count", "cleaned"}
  <1>1. DOMAIN task[w] = TaskFields
    BY DEF LandInv, Standing, Located
  <1>2. CASE w = Probe
    BY <1>1, <1>2, PhaseMoves DEF AfterTable
  <1>3. CASE w # Probe /\ task[w].at < Len(Tables)
    BY <1>1, <1>3 DEF AfterTable, TaskFields
  <1>4. CASE w # Probe /\ ~(task[w].at < Len(Tables))
    BY <1>1, <1>4 DEF AfterTable, TaskFields
  <1> QED
    BY <1>2, <1>3, <1>4

LEMMA RunIsTyped ==
    ASSUME LandInv, TypedInv, NEW r \in Runs,
           (\E mode \in Modes : Start(r, mode)) \/ IngestTable(r) \/ Finish(r) \/ Fail(r)
    PROVE  TypedInv'
  <1>1. r \in Writers /\ DOMAIN task[r] = TaskFields
    BY DEF LandInv, Standing, Located, Writers
  <1>2. \A t \in TableNames : loaded[t] \subseteq Modes
    BY DEF TypedInv, Deployed
  <1>3. CASE \E mode \in Modes : Start(r, mode)
    <2>1. PICK mode \in Modes : Start(r, mode)
      BY <1>3
    <2> DEFINE new == [Idle EXCEPT !.phase = "ingest", !.mode = mode]
    <2>2. /\ new.mode \in Modes /\ new.phase = "ingest" /\ task' = [task EXCEPT ![r] = new]
          /\ UNCHANGED <<loaded, silver, quarantine, dq_results>>
      BY <2>1 DEF Start, Idle
    <2> HIDE DEF new
    <2> QED
      BY <1>1, <1>2, <2>2, OneMovesOn
  <1>4. CASE IngestTable(r)
    <2>1. /\ task[r].phase = "ingest" /\ task[r].mode \in Modes /\ DOMAIN loaded = TableNames
          /\ UNCHANGED <<silver, quarantine, dq_results>>
      BY <1>4 DEF IngestTable, TypedInv, Deployed, LandInv, VersionsFitLoads
    <2>2. \A t \in TableNames : loaded'[t] \subseteq Modes
      <3>1. loaded' = loaded \/ \E u : loaded' = [loaded EXCEPT ![u] = @ \cup {task[r].mode}]
        BY <1>4 DEF IngestTable
      <3> QED
        BY <1>2, <2>1, <3>1
    <2>3. CASE task[r].at < Len(Tables)
      <3> DEFINE new == [task[r] EXCEPT !.at = task[r].at + 1]
      <3>1. /\ new.mode = task[r].mode /\ new.phase = "ingest"
            /\ task' = [task EXCEPT ![r] = new]
        BY <1>1, <1>4, <2>1, <2>3 DEF IngestTable, TaskFields
      <3> HIDE DEF new
      <3> QED
        BY <1>1, <2>1, <2>2, <3>1, OneMovesOn
    <2>4. CASE ~(task[r].at < Len(Tables))
      <3> DEFINE new == [task[r] EXCEPT !.phase = "count", !.at = 1]
      <3>1. new.phase = "count" /\ task' = [task EXCEPT ![r] = new]
        BY <1>1, <1>4, <2>1, <2>4 DEF IngestTable, TaskFields
      <3> HIDE DEF new
      <3> QED
        BY <1>1, <2>1, <2>2, <3>1, OneMovesOn
    <2> QED
      BY <2>3, <2>4
  <1>5. CASE Finish(r) \/ Fail(r)
    BY <1>1, <1>5, GoingIsTyped DEF Finish, Fail
  <1> QED
    BY <1>3, <1>4, <1>5

LEMMA CleaningIsTyped ==
    ASSUME LandInv, RestoreInv, TypedInv, NEW w \in Writers, CleanStep(w)
    PROVE  TypedInv'
  <1>1. /\ task[w].phase \in OnTables /\ DOMAIN task[w] = TaskFields
        /\ \A t \in TableNames : loaded'[t] \subseteq Modes
    BY DEF CleanStep, CountTable, WriteClean, WriteQuarantine, RecordDq, OnTables, LandInv,
           Standing, Located, TypedInv, Deployed
  <1>2. PICK t \in TableNames : t = At(w) /\ t = TableOf(w, task[w])
    BY <1>1, AtIsKnown, AtIsTableOf DEF LandInv
  <1>3. Carries(task[w], t, DOMAIN quarantine)
    BY <1>2 DEF TypedInv, WritersCarry
  <1>4. AfterTable(w).phase \notin {"ingest", "clean", "quarantine", "record"}
    BY AfterTablePhase
  <1>5. CASE CountTable(w)
    <2>1. PICK rows \in Deduped(t) :
            task' = [task EXCEPT ![w].phase = "clean", ![w].counts = CountFailures(t, rows)]
      BY <1>2, <1>5 DEF CountTable
    <2> DEFINE new == [task[w] EXCEPT !.phase = "clean", !.counts = CountFailures(t, rows)]
    <2>2. /\ new.phase = "clean" /\ new.at = task[w].at /\ new.counts = CountFailures(t, rows)
          /\ task' = [task EXCEPT ![w] = new]
      BY <1>1, <2>1 DEF TaskFields
    <2> HIDE DEF new
    <2>3. TableOf(w, new) = t
      BY <1>2, <2>2 DEF TableOf
    <2>4. Carries(new, t, DOMAIN quarantine')
      BY <2>2, EvaluatedIsFinite DEF Carries
    <2>5. UNCHANGED <<silver, quarantine, dq_results>>
      BY <1>5 DEF CountTable
    <2>6. FiniteTables' /\ CountsAreNumbers'
      BY <2>5 DEF TypedInv, FiniteTables, CountsAreNumbers
    <2> QED
      BY <1>1, <2>2, <2>3, <2>4, <2>5, <2>6, OneMoves
  <1>6. CASE WriteClean(w)
    <2>1. PICK rows \in Deduped(t) : silver' = Overwritten(silver, t, Clean(t, rows))
      BY <1>2, <1>6 DEF WriteClean
    <2>2. UNCHANGED <<quarantine, dq_results>> /\ task[w].phase = "clean"
      BY <1>6 DEF WriteClean
    <2>3. FiniteTables' /\ CountsAreNumbers'
      <3>1. \A u \in DOMAIN silver' : IsFiniteSet(silver'[u])
        BY <2>1, EvaluatedIsFinite DEF Overwritten, TypedInv, FiniteTables
      <3> QED
        BY <2>2, <3>1 DEF TypedInv, FiniteTables, CountsAreNumbers
    <2>4. CASE HasRules(t)
      <3> DEFINE new == [task[w] EXCEPT !.phase = "quarantine"]
      <3>1. /\ new.phase = "quarantine" /\ new.at = task[w].at /\ new.counts = task[w].counts
            /\ task' = [task EXCEPT ![w] = new]
        BY <1>1, <1>2, <1>6, <2>4 DEF WriteClean, TaskFields
      <3> HIDE DEF new
      <3>2. TableOf(w, new) = t
        BY <1>2, <3>1 DEF TableOf
      <3>3. Carries(new, t, DOMAIN quarantine')
        BY <1>3, <2>2, <2>4, <3>1 DEF Carries
      <3> QED
        BY <1>1, <2>2, <2>3, <3>1, <3>2, <3>3, OneMoves
    <2>5. CASE ~HasRules(t)
      <3>1. PICK new : new = AfterTable(w)
        OBVIOUS
      <3>2. task' = [task EXCEPT ![w] = new]
        BY <1>2, <1>6, <2>5, <3>1 DEF WriteClean
      <3>3. Carries(new, TableOf(w, new), DOMAIN quarantine')
        BY <1>4, <3>1 DEF Carries
      <3> QED
        BY <1>1, <1>4, <2>2, <2>3, <3>1, <3>2, <3>3, OneMoves
    <2> QED
      BY <2>4, <2>5
  <1>7. CASE WriteQuarantine(w)
    <2>1. PICK rows \in Deduped(t) : quarantine' = Overwritten(quarantine, t, Quarantined(t, rows))
      BY <1>2, <1>7 DEF WriteQuarantine
    <2>2. UNCHANGED <<silver, dq_results>> /\ task[w].phase = "quarantine"
      BY <1>7 DEF WriteQuarantine
    <2>3. DOMAIN quarantine' = {t} \cup DOMAIN quarantine
      BY <2>1 DEF Overwritten
    <2>4. FiniteTables' /\ CountsAreNumbers'
      <3>1. HasRules(t)
        BY <1>3, <2>2 DEF Carries
      <3>2. \A u \in DOMAIN quarantine' : HasRules(u) /\ IsFiniteSet(quarantine'[u])
        BY <2>1, <3>1, EvaluatedIsFinite DEF Overwritten, TypedInv, FiniteTables
      <3> QED
        BY <2>2, <3>2 DEF TypedInv, FiniteTables, CountsAreNumbers
    <2>5. t \in DOMAIN silver
      <3>1. CASE w = Probe
        BY <1>2, <2>2, <3>1, ProbeStands DEF TableOf
      <3>2. CASE w # Probe
        BY <1>2, <2>2, <3>2 DEF TableOf, RestoreInv, WritersReached, Reached, Writers
      <3> QED
        BY <3>1, <3>2
    <2>6. Cardinality(silver[t]) \in Nat
      BY <2>5, FS_CardinalityType DEF TypedInv, FiniteTables
    <2> DEFINE new == [task[w] EXCEPT !.phase = "record", !.n_clean = Cardinality(silver[t])]
    <2>7. /\ new.phase = "record" /\ new.at = task[w].at /\ new.counts = task[w].counts
          /\ new.n_clean = Cardinality(silver[t]) /\ task' = [task EXCEPT ![w] = new]
      BY <1>1, <1>2, <1>7 DEF WriteQuarantine, TaskFields
    <2> HIDE DEF new
    <2>8. TableOf(w, new) = t
      BY <1>2, <2>7 DEF TableOf
    <2>9. Carries(new, t, DOMAIN quarantine')
      BY <1>3, <2>2, <2>3, <2>6, <2>7 DEF Carries
    <2> QED
      BY <1>1, <2>3, <2>4, <2>7, <2>8, <2>9, OneMoves
  <1>8. CASE RecordDq(w)
    <2>1. PICK new : new = AfterTable(w)
      OBVIOUS
    <2>2. /\ task' = [task EXCEPT ![w] = new] /\ UNCHANGED <<silver, quarantine>>
          /\ task[w].phase = "record"
      BY <1>8, <2>1 DEF RecordDq
    <2>3. Carries(new, TableOf(w, new), DOMAIN quarantine')
      BY <1>4, <2>1 DEF Carries
    <2>4. FiniteTables'
      BY <2>2 DEF TypedInv, FiniteTables
    <2>5. task[w].n_clean + Cardinality(quarantine[t]) \in Nat
      <3>1. task[w].n_clean \in Nat /\ t \in DOMAIN quarantine
        BY <1>3, <2>2 DEF Carries
      <3>2. Cardinality(quarantine[t]) \in Nat
        BY <3>1, FS_CardinalityType DEF TypedInv, FiniteTables
      <3> QED
        BY <3>1, <3>2
    <2>6. ASSUME NEW d \in dq_results' \ dq_results
          PROVE  d.rows_checked \in Nat /\ d.rows_failed \in Nat
      <3> DEFINE row(rule) == [run_id |-> IF w = Probe THEN <<w, task[w].at>> ELSE <<w, 1>>,
                               table_name |-> t, rule_id |-> rule,
                               rows_checked |-> task[w].n_clean + Cardinality(quarantine[t]),
                               rows_failed |-> task[w].counts[rule]]
      <3>0. dq_results' = dq_results \cup {row(rule) : rule \in RulesFor(t)}
        BY <1>2, <1>8 DEF RecordDq
      <3>1. PICK rule \in RulesFor(t) :
              /\ d.rows_checked = task[w].n_clean + Cardinality(quarantine[t])
              /\ d.rows_failed = task[w].counts[rule]
        BY <2>6, <3>0
      <3> QED
        BY <1>3, <2>2, <2>5, <3>1 DEF Carries
    <2>7. CountsAreNumbers'
      BY <2>6 DEF TypedInv, CountsAreNumbers
    <2> QED
      BY <1>1, <1>4, <2>1, <2>2, <2>3, <2>4, <2>7, OneMoves
  <1> QED
    BY <1>5, <1>6, <1>7, <1>8 DEF CleanStep

LEMMA ProbeIsTyped ==
    ASSUME LandInv, TypedInv,
           Baseline \/ Inject \/ AssertRouting \/ RestoreBronze \/ Verdict \/ Fail(Probe)
    PROVE  TypedInv'
  <1>1. Probe \in Writers /\ DOMAIN task[Probe] = TaskFields
        /\ UNCHANGED <<loaded, silver, quarantine, dq_results>>
    BY DEF LandInv, Standing, Located, Writers, Baseline, Inject, AssertRouting, RestoreBronze,
           Verdict, Fail
  <1>2. CASE RestoreBronze
    <2> DEFINE new == [task[Probe] EXCEPT !.phase = "count", !.at = 2]
    <2>1. new.phase = "count" /\ task' = [task EXCEPT ![Probe] = new]
      BY <1>1, <1>2 DEF RestoreBronze, TaskFields
    <2>2. \A t \in TableNames : loaded'[t] \subseteq Modes
      BY <1>1 DEF TypedInv, Deployed
    <2> HIDE DEF new
    <2> QED
      BY <1>1, <2>1, <2>2, OneMovesOn
  <1>3. CASE ~RestoreBronze
    <2>1. PICK phase : GoTo(Probe, phase)
                       /\ phase \notin {"ingest", "clean", "quarantine", "record"}
      BY <1>3 DEF Baseline, Inject, AssertRouting, Verdict, Fail
    <2> QED
      BY <1>1, <2>1, GoingIsTyped
  <1> QED
    BY <1>2, <1>3

LEMMA NextIsTyped ==
    ASSUME LandInv, RestoreInv, TypedInv, [Next]_vars
    PROVE  TypedInv'
  <1>1. ASSUME NEW r \in Runs,
               \/ \E mode \in Modes : Start(r, mode)
               \/ IngestTable(r) \/ CleanStep(r) \/ Finish(r) \/ Fail(r)
        PROVE  TypedInv'
    BY <1>1, RunIsTyped, CleaningIsTyped DEF Writers
  <1>2. CASE ProbeStep \/ Fail(Probe)
    BY <1>2, ProbeIsTyped, CleaningIsTyped DEF ProbeStep, Writers
  <1>3. CASE UNCHANGED vars
    BY <1>3 DEF vars, TypedInv, Deployed, FiniteTables, WritersCarry, CountsAreNumbers
  <1> QED
    BY <1>1, <1>2, <1>3 DEF Next, JobNext, Rest

(* TypeOK beside the probe: tables are those declared, bronze holds rows of *)
(* uploads or of the probe in each of its versions, restored ones too, and *)
(* what is recorded in dq_results are numbers, whoever recorded it.        *)
THEOREM TypesBesideTheProbe == Spec => []TypeOK
  <1>1. Init => TypedInv
    <2>1. ASSUME Init
          PROVE  /\ loaded = [t \in TableNames |-> {}] /\ dq_results = {}
                 /\ silver = <<>> /\ quarantine = <<>>
                 /\ \A w \in Writers : task[w].phase = "idle"
      BY <2>1 DEF Init, Idle
    <2> QED
      BY <2>1 DEF TypedInv, Deployed, FiniteTables, WritersCarry, Carries, CountsAreNumbers, Writers
  <1>2. LandInv /\ RestoreInv /\ TypedInv => TypeOK
    <2> SUFFICES ASSUME LandInv, RestoreInv, TypedInv PROVE TypeOK
      OBVIOUS
    <2>1. DOMAIN silver \subseteq TableNames /\ DOMAIN quarantine \subseteq TableNames
      BY DEF RestoreInv, TablesHold, KeysRouted
    <2>2. \A t \in DOMAIN quarantine : t \in DOMAIN Rules
      BY DEF TypedInv, FiniteTables, HasRules, RulesFor
    <2>3. ASSUME NEW t \in TableNames, NEW i \in DOMAIN bronze[t]
          PROVE  SourceRows(bronze[t][i]) \subseteq (UNION {f[t] : f \in Uploads}) \cup ProbeRows
      <3>1. landing \in Uploads
        BY DEF LandInv, Versioned
      <3>2. \A x \in bronze[t][i] : x.src \in landing[t] \cup ProbeRows
        BY DEF RestoreInv, BronzeHolds, OnlyKnownRows
      <3> QED
        BY <3>1, <3>2 DEF SourceRows
    <2> QED
      BY <2>1, <2>2, <2>3 DEF TypeOK, TypedInv, Deployed, CountsAreNumbers
  <1>3. LandInv /\ RestoreInv /\ TypedInv /\ [Next]_vars => TypedInv'
    BY NextIsTyped
  <1> QED
    BY <1>1, <1>2, <1>3, RestoreInvariant, PTL DEF Spec
=============================================================================
