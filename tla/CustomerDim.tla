----------------------------- MODULE CustomerDim -----------------------------
(***************************************************************************)
(* The life of gold.dim_customer under a sequence of job runs.             *)
(*                                                                         *)
(* A run of the job (resources/ecommerce_pipeline.job.yml) has a run_date  *)
(* and a cdc_day.  Its gold_dims task seeds the table if it is empty; its  *)
(* cdc_apply task reads one change file and, in separate commits, writes   *)
(* the staging table, closes superseded versions with a MERGE and appends  *)
(* the new ones.  A task may fail between any two of these commits; the    *)
(* run then ends and nothing is rolled back.  A repair of a failed run is  *)
(* a run of its own here, with the same parameters: the tasks before the   *)
(* failed one find their work done.                                        *)
(***************************************************************************)
EXTENDS CustomerAttributes

CONSTANTS
    Runs,        \* the job runs there may be
    Dates,       \* the run_date values
    Days,        \* cdc_day values 1..3; 0 skips the change feed
    ChangeFiles  \* the change files a day may have: sets of ChangeRow

ASSUME DatesAreTimes == Dates \subseteq 0 .. EndOfTime
ASSUME DaysAreNumbers == Days \subseteq Nat \ {0}
ASSUME FilesAreRows == ChangeFiles \subseteq SUBSET ChangeRow
ASSUME FilesAreFinite == \A file \in ChangeFiles : IsFiniteSet(file)

VARIABLES
    landing,    \* landing[day]: the change file, regenerated identically by every run
    dim,        \* gold.dim_customer: a set of Versions
    commit,     \* the Delta table version of dim_customer
    staging,    \* ops._stg_customer_changes
    run,        \* run[r]: phase, run_date, cdc_day, actions (the counts apply_scd2 took)
    \* The four below are history: no action of the program reads them.
    lastDate,   \* the latest run_date of a run that applied a change file
    backdated,  \* some run applied a change file with an earlier date than lastDate
    settled,    \* the day whose file was applied last, 0 if dim was written to since
    torn        \* keys a failed run closed without appending their next version

tables == <<landing, dim, commit, staging>>
history == <<lastDate, backdated, settled, torn>>
vars == <<tables, run, history>>

Phases == {"queued", "gold_dims", "cdc_apply", "merge", "append", "applied",
           "succeeded", "failed"}

Run ==
    [phase : Phases, run_date : Dates \cup {0}, cdc_day : Days \cup {0},
     actions : SUBSET Actions]

Init ==
    /\ landing \in [Days -> ChangeFiles]
    /\ dim = {}
    /\ commit = 0
    /\ staging = {}
    /\ run = [r \in Runs |-> [phase |-> "queued", run_date |-> 0, cdc_day |-> 0,
                              actions |-> {}]]
    /\ lastDate = 0
    /\ backdated = FALSE
    /\ settled = 0
    /\ torn = {}

Active(r) == run[r].phase \notin {"queued", "succeeded", "failed"}

RunsMayOverlap == TRUE   \* a bug: no limit on concurrent runs

(* max_concurrent_runs: 1. *)
NoActiveRun == \A r \in Runs : ~Active(r)

GoTo(r, phase) == run' = [run EXCEPT ![r].phase = phase]

-----------------------------------------------------------------------------
(* A run starts, with any run_date and any cdc_day.  The tasks before      *)
(* gold_dims find every source file ingested and rebuild silver as it was. *)
Start(r, date, day) ==
    /\ run[r].phase = "queued"
    /\ NoActiveRun
    /\ run' = [run EXCEPT ![r].phase = "gold_dims", ![r].run_date = date,
                          ![r].cdc_day = day]
    /\ IF day = 0 THEN UNCHANGED <<lastDate, backdated>>
       ELSE /\ lastDate' = IF date > lastDate THEN date ELSE lastDate
            /\ backdated' = (backdated \/ date < lastDate)
    /\ UNCHANGED <<tables, settled, torn>>

(* gold_dims: seed_dim_customer, a no-op once the table holds a row.       *)
SeedDim(r) ==
    /\ run[r].phase = "gold_dims"
    /\ IF dim # {} THEN UNCHANGED <<dim, commit>>
       ELSE \E latest \in [People -> OrNull(Address)] :
              /\ \A u \in People : latest[u] \in LatestAddresses(u)
              /\ commit' = commit + 1
              /\ dim' = UNION {{SeedVersion(u, latest[u], first, run[r].run_date, commit') :
                                  first \in FirstOrders(u)} : u \in People}
    /\ GoTo(r, "cdc_apply")
    /\ UNCHANGED <<landing, staging, history>>

(* cdc_apply with cdc_day = 0. *)
SkipCdc(r) ==
    /\ run[r].phase = "cdc_apply"
    /\ run[r].cdc_day = 0
    /\ GoTo(r, "applied")
    /\ UNCHANGED <<tables, history>>

(* The passes apply_scd2 still has to make, from the actions it counted.   *)
NextPass(actions, merged) ==
    IF ~merged /\ actions \cap {"changed", "deleted"} # {} THEN "merge"
    ELSE IF actions \cap {"new", "changed", "deleted"} # {} THEN "append"
    ELSE "applied"

(* apply_customer_changes up to apply_scd2's first write: dedupe, complete *)
(* and classify the day's rows against the current rows, overwrite the     *)
(* staging table, count the actions.                                       *)
StageChanges(r) ==
    /\ run[r].phase = "cdc_apply"
    /\ run[r].cdc_day # 0
    /\ \E rows \in Deduped(landing[run[r].cdc_day]) :
         /\ staging' = Staged(rows, dim, run[r].run_date)
         /\ LET actions == {s.action : s \in staging'} IN
              /\ run' = [run EXCEPT ![r].phase = NextPass(actions, FALSE),
                                    ![r].actions = actions]
              /\ settled' = IF NextPass(actions, FALSE) = "applied"
                            THEN run[r].cdc_day ELSE settled
    /\ UNCHANGED <<landing, dim, commit, lastDate, backdated, torn>>

(* The first pass: one MERGE commit. *)
CloseSuperseded(r) ==
    /\ run[r].phase = "merge"
    /\ dim' = Close(dim, staging)
    /\ commit' = commit + 1
    /\ GoTo(r, NextPass(run[r].actions, TRUE))
    /\ settled' = 0
    /\ UNCHANGED <<landing, staging, lastDate, backdated, torn>>

(* The second pass: one append commit. *)
AppendVersions(r) ==
    /\ run[r].phase = "append"
    /\ commit' = commit + 1
    /\ dim' = dim \cup NewVersions(staging, commit')
    /\ GoTo(r, "applied")
    /\ settled' = run[r].cdc_day
    /\ UNCHANGED <<landing, staging, lastDate, backdated, torn>>

(* The tasks after cdc_apply write nothing dim_customer depends on.        *)
Finish(r) ==
    /\ run[r].phase = "applied"
    /\ GoTo(r, "succeeded")
    /\ UNCHANGED <<tables, history>>

(* A task fails, or its cluster is lost: the run ends where it stands.     *)
Fail(r) ==
    /\ Active(r)
    /\ GoTo(r, "failed")
    /\ torn' = IF run[r].phase = "append"
               THEN torn \cup {k.uid : k \in KeysToClose(staging)} ELSE torn
    /\ UNCHANGED <<tables, lastDate, backdated, settled>>

(* Every run has ended: nothing is left to do. *)
Rest ==
    /\ \A r \in Runs : run[r].phase \in {"succeeded", "failed"}
    /\ UNCHANGED vars

Apply(r) ==
    \/ SeedDim(r) \/ SkipCdc(r)
    \/ StageChanges(r) \/ CloseSuperseded(r) \/ AppendVersions(r)

Next ==
    \/ \E r \in Runs :
         \/ \E date \in Dates, day \in Days \cup {0} : Start(r, date, day)
         \/ Apply(r)
         \/ Finish(r)
         \/ Fail(r)
    \/ Rest

Spec == Init /\ [][Next]_vars

-----------------------------------------------------------------------------
(* Every variable holds values of the kind its table or parameter has.     *)
TypeOK ==
    /\ landing \in [Days -> ChangeFiles]
    /\ dim \subseteq Version
    /\ commit \in Nat
    /\ staging \subseteq StagedRow
    /\ run \in [Runs -> Run]
    /\ lastDate \in Nat
    /\ backdated \in BOOLEAN
    /\ settled \in Days \cup {0}
    /\ torn \subseteq OrNull(Customers)

(* v_scd2_integrity, first half: a person never has two current versions,  *)
(* whatever the run dates, whichever tasks fail and however often a file   *)
(* is replayed.  CloseSuperseded must have closed the old version before   *)
(* AppendVersions adds the next one, for what StageChanges read earlier.   *)
AtMostOneCurrent ==
    \A v, w \in dim :
        v.is_current /\ w.is_current /\ v.uid = w.uid /\ v.uid # NULL => v = w

(* v_scd2_integrity, second half: as long as change files are applied in   *)
(* the order of their run dates, no instant lies in the windows of two     *)
(* versions of a person.                                                   *)
Overlap(v, w) == v.effective_from < w.effective_to /\ w.effective_from < v.effective_to

WindowsDisjoint ==
    \A v, w \in dim : v.uid = w.uid /\ v.uid # NULL /\ v # w => ~Overlap(v, w)

DisjointWindows == ~backdated => WindowsDisjoint

(* "No key left with zero current versions" (README.md:197), where it      *)
(* holds: a known person has a current version unless a run is between its *)
(* MERGE and its append, or failed there.                                  *)
BetweenPasses(u) ==
    \E r \in Runs : run[r].phase = "append" /\ \E k \in KeysToClose(staging) : k.uid = u

CurrentUnlessTorn ==
    \A v \in dim : v.uid \in torn \/ BetweenPasses(v.uid) \/
                   \E w \in Current(dim) : w.uid = v.uid

(* Carry-forward (README.md:200): a version of a person known to silver    *)
(* keeps that person's own profile and a segment, through every sequence   *)
(* of changes; only a key torn by a failed run can lose them.              *)
NothingBlanked ==
    \A v \in dim : v.uid \in People \ torn => v.profile = v.uid /\ v.segment # NULL

(* The no-op guarantee (decisions.md:126): applying the file that was      *)
(* applied last again, on any date, classifies every row as unchanged, so  *)
(* neither pass writes.  Only the rows of a key that ties on updated_at,   *)
(* and rows without a key, are not covered.                                *)
Wins(r, file) ==
    \A q \in file : q.uid = r.uid /\ q # r => q.updated_at < r.updated_at

ReplayIsNoOp ==
    settled # 0 =>
        \A date \in Dates, rows \in Deduped(landing[settled]) :
            \A s \in Staged(rows, dim, date) :
                s.uid # NULL /\ (\E r \in rows : r.uid = s.uid /\ Wins(r, landing[settled]))
                    => s.action = "unchanged"

(* What applying a file establishes: the strictly latest row of a key wins *)
(* wherever it stands in the file.  If it deletes, the key has no live     *)
(* version; if not, the key's current version has the address it carries.  *)
Live(u) == {v \in Current(dim) : v.uid = u /\ ~v.is_deleted}

FileIsReflected ==
    settled # 0 =>
        \A r \in landing[settled] : Wins(r, landing[settled]) /\ r.uid # NULL =>
            IF r.op = "D" THEN Live(r.uid) = {}
            ELSE \E v \in Current(dim) :
                   v.uid = r.uid /\ v.address = Coalesce(r.address, v.address)

(* History is append-only: a step never removes a version, never touches a *)
(* closed one, and changes nothing of a current one but to close it.       *)
HistoryIsAppendOnly ==
    [][\A v \in dim : v \in dim' \/
          (v.is_current /\ \E r \in Runs : ClosedAt(v, run[r].run_date) \in dim')]_vars

(* What the no-op guarantee leaves out: a row without a key joins nothing, *)
(* not even the version an earlier run made of it, so each run that comes  *)
(* through its passes and keeps such a row adds one version more, just     *)
(* one, and no other run does.  Only a deletion without a key adds none.   *)
KeylessRows(r) == {q \in LatestRows(landing[run[r].cdc_day]) : q.uid = NULL}

MayAdd(r) == run[r].cdc_day # 0 /\ \E q \in KeylessRows(r) : q.op # "D"

MustAdd(r) == MayAdd(r) /\ \A q \in KeylessRows(r) : q.op # "D"

Through == {r \in Runs : MustAdd(r) /\ run[r].phase \in {"applied", "succeeded"}}

Begun == {r \in Runs : MayAdd(r) /\ run[r].phase \in {"applied", "succeeded", "failed"}}

KeylessRowsAccumulate ==
    LET keyless == Cardinality({v \in dim : v.uid = NULL})
    IN  Cardinality(Through) <= keyless /\ keyless <= Cardinality(Begun)
=============================================================================
