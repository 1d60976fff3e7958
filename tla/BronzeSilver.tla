----------------------------- MODULE BronzeSilver -----------------------------
(***************************************************************************)
(* Bronze and silver under job runs and the data-quality probe.            *)
(*                                                                         *)
(* A run lands each source file once per ingest mode (COPY INTO's record   *)
(* of consumed files, or Auto Loader's checkpoint), table by table, and    *)
(* rebuilds each silver table from bronze.  clean_all evaluates the lazy   *)
(* plan of a table three times, each time on the bronze table as it is     *)
(* then: to count failures, to overwrite the silver table and to overwrite *)
(* its quarantine table.  notebooks/98_dq_probe.py, started by hand at any *)
(* time, appends bad rows to bronze, runs the same code on one table,      *)
(* restores bronze to the version it noted and rebuilds silver.  Either    *)
(* may fail between any two commits.                                       *)
(***************************************************************************)
EXTENDS SilverRules, Integers

CONSTANTS
    Tables,      \* the source tables, in the order of SOURCE_TABLES
    Uploads,     \* what the landing volume may hold: a file, a set of rows, per table
    Runs, Probe, \* the writers
    Modes        \* the INGEST_MODE values a deployed bundle may have

ASSUME TablesAreListed == Len(Tables) \in Nat \ {0} /\ DOMAIN Tables = 1 .. Len(Tables)
ASSUME ProbeIsNoRun == Probe \notin Runs

(* What is uploaded are finitely many files, and a time that can be read   *)
(* is a number.                                                            *)
ASSUME UploadsAreFinite ==
    IsFiniteSet(Uploads) /\ \A f \in Uploads : \A i \in DOMAIN Tables : IsFiniteSet(f[Tables[i]])
ASSUME TimesAreNumbers ==
    \A f \in Uploads : \A i \in DOMAIN Tables : \A s \in f[Tables[i]] :
        SequenceOf(Tables[i], Typed(s)) \in Nat

VARIABLES
    landing,     \* landing[t]: the rows of the file at the path of t
    bronze,      \* bronze[t]: the Delta versions of a table, the last one current
    loaded,      \* loaded[t]: the modes that have consumed its file
    silver,      \* silver[t], once written
    quarantine,  \* quarantine[t], once written
    dq_results,  \* ops.dq_results
    task,        \* where each writer stands
    base         \* the probe's baseline: bronze version and row counts

vars == <<landing, bronze, loaded, silver, quarantine, dq_results, task, base>>

Writers == Runs \cup {Probe}
TableNames == {Tables[i] : i \in DOMAIN Tables}

ProbeTable == "order_items"   \* TABLE of the probe

Now(t) == bronze[t][Len(bronze[t])]

(* clean_table up to its deduplication, over what bronze holds now.        *)
TypedRows(t) == {[r EXCEPT !.src = Typed(@)] : r \in Now(t)}

Deduped(t) == UNION {Survivors(t, rows) : rows \in {TypedRows(t)}}

Idle == [phase |-> "idle", at |-> 1, mode |-> "none", counts |-> <<>>, n_clean |-> 0]

Init ==
    /\ landing \in Uploads
    /\ bronze = [t \in TableNames |-> <<{}>>]
    /\ loaded = [t \in TableNames |-> {}]
    /\ silver = <<>> /\ quarantine = <<>>
    /\ dq_results = {}
    /\ task = [w \in Writers |-> Idle]
    /\ base = [version |-> 0, silver |-> 0, quarantine |-> 0, ok |-> TRUE]

Ended(w) == task[w].phase \in {"succeeded", "failed"}
Active(w) == task[w].phase # "idle" /\ ~Ended(w)

GoTo(w, phase) == task' = [task EXCEPT ![w].phase = phase]

-----------------------------------------------------------------------------
(* Somebody replaces source files under the paths they had.  While a run   *)
(* is at work this is the same as before it or after it, file by file.     *)
ReplaceFiles ==
    /\ \A r \in Runs : ~Active(r)
    /\ \E files \in Uploads \ {landing} : landing' = files
    /\ UNCHANGED <<bronze, loaded, silver, quarantine, dq_results, task, base>>

Start(r, mode) ==
    /\ task[r].phase = "idle"
    /\ \A q \in Runs : ~Active(q)
    /\ task' = [task EXCEPT ![r] = [Idle EXCEPT !.phase = "ingest", !.mode = mode]]
    /\ UNCHANGED <<landing, bronze, loaded, silver, quarantine, dq_results, base>>

(* ingest_table: COPY INTO (or the stream) lands the file's rows unless    *)
(* this mode has consumed a file of that path before, whatever it held.    *)
Forgetful(t, mode) ==   \* a bug: a file is known by its content
    /\ mode \in loaded[t]
    /\ \A s \in landing[t] : \E r \in Now(t) : r.src = s

Consumed(t, mode) == mode \in loaded[t]

Landed(t) == {[src |-> s, ingest_ts |-> Len(bronze[t])] : s \in landing[t]}

IngestTable(r) ==
    LET t == Tables[task[r].at] IN
    /\ task[r].phase = "ingest"
    /\ IF Consumed(t, task[r].mode) THEN UNCHANGED <<bronze, loaded>>
       ELSE /\ bronze' = [bronze EXCEPT ![t] = Append(@, Now(t) \cup Landed(t))]
            /\ loaded' = [loaded EXCEPT ![t] = @ \cup {task[r].mode}]
    /\ task' = IF task[r].at < Len(Tables) THEN [task EXCEPT ![r].at = @ + 1]
               ELSE [task EXCEPT ![r].phase = "count", ![r].at = 1]
    /\ UNCHANGED <<landing, silver, quarantine, dq_results, base>>

-----------------------------------------------------------------------------
(* clean_all, for the table a writer is at: the probe names one table.     *)
At(w) == IF w = Probe THEN ProbeTable ELSE Tables[task[w].at]

(* clean_table collects the failure counts before anything is written.     *)
CountTable(w) ==
    /\ task[w].phase = "count"
    /\ \E rows \in Deduped(At(w)) :
          task' = [task EXCEPT ![w].phase = "clean", ![w].counts = CountFailures(At(w), rows)]
    /\ UNCHANGED <<landing, bronze, loaded, silver, quarantine, dq_results, base>>

(* After a table, the next one; after the last, whatever follows.          *)
AfterTable(w) ==
    IF w = Probe THEN [task[w] EXCEPT !.phase = IF task[w].at = 1 THEN "assert" ELSE "verdict"]
    ELSE IF task[w].at < Len(Tables)
         THEN [task[w] EXCEPT !.phase = "count", !.at = @ + 1]
         ELSE [task[w] EXCEPT !.phase = "cleaned", !.at = 1]

(* write.mode("overwrite").saveAsTable, creating the table the first time. *)
Appended(tables, t, rows) ==   \* a bug: write.mode("append")
    t :> (rows \cup IF t \in DOMAIN tables THEN tables[t] ELSE {}) @@ tables

Overwritten(tables, t, rows) ==
    [u \in {t} \cup DOMAIN tables |-> IF u = t THEN rows ELSE tables[u]]

(* if rules: *)
AnyTable(t) == TRUE   \* a bug: not asked

HasRules(t) == RulesFor(t) # {}

WriteClean(w) ==
    /\ task[w].phase = "clean"
    /\ \E rows \in Deduped(At(w)) :
          silver' = Overwritten(silver, At(w), Clean(At(w), rows))
    /\ task' = [task EXCEPT ![w] = IF HasRules(At(w)) THEN [@ EXCEPT !.phase = "quarantine"]
                                   ELSE AfterTable(w)]
    /\ UNCHANGED <<landing, bronze, loaded, quarantine, dq_results, base>>

WriteQuarantine(w) ==
    /\ task[w].phase = "quarantine"
    /\ \E rows \in Deduped(At(w)) :
          quarantine' = Overwritten(quarantine, At(w), Quarantined(At(w), rows))
    /\ task' = [task EXCEPT ![w].phase = "record", ![w].n_clean = Cardinality(silver[At(w)])]
    /\ UNCHANGED <<landing, bronze, loaded, silver, dq_results, base>>

(* record_dq_results: one row per rule, rows_checked read back from the    *)
(* two tables.  The probe's second pass has a run id of its own.           *)
RecordDq(w) ==
    /\ task[w].phase = "record"
    /\ LET checked == task[w].n_clean + Cardinality(quarantine[At(w)]) IN
         dq_results' = dq_results \cup
            {[run_id |-> IF w = Probe THEN <<w, task[w].at>> ELSE <<w, 1>>,
              table_name |-> At(w), rule_id |-> rule, rows_checked |-> checked,
              rows_failed |-> task[w].counts[rule]] : rule \in RulesFor(At(w))}
    /\ task' = [task EXCEPT ![w] = AfterTable(w)]
    /\ UNCHANGED <<landing, bronze, loaded, silver, quarantine, base>>

CleanStep(w) == CountTable(w) \/ WriteClean(w) \/ WriteQuarantine(w) \/ RecordDq(w)

-----------------------------------------------------------------------------
(* The probe, cell by cell.  It needs the silver and quarantine tables.    *)
(* PROBE_ROWS: order_id, order_item_id, product_id, price and freight; the  *)
(* seller and the date are the same in all of them.                        *)
ProbeRow(order, item, product, price, freight) ==
    [order_id |-> order, order_item_id |-> item, product_id |-> product,
     seller_id |-> "sell_x", price |-> price, freight_value |-> freight]

ProbeRows ==
    {ProbeRow(NULL, 1, "prod_x", 10, 5), ProbeRow("dqprobe_2", 1, NULL, 10, 5),
     ProbeRow("dqprobe_3", 1, "prod_x", -10, 5), ProbeRow("dqprobe_4", 1, "prod_x", 10, -5),
     ProbeRow("dqprobe_5", 0, "prod_x", 10, 5), ProbeRow("dqprobe_6", 1, "prod_x", NULL, 5),
     ProbeRow("dqprobe_7", 1, "prod_x", -1, -1), ProbeRow("dqprobe_8", 1, "prod_x", 10, 5)}

(* No file has them: the orders are made up, and no order item of the data *)
(* lacks its order ("no reject rule fires on the real data").              *)
ProbeSources == ProbeRows \cup {Typed(p) : p \in ProbeRows}

ASSUME ProbeRowsAreNoData ==
    \A f \in Uploads : \A i \in DOMAIN Tables : \A s \in f[Tables[i]] :
        {s, Typed(s)} \cap ProbeSources = {}
ASSUME ProbeOrdersAreNew ==
    ProbeTable \in TableNames =>
        \A f \in Uploads : \A s \in f[ProbeTable] : \A p \in ProbeRows :
            Typed(s).order_id # p.order_id

(* What it writes is neither NULL, except where it says so, nor unreadable. *)
ASSUME ProbeWritesData ==
    /\ {NULL, Unreadable} \cap Int = {}
    /\ {NULL, Unreadable} \cap {"prod_x", "dqprobe_2", "dqprobe_3", "dqprobe_4", "dqprobe_5",
                               "dqprobe_6", "dqprobe_7", "dqprobe_8"} = {}

EXPECTED == Registry({
    <<"order_items.order_id_not_null", 1>>, <<"order_items.product_id_not_null", 1>>,
    <<"order_items.price_non_negative", 3>>, <<"order_items.freight_non_negative", 2>>,
    <<"order_items.item_sequence_positive", 1>>})

EXPECT_QUARANTINED == 7
EXPECT_CLEAN_DELTA == 1

Baseline ==
    /\ task[Probe].phase = "idle"
    /\ ProbeTable \in DOMAIN quarantine
    /\ base' = [version |-> Len(bronze[ProbeTable]), silver |-> Cardinality(silver[ProbeTable]),
                quarantine |-> Cardinality(quarantine[ProbeTable]), ok |-> TRUE]
    /\ GoTo(Probe, "inject")
    /\ UNCHANGED <<landing, bronze, loaded, silver, quarantine, dq_results>>

Injected == {[src |-> p, ingest_ts |-> Len(bronze[ProbeTable])] : p \in ProbeRows}

Inject ==
    /\ task[Probe].phase = "inject"
    /\ bronze' = [bronze EXCEPT ![ProbeTable] = Append(@, Now(ProbeTable) \cup Injected)]
    /\ GoTo(Probe, "count")
    /\ UNCHANGED <<landing, loaded, silver, quarantine, dq_results, base>>

(* Cells 4 and 5: what was quarantined, what reached silver, what was      *)
(* recorded; a mismatch is remembered and raised only by the last cell.    *)
Order(rows, id) == {r \in rows : r.src.order_id = id}

RoutingIsAsExpected ==
    /\ Cardinality(quarantine[ProbeTable]) = EXPECT_QUARANTINED
    /\ Cardinality(silver[ProbeTable]) = base.silver + EXPECT_CLEAN_DELTA
    /\ \A rule \in DOMAIN EXPECTED :
          /\ Cardinality({q \in quarantine[ProbeTable] : Fails(q, rule)}) = EXPECTED[rule]
          /\ \A d \in dq_results :
               d.run_id = <<Probe, 1>> /\ d.rule_id = rule => d.rows_failed = EXPECTED[rule]
    /\ \E q \in Order(quarantine[ProbeTable], "dqprobe_7") :
          Cardinality(FailedRules(ProbeTable, q)) = 2
    /\ Cardinality(Order(silver[ProbeTable], "dqprobe_8")) = 1
    /\ Order(quarantine[ProbeTable], "dqprobe_8") = {}

AssertRouting ==
    /\ task[Probe].phase = "assert"
    /\ base' = [base EXCEPT !.ok = RoutingIsAsExpected]
    /\ GoTo(Probe, "restore")
    /\ UNCHANGED <<landing, bronze, loaded, silver, quarantine, dq_results>>

(* RESTORE TABLE TO VERSION AS OF commits a new version with the old rows. *)
LatestVersion(t) == Len(bronze[t])   \* a bug: the version is read when restoring

BaseVersion(t) == base.version

RestoreBronze ==
    /\ task[Probe].phase = "restore"
    /\ bronze' = [bronze EXCEPT ![ProbeTable] = Append(@, @[BaseVersion(ProbeTable)])]
    /\ task' = [task EXCEPT ![Probe].phase = "count", ![Probe].at = 2]
    /\ UNCHANGED <<landing, loaded, silver, quarantine, dq_results, base>>

Unchanged ==
    /\ Cardinality(Now(ProbeTable)) = Cardinality(bronze[ProbeTable][base.version])
    /\ Cardinality(silver[ProbeTable]) = base.silver
    /\ Cardinality(quarantine[ProbeTable]) = base.quarantine

Verdict ==
    /\ task[Probe].phase = "verdict"
    /\ GoTo(Probe, IF base.ok /\ Unchanged THEN "succeeded" ELSE "failed")
    /\ UNCHANGED <<landing, bronze, loaded, silver, quarantine, dq_results, base>>

ProbeStep == Baseline \/ Inject \/ AssertRouting \/ RestoreBronze \/ Verdict \/ CleanStep(Probe)

-----------------------------------------------------------------------------
Fail(w) ==
    /\ Active(w)
    /\ GoTo(w, "failed")
    /\ UNCHANGED <<landing, bronze, loaded, silver, quarantine, dq_results, base>>

(* The job of this module is its first two tasks. *)
Finish(r) ==
    /\ task[r].phase = "cleaned"
    /\ GoTo(r, "succeeded")
    /\ UNCHANGED <<landing, bronze, loaded, silver, quarantine, dq_results, base>>

Rest ==
    /\ \A w \in Writers : ~Active(w)
    /\ \A r \in Runs : Ended(r)
    /\ UNCHANGED vars

JobNext ==
    \/ \E r \in Runs :
         \/ \E mode \in Modes : Start(r, mode)
         \/ IngestTable(r)
         \/ CleanStep(r)
         \/ Finish(r)
         \/ Fail(r)
    \/ Rest

(* The job, and somebody who runs the probe. *)
Next == JobNext \/ ProbeStep \/ Fail(Probe)

Spec == Init /\ [][Next]_vars

(* The cells of the probe run one after the other, until one is lost.      *)
FairSpec == Init /\ [][Next]_vars /\ WF_vars(ProbeStep)

-----------------------------------------------------------------------------
SourceRows(rows) == {r.src : r \in rows}

TypedFile(f, t) == {Typed(s) : s \in f[t]}

(* Tables hold rows of a file that was uploaded, or of the probe.          *)
TypeOK ==
    /\ \A t \in TableNames : loaded[t] \subseteq Modes
    /\ \A t \in TableNames : \A i \in DOMAIN bronze[t] :
          SourceRows(bronze[t][i]) \subseteq (UNION {f[t] : f \in Uploads}) \cup ProbeRows
    /\ DOMAIN silver \subseteq TableNames
    /\ DOMAIN quarantine \subseteq TableNames \cap DOMAIN Rules
    /\ \A d \in dq_results : d.rows_checked \in Nat /\ d.rows_failed \in Nat

(* "Nothing is ingested twice" (README.md:288): whatever fails, is rolled  *)
(* back or is replaced under its path, the rows of a table landed at most  *)
(* once for each ingest mode that was ever deployed.                       *)
EachFileLandsOnce ==
    \A t \in TableNames :
        Cardinality({r.ingest_ts : r \in {x \in Now(t) : x.src \notin ProbeRows}})
            <= Cardinality(loaded[t])

(* One row per business key reaches silver, and only one whose reject      *)
(* predicates are all TRUE: NULL counts as a failure.                      *)
SilverIsClean ==
    \A t \in DOMAIN silver : \A r, s \in silver[t] :
        /\ Key(t, r.src) = Key(t, s.src) => r = s
        /\ \A rule \in RejectRules(t) : Predicate(rule, r.src) = "true"

(* A key is decided if in every upload the same row of it beats the others. *)
(* What becomes of another key is open: rows that tie are ordered by       *)
(* nothing, and a key that a replaced file changes is in neither table     *)
(* when a run fails between its two writes.                                *)
Latest(f, t, k) ==
    {s \in TypedFile(f, t) :
        /\ Key(t, s) = k
        /\ \A u \in TypedFile(f, t) : Key(t, u) = k => SequenceOf(t, u) <= SequenceOf(t, s)}

KeysOf(t) == {Key(t, s) : s \in UNION {TypedFile(f, t) : f \in Uploads}}

Decided ==
    [t \in TableNames |->
        {k \in KeysOf(t) :
            /\ \A f \in Uploads : Latest(f, t, k) # {}
            /\ Cardinality(UNION {Latest(f, t, k) : f \in Uploads}) = 1}]

Undecided == [t \in TableNames |-> KeysOf(t) \ Decided[t]]

RowsOf(t, rows, k) == {r \in rows : Key(t, r.src) = k}

(* Rows are diverted, never lost: the quarantine table is written after    *)
(* the silver table and from another evaluation, yet at every moment and   *)
(* after every failure each decided key is in exactly one of the two.      *)
RoutedOnce ==
    \A t \in DOMAIN quarantine : \A k \in Decided[t] :
        Cardinality(RowsOf(t, silver[t], k)) + Cardinality(RowsOf(t, quarantine[t], k)) = 1

(* "Recomputing it is always safe" (clean.py:8): a rebuild of a silver     *)
(* table, after a failure and even after another ingest mode has landed    *)
(* the table again, leaves every decided key as it was.                    *)
RebuildsChangeNothing ==
    [][\A t \in DOMAIN silver : \A k \in Decided[t] :
          /\ SourceRows(RowsOf(t, silver'[t], k)) = SourceRows(RowsOf(t, silver[t], k))
          /\ Cardinality(RowsOf(t, silver'[t], k)) = Cardinality(RowsOf(t, silver[t], k))]_vars

(* Every failing row that survives the deduplication is counted, under a   *)
(* warn rule too, and against the number of rows there were                *)
(* (transforms.py:128); only undecided keys leave it open.                 *)
FailingKeys ==
    [t \in TableNames |-> [rule \in RulesFor(t) |->
        {k \in Decided[t] : \A f \in Uploads : \A s \in Latest(f, t, k) :
            Predicate(rule, s) # "true"}]]

FailuresAreCounted ==
    [][\A d \in dq_results' \ dq_results :
          LET open == Cardinality(Undecided[d.table_name])
              failing == Cardinality(FailingKeys[d.table_name][d.rule_id])
              decided == Cardinality(Decided[d.table_name])
          IN  /\ d.rows_failed \in failing .. failing + open
              /\ d.rows_checked \in decided .. decided + 2 * open]_vars

(* A probe that reaches its last cell has left no row of its own anywhere, *)
(* and no row of the file is missing, whatever runs ingested, cleaned or   *)
(* failed while it was at work.                                            *)
Traces(rows) == SourceRows(rows) \cap ProbeSources

NoTraceLeft ==
    /\ Traces(Now(ProbeTable)) = {}
    /\ \A t \in DOMAIN silver : Traces(silver[t]) = {}
    /\ \A t \in DOMAIN quarantine : Traces(quarantine[t]) = {}

ProbeRestores ==
    task[Probe].phase \in {"verdict", "succeeded"} =>
        NoTraceLeft /\ landing[ProbeTable] \subseteq SourceRows(Now(ProbeTable))

(* The assertions of the probe are sound beside the job: with a file in    *)
(* which nothing fails a rule the eight rows are routed and counted as     *)
(* EXPECTED says, whatever runs do to the same tables meanwhile, and only  *)
(* a run that lands the table again after the restore makes the last cell  *)
(* report that bronze was not restored.                                    *)
LandedSinceRestore == \E r \in Now(ProbeTable) : r.ingest_ts > base.version + 1

ProbePasses ==
    /\ base.ok
    /\ task[Probe].phase = "verdict" => Unchanged \/ LandedSinceRestore

(* A probe eventually removes its rows everywhere, even if its assertions  *)
(* fail, unless it is lost: before its restore cell all of them stay, and  *)
(* after it those in silver and quarantine, until the next run cleans.     *)
ProbeCleansUp ==
    Traces(Now(ProbeTable)) # {} ~>
        \/ NoTraceLeft
        \/ /\ task[Probe].phase = "failed"
           /\ task[Probe].at = 1 \/ Traces(Now(ProbeTable)) = {}

(* A lost probe leaves its rows in bronze (98_dq_probe.py:17), where every *)
(* later run cleans them with the data: of all of them only the control    *)
(* row is ever published, and the rows of the file are where they belong.  *)
ProbeIsContained ==
    /\ \A t \in DOMAIN silver : \A r \in silver[t] :
          r.src \in ProbeSources => r.src.order_id = "dqprobe_8"
    /\ RoutedOnce
=============================================================================
