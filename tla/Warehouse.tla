------------------------------- MODULE Warehouse -------------------------------
(***************************************************************************)
(* The whole job without its change feed (cdc_day = 0): landing volume,    *)
(* bronze, silver and the star schema, under runs that fail between any    *)
(* two commits, ingest in any mode, and find files that were replaced.     *)
(*                                                                         *)
(* BronzeSilver models a run up to the end of silver_clean; here it goes   *)
(* on with gold_dims and gold_facts, one commit per table, all of them     *)
(* read from silver as it is.  A failed run may be repaired, at any later  *)
(* time: it is taken up at the task that failed, and does not look at what *)
(* other runs have written meanwhile.                                      *)
(***************************************************************************)
EXTENDS BronzeSilver, StarSchema, Integers

CONSTANT MaxFailures   \* how many attempts, first ones and repairs, may fail in all

ASSUME FailuresAreBounded == MaxFailures \in Nat

(* Gold reads the tables of the whole registry.                            *)
ASSUME RegistryIsIngested == DOMAIN BusinessKey \subseteq TableNames

(* Prices are read as numbers, or not at all.                              *)
ASSUME PricesAreNumbers ==
    \A i \in UNION {f["order_items"] : f \in Uploads} :
        {Typed(i).price, Typed(i).freight_value} \subseteq Int \cup {NULL}

(* The surrogate key of a version is never NULL, nor is it for a person    *)
(* without an order.                                                       *)
UploadedTimes == {Typed(o).order_purchase_timestamp : o \in UNION {f["orders"] : f \in Uploads}}

ASSUME HashesAreNotNull ==
    \A c \in UNION {f["customers"] : f \in Uploads} : \A time \in {0} \cup UploadedTimes :
        Hash(<<Typed(c).customer_unique_id, time>>) # NULL

VARIABLES
    gold,       \* gold[t], once created
    stopped,    \* stopped[r]: the task in which r failed last, or "none"
    \* The four below are history: no action of the program reads them.
    failures,   \* how many attempts have failed
    missed,     \* missed[r]: the layers that others wrote since r failed, until somebody
                \* has brought the next layer up to date with them
    published,  \* what gold was built from, while it is whole: the silver tables and bronze
                \* rows, and the layers the run that finished it had missed
    seeded      \* the silver rows there were when dim_customer was seeded

goldVars == <<gold, stopped, failures, missed, published, seeded>>
wvars == <<vars, goldVars>>

Nothing == [silver |-> <<>>, bronze |-> <<>>, missed |-> {}]

WInit ==
    /\ Init
    /\ gold = <<>>
    /\ stopped = [r \in Runs |-> "none"]
    /\ failures = 0
    /\ missed = [r \in Runs |-> {}]
    /\ published = Nothing
    /\ seeded = <<>>

(* Layers written, and layers that all their readers have caught up with.  *)
Note(layers, caughtUp) ==
    missed' = [r \in Runs |->
        (missed[r] \cup (IF task[r].phase = "failed" THEN layers ELSE {})) \ caughtUp]

-----------------------------------------------------------------------------
(* bronze_ingest and silver_clean, as in BronzeSilver.                     *)
Ingest(r) ==
    /\ IngestTable(r)
    /\ Note(IF bronze' = bronze THEN {} ELSE {"bronze"}, {})
    /\ UNCHANGED <<gold, stopped, failures, published, seeded>>

CleanTables(r) ==
    /\ CleanStep(r)
    /\ Note(IF silver' = silver THEN {} ELSE {"silver"},
            IF task'[r].phase = "cleaned" THEN {"bronze"} ELSE {})
    /\ UNCHANGED <<gold, stopped, failures, published, seeded>>

AllRows(S) == [t \in DOMAIN S |-> Rows(S, t)]

(* CREATE OR REPLACE TABLE *)
CreateIfNotExists(G, t, rows) == G @@ t :> rows   \* a bug: CREATE TABLE IF NOT EXISTS

CreateOrReplace(G, t, rows) == Overwritten(G, t, rows)

(* The next table of gold_dims and gold_facts.  dim_date cannot be built   *)
(* without an order: its bounds are then NULL, and the task fails.         *)
FirstFact == 7   \* where gold_facts begins in GoldTables

BuildTable(r) ==
    LET t == GoldTables[task[r].at] IN
    /\ task[r].phase = "cleaned"
    /\ t = "dim_date" => silver["orders"] # {}
    /\ gold' = CreateOrReplace(gold, t, Build(t, silver, gold))
    /\ seeded' = IF t = "dim_customer" /\ (t \notin DOMAIN gold \/ gold[t] = {})
                 THEN AllRows(silver) ELSE seeded
    /\ Note({}, IF task[r].at + 1 = FirstFact THEN {"silver"} ELSE {})
    /\ IF task[r].at < Len(GoldTables)
       THEN /\ task' = [task EXCEPT ![r].at = @ + 1]
            /\ published' = Nothing
       ELSE /\ GoTo(r, "built")
            /\ published' = [silver |-> silver, bronze |-> [x \in TableNames |-> Now(x)],
                             missed |-> missed[r]]
    /\ UNCHANGED <<landing, bronze, loaded, silver, quarantine, dq_results, base, stopped,
                   failures>>

(* The tasks after gold_facts write no table of this module.               *)
FinishJob(r) ==
    /\ task[r].phase = "built"
    /\ GoTo(r, "succeeded")
    /\ UNCHANGED <<landing, bronze, loaded, silver, quarantine, dq_results, base, goldVars>>

-----------------------------------------------------------------------------
(* Where each task begins.  The tasks that write nothing here stand with   *)
(* the next one or the last: generate_deltas with bronze_ingest, cdc_apply *)
(* (which has no day to apply) with gold_facts, analytics_views with       *)
(* idempotency_check.                                                      *)
TaskStart ==
    [bronze_ingest |-> <<"ingest", 1>>, silver_clean |-> <<"count", 1>>,
     gold_dims |-> <<"cleaned", 1>>, gold_facts |-> <<"cleaned", FirstFact>>,
     idempotency_check |-> <<"built", 1>>]

(* The task a run is in.  After the last commit of a task it may still be  *)
(* in its last cells, and fail to log it, unless it was taken up after it. *)
StillIn(t, r, next) == IF stopped[r] = next THEN {} ELSE {t}

TasksAt(r) ==
    CASE task[r].phase = "ingest" -> {"bronze_ingest"}
      [] task[r].phase = "count" /\ task[r].at = 1 ->
           {"silver_clean"} \cup StillIn("bronze_ingest", r, "silver_clean")
      [] task[r].phase = "cleaned" /\ task[r].at = 1 ->
           {"gold_dims"} \cup StillIn("silver_clean", r, "gold_dims")
      [] task[r].phase = "cleaned" /\ task[r].at \in 2 .. FirstFact - 1 -> {"gold_dims"}
      [] task[r].phase = "cleaned" /\ task[r].at = FirstFact ->
           {"gold_facts"} \cup StillIn("gold_dims", r, "gold_facts")
      [] task[r].phase = "cleaned" /\ task[r].at > FirstFact -> {"gold_facts"}
      [] task[r].phase = "built" ->
           {"idempotency_check"} \cup StillIn("gold_facts", r, "idempotency_check")
      [] OTHER -> {"silver_clean"}

FailTask(r) ==
    /\ Active(r)
    /\ failures < MaxFailures
    /\ failures' = failures + 1
    /\ task' = [task EXCEPT ![r] = [Idle EXCEPT !.phase = "failed"]]
    /\ \E t \in TasksAt(r) : stopped' = [stopped EXCEPT ![r] = t]
    /\ UNCHANGED <<landing, bronze, loaded, silver, quarantine, dq_results, base, gold, missed,
                   published, seeded>>

(* The failed task and those after it run again, a repaired bronze_ingest  *)
(* in the mode that is deployed by now; no later task reads the mode.      *)
Repair(r) ==
    /\ task[r].phase = "failed"
    /\ \A q \in Runs : ~Active(q)
    /\ \E mode \in IF stopped[r] = "bronze_ingest" THEN Modes ELSE {"none"} :
          task' = [task EXCEPT ![r] = [Idle EXCEPT !.phase = TaskStart[stopped[r]][1],
                                                   !.at = TaskStart[stopped[r]][2],
                                                   !.mode = mode]]
    /\ UNCHANGED <<landing, bronze, loaded, silver, quarantine, dq_results, base, goldVars>>

WNext ==
    \/ ReplaceFiles /\ UNCHANGED goldVars
    \/ Rest /\ UNCHANGED goldVars
    \/ \E r \in Runs :
         \/ \E mode \in Modes : Start(r, mode) /\ UNCHANGED goldVars
         \/ Ingest(r)
         \/ CleanTables(r)
         \/ BuildTable(r)
         \/ FinishJob(r)
         \/ FailTask(r)
         \/ Repair(r)

WSpec == WInit /\ [][WNext]_wvars

-----------------------------------------------------------------------------
IsPublished == published # Nothing

(* v_reconciliation (10_reconciliation.sql): while gold was built from     *)
(* silver as it is, no join has duplicated a row, and the only rows and    *)
(* revenue missing from a fact are those of lines and payments whose order *)
(* silver does not have, quarantined or never landed.                      *)
Orphans(t) == {l \in Rows(silver, t) : OrderOf(silver, l) = {}}

Reconciles ==
    published.silver = silver /\ IsPublished =>
        /\ Cardinality(gold["fact_order"]) = Cardinality(silver["orders"])
        /\ Cardinality(gold["fact_order_item"]) + Cardinality(Orphans("order_items"))
             = Cardinality(silver["order_items"])
        /\ MapThenSumSet(LAMBDA f : f.item_revenue, gold["fact_order_item"])
             + Revenue(Orphans("order_items")) = Revenue(Rows(silver, "order_items"))
        /\ Cardinality(gold["fact_payment"]) + Cardinality(Orphans("order_payments"))
             = Cardinality(silver["order_payments"])

(* The declared foreign keys, which nothing enforces (facts.py:192): while *)
(* gold is whole, whatever silver was when each dimension was last built,  *)
(* a key in a fact is a key of its dimension.  Status, payment type and    *)
(* date are never missing, with one exception: the run that finished gold  *)
(* was repaired in gold_facts, and another had changed silver since it     *)
(* failed.  Then these three may be missing, and the date, which is looked *)
(* up nowhere, may be one that dim_date does not have.                     *)
Mandatory == {"order_status_sk", "payment_type_sk", "order_date_sk"}

Overtaken(layer) == layer \in published.missed

Resolves(fk) ==
    \A f \in gold[fk[1]] :
        \/ f[fk[2]] \in {d[fk[4]] : d \in gold[fk[3]]}
        \/ f[fk[2]] = NULL /\ fk[2] \notin Mandatory
        \/ Overtaken("silver") /\ (f[fk[2]] = NULL \/ fk[2] = "order_date_sk")

ReferencesResolve == IsPublished => \A fk \in ForeignKeys : Resolves(fk)

(* dim_customer is seeded once: whatever lands afterwards, an order that   *)
(* silver has now as it had it then, with its customer, finds a version.   *)
(* Only orders and people that came or were changed later may not.         *)
SeededOrdersResolve ==
    IsPublished =>
        \A f \in gold["fact_order"] :
            f.customer_sk = NULL =>
                \A o \in Rows(published.silver, "orders") : o.order_id = f.order_id =>
                    \/ o \notin seeded["orders"]
                    \/ ~\E c \in Rows(published.silver, "customers") \cap seeded["customers"] :
                           c.customer_id = o.customer_id

(* "The most recently landed copy wins" (clean.py:96): once gold is whole, *)
(* the silver tables it was built from have each valid row of the file     *)
(* that landed last in a table, unless another run landed it after the     *)
(* one that finished gold had failed, and did not come to clean it.  A     *)
(* table with a sequence column is different: there a correction that      *)
(* moves an order to an earlier time loses against what it corrects.       *)
LastLanded(rows) ==
    {r \in rows : \A q \in rows : q.ingest_ts <= r.ingest_ts}

Outranked(t, r, rows) ==
    \E q \in rows \ {r} :
        /\ SameKey(t, Typed(q.src), Typed(r.src))
        /\ \/ q.ingest_ts = r.ingest_ts
           \/ t \in DOMAIN SequenceCol /\ SequenceOf(t, Typed(q.src)) > SequenceOf(t, Typed(r.src))

Valid(t, row) == \A rule \in RejectRules(t) : Predicate(rule, row) = "true"

LandedFileIsPublished ==
    IsPublished /\ ~Overtaken("bronze") =>
        \A t \in TableNames : \A r \in LastLanded(published.bronze[t]) :
            Valid(t, Typed(r.src)) /\ ~Outranked(t, r, published.bronze[t])
                => Typed(r.src) \in Rows(published.silver, t)
=============================================================================
