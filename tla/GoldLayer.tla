------------------------------- MODULE GoldLayer -------------------------------
(***************************************************************************)
(* The job from gold_dims to idempotency_check: CustomerDim composed with  *)
(* the gold_facts task, which replaces the three fact tables one commit at *)
(* a time from what dim_customer holds by then, and the idempotency check, *)
(* which fingerprints gold and fails the run if the previous run of the    *)
(* same run_date left another fingerprint.                                 *)
(*                                                                         *)
(* A failed run may be repaired, at any later time: it is taken up at the  *)
(* task that failed, under the run id and the parameters it has.           *)
(***************************************************************************)
EXTENDS CustomerDim, Facts, Sequences

CONSTANT MaxAttempts   \* how many attempts, first ones and repairs, there may be in all

ASSUME AttemptsAreCounted == MaxAttempts \in Nat

VARIABLES
    fact,         \* fact[table]: the rows of a fact table
    built,        \* how many fact tables the active attempt finds replaced
    captured,     \* the active attempt has fingerprinted gold; 0 and FALSE without one
    fingerprints, \* ops.gold_fingerprints, in the order of captured_at
    stoppedIn,    \* stoppedIn[r]: the task in which the last attempt to fail failed, or "none"
    attempts,     \* history: the runs, in the order of their attempts
    factsAsOf     \* history: lastDate when fact_order was last replaced, 0 before

attemptVars == <<built, captured, stoppedIn, attempts>>
goldVars == <<fact, fingerprints, factsAsOf, attemptVars>>
allVars == <<vars, goldVars>>

GoldInit ==
    /\ Init
    /\ fact = [t \in {FactTables[i] : i \in 1 .. 3} |-> {}]
    /\ built = 0
    /\ captured = FALSE
    /\ fingerprints = <<>>
    /\ stoppedIn = [r \in Runs |-> "none"]
    /\ attempts = <<>>
    /\ factsAsOf = 0

StartRun(r, date, day) ==
    /\ Start(r, date, day)
    /\ Len(attempts) < MaxAttempts
    /\ attempts' = Append(attempts, r)
    /\ UNCHANGED <<fact, fingerprints, factsAsOf, built, captured, stoppedIn>>

ApplyTask(r) == Apply(r) /\ UNCHANGED goldVars

(* gold_facts depends on cdc_apply. *)
FactsBesideCdc(r) ==   \* a bug: gold_facts depends on gold_dims only
    run[r].phase \in {"cdc_apply", "merge", "append", "applied"}

FactsMayBuild(r) == run[r].phase = "applied"

(* build_all: CREATE OR REPLACE, one table a commit.                       *)
BuildNextFact(r) ==
    /\ FactsMayBuild(r)
    /\ built < Len(FactTables)
    /\ LET table == FactTables[built + 1] IN
         /\ fact' = [fact EXCEPT ![table] = BuildFact(table, dim)]
         /\ factsAsOf' = IF table = "fact_order" THEN lastDate ELSE factsAsOf
    /\ built' = built + 1
    /\ UNCHANGED <<vars, captured, fingerprints, stoppedIn, attempts>>

(* check, first half: capture appends this run's fingerprint, also when an *)
(* earlier attempt of the run has appended one.                            *)
Capture(r) ==
    /\ run[r].phase = "applied"
    /\ built = Len(FactTables)
    /\ ~captured
    /\ captured' = TRUE
    /\ fingerprints' = Append(fingerprints,
                          [run_id |-> r, run_date |-> run[r].run_date,
                           print |-> Fingerprint(fact, dim)])
    /\ UNCHANGED <<vars, fact, built, stoppedIn, attempts, factsAsOf>>

(* check, second half: compare it with what the run with the latest        *)
(* fingerprint among the other runs of the run_date left; without one      *)
(* there is nothing to compare.                                            *)
EarlierOfAnyDate(r) ==   \* a bug: run_date is not compared
    {i \in DOMAIN fingerprints : fingerprints[i].run_id # r}

Earlier(r) ==
    {i \in DOMAIN fingerprints :
        fingerprints[i].run_date = run[r].run_date /\ fingerprints[i].run_id # r}

PreviousRun(r) == fingerprints[Max(Earlier(r))].run_id

(* `previous`: one dictionary from the rows of all attempts of the run, in *)
(* no order, so for each table the row of any attempt.                     *)
PrintsOf(p) ==
    {fingerprints[i].print : i \in {j \in DOMAIN fingerprints : fingerprints[j].run_id = p}}

ReadBack(p) ==
    LET now == Fingerprint(fact, dim) IN
    {was \in [DOMAIN now -> UNION {{f[t] : t \in DOMAIN f} : f \in PrintsOf(p)}] :
        \A t \in DOMAIN now : \E f \in PrintsOf(p) : was[t] = f[t]}

Green(r) ==
    Earlier(r) # {} =>
        \E was \in ReadBack(PreviousRun(r)) : was = Fingerprint(fact, dim)

Red(r) ==
    /\ Earlier(r) # {}
    /\ \E was \in ReadBack(PreviousRun(r)) : was # Fingerprint(fact, dim)

EndAttempt(r, task) ==
    /\ built' = 0 /\ captured' = FALSE
    /\ stoppedIn' = [stoppedIn EXCEPT ![r] = task]
    /\ UNCHANGED <<fact, fingerprints, factsAsOf, attempts>>

CheckIdempotency(r) ==
    /\ run[r].phase = "applied"
    /\ captured
    /\ \/ Green(r) /\ Finish(r) /\ EndAttempt(r, "none")
       \/ Red(r) /\ Fail(r) /\ EndAttempt(r, "idempotency_check")

-----------------------------------------------------------------------------
(* The task an active run is in.  After the last commit of a task it may   *)
(* still be in its last cells, and fail to log it, unless the attempt took *)
(* the run up after that task; analytics_views counts as the check.        *)
StillIn(task, r, later) == IF stoppedIn[r] \in later THEN {} ELSE {task}

TasksAt(r) ==
    CASE run[r].phase = "gold_dims" -> {"gold_dims"}
      [] run[r].phase = "cdc_apply" -> {"cdc_apply"} \cup StillIn("gold_dims", r, {"cdc_apply"})
      [] run[r].phase \in {"merge", "append"} -> {"cdc_apply"}
      [] run[r].phase = "applied" /\ built = 0 ->
           {"gold_facts"} \cup StillIn("cdc_apply", r, {"gold_facts", "idempotency_check"})
      [] run[r].phase = "applied" /\ built = Len(FactTables) /\ ~captured ->
           {"idempotency_check"} \cup StillIn("gold_facts", r, {"idempotency_check"})
      [] run[r].phase = "applied" /\ captured -> {"idempotency_check"}
      [] OTHER -> {"gold_facts"}

FailTask(r) == Fail(r) /\ \E task \in TasksAt(r) : EndAttempt(r, task)

(* A repair runs the failed task and those after it again.                 *)
ResumedPast(r) ==   \* a bug: a run that failed in cdc_apply is taken up after it
    IF stoppedIn[r] = "gold_dims" THEN "gold_dims" ELSE "applied"

ResumedAt(r) ==
    IF stoppedIn[r] \in {"gold_dims", "cdc_apply"} THEN stoppedIn[r] ELSE "applied"

Repair(r) ==
    /\ run[r].phase = "failed"
    /\ NoActiveRun
    /\ Len(attempts) < MaxAttempts
    /\ GoTo(r, ResumedAt(r))
    /\ built' = IF stoppedIn[r] = "idempotency_check" THEN Len(FactTables) ELSE 0
    /\ attempts' = Append(attempts, r)
    /\ backdated' = (backdated \/ ( /\ ResumedAt(r) # "applied"
                                    /\ run[r].cdc_day # 0
                                    /\ run[r].run_date < lastDate ))
    /\ UNCHANGED <<tables, lastDate, settled, torn, fact, fingerprints, factsAsOf, captured,
                   stoppedIn>>

GoldRest ==
    /\ \A r \in Runs : run[r].phase \in {"queued", "succeeded", "failed"}
    /\ Len(attempts) = MaxAttempts \/ \A r \in Runs : run[r].phase = "succeeded"
    /\ UNCHANGED allVars

GoldNext ==
    \/ \E r \in Runs :
         \/ \E date \in Dates, day \in Days \cup {0} : StartRun(r, date, day)
         \/ ApplyTask(r)
         \/ BuildNextFact(r)
         \/ Capture(r)
         \/ CheckIdempotency(r)
         \/ FailTask(r)
         \/ Repair(r)
    \/ GoldRest

GoldSpec == GoldInit /\ [][GoldNext]_allVars

-----------------------------------------------------------------------------
(* The fact tables hold fact rows, and fingerprints name runs.             *)
GoldTypeOK ==
    /\ built \in 0 .. 3 /\ captured \in BOOLEAN
    /\ \A r \in Runs : /\ run[r].phase = "failed" => stoppedIn[r] # "none"
                       /\ run[r].phase \in {"queued", "succeeded"} => stoppedIn[r] = "none"
    /\ \A t \in DOMAIN fact : \A f \in fact[t] :
          f.revenue \in Nat /\ f.customer_sk \in OrNull(Customers \X Nat)
    /\ \A i \in DOMAIN fingerprints : fingerprints[i].run_id \in Runs
    /\ factsAsOf \in Nat

(* The stated grains (facts.py:3): no purchase matches two versions, so no *)
(* fact row fans out, as long as change files are applied in date order.   *)
OneRowPerGrain ==
    ~backdated => \A t \in DOMAIN fact : \A f, g \in fact[t] : f.key = g.key => f = g

(* "0 unresolvable" (README.md:182): a fact row always points at a version *)
(* the dimension still has, and only the orders of someone whom a failed   *)
(* run left without a version can point at none.                           *)
PersonOf(order_id) ==
    {c.uid : c \in {x \in SilverCustomers :
                      \E o \in SilverOrders : o.order_id = order_id
                                              /\ o.customer_id = x.customer_id}}

EveryRowResolves ==
    \A t \in DOMAIN fact : \A f \in fact[t] :
        IF f.customer_sk = NULL THEN PersonOf(f.key[1]) \subseteq torn
        ELSE f.customer_sk \in {Sk(v) : v \in dim}

(* History is not restated (facts.py:26): when fact_order is replaced, an  *)
(* order bought before the last change date it was built with keeps the    *)
(* version it had, whatever was applied, and whoever failed, in between.   *)
HistoryNotRestated ==
    [][~backdated => \A f \in fact["fact_order"], g \in fact'["fact_order"] :
          \A o \in SilverOrders :
             f.key = <<o.order_id>> /\ g.key = <<o.order_id>> /\ o.purchased < factsAsOf =>
                f.customer_sk = g.customer_sk]_allVars

(* Gold is a function of silver and the dimension (decisions.md:147): once *)
(* a run has succeeded and none has started since, no fact table is older  *)
(* than the versions it should point at, however often the run had to be   *)
(* repaired, unless another run came between its attempts: a repair does   *)
(* not build again what the run had built before.                          *)
AttemptsOf(r) == {i \in DOMAIN attempts : attempts[i] = r}

Uninterleaved(r) ==
    \A i, j \in AttemptsOf(r) : \A k \in i .. j : attempts[k] = r

LastRun == attempts[Len(attempts)]

PublishedFactsAreCurrent ==
    attempts # <<>> /\ run[LastRun].phase = "succeeded" /\ Uninterleaved(LastRun) =>
        fact = BuildFacts(dim)

(* "What happens if the job runs twice?" (README.md:285): the check of a   *)
(* run that repeats the run before it, both its run_date and its change    *)
(* file, is green, whichever attempts the two took.                        *)
Unambiguous(file) == \A r \in file : r.uid # NULL /\ \E w \in file : w.uid = r.uid /\ Wins(w, file)

Repeats(r, p) ==
    /\ Uninterleaved(r) /\ Uninterleaved(p)
    /\ \E i \in AttemptsOf(r) : i > 1 /\ attempts[i - 1] = p
    /\ run[p].phase = "succeeded"
    /\ run[p].run_date = run[r].run_date
    /\ run[p].cdc_day = run[r].cdc_day
    /\ run[r].cdc_day # 0 => Unambiguous(landing[run[r].cdc_day])

RerunIsGreen ==
    [][\A r, p \in Runs : CheckIdempotency(r) /\ p # r /\ Repeats(r, p) =>
          run'[r].phase = "succeeded"]_allVars

(* What the check can and cannot see, while change files are applied in    *)
(* date order: it goes red if dim_customer has grown since every attempt   *)
(* of the last other run of its run_date was fingerprinted, and only if it *)
(* has since one of them; between the two, the order in which the rows of  *)
(* a repaired run are read decides.                                        *)
SameDate(i, r) ==
    fingerprints[i].run_id # r /\ fingerprints[i].run_date = run[r].run_date

Baselines(r) ==   \* the fingerprints of that run
    {i \in DOMAIN fingerprints : \E j \in DOMAIN fingerprints :
        /\ SameDate(j, r)
        /\ \A k \in DOMAIN fingerprints : k > j => ~SameDate(k, r)
        /\ fingerprints[i].run_id = fingerprints[j].run_id}

GrewSince(i) == fingerprints[i].print["dim_customer"][1] < Cardinality(dim)

RedIffDimensionGrew ==
    [][\A r \in Runs : ~backdated /\ CheckIdempotency(r) =>
          IF run'[r].phase = "failed" THEN \E i \in Baselines(r) : GrewSince(i)
          ELSE Baselines(r) = {} \/ \E i \in Baselines(r) : ~GrewSince(i)
      ]_allVars
=============================================================================
