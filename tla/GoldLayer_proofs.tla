---------------------------- MODULE GoldLayer_proofs ----------------------------
(***************************************************************************)
(* Proofs about GoldLayer: the invariants of the customer dimension hold   *)
(* under repairs too, and with them the grain of the fact tables; every    *)
(* fact row resolves, because the windows of a person leave no gap;        *)
(* published facts are those of the current dimension; and what the        *)
(* idempotency check can see, that it turns red when the dimension grew    *)
(* and green when a run repeats the one before it.                         *)
(***************************************************************************)
EXTENDS GoldLayer, CustomerDimRefinement_proofs

-----------------------------------------------------------------------------
(* The invariant of CustomerDim_proofs under repairs.  A repair may apply  *)
(* a change file long after later ones; it is in date order only if no     *)
(* later date has been seen since the run started, and then the run's date *)
(* is the last one, because it was seen when the run started.              *)
DatesSeen == \A r \in Runs : run[r].cdc_day # 0 => run[r].run_date <= lastDate

(* A step of the whole layer is a step of the dimension, or a repair.      *)
LEMMA GoldSteps ==
    ASSUME [GoldNext]_allVars
    PROVE  [Next]_vars \/ \E r \in Runs : Repair(r)
  BY DEF GoldNext, StartRun, ApplyTask, BuildNextFact, Capture, CheckIdempotency, FailTask,
         GoldRest, allVars, Next

LEMMA DatesSeenKept ==
    ASSUME IndInv, DatesSeen, [Next]_vars
    PROVE  DatesSeen' /\ (backdated => backdated')
  <1> USE DEF DatesSeen
  <1>1. ASSUME NEW r \in Runs, NEW date \in Dates, NEW day \in Days \cup {0}, Start(r, date, day)
        PROVE  DatesSeen' /\ (backdated => backdated')
    <2>a. \A d \in Dates \cup {0} : d \in Nat
      BY DatesAreTimes, EndOfTimeIsATime
    <2>b. \A q \in Runs : run[q].run_date \in Dates \cup {0}
      BY DEF IndInv, TypeOK, Run
    <2>c. lastDate \in Nat
      BY DEF IndInv, TypeOK
    <2>d. date \in Nat
      BY <2>a
    <2>e. \A q \in Runs : run[q].run_date \in Nat
      BY <2>a, <2>b
    <2>1. date \in Nat /\ lastDate \in Nat /\ \A q \in Runs : run[q].run_date \in Nat
      BY <2>c, <2>d, <2>e
    <2>2. /\ \A q \in Runs : q # r => run'[q] = run[q]
          /\ run'[r].run_date = date /\ run'[r].cdc_day = day
      BY <1>1 DEF Start, IndInv, TypeOK, Run
    <2>3. CASE day = 0
      BY <1>1, <2>2, <2>3 DEF Start
    <2>4. CASE day # 0
      <3>1. lastDate' = (IF date > lastDate THEN date ELSE lastDate) /\ (backdated => backdated')
        BY <1>1, <2>4 DEF Start
      <3>2. lastDate <= lastDate' /\ date <= lastDate' /\ lastDate' \in Nat
        BY <2>1, <3>1
      <3> QED
        BY <2>1, <2>2, <3>1, <3>2
    <2> QED
      BY <2>3, <2>4
  <1>2. ASSUME UNCHANGED <<lastDate, backdated>>,
               \A q \in Runs : /\ run'[q].run_date = run[q].run_date
                               /\ run'[q].cdc_day = run[q].cdc_day
        PROVE  DatesSeen' /\ (backdated => backdated')
    BY <1>2
  <1>3. ASSUME NEW r \in Runs, NEW phase, GoTo(r, phase)
        PROVE  \A q \in Runs : /\ run'[q].run_date = run[q].run_date
                               /\ run'[q].cdc_day = run[q].cdc_day
    BY <1>3 DEF GoTo, IndInv, TypeOK, Run
  <1>4. ASSUME NEW r \in Runs, SeedDim(r) \/ SkipCdc(r) \/ CloseSuperseded(r) \/ AppendVersions(r)
                               \/ Finish(r) \/ Fail(r)
        PROVE  DatesSeen' /\ (backdated => backdated')
    <2>1. UNCHANGED <<lastDate, backdated>> /\ \E phase : GoTo(r, phase)
      BY <1>4 DEF SeedDim, SkipCdc, CloseSuperseded, AppendVersions, Finish, Fail, history
    <2> QED
      BY <1>2, <1>3, <2>1
  <1>5. ASSUME NEW r \in Runs, StageChanges(r)
        PROVE  DatesSeen' /\ (backdated => backdated')
    <2>1. PICK actions : run' = [run EXCEPT ![r].phase = NextPass(actions, FALSE),
                                            ![r].actions = actions]
      BY <1>5 DEF StageChanges
    <2>2. \A q \in Runs : run'[q].run_date = run[q].run_date /\ run'[q].cdc_day = run[q].cdc_day
      BY <2>1 DEF IndInv, TypeOK, Run
    <2> QED
      BY <1>2, <1>5, <2>2 DEF StageChanges
  <1>6. CASE UNCHANGED vars
    BY <1>6 DEF vars, history
  <1> QED
    BY <1>1, <1>4, <1>5, <1>6 DEF Next, Apply, Rest

LEMMA RepairKeeps ==
    ASSUME IndInv, DatesSeen, NEW r \in Runs, Repair(r)
    PROVE  IndInv' /\ DatesSeen' /\ (backdated => backdated')
  <1> USE DEF IndInv
  <1>1. /\ UNCHANGED <<landing, dim, commit, staging, lastDate, settled, torn>>
        /\ \A q \in Runs : ~Active(q)
        /\ GoTo(r, ResumedAt(r)) /\ ResumedAt(r) \in {"gold_dims", "cdc_apply", "applied"}
    BY DEF Repair, NoActiveRun, tables, ResumedAt
  <1>2. /\ \A q \in Runs : run'[q].run_date = run[q].run_date /\ run'[q].cdc_day = run[q].cdc_day
        /\ \A q \in Runs : q # r => run'[q] = run[q]
        /\ run'[r].phase = ResumedAt(r)
        /\ run' \in [Runs -> Run]
    BY <1>1 DEF GoTo, TypeOK, Run, Phases
  <1>3. /\ backdated' \in BOOLEAN /\ (backdated => backdated')
        /\ ~backdated' /\ ResumedAt(r) # "applied" /\ run[r].cdc_day # 0
              => ~(run[r].run_date < lastDate)
    BY DEF Repair, TypeOK
  <1>4. TypeOK'
    BY <1>1, <1>2, <1>3 DEF TypeOK
  <1>5. \A q \in Runs : (Active(q)' => q = r) /\ (ToApply(q)' => q = r) /\ ~Writing(q)'
    BY <1>1, <1>2 DEF Active, ToApply, Writing
  <1>6. OneActive' /\ StagingFits'
    BY <1>5 DEF OneActive, StagingFits
  <1>7. AtMostOneCurrent' /\ CurrentIsOpen' /\ DisjointWindows'
    BY <1>1, <1>3 DEF AtMostOneCurrent, CurrentIsOpen, DisjointWindows, WindowsDisjoint
  <1>8. ToApply(r)' /\ run'[r].cdc_day # 0 /\ ~backdated' => run'[r].run_date = lastDate'
    <2>a. \A d \in Dates \cup {0} : d \in Nat
      BY DatesAreTimes, EndOfTimeIsATime
    <2>b. run[r].run_date \in Dates \cup {0} /\ lastDate \in Nat
      BY DEF TypeOK, Run
    <2>d. run[r].run_date \in Nat
      BY <2>a, <2>b
    <2>1. run[r].run_date \in Nat /\ lastDate \in Nat
      BY <2>b, <2>d
    <2>2. ToApply(r)' => ResumedAt(r) # "applied"
      BY <1>2 DEF ToApply
    <2>3. run[r].cdc_day # 0 => run[r].run_date <= lastDate
      BY DEF DatesSeen
    <2> QED
      BY <1>1, <1>2, <1>3, <2>1, <2>2, <2>3
  <1>9. ClosedByLastDate'
    BY <1>1, <1>3, <1>5, <1>8 DEF ClosedByLastDate
  <1>10. DatesSeen'
    BY <1>1, <1>2 DEF DatesSeen
  <1> QED
    BY <1>3, <1>4, <1>6, <1>7, <1>9, <1>10

(* Every variable of the dimension keeps its type, a person never has two  *)
(* current versions, and its windows never overlap unless change files     *)
(* were applied out of order, under repairs as well.                       *)
LEMMA GoldInvariance == GoldSpec => [](IndInv /\ DatesSeen)
  <1>1. GoldInit => IndInv /\ DatesSeen
    <2>1. Init => DatesSeen
      BY DEF Init, DatesSeen
    <2> QED
      BY <2>1, IndInit DEF GoldInit
  <1>2. IndInv /\ DatesSeen /\ [GoldNext]_allVars => IndInv' /\ DatesSeen'
    BY GoldSteps, IndKept, DatesSeenKept, RepairKeeps
  <1> QED
    BY <1>1, <1>2, PTL DEF GoldSpec

(* A person never has two current versions, even when failed runs are      *)
(* repaired long after other runs have changed the dimension.              *)
THEOREM RepairsKeepOneCurrent == GoldSpec => []AtMostOneCurrent
  <1>1. IndInv => AtMostOneCurrent
    BY DEF IndInv
  <1> QED
    BY <1>1, GoldInvariance, PTL

(* No instant lies in two versions of a person, unless a run or a repair   *)
(* applied a change file with an earlier run_date than one before it.      *)
THEOREM RepairsKeepWindowsDisjoint == GoldSpec => []DisjointWindows
  <1>1. IndInv => DisjointWindows
    BY DEF IndInv
  <1> QED
    BY <1>1, GoldInvariance, PTL

-----------------------------------------------------------------------------
(* The grain of the fact tables.                                           *)
OneRowPerFactKey(rows) == \A f, g \in rows : f.key = g.key => f = g

(* The point-in-time join never fans out while windows are disjoint.       *)
LEMMA PointInTimeIsSingle ==
    ASSUME dim \subseteq Version, WindowsDisjoint, NEW o \in SilverOrders,
           NEW v \in PointInTime(o, dim), NEW w \in PointInTime(o, dim)
    PROVE  v = w
  <1>1. CASE VersionsAt(o, dim) = {}
    BY <1>1 DEF PointInTime
  <1>2. CASE v \in VersionsAt(o, dim) /\ w \in VersionsAt(o, dim)
    <2>1. v \in dim /\ w \in dim /\ Covers(v, o.purchased) /\ Covers(w, o.purchased)
      BY <1>2 DEF VersionsAt
    <2>2. v.uid = w.uid /\ v.uid # NULL
      <3>1. PICK c \in SilverCustomers : c.customer_id = o.customer_id /\ c.uid = v.uid
        BY <1>2 DEF VersionsAt
      <3>2. PICK d \in SilverCustomers : d.customer_id = o.customer_id /\ d.uid = w.uid
        BY <1>2 DEF VersionsAt
      <3>3. c = d
        BY <3>1, <3>2, OneSilverRowPerKey
      <3> QED
        BY <3>1, <3>2, <3>3, SilverTypes, NullIsNotData
    <2>3. Overlap(v, w)
      <3>1. /\ v.effective_from \in Nat /\ v.effective_to \in Nat
            /\ w.effective_from \in Nat /\ w.effective_to \in Nat
        BY <2>1 DEF Version
      <3>2. o.purchased \in Nat
        BY SilverTypes
      <3> QED
        BY <2>1, <3>1, <3>2 DEF Covers, Overlap
    <2> QED
      BY <2>1, <2>2, <2>3 DEF WindowsDisjoint
  <1> QED
    BY <1>1, <1>2 DEF PointInTime

LEMMA FactOrderGrain ==
    ASSUME dim \subseteq Version, WindowsDisjoint
    PROVE  OneRowPerFactKey(FactOrder(dim))
  <1> SUFFICES ASSUME NEW f \in FactOrder(dim), NEW g \in FactOrder(dim), f.key = g.key
               PROVE  f = g
    BY DEF OneRowPerFactKey
  <1>1. PICK o \in SilverOrders : \E v \in PointInTime(o, dim) :
          f = FactRow(<<o.order_id>>, v, OrderTotal(o))
    BY DEF FactOrder
  <1>2. PICK p \in SilverOrders : \E w \in PointInTime(p, dim) :
          g = FactRow(<<p.order_id>>, w, OrderTotal(p))
    BY DEF FactOrder
  <1>3. f.key = <<o.order_id>> /\ g.key = <<p.order_id>>
    BY <1>1, <1>2 DEF FactRow
  <1>4. o.order_id = p.order_id
    <2>1. <<o.order_id>>[1] = <<p.order_id>>[1]
      BY <1>3
    <2> QED
      BY <2>1
  <1>5. o = p
    BY <1>4, OneSilverRowPerKey
  <1>6. PICK v \in PointInTime(o, dim) : f = FactRow(<<o.order_id>>, v, OrderTotal(o))
    BY <1>1
  <1>7. PICK w \in PointInTime(o, dim) : g = FactRow(<<o.order_id>>, w, OrderTotal(o))
    BY <1>2, <1>5
  <1>8. v = w
    BY PointInTimeIsSingle
  <1> QED
    BY <1>6, <1>7, <1>8

(* Items and payments: a line is known by its key, and its order is one.   *)
LEMMA FactLinesGrain ==
    ASSUME dim \subseteq Version, WindowsDisjoint,
           NEW lines, \A l, m \in lines : l.key = m.key => l = m
    PROVE  OneRowPerFactKey(FactLines(lines, dim))
  <1> SUFFICES ASSUME NEW f \in FactLines(lines, dim), NEW g \in FactLines(lines, dim),
                      f.key = g.key
               PROVE  f = g
    BY DEF OneRowPerFactKey
  <1>1. PICK l \in lines, o \in SilverOrders : \E v \in PointInTime(o, dim) :
          o.order_id = l.order_id /\ f = FactRow(l.key, v, l.revenue)
    BY DEF FactLines
  <1>2. PICK m \in lines, p \in SilverOrders : \E w \in PointInTime(p, dim) :
          p.order_id = m.order_id /\ g = FactRow(m.key, w, m.revenue)
    BY DEF FactLines
  <1>3. l = m
    BY <1>1, <1>2 DEF FactRow
  <1>4. o = p
    BY <1>1, <1>2, <1>3, OneSilverRowPerKey
  <1> QED
    BY <1>1, <1>2, <1>3, <1>4, PointInTimeIsSingle

LEMMA BuiltTableGrain ==
    ASSUME dim \subseteq Version, WindowsDisjoint,
           NEW table \in {"fact_order", "fact_order_item", "fact_payment"}
    PROVE  OneRowPerFactKey(BuildFact(table, dim))
  <1>1. CASE table = "fact_order"
    BY <1>1, FactOrderGrain DEF BuildFact
  <1>2. CASE table = "fact_order_item"
    <2>1. \A l, m \in {Line(i, i.item) : i \in SilverItems} : l.key = m.key => l = m
      BY OneSilverRowPerKey DEF Line
    <2>2. OneRowPerFactKey(FactOrderItem(dim))
      BY <2>1, FactLinesGrain DEF FactOrderItem
    <2> QED
      BY <1>2, <2>2 DEF BuildFact
  <1>3. CASE table = "fact_payment"
    <2>1. \A l, m \in {Line(p, p.seq) : p \in SilverPayments} : l.key = m.key => l = m
      BY OneSilverRowPerKey DEF Line
    <2>2. OneRowPerFactKey(FactPayment(dim))
      BY <2>1, FactLinesGrain DEF FactPayment
    <2> QED
      BY <1>3, <2>2 DEF BuildFact
  <1> QED
    BY <1>1, <1>2, <1>3

GrainInv == built \in 0 .. 3 /\ OneRowPerGrain

LEMMA TableNames ==
    ASSUME NEW n \in 0 .. 2
    PROVE  FactTables[n + 1] \in {"fact_order", "fact_order_item", "fact_payment"}
  <1>1. CASE n = 0
    BY <1>1 DEF FactTables
  <1>2. CASE n = 1
    BY <1>2 DEF FactTables
  <1>3. CASE n = 2
    BY <1>3 DEF FactTables
  <1> QED
    BY <1>1, <1>2, <1>3

LEMMA GrainStep ==
    ASSUME IndInv, GrainInv, NEW r \in Runs, BuildNextFact(r)
    PROVE  GrainInv'
  <1>1. /\ built < Len(FactTables) /\ built' = built + 1
        /\ fact' = [fact EXCEPT ![FactTables[built + 1]] =
                      BuildFact(FactTables[built + 1], dim)]
        /\ UNCHANGED backdated
    BY DEF BuildNextFact, vars, history
  <1>2. Len(FactTables) = 3
    BY DEF FactTables
  <1>3. built \in 0 .. 2 /\ built' \in 0 .. 3
    BY <1>1, <1>2 DEF GrainInv
  <1>4. FactTables[built + 1] \in {"fact_order", "fact_order_item", "fact_payment"}
    BY <1>3, TableNames
  <1>5. ~backdated => OneRowPerFactKey(BuildFact(FactTables[built + 1], dim))
    BY <1>4, BuiltTableGrain DEF IndInv, TypeOK, DisjointWindows
  <1>6. OneRowPerGrain'
    <2> SUFFICES ASSUME ~backdated, NEW t \in DOMAIN fact
                 PROVE  OneRowPerFactKey(fact'[t])
      BY <1>1 DEF OneRowPerGrain, OneRowPerFactKey
    <2>1. CASE t = FactTables[built + 1]
      BY <1>1, <1>5, <2>1
    <2>2. CASE t # FactTables[built + 1]
      BY <1>1, <2>2 DEF GrainInv, OneRowPerGrain, OneRowPerFactKey
    <2> QED
      BY <2>1, <2>2
  <1> QED
    BY <1>3, <1>6 DEF GrainInv

(* A step that replaces no fact table.                                     *)
LEMMA GrainKept ==
    ASSUME GrainInv, fact' = fact, built' \in 0 .. 3, backdated => backdated'
    PROVE  GrainInv'
  BY DEF GrainInv, OneRowPerGrain

LEMMA GrainInvariance == GoldSpec => []GrainInv
  <1>1. GoldInit => GrainInv
    BY DEF GoldInit, GrainInv, OneRowPerGrain
  <1>2. IndInv /\ DatesSeen /\ GrainInv /\ [GoldNext]_allVars => GrainInv'
    <2> SUFFICES ASSUME IndInv, DatesSeen, GrainInv, [GoldNext]_allVars
                 PROVE  GrainInv'
      OBVIOUS
    <2>1. backdated => backdated'
      BY GoldSteps, DatesSeenKept, RepairKeeps
    <2>2. ASSUME NEW r \in Runs, BuildNextFact(r)
          PROVE  GrainInv'
      BY <2>2, GrainStep
    <2>3. built \in 0 .. 3 /\ Len(FactTables) = 3
      BY DEF GrainInv, FactTables
    <2>4. ASSUME NEW r \in Runs, NEW date \in Dates, NEW day \in Days \cup {0},
                 StartRun(r, date, day)
          PROVE  GrainInv'
      BY <2>1, <2>3, <2>4, GrainKept DEF StartRun
    <2>5. ASSUME NEW r \in Runs, ApplyTask(r) \/ Capture(r)
          PROVE  GrainInv'
      BY <2>1, <2>3, <2>5, GrainKept DEF ApplyTask, Capture, goldVars, attemptVars
    <2>6. ASSUME NEW r \in Runs, CheckIdempotency(r) \/ FailTask(r)
          PROVE  GrainInv'
      <3>1. fact' = fact /\ built' = 0
        BY <2>6 DEF CheckIdempotency, FailTask, EndAttempt
      <3> QED
        BY <2>1, <3>1, GrainKept
    <2>7. ASSUME NEW r \in Runs, Repair(r)
          PROVE  GrainInv'
      <3>1. fact' = fact /\ built' \in {0, Len(FactTables)}
        BY <2>7 DEF Repair
      <3> QED
        BY <2>1, <2>3, <3>1, GrainKept
    <2>8. CASE UNCHANGED allVars
      BY <2>1, <2>3, <2>8, GrainKept DEF allVars, goldVars, attemptVars
    <2> QED
      BY <2>2, <2>4, <2>5, <2>6, <2>7, <2>8 DEF GoldNext, GoldRest
  <1> QED
    BY <1>1, <1>2, GoldInvariance, PTL DEF GoldSpec

(* The stated grains: whatever is changed, fails and is repaired, no fact  *)
(* row fans out, unless change files were applied out of date order.       *)
THEOREM FactsKeepTheirGrain == GoldSpec => []OneRowPerGrain
  <1>1. GrainInv => OneRowPerGrain
    BY DEF GrainInv
  <1> QED
    BY <1>1, GrainInvariance, PTL

-----------------------------------------------------------------------------
(***************************************************************************)
(* Every purchase finds its person.  From the first order on, a version of *)
(* each person covers every instant, or the append that is to come does:   *)
(* the MERGE takes from a window exactly what the next one begins with.    *)
(***************************************************************************)
CoveredAt(u, t) == \E v \in dim : v.uid = u /\ Covers(v, t)

ComingAt(u, t) ==
    \E r \in Runs : run[r].phase = "append" /\ \E k \in KeysToClose(staging) :
        k.uid = u /\ k.closed_at <= t

AlwaysCovered ==
    Everyone => \A u \in People \ torn : \A t \in Nat :
        t < EndOfTime /\ (\A first \in FirstOrders(u) : first <= t) =>
            CoveredAt(u, t) \/ ComingAt(u, t)

(* The seed is behind every run that comes to the change feed, repaired    *)
(* runs included.                                                          *)
SeedIsBehind ==
    /\ dim # {} => Everyone
    /\ \A r \in Runs : run[r].phase \in {"cdc_apply", "merge", "append", "applied"} => Everyone
    /\ \A r \in Runs : run[r].phase = "failed" /\ stoppedIn[r] # "gold_dims" => Everyone

(* A step that leaves the tables alone while nobody is between two passes. *)
LEMMA QuietKeepsCovered ==
    ASSUME AlwaysCovered, UNCHANGED dim, torn \subseteq torn', \A u : ~BetweenPasses(u)
    PROVE  AlwaysCovered'
  <1>1. \A u, t : ~ComingAt(u, t)
    BY DEF BetweenPasses, ComingAt
  <1> QED
    BY <1>1 DEF AlwaysCovered, Everyone, CoveredAt

LEMMA SeedKeepsCovered ==
    ASSUME IndInv, NEW r \in Runs, SeedDim(r), dim = {}
    PROVE  AlwaysCovered'
  <1> SUFFICES ASSUME NEW u \in People, NEW t \in Nat, t < EndOfTime,
                      \A first \in FirstOrders(u) : first <= t
               PROVE  CoveredAt(u, t)'
    BY DEF AlwaysCovered
  <1>1. PICK v \in dim' : v.uid = u
    BY SeededRows DEF IndInv
  <1>2. v.effective_from \in FirstOrders(u) /\ v.effective_to = EndOfTime
    BY <1>1, SeededRows DEF IndInv
  <1>3. v.effective_from <= t
    BY <1>2
  <1> QED
    BY <1>1, <1>2, <1>3 DEF CoveredAt, Covers

LEMMA CloseKeepsCovered ==
    ASSUME IndInv, NobodyLost, AlwaysCovered, Everyone, NEW r \in Runs, CloseSuperseded(r)
    PROVE  AlwaysCovered'
  <1> SUFFICES ASSUME NEW u \in People \ torn, NEW t \in Nat, t < EndOfTime,
                      \A first \in FirstOrders(u) : first <= t
               PROVE  CoveredAt(u, t)' \/ ComingAt(u, t)'
    BY DEF AlwaysCovered, CloseSuperseded
  <1>1. /\ Active(r) /\ Writing(r) /\ run[r].phase = "merge" /\ UNCHANGED staging
        /\ GoTo(r, NextPass(run[r].actions, TRUE))
    BY DEF CloseSuperseded, Active, Writing
  <1>2. ~ComingAt(u, t)
    BY <1>1, NobodyBetweenPasses DEF BetweenPasses, ComingAt
  <1>3. PICK v \in dim : v.uid = u /\ Covers(v, t)
    BY <1>2 DEF AlwaysCovered, CoveredAt
  <1>4. PICK w \in dim' : Merged(v, w, run[r].run_date)
    BY MergeIsImage
  <1>5. v \in Version /\ v.effective_from \in Nat
    BY DEF IndInv, TypeOK, Version
  <1>6. CASE w = v
    BY <1>3, <1>4, <1>6 DEF CoveredAt
  <1>7. CASE w # v
    <2>1. /\ w.uid = u /\ w.effective_from = v.effective_from
          /\ w.effective_to = run[r].run_date
      BY <1>3, <1>4, <1>5, <1>7, MergedFields
    <2>2. PICK k \in KeysToClose(staging) : k.uid = u
      BY <1>3, <1>4, <1>7 DEF Merged
    <2>3. k.closed_at = run[r].run_date /\ k.closed_at \in Nat
      <3>1. k.closed_at = run[r].run_date
        BY <1>1 DEF IndInv, StagingFits, KeysToClose
      <3>2. k.closed_at \in Nat
        BY KeysToCloseType DEF IndInv, TypeOK
      <3> QED
        BY <3>1, <3>2
    <2>4. CASE t < run[r].run_date
      BY <1>3, <2>1, <2>4 DEF CoveredAt, Covers
    <2>5. CASE run[r].run_date <= t
      <3>1. run[r].actions = {s.action : s \in staging}
        BY <1>1 DEF NobodyLost, ActionsCounted
      <3>2. run'[r].phase = NextPass(run[r].actions, TRUE)
        BY <1>1, Moved DEF IndInv
      <3>3. PICK s \in staging : s.action \in {"changed", "deleted"}
        BY <2>2 DEF KeysToClose
      <3>4. run'[r].phase = "append"
        BY <3>1, <3>2, <3>3 DEF NextPass
      <3> QED
        BY <1>1, <2>2, <2>3, <2>5, <3>4 DEF ComingAt
    <2> QED
      BY <2>3, <2>4, <2>5
  <1> QED
    BY <1>6, <1>7

LEMMA AppendKeepsCovered ==
    ASSUME IndInv, AlwaysCovered, Everyone, NEW r \in Runs, AppendVersions(r)
    PROVE  AlwaysCovered'
  <1> SUFFICES ASSUME NEW u \in People \ torn, NEW t \in Nat, t < EndOfTime,
                      \A first \in FirstOrders(u) : first <= t
               PROVE  CoveredAt(u, t)'
    BY DEF AlwaysCovered, AppendVersions
  <1>1. Writing(r) /\ dim' = dim \cup NewVersions(staging, commit')
    BY DEF AppendVersions, Writing
  <1>2. CASE CoveredAt(u, t)
    BY <1>1, <1>2 DEF CoveredAt
  <1>3. CASE ComingAt(u, t)
    <2>1. PICK k \in KeysToClose(staging) : k.uid = u /\ k.closed_at <= t
      BY <1>3 DEF ComingAt
    <2>2. PICK s \in staging : /\ s.uid = u /\ s.effective_from = k.closed_at
                               /\ s.action \in {"changed", "deleted"}
      BY <2>1 DEF KeysToClose
    <2>3. NewVersion(s, commit') \in dim'
      BY <1>1, <2>2 DEF NewVersions
    <2>4. /\ NewVersion(s, commit').uid = u
          /\ NewVersion(s, commit').effective_from = k.closed_at
          /\ NewVersion(s, commit').effective_to = EndOfTime
      BY <2>2 DEF NewVersion
    <2> QED
      BY <2>1, <2>3, <2>4 DEF CoveredAt, Covers
  <1> QED
    BY <1>2, <1>3 DEF AlwaysCovered

LEMMA CoveredKept ==
    ASSUME IndInv, NobodyLost, SeedIsBehind, AlwaysCovered, [Next]_vars
    PROVE  AlwaysCovered'
  <1>1. ASSUME NEW r \in Runs, NEW date \in Dates, NEW day \in Days \cup {0},
               Start(r, date, day)
        PROVE  AlwaysCovered'
    <2>1. \A u : ~BetweenPasses(u)
      BY <1>1 DEF Start, NoActiveRun, Active, BetweenPasses
    <2> QED
      BY <1>1, <2>1, QuietKeepsCovered DEF Start, tables
  <1>2. ASSUME NEW r \in Runs, Active(r), run[r].phase # "append", UNCHANGED <<dim, torn>>
        PROVE  AlwaysCovered'
    BY <1>2, NobodyBetweenPasses, QuietKeepsCovered
  <1>3. ASSUME NEW r \in Runs, SeedDim(r)
        PROVE  AlwaysCovered'
    <2>1. CASE dim = {}
      BY <1>3, <2>1, SeedKeepsCovered
    <2>2. CASE dim # {}
      BY <1>2, <1>3, <2>2 DEF SeedDim, Active, history
    <2> QED
      BY <2>1, <2>2
  <1>4. ASSUME NEW r \in Runs, SkipCdc(r) \/ StageChanges(r) \/ Finish(r)
        PROVE  AlwaysCovered'
    BY <1>2, <1>4 DEF SkipCdc, StageChanges, Finish, Active, tables, history
  <1>5. ASSUME NEW r \in Runs, CloseSuperseded(r)
        PROVE  AlwaysCovered'
    BY <1>5, CloseKeepsCovered DEF SeedIsBehind, CloseSuperseded
  <1>6. ASSUME NEW r \in Runs, AppendVersions(r)
        PROVE  AlwaysCovered'
    BY <1>6, AppendKeepsCovered DEF SeedIsBehind, AppendVersions
  <1>7. ASSUME NEW r \in Runs, Fail(r)
        PROVE  AlwaysCovered'
    <2>1. Active(r) /\ UNCHANGED <<dim, staging>> /\ torn \subseteq torn'
      BY <1>7 DEF Fail, tables
    <2>2. CASE run[r].phase # "append"
      BY <2>1, <2>2, NobodyBetweenPasses, QuietKeepsCovered
    <2>3. CASE run[r].phase = "append"
      <3>1. \A u, t : ComingAt(u, t) => u \in torn'
        BY <1>7, <2>3 DEF Fail, ComingAt
      <3> QED
        BY <2>1, <3>1 DEF AlwaysCovered, Everyone, CoveredAt
    <2> QED
      BY <2>2, <2>3
  <1>8. CASE UNCHANGED vars
    BY <1>8 DEF vars, tables, history, AlwaysCovered, Everyone, CoveredAt, ComingAt
  <1> QED
    BY <1>1, <1>3, <1>4, <1>5, <1>6, <1>7, <1>8 DEF Next, Apply, Rest

(* Rows are never lost, and never change the key they are joined by.       *)
LEMMA KeysStay ==
    ASSUME IndInv, [Next]_vars
    PROVE  \A v \in dim : \E w \in dim' : w.uid = v.uid /\ Sk(w) = Sk(v)
  <1>1. CASE UNCHANGED dim
    BY <1>1
  <1>2. ASSUME NEW r \in Runs, CloseSuperseded(r), NEW v \in dim
        PROVE  \E w \in dim' : w.uid = v.uid /\ Sk(w) = Sk(v)
    <2>1. PICK w \in dim' : Merged(v, w, run[r].run_date)
      BY <1>2, MergeIsImage
    <2> QED
      BY <2>1, MergedFields DEF IndInv, TypeOK, Sk
  <1>3. ASSUME NEW r \in Runs, SeedDim(r) \/ AppendVersions(r)
        PROVE  \A v \in dim : v \in dim'
    BY <1>3 DEF SeedDim, AppendVersions
  <1> QED
    BY <1>1, <1>2, <1>3
       DEF Next, Apply, Start, SkipCdc, StageChanges, Finish, Fail, Rest, vars, tables

LEMMA TornStays == ASSUME [Next]_vars PROVE torn \subseteq torn'
  BY DEF Next, Apply, Start, SeedDim, SkipCdc, StageChanges, CloseSuperseded, AppendVersions,
         Finish, Fail, Rest, vars, tables, history

StoppedTyped ==
    stoppedIn \in [Runs -> {"none", "gold_dims", "cdc_apply", "gold_facts", "idempotency_check"}]

LEMMA TasksTyped ==
    ASSUME NEW r \in Runs
    PROVE  /\ TasksAt(r) \subseteq {"gold_dims", "cdc_apply", "gold_facts", "idempotency_check"}
           /\ run[r].phase = "gold_dims" => TasksAt(r) = {"gold_dims"}
  BY DEF TasksAt, StillIn

LEMMA StoppedKept ==
    ASSUME StoppedTyped, [GoldNext]_allVars
    PROVE  StoppedTyped'
  <1>1. ASSUME NEW r \in Runs, NEW task \in {"none", "gold_dims", "cdc_apply", "gold_facts",
                                             "idempotency_check"},
               stoppedIn' = [stoppedIn EXCEPT ![r] = task]
        PROVE  StoppedTyped'
    BY <1>1 DEF StoppedTyped
  <1>2. ASSUME NEW r \in Runs, FailTask(r)
        PROVE  StoppedTyped'
    BY <1>1, <1>2, TasksTyped DEF FailTask, EndAttempt
  <1>3. ASSUME NEW r \in Runs, CheckIdempotency(r)
        PROVE  StoppedTyped'
    BY <1>1, <1>3 DEF CheckIdempotency, EndAttempt
  <1>4. CASE UNCHANGED stoppedIn
    BY <1>4 DEF StoppedTyped
  <1> QED
    BY <1>2, <1>3, <1>4
       DEF GoldNext, StartRun, ApplyTask, BuildNextFact, Capture, Repair, GoldRest, allVars,
           goldVars, attemptVars

LEMMA EveryoneStays ==
    ASSUME IndInv, Everyone, [Next]_vars \/ UNCHANGED dim
    PROVE  Everyone'
  BY KeysStay DEF Everyone

LEMMA SeedStaysBehind ==
    ASSUME IndInv, StoppedTyped, SeedIsBehind, [GoldNext]_allVars
    PROVE  SeedIsBehind'
  <1>1. CASE Everyone'
    BY <1>1 DEF SeedIsBehind
  <1>2. [Next]_vars \/ UNCHANGED dim
    BY GoldSteps DEF Repair, tables
  <1>3. CASE Everyone
    BY <1>1, <1>2, <1>3, EveryoneStays
  <1>4. ASSUME ~Everyone, dim' = dim, NEW r \in Runs,
               \A q \in Runs : q # r => run'[q] = run[q] /\ stoppedIn'[q] = stoppedIn[q],
               \/ run'[r].phase = "gold_dims"
               \/ run'[r].phase = "failed" /\ stoppedIn'[r] = "gold_dims"
        PROVE  SeedIsBehind'
    BY <1>4 DEF SeedIsBehind, Everyone
  <1>5. ASSUME NEW r \in Runs, NEW date \in Dates, NEW day \in Days \cup {0},
               StartRun(r, date, day)
        PROVE  SeedIsBehind'
    <2>1. /\ \A q \in Runs : q # r => run'[q] = run[q]
          /\ run'[r].phase = "gold_dims"
      BY <1>5 DEF StartRun, Start, IndInv, TypeOK, Run
    <2> QED
      BY <1>3, <1>4, <1>5, <2>1 DEF StartRun, Start, tables
  <1>6. ASSUME NEW r \in Runs, ApplyTask(r)
        PROVE  SeedIsBehind'
    <2>1. CASE run[r].phase # "gold_dims"
      BY <1>3, <1>6, <2>1
         DEF SeedIsBehind, ApplyTask, Apply, SeedDim, SkipCdc, StageChanges, CloseSuperseded,
             AppendVersions
    <2>2. CASE run[r].phase = "gold_dims"
      <3>1. SeedDim(r)
        BY <1>6, <2>2
           DEF ApplyTask, Apply, SkipCdc, StageChanges, CloseSuperseded, AppendVersions
      <3>2. CASE dim # {}
        BY <1>3, <3>2 DEF SeedIsBehind
      <3>3. CASE dim = {}
        BY <1>1, <3>1, <3>3, SeededRows DEF IndInv, Everyone
      <3> QED
        BY <3>2, <3>3
    <2> QED
      BY <2>1, <2>2
  <1>7. ASSUME UNCHANGED <<run, dim, stoppedIn>>
        PROVE  SeedIsBehind'
    BY <1>7 DEF SeedIsBehind, Everyone
  <1>8. ASSUME NEW r \in Runs, CheckIdempotency(r)
        PROVE  SeedIsBehind'
    BY <1>3, <1>8 DEF CheckIdempotency, SeedIsBehind
  <1>9. ASSUME NEW r \in Runs, FailTask(r)
        PROVE  SeedIsBehind'
    <2>1. /\ Active(r) /\ GoTo(r, "failed") /\ UNCHANGED dim
          /\ \E task \in TasksAt(r) : stoppedIn' = [stoppedIn EXCEPT ![r] = task]
      BY <1>9 DEF FailTask, Fail, EndAttempt, tables
    <2>2. CASE run[r].phase # "gold_dims"
      <3>1. run[r].phase \in {"cdc_apply", "merge", "append", "applied"}
        <4>1. run[r].phase \in Phases
          BY DEF IndInv, TypeOK, Run
        <4> QED
          BY <2>1, <2>2, <4>1 DEF Active, Phases
      <3> QED
        BY <1>3, <3>1 DEF SeedIsBehind
    <2>3. CASE run[r].phase = "gold_dims"
      <3>1. stoppedIn' = [stoppedIn EXCEPT ![r] = "gold_dims"]
        BY <2>1, <2>3, TasksTyped
      <3>2. /\ \A q \in Runs : q # r => run'[q] = run[q]
            /\ run'[r].phase = "failed"
        BY <2>1, Moved DEF IndInv
      <3>3. /\ stoppedIn'[r] = "gold_dims"
            /\ \A q \in Runs : q # r => stoppedIn'[q] = stoppedIn[q]
        BY <3>1 DEF StoppedTyped
      <3> QED
        BY <1>3, <1>4, <2>1, <3>2, <3>3
    <2> QED
      BY <2>2, <2>3
  <1>10. ASSUME NEW r \in Runs, Repair(r)
         PROVE  SeedIsBehind'
    <2>1. run[r].phase = "failed" /\ GoTo(r, ResumedAt(r)) /\ UNCHANGED <<dim, stoppedIn>>
      BY <1>10 DEF Repair, tables
    <2>2. CASE stoppedIn[r] # "gold_dims"
      BY <1>3, <2>1, <2>2 DEF SeedIsBehind
    <2>3. CASE stoppedIn[r] = "gold_dims"
      <3>1. /\ \A q \in Runs : q # r => run'[q] = run[q]
            /\ run'[r].phase = "gold_dims"
        BY <2>1, <2>3, Moved DEF IndInv, ResumedAt
      <3> QED
        BY <1>3, <1>4, <2>1, <3>1
    <2> QED
      BY <2>2, <2>3
  <1> QED
    BY <1>5, <1>6, <1>7, <1>8, <1>9, <1>10
       DEF GoldNext, BuildNextFact, Capture, GoldRest, allVars, goldVars, attemptVars, vars, tables

(* A repair finds nobody between two passes and leaves nobody there.       *)
LEMMA RepairLosesNobody ==
    ASSUME IndInv, NobodyLost, AlwaysCovered, NEW r \in Runs, Repair(r)
    PROVE  NobodyLost' /\ AlwaysCovered'
  <1>1. /\ UNCHANGED <<dim, staging, torn>> /\ \A q \in Runs : ~Active(q)
        /\ GoTo(r, ResumedAt(r)) /\ ResumedAt(r) \in {"gold_dims", "cdc_apply", "applied"}
    BY DEF Repair, NoActiveRun, tables, ResumedAt
  <1>2. /\ \A q \in Runs : q # r => run'[q] = run[q]
        /\ run'[r].phase = ResumedAt(r)
    BY <1>1, Moved DEF IndInv
  <1>3. ~Writing(r)' /\ run[r].phase # "append"
    BY <1>1, <1>2 DEF Writing, Active
  <1>4. \A u : ~BetweenPasses(u)
    BY <1>1 DEF BetweenPasses, Active
  <1> QED
    BY <1>1, <1>2, <1>3, <1>4, QuietKeepsEveryone, QuietKeepsCovered

(* A table replaced when nobody is between two passes resolves.            *)
LEMMA BuiltRowResolves ==
    ASSUME IndInv, NEW o \in SilverOrders, NEW v \in PointInTime(o, dim),
           VersionsAt(o, dim) = {} => PersonOf(o.order_id) \subseteq torn,
           NEW key, key[1] = o.order_id, NEW revenue
    PROVE  LET f == FactRow(key, v, revenue) IN
           IF f.customer_sk = NULL THEN PersonOf(f.key[1]) \subseteq torn
           ELSE f.customer_sk \in {Sk(w) : w \in dim}
  <1> DEFINE f == FactRow(key, v, revenue)
  <1>1. f.key = key /\ f.customer_sk = IF v.uid = NULL THEN NULL ELSE Sk(v)
    BY DEF FactRow
  <1>2. CASE VersionsAt(o, dim) = {}
    <2>1. v.uid = NULL
      BY <1>2 DEF PointInTime, Unresolved
    <2> QED
      BY <1>1, <1>2, <2>1
  <1>3. CASE v \in VersionsAt(o, dim)
    <2>1. v \in dim /\ v \in Version
      BY <1>3 DEF VersionsAt, IndInv, TypeOK
    <2>2. v.uid \in Customers
      BY <1>3, SilverTypes DEF VersionsAt
    <2>3. v.uid # NULL
      BY <2>2, NullIsNotData
    <2>4. Sk(v) # NULL
      BY <2>1, <2>2, NullIsNoKey DEF Sk, Version
    <2> QED
      BY <1>1, <2>1, <2>3, <2>4
  <1> QED
    BY <1>2, <1>3 DEF PointInTime

LEMMA PurchasesAreCovered ==
    ASSUME IndInv, SeedIsBehind, AlwaysCovered, NEW r \in Runs, run[r].phase = "applied",
           NEW o \in SilverOrders, VersionsAt(o, dim) = {}
    PROVE  PersonOf(o.order_id) \subseteq torn
  <1> SUFFICES ASSUME NEW u \in PersonOf(o.order_id), u \notin torn
               PROVE  FALSE
    OBVIOUS
  <1>1. PICK c \in SilverCustomers : c.uid = u /\ c.customer_id = o.customer_id
    BY OneSilverRowPerKey DEF PersonOf
  <1>2. u \in People /\ o \in OrdersOf(u)
    BY <1>1 DEF People, OrdersOf, RecordsOf, OrdersOfRecord
  <1>3. \A first \in FirstOrders(u) : first <= o.purchased
    BY <1>2, SilverTypes DEF FirstOrders
  <1>4. o.purchased \in Nat /\ o.purchased < EndOfTime
    BY SilverTypes, PurchasesHaveATime
  <1>5. Everyone
    BY DEF SeedIsBehind
  <1>6. ~ComingAt(u, o.purchased)
    <2>1. Active(r) /\ run[r].phase # "append"
      BY DEF Active
    <2> QED
      BY <2>1, NobodyBetweenPasses DEF BetweenPasses, ComingAt
  <1>7. PICK v \in dim : v.uid = u /\ Covers(v, o.purchased)
    BY <1>2, <1>3, <1>4, <1>5, <1>6 DEF AlwaysCovered, CoveredAt
  <1> QED
    BY <1>1, <1>7 DEF VersionsAt

LEMMA BuiltTableResolves ==
    ASSUME IndInv, SeedIsBehind, AlwaysCovered, NEW r \in Runs, run[r].phase = "applied",
           NEW table \in {"fact_order", "fact_order_item", "fact_payment"},
           NEW f \in BuildFact(table, dim)
    PROVE  IF f.customer_sk = NULL THEN PersonOf(f.key[1]) \subseteq torn
           ELSE f.customer_sk \in {Sk(v) : v \in dim}
  <1>1. \A o \in SilverOrders : VersionsAt(o, dim) = {} => PersonOf(o.order_id) \subseteq torn
    BY PurchasesAreCovered
  <1>2. CASE f \in FactOrder(dim)
    <2>1. PICK o \in SilverOrders : \E v \in PointInTime(o, dim) :
            f = FactRow(<<o.order_id>>, v, OrderTotal(o))
      BY <1>2 DEF FactOrder
    <2>2. <<o.order_id>>[1] = o.order_id
      OBVIOUS
    <2> QED
      BY <1>1, <2>1, <2>2, BuiltRowResolves
  <1>3. ASSUME NEW lines, f \in FactLines(lines, dim),
               \A l \in lines : l.key[1] = l.order_id
        PROVE  IF f.customer_sk = NULL THEN PersonOf(f.key[1]) \subseteq torn
               ELSE f.customer_sk \in {Sk(v) : v \in dim}
    <2>1. PICK l \in lines, o \in SilverOrders : \E v \in PointInTime(o, dim) :
            o.order_id = l.order_id /\ f = FactRow(l.key, v, l.revenue)
      BY <1>3 DEF FactLines
    <2>2. l.key[1] = o.order_id
      BY <1>3, <2>1
    <2> QED
      BY <1>1, <2>1, <2>2, BuiltRowResolves
  <1>4. \A l, n : Line(l, n).key[1] = Line(l, n).order_id
    BY DEF Line
  <1>5. \/ f \in FactOrder(dim)
        \/ f \in FactLines({Line(i, i.item) : i \in SilverItems}, dim)
        \/ f \in FactLines({Line(p, p.seq) : p \in SilverPayments}, dim)
    BY DEF BuildFact, FactOrderItem, FactPayment
  <1> QED
    BY <1>2, <1>3, <1>4, <1>5

(* A row that resolved still does after a step that loses no key and       *)
(* recalls nobody from torn.                                               *)
ResolvesNow(f) ==
    IF f.customer_sk = NULL THEN PersonOf(f.key[1]) \subseteq torn
    ELSE f.customer_sk \in {Sk(v) : v \in dim}

LEMMA RowStaysResolved ==
    ASSUME NEW f, ResolvesNow(f), torn \subseteq torn',
           \A v \in dim : \E w \in dim' : w.uid = v.uid /\ Sk(w) = Sk(v)
    PROVE  ResolvesNow(f)'
  BY DEF ResolvesNow, PersonOf

LEMMA ResolveKept ==
    ASSUME IndInv, SeedIsBehind, AlwaysCovered, built \in 0 .. 3, EveryRowResolves,
           [GoldNext]_allVars
    PROVE  EveryRowResolves'
  <1>1. EveryRowResolves <=> \A t \in DOMAIN fact : \A f \in fact[t] : ResolvesNow(f)
    BY DEF EveryRowResolves, ResolvesNow
  <1>2. EveryRowResolves' <=> \A t \in DOMAIN fact' : \A f \in fact'[t] : ResolvesNow(f)'
    BY DEF EveryRowResolves, ResolvesNow
  <1>3. CASE fact' = fact
    <2>1. [Next]_vars \/ UNCHANGED <<dim, torn>>
      BY GoldSteps DEF Repair, tables
    <2>2. /\ torn \subseteq torn'
          /\ \A v \in dim : \E w \in dim' : w.uid = v.uid /\ Sk(w) = Sk(v)
      BY <2>1, KeysStay, TornStays
    <2> QED
      BY <1>1, <1>2, <1>3, <2>2, RowStaysResolved
  <1>4. ASSUME NEW r \in Runs, BuildNextFact(r)
        PROVE  EveryRowResolves'
    <2>1. /\ run[r].phase = "applied" /\ built < Len(FactTables)
          /\ fact' = [fact EXCEPT ![FactTables[built + 1]] =
                        BuildFact(FactTables[built + 1], dim)]
          /\ UNCHANGED <<dim, torn>>
      BY <1>4 DEF BuildNextFact, FactsMayBuild, vars, tables, history
    <2>2. built \in 0 .. 2
      BY <2>1 DEF FactTables
    <2>3. FactTables[built + 1] \in {"fact_order", "fact_order_item", "fact_payment"}
      BY <2>2, TableNames
    <2>4. \A f \in BuildFact(FactTables[built + 1], dim) : ResolvesNow(f)
      BY <2>1, <2>3, BuiltTableResolves DEF ResolvesNow
    <2>5. ASSUME NEW t \in DOMAIN fact, NEW f \in fact'[t]
          PROVE  ResolvesNow(f)
      <3>1. CASE t = FactTables[built + 1]
        BY <2>1, <2>4, <2>5, <3>1
      <3>2. CASE t # FactTables[built + 1]
        BY <1>1, <2>1, <2>5, <3>2
      <3> QED
        BY <3>1, <3>2
    <2> QED
      BY <1>2, <2>1, <2>5 DEF ResolvesNow, PersonOf
  <1> QED
    BY <1>3, <1>4
       DEF GoldNext, StartRun, ApplyTask, Capture, CheckIdempotency, FailTask, EndAttempt, Repair,
           GoldRest, goldVars, allVars

ResolveInv ==
    /\ NobodyLost
    /\ StoppedTyped
    /\ SeedIsBehind
    /\ AlwaysCovered
    /\ EveryRowResolves

LEMMA ResolveInvariance == GoldSpec => []ResolveInv
  <1>1. GoldInit => ResolveInv
    <2> SUFFICES ASSUME GoldInit PROVE ResolveInv
      OBVIOUS
    <2>1. Init /\ dim = {} /\ \A r \in Runs : run[r].phase = "queued"
      BY DEF GoldInit, Init
    <2>2. NobodyLost
      BY <2>1, LostInit
    <2>3. StoppedTyped
      BY DEF GoldInit, StoppedTyped
    <2>4. SeedIsBehind
      BY <2>1 DEF SeedIsBehind
    <2>5. AlwaysCovered
      BY <2>1 DEF AlwaysCovered, Everyone
    <2>6. EveryRowResolves
      BY DEF GoldInit, EveryRowResolves
    <2> QED
      BY <2>2, <2>3, <2>4, <2>5, <2>6 DEF ResolveInv
  <1>2. IndInv /\ GrainInv /\ ResolveInv /\ [GoldNext]_allVars => ResolveInv'
    <2> SUFFICES ASSUME IndInv, GrainInv, ResolveInv, [GoldNext]_allVars
                 PROVE  ResolveInv'
      OBVIOUS
    <2>1. /\ NobodyLost /\ StoppedTyped /\ SeedIsBehind /\ AlwaysCovered /\ EveryRowResolves
          /\ built \in 0 .. 3
      BY DEF ResolveInv, GrainInv
    <2>2. NobodyLost' /\ AlwaysCovered'
      <3>1. CASE [Next]_vars
        BY <2>1, <3>1, LostKept, CoveredKept
      <3>2. ASSUME NEW r \in Runs, Repair(r)
            PROVE  NobodyLost' /\ AlwaysCovered'
        BY <2>1, <3>2, RepairLosesNobody
      <3> QED
        BY <3>1, <3>2, GoldSteps
    <2>3. StoppedTyped' /\ SeedIsBehind'
      BY <2>1, StoppedKept, SeedStaysBehind
    <2>4. EveryRowResolves'
      BY <2>1, ResolveKept
    <2> QED
      BY <2>2, <2>3, <2>4 DEF ResolveInv
  <1> QED
    BY <1>1, <1>2, GoldInvariance, GrainInvariance, PTL DEF GoldSpec

(* "0 unresolvable": in every reachable state, under failures and repairs, *)
(* a fact row names a version the dimension still has, or its customer is  *)
(* someone whom a failed run left without one.                             *)
THEOREM FactsResolve == GoldSpec => []EveryRowResolves
  <1>1. ResolveInv => EveryRowResolves
    BY DEF ResolveInv
  <1> QED
    BY <1>1, ResolveInvariance, PTL

-----------------------------------------------------------------------------
(***************************************************************************)
(* History is not restated.  The keys a purchase resolves to are settled   *)
(* once its instant is before the last change date: a MERGE ends windows   *)
(* at that date and an append opens them there.                            *)
(***************************************************************************)
KeysAt(o) ==
    IF VersionsAt(o, dim) = {} THEN {NULL} ELSE {Sk(v) : v \in VersionsAt(o, dim)}

LEMMA PastIsFixed ==
    ASSUME IndInv, Everyone, [Next]_vars, ~backdated,
           NEW o \in SilverOrders, o.purchased < lastDate
    PROVE  KeysAt(o)' = KeysAt(o)
  <1>0. /\ o.purchased \in Nat /\ o.purchased < EndOfTime /\ lastDate \in Nat /\ EndOfTime \in Nat
        /\ dim \subseteq Version
    BY SilverTypes, PurchasesHaveATime, EndOfTimeIsATime DEF IndInv, TypeOK
  <1>1. CASE UNCHANGED dim
    BY <1>1 DEF KeysAt, VersionsAt
  <1>2. ASSUME NEW r \in Runs, Writing(r)
        PROVE  run[r].run_date = lastDate
    BY <1>2 DEF IndInv, StagingFits, ClosedByLastDate, Writing, ToApply
  <1>3. ASSUME NEW r \in Runs, CloseSuperseded(r)
        PROVE  KeysAt(o)' = KeysAt(o)
    <2>1. run[r].run_date = lastDate
      BY <1>2, <1>3 DEF CloseSuperseded, Writing
    <2>2. ASSUME NEW v \in dim, NEW w, Merged(v, w, lastDate)
          PROVE  /\ w.uid = v.uid /\ Sk(w) = Sk(v)
                 /\ Covers(w, o.purchased) <=> Covers(v, o.purchased)
      <3>1. w.uid = v.uid /\ w.effective_from = v.effective_from
        BY <1>0, <2>2, MergedFields
      <3>2. CASE w = v
        BY <3>2
      <3>3. CASE w # v
        <4>1. v.effective_to = EndOfTime /\ w.effective_to = lastDate
          BY <1>0, <2>2, <3>3, MergedFields DEF Merged, IndInv, CurrentIsOpen
        <4> QED
          BY <1>0, <3>1, <4>1 DEF Covers, Sk
      <3> QED
        BY <3>2, <3>3
    <2>3. ASSUME NEW v \in VersionsAt(o, dim)
          PROVE  \E w \in VersionsAt(o, dim') : Sk(w) = Sk(v)
      <3>1. PICK w \in dim' : Merged(v, w, lastDate)
        BY <1>3, <2>1, <2>3, MergeIsImage DEF VersionsAt
      <3>2. v \in dim
        BY <2>3 DEF VersionsAt
      <3>3. w.uid = v.uid /\ Sk(w) = Sk(v) /\ (Covers(w, o.purchased) <=> Covers(v, o.purchased))
        BY <2>2, <3>1, <3>2
      <3> QED
        BY <2>3, <3>3 DEF VersionsAt
    <2>4. ASSUME NEW w \in VersionsAt(o, dim')
          PROVE  \E v \in VersionsAt(o, dim) : Sk(w) = Sk(v)
      <3>1. PICK v \in dim : Merged(v, w, lastDate)
        BY <1>3, <2>1, <2>4, MergeIsImage DEF VersionsAt
      <3>2. w.uid = v.uid /\ Sk(w) = Sk(v) /\ (Covers(w, o.purchased) <=> Covers(v, o.purchased))
        BY <2>2, <3>1
      <3> QED
        BY <2>4, <3>2 DEF VersionsAt
    <2>5. {Sk(v) : v \in VersionsAt(o, dim')} = {Sk(v) : v \in VersionsAt(o, dim)}
      BY <2>3, <2>4
    <2>6. VersionsAt(o, dim') = {} <=> VersionsAt(o, dim) = {}
      BY <2>3, <2>4
    <2> QED
      BY <2>5, <2>6 DEF KeysAt
  <1>4. ASSUME NEW r \in Runs, AppendVersions(r)
        PROVE  KeysAt(o)' = KeysAt(o)
    <2>1. /\ run[r].run_date = lastDate /\ Writing(r)
          /\ dim' = dim \cup NewVersions(staging, commit')
      BY <1>2, <1>4 DEF AppendVersions, Writing
    <2>2. ASSUME NEW v \in NewVersions(staging, commit')
          PROVE  v.effective_from = lastDate
      BY <2>1, <2>2 DEF NewVersions, NewVersion, IndInv, StagingFits
    <2>3. \A v \in NewVersions(staging, commit') : ~Covers(v, o.purchased)
      BY <1>0, <2>2 DEF Covers
    <2>4. VersionsAt(o, dim') = VersionsAt(o, dim)
      BY <2>1, <2>3 DEF VersionsAt
    <2> QED
      BY <2>4 DEF KeysAt
  <1>5. ASSUME NEW r \in Runs, SeedDim(r), dim = {}
        PROVE  KeysAt(o)' = KeysAt(o)
    <2>1. People = {}
      BY <1>5 DEF Everyone
    <2>2. dim' = {}
      BY <1>5, <2>1, SeededRows DEF IndInv
    <2> QED
      BY <1>5, <2>2 DEF KeysAt, VersionsAt
  <1> QED
    BY <1>1, <1>3, <1>4, <1>5
       DEF Next, Apply, Start, SeedDim, SkipCdc, StageChanges, Finish, Fail, Rest, vars, tables

(* A row of fact_order carries one of the keys its purchase resolves to.   *)
LEMMA BuiltOrderKey ==
    ASSUME NEW f \in FactOrder(dim), NEW o \in SilverOrders, f.key = <<o.order_id>>,
           dim \subseteq Version
    PROVE  f.customer_sk \in KeysAt(o)
  <1>1. PICK p \in SilverOrders : \E v \in PointInTime(p, dim) :
          f = FactRow(<<p.order_id>>, v, OrderTotal(p))
    BY DEF FactOrder
  <1>2. PICK v \in PointInTime(p, dim) : f = FactRow(<<p.order_id>>, v, OrderTotal(p))
    BY <1>1
  <1>3. p = o
    <2>1. <<p.order_id>>[1] = <<o.order_id>>[1]
      BY <1>2 DEF FactRow
    <2>2. p.order_id = o.order_id
      BY <2>1
    <2> QED
      BY <2>2, OneSilverRowPerKey
  <1>4. f.customer_sk = IF v.uid = NULL THEN NULL ELSE Sk(v)
    BY <1>2 DEF FactRow
  <1>5. CASE VersionsAt(o, dim) = {}
    BY <1>2, <1>3, <1>4, <1>5 DEF PointInTime, Unresolved, KeysAt
  <1>6. CASE VersionsAt(o, dim) # {}
    <2>1. v \in VersionsAt(o, dim)
      BY <1>2, <1>3, <1>6 DEF PointInTime
    <2>2. v.uid # NULL
      BY <2>1, SilverTypes, NullIsNotData DEF VersionsAt
    <2> QED
      BY <1>4, <1>6, <2>1, <2>2 DEF KeysAt
  <1> QED
    BY <1>5, <1>6

LEMMA OneKeyAt ==
    ASSUME IndInv, ~backdated, NEW o \in SilverOrders, NEW j \in KeysAt(o), NEW k \in KeysAt(o)
    PROVE  j = k
  <1>1. CASE VersionsAt(o, dim) = {}
    BY <1>1 DEF KeysAt
  <1>2. CASE VersionsAt(o, dim) # {}
    <2>1. PICK v \in VersionsAt(o, dim), w \in VersionsAt(o, dim) : j = Sk(v) /\ k = Sk(w)
      BY <1>2 DEF KeysAt
    <2>2. v \in PointInTime(o, dim) /\ w \in PointInTime(o, dim)
      BY <1>2, <2>1 DEF PointInTime
    <2>3. v = w
      BY <2>2, PointInTimeIsSingle DEF IndInv, TypeOK, DisjointWindows
    <2> QED
      BY <2>1, <2>3
  <1> QED
    BY <1>1, <1>2

(* fact_order carries, for a purchase before the change date it was built  *)
(* with, a key that purchase resolves to now.                              *)
PastResolvesAsBuilt ==
    ~backdated => \A f \in fact["fact_order"], o \in SilverOrders :
        f.key = <<o.order_id>> /\ o.purchased < factsAsOf => f.customer_sk \in KeysAt(o)

PastInv ==
    /\ factsAsOf \in Nat /\ factsAsOf <= lastDate
    /\ factsAsOf # 0 => Everyone
    /\ DOMAIN fact = {"fact_order", "fact_order_item", "fact_payment"}
    /\ PastResolvesAsBuilt

LEMMA LastDateGrows ==
    ASSUME IndInv, [GoldNext]_allVars
    PROVE  lastDate <= lastDate'
  <1>1. lastDate \in Nat
    BY DEF IndInv, TypeOK
  <1>2. CASE lastDate' = lastDate
    BY <1>1, <1>2
  <1>3. ASSUME NEW r \in Runs, NEW date \in Dates, NEW day \in Days \cup {0}, Start(r, date, day),
               lastDate' # lastDate
        PROVE  lastDate <= lastDate'
    <2>1. lastDate' = IF date > lastDate THEN date ELSE lastDate
      BY <1>3 DEF Start
    <2>2. date \in Nat
      BY DatesAreTimes, EndOfTimeIsATime
    <2> QED
      BY <1>1, <2>1, <2>2
  <1>4. lastDate' = lastDate \/ \E r \in Runs, date \in Dates, day \in Days \cup {0} :
                                   Start(r, date, day)
    BY GoldSteps
       DEF Next, Apply, SeedDim, SkipCdc, StageChanges, CloseSuperseded, AppendVersions, Finish,
           Fail, Rest, Repair, vars, history
  <1> QED
    BY <1>2, <1>3, <1>4

LEMMA PastKept ==
    ASSUME IndInv, DatesSeen, GrainInv, SeedIsBehind, PastInv, [GoldNext]_allVars
    PROVE  PastInv'
  <1>1. lastDate <= lastDate' /\ lastDate \in Nat /\ lastDate' \in Nat
    BY GoldSteps, LastDateGrows, IndKept, RepairKeeps DEF IndInv, TypeOK
  <1>2. [Next]_vars \/ UNCHANGED dim
    BY GoldSteps DEF Repair, tables
  <1>3. backdated => backdated'
    BY GoldSteps, DatesSeenKept, RepairKeeps
  <1>4. CASE fact' = fact /\ factsAsOf' = factsAsOf
    <2>1. Everyone => Everyone'
      BY <1>2, EveryoneStays
    <2>2. ASSUME ~backdated', NEW f \in fact["fact_order"], NEW o \in SilverOrders,
                 f.key = <<o.order_id>>, o.purchased < factsAsOf
          PROVE  f.customer_sk \in KeysAt(o)'
      <3>1. ~backdated /\ f.customer_sk \in KeysAt(o)
        BY <1>3, <2>2 DEF PastInv, PastResolvesAsBuilt
      <3>2. o.purchased < lastDate /\ factsAsOf # 0
        BY <1>1, <2>2, SilverTypes DEF PastInv
      <3>3. CASE [Next]_vars
        BY <3>1, <3>2, <3>3, PastIsFixed DEF PastInv
      <3>4. CASE UNCHANGED dim
        BY <3>1, <3>4 DEF KeysAt, VersionsAt
      <3> QED
        BY <1>2, <3>3, <3>4
    <2> QED
      BY <1>1, <1>4, <2>1, <2>2 DEF PastInv, PastResolvesAsBuilt
  <1>5. ASSUME NEW r \in Runs, BuildNextFact(r)
        PROVE  PastInv'
    <2>1. /\ run[r].phase = "applied" /\ built < Len(FactTables)
          /\ fact' = [fact EXCEPT ![FactTables[built + 1]] =
                        BuildFact(FactTables[built + 1], dim)]
          /\ factsAsOf' = IF FactTables[built + 1] = "fact_order" THEN lastDate ELSE factsAsOf
          /\ UNCHANGED <<dim, lastDate, backdated>>
      BY <1>5 DEF BuildNextFact, FactsMayBuild, vars, tables, history
    <2>2. Everyone /\ Everyone'
      BY <2>1 DEF SeedIsBehind, Everyone
    <2>3. /\ factsAsOf' \in Nat /\ factsAsOf' <= lastDate'
          /\ DOMAIN fact' = {"fact_order", "fact_order_item", "fact_payment"}
      BY <1>1, <2>1 DEF PastInv
    <2>4. CASE FactTables[built + 1] = "fact_order"
      <3>1. fact'["fact_order"] = FactOrder(dim)
        BY <2>1, <2>4 DEF PastInv, BuildFact
      <3>2. ASSUME NEW f \in FactOrder(dim), NEW o \in SilverOrders, f.key = <<o.order_id>>
            PROVE  f.customer_sk \in KeysAt(o)'
        BY <2>1, <3>2, BuiltOrderKey DEF KeysAt, VersionsAt, IndInv, TypeOK
      <3> QED
        BY <2>2, <2>3, <3>1, <3>2 DEF PastInv, PastResolvesAsBuilt
    <2>5. CASE FactTables[built + 1] # "fact_order"
      <3>1. fact'["fact_order"] = fact["fact_order"] /\ factsAsOf' = factsAsOf
        BY <2>1, <2>5 DEF PastInv
      <3>2. \A o : KeysAt(o)' = KeysAt(o)
        BY <2>1 DEF KeysAt, VersionsAt
      <3> QED
        BY <2>1, <2>2, <2>3, <3>1, <3>2 DEF PastInv, PastResolvesAsBuilt
    <2> QED
      BY <2>4, <2>5
  <1> QED
    BY <1>4, <1>5
       DEF GoldNext, StartRun, ApplyTask, Capture, CheckIdempotency, FailTask, EndAttempt, Repair,
           GoldRest, goldVars, allVars

LEMMA PastInvariance == GoldSpec => []PastInv
  <1>1. GoldInit => PastInv
    BY DEF GoldInit, Init, PastInv, PastResolvesAsBuilt, FactTables
  <1>2. IndInv /\ DatesSeen /\ GrainInv /\ ResolveInv /\ PastInv /\ [GoldNext]_allVars
          => PastInv'
    BY PastKept DEF ResolveInv
  <1> QED
    BY <1>1, <1>2, GoldInvariance, GrainInvariance, ResolveInvariance, PTL DEF GoldSpec

(* facts.py:26: whatever was applied and whoever failed in between, when   *)
(* fact_order is replaced, an order bought before the last change date it  *)
(* was built with keeps the version it had.                                *)
THEOREM PastFactsStay == GoldSpec => HistoryNotRestated
  <1>1. IndInv /\ PastInv /\ [GoldNext]_allVars =>
          [~backdated => \A f \in fact["fact_order"], g \in fact'["fact_order"] :
             \A o \in SilverOrders :
                f.key = <<o.order_id>> /\ g.key = <<o.order_id>> /\ o.purchased < factsAsOf =>
                   f.customer_sk = g.customer_sk]_allVars
    <2> SUFFICES ASSUME IndInv, PastInv, GoldNext, ~backdated,
                        NEW f \in fact["fact_order"], NEW g \in fact'["fact_order"],
                        NEW o \in SilverOrders, f.key = <<o.order_id>>, g.key = <<o.order_id>>,
                        o.purchased < factsAsOf
                 PROVE  f.customer_sk = g.customer_sk
      OBVIOUS
    <2>1. f.customer_sk \in KeysAt(o)
      BY DEF PastInv, PastResolvesAsBuilt
    <2>2. CASE g \in fact["fact_order"]
      <3>1. g.customer_sk \in KeysAt(o)
        BY <2>2 DEF PastInv, PastResolvesAsBuilt
      <3> QED
        BY <2>1, <3>1, OneKeyAt
    <2>3. CASE g \notin fact["fact_order"]
      <3>1. PICK r \in Runs : BuildNextFact(r)
        BY <2>3 DEF GoldNext, StartRun, ApplyTask, Capture, CheckIdempotency, FailTask, EndAttempt,
                    Repair, GoldRest, goldVars, allVars
      <3>2. fact' = [fact EXCEPT ![FactTables[built + 1]] = BuildFact(FactTables[built + 1], dim)]
        BY <3>1 DEF BuildNextFact
      <3>3. FactTables[built + 1] = "fact_order" /\ g \in FactOrder(dim)
        BY <2>3, <3>2 DEF PastInv, BuildFact
      <3>4. g.customer_sk \in KeysAt(o)
        BY <3>3, BuiltOrderKey DEF IndInv, TypeOK
      <3> QED
        BY <2>1, <3>4, OneKeyAt
    <2> QED
      BY <2>2, <2>3
  <1> QED
    BY <1>1, GoldInvariance, PastInvariance, PTL DEF GoldSpec, HistoryNotRestated

-----------------------------------------------------------------------------
(***************************************************************************)
(* Published facts.  Only the run of the last attempt can be active, so    *)
(* nothing writes the dimension between its first fact table and its end,  *)
(* nor after it until another run starts.  A repair that skips gold_facts  *)
(* may only because the attempt before it, of the same run, got past it.   *)
(***************************************************************************)
FactNames == {"fact_order", "fact_order_item", "fact_payment"}

AttemptsFit ==
    /\ attempts \in Seq(Runs)
    /\ \A r \in Runs : run[r].phase # "queued" => AttemptsOf(r) # {}
    /\ \A r \in Runs : Active(r) => attempts # <<>> /\ r = LastRun
    /\ built # 0 => attempts # <<>> /\ run[LastRun].phase = "applied"
    /\ captured => built = 3
    /\ fact = [t \in FactNames |-> fact[t]]

(* The first n tables are what they should be.                             *)
CurrentUpTo(n) == \A i \in 1 .. n : fact[FactTables[i]] = BuildFact(FactTables[i], dim)

PastTheFacts(r) ==
    \/ run[r].phase = "succeeded"
    \/ run[r].phase = "failed" /\ stoppedIn[r] = "idempotency_check"

FactsFitAttempt ==
    attempts # <<>> /\ Uninterleaved(LastRun) =>
        /\ run[LastRun].phase = "applied" => CurrentUpTo(built)
        /\ PastTheFacts(LastRun) => CurrentUpTo(3)

PublishInv == AttemptsFit /\ FactsFitAttempt

LEMMA TableOrder ==
    /\ FactTables[1] = "fact_order" /\ FactTables[2] = "fact_order_item"
    /\ FactTables[3] = "fact_payment" /\ Len(FactTables) = 3
  BY DEF FactTables

LEMMA AllThreeCurrent ==
    ASSUME fact = [t \in FactNames |-> fact[t]], CurrentUpTo(3)
    PROVE  fact = BuildFacts(dim)
  <1>1. {FactTables[i] : i \in 1 .. 3} = FactNames
    <2>1. 1 .. 3 = {1, 2, 3}
      OBVIOUS
    <2> QED
      BY <2>1, TableOrder DEF FactNames
  <1>2. \A t \in FactNames : fact[t] = BuildFact(t, dim)
    BY TableOrder DEF FactNames, CurrentUpTo
  <1>3. BuildFacts(dim) = [t \in FactNames |-> BuildFact(t, dim)]
    BY <1>1 DEF BuildFacts
  <1>4. [t \in FactNames |-> fact[t]] = [t \in FactNames |-> BuildFact(t, dim)]
    BY <1>2
  <1> QED
    BY <1>3, <1>4

(* What another attempt does to the sequence of attempts.                  *)
LEMMA NextAttempt ==
    ASSUME attempts \in Seq(Runs), NEW r \in Runs, attempts' = Append(attempts, r)
    PROVE  /\ attempts' \in Seq(Runs) /\ attempts' # <<>> /\ LastRun' = r
           /\ \A q \in Runs : AttemptsOf(q) # {} => AttemptsOf(q)' # {}
           /\ AttemptsOf(r)' # {}
           /\ AttemptsOf(r) # {} /\ Uninterleaved(r)' =>
                 attempts # <<>> /\ LastRun = r /\ Uninterleaved(r)
  <1>1. /\ Len(attempts) \in Nat /\ DOMAIN attempts = 1 .. Len(attempts)
        /\ Len(attempts') = Len(attempts) + 1 /\ DOMAIN attempts' = 1 .. Len(attempts) + 1
        /\ \A i \in 1 .. Len(attempts) : attempts'[i] = attempts[i]
        /\ attempts'[Len(attempts) + 1] = r
        /\ attempts' \in Seq(Runs)
    OBVIOUS
  <1>2. attempts' # <<>> /\ LastRun' = r
    BY <1>1 DEF LastRun
  <1>3. \A q \in Runs : AttemptsOf(q) \subseteq AttemptsOf(q)'
    BY <1>1 DEF AttemptsOf
  <1>4. Len(attempts) + 1 \in AttemptsOf(r)'
    BY <1>1 DEF AttemptsOf
  <1>5. ASSUME NEW i \in AttemptsOf(r), Uninterleaved(r)'
        PROVE  attempts # <<>> /\ LastRun = r /\ Uninterleaved(r)
    <2>1. i \in 1 .. Len(attempts) /\ i \in AttemptsOf(r)'
      BY <1>1, <1>3, <1>5 DEF AttemptsOf
    <2>2. \A k \in i .. Len(attempts) + 1 : attempts'[k] = r
      BY <1>4, <1>5, <2>1 DEF Uninterleaved
    <2>3. attempts[Len(attempts)] = r /\ attempts # <<>>
      BY <1>1, <2>1, <2>2
    <2>4. ASSUME NEW j \in AttemptsOf(r), NEW l \in AttemptsOf(r), NEW k \in j .. l
          PROVE  attempts[k] = r
      <3>1. j \in 1 .. Len(attempts) /\ l \in 1 .. Len(attempts) /\ k \in 1 .. Len(attempts)
        BY <1>1, <2>4 DEF AttemptsOf
      <3>2. attempts'[k] = r
        BY <1>3, <1>5, <2>4 DEF Uninterleaved
      <3> QED
        BY <1>1, <3>1, <3>2
    <2> QED
      BY <2>3, <2>4 DEF LastRun, Uninterleaved
  <1> QED
    BY <1>1, <1>2, <1>3, <1>4, <1>5

(* A step of the last run that makes no new attempt.                       *)
LEMMA SameAttempt ==
    ASSUME AttemptsFit, TypeOK, attempts' = attempts, NEW r \in Runs, Active(r),
           \A q \in Runs : q # r => run'[q] = run[q],
           run'[r].phase # "queued", fact' = [t \in FactNames |-> fact'[t]],
           built' # 0 => run'[r].phase = "applied", captured' => built' = 3
    PROVE  AttemptsFit' /\ r = LastRun /\ LastRun' = LastRun
  <1>1. attempts # <<>> /\ r = LastRun /\ LastRun' = LastRun
    BY DEF AttemptsFit, LastRun
  <1>2. \A q \in Runs : AttemptsOf(q)' = AttemptsOf(q)
    BY DEF AttemptsOf
  <1>3. \A q \in Runs : run'[q].phase # "queued" => AttemptsOf(q)' # {}
    <2>1. run[r].phase # "queued"
      BY DEF Active
    <2> QED
      BY <1>2, <2>1 DEF AttemptsFit
  <1>4. \A q \in Runs : Active(q)' => attempts' # <<>> /\ q = LastRun'
    BY <1>1 DEF AttemptsFit, Active
  <1> QED
    BY <1>1, <1>3, <1>4 DEF AttemptsFit

LEMMA AppliedStepKeepsPublished ==
    ASSUME IndInv, PublishInv, NEW r \in Runs, ApplyTask(r)
    PROVE  PublishInv'
  <1>1. /\ Active(r) /\ run[r].phase # "applied" /\ Apply(r)
        /\ UNCHANGED <<fact, built, captured, stoppedIn, attempts>>
    BY DEF ApplyTask, Apply, SeedDim, SkipCdc, StageChanges, CloseSuperseded, AppendVersions,
           Active, goldVars, attemptVars
  <1>2. ASSUME StageChanges(r)
        PROVE  /\ \A q \in Runs : q # r => run'[q] = run[q]
               /\ run'[r].phase \in {"cdc_apply", "merge", "append", "applied"}
    <2>1. PICK actions : run' = [run EXCEPT ![r].phase = NextPass(actions, FALSE),
                                            ![r].actions = actions]
      BY <1>2 DEF StageChanges
    <2> QED
      BY <2>1, NextPassType DEF IndInv, TypeOK, Run
  <1>3. ASSUME SeedDim(r) \/ SkipCdc(r) \/ CloseSuperseded(r) \/ AppendVersions(r)
        PROVE  /\ \A q \in Runs : q # r => run'[q] = run[q]
               /\ run'[r].phase \in {"cdc_apply", "merge", "append", "applied"}
    <2>1. \E phase \in {"cdc_apply", "merge", "append", "applied"} : GoTo(r, phase)
      BY <1>3, NextPassType DEF SeedDim, SkipCdc, CloseSuperseded, AppendVersions
    <2> QED
      BY <2>1, Moved DEF IndInv
  <1>4. /\ \A q \in Runs : q # r => run'[q] = run[q]
        /\ run'[r].phase \in {"cdc_apply", "merge", "append", "applied"}
    BY <1>1, <1>2, <1>3 DEF Apply
  <1>5. r = LastRun /\ built = 0 /\ ~captured
    <2>1. built = 0
      BY <1>1 DEF PublishInv, AttemptsFit
    <2> QED
      BY <1>1, <2>1 DEF PublishInv, AttemptsFit
  <1>6. AttemptsFit' /\ LastRun' = r
    <2>1. run'[r].phase # "queued" /\ built' = 0 /\ ~captured'
      BY <1>1, <1>4, <1>5
    <2>2. fact' = [t \in FactNames |-> fact'[t]]
      BY <1>1 DEF PublishInv, AttemptsFit
    <2> QED
      BY <1>1, <1>4, <1>5, <2>1, <2>2, SameAttempt DEF PublishInv, IndInv
  <1>7. FactsFitAttempt'
    BY <1>1, <1>4, <1>5, <1>6 DEF FactsFitAttempt, PastTheFacts, CurrentUpTo
  <1> QED
    BY <1>6, <1>7 DEF PublishInv

LEMMA BuildKeepsPublished ==
    ASSUME IndInv, PublishInv, GrainInv, NEW r \in Runs, BuildNextFact(r)
    PROVE  PublishInv'
  <1>1. /\ Active(r) /\ run[r].phase = "applied" /\ built < 3 /\ built' = built + 1
        /\ fact' = [fact EXCEPT ![FactTables[built + 1]] =
                      BuildFact(FactTables[built + 1], dim)]
        /\ UNCHANGED <<run, dim, stoppedIn, captured, attempts>>
    BY TableOrder DEF BuildNextFact, FactsMayBuild, Active, vars, tables
  <1>2. built \in 0 .. 2
    BY <1>1 DEF GrainInv
  <1>3. fact' = [t \in FactNames |-> fact'[t]]
    BY <1>1 DEF PublishInv, AttemptsFit
  <1>4. r = LastRun /\ ~captured
    BY <1>1, <1>2 DEF PublishInv, AttemptsFit
  <1>5. AttemptsFit' /\ LastRun' = r
    <2>1. run'[r].phase = "applied" /\ ~captured'
      BY <1>1, <1>4
    <2> QED
      BY <1>1, <1>3, <1>4, <2>1, SameAttempt DEF PublishInv, IndInv
  <1>6. ASSUME CurrentUpTo(built)
        PROVE  CurrentUpTo(built)'
    <2> SUFFICES ASSUME NEW i \in 1 .. built + 1
                 PROVE  fact'[FactTables[i]] = BuildFact(FactTables[i], dim)
      BY <1>1 DEF CurrentUpTo
    <2>1. i \in 1 .. 3 /\ built + 1 \in 1 .. 3
      BY <1>2
    <2>2. i = 1 \/ i = 2 \/ i = 3
      BY <2>1
    <2>3. FactTables[i] \in DOMAIN fact
      <3>1. FactTables[i] \in FactNames
        BY <2>2, TableOrder DEF FactNames
      <3>2. DOMAIN fact = FactNames
        BY DEF PublishInv, AttemptsFit
      <3> QED
        BY <3>1, <3>2
    <2>4. CASE i = built + 1
      BY <1>1, <2>3, <2>4
    <2>5. CASE i # built + 1
      <3>1. i \in 1 .. built
        BY <1>2, <2>5
      <3>2. FactTables[i] # FactTables[built + 1]
        <4>1. built + 1 = 1 \/ built + 1 = 2 \/ built + 1 = 3
          BY <2>1
        <4>2. CASE i = 1
          BY <2>5, <4>1, <4>2, TableOrder
        <4>3. CASE i = 2
          BY <2>5, <4>1, <4>3, TableOrder
        <4>4. CASE i = 3
          BY <2>5, <4>1, <4>4, TableOrder
        <4> QED
          BY <2>2, <4>2, <4>3, <4>4
      <3>3. fact[FactTables[i]] = BuildFact(FactTables[i], dim)
        BY <1>6, <3>1 DEF CurrentUpTo
      <3> QED
        BY <1>1, <3>2, <3>3
    <2> QED
      BY <2>4, <2>5
  <1>7. FactsFitAttempt'
    <2> SUFFICES ASSUME Uninterleaved(r)'
                 PROVE  CurrentUpTo(built)'
      BY <1>1, <1>5 DEF FactsFitAttempt, PastTheFacts
    <2>1. attempts # <<>> /\ Uninterleaved(r)
      BY <1>1 DEF Uninterleaved, AttemptsOf, PublishInv, AttemptsFit
    <2> QED
      BY <1>1, <1>4, <1>6, <2>1 DEF PublishInv, FactsFitAttempt
  <1> QED
    BY <1>5, <1>7 DEF PublishInv

(* An attempt ends: past the facts only with all three of them built.      *)
LEMMA EndKeepsPublished ==
    ASSUME IndInv, PublishInv, NEW r \in Runs, Active(r), NEW phase \in {"succeeded", "failed"},
           GoTo(r, phase), UNCHANGED <<dim, fact, attempts>>, built' = 0, captured' = FALSE,
           PastTheFacts(r)' => run[r].phase = "applied" /\ built = 3
    PROVE  PublishInv'
  <1>1. /\ \A q \in Runs : q # r => run'[q] = run[q]
        /\ run'[r].phase = phase
    BY Moved DEF IndInv
  <1>2. AttemptsFit' /\ r = LastRun /\ LastRun' = r
    <2>1. run'[r].phase # "queued" /\ fact' = [t \in FactNames |-> fact'[t]]
      BY <1>1 DEF PublishInv, AttemptsFit
    <2> QED
      BY <1>1, <2>1, SameAttempt DEF PublishInv, IndInv
  <1>3. FactsFitAttempt'
    <2> SUFFICES ASSUME Uninterleaved(r)', PastTheFacts(r)'
                 PROVE  CurrentUpTo(3)'
      BY <1>1, <1>2 DEF FactsFitAttempt
    <2>1. attempts # <<>> /\ Uninterleaved(r)
      BY <1>2 DEF Uninterleaved, AttemptsOf, PublishInv, AttemptsFit
    <2>2. CurrentUpTo(3)
      BY <1>2, <2>1 DEF PublishInv, FactsFitAttempt
    <2> QED
      BY <2>2 DEF CurrentUpTo
  <1> QED
    BY <1>2, <1>3 DEF PublishInv

LEMMA RepairKeepsPublished ==
    ASSUME IndInv, PublishInv, NEW r \in Runs, Repair(r)
    PROVE  PublishInv'
  <1>1. /\ run[r].phase = "failed" /\ \A q \in Runs : ~Active(q)
        /\ GoTo(r, ResumedAt(r)) /\ ResumedAt(r) \in {"gold_dims", "cdc_apply", "applied"}
        /\ built' = IF stoppedIn[r] = "idempotency_check" THEN 3 ELSE 0
        /\ stoppedIn[r] = "idempotency_check" => ResumedAt(r) = "applied"
        /\ attempts' = Append(attempts, r) /\ UNCHANGED <<dim, fact, captured>>
    BY TableOrder DEF Repair, NoActiveRun, tables, ResumedAt
  <1>2. /\ \A q \in Runs : q # r => run'[q] = run[q]
        /\ run'[r].phase = ResumedAt(r)
    BY <1>1, Moved DEF IndInv
  <1>3. attempts \in Seq(Runs) /\ AttemptsOf(r) # {}
    BY <1>1 DEF PublishInv, AttemptsFit
  <1>4. /\ attempts' \in Seq(Runs) /\ attempts' # <<>> /\ LastRun' = r
        /\ \A q \in Runs : AttemptsOf(q) # {} => AttemptsOf(q)' # {}
        /\ AttemptsOf(r)' # {}
        /\ Uninterleaved(r)' => attempts # <<>> /\ LastRun = r /\ Uninterleaved(r)
    BY <1>1, <1>3, NextAttempt
  <1>5. AttemptsFit'
    <2>1. \A q \in Runs : run'[q].phase # "queued" => AttemptsOf(q)' # {}
      BY <1>2, <1>4 DEF PublishInv, AttemptsFit
    <2>2. \A q \in Runs : Active(q)' => q = LastRun'
      BY <1>1, <1>2, <1>4 DEF Active
    <2>3. built' # 0 => run'[LastRun'].phase = "applied"
      BY <1>1, <1>2, <1>4
    <2>4. ~captured
      <3>1. attempts # <<>> => LastRun \in Runs
        BY <1>3 DEF LastRun
      <3>2. built = 0
        BY <1>1, <3>1 DEF PublishInv, AttemptsFit, Active
      <3> QED
        BY <3>2 DEF PublishInv, AttemptsFit
    <2>5. fact' = [t \in FactNames |-> fact'[t]]
      BY <1>1 DEF PublishInv, AttemptsFit
    <2> QED
      BY <1>1, <1>4, <2>1, <2>2, <2>3, <2>4, <2>5 DEF AttemptsFit
  <1>6. FactsFitAttempt'
    <2> SUFFICES ASSUME Uninterleaved(r)', run'[r].phase = "applied"
                 PROVE  CurrentUpTo(built)'
      BY <1>1, <1>2, <1>4 DEF FactsFitAttempt, PastTheFacts
    <2>1. CASE stoppedIn[r] = "idempotency_check"
      <3>1. CurrentUpTo(3)
        BY <1>1, <1>4, <2>1 DEF PublishInv, FactsFitAttempt, PastTheFacts
      <3> QED
        BY <1>1, <2>1, <3>1 DEF CurrentUpTo
    <2>2. CASE stoppedIn[r] # "idempotency_check"
      BY <1>1, <2>2 DEF CurrentUpTo
    <2> QED
      BY <2>1, <2>2
  <1> QED
    BY <1>5, <1>6 DEF PublishInv

LEMMA StartKeepsPublished ==
    ASSUME IndInv, PublishInv, NEW r \in Runs, NEW date \in Dates, NEW day \in Days \cup {0},
           StartRun(r, date, day)
    PROVE  PublishInv'
  <1>1. /\ \A q \in Runs : ~Active(q)
        /\ attempts' = Append(attempts, r) /\ UNCHANGED <<fact, built, captured>>
    BY DEF StartRun, Start, NoActiveRun
  <1>2. /\ \A q \in Runs : q # r => run'[q] = run[q]
        /\ run'[r].phase = "gold_dims"
    BY DEF StartRun, Start, IndInv, TypeOK, Run
  <1>3. attempts \in Seq(Runs)
    BY DEF PublishInv, AttemptsFit
  <1>4. /\ attempts' \in Seq(Runs) /\ attempts' # <<>> /\ LastRun' = r
        /\ \A q \in Runs : AttemptsOf(q) # {} => AttemptsOf(q)' # {}
        /\ AttemptsOf(r)' # {}
    BY <1>1, <1>3, NextAttempt
  <1>5. built = 0 /\ ~captured
    <2>1. attempts # <<>> => LastRun \in Runs
      BY <1>3 DEF LastRun
    <2>2. built = 0
      BY <1>1, <2>1 DEF PublishInv, AttemptsFit, Active
    <2> QED
      BY <2>2 DEF PublishInv, AttemptsFit
  <1>6. AttemptsFit'
    <2>1. \A q \in Runs : run'[q].phase # "queued" => AttemptsOf(q)' # {}
      BY <1>2, <1>4 DEF PublishInv, AttemptsFit
    <2>2. \A q \in Runs : Active(q)' => q = LastRun'
      BY <1>1, <1>2, <1>4 DEF Active
    <2>3. fact' = [t \in FactNames |-> fact'[t]]
      BY <1>1 DEF PublishInv, AttemptsFit
    <2> QED
      BY <1>1, <1>4, <1>5, <2>1, <2>2, <2>3 DEF AttemptsFit
  <1>7. FactsFitAttempt'
    BY <1>2, <1>4 DEF FactsFitAttempt, PastTheFacts
  <1> QED
    BY <1>6, <1>7 DEF PublishInv

LEMMA CaptureKeepsPublished ==
    ASSUME PublishInv, NEW r \in Runs, Capture(r)
    PROVE  PublishInv'
  <1>1. /\ UNCHANGED <<run, dim, fact, built, stoppedIn, attempts>> /\ built = 3
    BY TableOrder DEF Capture, vars, tables
  <1>2. AttemptsFit'
    BY <1>1 DEF PublishInv, AttemptsFit, AttemptsOf, Active, LastRun
  <1>3. FactsFitAttempt'
    BY <1>1 DEF PublishInv, FactsFitAttempt, PastTheFacts, CurrentUpTo, LastRun, Uninterleaved,
                AttemptsOf
  <1> QED
    BY <1>2, <1>3 DEF PublishInv

LEMMA TaskPastTheFacts ==
    ASSUME TypeOK, PublishInv, built \in 0 .. 3, NEW r \in Runs, Active(r),
           "idempotency_check" \in TasksAt(r)
    PROVE  run[r].phase = "applied" /\ built = 3
  <1>1. run[r].phase \in {"gold_dims", "cdc_apply", "merge", "append", "applied"}
    <2>1. run[r].phase \in Phases
      BY DEF TypeOK, Run
    <2> QED
      BY <2>1 DEF Phases, Active
  <1>2. run[r].phase = "applied"
    BY <1>1 DEF TasksAt, StillIn
  <1>3. ~(built < 3)
    <2> SUFFICES ASSUME built < 3 PROVE FALSE
      OBVIOUS
    <2>1. ~captured /\ built # 3
      BY DEF PublishInv, AttemptsFit
    <2>2. TasksAt(r) \subseteq {"gold_facts", "cdc_apply"}
      BY <1>2, <2>1, TableOrder DEF TasksAt, StillIn
    <2> QED
      BY <2>2
  <1> QED
    BY <1>2, <1>3

LEMMA PublishedKept ==
    ASSUME IndInv, GrainInv, StoppedTyped, PublishInv, [GoldNext]_allVars
    PROVE  PublishInv'
  <1>1. ASSUME NEW r \in Runs, CheckIdempotency(r)
        PROVE  PublishInv'
    <2>1. /\ Active(r) /\ run[r].phase = "applied" /\ built = 3
          /\ \E phase \in {"succeeded", "failed"} : GoTo(r, phase)
          /\ UNCHANGED <<dim, fact, attempts>> /\ built' = 0 /\ captured' = FALSE
      BY <1>1 DEF CheckIdempotency, Finish, Fail, EndAttempt, PublishInv, AttemptsFit, Active, tables
    <2> QED
      BY <2>1, EndKeepsPublished
  <1>2. ASSUME NEW r \in Runs, FailTask(r)
        PROVE  PublishInv'
    <2>1. PICK task \in TasksAt(r) : stoppedIn' = [stoppedIn EXCEPT ![r] = task]
      BY <1>2 DEF FailTask, EndAttempt
    <2>2. /\ Active(r) /\ GoTo(r, "failed")
          /\ UNCHANGED <<dim, fact, attempts>> /\ built' = 0 /\ captured' = FALSE
      BY <1>2 DEF FailTask, Fail, EndAttempt, tables
    <2>3. PastTheFacts(r)' => run[r].phase = "applied" /\ built = 3
      <3>1. run'[r].phase = "failed" /\ stoppedIn'[r] = task
        BY <2>1, <2>2, Moved DEF IndInv, StoppedTyped
      <3>2. task = "idempotency_check" => run[r].phase = "applied" /\ built = 3
        BY <2>1, <2>2, TaskPastTheFacts DEF IndInv, GrainInv
      <3> QED
        BY <3>1, <3>2 DEF PastTheFacts
    <2> QED
      BY <2>2, <2>3, EndKeepsPublished
  <1>3. CASE UNCHANGED allVars
    <2>1. UNCHANGED <<run, dim, fact, built, captured, stoppedIn, attempts>>
      BY <1>3 DEF allVars, goldVars, attemptVars, vars, tables
    <2>2. AttemptsFit'
      BY <2>1 DEF PublishInv, AttemptsFit, AttemptsOf, Active, LastRun
    <2>3. FactsFitAttempt'
      BY <2>1 DEF PublishInv, FactsFitAttempt, PastTheFacts, CurrentUpTo, LastRun, Uninterleaved,
                  AttemptsOf
    <2> QED
      BY <2>2, <2>3 DEF PublishInv
  <1>4. ASSUME NEW r \in Runs, NEW date \in Dates, NEW day \in Days \cup {0},
               StartRun(r, date, day)
        PROVE  PublishInv'
    BY <1>4, StartKeepsPublished
  <1>5. ASSUME NEW r \in Runs, ApplyTask(r) \/ BuildNextFact(r) \/ Capture(r) \/ Repair(r)
        PROVE  PublishInv'
    BY <1>5, AppliedStepKeepsPublished, BuildKeepsPublished, CaptureKeepsPublished,
       RepairKeepsPublished
  <1> QED
    BY <1>1, <1>2, <1>3, <1>4, <1>5 DEF GoldNext, GoldRest

LEMMA PublishInvariance == GoldSpec => []PublishInv
  <1>1. GoldInit => PublishInv
    <2> SUFFICES ASSUME GoldInit PROVE PublishInv
      OBVIOUS
    <2>1. /\ attempts = <<>> /\ built = 0 /\ ~captured
          /\ \A r \in Runs : run[r].phase = "queued"
          /\ fact = [t \in {FactTables[i] : i \in 1 .. 3} |-> {}]
      BY DEF GoldInit, Init
    <2>2. {FactTables[i] : i \in 1 .. 3} = FactNames
      <3>1. 1 .. 3 = {1, 2, 3}
        OBVIOUS
      <3> QED
        BY <3>1, TableOrder DEF FactNames
    <2>3. fact = [t \in FactNames |-> fact[t]]
      BY <2>1, <2>2
    <2> QED
      BY <2>1, <2>3 DEF PublishInv, AttemptsFit, FactsFitAttempt, Active
  <1>2. IndInv /\ GrainInv /\ ResolveInv /\ PublishInv /\ [GoldNext]_allVars => PublishInv'
    BY PublishedKept DEF ResolveInv
  <1> QED
    BY <1>1, <1>2, GoldInvariance, GrainInvariance, ResolveInvariance, PTL DEF GoldSpec

(* Gold is a function of silver and the dimension (decisions.md:147): once *)
(* the last run has succeeded its fact tables are what the dimension makes *)
(* them, however often it was repaired, unless another run came between.   *)
THEOREM FactsAreCurrent == GoldSpec => []PublishedFactsAreCurrent
  <1>1. PublishInv => PublishedFactsAreCurrent
    BY AllThreeCurrent DEF PublishInv, AttemptsFit, FactsFitAttempt, PastTheFacts,
                           PublishedFactsAreCurrent
  <1> QED
    BY <1>1, PublishInvariance, PTL

-----------------------------------------------------------------------------
(***************************************************************************)
(* What a fingerprint depends on.  While no purchase matches two versions, *)
(* a fact table has a row for each row of silver that has an order, with   *)
(* its revenue, whatever the dimension holds: its count and its sums are   *)
(* those of the facts of an empty dimension.  So the only number that can  *)
(* change under one silver is the count of dim_customer, and that grows.   *)
(***************************************************************************)
LEMMA RevenueFolds ==
    ASSUME NEW rows, IsFiniteSet(rows)
    PROVE  \E sum : /\ Sums(sum, [f \in rows |-> f.revenue], rows)
                    /\ MapThenSumSet(LAMBDA f : f.revenue, rows) = sum[rows]
  <1> DEFINE value == [f \in rows |-> f.revenue]
             total == CHOOSE sum : sum = [A \in SUBSET rows |->
                         IF A = {} THEN 0 ELSE OneOf(A).revenue + sum[A \ {OneOf(A)}]]
  <1>1. \A A \in SUBSET rows : A # {} => value[OneOf(A)] = OneOf(A).revenue
    <2>1. \A A \in SUBSET rows : A # {} => OneOf(A) \in rows
      BY DEF OneOf
    <2> QED
      BY <2>1
  <1>2. PICK sum : Sums(sum, value, rows)
    <2> HIDE DEF value
    <2> QED
      BY SumExists
  <1>3. total = [A \in SUBSET rows |->
                   IF A = {} THEN 0 ELSE OneOf(A).revenue + total[A \ {OneOf(A)}]]
    <2> HIDE DEF value
    <2>1. sum = [A \in SUBSET rows |->
                   IF A = {} THEN 0 ELSE OneOf(A).revenue + sum[A \ {OneOf(A)}]]
      BY <1>1, <1>2 DEF Sums
    <2> QED
      BY <2>1
  <1>4. MapThenSumSet(LAMBDA f : f.revenue, rows) = total[rows]
    BY DEF MapThenSumSet, MapThenFoldSet, OneOf
  <1> HIDE DEF total, value
  <1>5. Sums(total, value, rows)
    BY <1>1, <1>3 DEF Sums
  <1> QED
    BY <1>4, <1>5 DEF value

LEMMA OrderTotalType ==
    ASSUME NEW o
    PROVE  OrderTotal(o) \in Nat
  <1>1. IsFiniteSet(ItemsOf(o)) /\ \A i \in ItemsOf(o) : i.revenue \in Nat
    <2>1. ItemsOf(o) \subseteq SilverItems
      BY DEF ItemsOf
    <2> QED
      BY <2>1, SilverIsFinite, FS_Subset
  <1>2. PICK sum : /\ Sums(sum, [i \in ItemsOf(o) |-> i.revenue], ItemsOf(o))
                   /\ MapThenSumSet(LAMBDA i : i.revenue, ItemsOf(o)) = sum[ItemsOf(o)]
    BY <1>1, RevenueFolds
  <1>3. sum[ItemsOf(o)] \in Nat
    <2> DEFINE value == [i \in ItemsOf(o) |-> i.revenue]
    <2>1. Sums(sum, value, ItemsOf(o)) /\ \A i \in ItemsOf(o) : value[i] \in Nat
      BY <1>1, <1>2
    <2> HIDE DEF value
    <2> QED
      BY <1>1, <2>1, SumIsNat
  <1> QED
    BY <1>2, <1>3 DEF OrderTotal

(* What is a row of a fact table.                                          *)
FactShaped(f) == f.revenue \in Nat /\ f.customer_sk \in OrNull(Customers \X Nat)

LEMMA PointInTimeType ==
    ASSUME NEW d, d \subseteq Version, IsFiniteSet(d), NEW o
    PROVE  /\ PointInTime(o, d) # {} /\ IsFiniteSet(PointInTime(o, d))
           /\ \A v \in PointInTime(o, d) : v.uid = NULL \/ Sk(v) \in Customers \X Nat
  <1>1. PointInTime(o, d) \subseteq d \cup {Unresolved} /\ PointInTime(o, d) # {}
    BY DEF PointInTime, VersionsAt
  <1>2. IsFiniteSet(d \cup {Unresolved})
    BY FS_AddElement
  <1>3. \A v \in d \cup {Unresolved} : v.uid = NULL \/ Sk(v) \in Customers \X Nat
    BY DEF Version, OrNull, Unresolved, Sk
  <1> QED
    BY <1>1, <1>2, <1>3, FS_Subset

LEMMA FactRowType ==
    ASSUME NEW v, v.uid = NULL \/ Sk(v) \in Customers \X Nat, NEW key, NEW revenue \in Nat
    PROVE  /\ FactShaped(FactRow(key, v, revenue))
           /\ FactRow(key, v, revenue).key = key /\ FactRow(key, v, revenue).revenue = revenue
  BY DEF FactRow, FactShaped, OrNull

(* Orders are lines of themselves. *)
OrderLines == {[key |-> <<o.order_id>>, order_id |-> o.order_id, revenue |-> OrderTotal(o)] :
                 o \in SilverOrders}

LinesOf(table) ==
    CASE table = "fact_order" -> OrderLines
      [] table = "fact_order_item" -> {Line(i, i.item) : i \in SilverItems}
      [] table = "fact_payment" -> {Line(p, p.seq) : p \in SilverPayments}

LEMMA FactsAreJoined ==
    ASSUME NEW table \in FactNames, NEW d
    PROVE  BuildFact(table, d) = FactLines(LinesOf(table), d)
  <1>1. CASE table = "fact_order"
    <2>1. ASSUME NEW f \in FactOrder(d)
          PROVE  f \in FactLines(OrderLines, d)
      <3>1. PICK o \in SilverOrders : \E v \in PointInTime(o, d) :
              f = FactRow(<<o.order_id>>, v, OrderTotal(o))
        BY DEF FactOrder
      <3>2. PICK l \in OrderLines : l = [key |-> <<o.order_id>>, order_id |-> o.order_id,
                                         revenue |-> OrderTotal(o)]
        BY DEF OrderLines
      <3>3. l.key = <<o.order_id>> /\ l.order_id = o.order_id /\ l.revenue = OrderTotal(o)
        BY <3>2
      <3> QED
        BY <3>1, <3>3 DEF FactLines
    <2>2. ASSUME NEW f \in FactLines(OrderLines, d)
          PROVE  f \in FactOrder(d)
      <3>1. PICK l \in OrderLines, o \in SilverOrders : \E v \in PointInTime(o, d) :
              o.order_id = l.order_id /\ f = FactRow(l.key, v, l.revenue)
        BY DEF FactLines
      <3>2. PICK p \in SilverOrders : l = [key |-> <<p.order_id>>, order_id |-> p.order_id,
                                           revenue |-> OrderTotal(p)]
        BY DEF OrderLines
      <3>3. l.key = <<p.order_id>> /\ l.order_id = p.order_id /\ l.revenue = OrderTotal(p)
        BY <3>2
      <3>4. p = o
        BY <3>1, <3>3, OneSilverRowPerKey
      <3> QED
        BY <3>1, <3>3, <3>4 DEF FactOrder
    <2> QED
      BY <1>1, <2>1, <2>2 DEF BuildFact, LinesOf
  <1>2. CASE table = "fact_order_item"
    BY <1>2 DEF BuildFact, LinesOf, FactOrderItem
  <1>3. CASE table = "fact_payment"
    BY <1>3 DEF BuildFact, LinesOf, FactPayment
  <1> QED
    BY <1>1, <1>2, <1>3 DEF FactNames

LEMMA LinesType ==
    ASSUME NEW table \in FactNames
    PROVE  IsFiniteSet(LinesOf(table)) /\ \A l \in LinesOf(table) : l.revenue \in Nat
  <1>1. CASE table = "fact_order"
    <2> DEFINE line == [o \in SilverOrders |-> [key |-> <<o.order_id>>, order_id |-> o.order_id,
                                                revenue |-> OrderTotal(o)]]
    <2>1. OrderLines = {line[o] : o \in SilverOrders} /\ DOMAIN line = SilverOrders
      BY DEF OrderLines
    <2>2. \A o \in SilverOrders : line[o].revenue \in Nat
      BY OrderTotalType
    <2> HIDE DEF line
    <2>3. IsFiniteSet(OrderLines)
      BY <2>1, SilverIsFinite, FiniteImage
    <2> QED
      BY <1>1, <2>1, <2>2, <2>3 DEF LinesOf
  <1>2. CASE table = "fact_order_item"
    <2> DEFINE line == [i \in SilverItems |-> Line(i, i.item)]
    <2>1. LinesOf(table) = {line[i] : i \in SilverItems} /\ DOMAIN line = SilverItems
      BY <1>2 DEF LinesOf
    <2>2. \A i \in SilverItems : line[i].revenue \in Nat
      BY SilverIsFinite DEF Line
    <2> HIDE DEF line
    <2>3. IsFiniteSet(LinesOf(table))
      BY <2>1, SilverIsFinite, FiniteImage
    <2> QED
      BY <2>1, <2>2, <2>3
  <1>3. CASE table = "fact_payment"
    <2> DEFINE line == [p \in SilverPayments |-> Line(p, p.seq)]
    <2>1. LinesOf(table) = {line[p] : p \in SilverPayments} /\ DOMAIN line = SilverPayments
      BY <1>3 DEF LinesOf
    <2>2. \A p \in SilverPayments : line[p].revenue \in Nat
      BY PaymentsAreFinite DEF Line
    <2> HIDE DEF line
    <2>3. IsFiniteSet(LinesOf(table))
      BY <2>1, PaymentsAreFinite, FiniteImage
    <2> QED
      BY <2>1, <2>2, <2>3
  <1> QED
    BY <1>1, <1>2, <1>3 DEF FactNames

(* A fact table is finite, its rows are rows, and it has a row for a key   *)
(* exactly if it would have one for an empty dimension, of that revenue.   *)
LEMMA BuiltTableType ==
    ASSUME NEW table \in FactNames, NEW d, d \subseteq Version, IsFiniteSet(d)
    PROVE  /\ IsFiniteSet(BuildFact(table, d))
           /\ \A f \in BuildFact(table, d) : FactShaped(f)
           /\ \A f \in BuildFact(table, d) : \E l \in LinesOf(table), o \in SilverOrders :
                o.order_id = l.order_id /\ f.key = l.key /\ f.revenue = l.revenue
           /\ \A l \in LinesOf(table), o \in SilverOrders : o.order_id = l.order_id =>
                \E f \in BuildFact(table, d) : f.key = l.key /\ f.revenue = l.revenue
  <1>1. BuildFact(table, d) = FactLines(LinesOf(table), d)
    BY FactsAreJoined
  <1>2. IsFiniteSet(LinesOf(table)) /\ \A l \in LinesOf(table) : l.revenue \in Nat
    BY LinesType
  <1>3. \A o \in SilverOrders :
          /\ PointInTime(o, d) # {} /\ IsFiniteSet(PointInTime(o, d))
          /\ \A v \in PointInTime(o, d) : v.uid = NULL \/ Sk(v) \in Customers \X Nat
    BY PointInTimeType
  <1> DEFINE rows(l, o) == {FactRow(l.key, v, l.revenue) : v \in PointInTime(o, d)}
             mine(l) == {x \in SilverOrders : x.order_id = l.order_id}
  <1>4. ASSUME NEW l \in LinesOf(table), NEW o \in SilverOrders
        PROVE  IsFiniteSet(rows(l, o))
    <2> DEFINE row == [v \in PointInTime(o, d) |-> FactRow(l.key, v, l.revenue)]
    <2>1. rows(l, o) = {row[v] : v \in PointInTime(o, d)} /\ DOMAIN row = PointInTime(o, d)
      OBVIOUS
    <2> HIDE DEF row, rows
    <2> QED
      BY <1>3, <2>1, FiniteImage
  <1>5. ASSUME NEW l \in LinesOf(table)
        PROVE  IsFiniteSet(UNION {rows(l, o) : o \in mine(l)})
    <2> DEFINE part == [o \in mine(l) |-> rows(l, o)]
    <2>1. \A o \in mine(l) : IsFiniteSet(part[o])
      <3> HIDE DEF rows
      <3> QED
        BY <1>4
    <2>2. IsFiniteSet(mine(l))
      BY SilverIsFinite, FS_Subset
    <2>3. DOMAIN part = mine(l) /\ {rows(l, o) : o \in mine(l)} = {part[o] : o \in mine(l)}
      OBVIOUS
    <2> HIDE DEF part, rows, mine
    <2>4. IsFiniteSet(UNION {part[o] : o \in mine(l)})
      BY <2>1, <2>2, <2>3, FiniteUnion
    <2> QED
      BY <2>3, <2>4
  <1>6. IsFiniteSet(FactLines(LinesOf(table), d))
    <2> DEFINE part == [l \in LinesOf(table) |-> UNION {rows(l, o) : o \in mine(l)}]
    <2>1. FactLines(LinesOf(table), d) = UNION {part[l] : l \in LinesOf(table)}
      BY DEF FactLines
    <2>2. DOMAIN part = LinesOf(table) /\ \A l \in LinesOf(table) : IsFiniteSet(part[l])
      <3> HIDE DEF rows, mine
      <3> QED
        BY <1>5
    <2> HIDE DEF part
    <2> QED
      BY <1>2, <2>1, <2>2, FiniteUnion
  <1>7. ASSUME NEW f \in FactLines(LinesOf(table), d)
        PROVE  /\ FactShaped(f)
               /\ \E l \in LinesOf(table), o \in SilverOrders :
                    o.order_id = l.order_id /\ f.key = l.key /\ f.revenue = l.revenue
    <2>1. PICK l \in LinesOf(table), o \in SilverOrders : \E v \in PointInTime(o, d) :
            o.order_id = l.order_id /\ f = FactRow(l.key, v, l.revenue)
      BY DEF FactLines
    <2>2. PICK v \in PointInTime(o, d) : f = FactRow(l.key, v, l.revenue)
      BY <2>1
    <2>3. FactShaped(f) /\ f.key = l.key /\ f.revenue = l.revenue
      BY <1>2, <1>3, <2>2, FactRowType
    <2> QED
      BY <2>1, <2>3
  <1>8. ASSUME NEW l \in LinesOf(table), NEW o \in SilverOrders, o.order_id = l.order_id
        PROVE  \E f \in FactLines(LinesOf(table), d) : f.key = l.key /\ f.revenue = l.revenue
    <2>1. PICK v \in PointInTime(o, d) : TRUE
      BY <1>3
    <2>2. FactRow(l.key, v, l.revenue) \in FactLines(LinesOf(table), d)
      BY <1>8, <2>1 DEF FactLines
    <2>3. FactRow(l.key, v, l.revenue).key = l.key /\ FactRow(l.key, v, l.revenue).revenue = l.revenue
      BY <1>2, <1>3, <2>1, FactRowType
    <2> QED
      BY <2>2, <2>3
  <1> QED
    BY <1>1, <1>6, <1>7, <1>8

(* Two tables with the same keys and the same revenue under each.          *)
LEMMA SameMeasures ==
    ASSUME NEW A, IsFiniteSet(A), OneRowPerFactKey(A), \A f \in A : FactShaped(f),
           NEW B, IsFiniteSet(B), OneRowPerFactKey(B), \A g \in B : FactShaped(g),
           \A f \in A : \E g \in B : g.key = f.key /\ g.revenue = f.revenue,
           \A g \in B : \E f \in A : f.key = g.key /\ f.revenue = g.revenue
    PROVE  CountAndSum(A) = CountAndSum(B)
  <1> DEFINE name == [f \in A |-> CHOOSE g \in B : g.key = f.key /\ g.revenue = f.revenue]
  <1>1. \A f \in A : name[f] \in B /\ name[f].key = f.key /\ name[f].revenue = f.revenue
    OBVIOUS
  <1>2. DOMAIN name = A
    OBVIOUS
  <1> HIDE DEF name
  <1>3. \A f, g \in A : name[f] = name[g] => f = g
    BY <1>1 DEF OneRowPerFactKey
  <1>4. {name[f] : f \in A} = B
    <2>1. ASSUME NEW g \in B PROVE g \in {name[f] : f \in A}
      <3>1. PICK f \in A : f.key = g.key
        OBVIOUS
      <3>2. name[f] = g
        BY <1>1, <3>1 DEF OneRowPerFactKey
      <3> QED
        BY <3>2
    <2> QED
      BY <1>1, <2>1
  <1>5. Cardinality(A) = Cardinality(B)
    BY <1>2, <1>3, <1>4, FiniteImage
  <1>6. MapThenSumSet(LAMBDA f : f.revenue, A) = MapThenSumSet(LAMBDA f : f.revenue, B)
    <2> DEFINE value == [f \in A |-> f.revenue]
               worth == [g \in B |-> g.revenue]
    <2>1. PICK sum : Sums(sum, value, A) /\ MapThenSumSet(LAMBDA f : f.revenue, A) = sum[A]
      BY RevenueFolds
    <2>2. PICK other : Sums(other, worth, B) /\ MapThenSumSet(LAMBDA f : f.revenue, B) = other[B]
      BY RevenueFolds
    <2>3. Summable(value, A) /\ Summable(worth, B)
      BY DEF Summable, FactShaped
    <2>4. \A f \in A : name[f] \in B /\ worth[name[f]] = value[f]
      BY <1>1
    <2> HIDE DEF value, worth
    <2>5. sum[A] = other[{name[f] : f \in A}]
      BY <1>3, <2>1, <2>2, <2>3, <2>4, SumRenames
    <2> QED
      BY <1>4, <2>1, <2>2, <2>5
  <1> QED
    BY <1>5, <1>6 DEF CountAndSum

(* The count and the sum of a fact table, whatever the dimension.          *)
Standard(table) == CountAndSum(BuildFact(table, {}))

LEMMA NoVersions ==
    ASSUME NEW table \in FactNames
    PROVE  OneRowPerFactKey(BuildFact(table, {}))
  <1>1. \A o : PointInTime(o, {}) = {Unresolved}
    BY DEF PointInTime, VersionsAt
  <1>2. \A l, m \in LinesOf(table) : l.key = m.key => l = m
    <2>1. CASE table = "fact_order"
      <3> SUFFICES ASSUME NEW o \in SilverOrders, NEW p \in SilverOrders,
                          <<o.order_id>> = <<p.order_id>>
                   PROVE  o = p
        BY <2>1 DEF LinesOf, OrderLines
      <3>1. <<o.order_id>>[1] = <<p.order_id>>[1]
        OBVIOUS
      <3> QED
        BY <3>1, OneSilverRowPerKey
    <2>2. CASE table = "fact_order_item"
      BY <2>2, OneSilverRowPerKey DEF LinesOf, Line
    <2>3. CASE table = "fact_payment"
      BY <2>3, OneSilverRowPerKey DEF LinesOf, Line
    <2> QED
      BY <2>1, <2>2, <2>3 DEF FactNames
  <1>3. ASSUME NEW f \in FactLines(LinesOf(table), {}), NEW g \in FactLines(LinesOf(table), {}),
               f.key = g.key
        PROVE  f = g
    <2>1. PICK l \in LinesOf(table) : f = FactRow(l.key, Unresolved, l.revenue)
      BY <1>1 DEF FactLines
    <2>2. PICK m \in LinesOf(table) : g = FactRow(m.key, Unresolved, m.revenue)
      BY <1>1 DEF FactLines
    <2>3. l = m
      BY <1>2, <1>3, <2>1, <2>2 DEF FactRow
    <2> QED
      BY <2>1, <2>2, <2>3
  <1> QED
    BY <1>3, FactsAreJoined DEF OneRowPerFactKey

LEMMA BuiltIsStandard ==
    ASSUME dim \subseteq Version, IsFiniteSet(dim), WindowsDisjoint, NEW table \in FactNames
    PROVE  CountAndSum(BuildFact(table, dim)) = Standard(table)
  <1>1. /\ IsFiniteSet(BuildFact(table, dim))
        /\ \A f \in BuildFact(table, dim) : FactShaped(f)
        /\ \A f \in BuildFact(table, dim) : \E l \in LinesOf(table), o \in SilverOrders :
             o.order_id = l.order_id /\ f.key = l.key /\ f.revenue = l.revenue
        /\ \A l \in LinesOf(table), o \in SilverOrders : o.order_id = l.order_id =>
             \E f \in BuildFact(table, dim) : f.key = l.key /\ f.revenue = l.revenue
    BY BuiltTableType
  <1>2. /\ IsFiniteSet(BuildFact(table, {}))
        /\ \A f \in BuildFact(table, {}) : FactShaped(f)
        /\ \A f \in BuildFact(table, {}) : \E l \in LinesOf(table), o \in SilverOrders :
             o.order_id = l.order_id /\ f.key = l.key /\ f.revenue = l.revenue
        /\ \A l \in LinesOf(table), o \in SilverOrders : o.order_id = l.order_id =>
             \E f \in BuildFact(table, {}) : f.key = l.key /\ f.revenue = l.revenue
    BY BuiltTableType, FS_EmptySet
  <1>3. OneRowPerFactKey(BuildFact(table, dim)) /\ OneRowPerFactKey(BuildFact(table, {}))
    BY BuiltTableGrain, NoVersions DEF FactNames
  <1>4. /\ \A f \in BuildFact(table, dim) : \E g \in BuildFact(table, {}) :
             g.key = f.key /\ g.revenue = f.revenue
        /\ \A g \in BuildFact(table, {}) : \E f \in BuildFact(table, dim) :
             f.key = g.key /\ f.revenue = g.revenue
    BY <1>1, <1>2
  <1>5. CountAndSum(BuildFact(table, dim)) = CountAndSum(BuildFact(table, {}))
    <2> DEFINE A == BuildFact(table, dim)
               B == BuildFact(table, {})
    <2>1. /\ IsFiniteSet(A) /\ OneRowPerFactKey(A) /\ \A f \in A : FactShaped(f)
          /\ IsFiniteSet(B) /\ OneRowPerFactKey(B) /\ \A g \in B : FactShaped(g)
          /\ \A f \in A : \E g \in B : g.key = f.key /\ g.revenue = f.revenue
          /\ \A g \in B : \E f \in A : f.key = g.key /\ f.revenue = g.revenue
      BY <1>1, <1>2, <1>3, <1>4
    <2> HIDE DEF A, B
    <2>2. CountAndSum(A) = CountAndSum(B)
      BY <2>1, SameMeasures
    <2> QED
      BY <2>2 DEF A, B
  <1> QED
    BY <1>5 DEF Standard

-----------------------------------------------------------------------------
(* A table that was ever built has the standard measures; an attempt has   *)
(* built the first of them, or is of a run that got past all three.        *)
Measured(n) == \A i \in 1 .. n : CountAndSum(fact[FactTables[i]]) = Standard(FactTables[i])

MeasureInv ==
    ~backdated =>
        /\ Measured(built)
        /\ \A r \in Runs : stoppedIn[r] = "idempotency_check" => Measured(3)

(* The fingerprint of a dimension of n versions.                           *)
PrintOf(n) ==
    [t \in FactNames \cup {"dim_customer"} |-> IF t = "dim_customer" THEN <<n, 0>> ELSE Standard(t)]

PrintInv ==
    ~backdated => \A i \in DOMAIN fingerprints : \E n \in Nat :
        n <= Cardinality(dim) /\ fingerprints[i].print = PrintOf(n)


-----------------------------------------------------------------------------
(* The rows of the dimension are finitely many, and never fewer than they  *)
(* were: a repair leaves them alone.                                       *)
LEMMA GoldCountsKept ==
    ASSUME IndInv, CountInv, [GoldNext]_allVars
    PROVE  CountInv' /\ NoneFewer
  <1>1. CASE [Next]_vars
    BY <1>1, CountsKept
  <1>2. ASSUME NEW r \in Runs, Repair(r)
        PROVE  CountInv' /\ NoneFewer
    <2>1. UNCHANGED <<dim, commit, staging>>
      BY <1>2 DEF Repair, tables
    <2> QED
      BY <2>1, QuietCounts
  <1> QED
    BY <1>1, <1>2, GoldSteps

(* What the three fact tables and the fingerprints consist of.             *)
Prints == [FactNames \cup {"dim_customer"} -> Nat \X Nat]

PrintRows == [run_id : Runs, run_date : Dates \cup {0}, print : Prints]

GoldTyped ==
    /\ \A t \in FactNames : IsFiniteSet(fact[t]) /\ \A f \in fact[t] : FactShaped(f)
    /\ fingerprints \in Seq(PrintRows)
    /\ captured \in BOOLEAN
    /\ \A r \in Runs : /\ run[r].phase = "failed" => stoppedIn[r] # "none"
                       /\ run[r].phase \in {"queued", "succeeded"} => stoppedIn[r] = "none"

LEMMA CountAndSumType ==
    ASSUME NEW rows, IsFiniteSet(rows), \A f \in rows : FactShaped(f)
    PROVE  CountAndSum(rows) \in Nat \X Nat
  <1>1. Cardinality(rows) \in Nat
    BY FS_CardinalityType
  <1>2. PICK sum : /\ Sums(sum, [f \in rows |-> f.revenue], rows)
                   /\ MapThenSumSet(LAMBDA f : f.revenue, rows) = sum[rows]
    BY RevenueFolds
  <1>3. sum[rows] \in Nat
    <2> DEFINE value == [f \in rows |-> f.revenue]
    <2>1. Sums(sum, value, rows) /\ \A f \in rows : value[f] \in Nat
      BY <1>2 DEF FactShaped
    <2> HIDE DEF value
    <2> QED
      BY <2>1, SumIsNat
  <1> QED
    BY <1>1, <1>2, <1>3 DEF CountAndSum

LEMMA FingerprintType ==
    ASSUME IsFiniteSet(dim), GoldTyped, fact = [t \in FactNames |-> fact[t]]
    PROVE  Fingerprint(fact, dim) \in Prints
  <1>1. Cardinality(dim) \in Nat
    BY FS_CardinalityType
  <1>2. \A t \in FactNames : CountAndSum(fact[t]) \in Nat \X Nat
    BY CountAndSumType DEF GoldTyped
  <1>3. DOMAIN fact = FactNames
    OBVIOUS
  <1> QED
    BY <1>1, <1>2, <1>3 DEF Fingerprint, Prints

LEMMA GoldTypedKept ==
    ASSUME IndInv, CountInv, GrainInv, StoppedTyped, AttemptsFit, GoldTyped, [GoldNext]_allVars
    PROVE  GoldTyped'
  <1>0. TypeOK
    BY DEF IndInv
  <1>1. ASSUME NEW r \in Runs, BuildNextFact(r)
        PROVE  GoldTyped'
    <2>1. /\ built < 3 /\ fact' = [fact EXCEPT ![FactTables[built + 1]] =
                                     BuildFact(FactTables[built + 1], dim)]
          /\ UNCHANGED <<run, fingerprints, captured, stoppedIn>>
      BY <1>1, TableOrder DEF BuildNextFact, vars
    <2>2. FactTables[built + 1] \in FactNames
      BY <2>1, TableNames DEF GrainInv, FactNames
    <2>3. /\ IsFiniteSet(BuildFact(FactTables[built + 1], dim))
          /\ \A f \in BuildFact(FactTables[built + 1], dim) : FactShaped(f)
      BY <1>0, <2>2, BuiltTableType DEF CountInv, TypeOK
    <2>4. \A t \in FactNames : fact'[t] = IF t = FactTables[built + 1]
                                          THEN BuildFact(FactTables[built + 1], dim) ELSE fact[t]
      BY <2>1 DEF AttemptsFit
    <2>5. \A t \in FactNames : IsFiniteSet(fact'[t]) /\ \A f \in fact'[t] : FactShaped(f)
      BY <2>3, <2>4 DEF GoldTyped
    <2> QED
      BY <2>1, <2>5 DEF GoldTyped
  <1>2. ASSUME NEW r \in Runs, Capture(r)
        PROVE  GoldTyped'
    <2>1. Fingerprint(fact, dim) \in Prints
      BY FingerprintType DEF CountInv, AttemptsFit
    <2>2. run[r].run_date \in Dates \cup {0}
      BY <1>0 DEF TypeOK, Run
    <2>3. [run_id |-> r, run_date |-> run[r].run_date, print |-> Fingerprint(fact, dim)]
             \in PrintRows
      BY <2>1, <2>2 DEF PrintRows
    <2>4. fingerprints' \in Seq(PrintRows)
      BY <1>2, <2>3 DEF Capture, GoldTyped
    <2> QED
      BY <1>2, <2>4 DEF Capture, GoldTyped, vars
  <1>3. ASSUME NEW r \in Runs, NEW phase \in Phases, GoTo(r, phase),
               NEW task, stoppedIn' = [stoppedIn EXCEPT ![r] = task],
               phase = "failed" => task # "none",
               phase \in {"queued", "succeeded"} => task = "none",
               captured' \in BOOLEAN, UNCHANGED <<fact, fingerprints>>
        PROVE  GoldTyped'
    <2>1. /\ \A q \in Runs : q # r => run'[q] = run[q]
          /\ run'[r].phase = phase
      BY <1>0, <1>3, Moved
    <2>2. /\ \A q \in Runs : q # r => stoppedIn'[q] = stoppedIn[q]
          /\ stoppedIn'[r] = task
      BY <1>3 DEF StoppedTyped
    <2> QED
      BY <1>3, <2>1, <2>2 DEF GoldTyped
  <1>4. ASSUME NEW r \in Runs, CheckIdempotency(r)
        PROVE  GoldTyped'
    <2>1. /\ captured' \in BOOLEAN /\ UNCHANGED <<fact, fingerprints>>
          /\ \/ GoTo(r, "succeeded") /\ stoppedIn' = [stoppedIn EXCEPT ![r] = "none"]
             \/ GoTo(r, "failed") /\ stoppedIn' = [stoppedIn EXCEPT ![r] = "idempotency_check"]
      BY <1>4 DEF CheckIdempotency, EndAttempt, Finish, Fail
    <2> QED
      BY <1>3, <2>1 DEF Phases
  <1>5. ASSUME NEW r \in Runs, FailTask(r)
        PROVE  GoldTyped'
    <2>1. PICK task \in TasksAt(r) : EndAttempt(r, task)
      BY <1>5 DEF FailTask
    <2>2. task # "none"
      BY <2>1, TasksTyped
    <2>3. GoTo(r, "failed")
      BY <1>5 DEF FailTask, Fail
    <2> QED
      BY <1>3, <2>1, <2>2, <2>3 DEF EndAttempt, Phases
  <1>6. ASSUME NEW r \in Runs, Repair(r)
        PROVE  GoldTyped'
    <2>1. GoTo(r, ResumedAt(r)) /\ UNCHANGED <<fact, fingerprints, captured, stoppedIn>>
      BY <1>6 DEF Repair
    <2>2. run'[r].phase = ResumedAt(r) /\ \A q \in Runs : q # r => run'[q] = run[q]
      BY <1>0, <2>1, Moved
    <2>3. ResumedAt(r) \notin {"queued", "succeeded", "failed"}
      BY DEF ResumedAt
    <2> QED
      BY <2>1, <2>2, <2>3 DEF GoldTyped
  <1>7. ASSUME NEW r \in Runs, run'[r].phase \notin {"queued", "succeeded", "failed"},
               \A q \in Runs : q # r => run'[q] = run[q],
               UNCHANGED <<fact, fingerprints, captured, stoppedIn>>
        PROVE  GoldTyped'
    BY <1>7 DEF GoldTyped
  <1>8. ASSUME NEW r \in Runs, NEW date \in Dates, NEW day \in Days \cup {0},
               StartRun(r, date, day)
        PROVE  GoldTyped'
    <2>1. /\ run'[r].phase \notin {"queued", "succeeded", "failed"}
          /\ \A q \in Runs : q # r => run'[q] = run[q]
          /\ UNCHANGED <<fact, fingerprints, captured, stoppedIn>>
      BY <1>0, <1>8 DEF StartRun, Start, TypeOK, Run
    <2> QED
      BY <1>7, <2>1
  <1>9. ASSUME NEW r \in Runs, ApplyTask(r)
        PROVE  GoldTyped'
    <2>1. UNCHANGED <<fact, fingerprints, captured, stoppedIn>> /\ Apply(r)
      BY <1>9 DEF ApplyTask, goldVars, attemptVars
    <2>2. CASE StageChanges(r)
      <3>1. PICK actions : run' = [run EXCEPT ![r].phase = NextPass(actions, FALSE),
                                              ![r].actions = actions]
        BY <2>2 DEF StageChanges
      <3>2. /\ run'[r].phase \notin {"queued", "succeeded", "failed"}
            /\ \A q \in Runs : q # r => run'[q] = run[q]
        BY <1>0, <2>2, <3>1 DEF StageChanges, TypeOK, Run, NextPass
      <3> QED
        BY <1>7, <2>1, <3>2
    <2>3. CASE ~StageChanges(r)
      <3>1. \E phase : phase \notin {"queued", "succeeded", "failed"} /\ GoTo(r, phase)
        BY <2>1, <2>3 DEF Apply, SeedDim, SkipCdc, CloseSuperseded, AppendVersions, NextPass
      <3> QED
        BY <1>0, <1>7, <2>1, <3>1, Moved
    <2> QED
      BY <2>2, <2>3
  <1>10. CASE UNCHANGED allVars
    BY <1>10 DEF allVars, vars, goldVars, attemptVars, GoldTyped
  <1> QED
    BY <1>1, <1>2, <1>4, <1>5, <1>6, <1>8, <1>9, <1>10 DEF GoldNext, GoldRest


LEMMA GoldCountInvariance == GoldSpec => []CountInv
  <1>1. GoldInit => CountInv
    BY CountInit DEF GoldInit
  <1>2. IndInv /\ CountInv /\ [GoldNext]_allVars => CountInv'
    BY GoldCountsKept
  <1> QED
    BY <1>1, <1>2, GoldInvariance, PTL DEF GoldSpec

LEMMA GoldTypedInvariance == GoldSpec => []GoldTyped
  <1>1. GoldInit => GoldTyped
    <2> SUFFICES ASSUME GoldInit PROVE GoldTyped
      OBVIOUS
    <2>1. /\ \A r \in Runs : run[r].phase = "queued" /\ stoppedIn[r] = "none"
          /\ fingerprints = <<>> /\ captured = FALSE
      BY DEF GoldInit, Init
    <2>2. \A t \in FactNames : fact[t] = {}
      <3>1. {FactTables[i] : i \in 1 .. 3} = FactNames
        <4>1. 1 .. 3 = {1, 2, 3}
          OBVIOUS
        <4> QED
          BY <4>1, TableOrder DEF FactNames
      <3> QED
        BY <3>1 DEF GoldInit
    <2>3. <<>> \in Seq(PrintRows)
      OBVIOUS
    <2> QED
      BY <2>1, <2>2, <2>3, FS_EmptySet DEF GoldTyped
  <1>2. IndInv /\ CountInv /\ GrainInv /\ ResolveInv /\ PublishInv /\ GoldTyped
          /\ [GoldNext]_allVars => GoldTyped'
    BY GoldTypedKept DEF ResolveInv, PublishInv
  <1> QED
    BY <1>1, <1>2, GoldInvariance, GoldCountInvariance, GrainInvariance, ResolveInvariance,
       PublishInvariance, PTL DEF GoldSpec

(* The variables of the gold layer keep their types: the rows of the fact  *)
(* tables are rows, every fingerprint is of a run, and exactly the failed  *)
(* runs have a task a repair would take up.                                *)
THEOREM GoldTypes == GoldSpec => []GoldTypeOK
  <1>1. GrainInv /\ PastInv /\ GoldTyped => GoldTypeOK
    <2> SUFFICES ASSUME GrainInv, PastInv, GoldTyped PROVE GoldTypeOK
      OBVIOUS
    <2>1. built \in 0 .. 3 /\ factsAsOf \in Nat
      BY DEF GrainInv, PastInv
    <2>2. \A t \in DOMAIN fact : \A f \in fact[t] : FactShaped(f)
      BY DEF PastInv, GoldTyped, FactNames
    <2>3. \A i \in DOMAIN fingerprints : fingerprints[i] \in PrintRows
      BY DEF GoldTyped
    <2> QED
      BY <2>1, <2>2, <2>3 DEF GoldTypeOK, GoldTyped, FactShaped, PrintRows
  <1> QED
    BY <1>1, GrainInvariance, PastInvariance, GoldTypedInvariance, PTL

-----------------------------------------------------------------------------
(* The measures under every step.                                          *)
LEMMA OneMoreMeasured ==
    ASSUME IndInv, CountInv, GrainInv, AttemptsFit, ~backdated, NEW r \in Runs, BuildNextFact(r),
           NEW n \in 0 .. 3, Measured(n)
    PROVE  Measured(n)' /\ (n = built => Measured(n + 1)')
  <1>1. /\ built < 3 /\ fact' = [fact EXCEPT ![FactTables[built + 1]] =
                                   BuildFact(FactTables[built + 1], dim)]
    BY TableOrder DEF BuildNextFact
  <1>2. FactTables[built + 1] \in FactNames
    BY <1>1, TableNames DEF GrainInv, FactNames
  <1>3. CountAndSum(BuildFact(FactTables[built + 1], dim)) = Standard(FactTables[built + 1])
    BY <1>2, BuiltIsStandard DEF IndInv, TypeOK, DisjointWindows, CountInv
  <1>4. \A t \in FactNames : fact'[t] = IF t = FactTables[built + 1]
                                        THEN BuildFact(FactTables[built + 1], dim) ELSE fact[t]
    BY <1>1 DEF AttemptsFit
  <1>5. ASSUME NEW i \in 1 .. 3,
               i = built + 1 \/ CountAndSum(fact[FactTables[i]]) = Standard(FactTables[i])
        PROVE  CountAndSum(fact'[FactTables[i]]) = Standard(FactTables[i])
    <2>1. FactTables[i] \in FactNames
      <3>1. i - 1 \in 0 .. 2 /\ (i - 1) + 1 = i
        OBVIOUS
      <3> QED
        BY <3>1, TableNames DEF FactNames
    <2> QED
      BY <1>3, <1>4, <1>5, <2>1
  <1>6. built \in 0 .. 2
    BY <1>1 DEF GrainInv
  <1>7. \A i \in 1 .. n : CountAndSum(fact'[FactTables[i]]) = Standard(FactTables[i])
    BY <1>5 DEF Measured
  <1>8. n = built => \A i \in 1 .. n + 1 : CountAndSum(fact'[FactTables[i]]) = Standard(FactTables[i])
    <2> SUFFICES ASSUME n = built, NEW i \in 1 .. n + 1
                 PROVE  CountAndSum(fact'[FactTables[i]]) = Standard(FactTables[i])
      OBVIOUS
    <2>1. i \in 1 .. 3 /\ (i = built + 1 \/ i \in 1 .. n)
      BY <1>6
    <2> QED
      BY <1>5, <2>1 DEF Measured
  <1> QED
    BY <1>7, <1>8 DEF Measured

LEMMA MeasureKept ==
    ASSUME IndInv, DatesSeen, CountInv, GrainInv, StoppedTyped, PublishInv, MeasureInv,
           [GoldNext]_allVars
    PROVE  MeasureInv'
  <1>0. TypeOK /\ AttemptsFit /\ built \in 0 .. 3 /\ (backdated => backdated')
    BY GoldSteps, DatesSeenKept, RepairKeeps DEF IndInv, PublishInv, GrainInv
  <1> SUFFICES ASSUME ~backdated'
               PROVE  /\ Measured(built)'
                      /\ \A r \in Runs : stoppedIn'[r] = "idempotency_check" => Measured(3)'
    BY DEF MeasureInv
  <1>1. /\ Measured(built)
        /\ \A r \in Runs : stoppedIn[r] = "idempotency_check" => Measured(3)
    BY <1>0 DEF MeasureInv
  <1>2. ASSUME UNCHANGED fact, NEW n, Measured(n)
        PROVE  Measured(n)'
    BY <1>2 DEF Measured
  <1>3. ASSUME NEW r \in Runs, BuildNextFact(r)
        PROVE  /\ Measured(built)'
               /\ \A q \in Runs : stoppedIn'[q] = "idempotency_check" => Measured(3)'
    <2>1. built' = built + 1 /\ UNCHANGED stoppedIn
      BY <1>3 DEF BuildNextFact
    <2>2. PICK n \in 0 .. 3 : n = built
      BY <1>0
    <2>3. Measured(n + 1)'
      BY <1>0, <1>1, <1>3, <2>2, OneMoreMeasured
    <2>4. ASSUME Measured(3) PROVE Measured(3)'
      BY <1>0, <1>3, <2>4, OneMoreMeasured
    <2>5. Measured(built)'
      BY <2>1, <2>2, <2>3 DEF Measured
    <2> QED
      BY <1>1, <2>1, <2>4, <2>5
  <1>4. CASE UNCHANGED <<fact, built, stoppedIn>>
    BY <1>1, <1>2, <1>4 DEF Measured
  <1>5. ASSUME NEW r \in Runs, Repair(r)
        PROVE  /\ Measured(built)'
               /\ \A q \in Runs : stoppedIn'[q] = "idempotency_check" => Measured(3)'
    <2>1. /\ UNCHANGED fact
          /\ built' = IF stoppedIn[r] = "idempotency_check" THEN 3 ELSE 0
          /\ \A q \in Runs : stoppedIn'[q] \in {stoppedIn[q], "none"}
      BY <1>5, TableOrder DEF Repair, StoppedTyped
    <2>2. Measured(built')
      BY <1>1, <2>1 DEF Measured
    <2> QED
      BY <1>1, <2>1, <2>2 DEF Measured
  <1>6. ASSUME NEW r \in Runs, NEW task, EndAttempt(r, task),
               task = "idempotency_check" => built = 3
        PROVE  /\ Measured(built)'
               /\ \A q \in Runs : stoppedIn'[q] = "idempotency_check" => Measured(3)'
    <2>1. /\ UNCHANGED fact /\ built' = 0
          /\ \A q \in Runs : stoppedIn'[q] = IF q = r THEN task ELSE stoppedIn[q]
      BY <1>6 DEF EndAttempt, StoppedTyped
    <2> QED
      BY <1>1, <1>6, <2>1 DEF Measured
  <1>7. ASSUME NEW r \in Runs, CheckIdempotency(r)
        PROVE  /\ Measured(built)'
               /\ \A q \in Runs : stoppedIn'[q] = "idempotency_check" => Measured(3)'
    <2>1. built = 3 /\ (EndAttempt(r, "none") \/ EndAttempt(r, "idempotency_check"))
      BY <1>0, <1>7 DEF CheckIdempotency, AttemptsFit
    <2> QED
      BY <1>6, <2>1
  <1>8. ASSUME NEW r \in Runs, FailTask(r)
        PROVE  /\ Measured(built)'
               /\ \A q \in Runs : stoppedIn'[q] = "idempotency_check" => Measured(3)'
    <2>1. PICK task \in TasksAt(r) : EndAttempt(r, task)
      BY <1>8 DEF FailTask
    <2>2. task = "idempotency_check" => built = 3
      BY <1>0, <1>8, <2>1, TaskPastTheFacts DEF FailTask, Fail
    <2> QED
      BY <1>6, <2>1, <2>2
  <1> QED
    BY <1>3, <1>4, <1>5, <1>7, <1>8
       DEF GoldNext, StartRun, ApplyTask, Capture, GoldRest, allVars, goldVars, attemptVars

LEMMA MeasureInvariance == GoldSpec => []MeasureInv
  <1>1. GoldInit => MeasureInv
    BY DEF GoldInit, MeasureInv, Measured
  <1>2. IndInv /\ DatesSeen /\ CountInv /\ GrainInv /\ ResolveInv /\ PublishInv /\ MeasureInv
          /\ [GoldNext]_allVars => MeasureInv'
    BY MeasureKept DEF ResolveInv
  <1> QED
    BY <1>1, <1>2, GoldInvariance, GoldCountInvariance, GrainInvariance, ResolveInvariance,
       PublishInvariance, PTL DEF GoldSpec


LEMMA PrintNow ==
    ASSUME AttemptsFit, Measured(3), IsFiniteSet(dim)
    PROVE  Fingerprint(fact, dim) = PrintOf(Cardinality(dim))
  <1>1. \A t \in FactNames : CountAndSum(fact[t]) = Standard(t)
    <2>1. 1 \in 1 .. 3 /\ 2 \in 1 .. 3 /\ 3 \in 1 .. 3
      OBVIOUS
    <2> QED
      BY <2>1, TableOrder DEF Measured, FactNames
  <1>2. DOMAIN fact = FactNames /\ "dim_customer" \notin FactNames
    BY DEF AttemptsFit, FactNames
  <1> QED
    BY <1>1, <1>2 DEF Fingerprint, PrintOf

LEMMA PrintKept ==
    ASSUME IndInv, DatesSeen, CountInv, PublishInv, GoldTyped, MeasureInv, PrintInv,
           [GoldNext]_allVars
    PROVE  PrintInv'
  <1>1. (backdated => backdated') /\ AttemptsFit
    BY GoldSteps, DatesSeenKept, RepairKeeps DEF PublishInv
  <1>2. CountInv' /\ Cardinality(dim) <= Cardinality(dim')
    BY GoldCountsKept DEF NoneFewer
  <1>3. Cardinality(dim) \in Nat /\ Cardinality(dim') \in Nat
    BY <1>2, FS_CardinalityType DEF CountInv
  <1> SUFFICES ASSUME ~backdated', NEW i \in DOMAIN fingerprints'
               PROVE  \E n \in Nat : n <= Cardinality(dim') /\ fingerprints'[i].print = PrintOf(n)
    BY DEF PrintInv
  <1>4. ASSUME i \in DOMAIN fingerprints, fingerprints'[i] = fingerprints[i]
        PROVE  \E n \in Nat : n <= Cardinality(dim') /\ fingerprints'[i].print = PrintOf(n)
    <2>1. PICK n \in Nat : n <= Cardinality(dim) /\ fingerprints[i].print = PrintOf(n)
      BY <1>1, <1>4 DEF PrintInv
    <2>2. n <= Cardinality(dim')
      BY <1>2, <1>3, <2>1
    <2> QED
      BY <1>4, <2>1, <2>2
  <1>5. ASSUME NEW r \in Runs, Capture(r)
        PROVE  \E n \in Nat : n <= Cardinality(dim') /\ fingerprints'[i].print = PrintOf(n)
    <2> DEFINE row == [run_id |-> r, run_date |-> run[r].run_date, print |-> Fingerprint(fact, dim)]
    <2>1. fingerprints' = Append(fingerprints, row) /\ built = 3 /\ UNCHANGED dim
      BY <1>5, TableOrder DEF Capture, vars, tables
    <2>2. row.print = PrintOf(Cardinality(dim))
      BY <1>1, <2>1, PrintNow DEF MeasureInv, CountInv
    <2> HIDE DEF row
    <2>3. /\ \A j \in DOMAIN fingerprints : fingerprints'[j] = fingerprints[j]
          /\ i \in DOMAIN fingerprints \/ fingerprints'[i] = row
      BY <2>1 DEF GoldTyped
    <2>4. CASE i \in DOMAIN fingerprints
      BY <1>4, <2>3, <2>4
    <2>5. CASE fingerprints'[i] = row
      BY <1>3, <2>1, <2>2, <2>5
    <2> QED
      BY <2>3, <2>4, <2>5
  <1>6. (\E r \in Runs : Capture(r)) \/ UNCHANGED fingerprints
    BY DEF GoldNext, StartRun, ApplyTask, BuildNextFact, CheckIdempotency, FailTask, EndAttempt,
           Repair, GoldRest, goldVars, allVars
  <1> QED
    BY <1>4, <1>5, <1>6

(* The last other run of the date, by its last fingerprint.                *)
LEMMA LastEarlier ==
    ASSUME GoldTyped, NEW r \in Runs
    PROVE  /\ Earlier(r) = {i \in DOMAIN fingerprints : SameDate(i, r)}
           /\ Earlier(r) = {} => Baselines(r) = {}
           /\ Earlier(r) # {} => Baselines(r) =
                {i \in DOMAIN fingerprints : fingerprints[i].run_id = PreviousRun(r)}
  <1>1. Earlier(r) = {i \in DOMAIN fingerprints : SameDate(i, r)}
    BY DEF Earlier, SameDate
  <1>2. ASSUME Earlier(r) # {}
        PROVE  Baselines(r) = {i \in DOMAIN fingerprints : fingerprints[i].run_id = PreviousRun(r)}
    <2>1. /\ DOMAIN fingerprints = 1 .. Len(fingerprints) /\ Len(fingerprints) \in Nat
          /\ Earlier(r) \subseteq 1 .. Len(fingerprints) /\ Earlier(r) \in SUBSET Int
      BY <1>1 DEF GoldTyped
    <2>2. IsFiniteSet(Earlier(r))
      <3>1. 1 \in Int /\ Len(fingerprints) \in Int
        BY <2>1
      <3>2. IsFiniteSet(1 .. Len(fingerprints))
        BY <3>1, FS_Interval
      <3> QED
        BY <2>1, <3>2, FS_Subset
    <2>3. \E x \in Earlier(r) : \A y \in Earlier(r) : x >= y
      <3>1. PICK x \in Earlier(r) : \A y \in Earlier(r) : y <= x
        BY <1>2, <2>1, <2>2, Extremes
      <3> QED
        BY <2>1, <3>1
    <2> DEFINE last == Max(Earlier(r))
    <2>4. last \in Earlier(r) /\ \A y \in Earlier(r) : last >= y
      BY <2>3 DEF Max
    <2>5. PreviousRun(r) = fingerprints[last].run_id
      BY DEF PreviousRun
    <2> HIDE DEF last
    <2>6. \A j \in DOMAIN fingerprints :
            SameDate(j, r) /\ (\A k \in DOMAIN fingerprints : k > j => ~SameDate(k, r)) <=> j = last
      <3> SUFFICES ASSUME NEW j \in DOMAIN fingerprints
                   PROVE  SameDate(j, r) /\ (\A k \in DOMAIN fingerprints : k > j => ~SameDate(k, r))
                            <=> j = last
        OBVIOUS
      <3>1. j \in Int /\ last \in Int /\ last \in DOMAIN fingerprints
        BY <2>1, <2>4
      <3>2. ASSUME SameDate(j, r), \A k \in DOMAIN fingerprints : k > j => ~SameDate(k, r)
            PROVE  j = last
        <4>1. last >= j /\ SameDate(last, r)
          BY <1>1, <2>4, <3>2
        <4>2. ~(last > j)
          BY <3>1, <3>2, <4>1
        <4> QED
          BY <3>1, <4>1, <4>2
      <3>3. ASSUME j = last, NEW k \in DOMAIN fingerprints, k > j, SameDate(k, r)
            PROVE  FALSE
        <4>1. k \in Earlier(r) /\ k \in Int
          BY <1>1, <2>1, <3>3
        <4>2. last >= k
          BY <2>4, <4>1
        <4> QED
          BY <3>1, <3>3, <4>1, <4>2
      <3>4. j = last => SameDate(j, r)
        BY <1>1, <2>4
      <3> QED
        BY <3>2, <3>3, <3>4
    <2>7. last \in DOMAIN fingerprints
      BY <2>1, <2>4
    <2> QED
      BY <2>5, <2>6, <2>7 DEF Baselines
  <1>3. Earlier(r) = {} => Baselines(r) = {}
    BY <1>1 DEF Baselines
  <1> QED
    BY <1>1, <1>2, <1>3

(* What the rows read back of a run can be, and what they are compared to. *)
LEMMA ReadBackDiffersInOne ==
    ASSUME ~backdated, PrintInv, IsFiniteSet(dim), GoldTyped,
           NEW now, now = Fingerprint(fact, dim), now = PrintOf(Cardinality(dim)),
           NEW p, NEW was \in ReadBack(p)
    PROVE  \E i \in DOMAIN fingerprints :
              fingerprints[i].run_id = p /\ (was = now <=> ~GrewSince(i))
  <1> DEFINE names == FactNames \cup {"dim_customer"}
  <1>1. /\ DOMAIN now = names /\ DOMAIN was = names
        /\ was = [t \in names |-> was[t]] /\ now = [t \in names |-> now[t]]
        /\ \A t \in names : \E f \in PrintsOf(p) : was[t] = f[t]
    BY DEF ReadBack, PrintOf
  <1>2. Cardinality(dim) \in Nat /\ "dim_customer" \notin FactNames
    BY FS_CardinalityType DEF FactNames
  <1>3. \A f \in PrintsOf(p) : \E i \in DOMAIN fingerprints :
          f = fingerprints[i].print /\ fingerprints[i].run_id = p
    BY DEF PrintsOf
  <1>4. \A i \in DOMAIN fingerprints : \E n \in Nat :
          n <= Cardinality(dim) /\ fingerprints[i].print = PrintOf(n)
    BY DEF PrintInv
  <1>5. \A t \in FactNames : was[t] = now[t]
    <2> SUFFICES ASSUME NEW t \in FactNames PROVE was[t] = now[t]
      OBVIOUS
    <2>1. PICK f \in PrintsOf(p) : was[t] = f[t]
      BY <1>1
    <2>2. PICK n \in Nat : f = PrintOf(n)
      BY <1>3, <1>4
    <2>3. f[t] = Standard(t) /\ now[t] = Standard(t)
      BY <1>2, <2>2 DEF PrintOf
    <2> QED
      BY <2>1, <2>3
  <1>6. PICK f \in PrintsOf(p) : was["dim_customer"] = f["dim_customer"]
    BY <1>1
  <1>7. PICK i \in DOMAIN fingerprints : f = fingerprints[i].print /\ fingerprints[i].run_id = p
    BY <1>3
  <1>8. PICK n \in Nat : n <= Cardinality(dim) /\ fingerprints[i].print = PrintOf(n)
    BY <1>4
  <1>9. was["dim_customer"] = <<n, 0>> /\ now["dim_customer"] = <<Cardinality(dim), 0>>
    BY <1>6, <1>7, <1>8 DEF PrintOf
  <1>10. GrewSince(i) <=> n < Cardinality(dim)
    <2>1. fingerprints[i].print["dim_customer"] = <<n, 0>>
      BY <1>8 DEF PrintOf
    <2> QED
      BY <2>1 DEF GrewSince
  <1>11. was = now <=> n = Cardinality(dim)
    <2>1. was["dim_customer"] = now["dim_customer"] <=> n = Cardinality(dim)
      <3>1. <<n, 0>> = <<Cardinality(dim), 0>> <=> n = Cardinality(dim)
        OBVIOUS
      <3> QED
        BY <1>9, <3>1
    <2>2. was = now <=> \A t \in names : was[t] = now[t]
      BY <1>1
    <2> QED
      BY <1>5, <2>1, <2>2
  <1> QED
    BY <1>2, <1>7, <1>8, <1>10, <1>11

(* What the idempotency check can and cannot see while change files are    *)
(* applied in date order: it is red only if dim_customer has grown since   *)
(* one of the fingerprints it compares with, and green only if it has not  *)
(* since one of them, or there is none.                                    *)
THEOREM CheckSeesGrowth == GoldSpec => RedIffDimensionGrew
  <1>1. GoldInit => PrintInv
    BY DEF GoldInit, PrintInv
  <1>2. IndInv /\ DatesSeen /\ CountInv /\ PublishInv /\ GoldTyped /\ MeasureInv /\ PrintInv
          /\ [GoldNext]_allVars => PrintInv'
    BY PrintKept
  <1>3. IndInv /\ CountInv /\ PublishInv /\ GoldTyped /\ MeasureInv /\ PrintInv =>
          [\A r \in Runs : ~backdated /\ CheckIdempotency(r) =>
             IF run'[r].phase = "failed" THEN \E i \in Baselines(r) : GrewSince(i)
             ELSE Baselines(r) = {} \/ \E i \in Baselines(r) : ~GrewSince(i)]_allVars
    <2> SUFFICES ASSUME IndInv, CountInv, PublishInv, GoldTyped, MeasureInv, PrintInv,
                        NEW r \in Runs, ~backdated, CheckIdempotency(r)
                 PROVE  IF run'[r].phase = "failed" THEN \E i \in Baselines(r) : GrewSince(i)
                        ELSE Baselines(r) = {} \/ \E i \in Baselines(r) : ~GrewSince(i)
      OBVIOUS
    <2>1. TypeOK /\ IsFiniteSet(dim) /\ AttemptsFit /\ built = 3
      BY DEF IndInv, CountInv, PublishInv, AttemptsFit, CheckIdempotency
    <2>2. Fingerprint(fact, dim) = PrintOf(Cardinality(dim))
      BY <2>1, PrintNow DEF MeasureInv
    <2>3. Earlier(r) # {} => Baselines(r) =
            {i \in DOMAIN fingerprints : fingerprints[i].run_id = PreviousRun(r)}
      BY LastEarlier
    <2>4. \A was \in ReadBack(PreviousRun(r)) : \E i \in DOMAIN fingerprints :
            /\ fingerprints[i].run_id = PreviousRun(r)
            /\ was = Fingerprint(fact, dim) <=> ~GrewSince(i)
      BY <2>1, <2>2, ReadBackDiffersInOne
    <2>5. CASE Red(r) /\ Fail(r)
      <3>1. run'[r].phase = "failed"
        BY <2>1, <2>5, Moved DEF Fail
      <3>2. \E i \in Baselines(r) : GrewSince(i)
        BY <2>3, <2>4, <2>5 DEF Red
      <3> QED
        BY <3>1, <3>2
    <2>6. CASE Green(r) /\ Finish(r)
      <3>1. run'[r].phase = "succeeded"
        BY <2>1, <2>6, Moved DEF Finish
      <3>2. CASE Earlier(r) = {}
        BY <3>1, <3>2, LastEarlier
      <3>3. CASE Earlier(r) # {}
        <4>1. \E i \in Baselines(r) : ~GrewSince(i)
          BY <2>3, <2>4, <2>6, <3>3 DEF Green
        <4> QED
          BY <3>1, <4>1
      <3> QED
        BY <3>2, <3>3
    <2> QED
      BY <2>5, <2>6 DEF CheckIdempotency
  <1> QED
    BY <1>1, <1>2, <1>3, GoldInvariance, GoldCountInvariance, PublishInvariance,
       GoldTypedInvariance, MeasureInvariance, PTL DEF GoldSpec, RedIffDimensionGrew


-----------------------------------------------------------------------------
(***************************************************************************)
(* The feed under repairs.  A repair writes nothing and begins no pass, so *)
(* what the feed establishes it establishes under repairs as well.         *)
(***************************************************************************)
LEMMA GoldFeedKept ==
    ASSUME IndInv, ResolveInv, WholeInv, ReflectInv, [GoldNext]_allVars
    PROVE  WholeInv' /\ ReflectInv'
  <1>1. CASE [Next]_vars
    BY <1>1, WholeKept, ReflectKept DEF ResolveInv
  <1>2. ASSUME NEW r \in Runs, Repair(r)
        PROVE  WholeInv' /\ ReflectInv'
    <2>1. /\ run[r].phase = "failed" /\ GoTo(r, ResumedAt(r))
          /\ UNCHANGED <<tables, settled, torn>>
      BY <1>2 DEF Repair
    <2>2. /\ \A q \in Runs : q # r => run'[q] = run[q]
          /\ run'[r].phase = ResumedAt(r)
      BY <2>1, Moved DEF IndInv
    <2>3. ~Writing(r)'
      BY <2>2 DEF Writing, ResumedAt
    <2>4. run'[r].phase = "cdc_apply" => Everyone
      BY <2>1, <2>2 DEF ResumedAt, ResolveInv, SeedIsBehind
    <2> QED
      BY <2>1, <2>2, <2>3, <2>4, QuietKeepsWhole, QuietKeepsReflected DEF tables
  <1> QED
    BY <1>1, <1>2, GoldSteps

LEMMA GoldFeedInvariance == GoldSpec => [](WholeInv /\ ReflectInv)
  <1>1. GoldInit => WholeInv
    BY DEF GoldInit, Init, WholeInv, Seeded, StagedWhole, Writing, NothingBlanked
  <1>2. GoldInit => ReflectInv
    BY DEF GoldInit, Init, ReflectInv, StagingReflects, Writing, FileIsReflected,
           SettledAfterSeed
  <1>3. IndInv /\ ResolveInv /\ WholeInv /\ ReflectInv /\ [GoldNext]_allVars =>
          WholeInv' /\ ReflectInv'
    BY GoldFeedKept
  <1> QED
    BY <1>1, <1>2, <1>3, GoldInvariance, ResolveInvariance, PTL DEF GoldSpec

(* Carry-forward under repairs: only someone torn by a failed run has a    *)
(* version without profile or segment, however late a run is taken up.     *)
THEOREM RepairsBlankNothing == GoldSpec => []NothingBlanked
  <1>1. WholeInv => NothingBlanked
    BY DEF WholeInv
  <1> QED
    BY <1>1, GoldFeedInvariance, PTL

(* The no-op guarantee under repairs.                                      *)
THEOREM RepairedReplaysChangeNothing == GoldSpec => []ReplayIsNoOp
  BY ReplayNow, GoldInvariance, GoldFeedInvariance, PTL

(* A file reflected in the dimension stays reflected in it: a repair       *)
(* writes nothing before its first pass begins.                            *)
THEOREM RepairsReflectTheFile == GoldSpec => []FileIsReflected
  <1>1. ReflectInv => FileIsReflected
    BY DEF ReflectInv
  <1> QED
    BY <1>1, GoldFeedInvariance, PTL

(* Nobody loses the current version but between the two passes of a run    *)
(* or when one fails there; a repair gives nobody's away.                  *)
THEOREM RepairsLoseNobody == GoldSpec => []CurrentUnlessTorn
  <1>1. ResolveInv => CurrentUnlessTorn
    BY DEF ResolveInv, NobodyLost
  <1> QED
    BY <1>1, ResolveInvariance, PTL

(* No step of a run or of a repair removes a version or touches a closed   *)
(* one.                                                                    *)
THEOREM RepairsKeepHistory == GoldSpec => HistoryIsAppendOnly
  <1>1. IndInv /\ [GoldNext]_allVars =>
          [\A v \in dim : v \in dim' \/
             (v.is_current /\ \E r \in Runs : ClosedAt(v, run[r].run_date) \in dim')]_vars
    <2> SUFFICES ASSUME IndInv, [GoldNext]_allVars
                 PROVE  \A v \in dim : Kept(v)
      BY DEF Kept
    <2>1. CASE [Next]_vars
      BY <2>1, EveryVersionKept
    <2>2. ASSUME NEW r \in Runs, Repair(r)
          PROVE  \A v \in dim : Kept(v)
      BY <2>2 DEF Repair, tables, Kept
    <2> QED
      BY <2>1, <2>2, GoldSteps
  <1> QED
    BY <1>1, GoldInvariance, PTL DEF GoldSpec, HistoryIsAppendOnly

-----------------------------------------------------------------------------
(***************************************************************************)
(* The timelines under repairs.  A repair leaves the dimension alone and   *)
(* takes the change feed up from its start, with the date the run began    *)
(* with, so it is a stuttering step of the timeline.  Only a run that      *)
(* fails between its MERGE and its append is left out, as in UntornSpec.   *)
(***************************************************************************)
UntornGoldSpec == GoldInit /\ [][GoldNext /\ torn' = {}]_allVars

LEMMA UntornGoldSteps ==
    ASSUME [GoldNext /\ torn' = {}]_allVars
    PROVE  [Next /\ torn' = {}]_vars \/ \E r \in Runs : Repair(r)
  <1>1. CASE UNCHANGED allVars
    BY <1>1 DEF allVars
  <1>2. CASE GoldNext /\ torn' = {}
    BY <1>2, GoldSteps
  <1> QED
    BY <1>1, <1>2

(* Before a repair nobody is between two passes, and none begins.          *)
LEMMA RepairIsQuiet ==
    ASSUME IndInv, NEW r \in Runs, Repair(r)
    PROVE  /\ UNCHANGED <<dim, commit, staging, torn>>
           /\ \A q \in Runs : q # r => run'[q] = run[q]
           /\ run'[r].run_date = run[r].run_date /\ run[r].phase = "failed"
           /\ ~Writing(r)' /\ \A u : ~BetweenPasses(u)
  <1>1. /\ GoTo(r, ResumedAt(r)) /\ run[r].phase = "failed"
        /\ UNCHANGED <<dim, commit, staging, torn>> /\ \A q \in Runs : ~Active(q)
    BY DEF Repair, NoActiveRun, tables
  <1>2. /\ \A q \in Runs : q # r => run'[q] = run[q]
        /\ run'[r].run_date = run[r].run_date /\ run'[r].phase = ResumedAt(r)
    BY <1>1 DEF GoTo, IndInv, TypeOK, Run
  <1>3. ~Writing(r)'
    BY <1>2 DEF Writing, ResumedAt
  <1>4. \A u : ~BetweenPasses(u)
    BY <1>1 DEF BetweenPasses, Active
  <1> QED
    BY <1>1, <1>2, <1>3, <1>4

LEMMA GoldOrderKept ==
    ASSUME IndInv, NobodyLost, OrderInv, [GoldNext /\ torn' = {}]_allVars
    PROVE  OrderInv'
  <1>1. CASE [Next /\ torn' = {}]_vars
    BY <1>1, OrderKept
  <1>2. ASSUME NEW r \in Runs, Repair(r)
        PROVE  OrderInv'
    <2>1. run[r].run_date \in Dates
      BY <1>2, RepairIsQuiet DEF OrderInv, StartedRunsHaveDates
    <2> QED
      BY <1>2, <2>1, RepairIsQuiet, QuietKeepsOrder
  <1> QED
    BY <1>1, <1>2, UntornGoldSteps

LEMMA GoldSpellingKept ==
    ASSUME IndInv, OrderInv, SpellInv, [GoldNext]_allVars
    PROVE  SpellInv'
  <1>1. CASE [Next]_vars
    BY <1>1, SpellingKept
  <1>2. ASSUME NEW r \in Runs, Repair(r)
        PROVE  SpellInv'
    <2>1. \A q \in Runs : Writing(q)' => Writing(q)
      BY <1>2, RepairIsQuiet DEF Writing
    <2> QED
      BY <1>2, <2>1, RepairIsQuiet, QuietKeepsSpelling
  <1> QED
    BY <1>1, <1>2, GoldSteps

LEMMA UntornIsGold == UntornGoldSpec => GoldSpec
  <1>1. [GoldNext /\ torn' = {}]_allVars => [GoldNext]_allVars
    OBVIOUS
  <1> QED
    BY <1>1, PTL DEF UntornGoldSpec, GoldSpec

LEMMA GoldOrderInvariance == UntornGoldSpec => [](IndInv /\ NobodyLost /\ OrderInv /\ SpellInv)
  <1>1. GoldInit => OrderInv /\ SpellInv
    BY OrderInit, SpellingInit DEF GoldInit
  <1>2. IndInv /\ ResolveInv /\ OrderInv /\ SpellInv /\ [GoldNext /\ torn' = {}]_allVars
          => OrderInv' /\ SpellInv'
    BY GoldOrderKept, GoldSpellingKept DEF ResolveInv
  <1>3. ResolveInv => NobodyLost
    BY DEF ResolveInv
  <1> QED
    BY <1>1, <1>2, <1>3, UntornIsGold, GoldInvariance, ResolveInvariance, PTL
       DEF UntornGoldSpec

(* Windows and flags encode the order of a person's versions, however late *)
(* a failed run is repaired and whatever runs came between.                *)
THEOREM RepairsKeepTheOrder == UntornGoldSpec => []WindowsEncodeOrder
  <1>1. OrderInv => WindowsEncodeOrder
    BY DEF OrderInv
  <1> QED
    BY <1>1, GoldOrderInvariance, PTL

(* The feed's spelling costs one version, under repairs too.               *)
THEOREM RepairsSpellOnce ==
    ASSUME FeedSpelling
    PROVE  UntornGoldSpec => []SpellingCostsOneVersion
  <1>1. IndInv /\ OrderInv /\ SpellInv => SpellingCostsOneVersion
    BY SpelledOnce
  <1> QED
    BY <1>1, GoldOrderInvariance, PTL

(* The whole gold layer, repairs and fact builds included, implements the  *)
(* timeline: each of its steps extends the timelines by one batch, or does *)
(* not show.                                                               *)
THEOREM RepairedLayerImplementsTimeline == UntornGoldSpec => ImplementsTimeline
  <1>1. GoldInit => Timeline!Init
    BY DEF GoldInit, Init, Timeline!Init
  <1>2. IndInv /\ NobodyLost /\ OrderInv /\ [GoldNext /\ torn' = {}]_allVars
            => [Timeline!Next]_({Entry(v) : v \in dim})
    <2> SUFFICES ASSUME IndInv, NobodyLost, OrderInv, [GoldNext /\ torn' = {}]_allVars
                 PROVE  [Timeline!Next]_Timelines
      BY DEF Timelines
    <2>1. CASE [Next /\ torn' = {}]_vars
      BY <2>1, EveryStepIsATimelineStep
    <2>2. ASSUME NEW r \in Runs, Repair(r)
          PROVE  UNCHANGED Timelines
      BY <2>2, RepairIsQuiet DEF Timelines
    <2> QED
      BY <2>1, <2>2, UntornGoldSteps
  <1> QED
    BY <1>1, <1>2, GoldOrderInvariance, PTL DEF UntornGoldSpec, ImplementsTimeline, Timeline!Spec


-----------------------------------------------------------------------------
(***************************************************************************)
(* A rerun is green.  From its first fingerprint on a run leaves the       *)
(* dimension as it is, and what it printed is what the dimension makes of  *)
(* the facts; the run that repeats it stages nothing but no-ops, so it     *)
(* finds the dimension, and prints the facts, the run before it left.      *)
(***************************************************************************)
DimPrint == Fingerprint(BuildFacts(dim), dim)

PrintedBy(q) == {i \in DOMAIN fingerprints : fingerprints[i].run_id = q}

(* The run is past the change feed: a repair would not read it again.      *)
AppliedIn(q) ==
    \/ run[q].phase \in {"applied", "succeeded"}
    \/ run[q].phase = "failed" /\ ResumedAt(q) = "applied"

(* The run has built its facts and is in the check, or after it: it cannot *)
(* fail in a task before the check any more.                               *)
AtCheck(q) ==
    \/ captured
    \/ run[q].phase = "succeeded"
    \/ stoppedIn[q] = "idempotency_check" /\ (run[q].phase = "failed" \/ built = 3)

(* What the run of the last attempt has made of its own.                   *)
OwnPrints ==
    attempts # <<>> =>
        /\ AppliedIn(LastRun) => Everyone
        /\ Uninterleaved(LastRun) =>
             /\ \A i \in PrintedBy(LastRun) : fingerprints[i].print = DimPrint
             /\ PrintedBy(LastRun) # {} => AppliedIn(LastRun) /\ AtCheck(LastRun)
             /\ AppliedIn(LastRun) /\ run[LastRun].cdc_day # 0 => settled = run[LastRun].cdc_day

LastIsOwn ==
    captured \/ (attempts # <<>> /\ run[LastRun].phase = "succeeded") =>
        fingerprints # <<>> /\ fingerprints[Len(fingerprints)].run_id = LastRun

(* What a run that repeats p finds, from its start on.                     *)
Untouched(r, p) ==
    /\ run[r].phase \notin {"merge", "append"}
    /\ run[r].cdc_day # 0 => settled = run[r].cdc_day
    /\ Everyone
    /\ \A i \in PrintedBy(p) : fingerprints[i].print = DimPrint
    /\ \E i \in PrintedBy(p) : \A j \in DOMAIN fingerprints :
          j > i => fingerprints[j].run_id = r

RerunsFind ==
    attempts # <<>> =>
        \A p \in Runs : p # LastRun /\ Repeats(LastRun, p) => Untouched(LastRun, p)

(* A fingerprint has its run's date; a run that was not started has none.  *)
PrintsDated ==
    /\ \A i \in DOMAIN fingerprints :
          fingerprints[i].run_date = run[fingerprints[i].run_id].run_date
    /\ \A q \in Runs : run[q].phase = "queued" => PrintedBy(q) = {} /\ AttemptsOf(q) = {}

MergesSomething ==
    \A q \in Runs : run[q].phase = "merge" => run[q].actions \cap {"changed", "deleted"} # {}

RerunInv == OwnPrints /\ LastIsOwn /\ RerunsFind /\ PrintsDated

-----------------------------------------------------------------------------
(* A run goes on with its attempt: only the last run can.                  *)
Works(r) ==
    /\ Active(r)
    /\ UNCHANGED <<attempts, landing>>
    /\ \A q \in Runs : q # r => run'[q] = run[q]
    /\ run'[r].run_date = run[r].run_date /\ run'[r].cdc_day = run[r].cdc_day
    /\ run'[r].phase # "queued"

LEMMA ApplyWorks ==
    ASSUME TypeOK, NEW r \in Runs, ApplyTask(r)
    PROVE  /\ Works(r) /\ UNCHANGED <<fingerprints, captured, stoppedIn>>
           /\ run[r].phase \in {"gold_dims", "cdc_apply", "merge", "append"}
           /\ run'[r].phase \in {"cdc_apply", "merge", "append", "applied"}
           /\ run'[r].phase = "merge" => run'[r].actions \cap {"changed", "deleted"} # {}
  <1>1. Apply(r) /\ UNCHANGED <<fingerprints, captured, stoppedIn, attempts>>
    BY DEF ApplyTask, goldVars, attemptVars
  <1>2. /\ run[r].phase \in {"gold_dims", "cdc_apply", "merge", "append"}
        /\ landing' = landing /\ Active(r)
    BY <1>1 DEF Apply, SeedDim, SkipCdc, StageChanges, CloseSuperseded, AppendVersions, Active,
                tables
  <1>3. CASE StageChanges(r)
    <2>1. PICK actions : run' = [run EXCEPT ![r].phase = NextPass(actions, FALSE),
                                            ![r].actions = actions]
      BY <1>3 DEF StageChanges
    <2>2. /\ \A q \in Runs : q # r => run'[q] = run[q]
          /\ run'[r].run_date = run[r].run_date /\ run'[r].cdc_day = run[r].cdc_day
          /\ run'[r].phase = NextPass(actions, FALSE) /\ run'[r].actions = actions
      BY <2>1 DEF TypeOK, Run
    <2>3. NextPass(actions, FALSE) = "merge" => actions \cap {"changed", "deleted"} # {}
      BY DEF NextPass
    <2> QED
      BY <1>1, <1>2, <2>2, <2>3, NextPassType DEF Works
  <1>4. CASE ~StageChanges(r)
    <2>1. \E phase \in {"cdc_apply", "append", "applied"} : GoTo(r, phase)
      <3>1. \A actions : NextPass(actions, TRUE) \in {"append", "applied"}
        BY DEF NextPass
      <3> QED
        BY <1>1, <1>4, <3>1 DEF Apply, SeedDim, SkipCdc, CloseSuperseded, AppendVersions
    <2>2. PICK phase \in {"cdc_apply", "append", "applied"} : GoTo(r, phase)
      BY <2>1
    <2>3. /\ \A q \in Runs : q # r => run'[q] = run[q]
          /\ run'[r].run_date = run[r].run_date /\ run'[r].cdc_day = run[r].cdc_day
          /\ run'[r].phase = phase
      BY <2>2 DEF GoTo, TypeOK, Run
    <2> QED
      BY <1>1, <1>2, <2>3 DEF Works
  <1> QED
    BY <1>3, <1>4

LEMMA OthersWork ==
    ASSUME TypeOK, NEW r \in Runs,
           BuildNextFact(r) \/ Capture(r) \/ CheckIdempotency(r) \/ FailTask(r)
    PROVE  /\ Works(r) /\ UNCHANGED <<dim, settled>>
           /\ BuildNextFact(r) \/ Capture(r) => UNCHANGED <<run, stoppedIn>>
           /\ run'[r].phase # "merge" \/ run' = run
  <1>1. CASE BuildNextFact(r) \/ Capture(r)
    <2>1. UNCHANGED <<run, dim, settled, landing, attempts, stoppedIn>> /\ run[r].phase = "applied"
      BY <1>1 DEF BuildNextFact, Capture, FactsMayBuild, vars, tables, history
    <2> QED
      BY <2>1 DEF Works, Active
  <1>2. CASE CheckIdempotency(r) \/ FailTask(r)
    <2>1. /\ Active(r) /\ UNCHANGED <<dim, settled, landing, attempts>>
          /\ \E phase \in {"succeeded", "failed"} : GoTo(r, phase)
      BY <1>2 DEF CheckIdempotency, FailTask, EndAttempt, Finish, Fail, Active, tables, history
    <2>2. PICK phase \in {"succeeded", "failed"} : GoTo(r, phase)
      BY <2>1
    <2>3. /\ \A q \in Runs : q # r => run'[q] = run[q]
          /\ run'[r].run_date = run[r].run_date /\ run'[r].cdc_day = run[r].cdc_day
          /\ run'[r].phase = phase
      BY <2>2 DEF GoTo, TypeOK, Run
    <2>4. BuildNextFact(r) \/ Capture(r) => UNCHANGED <<run, stoppedIn>>
      BY DEF BuildNextFact, Capture, vars
    <2> QED
      BY <2>1, <2>3, <2>4 DEF Works
  <1> QED
    BY <1>1, <1>2


(* A run at work does not change which runs repeat which.                  *)
LEMMA SameLast ==
    ASSUME PublishInv, NEW r \in Runs, Works(r)
    PROVE  /\ attempts # <<>> /\ LastRun = r
           /\ attempts' # <<>> /\ LastRun' = r
           /\ \A q : AttemptsOf(q)' = AttemptsOf(q)
           /\ \A q : Uninterleaved(q)' <=> Uninterleaved(q)
           /\ \A p \in Runs : p # r => (Repeats(r, p)' <=> Repeats(r, p))
  <1>1. attempts # <<>> /\ LastRun = r /\ UNCHANGED <<attempts, landing>>
    BY DEF PublishInv, AttemptsFit, Works
  <1>2. \A q : AttemptsOf(q)' = AttemptsOf(q)
    BY <1>1 DEF AttemptsOf
  <1>3. \A q : Uninterleaved(q)' <=> Uninterleaved(q)
    BY <1>1, <1>2 DEF Uninterleaved
  <1>4. ASSUME NEW p \in Runs, p # r
        PROVE  Repeats(r, p)' <=> Repeats(r, p)
    <2>1. /\ run'[p] = run[p] /\ run'[r].run_date = run[r].run_date
          /\ run'[r].cdc_day = run[r].cdc_day
      BY <1>4 DEF Works
    <2> QED
      BY <1>1, <1>2, <1>3, <2>1 DEF Repeats
  <1> QED
    BY <1>1, <1>2, <1>3, <1>4 DEF LastRun

(* The tasks up to cdc_apply: the run has not printed anything.            *)
LEMMA EarlyWork ==
    ASSUME PublishInv, RerunInv, NEW r \in Runs, Works(r), ~AppliedIn(r),
           UNCHANGED fingerprints, ~captured', run'[r].phase # "succeeded",
           AppliedIn(r)' => Everyone' /\ (run[r].cdc_day # 0 => settled' = run[r].cdc_day),
           \A p \in Runs : p # r /\ Repeats(r, p) /\ Untouched(r, p) =>
               /\ dim' = dim /\ run'[r].phase \notin {"merge", "append"}
               /\ run[r].cdc_day # 0 => settled' = run[r].cdc_day
    PROVE  OwnPrints' /\ LastIsOwn' /\ RerunsFind'
  <1>1. /\ attempts # <<>> /\ LastRun = r /\ attempts' # <<>> /\ LastRun' = r
        /\ \A q : Uninterleaved(q)' <=> Uninterleaved(q)
        /\ \A p \in Runs : p # r => (Repeats(r, p)' <=> Repeats(r, p))
    BY SameLast
  <1>2. \A q : PrintedBy(q)' = PrintedBy(q)
    BY DEF PrintedBy
  <1>3. run'[r].cdc_day = run[r].cdc_day
    BY DEF Works
  <1>4. OwnPrints'
    <2>1. Uninterleaved(r)' => PrintedBy(r)' = {}
      BY <1>1, <1>2 DEF RerunInv, OwnPrints
    <2> QED
      BY <1>1, <1>3, <2>1 DEF OwnPrints
  <1>5. LastIsOwn'
    BY <1>1 DEF LastIsOwn
  <1>6. RerunsFind'
    <2> SUFFICES ASSUME NEW p \in Runs, p # r, Repeats(r, p)'
                 PROVE  Untouched(r, p)'
      BY <1>1 DEF RerunsFind
    <2>1. Repeats(r, p) /\ Untouched(r, p)
      BY <1>1 DEF RerunInv, RerunsFind
    <2>2. /\ dim' = dim /\ run'[r].phase \notin {"merge", "append"}
          /\ run[r].cdc_day # 0 => settled' = run[r].cdc_day
      BY <2>1
    <2>3. DimPrint' = DimPrint /\ Everyone'
      BY <2>1, <2>2 DEF DimPrint, Everyone, Untouched
    <2> QED
      BY <1>2, <1>3, <2>1, <2>2, <2>3 DEF Untouched
  <1> QED
    BY <1>4, <1>5, <1>6

(* The tasks after it, and a failure: nothing the invariant is about       *)
(* changes but that the attempt may end.                                   *)
LEMMA LateWork ==
    ASSUME PublishInv, RerunInv, NEW r \in Runs, Works(r), AppliedIn(r), AppliedIn(r)',
           UNCHANGED <<fingerprints, dim, settled>>, AtCheck(r) => AtCheck(r)',
           captured' \/ run'[r].phase = "succeeded" => captured
    PROVE  OwnPrints' /\ LastIsOwn' /\ RerunsFind'
  <1>1. /\ attempts # <<>> /\ LastRun = r /\ attempts' # <<>> /\ LastRun' = r
        /\ \A q : Uninterleaved(q)' <=> Uninterleaved(q)
        /\ \A p \in Runs : p # r => (Repeats(r, p)' <=> Repeats(r, p))
    BY SameLast
  <1>2. \A q : PrintedBy(q)' = PrintedBy(q)
    BY DEF PrintedBy
  <1>3. DimPrint' = DimPrint /\ (Everyone' <=> Everyone)
    BY DEF DimPrint, Everyone
  <1>4. run'[r].cdc_day = run[r].cdc_day
    BY DEF Works
  <1>5. OwnPrints'
    BY <1>1, <1>2, <1>3, <1>4 DEF RerunInv, OwnPrints
  <1>6. LastIsOwn'
    BY <1>1 DEF RerunInv, LastIsOwn
  <1>7. RerunsFind'
    <2> SUFFICES ASSUME NEW p \in Runs, p # r, Repeats(r, p)'
                 PROVE  Untouched(r, p)'
      BY <1>1 DEF RerunsFind
    <2>1. Repeats(r, p) /\ Untouched(r, p)
      BY <1>1 DEF RerunInv, RerunsFind
    <2>2. run'[r].phase \notin {"merge", "append"}
      BY DEF AppliedIn
    <2> QED
      BY <1>2, <1>3, <1>4, <2>1, <2>2 DEF Untouched
  <1> QED
    BY <1>5, <1>6, <1>7

(* A failure that sends the run back to a task before its facts: it has    *)
(* printed nothing.                                                        *)
LEMMA BackWork ==
    ASSUME PublishInv, RerunInv, NEW r \in Runs, Works(r), ~AppliedIn(r)', ~AtCheck(r),
           UNCHANGED <<fingerprints, dim, settled>>, ~captured', run'[r].phase = "failed"
    PROVE  OwnPrints' /\ LastIsOwn' /\ RerunsFind'
  <1>1. /\ attempts # <<>> /\ LastRun = r /\ attempts' # <<>> /\ LastRun' = r
        /\ \A q : Uninterleaved(q)' <=> Uninterleaved(q)
        /\ \A p \in Runs : p # r => (Repeats(r, p)' <=> Repeats(r, p))
    BY SameLast
  <1>2. \A q : PrintedBy(q)' = PrintedBy(q)
    BY DEF PrintedBy
  <1>3. /\ DimPrint' = DimPrint /\ (Everyone' <=> Everyone)
        /\ run'[r].cdc_day = run[r].cdc_day
    BY DEF DimPrint, Everyone, Works
  <1>4. Uninterleaved(r)' => PrintedBy(r)' = {}
    BY <1>1, <1>2 DEF RerunInv, OwnPrints
  <1>5. OwnPrints'
    BY <1>1, <1>4 DEF OwnPrints
  <1>6. LastIsOwn'
    BY <1>1 DEF LastIsOwn
  <1>7. RerunsFind'
    <2> SUFFICES ASSUME NEW p \in Runs, p # r, Repeats(r, p)'
                 PROVE  Untouched(r, p)'
      BY <1>1 DEF RerunsFind
    <2>1. Repeats(r, p) /\ Untouched(r, p)
      BY <1>1 DEF RerunInv, RerunsFind
    <2> QED
      BY <1>2, <1>3, <2>1 DEF Untouched
  <1> QED
    BY <1>5, <1>6, <1>7

LEMMA BuiltFactsPrint ==
    ASSUME PublishInv, NEW r \in Runs, run[r].phase = "applied", built = 3, Uninterleaved(r)
    PROVE  fact = BuildFacts(dim) /\ Fingerprint(fact, dim) = DimPrint
  <1>1. attempts # <<>> /\ LastRun = r
    BY DEF PublishInv, AttemptsFit, Active
  <1>2. CurrentUpTo(3)
    BY <1>1 DEF PublishInv, FactsFitAttempt
  <1>3. fact = BuildFacts(dim)
    BY <1>2, AllThreeCurrent DEF PublishInv, AttemptsFit
  <1> QED
    BY <1>3 DEF DimPrint

LEMMA CaptureFinds ==
    ASSUME TypeOK, PublishInv, GoldTyped, ResolveInv, RerunInv, NEW r \in Runs, Capture(r)
    PROVE  OwnPrints' /\ LastIsOwn' /\ RerunsFind'
  <1> DEFINE row == [run_id |-> r, run_date |-> run[r].run_date, print |-> Fingerprint(fact, dim)]
             last == Len(fingerprints) + 1
  <1>1. /\ Works(r) /\ UNCHANGED <<dim, settled, run, stoppedIn>>
        /\ run[r].phase = "applied" /\ built = 3
        /\ fingerprints' = Append(fingerprints, row)
    BY OthersWork, TableOrder DEF Capture
  <1>2. /\ attempts # <<>> /\ LastRun = r /\ attempts' # <<>> /\ LastRun' = r
        /\ \A q : Uninterleaved(q)' <=> Uninterleaved(q)
        /\ \A p \in Runs : p # r => (Repeats(r, p)' <=> Repeats(r, p))
    BY <1>1, SameLast
  <1>3. row.run_id = r /\ row.print = Fingerprint(fact, dim)
    OBVIOUS
  <1> HIDE DEF row
  <1>4. /\ Len(fingerprints) \in Nat /\ DOMAIN fingerprints = 1 .. Len(fingerprints)
        /\ Len(fingerprints') = last /\ DOMAIN fingerprints' = DOMAIN fingerprints \cup {last}
        /\ \A i \in DOMAIN fingerprints : fingerprints'[i] = fingerprints[i]
        /\ fingerprints'[last] = row /\ last \notin DOMAIN fingerprints
        /\ fingerprints' # <<>>
    BY <1>1 DEF GoldTyped
  <1> HIDE DEF last
  <1>5. DimPrint' = DimPrint /\ (Everyone' <=> Everyone)
    BY <1>1 DEF DimPrint, Everyone
  <1>6. PrintedBy(r)' = PrintedBy(r) \cup {last} /\ \A p \in Runs : p # r => PrintedBy(p)' = PrintedBy(p)
    BY <1>3, <1>4 DEF PrintedBy
  <1>7. OwnPrints'
    <2>1. Everyone /\ AppliedIn(r)' /\ AtCheck(r)'
      BY <1>1 DEF ResolveInv, SeedIsBehind, AppliedIn, AtCheck, Capture
    <2>2. ASSUME Uninterleaved(r)
          PROVE  \A i \in PrintedBy(r)' : fingerprints'[i].print = DimPrint
      <3>1. \A i \in PrintedBy(r) : fingerprints[i].print = DimPrint
        BY <1>2, <2>2 DEF RerunInv, OwnPrints
      <3>2. fingerprints'[last].print = DimPrint
        BY <1>1, <1>3, <1>4, <2>2, BuiltFactsPrint
      <3> QED
        BY <1>4, <1>6, <3>1, <3>2 DEF PrintedBy
    <2>3. Uninterleaved(r) /\ run[r].cdc_day # 0 => settled = run[r].cdc_day
      BY <1>1, <1>2 DEF RerunInv, OwnPrints, AppliedIn
    <2> QED
      BY <1>1, <1>2, <1>5, <2>1, <2>2, <2>3 DEF OwnPrints
  <1>8. LastIsOwn'
    BY <1>2, <1>3, <1>4 DEF LastIsOwn
  <1>9. RerunsFind'
    <2> SUFFICES ASSUME NEW p \in Runs, p # r, Repeats(r, p)'
                 PROVE  Untouched(r, p)'
      BY <1>2 DEF RerunsFind
    <2>1. Repeats(r, p) /\ Untouched(r, p)
      BY <1>2 DEF RerunInv, RerunsFind
    <2>2. PICK i \in PrintedBy(p) : \A j \in DOMAIN fingerprints :
             j > i => fingerprints[j].run_id = r
      BY <2>1 DEF Untouched
    <2>3. \A j \in DOMAIN fingerprints' : j > i => fingerprints'[j].run_id = r
      BY <1>3, <1>4, <2>2
    <2>4. \A k \in PrintedBy(p)' : fingerprints'[k].print = DimPrint
      BY <1>4, <1>6, <2>1 DEF Untouched, PrintedBy
    <2> QED
      BY <1>1, <1>5, <1>6, <2>1, <2>2, <2>3, <2>4 DEF Untouched
  <1> QED
    BY <1>7, <1>8, <1>9


(* The change file of the run before, staged again, asks nothing.          *)
LEMMA NothingIsStaged ==
    ASSUME IndInv, ReflectInv, NEW r \in Runs, StageChanges(r), settled = run[r].cdc_day,
           Unambiguous(landing[run[r].cdc_day])
    PROVE  run'[r].phase = "applied"
  <1> DEFINE file == landing[run[r].cdc_day]
  <1>1. PICK rows \in Deduped(file) : staging' = Staged(rows, dim, run[r].run_date)
    BY StagedMove DEF IndInv
  <1>2. /\ settled # 0 /\ landing[settled] = file
        /\ file \in SUBSET ChangeRow
    <2>1. run[r].cdc_day \in Days
      BY DEF StageChanges, IndInv, TypeOK, Run
    <2> QED
      BY <2>1, FilesAreRows DEF StageChanges, IndInv, TypeOK
  <1>3. ASSUME NEW s \in staging'
        PROVE  s.action = "unchanged"
    <2>1. PICK q \in rows : \E c \in LeftJoin(q.uid, dim), k \in LeftJoin(q.uid, dim) :
            s = StagedFrom(q, c, k, run[r].run_date)
      BY <1>1, <1>3 DEF Staged
    <2>2. s.uid = q.uid
      BY <2>1 DEF StagedFrom
    <2>3. q \in file /\ \A w \in file : w.uid = q.uid => w.updated_at <= q.updated_at
      BY <1>1 DEF Deduped, LatestRows
    <2>4. q.uid # NULL /\ Wins(q, file)
      <3>1. PICK w \in file : q.uid # NULL /\ w.uid = q.uid /\ Wins(w, file)
        BY <2>3 DEF Unambiguous
      <3>2. w.updated_at <= q.updated_at /\ w.updated_at \in Nat /\ q.updated_at \in Nat
        BY <1>2, <2>3, <3>1 DEF ChangeRow
      <3>3. w # q => q.updated_at < w.updated_at
        BY <2>3, <3>1 DEF Wins
      <3> QED
        BY <3>1, <3>2, <3>3
    <2> HIDE DEF file
    <2> QED
      BY <1>1, <1>2, <1>3, <2>2, <2>4, StagedAgain
  <1>4. run'[r].phase = NextPass({s.action : s \in staging'}, FALSE)
    BY StagedMove DEF IndInv
  <1>5. NextPass({s.action : s \in staging'}, FALSE) = "applied"
    <2>1. {s.action : s \in staging'} \cap {"new", "changed", "deleted"} = {}
      BY <1>3
    <2>2. {s.action : s \in staging'} \cap {"changed", "deleted"} = {}
      BY <1>3
    <2> QED
      BY <2>1, <2>2 DEF NextPass
  <1> QED
    BY <1>4, <1>5

LEMMA ApplyFinds ==
    ASSUME IndInv, PublishInv, ReflectInv, ResolveInv, MergesSomething, RerunInv,
           NEW r \in Runs, ApplyTask(r)
    PROVE  OwnPrints' /\ LastIsOwn' /\ RerunsFind'
  <1>1. /\ Works(r) /\ UNCHANGED <<fingerprints, captured>> /\ Apply(r)
        /\ run[r].phase \in {"gold_dims", "cdc_apply", "merge", "append"}
        /\ run'[r].phase \in {"cdc_apply", "merge", "append", "applied"}
    BY ApplyWorks DEF IndInv, ApplyTask
  <1>2. ~AppliedIn(r)
    BY <1>1 DEF AppliedIn
  <1>3. ~captured'
    <2>1. LastRun = r
      BY <1>1, SameLast
    <2> QED
      BY <1>1, <2>1 DEF PublishInv, AttemptsFit
  <1>4. AppliedIn(r)' <=> run'[r].phase = "applied"
    BY <1>1 DEF AppliedIn
  <1>5. CASE SeedDim(r)
    <2>1. run'[r].phase = "cdc_apply" /\ settled' = settled
      BY <1>5, Moved DEF SeedDim, IndInv, history
    <2>2. Everyone => dim' = dim
      <3>1. CASE dim # {}
        BY <1>5, <3>1 DEF SeedDim
      <3>2. CASE dim = {}
        <4>1. \A v \in dim' : v.uid \in People
          BY <1>5, <3>2, SeededRows DEF IndInv
        <4> QED
          BY <3>2, <4>1 DEF Everyone
      <3> QED
        BY <3>1, <3>2
    <2> QED
      BY <1>1, <1>2, <1>3, <1>4, <2>1, <2>2, EarlyWork DEF Untouched
  <1>6. CASE SkipCdc(r)
    <2>1. run'[r].phase = "applied" /\ run[r].cdc_day = 0 /\ UNCHANGED <<dim, settled>>
      BY <1>6, Moved DEF SkipCdc, IndInv, tables, history
    <2>2. Everyone'
      BY <1>6, <2>1 DEF SkipCdc, ResolveInv, SeedIsBehind, Everyone
    <2> QED
      BY <1>1, <1>2, <1>3, <2>1, <2>2, EarlyWork
  <1>7. CASE StageChanges(r)
    <2>1. /\ UNCHANGED dim /\ run[r].cdc_day # 0 /\ run[r].phase = "cdc_apply"
          /\ settled' = IF run'[r].phase = "applied" THEN run[r].cdc_day ELSE settled
      BY <1>7, StagedMove DEF StageChanges, IndInv
    <2>2. Everyone'
      BY <2>1 DEF ResolveInv, SeedIsBehind, Everyone
    <2>3. ASSUME NEW p \in Runs, Repeats(r, p), Untouched(r, p)
          PROVE  run'[r].phase = "applied"
      BY <1>7, <2>1, <2>3, NothingIsStaged DEF Repeats, Untouched
    <2>4. "applied" \notin {"merge", "append"}
      OBVIOUS
    <2> QED
      BY <1>1, <1>2, <1>3, <1>4, <2>1, <2>2, <2>3, <2>4, EarlyWork
  <1>8. CASE CloseSuperseded(r)
    <2>1. run[r].phase = "merge" /\ run'[r].phase = NextPass(run[r].actions, TRUE)
      BY <1>8, Moved DEF CloseSuperseded, IndInv
    <2>2. run'[r].phase = "append"
      <3>1. run[r].actions \cap {"new", "changed", "deleted"} # {}
        BY <2>1 DEF MergesSomething
      <3> QED
        BY <2>1, <3>1 DEF NextPass
    <2> QED
      BY <1>1, <1>2, <1>3, <1>4, <2>1, <2>2, EarlyWork DEF Untouched
  <1>9. CASE AppendVersions(r)
    <2>1. run[r].phase = "append" /\ settled' = run[r].cdc_day /\ dim \subseteq dim'
      BY <1>9 DEF AppendVersions
    <2>2. Everyone'
      BY <2>1 DEF ResolveInv, SeedIsBehind, Everyone
    <2> QED
      BY <1>1, <1>2, <1>3, <1>4, <2>1, <2>2, EarlyWork DEF Untouched
  <1> QED
    BY <1>1, <1>5, <1>6, <1>7, <1>8, <1>9 DEF Apply

LEMMA EndFinds ==
    ASSUME IndInv, PublishInv, StoppedTyped, RerunInv, NEW r \in Runs,
           CheckIdempotency(r) \/ FailTask(r)
    PROVE  OwnPrints' /\ LastIsOwn' /\ RerunsFind'
  <1>1. /\ Works(r) /\ UNCHANGED <<dim, settled, fingerprints>> /\ ~captured'
    BY OthersWork DEF IndInv, CheckIdempotency, FailTask, EndAttempt
  <1>2. CASE CheckIdempotency(r)
    <2>1. /\ run[r].phase = "applied" /\ captured
          /\ \/ GoTo(r, "succeeded")
             \/ GoTo(r, "failed") /\ stoppedIn' = [stoppedIn EXCEPT ![r] = "idempotency_check"]
      BY <1>2 DEF CheckIdempotency, Finish, Fail, EndAttempt
    <2>2. AppliedIn(r) /\ AppliedIn(r)' /\ AtCheck(r)'
      BY <2>1, Moved DEF AppliedIn, AtCheck, IndInv, ResumedAt, StoppedTyped
    <2> QED
      BY <1>1, <2>1, <2>2, LateWork
  <1>3. CASE FailTask(r)
    <2>1. PICK task \in TasksAt(r) : stoppedIn' = [stoppedIn EXCEPT ![r] = task]
      BY <1>3 DEF FailTask, EndAttempt
    <2>2. run'[r].phase = "failed" /\ stoppedIn'[r] = task /\ Active(r)
      BY <1>3, <2>1, Moved DEF FailTask, Fail, IndInv, StoppedTyped
    <2>3. run[r].phase \in {"gold_dims", "cdc_apply", "merge", "append", "applied"}
      <3>1. run[r].phase \in Phases
        BY DEF IndInv, TypeOK, Run
      <3> QED
        BY <2>2, <3>1 DEF Phases, Active
    <2>4. AppliedIn(r) <=> run[r].phase = "applied"
      BY <2>3 DEF AppliedIn
    <2>5. AppliedIn(r)' <=> task \notin {"gold_dims", "cdc_apply"}
      BY <2>2 DEF AppliedIn, ResumedAt
    <2>6. AtCheck(r) => task = "idempotency_check" /\ AtCheck(r)'
      <3> SUFFICES ASSUME AtCheck(r)
                   PROVE  task = "idempotency_check" /\ AtCheck(r)'
        OBVIOUS
      <3>1. attempts # <<>> /\ LastRun = r
        BY <1>1, SameLast
      <3>2. built = 3 /\ run[r].phase = "applied"
        BY <2>2, <3>1 DEF AtCheck, PublishInv, AttemptsFit, Active
      <3>3. TasksAt(r) = {"idempotency_check"}
        BY <2>2, <3>2, TableOrder DEF TasksAt, StillIn, AtCheck, Active
      <3> QED
        BY <2>1, <2>2, <3>3 DEF AtCheck
    <2>7. run[r].phase # "applied" => task \in {"gold_dims", "cdc_apply"}
      BY <2>1, <2>3 DEF TasksAt, StillIn
    <2>8. CASE run[r].phase = "applied" /\ task \notin {"gold_dims", "cdc_apply"}
      BY <1>1, <2>2, <2>4, <2>5, <2>6, <2>8, LateWork
    <2>9. CASE run[r].phase = "applied" /\ task \in {"gold_dims", "cdc_apply"}
      BY <1>1, <2>2, <2>5, <2>6, <2>9, BackWork
    <2>10. CASE run[r].phase # "applied"
      BY <1>1, <2>2, <2>4, <2>5, <2>7, <2>10, EarlyWork DEF Untouched
    <2> QED
      BY <2>8, <2>9, <2>10
  <1> QED
    BY <1>2, <1>3

LEMMA BuildFinds ==
    ASSUME IndInv, PublishInv, RerunInv, NEW r \in Runs, BuildNextFact(r)
    PROVE  OwnPrints' /\ LastIsOwn' /\ RerunsFind'
  <1>1. /\ Works(r) /\ UNCHANGED <<dim, settled, run, fingerprints, captured, stoppedIn>>
        /\ run[r].phase = "applied"
    BY OthersWork DEF IndInv, BuildNextFact, FactsMayBuild
  <1>2. AppliedIn(r) /\ AppliedIn(r)' /\ run'[r].phase # "succeeded"
    BY <1>1 DEF AppliedIn
  <1>3. ~AtCheck(r)
    BY <1>1, TableOrder DEF AtCheck, BuildNextFact, PublishInv, AttemptsFit
  <1> QED
    BY <1>1, <1>2, <1>3, LateWork


-----------------------------------------------------------------------------
(* Another attempt begins.                                                 *)
LEMMA OneMoreAttempt ==
    ASSUME attempts \in Seq(Runs), NEW r \in Runs, attempts' = Append(attempts, r)
    PROVE  /\ \A p : Uninterleaved(p)' => Uninterleaved(p)
           /\ \A i \in AttemptsOf(r)' : i \in AttemptsOf(r) \/ i = Len(attempts) + 1
           /\ \A p : p # r => AttemptsOf(p)' = AttemptsOf(p)
           /\ \A i \in AttemptsOf(r) : i > 1 => attempts'[i - 1] = attempts[i - 1]
           /\ Len(attempts) + 1 > 1 => attempts # <<>> /\ attempts'[Len(attempts) + 1 - 1] = LastRun
  <1>1. /\ Len(attempts) \in Nat /\ DOMAIN attempts = 1 .. Len(attempts)
        /\ Len(attempts') = Len(attempts) + 1 /\ DOMAIN attempts' = 1 .. Len(attempts) + 1
        /\ \A i \in 1 .. Len(attempts) : attempts'[i] = attempts[i]
        /\ attempts'[Len(attempts) + 1] = r
    OBVIOUS
  <1>2. /\ \A p : AttemptsOf(p) \subseteq AttemptsOf(p)'
        /\ \A i \in AttemptsOf(r)' : i \in AttemptsOf(r) \/ i = Len(attempts) + 1
        /\ \A p : p # r => AttemptsOf(p)' = AttemptsOf(p)
    BY <1>1 DEF AttemptsOf
  <1>3. ASSUME NEW p, Uninterleaved(p)'
        PROVE  Uninterleaved(p)
    <2> SUFFICES ASSUME NEW i \in AttemptsOf(p), NEW j \in AttemptsOf(p), NEW k \in i .. j
                 PROVE  attempts[k] = p
      BY DEF Uninterleaved
    <2>1. k \in 1 .. Len(attempts)
      BY <1>1 DEF AttemptsOf
    <2>2. attempts'[k] = p
      BY <1>2, <1>3 DEF Uninterleaved
    <2> QED
      BY <1>1, <2>1, <2>2
  <1>4. \A i \in AttemptsOf(r) : i > 1 => attempts'[i - 1] = attempts[i - 1]
    <2> SUFFICES ASSUME NEW i \in AttemptsOf(r), i > 1
                 PROVE  attempts'[i - 1] = attempts[i - 1]
      OBVIOUS
    <2>1. i - 1 \in 1 .. Len(attempts)
      BY <1>1 DEF AttemptsOf
    <2> QED
      BY <1>1, <2>1
  <1>5. Len(attempts) + 1 > 1 => attempts # <<>> /\ attempts'[Len(attempts) + 1 - 1] = LastRun
    <2> SUFFICES ASSUME Len(attempts) + 1 > 1
                 PROVE  attempts # <<>> /\ attempts'[Len(attempts) + 1 - 1] = LastRun
      OBVIOUS
    <2>1. Len(attempts) \in 1 .. Len(attempts) /\ Len(attempts) + 1 - 1 = Len(attempts)
      BY <1>1
    <2> QED
      BY <1>1, <2>1 DEF LastRun
  <1> QED
    BY <1>2, <1>3, <1>4, <1>5

LEMMA NothingCaptured ==
    ASSUME PublishInv, \A q \in Runs : ~Active(q)
    PROVE  ~captured
  <1>1. attempts # <<>> => LastRun \in Runs
    BY DEF PublishInv, AttemptsFit, LastRun
  <1>2. built = 0
    BY <1>1 DEF PublishInv, AttemptsFit, Active
  <1> QED
    BY <1>2 DEF PublishInv, AttemptsFit

LEMMA StartFinds ==
    ASSUME IndInv, PublishInv, GoldTyped, RerunInv, NEW r \in Runs,
           NEW date \in Dates, NEW day \in Days \cup {0}, StartRun(r, date, day)
    PROVE  OwnPrints' /\ LastIsOwn' /\ RerunsFind'
  <1>1. /\ run[r].phase = "queued" /\ \A q \in Runs : ~Active(q)
        /\ attempts' = Append(attempts, r)
        /\ UNCHANGED <<fingerprints, captured, dim, settled, landing>>
    BY DEF StartRun, Start, NoActiveRun, tables
  <1>2. /\ \A q \in Runs : q # r => run'[q] = run[q]
        /\ run'[r].phase = "gold_dims"
    BY DEF StartRun, Start, IndInv, TypeOK, Run
  <1>3. attempts \in Seq(Runs)
    BY DEF PublishInv, AttemptsFit
  <1>4. attempts' # <<>> /\ LastRun' = r
    BY <1>1, <1>3, NextAttempt
  <1>5. PrintedBy(r) = {} /\ AttemptsOf(r) = {} /\ ~captured /\ \A q : PrintedBy(q)' = PrintedBy(q)
    BY <1>1, NothingCaptured DEF RerunInv, PrintsDated, PrintedBy
  <1>6. OwnPrints'
    BY <1>2, <1>4, <1>5 DEF OwnPrints, AppliedIn
  <1>7. LastIsOwn'
    BY <1>1, <1>2, <1>4, <1>5 DEF LastIsOwn
  <1>8. RerunsFind'
    <2> SUFFICES ASSUME NEW p \in Runs, p # r, Repeats(r, p)'
                 PROVE  Untouched(r, p)'
      BY <1>4 DEF RerunsFind
    <2>1. PICK i \in AttemptsOf(r)' : i > 1 /\ attempts'[i - 1] = p
      BY DEF Repeats
    <2>2. i = Len(attempts) + 1 /\ attempts # <<>> /\ LastRun = p
      BY <1>1, <1>3, <1>5, <2>1, OneMoreAttempt
    <2>3. run[p].phase = "succeeded" /\ Uninterleaved(p) /\ run[p].cdc_day = run'[r].cdc_day
      BY <1>1, <1>2, <1>3, OneMoreAttempt DEF Repeats
    <2>4. /\ Everyone /\ (run'[r].cdc_day # 0 => settled = run'[r].cdc_day)
          /\ \A k \in PrintedBy(p) : fingerprints[k].print = DimPrint
      BY <2>2, <2>3 DEF RerunInv, OwnPrints, AppliedIn
    <2>5. /\ fingerprints # <<>> /\ fingerprints[Len(fingerprints)].run_id = p
      BY <2>2, <2>3 DEF RerunInv, LastIsOwn
    <2>6. \E k \in PrintedBy(p) : \A j \in DOMAIN fingerprints : ~(j > k)
      <3>1. /\ Len(fingerprints) \in DOMAIN fingerprints
            /\ \A j \in DOMAIN fingerprints : ~(j > Len(fingerprints))
        BY <2>5 DEF GoldTyped
      <3> QED
        BY <2>5, <3>1 DEF PrintedBy
    <2>7. Everyone' /\ DimPrint' = DimPrint
      BY <1>1, <2>4 DEF Everyone, DimPrint
    <2>8. \E k \in PrintedBy(p)' : \A j \in DOMAIN fingerprints' :
            j > k => fingerprints'[j].run_id = r
      BY <1>1, <1>5, <2>6
    <2>9. \A k \in PrintedBy(p)' : fingerprints'[k].print = DimPrint'
      BY <1>1, <1>5, <2>4, <2>7
    <2> QED
      BY <1>1, <1>2, <2>4, <2>7, <2>8, <2>9 DEF Untouched
  <1> QED
    BY <1>6, <1>7, <1>8

LEMMA RepairFinds ==
    ASSUME IndInv, PublishInv, StoppedTyped, ResolveInv, RerunInv, NEW r \in Runs, Repair(r)
    PROVE  OwnPrints' /\ LastIsOwn' /\ RerunsFind'
  <1>1. /\ run[r].phase = "failed" /\ \A q \in Runs : ~Active(q)
        /\ GoTo(r, ResumedAt(r)) /\ ResumedAt(r) \in {"gold_dims", "cdc_apply", "applied"}
        /\ attempts' = Append(attempts, r)
        /\ UNCHANGED <<fingerprints, captured, dim, settled, landing>>
    BY DEF Repair, NoActiveRun, tables, ResumedAt
  <1>2. /\ \A q \in Runs : q # r => run'[q] = run[q]
        /\ run'[r].phase = ResumedAt(r)
        /\ run'[r].run_date = run[r].run_date /\ run'[r].cdc_day = run[r].cdc_day
    BY <1>1 DEF GoTo, IndInv, TypeOK, Run
  <1>3. attempts \in Seq(Runs) /\ AttemptsOf(r) # {}
    BY <1>1 DEF PublishInv, AttemptsFit
  <1>4. /\ attempts' # <<>> /\ LastRun' = r
        /\ Uninterleaved(r)' => attempts # <<>> /\ LastRun = r /\ Uninterleaved(r)
    BY <1>1, <1>3, NextAttempt
  <1>5. ~captured /\ (\A q : PrintedBy(q)' = PrintedBy(q)) /\ DimPrint' = DimPrint
          /\ (Everyone' <=> Everyone)
    BY <1>1, NothingCaptured DEF PrintedBy, DimPrint, Everyone
  <1>6. (AppliedIn(r)' <=> AppliedIn(r)) /\ (AtCheck(r) => AtCheck(r)')
    BY <1>1, <1>2, <1>5, TableOrder DEF AppliedIn, AtCheck, Repair
  <1>7. OwnPrints'
    <2>1. AppliedIn(r) => Everyone
      BY <1>1 DEF AppliedIn, ResumedAt, ResolveInv, SeedIsBehind
    <2> QED
      BY <1>1, <1>2, <1>4, <1>5, <1>6, <2>1 DEF RerunInv, OwnPrints
  <1>8. LastIsOwn'
    BY <1>1, <1>2, <1>4, <1>5 DEF LastIsOwn
  <1>9. RerunsFind'
    <2> SUFFICES ASSUME NEW p \in Runs, p # r, Repeats(r, p)'
                 PROVE  Untouched(r, p)'
      BY <1>4 DEF RerunsFind
    <2>1. attempts # <<>> /\ LastRun = r /\ Uninterleaved(r)
      BY <1>4 DEF Repeats
    <2>2. PICK i \in AttemptsOf(r)' : i > 1 /\ attempts'[i - 1] = p
      BY DEF Repeats
    <2>3. i \in AttemptsOf(r) /\ attempts[i - 1] = p
      <3>1. \/ i \in AttemptsOf(r)
            \/ i = Len(attempts) + 1
        BY <1>1, <1>3, <2>2, OneMoreAttempt
      <3>2. CASE i \in AttemptsOf(r)
        BY <1>1, <1>3, <2>2, <3>2, OneMoreAttempt
      <3>3. CASE i = Len(attempts) + 1
        <4>1. Len(attempts) + 1 > 1 => attempts'[Len(attempts) + 1 - 1] = LastRun
          BY <1>1, <1>3, OneMoreAttempt
        <4>2. Len(attempts) + 1 > 1 /\ attempts'[Len(attempts) + 1 - 1] = p
          BY <2>2, <3>3
        <4> QED
          BY <1>4, <2>1, <4>1, <4>2
      <3> QED
        BY <3>1, <3>2, <3>3
    <2>4. Uninterleaved(p)
      BY <1>1, <1>3, OneMoreAttempt DEF Repeats
    <2>5. Repeats(r, p)
      BY <1>1, <1>2, <2>1, <2>2, <2>3, <2>4 DEF Repeats
    <2>6. Untouched(r, p)
      BY <2>1, <2>5 DEF RerunInv, RerunsFind
    <2> QED
      BY <1>1, <1>2, <1>5, <2>6 DEF Untouched
  <1> QED
    BY <1>7, <1>8, <1>9


-----------------------------------------------------------------------------
LEMMA MergesKept ==
    ASSUME TypeOK, MergesSomething, [GoldNext]_allVars
    PROVE  MergesSomething'
  <1>1. ASSUME NEW r \in Runs, \A q \in Runs : q # r => run'[q] = run[q],
               run'[r].phase = "merge" =>
                  run'[r].actions \cap {"changed", "deleted"} # {}
        PROVE  MergesSomething'
    BY <1>1 DEF MergesSomething
  <1>2. ASSUME NEW r \in Runs, NEW date \in Dates, NEW day \in Days \cup {0},
               StartRun(r, date, day)
        PROVE  MergesSomething'
    <2>1. /\ \A q \in Runs : q # r => run'[q] = run[q]
          /\ run'[r].phase = "gold_dims"
      BY <1>2 DEF StartRun, Start, TypeOK, Run
    <2> QED
      BY <1>1, <2>1
  <1>3. ASSUME NEW r \in Runs, ApplyTask(r)
        PROVE  MergesSomething'
    BY <1>1, <1>3, ApplyWorks DEF Works
  <1>4. ASSUME NEW r \in Runs, CheckIdempotency(r) \/ FailTask(r) \/ Repair(r)
        PROVE  MergesSomething'
    <2>1. \E phase : phase # "merge" /\ GoTo(r, phase)
      BY <1>4 DEF CheckIdempotency, FailTask, Repair, Finish, Fail, ResumedAt
    <2> QED
      BY <1>1, <2>1, Moved
  <1>5. CASE UNCHANGED run
    BY <1>5 DEF MergesSomething
  <1> QED
    BY <1>2, <1>3, <1>4, <1>5
       DEF GoldNext, BuildNextFact, Capture, GoldRest, allVars, vars

LEMMA MergesInvariance == GoldSpec => []MergesSomething
  <1>1. GoldInit => MergesSomething
    BY DEF GoldInit, Init, MergesSomething
  <1>2. IndInv => TypeOK
    BY DEF IndInv
  <1> QED
    BY <1>1, <1>2, MergesKept, GoldInvariance, PTL DEF GoldSpec

LEMMA DatedKept ==
    ASSUME IndInv, PublishInv, GoldTyped, PrintsDated, [GoldNext]_allVars
    PROVE  PrintsDated'
  <1>0. /\ TypeOK
        /\ \A i \in DOMAIN fingerprints : fingerprints[i].run_id \in Runs
    <2>1. \A i \in DOMAIN fingerprints : fingerprints[i] \in PrintRows
      BY DEF GoldTyped
    <2> QED
      BY <2>1 DEF IndInv, PrintRows
  <1>1. ASSUME NEW r \in Runs, Works(r), UNCHANGED fingerprints
        PROVE  PrintsDated'
    <2>1. /\ \A q \in Runs : run'[q].run_date = run[q].run_date
          /\ \A q \in Runs : run'[q].phase = "queued" => run[q].phase = "queued"
          /\ \A q \in Runs : PrintedBy(q)' = PrintedBy(q) /\ AttemptsOf(q)' = AttemptsOf(q)
      BY <1>1 DEF Works, PrintedBy, AttemptsOf
    <2> QED
      BY <1>0, <1>1, <2>1 DEF PrintsDated
  <1>2. ASSUME NEW r \in Runs, Capture(r)
        PROVE  PrintsDated'
    <2> DEFINE row == [run_id |-> r, run_date |-> run[r].run_date,
                       print |-> Fingerprint(fact, dim)]
    <2>1. /\ UNCHANGED <<run, attempts>> /\ run[r].phase = "applied"
          /\ fingerprints' = Append(fingerprints, row)
      BY <1>2 DEF Capture, vars
    <2>2. row.run_id = r /\ row.run_date = run[r].run_date
      OBVIOUS
    <2> HIDE DEF row
    <2>3. /\ \A i \in DOMAIN fingerprints : fingerprints'[i] = fingerprints[i]
          /\ \A i \in DOMAIN fingerprints' : i \in DOMAIN fingerprints \/ fingerprints'[i] = row
      BY <2>1 DEF GoldTyped
    <2>4. \A i \in DOMAIN fingerprints' :
            fingerprints'[i].run_date = run[fingerprints'[i].run_id].run_date
      BY <2>2, <2>3 DEF PrintsDated
    <2>5. \A q \in Runs : run[q].phase = "queued" => PrintedBy(q)' = {} /\ AttemptsOf(q)' = {}
      <3> SUFFICES ASSUME NEW q \in Runs, run[q].phase = "queued"
                   PROVE  PrintedBy(q)' = {} /\ AttemptsOf(q)' = {}
        OBVIOUS
      <3>1. q # r /\ PrintedBy(q) = {} /\ AttemptsOf(q) = {}
        BY <2>1 DEF PrintsDated
      <3> QED
        BY <2>1, <2>2, <2>3, <3>1 DEF PrintedBy, AttemptsOf
    <2> QED
      BY <2>1, <2>4, <2>5 DEF PrintsDated
  <1>3. ASSUME NEW r \in Runs, attempts' = Append(attempts, r), UNCHANGED fingerprints,
               \A q \in Runs : q # r => run'[q] = run[q], run'[r].phase # "queued",
               run[r].phase = "queued" \/ run'[r].run_date = run[r].run_date
        PROVE  PrintsDated'
    <2>1. \A q \in Runs : q # r => AttemptsOf(q)' = AttemptsOf(q)
      BY <1>3, OneMoreAttempt DEF PublishInv, AttemptsFit
    <2>2. \A q \in Runs : PrintedBy(q)' = PrintedBy(q)
      BY <1>3 DEF PrintedBy
    <2>3. \A i \in DOMAIN fingerprints :
            run'[fingerprints[i].run_id].run_date = run[fingerprints[i].run_id].run_date
      <3> SUFFICES ASSUME NEW i \in DOMAIN fingerprints
                   PROVE  run'[fingerprints[i].run_id].run_date
                            = run[fingerprints[i].run_id].run_date
        OBVIOUS
      <3>1. run[r].phase = "queued" => fingerprints[i].run_id # r
        BY DEF PrintsDated, PrintedBy
      <3> QED
        BY <1>0, <1>3, <3>1
    <2>4. \A i \in DOMAIN fingerprints' :
            fingerprints'[i].run_date = run'[fingerprints'[i].run_id].run_date
      BY <1>3, <2>3 DEF PrintsDated
    <2>5. \A q \in Runs : run'[q].phase = "queued" => PrintedBy(q)' = {} /\ AttemptsOf(q)' = {}
      BY <1>3, <2>1, <2>2 DEF PrintsDated
    <2> QED
      BY <2>4, <2>5 DEF PrintsDated
  <1>4. ASSUME NEW r \in Runs, NEW date \in Dates, NEW day \in Days \cup {0},
               StartRun(r, date, day)
        PROVE  PrintsDated'
    <2>1. /\ \A q \in Runs : q # r => run'[q] = run[q]
          /\ run'[r].phase = "gold_dims" /\ run[r].phase = "queued"
          /\ attempts' = Append(attempts, r) /\ UNCHANGED fingerprints
      BY <1>0, <1>4 DEF StartRun, Start, TypeOK, Run
    <2> QED
      BY <1>3, <2>1
  <1>5. ASSUME NEW r \in Runs, Repair(r)
        PROVE  PrintsDated'
    <2>1. /\ GoTo(r, ResumedAt(r)) /\ ResumedAt(r) # "queued"
          /\ attempts' = Append(attempts, r) /\ UNCHANGED fingerprints
      BY <1>5 DEF Repair, ResumedAt
    <2>2. /\ \A q \in Runs : q # r => run'[q] = run[q]
          /\ run'[r].phase # "queued" /\ run'[r].run_date = run[r].run_date
      BY <1>0, <2>1 DEF GoTo, TypeOK, Run
    <2> QED
      BY <1>3, <2>1, <2>2
  <1>6. ASSUME NEW r \in Runs, ApplyTask(r) \/ BuildNextFact(r) \/ CheckIdempotency(r) \/ FailTask(r)
        PROVE  PrintsDated'
    <2>1. Works(r) /\ UNCHANGED fingerprints
      <3>1. CASE ApplyTask(r)
        BY <1>0, <3>1, ApplyWorks
      <3>2. CASE ~ApplyTask(r)
        BY <1>0, <1>6, <3>2, OthersWork
           DEF BuildNextFact, CheckIdempotency, FailTask, EndAttempt
      <3> QED
        BY <3>1, <3>2
    <2> QED
      BY <1>1, <2>1
  <1>7. CASE UNCHANGED allVars
    BY <1>7 DEF allVars, vars, goldVars, attemptVars, PrintsDated, PrintedBy, AttemptsOf
  <1> QED
    BY <1>2, <1>4, <1>5, <1>6, <1>7 DEF GoldNext, GoldRest

LEMMA RerunKept ==
    ASSUME IndInv, ResolveInv, PublishInv, ReflectInv, GoldTyped, MergesSomething, RerunInv,
           [GoldNext]_allVars
    PROVE  RerunInv'
  <1>0. TypeOK /\ StoppedTyped /\ PrintsDated'
    BY DatedKept DEF IndInv, ResolveInv, RerunInv
  <1>1. ASSUME NEW r \in Runs, NEW date \in Dates, NEW day \in Days \cup {0},
               StartRun(r, date, day)
        PROVE  RerunInv'
    BY <1>0, <1>1, StartFinds DEF RerunInv
  <1>2. ASSUME NEW r \in Runs, ApplyTask(r) \/ BuildNextFact(r) \/ Capture(r)
        PROVE  RerunInv'
    BY <1>0, <1>2, ApplyFinds, BuildFinds, CaptureFinds DEF RerunInv
  <1>3. ASSUME NEW r \in Runs, CheckIdempotency(r) \/ FailTask(r) \/ Repair(r)
        PROVE  RerunInv'
    BY <1>0, <1>3, EndFinds, RepairFinds DEF RerunInv
  <1>4. CASE UNCHANGED allVars
    <2>1. UNCHANGED <<landing, dim, settled, run, fingerprints, built, captured, stoppedIn,
                      attempts>>
      BY <1>4 DEF allVars, vars, tables, history, goldVars, attemptVars
    <2>2. /\ \A q : PrintedBy(q)' = PrintedBy(q) /\ (Uninterleaved(q)' <=> Uninterleaved(q))
          /\ \A q : (AppliedIn(q)' <=> AppliedIn(q)) /\ (AtCheck(q)' <=> AtCheck(q))
          /\ DimPrint' = DimPrint /\ (Everyone' <=> Everyone) /\ LastRun' = LastRun
      BY <2>1 DEF PrintedBy, Uninterleaved, AttemptsOf, AppliedIn, AtCheck, ResumedAt, DimPrint,
                  Everyone, LastRun
    <2>3. \A r, p : Repeats(r, p)' <=> Repeats(r, p)
      BY <2>1, <2>2 DEF Repeats, AttemptsOf
    <2>4. \A r, p : Untouched(r, p)' <=> Untouched(r, p)
      BY <2>1, <2>2 DEF Untouched
    <2>5. OwnPrints' /\ LastIsOwn'
      BY <2>1, <2>2 DEF RerunInv, OwnPrints, LastIsOwn
    <2>6. RerunsFind'
      BY <2>1, <2>2, <2>3, <2>4 DEF RerunInv, RerunsFind
    <2> QED
      BY <1>0, <2>5, <2>6 DEF RerunInv
  <1> QED
    BY <1>1, <1>2, <1>3, <1>4 DEF GoldNext, GoldRest

LEMMA RerunInvariance == GoldSpec => []RerunInv
  <1>1. GoldInit => RerunInv
    <2> SUFFICES ASSUME GoldInit PROVE RerunInv
      OBVIOUS
    <2>1. attempts = <<>> /\ fingerprints = <<>> /\ ~captured
      BY DEF GoldInit
    <2>2. PrintsDated
      BY <2>1 DEF PrintsDated, PrintedBy, AttemptsOf
    <2> QED
      BY <2>1, <2>2 DEF RerunInv, OwnPrints, LastIsOwn, RerunsFind
  <1>2. IndInv /\ ResolveInv /\ PublishInv /\ WholeInv /\ ReflectInv /\ GoldTyped
          /\ MergesSomething /\ RerunInv /\ [GoldNext]_allVars => RerunInv'
    BY RerunKept
  <1> QED
    BY <1>1, <1>2, GoldInvariance, ResolveInvariance, PublishInvariance, GoldFeedInvariance,
       GoldTypedInvariance, MergesInvariance, PTL DEF GoldSpec

(* What the check of a rerun reads is what the run before it printed.      *)
LEMMA RerunIsNotRed ==
    ASSUME IndInv, PublishInv, GoldTyped, RerunInv, NEW r \in Runs, NEW p \in Runs, p # r,
           Repeats(r, p), run[r].phase = "applied", captured
    PROVE  ~Red(r)
  <1> DEFINE now == Fingerprint(fact, dim)
  <1>1. attempts # <<>> /\ LastRun = r /\ built = 3 /\ Uninterleaved(r)
    BY DEF PublishInv, AttemptsFit, Active, Repeats
  <1>2. now = DimPrint
    BY <1>1, BuiltFactsPrint
  <1>3. Untouched(r, p)
    BY <1>1 DEF RerunInv, RerunsFind
  <1>4. PICK i \in PrintedBy(p) : \A j \in DOMAIN fingerprints : j > i => fingerprints[j].run_id = r
    BY <1>3 DEF Untouched
  <1>5. i \in DOMAIN fingerprints /\ i \in Earlier(r)
    BY <1>4 DEF PrintedBy, RerunInv, PrintsDated, Earlier, Repeats
  <1>6. \A j \in Earlier(r) : i >= j
    <2>1. \A j \in Earlier(r) : j \in DOMAIN fingerprints /\ fingerprints[j].run_id # r
      BY DEF Earlier
    <2>2. \A j \in DOMAIN fingerprints : j \in Int
      BY DEF GoldTyped
    <2> QED
      BY <1>4, <1>5, <2>1, <2>2
  <1>7. Max(Earlier(r)) = i
    <2>1. \A x \in Earlier(r) : (\A y \in Earlier(r) : x >= y) => x = i
      <3>1. \A x \in Earlier(r) : x \in Int
        BY DEF GoldTyped, Earlier
      <3> QED
        BY <1>5, <1>6, <3>1
    <2> QED
      BY <1>5, <1>6, <2>1 DEF Max
  <1>8. PreviousRun(r) = p
    BY <1>4, <1>7 DEF PreviousRun, PrintedBy
  <1>9. ASSUME NEW was \in ReadBack(p)
        PROVE  was = now
    <2>1. \A f \in PrintsOf(p) : f = now
      BY <1>2, <1>3 DEF PrintsOf, Untouched, PrintedBy
    <2>2. DOMAIN was = DOMAIN now /\ \A t \in DOMAIN now : was[t] = now[t]
      BY <1>9, <2>1 DEF ReadBack
    <2>3. was = [t \in DOMAIN now |-> was[t]] /\ now = [t \in DOMAIN now |-> now[t]]
      BY <1>9 DEF ReadBack, Fingerprint
    <2> HIDE DEF now
    <2> QED
      BY <2>2, <2>3
  <1> QED
    BY <1>8, <1>9 DEF Red

(* "What happens if the job runs twice?" (README.md:285): the check of a   *)
(* run that repeats the run before it is green, whatever happened before   *)
(* the two, and however many repairs either of them took.                  *)
THEOREM RerunsAreGreen == GoldSpec => RerunIsGreen
  <1>1. IndInv /\ PublishInv /\ GoldTyped /\ RerunInv =>
          [\A r, p \in Runs : CheckIdempotency(r) /\ p # r /\ Repeats(r, p) =>
             run'[r].phase = "succeeded"]_allVars
    <2> SUFFICES ASSUME IndInv, PublishInv, GoldTyped, RerunInv, NEW r \in Runs, NEW p \in Runs,
                        CheckIdempotency(r), p # r, Repeats(r, p)
                 PROVE  run'[r].phase = "succeeded"
      OBVIOUS
    <2>1. ~Red(r)
      BY RerunIsNotRed DEF CheckIdempotency
    <2>2. GoTo(r, "succeeded")
      BY <2>1 DEF CheckIdempotency, Finish
    <2> QED
      BY <2>2, Moved DEF IndInv
  <1> QED
    BY <1>1, GoldInvariance, PublishInvariance, GoldTypedInvariance, RerunInvariance, PTL
       DEF GoldSpec, RerunIsGreen
=============================================================================
