-------------------------- MODULE CustomerDim_proofs --------------------------
(***************************************************************************)
(* Proofs about CustomerDim, for every set of people, runs, dates, silver  *)
(* tables and change files.                                                *)
(***************************************************************************)
EXTENDS CustomerDim, FiniteSums

-----------------------------------------------------------------------------
(* Types of what the operators of Scd2 and CustomerAttributes return.      *)

(* compute_customer_segment always yields one of the five segments.        *)
LEMMA SegmentType ==
    ASSUME NEW u, NEW as_of
    PROVE  Segment(u, as_of) \in Segments
  BY DEF Segment, Segments

(* The rows the seed appends are versions.                                 *)
LEMMA SeedVersionType ==
    ASSUME NEW u \in People, NEW a \in OrNull(Address), NEW first \in FirstOrders(u),
           NEW as_of, NEW n \in Nat
    PROVE  SeedVersion(u, a, first, as_of, n) \in Version
  <1>1. u \in Customers
    BY SilverTypes DEF People
  <1>2. first \in Nat
    <2>1. OrdersOf(u) \subseteq SilverOrders
      BY DEF OrdersOf, OrdersOfRecord
    <2> QED
      BY <2>1, SilverTypes DEF FirstOrders
  <1>3. Segment(u, as_of) \in Segments
    BY SegmentType
  <1> QED
    BY <1>1, <1>2, <1>3, EndOfTimeIsATime DEF SeedVersion, Version, OrNull

(* A change row joined to current rows is staged as a row of the staging   *)
(* table.                                                                  *)
LEMMA StagedType ==
    ASSUME NEW rows \in SUBSET ChangeRow, NEW d \in SUBSET Version, NEW date \in Nat
    PROVE  Staged(rows, d, date) \subseteq StagedRow
  <1> SUFFICES ASSUME NEW r \in rows, NEW c \in LeftJoin(r.uid, d), NEW k \in LeftJoin(r.uid, d)
               PROVE  StagedFrom(r, c, k, date) \in StagedRow
    BY DEF Staged
  <1>1. /\ c.address \in OrNull(Address)
        /\ c.segment \in OrNull(Segments)
        /\ c.profile \in OrNull(Customers)
    BY DEF LeftJoin, Matches, Current, NoMatch, Version, OrNull
  <1>2. r.uid \in OrNull(Customers) /\ r.address \in OrNull(Address)
    BY DEF ChangeRow
  <1>3. Coalesce(r.address, c.address) \in OrNull(Address)
    BY <1>1, <1>2 DEF Coalesce
  <1>4. Classify(r.op, Resolve(r, c), k) \in Actions
    BY DEF Classify, Actions
  <1> QED
    BY <1>1, <1>2, <1>3, <1>4 DEF StagedFrom, Resolve, StagedRow

(* What the MERGE does to one row: it keeps it or closes it at the time of *)
(* a staged row of its key.                                                *)
LEMMA CloseRow ==
    ASSUME NEW d, NEW staged, NEW w \in Close(d, staged)
    PROVE  \E v \in d :
             \/ /\ w = v
                /\ v.is_current /\ v.uid # NULL =>
                     ~ \E k \in KeysToClose(staged) : k.uid = v.uid
             \/ /\ v.is_current
                /\ v.uid # NULL
                /\ \E k \in KeysToClose(staged) :
                     /\ k.uid = v.uid
                     /\ w = ClosedAt(v, k.closed_at)
  BY DEF Close, OnMerge

LEMMA KeysToCloseType ==
    ASSUME NEW staged \in SUBSET StagedRow, NEW k \in KeysToClose(staged)
    PROVE  \E s \in staged : /\ s.action \in {"changed", "deleted"}
                             /\ k.uid = s.uid
                             /\ k.closed_at = s.effective_from
                             /\ k.closed_at \in Nat
  BY DEF KeysToClose, StagedRow

LEMMA CloseType ==
    ASSUME NEW d \in SUBSET Version, NEW staged \in SUBSET StagedRow
    PROVE  Close(d, staged) \subseteq Version
  <1> SUFFICES ASSUME NEW w \in Close(d, staged)
               PROVE  w \in Version
    OBVIOUS
  <1>1. PICK v \in d :
             \/ /\ w = v
                /\ v.is_current /\ v.uid # NULL =>
                     ~ \E k \in KeysToClose(staged) : k.uid = v.uid
             \/ /\ v.is_current
                /\ v.uid # NULL
                /\ \E k \in KeysToClose(staged) :
                     /\ k.uid = v.uid
                     /\ w = ClosedAt(v, k.closed_at)
    BY CloseRow
  <1>2. ASSUME NEW k \in KeysToClose(staged)
        PROVE  ClosedAt(v, k.closed_at) \in Version
    <2>1. k.closed_at \in Nat
      BY KeysToCloseType
    <2> QED
      BY <2>1 DEF Version, ClosedAt
  <1>3. v \in Version
    OBVIOUS
  <1>4. CASE w = v
    BY <1>3, <1>4
  <1>5. CASE \E k \in KeysToClose(staged) : w = ClosedAt(v, k.closed_at)
    BY <1>2, <1>5
  <1>6. w = v \/ \E k \in KeysToClose(staged) : w = ClosedAt(v, k.closed_at)
    BY <1>1
  <1> QED
    BY <1>4, <1>5, <1>6

LEMMA NewVersionsType ==
    ASSUME NEW staged \in SUBSET StagedRow, NEW n \in Nat
    PROVE  NewVersions(staged, n) \subseteq Version
  <1> SUFFICES ASSUME NEW s \in staged
               PROVE  NewVersion(s, n) \in Version
    BY DEF NewVersions
  <1>1. (s.action = "deleted") \in BOOLEAN
    OBVIOUS
  <1> QED
    BY <1>1, EndOfTimeIsATime DEF NewVersion, StagedRow, Version

LEMMA DedupedRows ==
    ASSUME NEW file \in SUBSET ChangeRow, NEW rows \in Deduped(file)
    PROVE  rows \in SUBSET ChangeRow /\ OneRowPerKey(rows)
  BY DEF Deduped, LatestRows

LEMMA NextPassType ==
    ASSUME NEW actions, NEW merged
    PROVE  NextPass(actions, merged) \in {"merge", "append", "applied"}
  BY DEF NextPass

-----------------------------------------------------------------------------
LEMMA TypeInit == Init => TypeOK
  <1> SUFFICES ASSUME Init PROVE TypeOK
    OBVIOUS
  <1>1. [phase |-> "queued", run_date |-> 0, cdc_day |-> 0, actions |-> {}] \in Run
    BY DEF Run, Phases
  <1>2. run \in [Runs -> Run]
    BY <1>1 DEF Init
  <1> QED
    BY <1>2 DEF Init, TypeOK

LEMMA TypeKept == TypeOK /\ [Next]_vars => TypeOK'
  <1> SUFFICES ASSUME TypeOK, [Next]_vars
               PROVE  TypeOK'
    OBVIOUS
  <1> USE DEF TypeOK
  <1>1. ASSUME NEW r \in Runs, NEW date \in Dates, NEW day \in Days \cup {0},
               Start(r, date, day)
        PROVE  TypeOK'
    <2>1. date \in Nat
      BY DatesAreTimes, EndOfTimeIsATime
    <2>2. run' \in [Runs -> Run]
      BY <1>1 DEF Start, Run, Phases
    <2>3. lastDate' \in Nat /\ backdated' \in BOOLEAN
      BY <1>1, <2>1 DEF Start
    <2> QED
      BY <1>1, <2>2, <2>3 DEF Start, tables
  <1>2. ASSUME NEW r \in Runs, SeedDim(r)
        PROVE  TypeOK'
    <2>1. run' \in [Runs -> Run]
      BY <1>2 DEF SeedDim, GoTo, Run, Phases
    <2>2. dim' \subseteq Version /\ commit' \in Nat
      <3>1. CASE dim # {}
        BY <1>2, <3>1 DEF SeedDim
      <3>2. CASE dim = {}
        <4>1. PICK latest \in [People -> OrNull(Address)] :
                /\ commit' = commit + 1
                /\ dim' = UNION {{SeedVersion(u, latest[u], first, run[r].run_date, commit') :
                                     first \in FirstOrders(u)} : u \in People}
          BY <1>2, <3>2 DEF SeedDim
        <4>2. commit' \in Nat
          BY <4>1
        <4>3. \A u \in People : \A first \in FirstOrders(u) :
                SeedVersion(u, latest[u], first, run[r].run_date, commit') \in Version
          BY <4>2, SeedVersionType
        <4> QED
          BY <4>1, <4>2, <4>3
      <3> QED
        BY <3>1, <3>2
    <2> QED
      BY <1>2, <2>1, <2>2 DEF SeedDim, history
  <1>3. ASSUME NEW r \in Runs, SkipCdc(r)
        PROVE  TypeOK'
    BY <1>3 DEF SkipCdc, GoTo, Run, Phases, tables, history
  <1>4. ASSUME NEW r \in Runs, StageChanges(r)
        PROVE  TypeOK'
    <2>1. PICK rows \in Deduped(landing[run[r].cdc_day]) :
            /\ staging' = Staged(rows, dim, run[r].run_date)
            /\ run' = [run EXCEPT ![r].phase = NextPass({s.action : s \in staging'}, FALSE),
                                  ![r].actions = {s.action : s \in staging'}]
            /\ settled' = IF NextPass({s.action : s \in staging'}, FALSE) = "applied"
                          THEN run[r].cdc_day ELSE settled
      BY <1>4 DEF StageChanges
    <2>2. run[r].cdc_day \in Days /\ run[r].run_date \in Nat
      BY <1>4, DatesAreTimes, EndOfTimeIsATime DEF StageChanges, Run
    <2>3. rows \in SUBSET ChangeRow
      BY <2>2, DedupedRows, FilesAreRows
    <2>4. staging' \subseteq StagedRow
      BY <2>1, <2>2, <2>3, StagedType
    <2>5. {s.action : s \in staging'} \subseteq Actions
      BY <2>4 DEF StagedRow
    <2>a. NextPass({s.action : s \in staging'}, FALSE) \in Phases
      BY NextPassType DEF Phases
    <2>6. run' \in [Runs -> Run]
      BY <2>1, <2>5, <2>a DEF Run
    <2>7. settled' \in Days \cup {0}
      BY <2>1, <2>2
    <2> QED
      BY <1>4, <2>4, <2>6, <2>7 DEF StageChanges
  <1>5. ASSUME NEW r \in Runs, CloseSuperseded(r)
        PROVE  TypeOK'
    <2>1. run' \in [Runs -> Run]
      BY <1>5, NextPassType DEF CloseSuperseded, GoTo, Run, Phases
    <2>2. dim' \subseteq Version
      BY <1>5, CloseType DEF CloseSuperseded
    <2> QED
      BY <1>5, <2>1, <2>2 DEF CloseSuperseded
  <1>6. ASSUME NEW r \in Runs, AppendVersions(r)
        PROVE  TypeOK'
    <2>1. run' \in [Runs -> Run]
      BY <1>6 DEF AppendVersions, GoTo, Run, Phases
    <2>2. commit' \in Nat
      BY <1>6 DEF AppendVersions
    <2>3. dim' \subseteq Version
      BY <1>6, <2>2, NewVersionsType DEF AppendVersions
    <2>4. settled' \in Days \cup {0}
      BY <1>6 DEF AppendVersions, Run
    <2> QED
      BY <1>6, <2>1, <2>2, <2>3, <2>4 DEF AppendVersions
  <1>7. ASSUME NEW r \in Runs, Finish(r)
        PROVE  TypeOK'
    BY <1>7 DEF Finish, GoTo, Run, Phases, tables, history
  <1>8. ASSUME NEW r \in Runs, Fail(r)
        PROVE  TypeOK'
    <2>1. run' \in [Runs -> Run]
      BY <1>8 DEF Fail, GoTo, Run, Phases
    <2>2. {k.uid : k \in KeysToClose(staging)} \subseteq OrNull(Customers)
      BY DEF KeysToClose, StagedRow
    <2>3. torn' \subseteq OrNull(Customers)
      BY <1>8, <2>2 DEF Fail
    <2> QED
      BY <1>8, <2>1, <2>3 DEF Fail, tables
  <1>9. CASE UNCHANGED vars
    BY <1>9 DEF vars, tables, history
  <1> QED
    BY <1>1, <1>2, <1>3, <1>4, <1>5, <1>6, <1>7, <1>8, <1>9 DEF Next, Apply, Rest

(* Every variable keeps to its type, through any runs, dates and failures. *)
THEOREM TypeCorrect == Spec => []TypeOK
  BY TypeInit, TypeKept, PTL DEF Spec

-----------------------------------------------------------------------------
(***************************************************************************)
(* The inductive invariant.  AtMostOneCurrent is not inductive: an append  *)
(* keeps it only because the staging table still fits the dimension, and   *)
(* it does only because no second run can have written either of the two   *)
(* since.  DisjointWindows needs, besides, that closed windows end by the  *)
(* latest run date, where the next one opens.                              *)
(***************************************************************************)
OneActive == \A r, s \in Runs : Active(r) /\ Active(s) => r = s

Writing(r) == run[r].phase \in {"merge", "append"}

(* While a run writes, each key is staged once, with the run's date, and a *)
(* staged row that is not a no-op finds its key's current version closed,  *)
(* or the MERGE is yet to come and will close it.                          *)
StagingFits ==
    \A r \in Runs : Writing(r) =>
        /\ run[r].cdc_day # 0
        /\ OneRowPerKey(staging)
        /\ \A s \in staging : s.effective_from = run[r].run_date
        /\ \A s \in staging, v \in dim :
              v.is_current /\ v.uid # NULL /\ s.uid = v.uid =>
                 \/ s.action = "unchanged"
                 \/ run[r].phase = "merge" /\ s.action \in {"changed", "deleted"}

CurrentIsOpen == \A v \in dim : v.is_current => v.effective_to = EndOfTime

(* A run that has its change file before it, or is applying it.  A repaired *)
(* run that has applied it already may be of an earlier date.              *)
ToApply(r) == run[r].phase \in {"gold_dims", "cdc_apply", "merge", "append"}

ClosedByLastDate ==
    ~backdated =>
        /\ \A v \in dim : ~v.is_current => v.effective_to <= lastDate
        /\ \A r \in Runs : ToApply(r) /\ run[r].cdc_day # 0 => run[r].run_date = lastDate

IndInv ==
    /\ TypeOK
    /\ OneActive
    /\ StagingFits
    /\ AtMostOneCurrent
    /\ CurrentIsOpen
    /\ ClosedByLastDate
    /\ DisjointWindows

(* The join with the current rows finds at most one row per key.           *)
LEMMA JoinIsSingle ==
    ASSUME AtMostOneCurrent, NEW u,
           NEW c \in LeftJoin(u, dim), NEW k \in LeftJoin(u, dim)
    PROVE  c = k
  BY DEF AtMostOneCurrent, LeftJoin, Matches, Current

(* What StageChanges writes fits the dimension it was computed from.       *)
LEMMA StagedFits ==
    ASSUME AtMostOneCurrent, NEW rows, OneRowPerKey(rows), NEW date
    PROVE  /\ OneRowPerKey(Staged(rows, dim, date))
           /\ \A s \in Staged(rows, dim, date) : s.effective_from = date
           /\ \A s \in Staged(rows, dim, date), v \in dim :
                 v.is_current /\ v.uid # NULL /\ s.uid = v.uid =>
                    s.action \in {"unchanged", "changed", "deleted"}
  <1>1. ASSUME NEW s \in Staged(rows, dim, date)
        PROVE  \E r \in rows : \E c \in LeftJoin(r.uid, dim), k \in LeftJoin(r.uid, dim) :
                 s = StagedFrom(r, c, k, date)
    BY DEF Staged
  <1>2. OneRowPerKey(Staged(rows, dim, date))
    <2> SUFFICES ASSUME NEW s \in Staged(rows, dim, date), NEW t \in Staged(rows, dim, date),
                        s.uid = t.uid
                 PROVE  s = t
      BY DEF OneRowPerKey
    <2>1. PICK r \in rows : \E c \in LeftJoin(r.uid, dim), k \in LeftJoin(r.uid, dim) :
            s = StagedFrom(r, c, k, date)
      BY <1>1
    <2>2. PICK q \in rows : \E c \in LeftJoin(q.uid, dim), k \in LeftJoin(q.uid, dim) :
            t = StagedFrom(q, c, k, date)
      BY <1>1
    <2>3. s.uid = r.uid /\ t.uid = q.uid
      BY <2>1, <2>2 DEF StagedFrom
    <2>4. r = q
      BY <2>3 DEF OneRowPerKey
    <2> QED
      BY <2>1, <2>2, <2>4, JoinIsSingle
  <1>3. ASSUME NEW s \in Staged(rows, dim, date)
        PROVE  s.effective_from = date
    BY <1>1 DEF StagedFrom
  <1>4. ASSUME NEW s \in Staged(rows, dim, date), NEW v \in dim,
               v.is_current, v.uid # NULL, s.uid = v.uid
        PROVE  s.action \in {"unchanged", "changed", "deleted"}
    <2>1. PICK r \in rows : \E c \in LeftJoin(r.uid, dim), k \in LeftJoin(r.uid, dim) :
            s = StagedFrom(r, c, k, date)
      BY <1>1
    <2>2. PICK c \in LeftJoin(r.uid, dim), k \in LeftJoin(r.uid, dim) :
            s = StagedFrom(r, c, k, date)
      BY <2>1
    <2>3. s.uid = r.uid /\ s.action = Classify(r.op, Resolve(r, c), k)
      BY <2>2 DEF StagedFrom
    <2>4. v \in Matches(r.uid, dim)
      BY <1>4, <2>3 DEF Matches, Current
    <2>5. k.uid # NULL
      BY <2>4 DEF LeftJoin, Matches
    <2> QED
      BY <2>3, <2>5 DEF Classify
  <1> QED
    BY <1>2, <1>3, <1>4

(* A step that moves an active run to a phase outside the two passes, and  *)
(* leaves the tables and the dates alone, keeps the invariant.             *)
LEMMA QuietStep ==
    ASSUME IndInv, TypeOK', NEW r \in Runs, Active(r),
           NEW phase \in {"cdc_apply", "applied", "succeeded", "failed"}, GoTo(r, phase),
           phase = "cdc_apply" => ToApply(r),
           UNCHANGED <<dim, staging, lastDate, backdated>>
    PROVE  IndInv'
  <1> USE DEF IndInv
  <1>1. /\ \A q \in Runs : run'[q].run_date = run[q].run_date /\ run'[q].cdc_day = run[q].cdc_day
        /\ \A q \in Runs : q # r => run'[q] = run[q]
        /\ run'[r].phase = phase
    BY DEF GoTo, TypeOK, Run
  <1>2. \A q \in Runs : Active(q)' => Active(q)
    BY <1>1 DEF Active
  <1>3. OneActive'
    BY <1>2 DEF OneActive
  <1>4. StagingFits'
    BY <1>1 DEF StagingFits, Writing
  <1>5. AtMostOneCurrent' /\ CurrentIsOpen' /\ DisjointWindows'
    BY DEF AtMostOneCurrent, CurrentIsOpen, DisjointWindows, WindowsDisjoint
  <1>6. ClosedByLastDate'
    <2>1. \A q \in Runs : ToApply(q)' => ToApply(q)
      BY <1>1 DEF ToApply
    <2> QED
      BY <1>1, <2>1 DEF ClosedByLastDate
  <1> QED
    BY <1>3, <1>4, <1>5, <1>6

(* A run that starts finds no other active; backdated' records its date.   *)
LEMMA StartKeeps ==
    ASSUME IndInv, TypeOK', NEW r \in Runs, NEW date \in Dates, NEW day \in Days \cup {0},
           Start(r, date, day)
    PROVE  IndInv'
  <1> USE DEF IndInv
  <1>1. /\ \A q \in Runs : q # r => run'[q] = run[q] /\ ~Active(q)
        /\ run'[r].phase = "gold_dims" /\ run'[r].run_date = date /\ run'[r].cdc_day = day
        /\ UNCHANGED <<dim, staging>>
    BY DEF Start, NoActiveRun, TypeOK, Run, tables
  <1>2. \A q \in Runs : Active(q)' => q = r
    BY <1>1 DEF Active
  <1>3. OneActive'
    BY <1>2 DEF OneActive
  <1>4. StagingFits'
    <2>1. \A q \in Runs : ~Writing(q)'
      BY <1>1, <1>2 DEF Writing, Active
    <2> QED
      BY <2>1 DEF StagingFits
  <1>5. AtMostOneCurrent' /\ CurrentIsOpen'
    BY <1>1 DEF AtMostOneCurrent, CurrentIsOpen
  <1>6. DisjointWindows'
    BY <1>1 DEF DisjointWindows, WindowsDisjoint, Start
  <1>7. ClosedByLastDate'
    <2> SUFFICES ASSUME ~backdated'
                 PROVE  ClosedByLastDate'
      BY DEF ClosedByLastDate
    <2>1. date \in Nat /\ lastDate \in Nat
      BY DatesAreTimes, EndOfTimeIsATime DEF TypeOK
    <2>2. ~backdated /\ lastDate' >= lastDate /\ (day # 0 => lastDate' = date)
      <3>1. CASE day = 0
        BY <2>1, <3>1 DEF Start
      <3>2. CASE day # 0
        <4>1. /\ lastDate' = IF date > lastDate THEN date ELSE lastDate
              /\ ~backdated /\ ~(date < lastDate)
          BY <3>2 DEF Start
        <4> QED
          BY <2>1, <4>1
      <3> QED
        BY <3>1, <3>2
    <2>3. \A v \in dim' : ~v.is_current => v.effective_to <= lastDate'
      <3> SUFFICES ASSUME NEW v \in dim', ~v.is_current
                   PROVE  v.effective_to <= lastDate'
        OBVIOUS
      <3>1. v.effective_to <= lastDate /\ v.effective_to \in Nat
        BY <1>1, <2>2 DEF ClosedByLastDate, TypeOK, Version
      <3>2. lastDate' \in Nat
        BY DEF TypeOK
      <3> QED
        BY <2>1, <2>2, <3>1, <3>2
    <2>4. \A q \in Runs : ToApply(q)' /\ run'[q].cdc_day # 0 => run'[q].run_date = lastDate'
      BY <1>1, <1>2, <2>2 DEF ToApply, Active
    <2> QED
      BY <2>3, <2>4 DEF ClosedByLastDate, Active
  <1> QED
    BY <1>3, <1>4, <1>5, <1>6, <1>7

(* The seed writes one open version per person into an empty table.        *)
LEMMA SeedKeeps ==
    ASSUME IndInv, TypeOK', NEW r \in Runs, SeedDim(r)
    PROVE  IndInv'
  <1> USE DEF IndInv
  <1>1. /\ Active(r) /\ ToApply(r) /\ GoTo(r, "cdc_apply")
        /\ UNCHANGED <<staging, lastDate, backdated>>
    BY DEF SeedDim, Active, ToApply, history
  <1>2. CASE dim # {}
    BY <1>1, <1>2, QuietStep DEF SeedDim
  <1>3. CASE dim = {}
    <2>1. /\ \A q \in Runs : run'[q].run_date = run[q].run_date /\ run'[q].cdc_day = run[q].cdc_day
          /\ \A q \in Runs : q # r => run'[q] = run[q]
          /\ run'[r].phase = "cdc_apply"
      BY <1>1 DEF GoTo, TypeOK, Run
    <2>2. \A q \in Runs : (Active(q)' => Active(q)) /\ ~Writing(q)'
      <3>1. \A q \in Runs : Active(q)' => Active(q)
        BY <1>1, <2>1 DEF Active
      <3>2. \A q \in Runs : ~Writing(q)'
        BY <1>1, <2>1, <3>1 DEF OneActive, Active, Writing
      <3> QED
        BY <3>1, <3>2
    <2>3. OneActive' /\ StagingFits'
      BY <2>2 DEF OneActive, StagingFits
    <2>4. ASSUME NEW v \in dim'
          PROVE  \E u \in People : \E first \in FirstOrders(u) :
                   /\ v.uid = u /\ v.effective_from = first
                   /\ v.is_current /\ v.effective_to = EndOfTime
      BY <1>3 DEF SeedDim, SeedVersion
    <2>5. ASSUME NEW v \in dim', NEW w \in dim', v.uid = w.uid
          PROVE  v = w
      <3>1. PICK latest \in [People -> OrNull(Address)] :
              dim' = UNION {{SeedVersion(u, latest[u], first, run[r].run_date, commit') :
                               first \in FirstOrders(u)} : u \in People}
        BY <1>3 DEF SeedDim
      <3>2. PICK u \in People : \E f \in FirstOrders(u) :
              v = SeedVersion(u, latest[u], f, run[r].run_date, commit')
        BY <3>1
      <3>a. PICK first \in FirstOrders(u) :
              v = SeedVersion(u, latest[u], first, run[r].run_date, commit')
        BY <3>2
      <3>3. PICK x \in People : \E f \in FirstOrders(x) :
              w = SeedVersion(x, latest[x], f, run[r].run_date, commit')
        BY <3>1
      <3>b. PICK other \in FirstOrders(x) :
              w = SeedVersion(x, latest[x], other, run[r].run_date, commit')
        BY <3>3
      <3>4. u = x
        BY <2>5, <3>a, <3>b DEF SeedVersion
      <3>5. first = other
        <4>1. \A o \in OrdersOf(u) : o.purchased \in Nat
          BY SilverTypes DEF OrdersOf, OrdersOfRecord
        <4> QED
          BY <3>4, <4>1 DEF FirstOrders
      <3> QED
        BY <3>a, <3>b, <3>4, <3>5
    <2>6. AtMostOneCurrent' /\ DisjointWindows'
      BY <2>5 DEF AtMostOneCurrent, DisjointWindows, WindowsDisjoint
    <2>7. CurrentIsOpen' /\ ClosedByLastDate'
      BY <1>1, <2>1, <2>2, <2>4 DEF CurrentIsOpen, ClosedByLastDate, ToApply
    <2> QED
      BY <2>3, <2>6, <2>7
  <1> QED
    BY <1>2, <1>3

(* Staging writes only the staging table, and what it writes fits.         *)
LEMMA StageKeeps ==
    ASSUME IndInv, TypeOK', NEW r \in Runs, StageChanges(r)
    PROVE  IndInv'
  <1> USE DEF IndInv
  <1>1. PICK rows \in Deduped(landing[run[r].cdc_day]) :
          /\ staging' = Staged(rows, dim, run[r].run_date)
          /\ run' = [run EXCEPT ![r].phase = NextPass({s.action : s \in staging'}, FALSE),
                                ![r].actions = {s.action : s \in staging'}]
    BY DEF StageChanges
  <1>2. /\ Active(r) /\ ToApply(r) /\ run[r].cdc_day # 0
        /\ UNCHANGED <<dim, lastDate, backdated>>
    BY DEF StageChanges, Active, ToApply
  <1>3. /\ \A q \in Runs : run'[q].run_date = run[q].run_date /\ run'[q].cdc_day = run[q].cdc_day
        /\ \A q \in Runs : q # r => run'[q] = run[q]
        /\ run'[r].phase = NextPass({s.action : s \in staging'}, FALSE)
    BY <1>1 DEF TypeOK, Run
  <1>4. \A q \in Runs : Active(q)' => Active(q)
    BY <1>2, <1>3 DEF Active
  <1>5. OneActive'
    BY <1>4 DEF OneActive
  <1>6. OneRowPerKey(rows)
    BY DEF Deduped
  <1>7. StagingFits'
    <2> SUFFICES ASSUME NEW q \in Runs, Writing(q)'
                 PROVE  /\ run'[q].cdc_day # 0
                        /\ OneRowPerKey(staging')
                        /\ \A s \in staging' : s.effective_from = run'[q].run_date
                        /\ \A s \in staging', v \in dim' :
                              v.is_current /\ v.uid # NULL /\ s.uid = v.uid =>
                                 \/ s.action = "unchanged"
                                 \/ run'[q].phase = "merge" /\ s.action \in {"changed", "deleted"}
      BY DEF StagingFits, Writing
    <2>1. q = r
      BY <1>2, <1>3 DEF OneActive, Writing, Active
    <2>2. \A s \in staging', v \in dim :
            v.is_current /\ v.uid # NULL /\ s.uid = v.uid =>
               s.action \in {"unchanged", "changed", "deleted"}
      BY <1>1, <1>6, StagedFits
    <2>3. run'[r].phase # "merge" => \A s \in staging' : s.action \notin {"changed", "deleted"}
      BY <1>3 DEF NextPass
    <2>4. OneRowPerKey(staging') /\ \A s \in staging' : s.effective_from = run[r].run_date
      BY <1>1, <1>6, StagedFits
    <2> QED
      BY <1>2, <1>3, <2>1, <2>2, <2>3, <2>4
  <1>8. AtMostOneCurrent' /\ CurrentIsOpen' /\ DisjointWindows'
    BY <1>2 DEF AtMostOneCurrent, CurrentIsOpen, DisjointWindows, WindowsDisjoint
  <1>9. ClosedByLastDate'
    BY <1>2, <1>3 DEF ClosedByLastDate, ToApply
  <1> QED
    BY <1>5, <1>7, <1>8, <1>9

(* What one row becomes in the MERGE of a run.                             *)
LEMMA MergedRow ==
    ASSUME IndInv, NEW r \in Runs, CloseSuperseded(r), NEW w \in dim'
    PROVE  \E v \in dim :
             \/ /\ w = v
                /\ v.is_current /\ v.uid # NULL => ~ \E k \in KeysToClose(staging) : k.uid = v.uid
             \/ /\ v.is_current /\ v.uid # NULL
                /\ \E k \in KeysToClose(staging) : k.uid = v.uid
                /\ w = ClosedAt(v, run[r].run_date)
  <1> USE DEF IndInv
  <1>1. w \in Close(dim, staging)
    BY DEF CloseSuperseded
  <1>2. PICK v \in dim :
             \/ /\ w = v
                /\ v.is_current /\ v.uid # NULL =>
                     ~ \E k \in KeysToClose(staging) : k.uid = v.uid
             \/ /\ v.is_current
                /\ v.uid # NULL
                /\ \E k \in KeysToClose(staging) :
                     /\ k.uid = v.uid
                     /\ w = ClosedAt(v, k.closed_at)
    BY <1>1, CloseRow
  <1>3. \A k \in KeysToClose(staging) : k.closed_at = run[r].run_date
    <2>1. Writing(r)
      BY DEF CloseSuperseded, Writing
    <2>2. \A s \in staging : s.effective_from = run[r].run_date
      BY <2>1 DEF StagingFits
    <2> QED
      BY <2>2 DEF KeysToClose
  <1> QED
    BY <1>2, <1>3

(* The first pass.  A closed window shrinks, and ends at the run's date.   *)
LEMMA CloseKeeps ==
    ASSUME IndInv, TypeOK', NEW r \in Runs, CloseSuperseded(r)
    PROVE  IndInv'
  <1> USE DEF IndInv
  <1>1. /\ Active(r) /\ Writing(r) /\ run[r].phase = "merge"
        /\ UNCHANGED <<staging, lastDate, backdated>>
        /\ GoTo(r, NextPass(run[r].actions, TRUE))
    BY DEF CloseSuperseded, Active, Writing
  <1>2. /\ \A q \in Runs : run'[q].run_date = run[q].run_date /\ run'[q].cdc_day = run[q].cdc_day
        /\ \A q \in Runs : q # r => run'[q] = run[q]
        /\ run'[r].phase \in {"append", "applied"}
    BY <1>1 DEF GoTo, TypeOK, Run, NextPass
  <1>3. \A q \in Runs : Active(q)' => Active(q)
    BY <1>1, <1>2 DEF Active
  <1>4. OneActive'
    BY <1>3 DEF OneActive
  <1>5. /\ run[r].cdc_day # 0 /\ OneRowPerKey(staging)
        /\ \A s \in staging : s.effective_from = run[r].run_date
        /\ \A s \in staging, v \in dim :
             v.is_current /\ v.uid # NULL /\ s.uid = v.uid =>
               s.action \in {"unchanged", "changed", "deleted"}
    BY <1>1 DEF StagingFits
  <1>6. run[r].run_date \in Nat /\ run[r].run_date <= EndOfTime /\ EndOfTime \in Nat
    <2>1. run[r].run_date \in Dates \cup {0}
      BY DEF TypeOK, Run
    <2>2. EndOfTime \in Nat
      BY EndOfTimeIsATime
    <2>3. CASE run[r].run_date = 0
      BY <2>2, <2>3
    <2>4. CASE run[r].run_date \in Dates
      <3>1. run[r].run_date \in 0 .. EndOfTime
        BY <2>4, DatesAreTimes
      <3> QED
        BY <2>2, <3>1
    <2> QED
      BY <2>1, <2>3, <2>4
  <1>7. \A v \in dim : /\ ClosedAt(v, run[r].run_date).uid = v.uid
                       /\ ClosedAt(v, run[r].run_date).effective_from = v.effective_from
                       /\ ClosedAt(v, run[r].run_date).effective_to = run[r].run_date
                       /\ ClosedAt(v, run[r].run_date).is_current = FALSE
    BY DEF ClosedAt, TypeOK, Version
  <1>8. StagingFits'
    <2> SUFFICES ASSUME NEW q \in Runs, Writing(q)'
                 PROVE  /\ run'[q].cdc_day # 0
                        /\ OneRowPerKey(staging')
                        /\ \A s \in staging' : s.effective_from = run'[q].run_date
                        /\ \A s \in staging', v \in dim' :
                              v.is_current /\ v.uid # NULL /\ s.uid = v.uid =>
                                 \/ s.action = "unchanged"
                                 \/ run'[q].phase = "merge" /\ s.action \in {"changed", "deleted"}
      BY DEF StagingFits, Writing
    <2>1. q = r
      BY <1>1, <1>2 DEF OneActive, Writing, Active
    <2>2. ASSUME NEW s \in staging, NEW w \in dim', w.is_current, w.uid # NULL, s.uid = w.uid
          PROVE  s.action = "unchanged"
      <3>1. w \in dim /\ ~ \E k \in KeysToClose(staging) : k.uid = w.uid
        BY <2>2, <1>7, MergedRow
      <3>2. s.action \notin {"changed", "deleted"}
        <4>1. s.action \in {"changed", "deleted"} =>
                [uid |-> s.uid, closed_at |-> s.effective_from] \in KeysToClose(staging)
          BY DEF KeysToClose
        <4> QED
          BY <2>2, <3>1, <4>1
      <3> QED
        BY <1>5, <2>2, <3>1, <3>2
    <2> QED
      BY <1>1, <1>2, <1>5, <2>1, <2>2
  <1>9. AtMostOneCurrent'
    <2> SUFFICES ASSUME NEW v \in dim', NEW w \in dim', v.is_current, w.is_current,
                        v.uid = w.uid, v.uid # NULL
                 PROVE  v = w
      BY DEF AtMostOneCurrent
    <2>1. v \in dim /\ w \in dim
      BY <1>7, MergedRow
    <2> QED
      BY <2>1 DEF AtMostOneCurrent
  <1>10. CurrentIsOpen'
    BY <1>7, MergedRow DEF CurrentIsOpen
  <1>11. ClosedByLastDate'
    <2> SUFFICES ASSUME ~backdated
                 PROVE  /\ \A v \in dim' : ~v.is_current => v.effective_to <= lastDate
                        /\ \A q \in Runs : ToApply(q)' /\ run'[q].cdc_day # 0 =>
                                             run'[q].run_date = lastDate
      BY <1>1 DEF ClosedByLastDate
    <2>1. run[r].run_date = lastDate
      BY <1>1, <1>5 DEF ClosedByLastDate, ToApply
    <2>2. ASSUME NEW w \in dim', ~w.is_current
          PROVE  w.effective_to <= lastDate
      <3>1. PICK v \in dim : w = v \/ (v.is_current /\ w = ClosedAt(v, run[r].run_date))
        BY MergedRow
      <3>2. CASE w = v
        BY <2>2, <3>2 DEF ClosedByLastDate
      <3>3. CASE w = ClosedAt(v, run[r].run_date)
        BY <1>6, <1>7, <2>1, <3>3
      <3> QED
        BY <3>1, <3>2, <3>3
    <2> QED
      BY <1>1, <1>2, <2>2 DEF ClosedByLastDate, ToApply
  <1>12. DisjointWindows'
    <2> SUFFICES ASSUME ~backdated, NEW v \in dim', NEW w \in dim',
                        v.uid = w.uid, v.uid # NULL, v # w
                 PROVE  ~Overlap(v, w)
      BY <1>1 DEF DisjointWindows, WindowsDisjoint
    <2> DEFINE Closing(x) == \E k \in KeysToClose(staging) : k.uid = x.uid
               Became(x, y) ==
                 \/ y = x /\ (x.is_current /\ x.uid # NULL => ~Closing(x))
                 \/ x.is_current /\ x.uid # NULL /\ Closing(x)
                    /\ y = ClosedAt(x, run[r].run_date)
    <2>1. PICK x \in dim : Became(x, v)
      BY MergedRow
    <2>2. PICK y \in dim : Became(y, w)
      BY MergedRow
    <2>3. x # y
      BY <2>1, <2>2
    <2>4. x.uid = y.uid /\ x.uid # NULL
      BY <1>7, <2>1, <2>2
    <2>5. ~Overlap(x, y)
      BY <1>1, <2>3, <2>4 DEF DisjointWindows, WindowsDisjoint
    <2>6. /\ v.effective_from = x.effective_from /\ v.effective_to <= x.effective_to
          /\ v.effective_to \in Nat /\ x.effective_to \in Nat /\ x.effective_from \in Nat
      <3>1. x \in Version
        BY DEF TypeOK
      <3>2. CASE v = x
        BY <3>1, <3>2 DEF Version
      <3>3. CASE x.is_current /\ v = ClosedAt(x, run[r].run_date)
        BY <1>6, <1>7, <3>1, <3>3 DEF CurrentIsOpen, Version
      <3> QED
        BY <2>1, <3>2, <3>3
    <2>7. /\ w.effective_from = y.effective_from /\ w.effective_to <= y.effective_to
          /\ w.effective_to \in Nat /\ y.effective_to \in Nat /\ y.effective_from \in Nat
      <3>1. y \in Version
        BY DEF TypeOK
      <3>2. CASE w = y
        BY <3>1, <3>2 DEF Version
      <3>3. CASE y.is_current /\ w = ClosedAt(y, run[r].run_date)
        BY <1>6, <1>7, <3>1, <3>3 DEF CurrentIsOpen, Version
      <3> QED
        BY <2>2, <3>2, <3>3
    <2> QED
      BY <2>5, <2>6, <2>7 DEF Overlap
  <1> QED
    BY <1>4, <1>8, <1>9, <1>10, <1>11, <1>12

(* The second pass.  A new version opens where every closed window of its  *)
(* key has ended, and finds no current version.                            *)
LEMMA AppendKeeps ==
    ASSUME IndInv, TypeOK', NEW r \in Runs, AppendVersions(r)
    PROVE  IndInv'
  <1> USE DEF IndInv
  <1>1. /\ Active(r) /\ Writing(r) /\ run[r].phase = "append"
        /\ UNCHANGED <<staging, lastDate, backdated>>
        /\ GoTo(r, "applied")
        /\ dim' = dim \cup NewVersions(staging, commit')
    BY DEF AppendVersions, Active, Writing
  <1>2. /\ \A q \in Runs : run'[q].run_date = run[q].run_date /\ run'[q].cdc_day = run[q].cdc_day
        /\ \A q \in Runs : q # r => run'[q] = run[q]
        /\ run'[r].phase = "applied"
    BY <1>1 DEF GoTo, TypeOK, Run
  <1>3. \A q \in Runs : (Active(q)' => Active(q)) /\ ~Writing(q)'
    BY <1>1, <1>2 DEF Active, Writing, OneActive
  <1>4. OneActive' /\ StagingFits'
    BY <1>3 DEF OneActive, StagingFits
  <1>5. /\ run[r].cdc_day # 0 /\ OneRowPerKey(staging)
        /\ \A s \in staging : s.effective_from = run[r].run_date
        /\ \A s \in staging, v \in dim :
             v.is_current /\ v.uid # NULL /\ s.uid = v.uid => s.action = "unchanged"
    BY <1>1 DEF StagingFits
  <1>6. ASSUME NEW n \in NewVersions(staging, commit')
        PROVE  \E s \in staging :
                 /\ s.action # "unchanged"
                 /\ n = NewVersion(s, commit')
                 /\ n.uid = s.uid /\ n.is_current
                 /\ n.effective_from = run[r].run_date
                 /\ n.effective_to = EndOfTime
    BY <1>5 DEF NewVersions, NewVersion
  (* Versions of one key, old and new. *)
  <1>7. ASSUME NEW n \in NewVersions(staging, commit'), NEW v \in dim,
               n.uid = v.uid, v.uid # NULL
        PROVE  ~v.is_current
    BY <1>5, <1>6, <1>7
  <1>8. ASSUME NEW n \in NewVersions(staging, commit'), NEW m \in NewVersions(staging, commit'),
               n.uid = m.uid
        PROVE  n = m
    BY <1>5, <1>6, <1>8 DEF OneRowPerKey
  <1>9. AtMostOneCurrent'
    <2> SUFFICES ASSUME NEW v \in dim', NEW w \in dim', v.is_current, w.is_current,
                        v.uid = w.uid, v.uid # NULL
                 PROVE  v = w
      BY DEF AtMostOneCurrent
    <2>1. CASE v \in dim /\ w \in dim
      BY <2>1 DEF AtMostOneCurrent
    <2>2. CASE v \in NewVersions(staging, commit') /\ w \in NewVersions(staging, commit')
      BY <2>2, <1>8
    <2> QED
      BY <1>1, <1>7, <2>1, <2>2
  <1>10. CurrentIsOpen'
    BY <1>1, <1>6 DEF CurrentIsOpen
  <1>11. ClosedByLastDate'
    BY <1>1, <1>2, <1>6 DEF ClosedByLastDate, ToApply
  <1>12. DisjointWindows'
    <2> SUFFICES ASSUME ~backdated, NEW v \in dim', NEW w \in dim',
                        v.uid = w.uid, v.uid # NULL, v # w
                 PROVE  ~Overlap(v, w)
      BY <1>1 DEF DisjointWindows, WindowsDisjoint
    <2>1. ASSUME NEW n \in NewVersions(staging, commit'), NEW x \in dim,
                 n.uid = x.uid, x.uid # NULL
          PROVE  ~(n.effective_from < x.effective_to)
      <3>1. n.effective_from = lastDate
        BY <1>1, <1>5, <1>6 DEF ClosedByLastDate, ToApply
      <3>2. x.effective_to <= lastDate
        BY <1>7, <2>1 DEF ClosedByLastDate
      <3>3. x.effective_to \in Nat /\ lastDate \in Nat
        BY DEF TypeOK, Version
      <3> QED
        BY <3>1, <3>2, <3>3
    <2>2. CASE v \in dim /\ w \in dim
      BY <2>2 DEF DisjointWindows, WindowsDisjoint
    <2>3. CASE v \in NewVersions(staging, commit') /\ w \in NewVersions(staging, commit')
      BY <2>3, <1>8
    <2>4. CASE v \in NewVersions(staging, commit') /\ w \in dim
      BY <2>1, <2>4 DEF Overlap
    <2>5. CASE v \in dim /\ w \in NewVersions(staging, commit')
      BY <2>1, <2>5 DEF Overlap
    <2> QED
      BY <1>1, <2>2, <2>3, <2>4, <2>5
  <1> QED
    BY <1>4, <1>9, <1>10, <1>11, <1>12

-----------------------------------------------------------------------------
LEMMA IndInit == Init => IndInv
  <1> SUFFICES ASSUME Init PROVE IndInv
    OBVIOUS
  <1>1. \A r \in Runs : ~Active(r) /\ ~Writing(r)
    BY DEF Init, Active, Writing
  <1>2. TypeOK
    <2>1. [phase |-> "queued", run_date |-> 0, cdc_day |-> 0, actions |-> {}] \in Run
      BY DEF Run, Phases
    <2>2. run \in [Runs -> Run]
      BY <2>1 DEF Init
    <2> QED
      BY <2>2 DEF Init, TypeOK
  <1>3. AtMostOneCurrent /\ CurrentIsOpen /\ DisjointWindows
    BY DEF Init, AtMostOneCurrent, CurrentIsOpen, DisjointWindows, WindowsDisjoint
  <1> QED
    BY <1>1, <1>2, <1>3 DEF Init, IndInv, OneActive, StagingFits, ClosedByLastDate

LEMMA IndKept == IndInv /\ [Next]_vars => IndInv'
  <1> SUFFICES ASSUME IndInv, [Next]_vars
               PROVE  IndInv'
    OBVIOUS
  <1>0. TypeOK'
    BY TypeKept DEF IndInv
  <1>1. ASSUME NEW r \in Runs, NEW date \in Dates, NEW day \in Days \cup {0},
               Start(r, date, day)
        PROVE  IndInv'
    BY <1>1, <1>0, StartKeeps
  <1>2. ASSUME NEW r \in Runs, SeedDim(r)
        PROVE  IndInv'
    BY <1>2, <1>0, SeedKeeps
  <1>3. ASSUME NEW r \in Runs, SkipCdc(r)
        PROVE  IndInv'
    BY <1>3, <1>0, QuietStep DEF SkipCdc, Active, tables, history
  <1>4. ASSUME NEW r \in Runs, StageChanges(r)
        PROVE  IndInv'
    BY <1>4, <1>0, StageKeeps
  <1>5. ASSUME NEW r \in Runs, CloseSuperseded(r)
        PROVE  IndInv'
    BY <1>5, <1>0, CloseKeeps
  <1>6. ASSUME NEW r \in Runs, AppendVersions(r)
        PROVE  IndInv'
    BY <1>6, <1>0, AppendKeeps
  <1>7. ASSUME NEW r \in Runs, Finish(r)
        PROVE  IndInv'
    BY <1>7, <1>0, QuietStep DEF Finish, Active, tables, history
  <1>8. ASSUME NEW r \in Runs, Fail(r)
        PROVE  IndInv'
    BY <1>8, <1>0, QuietStep DEF Fail, tables
  <1>9. CASE UNCHANGED vars
    <2>1. UNCHANGED <<dim, staging, run, lastDate, backdated>>
      BY <1>9 DEF vars, tables, history
    <2>2. OneActive' /\ StagingFits'
      BY <2>1 DEF IndInv, OneActive, StagingFits, Active, Writing
    <2>3. AtMostOneCurrent' /\ CurrentIsOpen' /\ DisjointWindows'
      BY <2>1 DEF IndInv, AtMostOneCurrent, CurrentIsOpen, DisjointWindows, WindowsDisjoint
    <2>4. ClosedByLastDate'
      BY <2>1 DEF IndInv, ClosedByLastDate, ToApply
    <2> QED
      BY <1>0, <2>2, <2>3, <2>4 DEF IndInv
  <1> QED
    BY <1>1, <1>2, <1>3, <1>4, <1>5, <1>6, <1>7, <1>8, <1>9 DEF Next, Apply, Rest

(* The invariant holds in every reachable state.                           *)
THEOREM Invariance == Spec => []IndInv
  BY IndInit, IndKept, PTL DEF Spec

(* A person never has two current versions: for any number of runs, with   *)
(* any dates and change files, failing between any two commits.            *)
THEOREM OneCurrentVersion == Spec => []AtMostOneCurrent
  <1>1. IndInv => AtMostOneCurrent
    BY DEF IndInv
  <1> QED
    BY <1>1, Invariance, PTL

(* No instant lies in two versions of a person, unless a change file was   *)
(* applied with an earlier run_date than one before it.                    *)
THEOREM WindowsNeverOverlap == Spec => []DisjointWindows
  <1>1. IndInv => DisjointWindows
    BY DEF IndInv
  <1> QED
    BY <1>1, Invariance, PTL

Kept(v) ==
    v \in dim' \/ (v.is_current /\ \E r \in Runs : ClosedAt(v, run[r].run_date) \in dim')

LEMMA EveryVersionKept ==
    ASSUME IndInv, [Next]_vars
    PROVE  \A v \in dim : Kept(v)
  <1> USE DEF Kept
  <1>1. ASSUME dim' = dim
        PROVE  \A v \in dim : Kept(v)
    BY <1>1
  <1>2. ASSUME NEW r \in Runs, SeedDim(r)
        PROVE  \A v \in dim : Kept(v)
    BY <1>2 DEF SeedDim
  <1>3. ASSUME NEW r \in Runs, CloseSuperseded(r)
        PROVE  \A v \in dim : Kept(v)
    <2> SUFFICES ASSUME NEW v \in dim
                 PROVE  Kept(v)
      OBVIOUS
    <2>1. CASE \A k \in KeysToClose(staging) : ~OnMerge(v, k)
      BY <1>3, <2>1 DEF CloseSuperseded, Close
    <2>2. ASSUME NEW k \in KeysToClose(staging), OnMerge(v, k)
          PROVE  Kept(v)
      <3>1. ClosedAt(v, k.closed_at) \in dim' /\ v.is_current
        BY <1>3, <2>2 DEF CloseSuperseded, Close, OnMerge
      <3>2. k.closed_at = run[r].run_date
        <4>1. Writing(r)
          BY <1>3 DEF CloseSuperseded, Writing
        <4>2. \A s \in staging : s.effective_from = run[r].run_date
          BY <4>1 DEF IndInv, StagingFits
        <4> QED
          BY <4>2 DEF KeysToClose
      <3> QED
        BY <3>1, <3>2
    <2> QED
      BY <2>1, <2>2
  <1>4. ASSUME NEW r \in Runs, AppendVersions(r)
        PROVE  \A v \in dim : Kept(v)
    BY <1>4 DEF AppendVersions
  <1> QED
    BY <1>1, <1>2, <1>3, <1>4
       DEF Next, Apply, Start, SkipCdc, StageChanges, Finish, Fail, Rest, vars, tables

(* No step removes a version or changes a closed one; a current one is at  *)
(* most closed, at the date of a run.                                      *)
THEOREM HistoryIsKept == Spec => HistoryIsAppendOnly
  <1>1. IndInv /\ [Next]_vars =>
          [\A v \in dim : v \in dim' \/
             (v.is_current /\ \E r \in Runs : ClosedAt(v, run[r].run_date) \in dim')]_vars
    BY EveryVersionKept DEF Kept
  <1> QED
    BY <1>1, Invariance, PTL DEF Spec, HistoryIsAppendOnly

-----------------------------------------------------------------------------
(***************************************************************************)
(* Nobody is lost.  The second pass runs because the first one closed      *)
(* something: it decides that from the actions counted when the staging    *)
(* table was written, so these must be the actions of its rows.            *)
(***************************************************************************)
ActionsCounted ==
    \A r \in Runs : Writing(r) => run[r].actions = {s.action : s \in staging}

NobodyLost == ActionsCounted /\ CurrentUnlessTorn

(* A step of the active run that writes neither table keeps both parts,    *)
(* unless it takes the run out of the append.                              *)
LEMMA QuietKeepsEveryone ==
    ASSUME IndInv, NobodyLost, NEW r \in Runs,
           UNCHANGED <<dim, staging, torn>>,
           \A q \in Runs : q # r => run'[q] = run[q],
           run[r].phase # "append", ~Writing(r)'
    PROVE  NobodyLost'
  <1>1. ActionsCounted'
    BY DEF NobodyLost, ActionsCounted, Writing
  <1>2. \A u : BetweenPasses(u) => BetweenPasses(u)'
    BY DEF BetweenPasses
  <1>3. CurrentUnlessTorn'
    BY <1>2 DEF NobodyLost, CurrentUnlessTorn, Current
  <1> QED
    BY <1>1, <1>3 DEF NobodyLost

(* While a run is active and not at its append, nobody is between passes.  *)
LEMMA NobodyBetweenPasses ==
    ASSUME IndInv, NEW r \in Runs, Active(r), run[r].phase # "append", NEW u
    PROVE  ~BetweenPasses(u)
  BY DEF BetweenPasses, IndInv, OneActive, Active

LEMMA StageLosesNobody ==
    ASSUME IndInv, NobodyLost, NEW r \in Runs, StageChanges(r)
    PROVE  NobodyLost'
  <1>1. /\ Active(r) /\ run[r].phase = "cdc_apply"
        /\ UNCHANGED <<dim, torn>>
    BY DEF StageChanges, Active
  <1>2. run' = [run EXCEPT ![r].phase = NextPass({s.action : s \in staging'}, FALSE),
                           ![r].actions = {s.action : s \in staging'}]
    BY DEF StageChanges
  <1>3. /\ \A q \in Runs : q # r => run'[q] = run[q]
        /\ run'[r].actions = {s.action : s \in staging'}
    BY <1>2 DEF IndInv, TypeOK, Run
  <1>4. \A q \in Runs : q # r => ~Writing(q)'
    BY <1>1, <1>3 DEF IndInv, OneActive, Active, Writing
  <1>5. ActionsCounted'
    BY <1>3, <1>4 DEF ActionsCounted
  <1>6. CurrentUnlessTorn'
    BY <1>1, NobodyBetweenPasses DEF NobodyLost, CurrentUnlessTorn, Current
  <1> QED
    BY <1>5, <1>6 DEF NobodyLost

(* The MERGE: whoever loses its current version is staged for the append   *)
(* that follows.                                                           *)
LEMMA CloseLosesNobody ==
    ASSUME IndInv, NobodyLost, NEW r \in Runs, CloseSuperseded(r)
    PROVE  NobodyLost'
  <1>1. /\ Active(r) /\ Writing(r) /\ run[r].phase = "merge"
        /\ dim' = Close(dim, staging)
        /\ UNCHANGED <<staging, torn>>
        /\ GoTo(r, NextPass(run[r].actions, TRUE))
    BY DEF CloseSuperseded, Active, Writing
  <1>2. /\ \A q \in Runs : q # r => run'[q] = run[q]
        /\ run'[r].actions = run[r].actions
        /\ run'[r].phase = NextPass(run[r].actions, TRUE)
    BY <1>1 DEF GoTo, IndInv, TypeOK, Run
  <1>3. run[r].actions = {s.action : s \in staging}
    BY <1>1 DEF NobodyLost, ActionsCounted
  <1>4. ActionsCounted'
    <2>1. \A q \in Runs : q # r => ~Writing(q)'
      BY <1>1, <1>2 DEF IndInv, OneActive, Active, Writing
    <2> QED
      BY <1>1, <1>2, <1>3, <2>1 DEF ActionsCounted
  <1>5. CurrentUnlessTorn'
    <2> SUFFICES ASSUME NEW v \in dim', v.uid \notin torn, ~BetweenPasses(v.uid)'
                 PROVE  \E w \in Current(dim') : w.uid = v.uid
      BY <1>1 DEF CurrentUnlessTorn
    <2>1. PICK x \in dim : x.uid = v.uid
      <3>1. PICK x \in dim : v = x \/ v = ClosedAt(x, run[r].run_date)
        BY MergedRow
      <3>2. ClosedAt(x, run[r].run_date).uid = x.uid
        BY DEF ClosedAt, IndInv, TypeOK, Version
      <3> QED
        BY <3>1, <3>2
    <2>2. PICK w \in dim : w.is_current /\ w.uid = v.uid
      BY <1>1, <2>1, NobodyBetweenPasses DEF NobodyLost, CurrentUnlessTorn, Current
    <2>3. ASSUME NEW k \in KeysToClose(staging), k.uid = v.uid
          PROVE  FALSE
      <3>1. run'[r].phase = "append"
        BY <1>2, <1>3, <2>3 DEF KeysToClose, NextPass
      <3> QED
        BY <1>1, <2>3, <3>1 DEF BetweenPasses
    <2>4. w \in dim'
      BY <1>1, <2>2, <2>3 DEF Close, OnMerge
    <2> QED
      BY <2>2, <2>4 DEF Current
  <1> QED
    BY <1>4, <1>5 DEF NobodyLost

(* The append gives each key that was closed its new version.              *)
LEMMA AppendLosesNobody ==
    ASSUME IndInv, NobodyLost, NEW r \in Runs, AppendVersions(r)
    PROVE  NobodyLost'
  <1>1. /\ Active(r) /\ run[r].phase = "append"
        /\ dim' = dim \cup NewVersions(staging, commit')
        /\ UNCHANGED <<staging, torn>>
        /\ GoTo(r, "applied")
    BY DEF AppendVersions, Active
  <1>2. /\ \A q \in Runs : q # r => run'[q] = run[q]
        /\ run'[r].phase = "applied"
    BY <1>1 DEF GoTo, IndInv, TypeOK, Run
  <1>3. \A q \in Runs : ~Writing(q)'
    BY <1>1, <1>2 DEF IndInv, OneActive, Active, Writing
  <1>4. ActionsCounted'
    BY <1>3 DEF ActionsCounted
  <1>5. \A n \in NewVersions(staging, commit') : n.is_current
    BY DEF NewVersions, NewVersion
  <1>6. ASSUME NEW u, BetweenPasses(u)
        PROVE  \E w \in NewVersions(staging, commit') : w.uid = u
    <2>1. PICK k \in KeysToClose(staging) : k.uid = u
      BY <1>6 DEF BetweenPasses
    <2>2. PICK s \in staging : s.uid = u /\ s.action \in {"changed", "deleted"}
      BY <2>1 DEF KeysToClose
    <2>3. NewVersion(s, commit') \in NewVersions(staging, commit')
      BY <2>2 DEF NewVersions
    <2> QED
      BY <2>2, <2>3 DEF NewVersion
  <1>7. CurrentUnlessTorn'
    <2> SUFFICES ASSUME NEW v \in dim', v.uid \notin torn
                 PROVE  \E w \in dim' : w.is_current /\ w.uid = v.uid
      BY <1>1 DEF CurrentUnlessTorn, Current
    <2>1. CASE v \in NewVersions(staging, commit')
      BY <1>5, <2>1
    <2>2. CASE v \in dim
      BY <1>1, <1>5, <1>6, <2>2 DEF NobodyLost, CurrentUnlessTorn, Current
    <2> QED
      BY <1>1, <2>1, <2>2
  <1> QED
    BY <1>4, <1>7 DEF NobodyLost

(* A failure tears the keys it leaves between the passes.                  *)
LEMMA FailLosesNobody ==
    ASSUME IndInv, NobodyLost, NEW r \in Runs, Fail(r)
    PROVE  NobodyLost'
  <1>1. /\ Active(r) /\ GoTo(r, "failed") /\ UNCHANGED <<dim, staging>>
        /\ torn \subseteq torn'
        /\ run[r].phase = "append" => {k.uid : k \in KeysToClose(staging)} \subseteq torn'
    BY DEF Fail, tables
  <1>2. /\ \A q \in Runs : q # r => run'[q] = run[q]
        /\ run'[r].phase = "failed"
    BY <1>1 DEF GoTo, IndInv, TypeOK, Run
  <1>3. ActionsCounted'
    BY <1>1, <1>2 DEF NobodyLost, ActionsCounted, Writing
  <1>4. \A u : BetweenPasses(u) => u \in torn'
    BY <1>1 DEF BetweenPasses, IndInv, OneActive, Active
  <1>5. CurrentUnlessTorn'
    BY <1>1, <1>4 DEF NobodyLost, CurrentUnlessTorn, Current
  <1> QED
    BY <1>3, <1>5 DEF NobodyLost

LEMMA LostInit == Init => NobodyLost
  BY DEF Init, NobodyLost, ActionsCounted, Writing, CurrentUnlessTorn

LEMMA LostKept == IndInv /\ NobodyLost /\ [Next]_vars => NobodyLost'
  <1> SUFFICES ASSUME IndInv, NobodyLost, [Next]_vars
               PROVE  NobodyLost'
    OBVIOUS
  <1>1. ASSUME NEW r \in Runs, NEW date \in Dates, NEW day \in Days \cup {0},
               Start(r, date, day)
        PROVE  NobodyLost'
    <2>1. /\ \A q \in Runs : q # r => run'[q] = run[q]
          /\ run'[r].phase = "gold_dims"
      BY <1>1 DEF Start, IndInv, TypeOK, Run
    <2> QED
      BY <1>1, <2>1, QuietKeepsEveryone DEF Start, tables, Writing
  <1>2. ASSUME NEW r \in Runs, SeedDim(r)
        PROVE  NobodyLost'
    <2>1. /\ \A q \in Runs : q # r => run'[q] = run[q]
          /\ run'[r].phase = "cdc_apply" /\ run[r].phase = "gold_dims"
          /\ UNCHANGED <<staging, torn>>
      BY <1>2 DEF SeedDim, GoTo, history, IndInv, TypeOK, Run
    <2>2. CASE dim' = dim
      BY <2>1, <2>2, QuietKeepsEveryone DEF Writing
    <2>3. CASE \A v \in dim' : v.is_current
      <3>1. ActionsCounted'
        BY <2>1 DEF NobodyLost, ActionsCounted, Writing
      <3>2. CurrentUnlessTorn'
        BY <2>3 DEF CurrentUnlessTorn, Current
      <3> QED
        BY <3>1, <3>2 DEF NobodyLost
    <2>4. dim' = dim \/ \A v \in dim' : v.is_current
      BY <1>2 DEF SeedDim, SeedVersion
    <2> QED
      BY <2>2, <2>3, <2>4
  <1>3. ASSUME NEW r \in Runs, SkipCdc(r)
        PROVE  NobodyLost'
    <2>1. /\ \A q \in Runs : q # r => run'[q] = run[q]
          /\ run'[r].phase = "applied"
      BY <1>3 DEF SkipCdc, GoTo, IndInv, TypeOK, Run
    <2> QED
      BY <1>3, <2>1, QuietKeepsEveryone DEF SkipCdc, tables, history, Writing
  <1>4. ASSUME NEW r \in Runs, StageChanges(r)
        PROVE  NobodyLost'
    BY <1>4, StageLosesNobody
  <1>5. ASSUME NEW r \in Runs, CloseSuperseded(r)
        PROVE  NobodyLost'
    BY <1>5, CloseLosesNobody
  <1>6. ASSUME NEW r \in Runs, AppendVersions(r)
        PROVE  NobodyLost'
    BY <1>6, AppendLosesNobody
  <1>7. ASSUME NEW r \in Runs, Finish(r)
        PROVE  NobodyLost'
    <2>1. /\ \A q \in Runs : q # r => run'[q] = run[q]
          /\ run'[r].phase = "succeeded"
      BY <1>7 DEF Finish, GoTo, IndInv, TypeOK, Run
    <2> QED
      BY <1>7, <2>1, QuietKeepsEveryone DEF Finish, tables, history, Writing
  <1>8. ASSUME NEW r \in Runs, Fail(r)
        PROVE  NobodyLost'
    BY <1>8, FailLosesNobody
  <1>9. CASE UNCHANGED vars
    BY <1>9 DEF vars, tables, history, NobodyLost, ActionsCounted, CurrentUnlessTorn,
                Writing, BetweenPasses, Current
  <1> QED
    BY <1>1, <1>2, <1>3, <1>4, <1>5, <1>6, <1>7, <1>8, <1>9 DEF Next, Apply, Rest

(* A known person has a current version, unless a run is between its       *)
(* passes or a failed one left the key closed: whatever failed and was     *)
(* tried again, in any order, with any dates.                              *)
THEOREM NobodyIsLost == Spec => []CurrentUnlessTorn
  <1>1. NobodyLost => CurrentUnlessTorn
    BY DEF NobodyLost
  <1> QED
    BY <1>1, LostInit, LostKept, Invariance, PTL DEF Spec

-----------------------------------------------------------------------------
LEMMA LeastNumber ==
    ASSUME NEW S \in SUBSET Nat, S # {}
    PROVE  \E x \in S : \A y \in S : x <= y
  <1> DEFINE R == OpToRel(<, Nat)
  <1>1. IsWellFoundedOn(R, Nat)
    BY NatLessThanWellFounded, Zenon
  <1>2. \A x, y \in Nat : y < x => <<y, x>> \in R
    BY DEF OpToRel
  <1> HIDE DEF R
  <1>3. PICK x \in S : \A y \in S : ~ (<<y, x>> \in R)
    BY <1>1, WFMin
  <1>4. \A y \in S : ~(y < x)
    BY <1>2, <1>3
  <1> QED
    BY <1>4

(* The seed gives every person one row: the first order there is, or the   *)
(* beginning of time.                                                      *)
LEMMA FirstOrderExists ==
    ASSUME NEW u
    PROVE  \E first \in FirstOrders(u) : FirstOrders(u) = {first}
  <1>1. CASE OrdersOf(u) = {}
    BY <1>1 DEF FirstOrders
  <1>2. CASE OrdersOf(u) # {}
    <2> DEFINE Times == {o.purchased : o \in OrdersOf(u)}
    <2>1. OrdersOf(u) \subseteq SilverOrders
      BY DEF OrdersOf, OrdersOfRecord
    <2>2. Times \in SUBSET Nat /\ Times # {}
      BY <1>2, <2>1, SilverTypes
    <2>3. PICK t \in Times : \A y \in Times : t <= y
      BY <2>2, LeastNumber
    <2>4. \A x \in OrdersOf(u) :
            (\A y \in OrdersOf(u) : x.purchased <= y.purchased) <=> x.purchased = t
      BY <2>2, <2>3
    <2>5. FirstOrders(u) = {o.purchased : o \in {x \in OrdersOf(u) : x.purchased = t}}
      BY <1>2, <2>4 DEF FirstOrders
    <2>6. PICK x \in OrdersOf(u) : x.purchased = t
      BY <2>3
    <2>7. FirstOrders(u) = {t}
      BY <2>5, <2>6
    <2> QED
      BY <2>7
  <1> QED
    BY <1>1, <1>2

(* What the seed leaves in an empty table.                                 *)
LEMMA SeededRows ==
    ASSUME TypeOK, NEW r \in Runs, SeedDim(r), dim = {}
    PROVE  /\ commit' = commit + 1
           /\ \A v \in dim' : /\ v.uid \in People /\ v.profile = v.uid /\ v.segment \in Segments
                              /\ v.is_current /\ ~v.is_deleted /\ v.effective_to = EndOfTime
                              /\ v.effective_from \in FirstOrders(v.uid)
                              /\ v.added = commit + 1
           /\ \A u \in People : \E v \in dim' : v.uid = u
           /\ \A v, w \in dim' : v.uid = w.uid => v = w
  <1>1. PICK latest \in [People -> OrNull(Address)] :
          /\ commit' = commit + 1
          /\ dim' = UNION {{SeedVersion(u, latest[u], first, run[r].run_date, commit') :
                              first \in FirstOrders(u)} : u \in People}
    BY DEF SeedDim
  <1> DEFINE row(u, first) == SeedVersion(u, latest[u], first, run[r].run_date, commit')
  <1>2. \A v \in dim' : \E u \in People : \E first \in FirstOrders(u) : v = row(u, first)
    BY <1>1
  <1>3. \A u \in People : \A first \in FirstOrders(u) : row(u, first) \in dim'
    BY <1>1
  <1>4. \A u, first :
          /\ row(u, first).uid = u /\ row(u, first).profile = u
          /\ row(u, first).segment \in Segments
          /\ row(u, first).is_current /\ ~row(u, first).is_deleted
          /\ row(u, first).effective_from = first /\ row(u, first).effective_to = EndOfTime
          /\ row(u, first).added = commit'
    BY SegmentType DEF SeedVersion
  <1> HIDE DEF row
  <1>5. \A u \in People : \E v \in dim' : v.uid = u
    BY <1>3, <1>4, FirstOrderExists
  <1>6. ASSUME NEW v \in dim', NEW w \in dim', v.uid = w.uid
        PROVE  v = w
    <2>1. PICK u \in People : \E first \in FirstOrders(u) : v = row(u, first)
      BY <1>2
    <2>2. PICK x \in People : \E first \in FirstOrders(x) : w = row(x, first)
      BY <1>2
    <2>3. u = x
      BY <1>4, <1>6, <2>1, <2>2
    <2>4. \A f, g \in FirstOrders(u) : f = g
      BY FirstOrderExists
    <2> QED
      BY <2>1, <2>2, <2>3, <2>4
  <1>7. ASSUME NEW v \in dim'
        PROVE  /\ v.uid \in People /\ v.profile = v.uid /\ v.segment \in Segments
               /\ v.is_current /\ ~v.is_deleted /\ v.effective_to = EndOfTime
               /\ v.effective_from \in FirstOrders(v.uid)
               /\ v.added = commit'
    <2>1. PICK u \in People : \E first \in FirstOrders(u) : v = row(u, first)
      BY <1>2
    <2>2. PICK first \in FirstOrders(u) : v = row(u, first)
      BY <2>1
    <2> QED
      BY <1>4, <2>2
  <1> QED
    BY <1>1, <1>5, <1>6, <1>7

LEMMA Moved ==
    ASSUME TypeOK, NEW r \in Runs, NEW phase, GoTo(r, phase)
    PROVE  /\ \A q \in Runs : q # r => run'[q] = run[q]
           /\ \A q \in Runs : run'[q].cdc_day = run[q].cdc_day
           /\ run'[r].phase = phase
  BY DEF GoTo, TypeOK, Run

(* What the MERGE makes of a version.                                      *)
Merged(v, w, date) ==
    \/ /\ w = v
       /\ v.is_current /\ v.uid # NULL => ~ \E k \in KeysToClose(staging) : k.uid = v.uid
    \/ /\ v.is_current /\ v.uid # NULL /\ w = ClosedAt(v, date)
       /\ \E k \in KeysToClose(staging) : k.uid = v.uid

LEMMA MergedFields ==
    ASSUME NEW v \in Version, NEW w, NEW date, Merged(v, w, date)
    PROVE  /\ w.uid = v.uid /\ w.added = v.added /\ w.effective_from = v.effective_from
           /\ w.address = v.address /\ w.segment = v.segment /\ w.profile = v.profile
           /\ w.is_deleted = v.is_deleted
           /\ w # v => ~w.is_current /\ w.effective_to = date
  BY DEF Merged, ClosedAt, Version

LEMMA MergeIsImage ==
    ASSUME IndInv, NEW r \in Runs, CloseSuperseded(r)
    PROVE  /\ \A w \in dim' : \E v \in dim : Merged(v, w, run[r].run_date)
           /\ \A v \in dim : \E w \in dim' : Merged(v, w, run[r].run_date)
  <1>1. \A w \in dim' : \E v \in dim : Merged(v, w, run[r].run_date)
    BY MergedRow DEF Merged
  <1>2. ASSUME NEW v \in dim
        PROVE  \E w \in dim' : Merged(v, w, run[r].run_date)
    <2>1. dim' = Close(dim, staging) /\ Writing(r)
      BY DEF CloseSuperseded, Writing
    <2>2. CASE \A k \in KeysToClose(staging) : ~OnMerge(v, k)
      <3>1. v \in dim'
        BY <2>1, <2>2 DEF Close
      <3>2. Merged(v, v, run[r].run_date)
        BY <2>2 DEF Merged, OnMerge
      <3> QED
        BY <3>1, <3>2
    <2>3. ASSUME NEW k \in KeysToClose(staging), OnMerge(v, k)
          PROVE  \E w \in dim' : Merged(v, w, run[r].run_date)
      <3>1. ClosedAt(v, k.closed_at) \in dim'
        BY <2>1, <2>3 DEF Close
      <3>2. k.closed_at = run[r].run_date
        BY <2>1 DEF IndInv, StagingFits, KeysToClose
      <3>3. Merged(v, ClosedAt(v, run[r].run_date), run[r].run_date)
        BY <2>3 DEF Merged, OnMerge
      <3> QED
        BY <3>1, <3>2, <3>3
    <2> QED
      BY <2>2, <2>3
  <1> QED
    BY <1>1, <1>2

(* A staged change closes its key.                                         *)
LEMMA StagedKey ==
    ASSUME NEW s \in staging, s.action \in {"changed", "deleted"}
    PROVE  \E k \in KeysToClose(staging) : k.uid = s.uid
  <1>1. [uid |-> s.uid, closed_at |-> s.effective_from] \in KeysToClose(staging)
    BY DEF KeysToClose
  <1> QED
    BY <1>1

(* Of the runs, only the active one can be in a phase that writes.         *)
LEMMA OthersDoNotWrite ==
    ASSUME IndInv, NEW r \in Runs, Active(r), \A q \in Runs : q # r => run'[q] = run[q]
    PROVE  \A q \in Runs : q # r => ~Writing(q)' /\ ~ToApply(q)'
  BY DEF IndInv, OneActive, Active, Writing, ToApply

LEMMA StagedMove ==
    ASSUME TypeOK, NEW r \in Runs, StageChanges(r)
    PROVE  /\ \A q \in Runs : q # r => run'[q] = run[q]
           /\ \A q \in Runs : run'[q].cdc_day = run[q].cdc_day
           /\ run'[r].phase = NextPass({s.action : s \in staging'}, FALSE)
           /\ settled' = IF run'[r].phase = "applied" THEN run[r].cdc_day ELSE settled
           /\ \E rows \in Deduped(landing[run[r].cdc_day]) :
                 staging' = Staged(rows, dim, run[r].run_date)
  <1>1. PICK rows \in Deduped(landing[run[r].cdc_day]) :
          /\ staging' = Staged(rows, dim, run[r].run_date)
          /\ run' = [run EXCEPT ![r].phase = NextPass({s.action : s \in staging'}, FALSE),
                                ![r].actions = {s.action : s \in staging'}]
          /\ settled' = IF NextPass({s.action : s \in staging'}, FALSE) = "applied"
                        THEN run[r].cdc_day ELSE settled
    BY DEF StageChanges
  <1>2. /\ \A q \in Runs : q # r => run'[q] = run[q]
        /\ run'[r].cdc_day = run[r].cdc_day
        /\ run'[r].phase = NextPass({s.action : s \in staging'}, FALSE)
    BY <1>1 DEF TypeOK, Run
  <1> QED
    BY <1>1, <1>2

-----------------------------------------------------------------------------
(***************************************************************************)
(* Nothing is blanked: a staged row inherits profile and segment from the  *)
(* current version it joins, and a person the seed knows joins one, since  *)
(* the change feed is read after the seed and nobody is lost.              *)
(***************************************************************************)
Everyone == \A u \in People : \E v \in dim : v.uid = u

Seeded ==
    /\ dim # {} => Everyone
    /\ \A r \in Runs : run[r].phase \in {"cdc_apply", "merge", "append"} => Everyone

StagedWhole ==
    \A r \in Runs : Writing(r) =>
        \A s \in staging : s.action # "unchanged" /\ s.uid \in People \ torn =>
            s.profile = s.uid /\ s.segment # NULL

WholeInv == Seeded /\ StagedWhole /\ NothingBlanked

(* A step of one run that leaves the tables alone and starts no pass.      *)
LEMMA QuietKeepsWhole ==
    ASSUME WholeInv, NEW r \in Runs, UNCHANGED <<dim, staging>>, torn \subseteq torn',
           \A q \in Runs : q # r => run'[q] = run[q],
           ~Writing(r)', run'[r].phase = "cdc_apply" => Everyone
    PROVE  WholeInv'
  <1>1. Seeded'
    BY DEF WholeInv, Seeded, Everyone, Writing
  <1>2. StagedWhole'
    BY DEF WholeInv, StagedWhole, Writing
  <1>3. NothingBlanked'
    BY DEF WholeInv, NothingBlanked
  <1> QED
    BY <1>1, <1>2, <1>3 DEF WholeInv

LEMMA SeedKeepsWhole ==
    ASSUME IndInv, WholeInv, NEW r \in Runs, SeedDim(r)
    PROVE  WholeInv'
  <1>1. /\ UNCHANGED <<staging, torn>> /\ run[r].phase = "gold_dims" /\ Active(r)
        /\ GoTo(r, "cdc_apply")
    BY DEF SeedDim, history, Active
  <1>2. /\ \A q \in Runs : q # r => run'[q] = run[q]
        /\ run'[r].phase = "cdc_apply"
    BY <1>1, Moved DEF IndInv
  <1>3. CASE dim # {}
    <2>1. Everyone /\ dim' = dim
      BY <1>3 DEF SeedDim, WholeInv, Seeded
    <2> QED
      BY <1>1, <1>2, <2>1, QuietKeepsWhole DEF Writing
  <1>4. CASE dim = {}
    <2>1. /\ \A v \in dim' : v.uid \in People /\ v.profile = v.uid /\ v.segment \in Segments
          /\ \A u \in People : \E v \in dim' : v.uid = u
      BY <1>4, SeededRows DEF IndInv
    <2>2. Seeded'
      BY <2>1 DEF Seeded, Everyone
    <2>3. StagedWhole'
      BY <1>1, <1>2 DEF WholeInv, StagedWhole, Writing
    <2>4. NothingBlanked'
      BY <2>1, NullIsNotData DEF NothingBlanked
    <2> QED
      BY <2>2, <2>3, <2>4 DEF WholeInv
  <1> QED
    BY <1>3, <1>4

LEMMA StageKeepsWhole ==
    ASSUME IndInv, NobodyLost, WholeInv, NEW r \in Runs, StageChanges(r)
    PROVE  WholeInv'
  <1>1. /\ Active(r) /\ run[r].phase = "cdc_apply"
        /\ UNCHANGED <<dim, torn>>
    BY DEF StageChanges, Active
  <1>2. /\ \A q \in Runs : q # r => run'[q] = run[q]
        /\ \E rows \in Deduped(landing[run[r].cdc_day]) :
              staging' = Staged(rows, dim, run[r].run_date)
    BY StagedMove DEF IndInv
  <1>3. Seeded'
    <2>1. Everyone
      BY <1>1 DEF WholeInv, Seeded
    <2> QED
      BY <1>1, <2>1 DEF Seeded, Everyone
  <1>4. ASSUME NEW s \in staging', s.uid \in People \ torn
        PROVE  s.profile = s.uid /\ s.segment # NULL
    <2>1. PICK rows \in Deduped(landing[run[r].cdc_day]) :
            staging' = Staged(rows, dim, run[r].run_date)
      BY <1>2
    <2>2. PICK q \in rows : \E c \in LeftJoin(q.uid, dim), k \in LeftJoin(q.uid, dim) :
            s = StagedFrom(q, c, k, run[r].run_date)
      BY <2>1 DEF Staged
    <2>3. PICK c \in LeftJoin(q.uid, dim) :
            s.uid = q.uid /\ s.profile = c.profile /\ s.segment = c.segment
      BY <2>2 DEF StagedFrom, Resolve
    <2>4. q.uid \in People /\ q.uid \notin torn /\ q.uid # NULL
      BY <1>4, <2>3, NullIsNotData, SilverTypes DEF People
    <2>5. PICK v \in dim : v.uid = q.uid
      BY <1>1, <2>4 DEF WholeInv, Seeded, Everyone
    <2>6. ~BetweenPasses(v.uid)
      BY <1>1, NobodyBetweenPasses
    <2>7. \E w \in Current(dim) : w.uid = v.uid
      BY <2>4, <2>5, <2>6 DEF NobodyLost, CurrentUnlessTorn
    <2>8. c \in dim /\ c.uid = q.uid
      BY <2>4, <2>5, <2>7 DEF LeftJoin, Matches, Current
    <2> QED
      BY <2>3, <2>4, <2>8 DEF WholeInv, NothingBlanked
  <1>5. StagedWhole'
    <2>1. \A q \in Runs : q # r => ~Writing(q)'
      BY <1>1, <1>2, OthersDoNotWrite
    <2> QED
      BY <1>1, <1>4, <2>1 DEF StagedWhole
  <1>6. NothingBlanked'
    BY <1>1 DEF WholeInv, NothingBlanked
  <1> QED
    BY <1>3, <1>5, <1>6 DEF WholeInv

LEMMA CloseKeepsWhole ==
    ASSUME IndInv, WholeInv, NEW r \in Runs, CloseSuperseded(r)
    PROVE  WholeInv'
  <1>1. /\ Active(r) /\ Writing(r) /\ run[r].phase = "merge"
        /\ UNCHANGED <<staging, torn>>
        /\ dim' = Close(dim, staging)
        /\ GoTo(r, NextPass(run[r].actions, TRUE))
    BY DEF CloseSuperseded, Active, Writing
  <1>2. \A q \in Runs : q # r => run'[q] = run[q]
    BY <1>1, Moved DEF IndInv
  <1>3. \A w \in dim' : \E v \in dim :
          w.uid = v.uid /\ w.profile = v.profile /\ w.segment = v.segment
    <2>1. \A v \in dim, t \in Nat :
            /\ ClosedAt(v, t).uid = v.uid
            /\ ClosedAt(v, t).profile = v.profile
            /\ ClosedAt(v, t).segment = v.segment
      BY DEF ClosedAt, IndInv, TypeOK, Version
    <2>2. \A k \in KeysToClose(staging) : k.closed_at \in Nat
      BY KeysToCloseType DEF IndInv, TypeOK
    <2> QED
      BY <1>1, <2>1, <2>2, CloseRow
  <1>4. \A v \in dim : \E w \in dim' : w.uid = v.uid
    <2> SUFFICES ASSUME NEW v \in dim
                 PROVE  \E w \in dim' : w.uid = v.uid
      OBVIOUS
    <2>1. CASE \A k \in KeysToClose(staging) : ~OnMerge(v, k)
      BY <1>1, <2>1 DEF Close
    <2>2. ASSUME NEW k \in KeysToClose(staging), OnMerge(v, k)
          PROVE  \E w \in dim' : w.uid = v.uid
      <3>1. ClosedAt(v, k.closed_at) \in dim'
        BY <1>1, <2>2 DEF Close
      <3> QED
        BY <3>1 DEF ClosedAt, IndInv, TypeOK, Version
    <2> QED
      BY <2>1, <2>2
  <1>5. Seeded'
    <2>1. Everyone
      BY <1>1 DEF WholeInv, Seeded
    <2> QED
      BY <1>4, <2>1 DEF Seeded, Everyone
  <1>6. StagedWhole'
    <2>1. \A q \in Runs : Writing(q)' => q = r
      BY <1>1, <1>2, OthersDoNotWrite
    <2> QED
      BY <1>1, <2>1 DEF WholeInv, StagedWhole
  <1>7. NothingBlanked'
    BY <1>1, <1>3 DEF WholeInv, NothingBlanked
  <1> QED
    BY <1>5, <1>6, <1>7 DEF WholeInv

LEMMA AppendKeepsWhole ==
    ASSUME IndInv, WholeInv, NEW r \in Runs, AppendVersions(r)
    PROVE  WholeInv'
  <1>1. /\ Active(r) /\ Writing(r) /\ run[r].phase = "append"
        /\ UNCHANGED <<staging, torn>>
        /\ dim' = dim \cup NewVersions(staging, commit')
        /\ GoTo(r, "applied")
    BY DEF AppendVersions, Active, Writing
  <1>2. \A q \in Runs : ~Writing(q)'
    <2>1. \A q \in Runs : q # r => run'[q] = run[q]
      BY <1>1, Moved DEF IndInv
    <2>2. run'[r].phase = "applied"
      BY <1>1, Moved DEF IndInv
    <2> QED
      BY <1>1, <2>1, <2>2, OthersDoNotWrite DEF Writing
  <1>3. Seeded'
    <2>1. Everyone
      BY <1>1 DEF WholeInv, Seeded
    <2> QED
      BY <1>1, <2>1 DEF Seeded, Everyone
  <1>4. StagedWhole'
    BY <1>2 DEF StagedWhole
  <1>5. NothingBlanked'
    <2> SUFFICES ASSUME NEW n \in NewVersions(staging, commit'), n.uid \in People \ torn
                 PROVE  n.profile = n.uid /\ n.segment # NULL
      BY <1>1 DEF WholeInv, NothingBlanked
    <2>1. PICK s \in staging : s.action # "unchanged" /\ n = NewVersion(s, commit')
      BY DEF NewVersions
    <2>2. n.uid = s.uid /\ n.profile = s.profile /\ n.segment = s.segment
      BY <2>1 DEF NewVersion
    <2> QED
      BY <1>1, <2>1, <2>2 DEF WholeInv, StagedWhole
  <1> QED
    BY <1>3, <1>4, <1>5 DEF WholeInv

LEMMA WholeKept == IndInv /\ NobodyLost /\ WholeInv /\ [Next]_vars => WholeInv'
  <1> SUFFICES ASSUME IndInv, NobodyLost, WholeInv, [Next]_vars
               PROVE  WholeInv'
    OBVIOUS
  <1>1. ASSUME NEW r \in Runs, NEW date \in Dates, NEW day \in Days \cup {0},
               Start(r, date, day)
        PROVE  WholeInv'
    <2>1. /\ \A q \in Runs : q # r => run'[q] = run[q]
          /\ run'[r].phase = "gold_dims"
      BY <1>1 DEF Start, IndInv, TypeOK, Run
    <2> QED
      BY <1>1, <2>1, QuietKeepsWhole DEF Start, tables, Writing
  <1>2. ASSUME NEW r \in Runs, SeedDim(r)
        PROVE  WholeInv'
    BY <1>2, SeedKeepsWhole
  <1>3. ASSUME NEW r \in Runs, StageChanges(r)
        PROVE  WholeInv'
    BY <1>3, StageKeepsWhole
  <1>4. ASSUME NEW r \in Runs, CloseSuperseded(r)
        PROVE  WholeInv'
    BY <1>4, CloseKeepsWhole
  <1>5. ASSUME NEW r \in Runs, AppendVersions(r)
        PROVE  WholeInv'
    BY <1>5, AppendKeepsWhole
  <1>6. ASSUME NEW r \in Runs, SkipCdc(r) \/ Finish(r) \/ Fail(r)
        PROVE  WholeInv'
    <2>1. \E phase \in {"applied", "succeeded", "failed"} :
            /\ GoTo(r, phase)
            /\ UNCHANGED <<dim, staging>> /\ torn \subseteq torn'
      BY <1>6 DEF SkipCdc, Finish, Fail, tables, history
    <2>2. /\ \A q \in Runs : q # r => run'[q] = run[q]
          /\ run'[r].phase \in {"applied", "succeeded", "failed"}
      BY <2>1, Moved DEF IndInv
    <2> QED
      BY <2>1, <2>2, QuietKeepsWhole DEF Writing
  <1>7. CASE UNCHANGED vars
    BY <1>7 DEF vars, tables, history, WholeInv, Seeded, Everyone, StagedWhole, NothingBlanked,
                Writing
  <1> QED
    BY <1>1, <1>2, <1>3, <1>4, <1>5, <1>6, <1>7 DEF Next, Apply, Rest

(* Carry-forward: a version of a person known to silver keeps that         *)
(* person's profile and a segment through every sequence of changes,       *)
(* deletions, returns and retries; only a torn key can lose them.          *)
THEOREM NothingIsBlanked == Spec => []NothingBlanked
  <1>1. Init => WholeInv
    BY DEF Init, WholeInv, Seeded, StagedWhole, Writing, NothingBlanked
  <1>2. WholeInv => NothingBlanked
    BY DEF WholeInv
  <1> QED
    BY <1>1, <1>2, WholeKept, LostInit, LostKept, Invariance, PTL DEF Spec

-----------------------------------------------------------------------------
(***************************************************************************)
(* A file is reflected.  Between the staging of a file and the append, a   *)
(* row that decides its key has been staged as what will reflect it, or it *)
(* is reflected already and its key is left alone.                         *)
(***************************************************************************)
Decides(q, file) == Wins(q, file) /\ q.uid # NULL

Reflected(q) ==
    IF q.op = "D" THEN Live(q.uid) = {}
    ELSE \E v \in Current(dim) : v.uid = q.uid /\ v.address = Coalesce(q.address, v.address)

WillReflect(s, q) ==
    /\ s.uid = q.uid
    /\ \/ s.action = "unchanged" /\ Reflected(q)
       \/ s.action = "deleted" /\ q.op = "D"
       \/ s.action \in {"new", "changed"} /\ q.op # "D"
                                          /\ s.address = Coalesce(q.address, s.address)

StagingReflects ==
    \A r \in Runs : Writing(r) =>
        \A q \in landing[run[r].cdc_day] : Decides(q, landing[run[r].cdc_day]) =>
            \E s \in staging : WillReflect(s, q)

SettledAfterSeed == settled # 0 => Everyone

ReflectInv == StagingReflects /\ FileIsReflected /\ SettledAfterSeed

(* A row classified as unchanged is reflected by what it was joined to,    *)
(* and the other way round: the hash tells what Coalesce would change.     *)
LEMMA UnchangedIffReflected ==
    ASSUME IndInv, NEW q \in ChangeRow, q.uid # NULL,
           NEW c \in LeftJoin(q.uid, dim), NEW k \in LeftJoin(q.uid, dim)
    PROVE  Classify(q.op, Resolve(q, c), k) = "unchanged" <=> Reflected(q)
  <1>1. c = k
    BY JoinIsSingle DEF IndInv
  <1>2. \A v \in Current(dim) : v.uid = q.uid => v = k
    BY DEF IndInv, AtMostOneCurrent, LeftJoin, Matches, Current
  <1>3. k.uid # NULL => k \in Current(dim) /\ k.uid = q.uid
    BY DEF LeftJoin, Matches, NoMatch
  <1>4. k.uid = NULL => ~ \E v \in Current(dim) : v.uid = q.uid
    BY DEF LeftJoin, Matches, NoMatch
  <1>5. CASE q.op = "D"
    <2>1. Classify(q.op, Resolve(q, c), k) = "unchanged" <=> ~(k.uid # NULL /\ ~k.is_deleted)
      BY <1>5 DEF Classify
    <2>2. Live(q.uid) = {} <=> ~(k.uid # NULL /\ ~k.is_deleted)
      BY <1>2, <1>3, <1>4 DEF Live
    <2> QED
      BY <1>5, <2>1, <2>2 DEF Reflected
  <1>6. CASE q.op # "D" /\ k.uid = NULL
    BY <1>4, <1>6 DEF Classify, Reflected
  <1>7. CASE q.op # "D" /\ k.uid # NULL
    <2> DEFINE address == Coalesce(q.address, k.address)
    <2>1. /\ Resolve(q, c).address = address /\ Resolve(q, c).segment = k.segment
      BY <1>1 DEF Resolve
    <2>2. RowHash(Resolve(q, c)) = RowHash(k) <=> Text(address) = Text(k.address)
      <3>1. RowHash(Resolve(q, c)) = <<Text(address), Text(k.segment)>>
        BY <2>1 DEF RowHash
      <3>2. RowHash(k) = <<Text(k.address), Text(k.segment)>>
        BY DEF RowHash
      <3> HIDE DEF address
      <3> QED
        BY <3>1, <3>2
    <2>3. address \in OrNull(Address) /\ k.address \in OrNull(Address)
      <3>1. k \in Version
        BY <1>3, <1>7 DEF IndInv, TypeOK, Current
      <3> QED
        BY <3>1 DEF Version, ChangeRow, Coalesce
    <2>4. Text(address) = Text(k.address) <=> address = k.address
      <3> HIDE DEF address
      <3> QED
        BY <2>3, NullTextIsNotData DEF Text, OrNull
    <2>5. Classify(q.op, Resolve(q, c), k) = "unchanged" <=> address = k.address
      BY <1>7, <2>2, <2>4 DEF Classify
    <2>6. Reflected(q) <=> address = k.address
      BY <1>2, <1>3, <1>7 DEF Reflected
    <2> QED
      BY <2>5, <2>6
  <1> QED
    BY <1>5, <1>6, <1>7

(* What StageChanges writes for the row that decides its key.              *)
LEMMA DecidingRowIsStaged ==
    ASSUME IndInv, NEW file \in SUBSET ChangeRow, NEW rows \in Deduped(file), NEW date,
           NEW q \in file, Decides(q, file)
    PROVE  /\ q \in rows
           /\ \E s \in Staged(rows, dim, date) : WillReflect(s, q)
  <1>1. q \in rows
    <2>1. PICK w \in rows : w.uid = q.uid
      BY DEF Deduped
    <2>2. w \in file /\ q.updated_at <= w.updated_at
      BY <2>1 DEF Deduped, LatestRows
    <2>3. q.updated_at \in Nat /\ w.updated_at \in Nat
      BY <2>2 DEF ChangeRow
    <2>4. w # q => w.updated_at < q.updated_at
      BY <2>1, <2>2 DEF Decides, Wins
    <2> QED
      BY <2>1, <2>2, <2>3, <2>4
  <1>2. PICK c \in LeftJoin(q.uid, dim) : TRUE
    BY DEF LeftJoin
  <1> DEFINE s == StagedFrom(q, c, c, date)
  <1>3. s \in Staged(rows, dim, date)
    BY <1>1 DEF Staged
  <1>4. /\ s.uid = q.uid
        /\ s.action = Classify(q.op, Resolve(q, c), c)
        /\ s.address = Coalesce(q.address, c.address)
    BY DEF StagedFrom, Resolve
  <1> HIDE DEF s
  <1>5. s.action = "unchanged" => Reflected(q)
    BY <1>4, UnchangedIffReflected DEF Decides
  <1>6. IF q.op = "D" THEN s.action \in {"deleted", "unchanged"}
        ELSE s.action \in {"new", "changed", "unchanged"}
    BY <1>4 DEF Classify
  <1>7. s.address = Coalesce(q.address, s.address)
    BY <1>4 DEF Coalesce
  <1>8. WillReflect(s, q)
    BY <1>4, <1>5, <1>6, <1>7 DEF WillReflect
  <1> QED
    BY <1>1, <1>3, <1>8

LEMMA StageReflects ==
    ASSUME IndInv, WholeInv, ReflectInv, NEW r \in Runs, StageChanges(r)
    PROVE  ReflectInv'
  <1> DEFINE file == landing[run[r].cdc_day]
  <1>1. /\ Active(r) /\ UNCHANGED <<landing, dim>> /\ run[r].cdc_day \in Days
    BY DEF StageChanges, Active, IndInv, TypeOK, Run
  <1>2. /\ \A q \in Runs : q # r => run'[q] = run[q]
        /\ run'[r].cdc_day = run[r].cdc_day
        /\ run'[r].phase = NextPass({s.action : s \in staging'}, FALSE)
        /\ settled' = IF run'[r].phase = "applied" THEN run[r].cdc_day ELSE settled
    BY StagedMove DEF IndInv
  <1>3. ASSUME NEW q \in file, Decides(q, file)
        PROVE  \E s \in staging' : WillReflect(s, q)
    <2>1. PICK rows \in Deduped(file) : staging' = Staged(rows, dim, run[r].run_date)
      BY StagedMove DEF IndInv
    <2>2. file \in SUBSET ChangeRow
      BY <1>1, FilesAreRows DEF IndInv, TypeOK
    <2> QED
      BY <1>3, <2>1, <2>2, DecidingRowIsStaged
  <1>4. \A q, s : (Reflected(q) => Reflected(q)') /\ (WillReflect(s, q) => WillReflect(s, q)')
    BY <1>1 DEF Reflected, WillReflect, Live, Current
  <1>5. StagingReflects'
    <2>1. \A q \in Runs : Writing(q)' => q = r
      BY <1>1, <1>2, OthersDoNotWrite
    <2> SUFFICES ASSUME NEW q \in file, Decides(q, file)
                 PROVE  \E s \in staging' : WillReflect(s, q)'
      BY <1>1, <1>2, <2>1 DEF StagingReflects, Decides, Wins
    <2>2. PICK s \in staging' : WillReflect(s, q)
      BY <1>3
    <2>3. WillReflect(s, q)'
      BY <1>4, <2>2
    <2> QED
      BY <2>3
  <1>6. FileIsReflected'
    <2>1. CASE run'[r].phase = "applied"
      <3>1. \A s \in staging' : s.action \notin {"new", "changed", "deleted"}
        BY <1>2, <2>1 DEF NextPass
      <3>2. \A q \in file : Decides(q, file) => Reflected(q)'
        BY <1>3, <1>4, <3>1 DEF WillReflect
      <3> QED
        BY <1>1, <1>2, <2>1, <3>2 DEF FileIsReflected, Decides, Reflected, Wins
    <2>2. CASE run'[r].phase # "applied"
      BY <1>1, <1>2, <2>2 DEF ReflectInv, FileIsReflected, Live, Current
    <2> QED
      BY <2>1, <2>2
  <1>7. SettledAfterSeed'
    <2>1. Everyone
      BY DEF StageChanges, WholeInv, Seeded
    <2> QED
      BY <1>1, <2>1 DEF SettledAfterSeed, Everyone
  <1> QED
    BY <1>5, <1>6, <1>7 DEF ReflectInv

(* The MERGE leaves the keys alone that are staged as unchanged.           *)
LEMMA CloseReflects ==
    ASSUME IndInv, ReflectInv, NEW r \in Runs, CloseSuperseded(r)
    PROVE  ReflectInv'
  <1>1. /\ Active(r) /\ Writing(r) /\ run[r].phase = "merge" /\ settled' = 0
        /\ UNCHANGED <<landing, staging>>
        /\ dim' = Close(dim, staging)
        /\ GoTo(r, NextPass(run[r].actions, TRUE))
    BY DEF CloseSuperseded, Active, Writing
  <1>2. /\ \A q \in Runs : q # r => run'[q] = run[q]
        /\ \A q \in Runs : run'[q].cdc_day = run[q].cdc_day
    BY <1>1, Moved DEF IndInv
  <1>3. ASSUME NEW s \in staging, NEW q, WillReflect(s, q)
        PROVE  WillReflect(s, q)'
    <2>1. CASE s.action # "unchanged"
      BY <1>3, <2>1 DEF WillReflect
    <2>2. CASE s.action = "unchanged"
      <3>1. s.uid = q.uid /\ Reflected(q)
        BY <1>3, <2>2 DEF WillReflect
      <3>2. \A k \in KeysToClose(staging) : k.uid # q.uid
        BY <1>1, <2>2, <3>1 DEF IndInv, StagingFits, OneRowPerKey, KeysToClose
      <3>3. \A v \in dim : v.uid = q.uid => v \in dim'
        BY <1>1, <3>2 DEF Close, OnMerge
      <3>4. \A w \in dim' : w.is_current => w \in dim
        <4>1. \A v \in dim, t \in Nat : ~ClosedAt(v, t).is_current
          BY DEF ClosedAt, IndInv, TypeOK, Version
        <4>2. \A k \in KeysToClose(staging) : k.closed_at \in Nat
          BY KeysToCloseType DEF IndInv, TypeOK
        <4> QED
          BY <1>1, <4>1, <4>2, CloseRow
      <3>5. Reflected(q)'
        BY <3>1, <3>3, <3>4 DEF Reflected, Live, Current
      <3> QED
        BY <2>2, <3>1, <3>5 DEF WillReflect
    <2> QED
      BY <2>1, <2>2
  <1>4. StagingReflects'
    <2>1. \A q \in Runs : Writing(q)' => q = r
      BY <1>1, <1>2, OthersDoNotWrite
    <2> SUFFICES ASSUME NEW q \in landing[run[r].cdc_day], Decides(q, landing[run[r].cdc_day])
                 PROVE  \E s \in staging : WillReflect(s, q)'
      BY <1>1, <1>2, <2>1 DEF StagingReflects, Decides, Wins
    <2>2. PICK s \in staging : WillReflect(s, q)
      BY <1>1 DEF ReflectInv, StagingReflects
    <2>3. WillReflect(s, q)'
      BY <1>3, <2>2
    <2> QED
      BY <2>3
  <1> QED
    BY <1>1, <1>4 DEF ReflectInv, FileIsReflected, SettledAfterSeed

(* The append completes what was staged.                                   *)
LEMMA AppendReflects ==
    ASSUME IndInv, WholeInv, ReflectInv, NEW r \in Runs, AppendVersions(r)
    PROVE  ReflectInv'
  <1> DEFINE file == landing[run[r].cdc_day]
  <1>1. /\ Active(r) /\ Writing(r) /\ run[r].phase = "append" /\ settled' = run[r].cdc_day
        /\ UNCHANGED <<landing, staging>>
        /\ dim' = dim \cup NewVersions(staging, commit')
        /\ GoTo(r, "applied")
    BY DEF AppendVersions, Active, Writing
  <1>2. \A q \in Runs : ~Writing(q)'
    <2>1. \A q \in Runs : q # r => run'[q] = run[q]
      BY <1>1, Moved DEF IndInv
    <2>2. run'[r].phase = "applied"
      BY <1>1, Moved DEF IndInv
    <2> QED
      BY <1>1, <2>1, <2>2, OthersDoNotWrite DEF Writing
  <1>3. ASSUME NEW s \in staging, NEW q, q.uid # NULL, WillReflect(s, q)
        PROVE  Reflected(q)'
    <2>1. \A n \in NewVersions(staging, commit') :
            n.uid = q.uid => s.action # "unchanged" /\ n = NewVersion(s, commit')
      BY <1>1, <1>3 DEF WillReflect, NewVersions, NewVersion, IndInv, StagingFits, OneRowPerKey
    <2>2. CASE s.action = "unchanged"
      BY <1>1, <1>3, <2>1, <2>2 DEF WillReflect, Reflected, Live, Current
    <2>3. CASE s.action = "deleted" /\ q.op = "D"
      <3>1. \A v \in dim : v.is_current => v.uid # q.uid
        BY <1>1, <1>3, <2>3 DEF WillReflect, IndInv, StagingFits
      <3>2. NewVersion(s, commit').is_deleted
        BY <2>3 DEF NewVersion
      <3>3. \A v \in dim' : v.uid = q.uid /\ v.is_current => v.is_deleted
        BY <1>1, <2>1, <3>1, <3>2
      <3> QED
        BY <2>3, <3>3 DEF Reflected, Live, Current
    <2>4. CASE /\ s.action \in {"new", "changed"} /\ q.op # "D"
               /\ s.address = Coalesce(q.address, s.address)
      <3>1. NewVersion(s, commit') \in dim'
        BY <1>1, <2>4 DEF NewVersions
      <3>2. /\ NewVersion(s, commit').is_current
            /\ NewVersion(s, commit').uid = q.uid
            /\ NewVersion(s, commit').address = s.address
        BY <1>3 DEF NewVersion, WillReflect
      <3> QED
        BY <2>4, <3>1, <3>2 DEF Reflected, Current
    <2> QED
      BY <1>3, <2>2, <2>3, <2>4 DEF WillReflect
  <1>4. FileIsReflected'
    <2>1. \A q \in file : Decides(q, file) => Reflected(q)'
      BY <1>1, <1>3 DEF ReflectInv, StagingReflects, Decides
    <2> QED
      BY <1>1, <2>1 DEF FileIsReflected, Decides, Reflected, Wins
  <1>5. StagingReflects'
    BY <1>2 DEF StagingReflects
  <1>6. SettledAfterSeed'
    <2>1. Everyone
      BY <1>1 DEF WholeInv, Seeded
    <2> QED
      BY <1>1, <2>1 DEF SettledAfterSeed, Everyone
  <1> QED
    BY <1>4, <1>5, <1>6 DEF ReflectInv

(* A step that leaves the tables as they are and starts no pass.           *)
LEMMA QuietKeepsReflected ==
    ASSUME ReflectInv, NEW r \in Runs, UNCHANGED <<tables, settled>>,
           \A q \in Runs : q # r => run'[q] = run[q], ~Writing(r)'
    PROVE  ReflectInv'
  <1>1. FileIsReflected'
    BY DEF tables, ReflectInv, FileIsReflected, Live, Current
  <1>2. StagingReflects'
    BY DEF tables, ReflectInv, StagingReflects, Writing, Decides, WillReflect, Reflected, Live,
           Current, Wins
  <1>3. SettledAfterSeed'
    BY DEF tables, ReflectInv, SettledAfterSeed, Everyone
  <1> QED
    BY <1>1, <1>2, <1>3 DEF ReflectInv

(* The seed fills an empty table.  A file was applied to one only if the   *)
(* seed knows nobody, and then it leaves the table empty.                  *)
LEMMA SeedReflects ==
    ASSUME IndInv, ReflectInv, NEW r \in Runs, SeedDim(r)
    PROVE  ReflectInv'
  <1>1. /\ UNCHANGED <<landing, staging, settled>> /\ run[r].phase = "gold_dims" /\ Active(r)
        /\ GoTo(r, "cdc_apply")
    BY DEF SeedDim, history, Active
  <1>2. /\ \A q \in Runs : q # r => run'[q] = run[q]
        /\ ~Writing(r)'
    BY <1>1, Moved DEF IndInv, Writing
  <1>3. CASE dim # {}
    <2>1. UNCHANGED tables
      BY <1>1, <1>3 DEF SeedDim, tables
    <2> QED
      BY <1>1, <1>2, <2>1, QuietKeepsReflected
  <1>4. CASE dim = {}
    <2>1. /\ \A v \in dim' : v.uid \in People
          /\ \A u \in People : \E v \in dim' : v.uid = u
      BY <1>4, SeededRows DEF IndInv
    <2>2. settled # 0 => dim' = dim
      BY <1>4, <2>1 DEF ReflectInv, SettledAfterSeed, Everyone
    <2>3. FileIsReflected'
      BY <1>1, <2>2 DEF ReflectInv, FileIsReflected, Live, Current
    <2>4. StagingReflects'
      BY <1>1, <1>2, OthersDoNotWrite DEF StagingReflects
    <2>5. SettledAfterSeed'
      BY <2>1 DEF SettledAfterSeed, Everyone
    <2> QED
      BY <2>3, <2>4, <2>5 DEF ReflectInv
  <1> QED
    BY <1>3, <1>4

LEMMA ReflectKept == IndInv /\ WholeInv /\ ReflectInv /\ [Next]_vars => ReflectInv'
  <1> SUFFICES ASSUME IndInv, WholeInv, ReflectInv, [Next]_vars
               PROVE  ReflectInv'
    OBVIOUS
  <1>1. ASSUME NEW r \in Runs, NEW date \in Dates, NEW day \in Days \cup {0},
               Start(r, date, day)
        PROVE  ReflectInv'
    <2>1. /\ \A q \in Runs : q # r => run'[q] = run[q]
          /\ run'[r].phase = "gold_dims"
      BY <1>1 DEF Start, IndInv, TypeOK, Run
    <2> QED
      BY <1>1, <2>1, QuietKeepsReflected DEF Start, Writing
  <1>2. ASSUME NEW r \in Runs, SeedDim(r)
        PROVE  ReflectInv'
    BY <1>2, SeedReflects
  <1>3. ASSUME NEW r \in Runs, StageChanges(r)
        PROVE  ReflectInv'
    BY <1>3, StageReflects
  <1>4. ASSUME NEW r \in Runs, CloseSuperseded(r)
        PROVE  ReflectInv'
    BY <1>4, CloseReflects
  <1>5. ASSUME NEW r \in Runs, AppendVersions(r)
        PROVE  ReflectInv'
    BY <1>5, AppendReflects
  <1>6. ASSUME NEW r \in Runs, SkipCdc(r) \/ Finish(r) \/ Fail(r)
        PROVE  ReflectInv'
    <2>1. \E phase \in {"applied", "succeeded", "failed"} :
            GoTo(r, phase) /\ UNCHANGED <<tables, settled>>
      BY <1>6 DEF SkipCdc, Finish, Fail, history
    <2>2. /\ \A q \in Runs : q # r => run'[q] = run[q]
          /\ run'[r].phase \in {"applied", "succeeded", "failed"}
      BY <2>1, Moved DEF IndInv
    <2> QED
      BY <2>1, <2>2, QuietKeepsReflected DEF Writing
  <1>7. CASE UNCHANGED vars
    <2>1. StagingReflects'
      BY <1>7 DEF vars, tables, history, ReflectInv, StagingReflects, Writing, Decides,
                  WillReflect, Reflected, Live, Current, Wins
    <2>2. FileIsReflected' /\ SettledAfterSeed'
      BY <1>7 DEF vars, tables, history, ReflectInv, FileIsReflected, SettledAfterSeed, Live,
                  Current, Everyone
    <2> QED
      BY <2>1, <2>2 DEF ReflectInv
  <1> QED
    BY <1>1, <1>2, <1>3, <1>4, <1>5, <1>6, <1>7 DEF Next, Apply, Rest

LEMMA FeedInvariance == Spec => [](IndInv /\ WholeInv /\ ReflectInv)
  <1>1. Init => WholeInv
    BY DEF Init, WholeInv, Seeded, StagedWhole, Writing, NothingBlanked
  <1>2. Init => ReflectInv
    BY DEF Init, ReflectInv, StagingReflects, Writing, FileIsReflected, SettledAfterSeed
  <1> QED
    BY <1>1, <1>2, WholeKept, ReflectKept, LostInit, LostKept, Invariance, PTL DEF Spec

(* Once a file is applied, each row of it that decides its key is in the   *)
(* dimension: a deleted person has no live version, any other's current    *)
(* version has the address the row carries.                                *)
THEOREM FilesAreReflected == Spec => []FileIsReflected
  <1>1. ReflectInv => FileIsReflected
    BY DEF ReflectInv
  <1> QED
    BY <1>1, FeedInvariance, PTL

(* What the file that was applied last asks is in the dimension, so        *)
(* staging it again calls a row that decides its key unchanged.            *)
LEMMA StagedAgain ==
    ASSUME IndInv, ReflectInv, settled # 0, NEW date, NEW rows \in Deduped(landing[settled]),
           NEW s \in Staged(rows, dim, date), s.uid # NULL,
           NEW q \in rows, q.uid = s.uid, Wins(q, landing[settled])
    PROVE  s.action = "unchanged"
  <1>1. landing[settled] \in SUBSET ChangeRow
    BY FilesAreRows DEF IndInv, TypeOK
  <1>2. PICK p \in rows : \E c \in LeftJoin(p.uid, dim), k \in LeftJoin(p.uid, dim) :
          s = StagedFrom(p, c, k, date)
    BY DEF Staged
  <1>3. p.uid = s.uid
    BY <1>2 DEF StagedFrom
  <1>4. p = q
    BY <1>1, <1>3, DedupedRows DEF OneRowPerKey
  <1>5. q \in landing[settled] /\ q \in ChangeRow
    BY <1>1 DEF Deduped, LatestRows
  <1>6. Reflected(q)
    BY <1>5 DEF ReflectInv, FileIsReflected, Reflected
  <1>7. PICK c \in LeftJoin(q.uid, dim), k \in LeftJoin(q.uid, dim) :
          s.action = Classify(q.op, Resolve(q, c), k)
    BY <1>2, <1>4 DEF StagedFrom
  <1> QED
    BY <1>5, <1>6, <1>7, UnchangedIffReflected

LEMMA ReplayNow == IndInv /\ ReflectInv => ReplayIsNoOp
  <1> SUFFICES ASSUME IndInv, ReflectInv, settled # 0,
                      NEW date \in Dates, NEW rows \in Deduped(landing[settled]),
                      NEW s \in Staged(rows, dim, date), s.uid # NULL,
                      NEW q \in rows, q.uid = s.uid, Wins(q, landing[settled])
               PROVE  s.action = "unchanged"
    BY DEF ReplayIsNoOp
  <1> QED
    BY StagedAgain

(* The no-op guarantee: applying the last file again, on any date, changes *)
(* nothing for any key that the file decides.                              *)
THEOREM ReplaysChangeNothing == Spec => []ReplayIsNoOp
  BY ReplayNow, FeedInvariance, PTL

-----------------------------------------------------------------------------
(***************************************************************************)
(* Counting versions.  The table is finite and a commit adds at most one   *)
(* version of a key, keyless ones included; so the MERGE, which closes     *)
(* versions but keeps apart what was apart, changes no count.              *)
(***************************************************************************)
AddedByCommit == \A v \in dim : v.added <= commit

OnePerCommit == \A v, w \in dim : v.uid = w.uid /\ v.added = w.added => v = w

CountInv == IsFiniteSet(dim) /\ IsFiniteSet(staging) /\ AddedByCommit /\ OnePerCommit

VersionsOf(u) == {v \in dim : v.uid = u}

(* The tables are never shorter than they were.                            *)
NoneFewer ==
    /\ Cardinality(dim) <= Cardinality(dim')
    /\ \A u : Cardinality(VersionsOf(u)) <= Cardinality(VersionsOf(u)')

LEMMA NoneFewerIn ==
    ASSUME IsFiniteSet(dim'), dim \subseteq dim'
    PROVE  NoneFewer
  <1>1. Cardinality(dim) <= Cardinality(dim')
    BY FS_Subset
  <1>2. ASSUME NEW u
        PROVE  Cardinality(VersionsOf(u)) <= Cardinality(VersionsOf(u)')
    <2>1. VersionsOf(u) \subseteq VersionsOf(u)' /\ VersionsOf(u)' \subseteq dim'
      BY DEF VersionsOf
    <2>2. IsFiniteSet(VersionsOf(u)')
      BY <2>1, FS_Subset
    <2> QED
      BY <2>1, <2>2, FS_Subset
  <1> QED
    BY <1>1, <1>2 DEF NoneFewer

LEMMA PeopleAreFinite == IsFiniteSet(People)
  <1> DEFINE uid == [c \in SilverCustomers |-> c.uid]
  <1>1. IsFiniteSet({uid[c] : c \in SilverCustomers})
    <2>1. DOMAIN uid = SilverCustomers
      OBVIOUS
    <2> HIDE DEF uid
    <2> QED
      BY <2>1, SilverIsFinite, FiniteImage
  <1>2. People = {uid[c] : c \in SilverCustomers}
    BY DEF People
  <1> QED
    BY <1>1, <1>2

LEMMA SeedCounts ==
    ASSUME IndInv, CountInv, NEW r \in Runs, SeedDim(r)
    PROVE  CountInv' /\ NoneFewer
  <1>1. UNCHANGED staging
    BY DEF SeedDim
  <1>2. CASE dim # {}
    <2>1. UNCHANGED <<dim, commit>>
      BY <1>2 DEF SeedDim
    <2>2. CountInv'
      BY <1>1, <2>1 DEF CountInv, AddedByCommit, OnePerCommit
    <2> QED
      BY <2>1, <2>2, NoneFewerIn DEF CountInv
  <1>3. CASE dim = {}
    <2>1. /\ commit' = commit + 1
          /\ \A v \in dim' : v.uid \in People /\ v.added = commit + 1
          /\ \A v, w \in dim' : v.uid = w.uid => v = w
      BY <1>3, SeededRows DEF IndInv
    <2>2. IsFiniteSet(dim')
      <3> DEFINE uid == [v \in dim' |-> v.uid]
      <3>1. uid \in Injection(dim', People)
        BY <2>1 DEF Injection, IsInjective
      <3> HIDE DEF uid
      <3> QED
        BY <3>1, PeopleAreFinite, FS_Injection
    <2>3. commit \in Nat
      BY DEF IndInv, TypeOK
    <2>4. AddedByCommit' /\ OnePerCommit'
      BY <2>1, <2>3 DEF AddedByCommit, OnePerCommit
    <2> QED
      BY <1>1, <1>3, <2>2, <2>4, NoneFewerIn DEF CountInv
  <1> QED
    BY <1>2, <1>3

LEMMA StageCounts ==
    ASSUME IndInv, CountInv, NEW r \in Runs, StageChanges(r)
    PROVE  CountInv' /\ NoneFewer
  <1>1. PICK rows \in Deduped(landing[run[r].cdc_day]) :
          staging' = Staged(rows, dim, run[r].run_date)
    BY StagedMove DEF IndInv
  <1>2. UNCHANGED <<dim, commit>>
    BY DEF StageChanges
  <1>3. IsFiniteSet(rows)
    <2>1. run[r].cdc_day \in Days
      BY DEF StageChanges, IndInv, TypeOK, Run
    <2>2. landing[run[r].cdc_day] \in ChangeFiles
      BY <2>1 DEF IndInv, TypeOK
    <2>3. rows \subseteq landing[run[r].cdc_day]
      BY <1>1 DEF Deduped, LatestRows
    <2> QED
      BY <2>2, <2>3, FilesAreFinite, FS_Subset
  <1>4. IsFiniteSet(staging')
    <2> DEFINE joined(q) == CHOOSE c : c \in LeftJoin(q.uid, dim)
               image == [q \in rows |-> StagedFrom(q, joined(q), joined(q), run[r].run_date)]
    <2>1. ASSUME NEW s \in staging'
          PROVE  s \in {image[q] : q \in rows}
      <3>1. PICK q \in rows : \E c \in LeftJoin(q.uid, dim), k \in LeftJoin(q.uid, dim) :
              s = StagedFrom(q, c, k, run[r].run_date)
        BY <1>1 DEF Staged
      <3>2. PICK c \in LeftJoin(q.uid, dim), k \in LeftJoin(q.uid, dim) :
              s = StagedFrom(q, c, k, run[r].run_date)
        BY <3>1
      <3>3. joined(q) \in LeftJoin(q.uid, dim)
        BY <3>2
      <3>4. c = joined(q) /\ k = joined(q)
        BY <3>2, <3>3, JoinIsSingle DEF IndInv
      <3> QED
        BY <3>2, <3>4
    <2>2. DOMAIN image = rows
      OBVIOUS
    <2> HIDE DEF image
    <2>3. IsFiniteSet({image[q] : q \in rows})
      BY <1>3, <2>2, FiniteImage
    <2> QED
      BY <2>1, <2>3, FS_Subset
  <1> QED
    BY <1>2, <1>4, NoneFewerIn DEF CountInv, AddedByCommit, OnePerCommit

(* The MERGE makes one version of one version.                             *)
LEMMA CloseCounts ==
    ASSUME IndInv, CountInv, NEW r \in Runs, CloseSuperseded(r)
    PROVE  /\ CountInv'
           /\ Cardinality(dim') = Cardinality(dim)
           /\ VersionsOf(NULL)' = VersionsOf(NULL)
           /\ NoneFewer
  <1> DEFINE date == run[r].run_date
             image == [v \in dim |-> CHOOSE w : w \in dim' /\ Merged(v, w, date)]
  <1>1. UNCHANGED staging /\ commit' = commit + 1 /\ commit \in Nat
    BY DEF CloseSuperseded, IndInv, TypeOK
  <1>2. /\ \A w \in dim' : \E v \in dim : Merged(v, w, date)
        /\ \A v \in dim : \E w \in dim' : Merged(v, w, date)
    BY MergeIsImage
  <1>3. \A v \in dim, w \in dim' : Merged(v, w, date) => w.uid = v.uid /\ w.added = v.added
    BY MergedFields DEF IndInv, TypeOK
  <1>4. \A v \in dim, w, x \in dim' : Merged(v, w, date) /\ Merged(v, x, date) => w = x
    BY DEF Merged
  <1>5. \A v \in dim : image[v] \in dim' /\ Merged(v, image[v], date)
    BY <1>2
  <1> HIDE DEF image
  <1>6. \A v, w \in dim : image[v] = image[w] => v = w
    BY <1>3, <1>5 DEF CountInv, OnePerCommit
  <1>7. dim' = {image[v] : v \in dim}
    BY <1>2, <1>4, <1>5
  <1>8. DOMAIN image = dim
    BY DEF image
  <1>9. IsFiniteSet(dim') /\ Cardinality(dim') = Cardinality(dim)
    BY <1>6, <1>7, <1>8, FiniteImage DEF CountInv
  <1>10. AddedByCommit' /\ OnePerCommit'
    <2>1. \A v \in dim : v.added \in Nat /\ v.added <= commit
      BY DEF IndInv, TypeOK, Version, CountInv, AddedByCommit
    <2>2. AddedByCommit'
      BY <1>1, <1>2, <1>3, <2>1 DEF AddedByCommit
    <2>3. OnePerCommit'
      BY <1>2, <1>3, <1>4 DEF CountInv, OnePerCommit
    <2> QED
      BY <2>2, <2>3
  <1>11. VersionsOf(NULL)' = VersionsOf(NULL)
    <2>1. \A v \in dim, w \in dim' : Merged(v, w, date) /\ v.uid = NULL => w = v
      BY DEF Merged
    <2> QED
      BY <1>2, <1>3, <2>1 DEF VersionsOf
  <1>12. ASSUME NEW u
         PROVE  Cardinality(VersionsOf(u)) <= Cardinality(VersionsOf(u)')
    <2> DEFINE part == [v \in VersionsOf(u) |-> image[v]]
    <2>1. part \in Injection(VersionsOf(u), VersionsOf(u)')
      <3>1. \A v \in VersionsOf(u) : v \in dim /\ image[v] \in VersionsOf(u)'
        BY <1>3, <1>5 DEF VersionsOf
      <3> QED
        BY <1>6, <3>1 DEF Injection, IsInjective
    <2>2. IsFiniteSet(VersionsOf(u)')
      <3>1. VersionsOf(u)' \subseteq dim'
        BY DEF VersionsOf
      <3> QED
        BY <1>9, <3>1, FS_Subset
    <2> HIDE DEF part
    <2> QED
      BY <2>1, <2>2, FS_Injection
  <1>13. Cardinality(dim) <= Cardinality(dim')
    <2>1. Cardinality(dim) \in Nat
      BY FS_CardinalityType DEF CountInv
    <2> QED
      BY <1>9, <2>1
  <1> QED
    BY <1>1, <1>9, <1>10, <1>11, <1>12, <1>13 DEF CountInv, NoneFewer

(* The append adds what no earlier commit added, one version of a key.     *)
LEMMA AppendCounts ==
    ASSUME IndInv, CountInv, NEW r \in Runs, AppendVersions(r)
    PROVE  CountInv' /\ NoneFewer
  <1>1. /\ Writing(r) /\ UNCHANGED staging
        /\ dim' = dim \cup NewVersions(staging, commit')
        /\ commit' = commit + 1 /\ commit \in Nat
    BY DEF AppendVersions, Writing, IndInv, TypeOK
  <1>2. OneRowPerKey(staging)
    BY <1>1 DEF IndInv, StagingFits
  <1>3. \A n \in NewVersions(staging, commit') : \E s \in staging :
          n = NewVersion(s, commit') /\ n.uid = s.uid /\ n.added = commit + 1
    BY <1>1 DEF NewVersions, NewVersion
  <1>4. \A m, n \in NewVersions(staging, commit') : m.uid = n.uid => m = n
    BY <1>2, <1>3 DEF OneRowPerKey
  <1>5. \A v \in dim : v.added \in Nat /\ v.added <= commit
    BY DEF IndInv, TypeOK, Version, CountInv, AddedByCommit
  <1>6. AddedByCommit' /\ OnePerCommit'
    <2>1. AddedByCommit'
      BY <1>1, <1>3, <1>5 DEF AddedByCommit
    <2>2. OnePerCommit'
      BY <1>1, <1>3, <1>4, <1>5 DEF CountInv, OnePerCommit
    <2> QED
      BY <2>1, <2>2
  <1>7. IsFiniteSet(dim')
    <2> DEFINE image == [s \in staging |-> NewVersion(s, commit')]
    <2>1. DOMAIN image = staging /\ NewVersions(staging, commit') \subseteq {image[s] : s \in staging}
      BY <1>3
    <2> HIDE DEF image
    <2>2. IsFiniteSet(staging) /\ DOMAIN image = staging
      BY <2>1 DEF CountInv
    <2>3. IsFiniteSet({image[s] : s \in staging})
      BY <2>2, FiniteImage
    <2>4. IsFiniteSet(NewVersions(staging, commit'))
      BY <2>1, <2>3, FS_Subset
    <2> QED
      BY <1>1, <2>4, FS_Union DEF CountInv
  <1> QED
    BY <1>1, <1>6, <1>7, NoneFewerIn DEF CountInv

(* A step that leaves the table and the staging table alone.               *)
LEMMA QuietCounts ==
    ASSUME CountInv, UNCHANGED <<dim, commit, staging>>
    PROVE  CountInv' /\ NoneFewer
  <1>1. CountInv'
    BY DEF CountInv, AddedByCommit, OnePerCommit
  <1> QED
    BY <1>1, NoneFewerIn DEF CountInv

LEMMA CountsKept == IndInv /\ CountInv /\ [Next]_vars => CountInv' /\ NoneFewer
  <1> SUFFICES ASSUME IndInv, CountInv, [Next]_vars
               PROVE  CountInv' /\ NoneFewer
    OBVIOUS
  <1>1. ASSUME NEW r \in Runs, Apply(r)
        PROVE  CountInv' /\ NoneFewer
    BY <1>1, SeedCounts, StageCounts, CloseCounts, AppendCounts, QuietCounts
       DEF Apply, SkipCdc, tables
  <1>2. (\E r \in Runs : Apply(r)) \/ UNCHANGED <<dim, commit, staging>>
    BY DEF Next, Start, Finish, Fail, Rest, vars, tables
  <1> QED
    BY <1>1, <1>2, QuietCounts

LEMMA CountInit == Init => CountInv
  BY FS_EmptySet DEF Init, CountInv, AddedByCommit, OnePerCommit

-----------------------------------------------------------------------------
(***************************************************************************)
(* Rows without a key.  Deduplication keeps one of a file; it joins        *)
(* nothing, so unless it deletes it is staged as new, and the append of    *)
(* the run that staged it adds it.                                         *)
(***************************************************************************)
Adding == {"new", "changed", "deleted"}

AddsKeyless == \E s \in staging : s.uid = NULL /\ s.action \in Adding

StagedKeyless ==
    \A r \in Runs : Writing(r) => (AddsKeyless => MayAdd(r)) /\ (MustAdd(r) => AddsKeyless)

HaveBegun == {r \in Runs : run[r].phase # "queued"}

KeylessInv == StagedKeyless /\ IsFiniteSet(HaveBegun) /\ KeylessRowsAccumulate

LEMMA BegunAreFinite ==
    ASSUME IsFiniteSet(HaveBegun)
    PROVE  IsFiniteSet(Through) /\ IsFiniteSet(Begun)
  <1>1. Through \subseteq HaveBegun /\ Begun \subseteq HaveBegun
    BY DEF Through, Begun, HaveBegun
  <1> QED
    BY <1>1, FS_Subset

LEMMA FewBegin ==
    ASSUME IndInv, IsFiniteSet(HaveBegun), [Next]_vars
    PROVE  IsFiniteSet(HaveBegun')
  <1>1. ASSUME NEW r \in Runs, \A q \in Runs : q # r => run'[q] = run[q]
        PROVE  IsFiniteSet(HaveBegun')
    <2>1. HaveBegun' \subseteq HaveBegun \cup {r}
      BY <1>1 DEF HaveBegun
    <2>2. IsFiniteSet(HaveBegun \cup {r})
      BY FS_AddElement
    <2> QED
      BY <2>1, <2>2, FS_Subset
  <1>2. ASSUME NEW r \in Runs, NEW new, run' = [run EXCEPT ![r] = new]
        PROVE  IsFiniteSet(HaveBegun')
    BY <1>1, <1>2 DEF IndInv, TypeOK
  <1>3. ASSUME NEW r \in Runs, Apply(r) \/ Finish(r) \/ Fail(r)
        PROVE  IsFiniteSet(HaveBegun')
    <2>1. \E new : run' = [run EXCEPT ![r] = new]
      BY <1>3 DEF Apply, SeedDim, SkipCdc, StageChanges, CloseSuperseded, AppendVersions, Finish,
                  Fail, GoTo
    <2> QED
      BY <1>2, <2>1
  <1>4. ASSUME NEW r \in Runs, NEW date, NEW day, Start(r, date, day)
        PROVE  IsFiniteSet(HaveBegun')
    <2>1. \E new : run' = [run EXCEPT ![r] = new]
      BY <1>4 DEF Start
    <2> QED
      BY <1>2, <2>1
  <1>5. CASE run' = run
    BY <1>5 DEF HaveBegun
  <1> QED
    BY <1>3, <1>4, <1>5 DEF Next, Rest, vars

(* What a run's file may add is settled when the run starts.               *)
LEMMA AddsSettled ==
    ASSUME NEW r \in Runs, landing' = landing, run'[r].cdc_day = run[r].cdc_day
    PROVE  MayAdd(r)' = MayAdd(r) /\ MustAdd(r)' = MustAdd(r)
  BY DEF MayAdd, MustAdd, KeylessRows

(* A step of r that adds no keyless version, and brings it through its     *)
(* passes only if it had none to add.                                      *)
LEMMA QuietKeyless ==
    ASSUME CountInv, KeylessRowsAccumulate, IsFiniteSet(HaveBegun), IsFiniteSet(HaveBegun'),
           VersionsOf(NULL)' = VersionsOf(NULL), landing' = landing, NEW r \in Runs,
           \A q \in Runs : q # r => run'[q] = run[q],
           run'[r].cdc_day = run[r].cdc_day,
           run[r].phase \in {"applied", "succeeded", "failed"} =>
                run'[r].phase \in {"applied", "succeeded", "failed"},
           run'[r].phase \in {"applied", "succeeded"} =>
                ~MustAdd(r) \/ run[r].phase \in {"applied", "succeeded"}
    PROVE  KeylessRowsAccumulate'
  <1>1. \A q \in Runs : run'[q].cdc_day = run[q].cdc_day
    OBVIOUS
  <1>2. \A q \in Runs : MayAdd(q)' = MayAdd(q) /\ MustAdd(q)' = MustAdd(q)
    BY <1>1, AddsSettled
  <1>3. Through' \subseteq Through
    BY <1>2 DEF Through
  <1>4. Begun \subseteq Begun'
    BY <1>2 DEF Begun
  <1>5. IsFiniteSet(VersionsOf(NULL))
    <2>1. VersionsOf(NULL) \subseteq dim
      BY DEF VersionsOf
    <2> QED
      BY <2>1, FS_Subset DEF CountInv
  <1>6. IsFiniteSet(Through) /\ IsFiniteSet(Begun')
    <2>1. Begun' \subseteq HaveBegun'
      BY DEF Begun, HaveBegun
    <2> QED
      BY <2>1, BegunAreFinite, FS_Subset
  <1>7. /\ Cardinality(Through') <= Cardinality(Through)
        /\ Cardinality(Begun) <= Cardinality(Begun') /\ IsFiniteSet(Through') /\ IsFiniteSet(Begun)
    BY <1>3, <1>4, <1>6, FS_Subset
  <1>8. /\ Cardinality(Through) <= Cardinality(VersionsOf(NULL))
        /\ Cardinality(VersionsOf(NULL)) <= Cardinality(Begun)
    BY DEF KeylessRowsAccumulate, VersionsOf
  <1>9. /\ Cardinality(Through) \in Nat /\ Cardinality(Through') \in Nat
        /\ Cardinality(Begun) \in Nat /\ Cardinality(Begun') \in Nat
        /\ Cardinality(VersionsOf(NULL)) \in Nat
    BY <1>5, <1>6, <1>7, FS_CardinalityType
  <1>10. /\ Cardinality(Through') <= Cardinality(VersionsOf(NULL)')
         /\ Cardinality(VersionsOf(NULL)') <= Cardinality(Begun')
    BY <1>7, <1>8, <1>9
  <1> QED
    BY <1>10 DEF KeylessRowsAccumulate, VersionsOf

LEMMA KeylessStaged ==
    ASSUME IndInv, NEW r \in Runs, StageChanges(r)
    PROVE  /\ AddsKeyless' => MayAdd(r)
           /\ MustAdd(r) => AddsKeyless'
  <1>1. PICK rows \in Deduped(landing[run[r].cdc_day]) :
          staging' = Staged(rows, dim, run[r].run_date)
    BY StagedMove DEF IndInv
  <1>2. LeftJoin(NULL, dim) = {NoMatch}
    BY DEF LeftJoin, Matches
  <1>3. \A q : LET s == StagedFrom(q, NoMatch, NoMatch, run[r].run_date) IN
          s.uid = q.uid /\ s.action = (IF q.op = "D" THEN "unchanged" ELSE "new")
    BY DEF StagedFrom, Classify, NoMatch
  <1>4. run[r].cdc_day # 0
    BY DEF StageChanges
  <1>5. \A q \in rows : q.uid = NULL => q \in KeylessRows(r)
    BY <1>1 DEF Deduped, KeylessRows
  <1>6. ASSUME NEW s \in staging', s.uid = NULL
        PROVE  \E q \in rows : q.uid = NULL /\ s.action = (IF q.op = "D" THEN "unchanged" ELSE "new")
    <2>1. PICK q \in rows : \E c \in LeftJoin(q.uid, dim), k \in LeftJoin(q.uid, dim) :
            s = StagedFrom(q, c, k, run[r].run_date)
      BY <1>1, <1>6 DEF Staged
    <2>2. PICK c \in LeftJoin(q.uid, dim), k \in LeftJoin(q.uid, dim) :
            s = StagedFrom(q, c, k, run[r].run_date)
      BY <2>1
    <2>3. q.uid = NULL
      BY <1>6, <2>2 DEF StagedFrom
    <2>4. c = NoMatch /\ k = NoMatch
      BY <1>2, <2>2, <2>3
    <2> QED
      BY <1>3, <2>2, <2>3, <2>4
  <1>7. AddsKeyless' => MayAdd(r)
    <2> SUFFICES ASSUME NEW s \in staging', s.uid = NULL, s.action \in Adding
                 PROVE  MayAdd(r)
      BY DEF AddsKeyless
    <2>1. PICK q \in rows : q.uid = NULL /\ s.action = (IF q.op = "D" THEN "unchanged" ELSE "new")
      BY <1>6
    <2>2. q.op # "D"
      BY <2>1 DEF Adding
    <2> QED
      BY <1>4, <1>5, <2>1, <2>2 DEF MayAdd
  <1>8. ASSUME MustAdd(r) PROVE AddsKeyless'
    <2>1. PICK q \in landing[run[r].cdc_day] : q.uid = NULL
      BY <1>8 DEF MustAdd, MayAdd, KeylessRows, LatestRows
    <2>2. PICK w \in rows : w.uid = NULL
      BY <1>1, <2>1 DEF Deduped
    <2>3. w.op # "D"
      BY <1>5, <1>8, <2>2 DEF MustAdd
    <2> DEFINE s == StagedFrom(w, NoMatch, NoMatch, run[r].run_date)
    <2>4. s \in staging'
      BY <1>1, <1>2, <2>2 DEF Staged
    <2>5. s.uid = NULL /\ s.action = "new"
      BY <1>3, <2>2, <2>3
    <2> HIDE DEF s
    <2> QED
      BY <2>4, <2>5 DEF AddsKeyless, Adding
  <1> QED
    BY <1>7, <1>8

(* Only the append adds a keyless version: one, of the row that is staged. *)
LEMMA AppendKeyless ==
    ASSUME IndInv, CountInv, CountInv', KeylessInv, IsFiniteSet(HaveBegun'),
           NEW r \in Runs, AppendVersions(r)
    PROVE  KeylessRowsAccumulate'
  <1>1. /\ Writing(r) /\ run[r].phase = "append" /\ landing' = landing
        /\ dim' = dim \cup NewVersions(staging, commit')
        /\ commit' = commit + 1 /\ commit \in Nat /\ GoTo(r, "applied")
    BY DEF AppendVersions, Writing, IndInv, TypeOK
  <1>2. /\ \A q \in Runs : q # r => run'[q] = run[q]
        /\ \A q \in Runs : run'[q].cdc_day = run[q].cdc_day
        /\ run'[r].phase = "applied"
    BY <1>1, Moved DEF IndInv
  <1>3. \A q \in Runs : MayAdd(q)' = MayAdd(q) /\ MustAdd(q)' = MustAdd(q)
    BY <1>1, <1>2, AddsSettled
  <1>4. (AddsKeyless => MayAdd(r)) /\ (MustAdd(r) => AddsKeyless)
    BY <1>1 DEF KeylessInv, StagedKeyless
  <1>5. CASE ~AddsKeyless
    <2>1. \A n \in NewVersions(staging, commit') : n.uid # NULL
      BY <1>5 DEF NewVersions, NewVersion, AddsKeyless, Adding
    <2>2. VersionsOf(NULL)' = VersionsOf(NULL)
      BY <1>1, <2>1 DEF VersionsOf
    <2> QED
      BY <1>1, <1>2, <1>4, <1>5, <2>2, QuietKeyless DEF KeylessInv
  <1>6. CASE AddsKeyless
    <2>1. PICK s \in staging : s.uid = NULL /\ s.action \in Adding
      BY <1>6 DEF AddsKeyless
    <2>2. PICK n : n = NewVersion(s, commit')
      OBVIOUS
    <2>3. n \in NewVersions(staging, commit') /\ n.uid = NULL /\ n.added = commit'
      BY <2>1, <2>2 DEF NewVersions, NewVersion, Adding
    <2>4. n \notin dim
      <3>1. \A v \in dim : v.added \in Nat /\ v.added <= commit
        BY DEF IndInv, TypeOK, Version, CountInv, AddedByCommit
      <3> QED
        BY <1>1, <2>3, <3>1
    <2>5. \A m \in NewVersions(staging, commit') : m.added = commit'
      BY DEF NewVersions, NewVersion
    <2>6. VersionsOf(NULL)' = VersionsOf(NULL) \cup {n}
      <3>1. \A m \in NewVersions(staging, commit') : m.uid = NULL => m = n
        BY <1>1, <2>3, <2>5 DEF CountInv, OnePerCommit
      <3> QED
        BY <1>1, <2>3, <3>1 DEF VersionsOf
    <2>7. n \notin VersionsOf(NULL) /\ IsFiniteSet(VersionsOf(NULL))
      <3>1. VersionsOf(NULL) \subseteq dim
        BY DEF VersionsOf
      <3> QED
        BY <2>4, <3>1, FS_Subset DEF CountInv
    <2>8. Cardinality(VersionsOf(NULL)') = Cardinality(VersionsOf(NULL)) + 1
      BY <2>6, <2>7, FS_AddElement
    <2>9. Through' \subseteq Through \cup {r}
      BY <1>2, <1>3 DEF Through
    <2>10. Begun' = Begun \cup {r} /\ r \notin Begun
      BY <1>1, <1>2, <1>3, <1>4, <1>6 DEF Begun
    <2>11. IsFiniteSet(Through) /\ IsFiniteSet(Begun)
      BY BegunAreFinite DEF KeylessInv
    <2>12. /\ IsFiniteSet(Through \cup {r})
           /\ Cardinality(Through \cup {r}) = Cardinality(Through)
              \/ Cardinality(Through \cup {r}) = Cardinality(Through) + 1
           /\ Cardinality(Begun') = Cardinality(Begun) + 1
      BY <2>10, <2>11, FS_AddElement
    <2>13. IsFiniteSet(Through') /\ Cardinality(Through') <= Cardinality(Through \cup {r})
      BY <2>9, <2>12, FS_Subset
    <2>14. /\ Cardinality(Through) <= Cardinality(VersionsOf(NULL))
           /\ Cardinality(VersionsOf(NULL)) <= Cardinality(Begun)
      BY DEF KeylessInv, KeylessRowsAccumulate, VersionsOf
    <2>15. /\ Cardinality(Through) \in Nat /\ Cardinality(Through') \in Nat
           /\ Cardinality(Begun) \in Nat /\ Cardinality(VersionsOf(NULL)) \in Nat
      BY <2>7, <2>11, <2>13, FS_CardinalityType
    <2>16. /\ Cardinality(Through') <= Cardinality(VersionsOf(NULL)')
           /\ Cardinality(VersionsOf(NULL)') <= Cardinality(Begun')
      BY <2>8, <2>12, <2>13, <2>14, <2>15
    <2> QED
      BY <2>16 DEF KeylessRowsAccumulate, VersionsOf
  <1> QED
    BY <1>5, <1>6

LEMMA StagedKeylessKept ==
    ASSUME IndInv, KeylessInv, [Next]_vars
    PROVE  StagedKeyless'
  <1>1. ASSUME NEW r \in Runs, StageChanges(r)
        PROVE  StagedKeyless'
    <2>1. landing' = landing /\ Active(r)
      BY <1>1 DEF StageChanges, Active
    <2>2. /\ \A q \in Runs : q # r => run'[q] = run[q]
          /\ run'[r].cdc_day = run[r].cdc_day
      BY <1>1, StagedMove DEF IndInv
    <2>3. \A q \in Runs : q # r => ~Writing(q)'
      BY <2>1, <2>2, OthersDoNotWrite
    <2>4. MayAdd(r)' = MayAdd(r) /\ MustAdd(r)' = MustAdd(r)
      BY <2>1, <2>2, AddsSettled
    <2> QED
      BY <1>1, <2>3, <2>4, KeylessStaged DEF StagedKeyless
  <1>2. ASSUME NEW r \in Runs, CloseSuperseded(r)
        PROVE  StagedKeyless'
    <2>1. /\ landing' = landing /\ staging' = staging /\ Active(r) /\ Writing(r)
          /\ GoTo(r, NextPass(run[r].actions, TRUE))
      BY <1>2 DEF CloseSuperseded, Active, Writing
    <2>2. /\ \A q \in Runs : q # r => run'[q] = run[q]
          /\ run'[r].cdc_day = run[r].cdc_day
      BY <2>1, Moved DEF IndInv
    <2>3. \A q \in Runs : q # r => ~Writing(q)'
      BY <2>1, <2>2, OthersDoNotWrite
    <2>4. MayAdd(r)' = MayAdd(r) /\ MustAdd(r)' = MustAdd(r)
      BY <2>1, <2>2, AddsSettled
    <2>5. AddsKeyless' = AddsKeyless
      BY <2>1 DEF AddsKeyless
    <2> QED
      BY <2>1, <2>3, <2>4, <2>5 DEF KeylessInv, StagedKeyless
  <1>3. ASSUME NEW r \in Runs, NEW phase, phase \notin {"merge", "append"}, GoTo(r, phase),
               Active(r)
        PROVE  StagedKeyless'
    <2>1. (\A q \in Runs : q # r => run'[q] = run[q]) /\ run'[r].phase = phase
      BY <1>3, Moved DEF IndInv
    <2>2. \A q \in Runs : ~Writing(q)'
      BY <1>3, <2>1, OthersDoNotWrite DEF Writing
    <2> QED
      BY <2>2 DEF StagedKeyless
  <1>4. ASSUME NEW r \in Runs, SeedDim(r) \/ SkipCdc(r) \/ AppendVersions(r) \/ Finish(r) \/ Fail(r)
        PROVE  StagedKeyless'
    <2>1. Active(r) /\ \E phase : phase \notin {"merge", "append"} /\ GoTo(r, phase)
      BY <1>4 DEF SeedDim, SkipCdc, AppendVersions, Finish, Fail, Active
    <2> QED
      BY <1>3, <2>1
  <1>5. ASSUME NEW r \in Runs, NEW date, NEW day, Start(r, date, day)
        PROVE  StagedKeyless'
    <2>1. \A q \in Runs : ~Writing(q)
      BY <1>5 DEF Start, NoActiveRun, Active, Writing
    <2>2. \A q \in Runs : ~Writing(q)'
      BY <1>5, <2>1 DEF Start, Writing, IndInv, TypeOK, Run
    <2> QED
      BY <2>2 DEF StagedKeyless
  <1>6. CASE UNCHANGED vars
    <2>1. UNCHANGED <<landing, staging, run>>
      BY <1>6 DEF vars, tables
    <2>2. \A q \in Runs : MayAdd(q)' = MayAdd(q) /\ MustAdd(q)' = MustAdd(q)
      BY <2>1, AddsSettled
    <2> QED
      BY <2>1, <2>2 DEF KeylessInv, StagedKeyless, Writing, AddsKeyless
  <1> QED
    BY <1>1, <1>2, <1>4, <1>5, <1>6 DEF Next, Apply, Rest

LEMMA KeylessKept ==
    ASSUME IndInv, NobodyLost, CountInv, CountInv', KeylessInv, [Next]_vars
    PROVE  KeylessInv'
  <1>1. StagedKeyless' /\ IsFiniteSet(HaveBegun')
    BY StagedKeylessKept, FewBegin DEF KeylessInv
  <1>2. ASSUME NEW r \in Runs, AppendVersions(r)
        PROVE  KeylessRowsAccumulate'
    BY <1>1, <1>2, AppendKeyless
  <1>3. ASSUME NEW r \in Runs, NEW phase, GoTo(r, phase), Active(r), landing' = landing,
               VersionsOf(NULL)' = VersionsOf(NULL),
               run[r].phase = "applied" => phase \in {"succeeded", "failed"},
               phase \in {"applied", "succeeded"} => ~MustAdd(r) \/ run[r].phase = "applied"
        PROVE  KeylessRowsAccumulate'
    <2>1. /\ \A q \in Runs : q # r => run'[q] = run[q]
          /\ run'[r].cdc_day = run[r].cdc_day /\ run'[r].phase = phase
      BY <1>3, Moved DEF IndInv
    <2>2. run[r].phase \notin {"succeeded", "failed"}
      BY <1>3 DEF Active
    <2> QED
      BY <1>1, <1>3, <2>1, <2>2, QuietKeyless DEF KeylessInv
  <1>4. ASSUME NEW r \in Runs, SeedDim(r)
        PROVE  KeylessRowsAccumulate'
    <2>1. VersionsOf(NULL)' = VersionsOf(NULL)
      <3>1. CASE dim = {}
        <4>1. \A v \in dim' : v.uid \in Customers
          BY <1>4, <3>1, SeededRows, SilverTypes DEF IndInv, People
        <4> QED
          BY <3>1, <4>1, NullIsNotData DEF VersionsOf
      <3>2. CASE dim # {}
        BY <1>4, <3>2 DEF SeedDim, VersionsOf
      <3> QED
        BY <3>1, <3>2
    <2>2. GoTo(r, "cdc_apply") /\ Active(r) /\ landing' = landing /\ run[r].phase # "applied"
      BY <1>4 DEF SeedDim, Active
    <2> QED
      BY <1>3, <2>1, <2>2
  <1>5. ASSUME NEW r \in Runs, SkipCdc(r)
        PROVE  KeylessRowsAccumulate'
    <2>1. /\ GoTo(r, "applied") /\ Active(r) /\ landing' = landing /\ run[r].phase = "cdc_apply"
          /\ dim' = dim
      BY <1>5 DEF SkipCdc, Active, tables
    <2>2. ~MustAdd(r)
      BY <1>5 DEF SkipCdc, MustAdd, MayAdd
    <2> QED
      BY <1>3, <2>1, <2>2 DEF VersionsOf
  <1>6. ASSUME NEW r \in Runs, StageChanges(r)
        PROVE  KeylessRowsAccumulate'
    <2>1. /\ landing' = landing /\ dim' = dim /\ run[r].phase = "cdc_apply"
      BY <1>6 DEF StageChanges
    <2>2. /\ \A q \in Runs : q # r => run'[q] = run[q]
          /\ run'[r].cdc_day = run[r].cdc_day
          /\ run'[r].phase = NextPass({s.action : s \in staging'}, FALSE)
      BY <1>6, StagedMove DEF IndInv
    <2>3. ASSUME run'[r].phase \in {"applied", "succeeded"}, MustAdd(r)
          PROVE  FALSE
      <3>1. PICK s \in staging' : s.action \in Adding
        BY <1>6, <2>3, KeylessStaged DEF AddsKeyless
      <3>2. s.action \in {a.action : a \in staging'} /\ s.action \in {"new", "changed", "deleted"}
        BY <3>1 DEF Adding
      <3>3. NextPass({a.action : a \in staging'}, FALSE) \in {"merge", "append"}
        BY <3>2 DEF NextPass
      <3> QED
        BY <2>2, <2>3, <3>3
    <2> QED
      BY <1>1, <2>1, <2>2, <2>3, QuietKeyless DEF KeylessInv, VersionsOf
  <1>7. ASSUME NEW r \in Runs, CloseSuperseded(r)
        PROVE  KeylessRowsAccumulate'
    <2>1. /\ landing' = landing /\ run[r].phase = "merge" /\ Writing(r) /\ Active(r)
          /\ GoTo(r, NextPass(run[r].actions, TRUE))
      BY <1>7 DEF CloseSuperseded, Writing, Active
    <2>2. VersionsOf(NULL)' = VersionsOf(NULL)
      BY <1>7, CloseCounts
    <2>3. ASSUME NextPass(run[r].actions, TRUE) \in {"applied", "succeeded"}, MustAdd(r)
          PROVE  FALSE
      <3>1. PICK s \in staging : s.action \in Adding
        BY <2>1, <2>3 DEF KeylessInv, StagedKeyless, AddsKeyless
      <3>2. s.action \in run[r].actions /\ s.action \in {"new", "changed", "deleted"}
        BY <2>1, <3>1 DEF NobodyLost, ActionsCounted, Adding
      <3> QED
        BY <2>3, <3>2 DEF NextPass
    <2> QED
      BY <1>3, <2>1, <2>2, <2>3
  <1>8. ASSUME NEW r \in Runs, Finish(r)
        PROVE  KeylessRowsAccumulate'
    <2>1. /\ GoTo(r, "succeeded") /\ Active(r) /\ landing' = landing /\ run[r].phase = "applied"
          /\ dim' = dim
      BY <1>8 DEF Finish, Active, tables
    <2> QED
      BY <1>3, <2>1 DEF VersionsOf
  <1>9. ASSUME NEW r \in Runs, Fail(r)
        PROVE  KeylessRowsAccumulate'
    <2>1. GoTo(r, "failed") /\ Active(r) /\ landing' = landing /\ dim' = dim
      BY <1>9 DEF Fail, tables
    <2> QED
      BY <1>3, <2>1 DEF VersionsOf
  <1>10. ASSUME NEW r \in Runs, NEW date \in Dates, NEW day \in Days \cup {0}, Start(r, date, day)
         PROVE  KeylessRowsAccumulate'
    <2>1. /\ landing' = landing /\ dim' = dim /\ run[r].phase = "queued"
          /\ \A q \in Runs : q # r => run'[q] = run[q]
          /\ run'[r].phase = "gold_dims"
      BY <1>10 DEF Start, tables, IndInv, TypeOK, Run
    <2>2. \A q \in Runs : q # r => MayAdd(q)' = MayAdd(q) /\ MustAdd(q)' = MustAdd(q)
      BY <2>1, AddsSettled
    <2>3. Through' = Through /\ Begun' = Begun
      BY <2>1, <2>2 DEF Through, Begun
    <2> QED
      BY <2>1, <2>3 DEF KeylessInv, KeylessRowsAccumulate
  <1>11. CASE UNCHANGED vars
    <2>1. UNCHANGED <<landing, dim, run>>
      BY <1>11 DEF vars, tables
    <2>2. \A q \in Runs : MayAdd(q)' = MayAdd(q) /\ MustAdd(q)' = MustAdd(q)
      BY <2>1, AddsSettled
    <2>3. Through' = Through /\ Begun' = Begun
      BY <2>1, <2>2 DEF Through, Begun
    <2> QED
      BY <1>1, <2>1, <2>3 DEF KeylessInv, KeylessRowsAccumulate
  <1> QED
    BY <1>1, <1>2, <1>4, <1>5, <1>6, <1>7, <1>8, <1>9, <1>10, <1>11
       DEF Next, Apply, Rest, KeylessInv

LEMMA KeylessInit == Init => KeylessInv
  <1> SUFFICES ASSUME Init PROVE KeylessInv
    OBVIOUS
  <1>1. \A r \in Runs : run[r].phase = "queued"
    BY DEF Init
  <1>2. HaveBegun = {} /\ Through = {} /\ Begun = {} /\ {v \in dim : v.uid = NULL} = {}
    BY <1>1 DEF HaveBegun, Through, Begun, Init
  <1>3. Cardinality({}) = 0 /\ IsFiniteSet({})
    BY FS_EmptySet
  <1>4. IsFiniteSet(HaveBegun) /\ KeylessRowsAccumulate
    BY <1>2, <1>3 DEF KeylessRowsAccumulate
  <1>5. StagedKeyless
    BY <1>1 DEF StagedKeyless, Writing
  <1> QED
    BY <1>4, <1>5 DEF KeylessInv

(* What the no-op guarantee leaves out, counted: each run that gets        *)
(* through its passes with a row without a key adds one version that no    *)
(* later run will find again, and no other run adds one.                   *)
THEOREM KeylessRowsAddUp == Spec => []KeylessRowsAccumulate
  <1>1. IndInv /\ NobodyLost /\ CountInv /\ KeylessInv /\ [Next]_vars
          => NobodyLost' /\ CountInv' /\ KeylessInv'
    BY LostKept, CountsKept, KeylessKept
  <1>2. KeylessInv => KeylessRowsAccumulate
    BY DEF KeylessInv
  <1> QED
    BY <1>1, <1>2, LostInit, CountInit, KeylessInit, Invariance, PTL DEF Spec
=============================================================================
