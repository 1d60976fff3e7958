---------------------- MODULE CustomerDimRefinement_proofs ----------------------
(***************************************************************************)
(* Proof that CustomerDim implements CustomerTimeline while no run tears a *)
(* key, and that windows and flags encode the order of the timelines.      *)
(***************************************************************************)
EXTENDS CustomerDimRefinement, CustomerDim_proofs

-----------------------------------------------------------------------------
(***************************************************************************)
(* The order of a timeline is that of the commits that appended to it.     *)
(***************************************************************************)
IsLast(v) == \A w \in dim : w.uid = v.uid => w.added <= v.added

CurrentIsLast == \A v \in dim : v.is_current /\ v.uid # NULL => IsLast(v)

StartedRunsHaveDates == \A r \in Runs : run[r].phase # "queued" => run[r].run_date \in Dates

(* While a run writes, a staged row that is not a no-op begins the timeline *)
(* of somebody unknown or follows the last version there is, which the run *)
(* closes at its date before it appends.                                   *)
StagedBegins(s) == s.profile = NULL /\ s.segment = NULL /\ \A v \in dim : v.uid # s.uid

StagedAfter(s, v) ==
    /\ v.uid = s.uid /\ IsLast(v)
    /\ s.profile = v.profile /\ s.segment = v.segment
    /\ IF s.action = "deleted" THEN ~v.is_deleted ELSE s.address # v.address

StagedFollows ==
    \A r \in Runs : Writing(r) =>
        \A s \in staging : s.uid # NULL =>
            /\ s.action = "new" => StagedBegins(s)
            /\ s.action \in {"changed", "deleted"} =>
                 \E v \in dim :
                    /\ StagedAfter(s, v)
                    /\ IF run[r].phase = "merge" THEN v.is_current
                       ELSE ~v.is_current /\ v.effective_to = run[r].run_date

OrderInv ==
    /\ torn = {}
    /\ AddedByCommit
    /\ OnePerCommit
    /\ CurrentIsLast
    /\ StartedRunsHaveDates
    /\ StagedFollows
    /\ WindowsEncodeOrder

-----------------------------------------------------------------------------
(* The MERGE replaces versions by versions of the same place in their      *)
(* timelines.                                                              *)
LEMMA CloseKeepsOrder ==
    ASSUME IndInv, NobodyLost, OrderInv, NEW r \in Runs, CloseSuperseded(r)
    PROVE  OrderInv'
  <1> DEFINE date == run[r].run_date
  <1>1. /\ Active(r) /\ Writing(r) /\ run[r].phase = "merge"
        /\ UNCHANGED <<staging, torn>> /\ commit' = commit + 1
        /\ GoTo(r, NextPass(run[r].actions, TRUE))
    BY DEF CloseSuperseded, Active, Writing
  <1>2. /\ \A q \in Runs : q # r => run'[q] = run[q]
        /\ run'[r].phase = NextPass(run[r].actions, TRUE)
        /\ run'[r].run_date = date
    BY <1>1 DEF GoTo, IndInv, TypeOK, Run
  <1>3. \A w \in dim' : \E v \in dim : Merged(v, w, date)
    BY MergeIsImage
  <1>4. \A v \in dim : \E w \in dim' : Merged(v, w, date)
    BY MergeIsImage
  <1>5. \A v \in dim, w \in dim' : Merged(v, w, date) =>
          /\ w.uid = v.uid /\ w.added = v.added /\ w.effective_from = v.effective_from
          /\ w.address = v.address /\ w.segment = v.segment /\ w.profile = v.profile
          /\ w.is_deleted = v.is_deleted
          /\ w # v => ~w.is_current /\ w.effective_to = date
    BY MergedFields DEF IndInv, TypeOK
  <1>6. \A v \in dim, w, x \in dim' : Merged(v, w, date) /\ Merged(v, x, date) => w = x
    BY DEF Merged
  <1>7. \A v \in dim, w \in dim' : Merged(v, w, date) /\ IsLast(v) => IsLast(w)'
    BY <1>3, <1>5 DEF IsLast
  <1>8. (\E k \in KeysToClose(staging) : TRUE) => run'[r].phase = "append"
    BY <1>1, <1>2 DEF NobodyLost, ActionsCounted, KeysToClose, NextPass
  <1>9. run'[r].phase \in {"append", "applied"}
    BY <1>2 DEF NextPass
  <1>10. AddedByCommit'
    <2>1. commit \in Nat /\ \A v \in dim : v.added \in Nat
      BY DEF IndInv, TypeOK, Version
    <2> QED
      BY <1>1, <1>3, <1>5, <2>1 DEF OrderInv, AddedByCommit
  <1>11. OnePerCommit'
    BY <1>3, <1>5, <1>6 DEF OrderInv, OnePerCommit
  <1>12. CurrentIsLast'
    BY <1>3, <1>5, <1>7 DEF OrderInv, CurrentIsLast
  <1>13. StartedRunsHaveDates'
    BY <1>1, <1>2 DEF OrderInv, StartedRunsHaveDates
  <1>14. StagedFollows'
    <2>1. \A q \in Runs : Writing(q)' => q = r
      BY <1>1, <1>2, OthersDoNotWrite
    <2> SUFFICES ASSUME NEW s \in staging, s.uid # NULL, run'[r].phase = "append"
                 PROVE  /\ s.action = "new" => StagedBegins(s)'
                        /\ s.action \in {"changed", "deleted"} =>
                             \E w \in dim' : /\ StagedAfter(s, w)'
                                             /\ ~w.is_current /\ w.effective_to = date
      BY <1>1, <1>2, <1>9, <2>1 DEF StagedFollows, Writing
    <2>2. CASE s.action = "new"
      BY <1>1, <1>3, <1>5, <2>2 DEF OrderInv, StagedFollows, StagedBegins
    <2>3. CASE s.action \in {"changed", "deleted"}
      <3>1. PICK v \in dim : StagedAfter(s, v) /\ v.is_current
        BY <1>1, <2>3 DEF OrderInv, StagedFollows
      <3>2. PICK w \in dim' : Merged(v, w, date)
        BY <1>4
      <3>3. \E k \in KeysToClose(staging) : k.uid = v.uid
        BY <2>3, <3>1, StagedKey DEF StagedAfter
      <3>4. w = ClosedAt(v, date)
        BY <3>1, <3>2, <3>3 DEF Merged, StagedAfter
      <3>5. ~w.is_current /\ w.effective_to = date
        BY <3>4 DEF ClosedAt, IndInv, TypeOK, Version
      <3>6. StagedAfter(s, w)'
        BY <1>5, <1>7, <3>1, <3>2 DEF StagedAfter
      <3> QED
        BY <2>3, <3>5, <3>6
    <2> QED
      BY <2>2, <2>3
  <1>15. WindowsEncodeOrder'
    <2> SUFFICES ASSUME NEW w \in dim', w.uid # NULL
                 PROVE  /\ \A x \in dim' : IsNext(x, w)' =>
                             ~w.is_current /\ w.effective_to = x.effective_from
                        /\ Later(w)' = {} /\ ~BetweenPasses(w.uid)' =>
                             w.is_current /\ w.effective_to = EndOfTime
      BY DEF WindowsEncodeOrder
    <2>1. PICK v \in dim : Merged(v, w, date)
      BY <1>3
    <2>2. \A x \in dim, y \in dim' :
            Merged(x, y, date) => (x \in Later(v) <=> y \in Later(w)')
      BY <1>5, <2>1 DEF Later
    <2>3. ASSUME NEW y \in dim', IsNext(y, w)'
          PROVE  ~w.is_current /\ w.effective_to = y.effective_from
      <3>1. PICK x \in dim : Merged(x, y, date)
        BY <1>3
      <3>2. IsNext(x, v)
        <4>1. x \in Later(v)
          BY <2>2, <2>3, <3>1 DEF IsNext
        <4>2. ASSUME NEW z \in Later(v)
              PROVE  x.added <= z.added
          <5>1. z \in dim
            BY DEF Later
          <5>2. PICK u \in dim' : Merged(z, u, date)
            BY <1>4, <5>1
          <5>3. u \in Later(w)'
            BY <2>2, <5>1, <5>2
          <5>4. y.added <= u.added
            BY <2>3, <5>3 DEF IsNext
          <5> QED
            BY <1>5, <3>1, <5>1, <5>2, <5>4
        <4> QED
          BY <4>1, <4>2 DEF IsNext
      <3>3. ~v.is_current /\ v.effective_to = x.effective_from
        BY <1>5, <2>1, <3>2 DEF OrderInv, WindowsEncodeOrder
      <3>4. w = v
        BY <2>1, <3>3 DEF Merged
      <3> QED
        BY <1>5, <3>1, <3>3, <3>4
    <2>4. ASSUME Later(w)' = {}, ~BetweenPasses(w.uid)'
          PROVE  w.is_current /\ w.effective_to = EndOfTime
      <3>1. Later(v) = {}
        <4>1. \A x \in Later(v) : x \in dim
          BY DEF Later
        <4> QED
          BY <1>4, <2>2, <2>4, <4>1
      <3>2. ~ \E k \in KeysToClose(staging) : k.uid = w.uid
        BY <1>1, <1>8, <2>4 DEF BetweenPasses
      <3>3. w = v
        BY <1>5, <2>1, <3>2 DEF Merged
      <3>4. ~BetweenPasses(v.uid)
        BY <1>1, NobodyBetweenPasses
      <3> QED
        BY <3>1, <3>3, <3>4 DEF OrderInv, WindowsEncodeOrder
    <2> QED
      BY <2>3, <2>4
  <1> QED
    BY <1>1, <1>10, <1>11, <1>12, <1>13, <1>14, <1>15 DEF OrderInv

(* The append adds what follows the last versions, one to a timeline.      *)
LEMMA AppendedRows ==
    ASSUME IndInv, OrderInv, NEW r \in Runs, AppendVersions(r)
    PROVE  /\ dim' = dim \cup NewVersions(staging, commit') /\ commit' = commit + 1
           /\ \A n \in NewVersions(staging, commit') : \E s \in staging :
                /\ s.action \in {"new", "changed", "deleted"} /\ n.uid = s.uid
                /\ n.address = s.address /\ n.profile = s.profile /\ n.segment = s.segment
                /\ n.is_deleted = (s.action = "deleted")
                /\ n.effective_from = run[r].run_date /\ n.effective_to = EndOfTime
                /\ n.is_current /\ n.added = commit + 1
           /\ \A n, m \in NewVersions(staging, commit') : n.uid = m.uid => n = m
           /\ \A n \in NewVersions(staging, commit'), v \in dim : n.added > v.added
  <1>1. /\ Writing(r) /\ dim' = dim \cup NewVersions(staging, commit')
        /\ commit' = commit + 1
    BY DEF AppendVersions, Writing
  <1>2. OneRowPerKey(staging) /\ \A s \in staging : s.effective_from = run[r].run_date
    BY <1>1 DEF IndInv, StagingFits
  <1>3. \A n \in NewVersions(staging, commit') : \E s \in staging :
          s.action \in {"new", "changed", "deleted"} /\ n = NewVersion(s, commit')
    BY DEF NewVersions
  <1>4. \A s \in staging :
          LET n == NewVersion(s, commit') IN
          /\ n.uid = s.uid
          /\ n.address = s.address /\ n.profile = s.profile /\ n.segment = s.segment
          /\ n.is_deleted = (s.action = "deleted")
          /\ n.effective_from = run[r].run_date /\ n.effective_to = EndOfTime
          /\ n.is_current /\ n.added = commit + 1
    BY <1>1, <1>2 DEF NewVersion
  <1>5. \A n \in NewVersions(staging, commit') : \E s \in staging :
          /\ s.action \in {"new", "changed", "deleted"} /\ n.uid = s.uid
          /\ n.address = s.address /\ n.profile = s.profile /\ n.segment = s.segment
          /\ n.is_deleted = (s.action = "deleted")
          /\ n.effective_from = run[r].run_date /\ n.effective_to = EndOfTime
          /\ n.is_current /\ n.added = commit + 1
    BY <1>3, <1>4
  <1>6. \A n, m \in NewVersions(staging, commit') : n.uid = m.uid => n = m
    BY <1>2, <1>3, <1>4 DEF OneRowPerKey
  <1>7. \A n \in NewVersions(staging, commit'), v \in dim : n.added > v.added
    <2>1. commit \in Nat /\ \A v \in dim : v.added \in Nat /\ v.added <= commit
      BY DEF IndInv, TypeOK, Version, OrderInv, AddedByCommit
    <2> QED
      BY <1>5, <2>1
  <1> QED
    BY <1>1, <1>5, <1>6, <1>7

(* Of a key that has versions, the new one follows the last of them, which *)
(* ends where it begins.                                                   *)
LEMMA AppendedFollows ==
    ASSUME IndInv, OrderInv, NEW r \in Runs, AppendVersions(r),
           NEW n \in NewVersions(staging, commit'), n.uid # NULL
    PROVE  \/ /\ \A v \in dim : v.uid # n.uid
              /\ ~n.is_deleted /\ n.profile = NULL /\ n.segment = NULL
           \/ \E v \in dim :
                /\ v.uid = n.uid /\ IsLast(v)
                /\ n.profile = v.profile /\ n.segment = v.segment
                /\ IF n.is_deleted THEN ~v.is_deleted ELSE n.address # v.address
                /\ ~v.is_current /\ v.effective_to = n.effective_from
  <1>1. PICK s \in staging :
          /\ s.action \in {"new", "changed", "deleted"} /\ n.uid = s.uid
          /\ n.address = s.address /\ n.profile = s.profile /\ n.segment = s.segment
          /\ n.is_deleted = (s.action = "deleted")
          /\ n.effective_from = run[r].run_date
    BY AppendedRows
  <1>2. Writing(r) /\ run[r].phase = "append"
    BY DEF AppendVersions, Writing
  <1>3. CASE s.action = "new"
    <2>1. StagedBegins(s)
      BY <1>1, <1>2, <1>3 DEF OrderInv, StagedFollows
    <2> QED
      BY <1>1, <1>3, <2>1 DEF StagedBegins
  <1>4. CASE s.action \in {"changed", "deleted"}
    <2>1. PICK v \in dim : StagedAfter(s, v) /\ ~v.is_current /\ v.effective_to = run[r].run_date
      BY <1>1, <1>2, <1>4 DEF OrderInv, StagedFollows
    <2> QED
      BY <1>1, <1>4, <2>1 DEF StagedAfter
  <1> QED
    BY <1>1, <1>3, <1>4

LEMMA AppendKeepsOrder ==
    ASSUME IndInv, OrderInv, NEW r \in Runs, AppendVersions(r)
    PROVE  OrderInv'
  <1> DEFINE N == NewVersions(staging, commit')
  <1>1. /\ Active(r) /\ Writing(r) /\ run[r].phase = "append"
        /\ UNCHANGED <<staging, torn>> /\ GoTo(r, "applied")
    BY DEF AppendVersions, Active, Writing
  <1>2. /\ \A q \in Runs : q # r => run'[q] = run[q]
        /\ run'[r].phase = "applied"
        /\ run'[r].run_date = run[r].run_date
    BY <1>1 DEF GoTo, IndInv, TypeOK, Run
  <1>3. dim' = dim \cup N /\ commit' = commit + 1
    BY AppendedRows
  <1>4. \A n \in N : n.is_current /\ n.effective_to = EndOfTime /\ n.added = commit + 1
    BY AppendedRows
  <1>5. \A n, m \in N : n.uid = m.uid => n = m
    BY AppendedRows
  <1>6. \A n \in N, v \in dim : n.added > v.added
    BY AppendedRows
  <1>7. commit \in Nat /\ \A v \in dim : v.added \in Nat /\ v.added <= commit
    BY DEF IndInv, TypeOK, Version, OrderInv, AddedByCommit
  <1>8. \A n \in N : n.uid # NULL =>
          \A v \in dim : v.uid = n.uid => \E x \in dim : /\ x.uid = n.uid /\ IsLast(x)
                                                         /\ ~x.is_current
                                                         /\ x.effective_to = n.effective_from
    BY AppendedFollows
  <1> HIDE DEF N
  <1>9. AddedByCommit'
    BY <1>3, <1>4, <1>7 DEF AddedByCommit
  <1>10. OnePerCommit'
    BY <1>3, <1>4, <1>5, <1>7 DEF OrderInv, OnePerCommit
  <1>11. \A n \in N, v \in dim : n.uid # NULL /\ v.is_current => v.uid # n.uid
    BY <1>8 DEF OrderInv, CurrentIsLast, IsLast, OnePerCommit, IndInv, TypeOK, Version
  <1>12. CurrentIsLast'
    BY <1>3, <1>4, <1>7, <1>11 DEF OrderInv, CurrentIsLast, IsLast
  <1>13. StartedRunsHaveDates'
    BY <1>1, <1>2 DEF OrderInv, StartedRunsHaveDates
  <1>14. StagedFollows'
    <2>1. \A q \in Runs : ~Writing(q)'
      BY <1>1, <1>2, OthersDoNotWrite DEF Writing
    <2> QED
      BY <2>1 DEF StagedFollows
  <1>15. WindowsEncodeOrder'
    <2>1. \A v \in dim, y \in dim : y \in Later(v) <=> y \in Later(v)'
      BY <1>3 DEF Later
    <2>2. ASSUME NEW v \in dim, v.uid # NULL, NEW y \in dim', IsNext(y, v)'
          PROVE  ~v.is_current /\ v.effective_to = y.effective_from
      <3>1. CASE y \in dim
        <4>1. IsNext(y, v)
          BY <1>3, <2>1, <2>2, <3>1 DEF IsNext, Later
        <4> QED
          BY <2>2, <3>1, <4>1 DEF OrderInv, WindowsEncodeOrder
      <3>2. CASE y \in N
        <4>1. y.uid = v.uid
          BY <2>2 DEF IsNext, Later
        <4>2. PICK x \in dim : /\ x.uid = y.uid /\ IsLast(x)
                               /\ ~x.is_current /\ x.effective_to = y.effective_from
          BY <1>8, <2>2, <3>2, <4>1
        <4>3. x.added > v.added => x \in Later(v)'
          BY <1>3, <4>1, <4>2 DEF Later
        <4>4. x.added <= v.added
          <5>1. x \in Later(v)' => y.added <= x.added
            BY <2>2 DEF IsNext
          <5>2. y.added > x.added /\ x.added \in Nat /\ v.added \in Nat /\ y.added \in Nat
            BY <1>4, <1>6, <1>7, <3>2
          <5> QED
            BY <4>3, <5>1, <5>2
        <4>5. v.added <= x.added
          BY <4>1, <4>2 DEF IsLast
        <4>6. x = v
          BY <1>7, <2>2, <4>1, <4>2, <4>4, <4>5 DEF OrderInv, OnePerCommit
        <4> QED
          BY <4>2, <4>6
      <3> QED
        BY <1>3, <3>1, <3>2
    <2>3. ASSUME NEW v \in dim, v.uid # NULL, Later(v)' = {}
          PROVE  v.is_current /\ v.effective_to = EndOfTime
      <3>1. Later(v) = {}
        BY <1>3, <2>3 DEF Later
      <3>2. \A n \in N : n.uid # v.uid
        BY <1>3, <1>6, <2>3 DEF Later
      <3>3. ~BetweenPasses(v.uid)
        <4> SUFFICES ASSUME NEW k \in KeysToClose(staging), k.uid = v.uid
                     PROVE  FALSE
          BY DEF BetweenPasses
        <4>1. PICK s \in staging : s.uid = v.uid /\ s.action \in {"changed", "deleted"}
          BY DEF KeysToClose
        <4>2. NewVersion(s, commit') \in N /\ NewVersion(s, commit').uid = v.uid
          BY <4>1 DEF N, NewVersions, NewVersion
        <4> QED
          BY <3>2, <4>2
      <3> QED
        BY <2>3, <3>1, <3>3 DEF OrderInv, WindowsEncodeOrder
    <2>4. ASSUME NEW n \in N
          PROVE  ~ \E y \in dim' : y \in Later(n)'
      BY <1>3, <1>4, <1>7 DEF Later
    <2> QED
      BY <1>3, <1>4, <2>2, <2>3, <2>4 DEF WindowsEncodeOrder, IsNext
  <1> QED
    BY <1>1, <1>9, <1>10, <1>12, <1>13, <1>14, <1>15 DEF OrderInv

(* Before a run classifies its changes nobody is between two passes, so a  *)
(* row that joins nothing is somebody's who has no version at all.         *)
LEMMA StageFollows ==
    ASSUME IndInv, NobodyLost, OrderInv, NEW r \in Runs, StageChanges(r),
           NEW s \in staging', s.uid # NULL
    PROVE  /\ s.action = "new" => StagedBegins(s)
           /\ s.action \in {"changed", "deleted"} =>
                \E v \in dim : StagedAfter(s, v) /\ v.is_current
  <1>1. PICK rows \in Deduped(landing[run[r].cdc_day]) :
          staging' = Staged(rows, dim, run[r].run_date)
    BY StagedMove DEF IndInv
  <1>2. PICK q \in rows : \E c \in LeftJoin(q.uid, dim), k \in LeftJoin(q.uid, dim) :
          s = StagedFrom(q, c, k, run[r].run_date)
    BY <1>1 DEF Staged
  <1>3. PICK c \in LeftJoin(q.uid, dim) : s = StagedFrom(q, c, c, run[r].run_date)
    BY <1>2, JoinIsSingle DEF IndInv
  <1>4. /\ s.uid = q.uid /\ s.profile = c.profile /\ s.segment = c.segment
        /\ s.address = Resolve(q, c).address
        /\ s.action = Classify(q.op, Resolve(q, c), c)
    BY <1>3 DEF StagedFrom, Resolve
  <1>5. CASE Matches(q.uid, dim) = {}
    <2>1. c.uid = NULL /\ c.profile = NULL /\ c.segment = NULL
      BY <1>5 DEF LeftJoin, NoMatch
    <2>2. s.action \in {"new", "unchanged"}
      BY <1>4, <2>1 DEF Classify
    <2>3. \A v \in dim : v.uid # s.uid
      <3>1. Active(r) /\ run[r].phase # "append"
        BY DEF StageChanges, Active
      <3>2. \A v \in dim : ~BetweenPasses(v.uid)
        BY <3>1, NobodyBetweenPasses
      <3>3. \A v \in dim : \E w \in Current(dim) : w.uid = v.uid
        BY <3>2 DEF NobodyLost, CurrentUnlessTorn, OrderInv
      <3> QED
        BY <1>4, <1>5, <3>3 DEF Matches
    <2> QED
      BY <1>4, <2>1, <2>2, <2>3 DEF StagedBegins
  <1>6. CASE Matches(q.uid, dim) # {}
    <2>1. c \in dim /\ c.is_current /\ c.uid = s.uid /\ c.uid # NULL
      BY <1>4, <1>6 DEF LeftJoin, Matches, Current
    <2>2. IsLast(c)
      BY <2>1 DEF OrderInv, CurrentIsLast
    <2>3. s.action # "new"
      BY <1>4, <2>1 DEF Classify
    <2>4. s.action = "deleted" => ~c.is_deleted
      BY <1>4 DEF Classify
    <2>5. s.action = "changed" => s.address # c.address
      <3>1. s.action = "changed" => RowHash(Resolve(q, c)) # RowHash(c)
        BY <1>4 DEF Classify
      <3>2. Resolve(q, c).segment = c.segment
        BY DEF Resolve
      <3> QED
        BY <1>4, <3>1, <3>2 DEF RowHash
    <2> QED
      BY <1>4, <2>1, <2>2, <2>3, <2>4, <2>5 DEF StagedAfter
  <1> QED
    BY <1>5, <1>6

LEMMA StageKeepsOrder ==
    ASSUME IndInv, NobodyLost, OrderInv, NEW r \in Runs, StageChanges(r)
    PROVE  OrderInv'
  <1>1. /\ Active(r) /\ run[r].phase = "cdc_apply" /\ UNCHANGED <<dim, commit, torn>>
    BY DEF StageChanges, Active
  <1>2. /\ \A q \in Runs : q # r => run'[q] = run[q]
        /\ run'[r].phase = NextPass({s.action : s \in staging'}, FALSE)
    BY StagedMove DEF IndInv
  <1>3. run'[r].run_date = run[r].run_date
    <2>1. PICK actions : run' = [run EXCEPT ![r].phase = NextPass(actions, FALSE),
                                            ![r].actions = actions]
      BY DEF StageChanges
    <2> QED
      BY <2>1 DEF IndInv, TypeOK, Run
  <1>4. AddedByCommit' /\ OnePerCommit'
    BY <1>1 DEF OrderInv, AddedByCommit, OnePerCommit
  <1>5. CurrentIsLast'
    BY <1>1 DEF OrderInv, CurrentIsLast, IsLast
  <1>6. StartedRunsHaveDates'
    BY <1>1, <1>2, <1>3 DEF OrderInv, StartedRunsHaveDates
  <1>7. StagedFollows'
    <2>1. \A q \in Runs : Writing(q)' => q = r
      BY <1>1, <1>2, OthersDoNotWrite
    <2>2. ASSUME NEW s \in staging', s.uid # NULL
          PROVE  /\ s.action = "new" => StagedBegins(s)'
                 /\ s.action \in {"changed", "deleted"} =>
                      \E v \in dim : StagedAfter(s, v)' /\ v.is_current
      BY <1>1, <2>2, StageFollows DEF StagedBegins, StagedAfter, IsLast
    <2>3. ASSUME NEW s \in staging', s.action \in {"changed", "deleted"}
          PROVE  run'[r].phase = "merge"
      BY <1>2, <2>3 DEF NextPass
    <2> QED
      BY <1>1, <2>1, <2>2, <2>3 DEF StagedFollows
  <1>8. WindowsEncodeOrder'
    <2>1. \A u : ~BetweenPasses(u)
      BY <1>1, NobodyBetweenPasses
    <2> QED
      BY <1>1, <2>1 DEF OrderInv, WindowsEncodeOrder, Later, IsNext
  <1> QED
    BY <1>1, <1>4, <1>5, <1>6, <1>7, <1>8 DEF OrderInv

LEMMA SeedKeepsOrder ==
    ASSUME IndInv, OrderInv, NEW r \in Runs, SeedDim(r), dim = {}
    PROVE  OrderInv'
  <1>1. /\ UNCHANGED <<staging, torn>> /\ run[r].phase = "gold_dims" /\ Active(r)
        /\ GoTo(r, "cdc_apply")
    BY DEF SeedDim, history, Active
  <1>2. /\ \A q \in Runs : q # r => run'[q] = run[q]
        /\ run'[r].phase = "cdc_apply" /\ run'[r].run_date = run[r].run_date
    BY <1>1 DEF GoTo, IndInv, TypeOK, Run
  <1>3. /\ commit' = commit + 1 /\ commit \in Nat
        /\ \A v \in dim' : /\ v.is_current /\ v.effective_to = EndOfTime
                           /\ v.added = commit + 1
        /\ \A v, w \in dim' : v.uid = w.uid => v = w
    BY SeededRows DEF IndInv, TypeOK
  <1>4. AddedByCommit' /\ OnePerCommit'
    BY <1>3 DEF AddedByCommit, OnePerCommit
  <1>5. CurrentIsLast'
    BY <1>3 DEF CurrentIsLast, IsLast
  <1>6. StartedRunsHaveDates'
    BY <1>1, <1>2 DEF OrderInv, StartedRunsHaveDates
  <1>7. StagedFollows'
    <2>1. \A q \in Runs : ~Writing(q)'
      BY <1>1, <1>2, OthersDoNotWrite DEF Writing
    <2> QED
      BY <2>1 DEF StagedFollows
  <1>8. WindowsEncodeOrder'
    BY <1>3 DEF WindowsEncodeOrder, IsNext, Later
  <1> QED
    BY <1>1, <1>4, <1>5, <1>6, <1>7, <1>8 DEF OrderInv

(* A step that leaves the tables alone, and nobody between two passes.     *)
LEMMA QuietKeepsOrder ==
    ASSUME OrderInv, NEW r \in Runs, UNCHANGED <<dim, commit, staging, torn>>,
           \A q \in Runs : q # r => run'[q] = run[q], ~Writing(r)',
           run'[r].run_date \in Dates,
           \A u : ~BetweenPasses(u)
    PROVE  OrderInv'
  <1>1. AddedByCommit' /\ OnePerCommit'
    BY DEF OrderInv, AddedByCommit, OnePerCommit
  <1>2. CurrentIsLast'
    BY DEF OrderInv, CurrentIsLast, IsLast
  <1>3. StartedRunsHaveDates'
    BY DEF OrderInv, StartedRunsHaveDates
  <1>4. StagedFollows'
    BY DEF OrderInv, StagedFollows, Writing, StagedBegins, StagedAfter, IsLast
  <1>5. WindowsEncodeOrder'
    BY DEF OrderInv, WindowsEncodeOrder, Later, IsNext
  <1> QED
    BY <1>1, <1>2, <1>3, <1>4, <1>5 DEF OrderInv

LEMMA OrderKept ==
    IndInv /\ NobodyLost /\ OrderInv /\ [Next /\ torn' = {}]_vars => OrderInv'
  <1> SUFFICES ASSUME IndInv, NobodyLost, OrderInv, [Next /\ torn' = {}]_vars
               PROVE  OrderInv'
    OBVIOUS
  <1>1. ASSUME NEW r \in Runs, NEW date \in Dates, NEW day \in Days \cup {0},
               Start(r, date, day)
        PROVE  OrderInv'
    <2>1. /\ \A q \in Runs : q # r => run'[q] = run[q]
          /\ run'[r].phase = "gold_dims" /\ run'[r].run_date = date
      BY <1>1 DEF Start, IndInv, TypeOK, Run
    <2>2. \A u : ~BetweenPasses(u)
      BY <1>1 DEF Start, NoActiveRun, Active, BetweenPasses
    <2> QED
      BY <1>1, <2>1, <2>2, QuietKeepsOrder DEF Start, tables, Writing
  <1>2. ASSUME NEW r \in Runs, NEW phase \in {"cdc_apply", "applied", "succeeded", "failed"},
               GoTo(r, phase), Active(r), UNCHANGED <<dim, commit, staging, torn>>,
               \A u : ~BetweenPasses(u)
        PROVE  OrderInv'
    <2>1. /\ \A q \in Runs : q # r => run'[q] = run[q]
          /\ run'[r].phase = phase /\ run'[r].run_date = run[r].run_date
      BY <1>2 DEF GoTo, IndInv, TypeOK, Run
    <2>2. run[r].run_date \in Dates
      BY <1>2 DEF OrderInv, StartedRunsHaveDates, Active
    <2> QED
      BY <1>2, <2>1, <2>2, QuietKeepsOrder DEF Writing
  <1>3. ASSUME NEW r \in Runs, SeedDim(r)
        PROVE  OrderInv'
    <2>1. CASE dim = {}
      BY <1>3, <2>1, SeedKeepsOrder
    <2>2. CASE dim # {}
      <3>1. /\ Active(r) /\ GoTo(r, "cdc_apply") /\ UNCHANGED <<dim, commit, staging, torn>>
            /\ run[r].phase # "append"
        BY <1>3, <2>2 DEF SeedDim, Active, history
      <3> QED
        BY <1>2, <3>1, NobodyBetweenPasses
    <2> QED
      BY <2>1, <2>2
  <1>4. ASSUME NEW r \in Runs, SkipCdc(r) \/ Finish(r)
        PROVE  OrderInv'
    <2>1. /\ Active(r) /\ (GoTo(r, "applied") \/ GoTo(r, "succeeded"))
          /\ UNCHANGED <<dim, commit, staging, torn>> /\ run[r].phase # "append"
      BY <1>4 DEF SkipCdc, Finish, Active, tables, history
    <2> QED
      BY <1>2, <2>1, NobodyBetweenPasses
  <1>5. ASSUME NEW r \in Runs, StageChanges(r)
        PROVE  OrderInv'
    BY <1>5, StageKeepsOrder
  <1>6. ASSUME NEW r \in Runs, CloseSuperseded(r)
        PROVE  OrderInv'
    BY <1>6, CloseKeepsOrder
  <1>7. ASSUME NEW r \in Runs, AppendVersions(r)
        PROVE  OrderInv'
    BY <1>7, AppendKeepsOrder
  <1>8. ASSUME NEW r \in Runs, Fail(r), torn' = {}
        PROVE  OrderInv'
    <2>1. /\ Active(r) /\ GoTo(r, "failed") /\ UNCHANGED <<dim, commit, staging>>
      BY <1>8 DEF Fail, tables
    <2>2. UNCHANGED torn
      BY <1>8 DEF OrderInv
    <2>3. \A u : ~BetweenPasses(u)
      <3>1. CASE run[r].phase # "append"
        BY <2>1, <3>1, NobodyBetweenPasses
      <3>2. CASE run[r].phase = "append"
        BY <1>8, <3>2 DEF Fail, BetweenPasses
      <3> QED
        BY <3>1, <3>2
    <2> QED
      BY <1>2, <2>1, <2>2, <2>3
  <1>9. CASE UNCHANGED vars
    <2>1. /\ UNCHANGED <<dim, commit, staging, run, torn>>
      BY <1>9 DEF vars, tables, history
    <2>2. AddedByCommit' /\ OnePerCommit' /\ StartedRunsHaveDates'
      BY <2>1 DEF OrderInv, AddedByCommit, OnePerCommit, StartedRunsHaveDates
    <2>3. CurrentIsLast'
      BY <2>1 DEF OrderInv, CurrentIsLast, IsLast
    <2>4. StagedFollows'
      BY <2>1 DEF OrderInv, StagedFollows, Writing, StagedBegins, StagedAfter, IsLast
    <2>5. WindowsEncodeOrder'
      BY <2>1 DEF OrderInv, WindowsEncodeOrder, Later, IsNext, BetweenPasses
    <2> QED
      BY <2>1, <2>2, <2>3, <2>4, <2>5 DEF OrderInv
  <1> QED
    BY <1>1, <1>3, <1>4, <1>5, <1>6, <1>7, <1>8, <1>9 DEF Next, Apply, Rest

LEMMA OrderInit == Init => OrderInv
  BY DEF Init, OrderInv, AddedByCommit, OnePerCommit, CurrentIsLast, StartedRunsHaveDates,
         StagedFollows, Writing, WindowsEncodeOrder

LEMMA OrderInvariance == UntornSpec => [](IndInv /\ NobodyLost /\ OrderInv)
  <1>1. [Next /\ torn' = {}]_vars => [Next]_vars
    OBVIOUS
  <1> QED
    BY <1>1, IndInit, IndKept, LostInit, LostKept, OrderInit, OrderKept, PTL DEF UntornSpec

(* A version's window ends where the next version of the person starts,    *)
(* whatever the run dates; the last one is current and open, unless a run  *)
(* is just replacing it.                                                   *)
THEOREM WindowsAreTheOrder == UntornSpec => []WindowsEncodeOrder
  <1>1. OrderInv => WindowsEncodeOrder
    BY DEF OrderInv
  <1> QED
    BY <1>1, OrderInvariance, PTL

-----------------------------------------------------------------------------
(* The refinement: what each step does to the timelines.                   *)
Timelines == {Entry(v) : v \in dim}

LEMMA EntryFields ==
    ASSUME NEW v
    PROVE  /\ Entry(v).uid = v.uid /\ Entry(v).address = v.address
           /\ Entry(v).segment = v.segment /\ Entry(v).profile = v.profile
           /\ Entry(v).effective_from = v.effective_from
           /\ Entry(v).is_deleted = v.is_deleted /\ Entry(v).added = v.added
  BY DEF Entry

(* The seed, in an empty table, is the seed of the timelines.              *)
LEMMA SeedStep ==
    ASSUME IndInv, NEW r \in Runs, SeedDim(r), dim = {}
    PROVE  Timeline!Seed
  <1>1. /\ \A v \in dim' : v.uid \in People /\ v.profile = v.uid /\ ~v.is_deleted
        /\ \A u \in People : \E v \in dim' : v.uid = u
        /\ \A v, w \in dim' : v.uid = w.uid => v = w
    BY SeededRows DEF IndInv
  <1>2. \A e \in Timelines' : \E v \in dim' : e = Entry(v)
    BY DEF Timelines
  <1>3. \A v \in dim' : Entry(v) \in Timelines'
    BY DEF Timelines
  <1>4. {e.uid : e \in Timelines'} = People
    BY <1>1, <1>2, <1>3, EntryFields
  <1>5. Timeline!AtMostOnePerPerson(Timelines')
    BY <1>1, <1>2, EntryFields DEF Timeline!AtMostOnePerPerson
  <1>6. \A e \in Timelines' : ~e.is_deleted /\ e.profile = e.uid
    BY <1>1, <1>2, EntryFields
  <1>7. Timelines = {}
    BY DEF Timelines
  <1> QED
    BY <1>4, <1>5, <1>6, <1>7 DEF Timeline!Seed, Timelines

(* The MERGE writes windows and flags only: it does not show.              *)
LEMMA MergeStep ==
    ASSUME IndInv, NEW r \in Runs, CloseSuperseded(r)
    PROVE  UNCHANGED Timelines
  <1> DEFINE date == run[r].run_date
  <1>1. \A v \in dim : \A w : Merged(v, w, date) => Entry(w) = Entry(v)
    BY MergedFields DEF Entry, IndInv, TypeOK
  <1>2. /\ \A w \in dim' : \E v \in dim : Merged(v, w, date)
        /\ \A v \in dim : \E w \in dim' : Merged(v, w, date)
    BY MergeIsImage
  <1> QED
    BY <1>1, <1>2 DEF Timelines

(* The append is the whole batch.                                          *)
LEMMA AppendStep ==
    ASSUME IndInv, OrderInv, NEW r \in Runs, AppendVersions(r)
    PROVE  Timeline!ApplyBatch
  <1> DEFINE N == NewVersions(staging, commit')
             new == Timelines' \ Timelines
  <1>1. dim' = dim \cup N
    BY AppendedRows
  <1>2. \A n \in N : n.effective_from = run[r].run_date
    BY AppendedRows
  <1>3. \A n, m \in N : n.uid = m.uid => n = m
    BY AppendedRows
  <1>4. \A n \in N, v \in dim : n.added > v.added
    BY AppendedRows
  <1>5. \A n \in N : n.uid # NULL =>
           \/ /\ \A v \in dim : v.uid # n.uid
              /\ ~n.is_deleted /\ n.profile = NULL /\ n.segment = NULL
           \/ \E v \in dim :
                /\ v.uid = n.uid /\ IsLast(v)
                /\ n.profile = v.profile /\ n.segment = v.segment
                /\ IF n.is_deleted THEN ~v.is_deleted ELSE n.address # v.address
    BY AppendedFollows
  <1> HIDE DEF N
  <1>6. Timelines \subseteq Timelines'
    BY <1>1 DEF Timelines
  <1>7. \A e \in new : \E n \in N : e = Entry(n)
    BY <1>1 DEF Timelines
  <1> HIDE DEF new
  <1>8. run[r].run_date \in Dates
    BY DEF AppendVersions, OrderInv, StartedRunsHaveDates
  <1>9. \A e \in new : e.effective_from = run[r].run_date
    BY <1>2, <1>7, EntryFields
  <1>10. Timeline!AtMostOnePerPerson(new)
    BY <1>3, <1>7, EntryFields DEF Timeline!AtMostOnePerPerson
  <1>11. ASSUME NEW e \in new, e.uid # NULL
         PROVE  IF Timeline!Latest(e.uid) = {} THEN Timeline!Begins(e)
                ELSE \A l \in Timeline!Latest(e.uid) : Timeline!Follows(e, l)
    <2>1. PICK n \in N : e = Entry(n)
      BY <1>7
    <2>2. n.uid = e.uid /\ n.uid # NULL
      BY <1>11, <2>1, EntryFields
    <2>3. Timeline!Latest(e.uid) =
            {l \in Timelines : l.uid = e.uid /\ \A w \in Timelines : w.uid = e.uid => w.added <= l.added}
      BY DEF Timeline!Latest, Timelines
    <2>4. CASE /\ \A v \in dim : v.uid # n.uid
               /\ ~n.is_deleted /\ n.profile = NULL /\ n.segment = NULL
      <3>1. Timeline!Latest(e.uid) = {}
        BY <2>2, <2>3, <2>4, EntryFields DEF Timelines
      <3>2. Timeline!Begins(e)
        BY <2>1, <2>4, EntryFields DEF Timeline!Begins
      <3> QED
        BY <3>1, <3>2
    <2>5. ASSUME NEW v \in dim, v.uid = n.uid, IsLast(v),
                 n.profile = v.profile, n.segment = v.segment,
                 IF n.is_deleted THEN ~v.is_deleted ELSE n.address # v.address
          PROVE  IF Timeline!Latest(e.uid) = {} THEN Timeline!Begins(e)
                 ELSE \A l \in Timeline!Latest(e.uid) : Timeline!Follows(e, l)
      <3>1. Entry(v) \in Timelines
        BY DEF Timelines
      <3>2. \A w \in Timelines : w.uid = e.uid => w.added <= Entry(v).added
        <4>1. \A x \in dim : x.uid = v.uid => x.added <= v.added
          BY <2>5 DEF IsLast
        <4> QED
          BY <2>2, <2>5, <4>1, EntryFields DEF Timelines
      <3>3. Entry(v) \in Timeline!Latest(e.uid)
        BY <2>2, <2>3, <2>5, <3>1, <3>2, EntryFields
      <3>4. ASSUME NEW l \in Timeline!Latest(e.uid)
            PROVE  l = Entry(v)
        <4>1. PICK x \in dim : l = Entry(x)
          BY <2>3 DEF Timelines
        <4>2. x.uid = v.uid /\ v.added <= x.added
          BY <2>2, <2>3, <2>5, <3>1, <4>1, EntryFields
        <4>3. x.added <= v.added
          BY <2>5, <4>2 DEF IsLast
        <4>4. x.added \in Nat /\ v.added \in Nat
          BY DEF IndInv, TypeOK, Version
        <4>5. x = v
          BY <2>2, <2>5, <4>2, <4>3, <4>4 DEF OrderInv, OnePerCommit
        <4> QED
          BY <4>1, <4>5
      <3>5. Timeline!Follows(e, Entry(v))
        <4>1. n.added > v.added
          BY <1>4
        <4> QED
          BY <2>1, <2>5, <4>1, EntryFields DEF Timeline!Follows
      <3> QED
        BY <3>3, <3>4, <3>5
    <2> QED
      BY <1>5, <2>2, <2>4, <2>5
  <1> QED
    BY <1>6, <1>8, <1>9, <1>10, <1>11 DEF Timeline!ApplyBatch, Timelines, new

LEMMA EveryStepIsATimelineStep ==
    IndInv /\ NobodyLost /\ OrderInv /\ [Next /\ torn' = {}]_vars
        => [Timeline!Next]_Timelines
  <1> SUFFICES ASSUME IndInv, NobodyLost, OrderInv, [Next /\ torn' = {}]_vars
               PROVE  Timeline!Next \/ UNCHANGED Timelines
    OBVIOUS
  <1>1. CASE UNCHANGED dim
    BY <1>1 DEF Timelines
  <1>2. ASSUME NEW r \in Runs, SeedDim(r)
        PROVE  Timeline!Next \/ UNCHANGED Timelines
    <2>1. CASE dim = {}
      BY <1>2, <2>1, SeedStep DEF Timeline!Next
    <2>2. CASE dim # {}
      BY <1>1, <1>2, <2>2 DEF SeedDim
    <2> QED
      BY <2>1, <2>2
  <1>3. ASSUME NEW r \in Runs, CloseSuperseded(r)
        PROVE  UNCHANGED Timelines
    BY <1>3, MergeStep
  <1>4. ASSUME NEW r \in Runs, AppendVersions(r)
        PROVE  Timeline!Next
    BY <1>4, AppendStep DEF Timeline!Next
  <1> QED
    BY <1>1, <1>2, <1>3, <1>4
       DEF Next, Apply, Start, SkipCdc, StageChanges, Finish, Fail, Rest, vars, tables

(* CustomerDim implements CustomerTimeline: for any number of runs, people, *)
(* dates and change files, in any order, repeated or not, as long as no    *)
(* run fails between its MERGE and its append.                             *)
THEOREM DimensionImplementsTimeline == UntornSpec => ImplementsTimeline
  <1>1. Init => Timeline!Init
    BY DEF Init, Timeline!Init
  <1>2. IndInv /\ NobodyLost /\ OrderInv /\ [Next /\ torn' = {}]_vars
            => [Timeline!Next]_({Entry(v) : v \in dim})
    BY EveryStepIsATimelineStep DEF Timelines
  <1> QED
    BY <1>1, <1>2, OrderInvariance, PTL DEF UntornSpec, ImplementsTimeline, Timeline!Spec
-----------------------------------------------------------------------------
(***************************************************************************)
(* Spellings.  The address of a version is the feed's or the one of the    *)
(* version before it, so once a timeline has the feed's it keeps it.       *)
(***************************************************************************)
FedOr(address, v) == address \in FeedAddresses \/ address = v.address

Precedes(v, w) ==
    /\ v.uid = w.uid /\ v.added < w.added
    /\ \A x \in dim : x.uid = w.uid /\ x.added < w.added => x.added <= v.added

StagedFed ==
    \A r \in Runs : Writing(r) =>
        \A s \in staging : s.uid # NULL /\ s.action \in {"changed", "deleted"} =>
            \A v \in dim : v.uid = s.uid /\ IsLast(v) => FedOr(s.address, v)

VersionsFed ==
    \A v, w \in dim : w.uid # NULL /\ Precedes(v, w) =>
        FedOr(w.address, v) /\ (w.is_deleted \/ w.address # v.address)

FeedSticks ==
    \A v, w \in dim : w.uid # NULL /\ v.uid = w.uid /\ v.added < w.added =>
        (v.address \in FeedAddresses => w.address \in FeedAddresses)

SpellInv == StagedFed /\ VersionsFed /\ FeedSticks

LEMMA StageKeepsSpelling ==
    ASSUME IndInv, OrderInv, SpellInv, NEW r \in Runs, StageChanges(r)
    PROVE  SpellInv'
  <1>1. UNCHANGED dim
    BY DEF StageChanges
  <1>2. PICK rows \in Deduped(landing[run[r].cdc_day]) :
          staging' = Staged(rows, dim, run[r].run_date)
    BY StagedMove DEF IndInv
  <1>3. ASSUME NEW s \in staging', s.uid # NULL, s.action \in {"changed", "deleted"},
               NEW v \in dim, v.uid = s.uid, IsLast(v)
        PROVE  FedOr(s.address, v)
    <2>1. PICK q \in rows : \E c \in LeftJoin(q.uid, dim), k \in LeftJoin(q.uid, dim) :
            s = StagedFrom(q, c, k, run[r].run_date)
      BY <1>2, <1>3 DEF Staged
    <2>2. PICK c \in LeftJoin(q.uid, dim) : s = StagedFrom(q, c, c, run[r].run_date)
      BY <2>1, JoinIsSingle DEF IndInv
    <2>3. /\ s.uid = q.uid /\ s.address = Coalesce(q.address, c.address)
          /\ s.action = Classify(q.op, Resolve(q, c), c)
      BY <2>2 DEF StagedFrom, Resolve
    <2>4. Matches(q.uid, dim) # {}
      BY <1>3, <2>3 DEF LeftJoin, NoMatch, Classify
    <2>5. c \in dim /\ c.is_current /\ c.uid = s.uid
      BY <2>3, <2>4 DEF LeftJoin, Matches, Current
    <2>6. c = v
      <3>1. IsLast(c)
        BY <1>3, <2>5 DEF OrderInv, CurrentIsLast
      <3>2. c.added <= v.added /\ v.added <= c.added /\ c.added \in Nat /\ v.added \in Nat
        BY <1>3, <2>5, <3>1 DEF IsLast, IndInv, TypeOK, Version
      <3> QED
        BY <1>3, <2>5, <3>2 DEF OrderInv, OnePerCommit
    <2>7. q \in UNION ChangeFiles
      <3>1. run[r].cdc_day \in Days
        BY DEF StageChanges, IndInv, TypeOK, Run
      <3>2. landing[run[r].cdc_day] \in ChangeFiles
        BY <3>1 DEF IndInv, TypeOK
      <3> QED
        BY <3>2 DEF Deduped, LatestRows
    <2>8. CASE q.address = NULL
      BY <2>3, <2>6, <2>8 DEF Coalesce, FedOr
    <2>9. CASE q.address # NULL
      BY <2>3, <2>7, <2>9 DEF Coalesce, FedOr, FeedAddresses
    <2> QED
      BY <2>8, <2>9
  <1>4. StagedFed'
    BY <1>1, <1>3 DEF StagedFed, IsLast, FedOr
  <1>5. VersionsFed' /\ FeedSticks'
    BY <1>1 DEF SpellInv, VersionsFed, FeedSticks, Precedes, FedOr
  <1> QED
    BY <1>4, <1>5 DEF SpellInv

LEMMA CloseKeepsSpelling ==
    ASSUME IndInv, SpellInv, NEW r \in Runs, CloseSuperseded(r)
    PROVE  SpellInv'
  <1> DEFINE date == run[r].run_date
  <1>1. /\ Active(r) /\ Writing(r) /\ UNCHANGED staging
        /\ GoTo(r, NextPass(run[r].actions, TRUE))
    BY DEF CloseSuperseded, Active, Writing
  <1>2. \A q \in Runs : q # r => run'[q] = run[q]
    BY <1>1 DEF GoTo
  <1>3. \A w \in dim' : \E v \in dim : Merged(v, w, date)
    BY MergeIsImage
  <1>4. \A v \in dim : \E w \in dim' : Merged(v, w, date)
    BY MergeIsImage
  <1>5. \A v \in dim, w \in dim' : Merged(v, w, date) =>
          /\ w.uid = v.uid /\ w.added = v.added /\ w.address = v.address
          /\ w.is_deleted = v.is_deleted
    BY MergedFields DEF IndInv, TypeOK
  <1> HIDE DEF date
  <1>6. StagedFed'
    <2>1. \A q \in Runs : Writing(q)' => q = r
      BY <1>1, <1>2, OthersDoNotWrite
    <2> SUFFICES ASSUME NEW s \in staging, s.uid # NULL, s.action \in {"changed", "deleted"},
                        NEW w \in dim', w.uid = s.uid, IsLast(w)'
                 PROVE  FedOr(s.address, w)
      BY <1>1, <2>1 DEF StagedFed, FedOr
    <2>2. PICK v \in dim : Merged(v, w, date)
      BY <1>3
    <2>3. IsLast(v)
      BY <1>4, <1>5, <2>2 DEF IsLast
    <2> QED
      BY <1>1, <1>5, <2>2, <2>3 DEF SpellInv, StagedFed, FedOr
  <1>7. VersionsFed'
    <2> SUFFICES ASSUME NEW w \in dim', NEW y \in dim', y.uid # NULL, Precedes(w, y)'
                 PROVE  FedOr(y.address, w) /\ (y.is_deleted \/ y.address # w.address)
      BY DEF VersionsFed, FedOr
    <2>1. PICK v \in dim : Merged(v, w, date)
      BY <1>3
    <2>2. PICK x \in dim : Merged(x, y, date)
      BY <1>3
    <2>3. Precedes(v, x)
      BY <1>4, <1>5, <2>1, <2>2 DEF Precedes
    <2> QED
      BY <1>5, <2>1, <2>2, <2>3 DEF SpellInv, VersionsFed, FedOr
  <1>8. FeedSticks'
    BY <1>3, <1>5 DEF SpellInv, FeedSticks
  <1> QED
    BY <1>6, <1>7, <1>8 DEF SpellInv

LEMMA AppendKeepsSpelling ==
    ASSUME IndInv, OrderInv, SpellInv, NEW r \in Runs, AppendVersions(r)
    PROVE  SpellInv'
  <1> DEFINE N == NewVersions(staging, commit')
  <1>1. /\ Active(r) /\ Writing(r) /\ run[r].phase = "append" /\ GoTo(r, "applied")
    BY DEF AppendVersions, Active, Writing
  <1>2. /\ \A q \in Runs : q # r => run'[q] = run[q]
        /\ run'[r].phase = "applied"
    BY <1>1 DEF GoTo, IndInv, TypeOK, Run
  <1>3. dim' = dim \cup N
    BY AppendedRows
  <1>4. \A n, m \in N : n.uid = m.uid => n = m
    BY AppendedRows
  <1>5. \A n \in N, v \in dim : n.added > v.added /\ n.added \in Nat /\ v.added \in Nat
    <2>1. commit \in Nat /\ \A v \in dim : v.added \in Nat
      BY DEF IndInv, TypeOK, Version
    <2> QED
      BY <2>1, AppendedRows
  <1>6. ASSUME NEW n \in N, n.uid # NULL, NEW v \in dim, v.uid = n.uid, IsLast(v)
        PROVE  FedOr(n.address, v) /\ (n.is_deleted \/ n.address # v.address)
    <2>1. PICK s \in staging :
            /\ s.action \in {"new", "changed", "deleted"} /\ n.uid = s.uid
            /\ n.address = s.address
            /\ n.is_deleted = (s.action = "deleted")
      BY AppendedRows
    <2>2. s.action # "new"
      BY <1>1, <1>6, <2>1 DEF OrderInv, StagedFollows, StagedBegins
    <2>3. FedOr(n.address, v)
      BY <1>1, <1>6, <2>1, <2>2 DEF SpellInv, StagedFed
    <2>4. PICK x \in dim : StagedAfter(s, x)
      BY <1>1, <1>6, <2>1, <2>2 DEF OrderInv, StagedFollows
    <2>5. x = v
      <3>1. x.added <= v.added /\ v.added <= x.added
        BY <1>6, <2>1, <2>4 DEF StagedAfter, IsLast
      <3> QED
        BY <1>6, <2>1, <2>4, <3>1 DEF OrderInv, OnePerCommit, StagedAfter, IndInv, TypeOK, Version
    <2> QED
      BY <2>1, <2>2, <2>3, <2>4, <2>5 DEF StagedAfter
  <1> HIDE DEF N
  <1>7. StagedFed'
    <2>1. \A q \in Runs : ~Writing(q)'
      BY <1>1, <1>2, OthersDoNotWrite DEF Writing
    <2> QED
      BY <2>1 DEF StagedFed
  <1>8. VersionsFed'
    <2> SUFFICES ASSUME NEW v \in dim', NEW w \in dim', w.uid # NULL, Precedes(v, w)'
                 PROVE  FedOr(w.address, v) /\ (w.is_deleted \/ w.address # v.address)
      BY DEF VersionsFed, FedOr
    <2>1. v.uid = w.uid /\ v.added < w.added
      BY DEF Precedes
    <2>2. v \in dim
      <3>1. CASE v \in N /\ w \in dim
        BY <1>5, <2>1, <3>1
      <3>2. CASE v \in N /\ w \in N
        <4>1. v = w /\ v.added < v.added
          BY <1>4, <2>1, <3>2
        <4>2. \A n \in N : n.added = commit + 1 /\ commit \in Nat
          BY AppendedRows DEF N, IndInv, TypeOK
        <4> QED
          BY <3>2, <4>1, <4>2
      <3> QED
        BY <1>3, <3>1, <3>2
    <2>3. CASE w \in dim
      BY <1>3, <2>2, <2>3 DEF SpellInv, VersionsFed, Precedes
    <2>4. CASE w \in N
      <3>1. IsLast(v)
        BY <1>3, <1>5, <2>1, <2>4 DEF Precedes, IsLast
      <3> QED
        BY <1>6, <2>1, <2>2, <2>4, <3>1
    <2> QED
      BY <1>3, <2>3, <2>4
  <1>9. FeedSticks'
    <2> SUFFICES ASSUME NEW v \in dim', NEW w \in dim', w.uid # NULL, v.uid = w.uid,
                        v.added < w.added, v.address \in FeedAddresses
                 PROVE  w.address \in FeedAddresses
      BY DEF FeedSticks
    <2>1. v \in dim
      <3>1. CASE v \in N /\ w \in dim
        BY <1>5, <3>1
      <3>2. CASE v \in N /\ w \in N
        <4>1. v.added < v.added
          BY <1>4, <3>2
        <4>2. \A n \in N : n.added = commit + 1 /\ commit \in Nat
          BY AppendedRows DEF N, IndInv, TypeOK
        <4> QED
          BY <3>2, <4>1, <4>2
      <3> QED
        BY <1>3, <3>1, <3>2
    <2>2. CASE w \in dim
      BY <2>1, <2>2 DEF SpellInv, FeedSticks
    <2>3. CASE w \in N
      <3>1. PICK x \in dim : x.uid = w.uid /\ IsLast(x)
        BY <2>1, <2>3, AppendedFollows DEF N
      <3>2. x.address \in FeedAddresses
        <4>1. v.added <= x.added /\ v.added \in Nat /\ x.added \in Nat
          BY <2>1, <3>1 DEF IsLast, IndInv, TypeOK, Version
        <4>2. CASE v.added = x.added
          BY <2>1, <3>1, <4>2 DEF OrderInv, OnePerCommit
        <4>3. CASE v.added < x.added
          BY <2>1, <3>1, <4>3 DEF SpellInv, FeedSticks
        <4> QED
          BY <4>1, <4>2, <4>3
      <3> QED
        BY <1>6, <2>3, <3>1, <3>2 DEF FedOr
    <2> QED
      BY <1>3, <2>2, <2>3
  <1> QED
    BY <1>7, <1>8, <1>9 DEF SpellInv

LEMMA SeedKeepsSpelling ==
    ASSUME IndInv, OrderInv, SpellInv, NEW r \in Runs, SeedDim(r), dim = {}
    PROVE  SpellInv'
  <1>1. /\ UNCHANGED staging /\ Active(r) /\ GoTo(r, "cdc_apply")
    BY DEF SeedDim, Active
  <1>2. /\ \A q \in Runs : q # r => run'[q] = run[q]
        /\ run'[r].phase = "cdc_apply"
    BY <1>1 DEF GoTo, IndInv, TypeOK, Run
  <1>3. commit \in Nat /\ \A v \in dim' : v.added = commit + 1
    BY SeededRows DEF IndInv, TypeOK
  <1>4. \A q \in Runs : ~Writing(q)'
    BY <1>1, <1>2, OthersDoNotWrite DEF Writing
  <1> QED
    BY <1>3, <1>4 DEF SpellInv, StagedFed, VersionsFed, FeedSticks, Precedes

(* A step that leaves the tables alone and begins no pass.                 *)
LEMMA QuietKeepsSpelling ==
    ASSUME SpellInv, UNCHANGED <<dim, staging>>, \A q \in Runs : Writing(q)' => Writing(q)
    PROVE  SpellInv'
  <1>1. StagedFed'
    BY DEF SpellInv, StagedFed, IsLast, FedOr
  <1>2. VersionsFed' /\ FeedSticks'
    BY DEF SpellInv, VersionsFed, FeedSticks, Precedes, FedOr
  <1> QED
    BY <1>1, <1>2 DEF SpellInv

LEMMA SpellingKept ==
    ASSUME IndInv, OrderInv, SpellInv, [Next]_vars
    PROVE  SpellInv'
  <1>1. ASSUME NEW r \in Runs, NEW phase \in {"cdc_apply", "applied", "succeeded", "failed"},
               GoTo(r, phase), UNCHANGED <<dim, staging>>
        PROVE  SpellInv'
    <2>1. /\ \A q \in Runs : q # r => run'[q] = run[q]
          /\ run'[r].phase = phase
      BY <1>1 DEF GoTo, IndInv, TypeOK, Run
    <2>2. \A q \in Runs : Writing(q)' => Writing(q)
      BY <2>1 DEF Writing
    <2> QED
      BY <1>1, <2>2, QuietKeepsSpelling
  <1>2. ASSUME NEW r \in Runs, NEW date \in Dates, NEW day \in Days \cup {0},
               Start(r, date, day)
        PROVE  SpellInv'
    <2>1. /\ \A q \in Runs : q # r => run'[q] = run[q]
          /\ run'[r].phase = "gold_dims" /\ UNCHANGED <<dim, staging>>
      BY <1>2 DEF Start, IndInv, TypeOK, Run, tables
    <2>2. \A q \in Runs : Writing(q)' => Writing(q)
      BY <2>1 DEF Writing
    <2> QED
      BY <2>1, <2>2, QuietKeepsSpelling
  <1>3. ASSUME NEW r \in Runs, SeedDim(r)
        PROVE  SpellInv'
    <2>1. CASE dim = {}
      BY <1>3, <2>1, SeedKeepsSpelling
    <2>2. CASE dim # {}
      BY <1>1, <1>3, <2>2 DEF SeedDim
    <2> QED
      BY <2>1, <2>2
  <1>4. ASSUME NEW r \in Runs, SkipCdc(r) \/ Finish(r) \/ Fail(r)
        PROVE  SpellInv'
    BY <1>1, <1>4 DEF SkipCdc, Finish, Fail, tables
  <1>5. CASE UNCHANGED vars
    BY <1>5, QuietKeepsSpelling DEF vars, tables, Writing
  <1> QED
    BY <1>2, <1>3, <1>4, <1>5, StageKeepsSpelling, CloseKeepsSpelling, AppendKeepsSpelling
       DEF Next, Apply, Rest

LEMMA SpellingInit == Init => SpellInv
  BY DEF Init, SpellInv, StagedFed, VersionsFed, FeedSticks, Writing

(* Two versions for a spelling would both replace an address that is not   *)
(* the feed's, but the first of them put the feed's in its place.          *)
LEMMA SpelledOnce ==
    ASSUME FeedSpelling, IndInv, OrderInv, SpellInv
    PROVE  SpellingCostsOneVersion
  <1>1. ASSUME NEW u \in Customers, NEW w \in Unmoved(u)
        PROVE  /\ w \in dim /\ w.uid = u /\ w.address \in FeedAddresses
               /\ \E v \in dim : Precedes(v, w) /\ v.address \notin FeedAddresses
    <2>1. /\ w \in dim /\ w.uid = u /\ ~w.is_deleted /\ w.address # NULL /\ u # NULL
      BY NullIsNotData DEF Unmoved
    <2>2. PICK v \in dim : IsNext(w, v) /\ v.address # NULL /\ v.address.place = w.address.place
      BY DEF Unmoved
    <2>3. Precedes(v, w)
      <3>1. v.uid = w.uid /\ v.added < w.added
        BY <2>2 DEF IsNext, Later
      <3>2. ASSUME NEW x \in dim, x.uid = w.uid, x.added < w.added
            PROVE  x.added <= v.added
        <4>1. x \in Later(v) => w.added <= x.added
          BY <2>2 DEF IsNext
        <4>2. x \notin Later(v)
          BY <2>1, <3>2, <4>1 DEF IndInv, TypeOK, Version
        <4> QED
          BY <2>2, <3>1, <3>2, <4>2 DEF Later, IndInv, TypeOK, Version
      <3> QED
        BY <3>1, <3>2 DEF Precedes
    <2>4. w.address \in FeedAddresses /\ w.address # v.address
      BY <2>1, <2>3 DEF SpellInv, VersionsFed, FedOr
    <2> QED
      BY <2>1, <2>2, <2>3, <2>4 DEF FeedSpelling
  <1>2. ASSUME NEW u \in Customers, NEW v \in Unmoved(u), NEW w \in Unmoved(u),
               v.added < w.added
        PROVE  FALSE
    <2>1. PICK x \in dim : Precedes(x, w) /\ x.address \notin FeedAddresses
      BY <1>1
    <2>2. /\ v \in dim /\ w \in dim /\ v.uid = u /\ w.uid = u /\ v.address \in FeedAddresses
          /\ u # NULL
      BY <1>1, NullIsNotData
    <2>3. v.added <= x.added /\ x.uid = v.uid
      BY <1>2, <2>1, <2>2 DEF Precedes
    <2>4. CASE v.added = x.added
      BY <2>1, <2>2, <2>3, <2>4 DEF OrderInv, OnePerCommit
    <2>5. CASE v.added < x.added
      BY <2>1, <2>2, <2>3, <2>5 DEF SpellInv, FeedSticks
    <2> QED
      BY <2>1, <2>2, <2>3, <2>4, <2>5 DEF IndInv, TypeOK, Version
  <1> SUFFICES ASSUME NEW u \in Customers, NEW v \in Unmoved(u), NEW w \in Unmoved(u)
               PROVE  v = w
    BY DEF SpellingCostsOneVersion
  <1>3. /\ v \in dim /\ w \in dim /\ v.uid = w.uid /\ v.added \in Nat /\ w.added \in Nat
    BY <1>1 DEF IndInv, TypeOK, Version
  <1>4. v.added = w.added
    BY <1>2, <1>3
  <1> QED
    BY <1>3, <1>4 DEF OrderInv, OnePerCommit

(* The feed's spelling of a city makes a version for somebody who has not  *)
(* moved, but only once: of a feed that writes every place in one way, for *)
(* any number of runs, dates and files, in any order, repeated or not,     *)
(* through deletions and rows without an address.                          *)
THEOREM OneVersionPerSpelling ==
    ASSUME FeedSpelling
    PROVE  UntornSpec => []SpellingCostsOneVersion
  <1>1. [Next /\ torn' = {}]_vars => [Next]_vars
    OBVIOUS
  <1>2. IndInv /\ OrderInv /\ SpellInv /\ [Next]_vars => SpellInv'
    BY SpellingKept
  <1>3. IndInv /\ OrderInv /\ SpellInv => SpellingCostsOneVersion
    BY SpelledOnce
  <1> QED
    BY <1>1, <1>2, <1>3, SpellingInit, OrderInvariance, PTL DEF UntornSpec
=============================================================================
