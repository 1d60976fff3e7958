----------------------------- MODULE RunLog_proofs -----------------------------
(***************************************************************************)
(* Proofs about RunLog, for every chain of tasks, every set of runs and    *)
(* every number of attempts.                                               *)
(***************************************************************************)
EXTENDS RunLog, FiniteSetTheorems, TLAPS

(* A row is written only of a task that logs, after its body completed.    *)
LogFollowsBody ==
    \A r \in Runs : run[r].phase = "log" =>
        IsLogged(r, Task(r)) /\ <<r, Task(r)>> \in done

(* The tasks a run has come past, the one it is about to leave included.   *)
Passed(r) ==
    {i \in DOMAIN Tasks : \/ i < run[r].at
                          \/ run[r].phase = "succeeded"
                          \/ run[r].phase = "after" /\ i = run[r].at}

PassedHaveRows ==
    \A r \in Runs : \A i \in Passed(r) :
        IsLogged(r, Tasks[i]) => Row(r, Tasks[i], "succeeded") \in Rows

(* The tasks the attempt of a run has still to log.                        *)
Ahead(r) ==
    {i \in DOMAIN Tasks : \/ run[r].at < i
                          \/ run[r].phase \in {"body", "log"} /\ i = run[r].at}

(* A task has a row per attempt at most, and one less while the attempt    *)
(* still has to log it.                                                    *)
RowsFitAttempts ==
    \A r \in Runs : \A i \in DOMAIN Tasks :
        /\ Cardinality(RowsOf(r, Tasks[i])) <= run[r].attempts
        /\ run[r].phase # "queued" /\ i \in Ahead(r) =>
              Cardinality(RowsOf(r, Tasks[i])) < run[r].attempts

QueuedIsFresh == \A r \in Runs : run[r].phase = "queued" => run[r].attempts = 0

IndInv ==
    /\ TypeOK
    /\ QueuedIsFresh
    /\ LogFollowsBody
    /\ PassedHaveRows
    /\ RowsFitAttempts
    /\ RaisedIsNotSucceeded

-----------------------------------------------------------------------------
(* The rows of a task are finitely many.                                   *)
LEMMA RowsAreFinite ==
    ASSUME TypeOK, NEW r, NEW t
    PROVE  IsFiniteSet(RowsOf(r, t)) /\ Cardinality(RowsOf(r, t)) \in Nat
  <1>1. Len(pipeline_runs) \in Nat /\ DOMAIN pipeline_runs = 1 .. Len(pipeline_runs)
    BY DEF TypeOK
  <1>2. IsFiniteSet(1 .. Len(pipeline_runs))
    BY <1>1, FS_Interval
  <1>3. RowsOf(r, t) \in SUBSET (1 .. Len(pipeline_runs))
    BY <1>1 DEF RowsOf
  <1>4. IsFiniteSet(RowsOf(r, t))
    BY <1>2, <1>3, FS_Subset
  <1> QED
    BY <1>4, FS_CardinalityType

(* Writing a row adds it to the rows, and to those of its own task only.   *)
LEMMA RecordAddsOneRow ==
    ASSUME TypeOK, NEW r \in Runs, NEW status \in {"succeeded", "failed"},
           NEW t \in Logged, t = Task(r), Record(r, status)
    PROVE  /\ pipeline_runs' \in Seq(LogRow)
           /\ Rows' = Rows \cup {Row(r, t, status)}
           /\ \A q, u : <<q, u>> # <<r, t>> => RowsOf(q, u)' = RowsOf(q, u)
           /\ Cardinality(RowsOf(r, t)') = Cardinality(RowsOf(r, t)) + 1
  <1> DEFINE row == Row(r, t, status)
             n   == Len(pipeline_runs)
  <1>1. row \in LogRow
    BY DEF Row, LogRow
  <1>2. pipeline_runs' = Append(pipeline_runs, row)
    BY DEF Record, Row
  <1> HIDE DEF row
  <1>3. pipeline_runs \in Seq(LogRow)
    BY DEF TypeOK
  <1>4. /\ pipeline_runs' \in Seq(LogRow)
        /\ n \in Nat
        /\ DOMAIN pipeline_runs = 1 .. n
        /\ DOMAIN pipeline_runs' = 1 .. n + 1
        /\ \A i \in 1 .. n : pipeline_runs'[i] = pipeline_runs[i]
        /\ pipeline_runs'[n + 1] = row
    BY <1>1, <1>2, <1>3
  <1> HIDE DEF n
  <1>5. 1 .. n + 1 = (1 .. n) \cup {n + 1} /\ n + 1 \notin 1 .. n
    BY <1>4
  <1>6. Rows' = Rows \cup {row}
    BY <1>4, <1>5 DEF Rows
  <1>7. row.run_id = r /\ row.task_name = t
    BY DEF row, Row
  <1>8. ASSUME NEW q, NEW u, <<q, u>> # <<r, t>>
        PROVE  RowsOf(q, u)' = RowsOf(q, u)
    BY <1>4, <1>5, <1>7, <1>8 DEF RowsOf
  <1>9. RowsOf(r, t) \cup {n + 1} =
            {i \in DOMAIN pipeline_runs' :
                pipeline_runs'[i].run_id = r /\ pipeline_runs'[i].task_name = t}
    BY <1>4, <1>5, <1>7 DEF RowsOf
  <1> QED
    <2>1. n + 1 \notin RowsOf(r, t)
      BY <1>4, <1>5 DEF RowsOf
    <2>2. IsFiniteSet(RowsOf(r, t))
      BY RowsAreFinite
    <2>3. Cardinality(RowsOf(r, t) \cup {n + 1}) = Cardinality(RowsOf(r, t)) + 1
      BY <2>1, <2>2, FS_AddElement
    <2> QED
      BY <1>4, <1>6, <1>8, <1>9, <2>3 DEF RowsOf, row

-----------------------------------------------------------------------------
(* A step of one run that writes no row keeps the invariant if it enters   *)
(* "log" only after a body, comes past no task that logs, and has no task  *)
(* ahead that it had not, unless it begins an attempt.                     *)
LEMMA SilentStep ==
    ASSUME IndInv, NEW r \in Runs,
           run' \in [Runs -> Run],
           \A q \in Runs \ {r} : run'[q] = run[q],
           UNCHANGED pipeline_runs,
           done \subseteq done', interrupted \subseteq interrupted',
           run'[r].phase # "queued",
           run'[r].phase = "log" => (IsLogged(r, Task(r)))' /\ <<r, Task(r)'>> \in done',
           \A i \in Passed(r)' : IsLogged(r, Tasks[i])' =>
               i \in Passed(r) /\ IsLogged(r, Tasks[i]),
           \/ run'[r].attempts > run[r].attempts
           \/ run'[r].attempts = run[r].attempts /\ run[r].phase # "queued"
                 /\ Ahead(r)' \subseteq Ahead(r)
    PROVE  IndInv'
  <1>1. TypeOK'
    BY DEF IndInv, TypeOK
  <1>2. QueuedIsFresh'
    BY DEF IndInv, QueuedIsFresh
  <1>3. LogFollowsBody'
    <2> SUFFICES ASSUME NEW q \in Runs, run'[q].phase = "log"
                 PROVE  IsLogged(q, Task(q))' /\ <<q, Task(q)'>> \in done'
      BY DEF LogFollowsBody
    <2>1. CASE q = r
      BY <2>1
    <2>2. CASE q # r
      BY <2>2 DEF IndInv, LogFollowsBody, IsLogged, Task
    <2> QED
      BY <2>1, <2>2
  <1>4. PassedHaveRows'
    <2> SUFFICES ASSUME NEW q \in Runs, NEW i \in Passed(q)', IsLogged(q, Tasks[i])'
                 PROVE  Row(q, Tasks[i], "succeeded") \in Rows'
      BY DEF PassedHaveRows, Row
    <2>1. i \in Passed(q) /\ IsLogged(q, Tasks[i])
      BY DEF Passed, IsLogged
    <2>2. Rows' = Rows
      BY DEF Rows
    <2> QED
      BY <2>1, <2>2 DEF IndInv, PassedHaveRows
  <1>5. RowsFitAttempts'
    <2> SUFFICES ASSUME NEW q \in Runs, NEW i \in DOMAIN Tasks
                 PROVE  /\ Cardinality(RowsOf(q, Tasks[i])') <= run'[q].attempts
                        /\ run'[q].phase # "queued" /\ i \in Ahead(q)' =>
                              Cardinality(RowsOf(q, Tasks[i])') < run'[q].attempts
      BY DEF RowsFitAttempts
    <2>1. RowsOf(q, Tasks[i])' = RowsOf(q, Tasks[i])
      BY DEF RowsOf
    <2>2. Cardinality(RowsOf(q, Tasks[i])) \in Nat
      BY RowsAreFinite DEF IndInv
    <2>3. run[q].attempts \in Nat /\ run'[q].attempts \in Nat
      BY AttemptsAreCounted DEF IndInv, TypeOK, Run
    <2>4. /\ Cardinality(RowsOf(q, Tasks[i])) <= run[q].attempts
          /\ run[q].phase # "queued" /\ i \in Ahead(q) =>
                Cardinality(RowsOf(q, Tasks[i])) < run[q].attempts
      BY DEF IndInv, RowsFitAttempts
    <2>5. CASE q = r
      BY <2>1, <2>2, <2>3, <2>4, <2>5
    <2>6. CASE q # r
      BY <2>1, <2>4, <2>6 DEF Ahead
    <2> QED
      BY <2>5, <2>6
  <1>6. RaisedIsNotSucceeded'
    BY DEF IndInv, RaisedIsNotSucceeded, Rows
  <1> QED
    BY <1>1, <1>2, <1>3, <1>4, <1>5, <1>6 DEF IndInv

(* A run that writes the row of its task keeps the invariant if it leaves  *)
(* the task, and says "succeeded" when it goes on but not of a body that   *)
(* raised.                                                                 *)
LEMMA LoggingStep ==
    ASSUME IndInv, NEW r \in Runs, NEW status \in {"succeeded", "failed"},
           IsLogged(r, Task(r)), Record(r, status),
           run[r].phase \in {"body", "log"},
           run' \in [Runs -> Run],
           \A q \in Runs \ {r} : run'[q] = run[q],
           run'[r].phase \in {"after", "failed"},
           run'[r].at = run[r].at, run'[r].attempts = run[r].attempts,
           run'[r].cdc_day = run[r].cdc_day,
           done \subseteq done', interrupted \subseteq interrupted',
           run'[r].phase = "after" => status = "succeeded",
           status = "succeeded" => <<r, Task(r)>> \in done' \cup interrupted'
    PROVE  IndInv'
  <1>0. PICK t \in Logged : t = Task(r)
    BY DEF IsLogged
  <1>1. /\ pipeline_runs' \in Seq(LogRow)
        /\ Rows' = Rows \cup {Row(r, t, status)}
        /\ \A q, u : <<q, u>> # <<r, t>> => RowsOf(q, u)' = RowsOf(q, u)
        /\ Cardinality(RowsOf(r, t)') = Cardinality(RowsOf(r, t)) + 1
    BY <1>0, RecordAddsOneRow DEF IndInv
  <1>2. TypeOK'
    BY <1>1 DEF TypeOK
  <1>3. QueuedIsFresh'
    BY DEF IndInv, QueuedIsFresh
  <1>4. LogFollowsBody'
    <2> SUFFICES ASSUME NEW q \in Runs, run'[q].phase = "log"
                 PROVE  IsLogged(q, Task(q))' /\ <<q, Task(q)'>> \in done'
      BY DEF LogFollowsBody
    <2>1. q # r
      OBVIOUS
    <2> QED
      BY <2>1 DEF IndInv, LogFollowsBody, IsLogged, Task
  <1>5. PassedHaveRows'
    <2> SUFFICES ASSUME NEW q \in Runs, NEW i \in Passed(q)', IsLogged(q, Tasks[i])'
                 PROVE  Row(q, Tasks[i], "succeeded") \in Rows'
      BY DEF PassedHaveRows, Row
    <2>1. IsLogged(q, Tasks[i])
      BY DEF IsLogged
    <2>2. CASE i \in Passed(q)
      BY <1>1, <2>1, <2>2 DEF IndInv, PassedHaveRows
    <2>3. CASE i \notin Passed(q)
      <3>1. q = r /\ i = run[r].at /\ run'[r].phase = "after"
        BY <2>3 DEF Passed
      <3>2. Tasks[i] = t
        BY <1>0, <3>1 DEF Task
      <3> QED
        BY <1>1, <3>1, <3>2
    <2> QED
      BY <2>2, <2>3
  <1>6. RowsFitAttempts'
    <2> SUFFICES ASSUME NEW q \in Runs, NEW i \in DOMAIN Tasks
                 PROVE  /\ Cardinality(RowsOf(q, Tasks[i])') <= run'[q].attempts
                        /\ run'[q].phase # "queued" /\ i \in Ahead(q)' =>
                              Cardinality(RowsOf(q, Tasks[i])') < run'[q].attempts
      BY DEF RowsFitAttempts
    <2>1. /\ Cardinality(RowsOf(q, Tasks[i])) <= run[q].attempts
          /\ run[q].phase # "queued" /\ i \in Ahead(q) =>
                Cardinality(RowsOf(q, Tasks[i])) < run[q].attempts
      BY DEF IndInv, RowsFitAttempts
    <2>2. CASE q = r /\ i = run[r].at
      <3>1. Tasks[i] = t
        BY <1>0, <2>2 DEF Task
      <3>2. i \in Ahead(r) /\ run[r].phase # "queued"
        BY <2>2 DEF Ahead
      <3>3. i \notin Ahead(r)'
        <4>1. run[r].at \in Int
          BY TaskChain DEF IndInv, TypeOK, Run
        <4> QED
          BY <4>1, <2>2 DEF Ahead
      <3>4. Cardinality(RowsOf(r, t)) \in Nat /\ run[r].attempts \in Nat
        BY RowsAreFinite, AttemptsAreCounted DEF IndInv, TypeOK, Run
      <3> QED
        BY <1>1, <2>1, <2>2, <3>1, <3>2, <3>3, <3>4
    <2>3. CASE ~ (q = r /\ i = run[r].at)
      <3>1. run[r].at \in DOMAIN Tasks
        BY DEF IndInv, TypeOK, Run
      <3>2. <<q, Tasks[i]>> # <<r, t>>
        BY <1>0, <2>3, <3>1, TaskChain DEF Task
      <3>3. RowsOf(q, Tasks[i])' = RowsOf(q, Tasks[i])
        BY <1>1, <3>2
      <3>4. run'[q].attempts = run[q].attempts
        OBVIOUS
      <3>5. i \in Ahead(q)' /\ run'[q].phase # "queued" => i \in Ahead(q) /\ run[q].phase # "queued"
        BY <2>3 DEF Ahead
      <3> QED
        BY <2>1, <3>3, <3>4, <3>5
    <2> QED
      BY <2>2, <2>3
  <1>7. RaisedIsNotSucceeded'
    <2> SUFFICES ASSUME NEW row \in Rows', row.status = "succeeded"
                 PROVE  <<row.run_id, row.task_name>> \in done' \cup interrupted'
      BY DEF RaisedIsNotSucceeded
    <2>1. CASE row \in Rows
      BY <2>1 DEF IndInv, RaisedIsNotSucceeded
    <2>2. CASE row = Row(r, t, status)
      BY <1>0, <2>2 DEF Row
    <2> QED
      BY <1>1, <2>1, <2>2
  <1> QED
    BY <1>2, <1>3, <1>4, <1>5, <1>6, <1>7 DEF IndInv

-----------------------------------------------------------------------------
(* Moving a run to another phase changes nothing else.                     *)
LEMMA GoToMoves ==
    ASSUME TypeOK, NEW r \in Runs, NEW phase \in {"log", "after", "failed"}, GoTo(r, phase)
    PROVE  /\ run' \in [Runs -> Run]
           /\ \A q \in Runs \ {r} : run'[q] = run[q]
           /\ run'[r].phase = phase
           /\ run'[r].at = run[r].at
           /\ run'[r].attempts = run[r].attempts
           /\ run'[r].cdc_day = run[r].cdc_day
  BY DEF TypeOK, GoTo, Run

LEMMA StartPreserves ==
    ASSUME IndInv, NEW r \in Runs, NEW cdc_day \in {0, 1}, Start(r, cdc_day)
    PROVE  IndInv'
  <1>1. 1 \in DOMAIN Tasks /\ 1 \in 0 .. MaxAttempts
    BY TaskChain, AttemptsAreCounted
  <1>2. /\ run' \in [Runs -> Run]
        /\ \A q \in Runs \ {r} : run'[q] = run[q]
        /\ run'[r].phase = "body" /\ run'[r].at = 1 /\ run'[r].attempts = 1
    BY <1>1 DEF Start, IndInv, TypeOK, Run
  <1>3. Passed(r)' = {}
    BY <1>2, TaskChain DEF Passed
  <1>4. run[r].attempts = 0
    BY DEF Start, IndInv, QueuedIsFresh
  <1>5. run'[r].attempts > run[r].attempts
    BY <1>2, <1>4
  <1>6. UNCHANGED <<pipeline_runs, done, interrupted>>
    BY DEF Start
  <1> QED
    BY <1>2, <1>3, <1>5, <1>6, SilentStep

LEMMA CompletePreserves ==
    ASSUME IndInv, NEW r \in Runs, Complete(r)
    PROVE  IndInv'
  <1> DEFINE phase == IF IsLogged(r, Task(r)) THEN "log" ELSE "after"
  <1>1. /\ run' \in [Runs -> Run]
        /\ \A q \in Runs \ {r} : run'[q] = run[q]
        /\ run'[r].phase = phase
        /\ run'[r].at = run[r].at
        /\ run'[r].attempts = run[r].attempts
        /\ run'[r].cdc_day = run[r].cdc_day
    BY GoToMoves DEF Complete, IndInv
  <1>2. /\ done' = done \cup {<<r, Task(r)>>} /\ run[r].phase = "body"
        /\ UNCHANGED <<pipeline_runs, interrupted>>
    BY DEF Complete
  <1>3. Task(r)' = Task(r) /\ \A t : IsLogged(r, t)' = IsLogged(r, t)
    BY <1>1 DEF Task, IsLogged
  <1>4. run'[r].phase = "log" => (IsLogged(r, Task(r)))' /\ <<r, Task(r)'>> \in done'
    BY <1>1, <1>2, <1>3 DEF IsLogged
  <1>5. ASSUME NEW i \in Passed(r)', IsLogged(r, Tasks[i])'
        PROVE  i \in Passed(r) /\ IsLogged(r, Tasks[i])
    <2>1. IsLogged(r, Tasks[i])
      BY <1>3, <1>5
    <2>2. CASE i < run[r].at
      BY <2>1, <2>2 DEF Passed
    <2>3. CASE ~(i < run[r].at)
      <3>1. i = run[r].at /\ run'[r].phase = "after"
        BY <1>1, <2>3 DEF Passed
      <3> QED
        BY <1>1, <2>1, <3>1 DEF Task
    <2> QED
      BY <2>2, <2>3
  <1>6. Ahead(r)' \subseteq Ahead(r)
    BY <1>1, <1>2 DEF Ahead
  <1> QED
    BY <1>1, <1>2, <1>4, <1>5, <1>6, SilentStep

LEMMA LogSucceededPreserves ==
    ASSUME IndInv, NEW r \in Runs, LogSucceeded(r)
    PROVE  IndInv'
  <1>1. IsLogged(r, Task(r)) /\ <<r, Task(r)>> \in done
    BY DEF LogSucceeded, IndInv, LogFollowsBody
  <1>2. Record(r, "succeeded")
    BY DEF LogSucceeded, LogSuccess
  <1>3. GoTo(r, "after") /\ run[r].phase = "log" /\ UNCHANGED <<done, interrupted>>
    BY DEF LogSucceeded
  <1>4. /\ run' \in [Runs -> Run]
        /\ \A q \in Runs \ {r} : run'[q] = run[q]
        /\ run'[r].phase = "after" /\ run'[r].at = run[r].at
        /\ run'[r].attempts = run[r].attempts /\ run'[r].cdc_day = run[r].cdc_day
    BY <1>3, GoToMoves DEF IndInv
  <1> QED
    BY <1>1, <1>2, <1>3, <1>4, LoggingStep

LEMMA EndTaskPreserves ==
    ASSUME IndInv, NEW r \in Runs, EndTask(r)
    PROVE  IndInv'
  <1>1. run[r] \in Run /\ run[r].phase = "after" /\ UNCHANGED <<pipeline_runs, done, interrupted>>
    BY DEF EndTask, IndInv, TypeOK
  <1>2. run[r].at \in DOMAIN Tasks /\ run[r].at \in Nat
    BY <1>1, TaskChain DEF Run
  <1>3. CASE run[r].at < Len(Tasks)
    <2>1. run[r].at + 1 \in DOMAIN Tasks
      BY <1>2, <1>3, TaskChain
    <2>2. run' = [run EXCEPT ![r].at = @ + 1, ![r].phase = "body"]
      BY <1>3 DEF EndTask, Advance
    <2>3. /\ run' \in [Runs -> Run]
          /\ \A q \in Runs \ {r} : run'[q] = run[q]
          /\ run'[r].phase = "body" /\ run'[r].at = run[r].at + 1
          /\ run'[r].attempts = run[r].attempts /\ run'[r].cdc_day = run[r].cdc_day
      BY <1>1, <2>1, <2>2 DEF IndInv, TypeOK, Run
    <2>4. \A i \in Passed(r)' : i \in Passed(r)
      BY <1>1, <1>2, <2>3, TaskChain DEF Passed
    <2>5. Ahead(r)' \subseteq Ahead(r)
      BY <1>1, <1>2, <2>3, TaskChain DEF Ahead
    <2>6. \A t : IsLogged(r, t)' = IsLogged(r, t)
      BY <2>3 DEF IsLogged
    <2> QED
      BY <1>1, <2>3, <2>4, <2>5, <2>6, SilentStep
  <1>4. CASE ~(run[r].at < Len(Tasks))
    <2>1. run' = [run EXCEPT ![r].phase = "succeeded"]
      BY <1>4 DEF EndTask, Advance, GoTo
    <2>2. /\ run' \in [Runs -> Run]
          /\ \A q \in Runs \ {r} : run'[q] = run[q]
          /\ run'[r].phase = "succeeded" /\ run'[r].at = run[r].at
          /\ run'[r].attempts = run[r].attempts /\ run'[r].cdc_day = run[r].cdc_day
      BY <1>1, <2>1 DEF IndInv, TypeOK, Run
    <2>3. DOMAIN Tasks \subseteq Passed(r)
      BY <1>1, <1>2, <1>4, TaskChain DEF Passed
    <2>4. Ahead(r)' \subseteq Ahead(r)
      BY <2>2 DEF Ahead
    <2>5. \A t : IsLogged(r, t)' = IsLogged(r, t)
      BY <2>2 DEF IsLogged
    <2>6. \A i \in Passed(r)' : i \in Passed(r)
      BY <2>3 DEF Passed
    <2> QED
      BY <1>1, <2>2, <2>4, <2>5, <2>6, SilentStep
  <1> QED
    BY <1>3, <1>4

(* Giving up on a task without a row.                                      *)
LEMMA FailSilently ==
    ASSUME IndInv, NEW r \in Runs, Active(r), GoTo(r, "failed"),
           UNCHANGED <<pipeline_runs, done>>, interrupted \subseteq interrupted'
    PROVE  IndInv'
  <1>1. /\ run' \in [Runs -> Run]
        /\ \A q \in Runs \ {r} : run'[q] = run[q]
        /\ run'[r].phase = "failed" /\ run'[r].at = run[r].at
        /\ run'[r].attempts = run[r].attempts /\ run'[r].cdc_day = run[r].cdc_day
    BY GoToMoves DEF IndInv
  <1>2. Ahead(r)' \subseteq Ahead(r) /\ \A i \in Passed(r)' : i \in Passed(r)
    BY <1>1 DEF Ahead, Passed
  <1>3. \A t : IsLogged(r, t)' = IsLogged(r, t)
    BY <1>1 DEF IsLogged
  <1>4. run[r].phase # "queued"
    BY DEF Active
  <1> QED
    BY <1>1, <1>2, <1>3, <1>4, SilentStep

LEMMA RaisePreserves ==
    ASSUME IndInv, NEW r \in Runs, Raise(r)
    PROVE  IndInv'
  <1>1. run[r].phase = "body" /\ GoTo(r, "failed") /\ UNCHANGED <<done, interrupted>> /\ Active(r)
    BY DEF Raise, Active
  <1>2. CASE IsLogged(r, Task(r))
    <2>1. Record(r, "failed")
      BY <1>2 DEF Raise, OnException
    <2>2. /\ run' \in [Runs -> Run]
          /\ \A q \in Runs \ {r} : run'[q] = run[q]
          /\ run'[r].phase = "failed" /\ run'[r].at = run[r].at
          /\ run'[r].attempts = run[r].attempts /\ run'[r].cdc_day = run[r].cdc_day
      BY <1>1, GoToMoves DEF IndInv
    <2> QED
      BY <1>1, <1>2, <2>1, <2>2, LoggingStep
  <1>3. CASE ~IsLogged(r, Task(r))
    BY <1>1, <1>3, FailSilently DEF Raise
  <1> QED
    BY <1>2, <1>3

LEMMA InterruptPreserves ==
    ASSUME IndInv, NEW r \in Runs, Interrupt(r)
    PROVE  IndInv'
  <1>1. /\ run[r].phase = "body" /\ GoTo(r, "failed") /\ UNCHANGED done /\ Active(r)
        /\ interrupted' = interrupted \cup {<<r, Task(r)>>}
    BY DEF Interrupt, Active
  <1>2. CASE IsLogged(r, Task(r))
    <2>1. Record(r, "succeeded")
      BY <1>2 DEF Interrupt
    <2>2. /\ run' \in [Runs -> Run]
          /\ \A q \in Runs \ {r} : run'[q] = run[q]
          /\ run'[r].phase = "failed" /\ run'[r].at = run[r].at
          /\ run'[r].attempts = run[r].attempts /\ run'[r].cdc_day = run[r].cdc_day
      BY <1>1, GoToMoves DEF IndInv
    <2> QED
      BY <1>1, <1>2, <2>1, <2>2, LoggingStep
  <1>3. CASE ~IsLogged(r, Task(r))
    BY <1>1, <1>3, FailSilently DEF Interrupt
  <1> QED
    BY <1>2, <1>3

LEMMA RepairPreserves ==
    ASSUME IndInv, NEW r \in Runs, Repair(r)
    PROVE  IndInv'
  <1>1. run[r] \in Run /\ run[r].attempts \in Nat /\ run[r].phase = "failed"
    BY AttemptsAreCounted DEF IndInv, TypeOK, Run, Repair
  <1>2. run[r].attempts + 1 \in 0 .. MaxAttempts
    BY <1>1, AttemptsAreCounted DEF Repair
  <1>3. /\ run' \in [Runs -> Run]
        /\ \A q \in Runs \ {r} : run'[q] = run[q]
        /\ run'[r].phase = "body" /\ run'[r].at = run[r].at
        /\ run'[r].attempts = run[r].attempts + 1 /\ run'[r].cdc_day = run[r].cdc_day
    BY <1>1, <1>2 DEF Repair, IndInv, TypeOK, Run
  <1>4. \A i \in Passed(r)' : i \in Passed(r)
    BY <1>3 DEF Passed
  <1>5. \A t : IsLogged(r, t)' = IsLogged(r, t)
    BY <1>3 DEF IsLogged
  <1>6. run'[r].attempts > run[r].attempts
    BY <1>1, <1>3
  <1> QED
    BY <1>3, <1>4, <1>5, <1>6, SilentStep DEF Repair

LEMMA StutterPreserves ==
    ASSUME IndInv, UNCHANGED vars
    PROVE  IndInv'
  BY DEF IndInv, vars, TypeOK, QueuedIsFresh, LogFollowsBody, PassedHaveRows, RowsFitAttempts,
         RaisedIsNotSucceeded, IsLogged, Task, Rows, RowsOf, Passed, Ahead

-----------------------------------------------------------------------------
LEMMA InitIndInv == Init => IndInv
  <1> SUFFICES ASSUME Init PROVE IndInv
    OBVIOUS
  <1>1. TypeOK
    BY TaskChain, AttemptsAreCounted DEF Init, TypeOK, Run
  <1>2. QueuedIsFresh /\ LogFollowsBody /\ RaisedIsNotSucceeded
    BY DEF Init, QueuedIsFresh, LogFollowsBody, RaisedIsNotSucceeded, Rows
  <1>3. PassedHaveRows
    BY TaskChain DEF Init, PassedHaveRows, Passed
  <1>4. RowsFitAttempts
    <2>1. \A r, t : RowsOf(r, t) = {}
      BY DEF Init, RowsOf
    <2>2. Cardinality({}) = 0
      BY FS_EmptySet
    <2>3. \A r \in Runs : run[r].attempts = 0 /\ run[r].phase = "queued"
      BY DEF Init
    <2> QED
      BY <2>1, <2>2, <2>3 DEF RowsFitAttempts
  <1> QED
    BY <1>1, <1>2, <1>3, <1>4 DEF IndInv

LEMMA NextIndInv == IndInv /\ [Next]_vars => IndInv'
  <1> SUFFICES ASSUME IndInv, [Next]_vars PROVE IndInv'
    OBVIOUS
  <1>1. ASSUME NEW r \in Runs, NEW cdc_day \in {0, 1}, Start(r, cdc_day) PROVE IndInv'
    BY <1>1, StartPreserves
  <1>2. ASSUME NEW r \in Runs, Complete(r) PROVE IndInv'
    BY <1>2, CompletePreserves
  <1>3. ASSUME NEW r \in Runs, LogSucceeded(r) PROVE IndInv'
    BY <1>3, LogSucceededPreserves
  <1>4. ASSUME NEW r \in Runs, EndTask(r) PROVE IndInv'
    BY <1>4, EndTaskPreserves
  <1>5. ASSUME NEW r \in Runs, Raise(r) PROVE IndInv'
    BY <1>5, RaisePreserves
  <1>6. ASSUME NEW r \in Runs, Interrupt(r) PROVE IndInv'
    BY <1>6, InterruptPreserves
  <1>7. ASSUME NEW r \in Runs, Lose(r) PROVE IndInv'
    BY <1>7, FailSilently DEF Lose
  <1>8. ASSUME NEW r \in Runs, Repair(r) PROVE IndInv'
    BY <1>8, RepairPreserves
  <1>9. CASE UNCHANGED vars
    BY <1>9, StutterPreserves
  <1> QED
    BY <1>1, <1>2, <1>3, <1>4, <1>5, <1>6, <1>7, <1>8, <1>9 DEF Next, Rest

LEMMA Inductive == Spec => []IndInv
  BY InitIndInv, NextIndInv, PTL DEF Spec

(* A run stays within its chain and its attempts, and rows are of tasks    *)
(* that log.                                                               *)
THEOREM LogTypeCorrect == Spec => []TypeOK
  <1>1. IndInv => TypeOK
    BY DEF IndInv
  <1> QED
    BY <1>1, Inductive, PTL

(* "Always records an outcome" (run_log.py:81): whatever fails and however *)
(* often a run is repaired, the logged tasks it came past have their row.  *)
THEOREM OutcomesAreRecorded == Spec => []PassedTasksAreLogged
  <1>1. IndInv => PassedTasksAreLogged
    BY DEF IndInv, PassedHaveRows, Passed, PassedTasksAreLogged
  <1> QED
    BY <1>1, Inductive, PTL

(* No attempt logs a task twice, in any number of attempts.                *)
THEOREM AttemptsLogOnce == Spec => []OneRowPerAttempt
  <1>1. ASSUME IndInv, NEW r \in Runs, NEW t \in Logged
        PROVE  Cardinality(RowsOf(r, t)) <= run[r].attempts
    <2>1. PICK i \in DOMAIN Tasks : Tasks[i] = t
      BY TaskChain
    <2> QED
      BY <1>1, <2>1 DEF IndInv, RowsFitAttempts
  <1>2. IndInv => OneRowPerAttempt
    BY <1>1 DEF OneRowPerAttempt
  <1> QED
    BY <1>2, Inductive, PTL

(* A body that raised is never logged as a success.                        *)
THEOREM FailuresAreNotSuccesses == Spec => []RaisedIsNotSucceeded
  <1>1. IndInv => RaisedIsNotSucceeded
    BY DEF IndInv
  <1> QED
    BY <1>1, Inductive, PTL
================================================================================
