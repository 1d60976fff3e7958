-------------------------------- MODULE RunLog --------------------------------
(***************************************************************************)
(* ops.pipeline_runs under the job's task chain: logged_task of            *)
(* src/src/ops/run_log.py around the body of a task, tasks that raise, are *)
(* interrupted or lose their cluster, and repairs, which take a failed run *)
(* up at its failed task under the same job run id.                        *)
(***************************************************************************)
EXTENDS Naturals, Sequences, FiniteSets

CONSTANTS
    Runs,
    Tasks,       \* the task keys of the job, in order
    Logged,      \* those whose notebook opens a logged_task
    MaxAttempts  \* of one run

(* A chain has at least one task, and none twice; only its tasks log.      *)
ASSUME TaskChain ==
    /\ Len(Tasks) \in Nat \ {0} /\ DOMAIN Tasks = 1 .. Len(Tasks)
    /\ \A i, j \in DOMAIN Tasks : Tasks[i] = Tasks[j] => i = j
    /\ Logged \subseteq {Tasks[i] : i \in DOMAIN Tasks}
ASSUME AttemptsAreCounted == MaxAttempts \in Nat \ {0}

VARIABLES
    run,            \* run[r]: phase, the task it is at, attempts, cdc_day
    pipeline_runs,  \* the rows of ops.pipeline_runs, in the order they were written
    done,           \* history: <<run, task>> whose body has completed
    interrupted     \* history: <<run, task>> whose body has been interrupted

vars == <<run, pipeline_runs, done, interrupted>>

Init ==
    /\ run = [r \in Runs |-> [phase |-> "queued", at |-> 1, attempts |-> 0, cdc_day |-> 0]]
    /\ pipeline_runs = <<>>
    /\ done = {}
    /\ interrupted = {}

Active(r) == run[r].phase \in {"body", "log", "after"}

Task(r) == Tasks[run[r].at]

(* 40_cdc_apply opens no logged_task when cdc_day is 0.                    *)
IsLogged(r, t) == t \in Logged /\ (t = "cdc_apply" => run[r].cdc_day # 0)

GoTo(r, phase) == run' = [run EXCEPT ![r].phase = phase]

RecordTwice(r, status) ==   \* a bug: a failure is written by except and by finally
    pipeline_runs' = pipeline_runs \o
        [i \in 1 .. IF status = "failed" THEN 2 ELSE 1 |->
            [run_id |-> r, task_name |-> Task(r), status |-> status]]

Record(r, status) ==
    pipeline_runs' = Append(pipeline_runs,
                        [run_id |-> r, task_name |-> Task(r), status |-> status])

-----------------------------------------------------------------------------
Start(r, cdc_day) ==
    /\ run[r].phase = "queued"
    /\ \A q \in Runs : ~Active(q)
    /\ run' = [run EXCEPT ![r] = [phase |-> "body", at |-> 1, attempts |-> 1,
                                  cdc_day |-> cdc_day]]
    /\ UNCHANGED <<pipeline_runs, done, interrupted>>

(* depends_on: the next task, or the end of the run.                       *)
AdvancePastEnd(r) ==   \* a bug: off by one
    IF run[r].at <= Len(Tasks)
    THEN run' = [run EXCEPT ![r].at = @ + 1, ![r].phase = "body"]
    ELSE GoTo(r, "succeeded")

Advance(r) ==
    IF run[r].at < Len(Tasks)
    THEN run' = [run EXCEPT ![r].at = @ + 1, ![r].phase = "body"]
    ELSE GoTo(r, "succeeded")

(* The body of a task completes.                                           *)
Complete(r) ==
    /\ run[r].phase = "body"
    /\ done' = done \cup {<<r, Task(r)>>}
    /\ GoTo(r, IF IsLogged(r, Task(r)) THEN "log" ELSE "after")
    /\ UNCHANGED <<pipeline_runs, interrupted>>

(* logged_task's finally, after a body that completed.                     *)
LogNothing(r, status) == UNCHANGED pipeline_runs   \* a bug: no row but for a failure

LogSuccess(r, status) == Record(r, status)

LogSucceeded(r) ==
    /\ run[r].phase = "log"
    /\ LogSuccess(r, "succeeded")
    /\ GoTo(r, "after")
    /\ UNCHANGED <<done, interrupted>>

(* The cells after the logged_task pass as well: the task is green.        *)
EndTask(r) ==
    /\ run[r].phase = "after"
    /\ Advance(r)
    /\ UNCHANGED <<pipeline_runs, done, interrupted>>

(* The body raises: `except Exception` notes the failure, finally logs it, *)
(* the exception goes on and the task is red.                              *)
Unmarked == "succeeded"   \* a bug: the status is not set in the except branch

OnException == "failed"

Raise(r) ==
    /\ run[r].phase = "body"
    /\ IF IsLogged(r, Task(r)) THEN Record(r, OnException) ELSE UNCHANGED pipeline_runs
    /\ GoTo(r, "failed")
    /\ UNCHANGED <<done, interrupted>>

(* The body is interrupted: KeyboardInterrupt and SystemExit are not       *)
(* Exceptions, so finally logs the status it was initialised with.         *)
Interrupt(r) ==
    /\ run[r].phase = "body"
    /\ IF IsLogged(r, Task(r)) THEN Record(r, "succeeded") ELSE UNCHANGED pipeline_runs
    /\ interrupted' = interrupted \cup {<<r, Task(r)>>}
    /\ GoTo(r, "failed")
    /\ UNCHANGED done

(* The cluster is lost, writing the row fails, or a cell after it does: no *)
(* row is written.                                                         *)
Lose(r) ==
    /\ Active(r)
    /\ GoTo(r, "failed")
    /\ UNCHANGED <<pipeline_runs, done, interrupted>>

Repair(r) ==
    /\ run[r].phase = "failed"
    /\ run[r].attempts < MaxAttempts
    /\ \A q \in Runs : ~Active(q)
    /\ run' = [run EXCEPT ![r].phase = "body", ![r].attempts = @ + 1]
    /\ UNCHANGED <<pipeline_runs, done, interrupted>>

Rest ==
    /\ \A r \in Runs : run[r].phase \in {"succeeded", "failed"}
    /\ UNCHANGED vars

Next ==
    \/ \E r \in Runs :
         \/ \E cdc_day \in {0, 1} : Start(r, cdc_day)
         \/ Complete(r) \/ LogSucceeded(r) \/ EndTask(r)
         \/ Raise(r) \/ Interrupt(r) \/ Lose(r) \/ Repair(r)
    \/ Rest

Spec == Init /\ [][Next]_vars

-----------------------------------------------------------------------------
Row(r, t, status) == [run_id |-> r, task_name |-> t, status |-> status]
Rows == {pipeline_runs[i] : i \in DOMAIN pipeline_runs}
RowsOf(r, t) ==
    {i \in DOMAIN pipeline_runs : pipeline_runs[i].run_id = r /\ pipeline_runs[i].task_name = t}

Run ==
    [phase : {"queued", "body", "log", "after", "succeeded", "failed"},
     at : DOMAIN Tasks, attempts : 0 .. MaxAttempts, cdc_day : {0, 1}]

LogRow == [run_id : Runs, task_name : Logged, status : {"succeeded", "failed"}]

(* A run is at a task of the chain and within its attempts, and a row is   *)
(* of a task that logs.                                                    *)
TypeOK == run \in [Runs -> Run] /\ pipeline_runs \in Seq(LogRow)

(* "Always records an outcome" (run_log.py:81): a run that has come past a *)
(* logged task, at whatever attempt, has a row that says it succeeded.     *)
PassedTasksAreLogged ==
    \A r \in Runs : \A i \in DOMAIN Tasks :
        (i < run[r].at \/ run[r].phase = "succeeded") /\ IsLogged(r, Tasks[i]) =>
            Row(r, Tasks[i], "succeeded") \in Rows

(* No attempt of a task is logged twice, whatever ends it: the repairs of  *)
(* a run are the only reason its tasks can have several rows.              *)
OneRowPerAttempt ==
    \A r \in Runs : \A t \in Logged : Cardinality(RowsOf(r, t)) <= run[r].attempts

(* "Failures are logged and then re-raised" (run_log.py:83): a row says    *)
(* succeeded only of a body that completed or was interrupted, never of    *)
(* one that raised.                                                        *)
RaisedIsNotSucceeded ==
    \A row \in Rows :
        row.status = "succeeded" => <<row.run_id, row.task_name>> \in done \cup interrupted
=============================================================================
