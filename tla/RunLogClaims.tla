---- MODULE RunLogClaims ----
(***************************************************************************)
(* What the repository says of ops.pipeline_runs and the code does not do. *)
(***************************************************************************)
EXTENDS MCRunLog

(* "A task that fails silently but logs succeeded is worse than no         *)
(* logging" (run_log.py:84): a row that says succeeded is about a body     *)
(* that completed.                                                         *)
SucceededMeansDone ==
    \A row \in Rows : row.status = "succeeded" => <<row.run_id, row.task_name>> \in done
====
