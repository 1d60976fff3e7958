---- MODULE MCRunLog ----
(***************************************************************************)
(* Two runs of up to two attempts of a chain with the kinds of task the  *)
(* job has: no logged_task, always one, one unless cdc_day is 0.           *)
(***************************************************************************)
EXTENDS RunLog, TLC

MCTasks == <<"generate_deltas", "bronze_ingest", "cdc_apply", "idempotency_check">>
MCLogged == {"bronze_ingest", "cdc_apply"}

AnyRun == Permutations(Runs)
====
