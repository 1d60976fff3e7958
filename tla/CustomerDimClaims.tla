--------------------------- MODULE CustomerDimClaims ---------------------------
(***************************************************************************)
(* What the repository says of dim_customer and the code does not deliver  *)
(* in every run of CustomerDim.  Each claim is quoted with the property    *)
(* that states it; each is the property of a run of its own, and TLC's     *)
(* counterexample is the sequence of job runs that breaks it.              *)
(***************************************************************************)
EXTENDS MCCustomerDim

(* src/src/gold/scd2.py:229 "stays idempotent because `classified` marks   *)
(* replayed rows as `unchanged`"; src/README.md:197 "no key left with zero *)
(* or several current versions".  Once a run has applied its file to the   *)
(* end, nobody who is in the dimension is without a current version.       *)
AppliedFileLeavesEveryoneCurrent ==
    settled # 0 => \A v \in dim : \E w \in Current(dim) : w.uid = v.uid

(* src/src/gold/scd2.py:176 "`is_current AND NOT is_deleted` gives the     *)
(* live population": once a file is applied, a key it inserts, with an     *)
(* address, is in the live population.                                     *)
InsertedKeysAreLive ==
    settled # 0 =>
        \A r \in landing[settled] :
            /\ Wins(r, landing[settled]) /\ r.uid # NULL
            /\ r.op = "I" /\ r.address # NULL
            => Live(r.uid) # {}

(* src/src/gold/dims.py:165 "Surrogate key. One per VERSION": two versions *)
(* of a person never share a customer_sk.                                  *)
SkIdentifiesVersion ==
    \A v, w \in dim : v.uid # NULL /\ Sk(v) = Sk(w) => v = w

(* src/resources/ecommerce_pipeline.job.yml:11 "a backfill is just a       *)
(* different parameter value"; v_scd2_integrity calls overlapping windows  *)
(* a bug: the windows stay disjoint when a run has an earlier run_date.    *)
BackfillKeepsWindowsDisjoint == torn = {} => WindowsDisjoint
=============================================================================
