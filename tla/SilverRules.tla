------------------------------ MODULE SilverRules ------------------------------
(***************************************************************************)
(* The pure part of the silver layer (src/src/silver/transforms.py): one   *)
(* row per business key, then the data-quality rules.                      *)
(*                                                                         *)
(* A bronze row is a row of a source file, src, and the time it landed;    *)
(* the operators below see it with src typed.                              *)
(***************************************************************************)
EXTENDS DqRules

(* dedupe_by_key: latest sequence column first, then latest _ingest_ts.    *)
(* Rows that tie on both are ordered by nothing, so any one may survive.   *)
FirstLandedWins(t, r, s) ==   \* a bug: the tiebreak ascends
    \/ SequenceOf(t, r.src) > SequenceOf(t, s.src)
    \/ SequenceOf(t, r.src) = SequenceOf(t, s.src) /\ r.ingest_ts < s.ingest_ts

Beats(t, r, s) ==
    \/ SequenceOf(t, r.src) > SequenceOf(t, s.src)
    \/ SequenceOf(t, r.src) = SequenceOf(t, s.src) /\ r.ingest_ts > s.ingest_ts

Winners(t, rows) ==
    {w \in rows : ~\E r \in rows : Beats(t, r, w) /\ SameKey(t, r.src, w.src)}

OneOfEachKey(t, winners) ==
    LET tied == {w \in winners : \E r \in winners : r # w /\ SameKey(t, r.src, w.src)}
        PicksOne(some) ==
            \A r \in tied : \E one \in some : {s \in some : SameKey(t, r.src, s.src)} = {one}
    IN  {(winners \ tied) \cup some : some \in {x \in SUBSET tied : PicksOne(x)}}

(* A singleton set makes TLC evaluate its member once. *)
Survivors(t, rows) == UNION {OneOfEachKey(t, winners) : winners \in {Winners(t, rows)}}

(* tag_rule_failures: a predicate that is not TRUE is a failure.           *)
FailsIfFalse(r, rule) == Predicate(rule, r.src) = "false"   \* a bug: NULL passes

Fails(r, rule) == Predicate(rule, r.src) # "true"

FailedRules(t, r) == {rule \in RulesFor(t) : Fails(r, rule)}

(* split_by_rules: only a reject rule diverts a row.                       *)
Rejected(t, r) == FailedRules(t, r) \cap RejectRules(t) # {}

CleanIfNoFailure(t, rows) ==   \* a bug: warn rows are dropped
    {r \in rows : FailedRules(t, r) = {}}

Clean(t, rows) == {r \in rows : ~Rejected(t, r)}

Quarantined(t, rows) == {r \in rows : Rejected(t, r)}

(* count_rule_failures: over the deduplicated rows, warn rules included.   *)
CountQuarantined(t, rows) ==   \* a bug: counted from the quarantined rows
    [rule \in RulesFor(t) |-> Cardinality({r \in Quarantined(t, rows) : Fails(r, rule)})]

CountFailures(t, rows) ==
    [rule \in RulesFor(t) |-> Cardinality({r \in rows : Fails(r, rule)})]
=============================================================================
