-------------------------------- MODULE Scd2 --------------------------------
(***************************************************************************)
(* The SCD Type 2 algorithm of src/src/gold/scd2.py and the row dedupe of  *)
(* src/src/silver/transforms.py, as operators on sets of rows.  Nothing    *)
(* here has state: CustomerDim.tla runs these operators against a table.   *)
(*                                                                         *)
(* What the rows abstract.  customer_city and customer_state, the two      *)
(* tracked columns the change feed sends, are one address: the place meant *)
(* and the spelling it is written in (silver lower-cases and trims, the    *)
(* change file is applied as it is).  customer_segment, tracked and never  *)
(* sent, stays a column of its own.  The carry-forward columns (zip code,  *)
(* order count, lifetime value, first and last order) always travel        *)
(* together: they are one profile, named by the person it belongs to.      *)
(* Times are day numbers.                                                  *)
(***************************************************************************)
EXTENDS Naturals, FiniteSets

CONSTANTS
    Customers,   \* customer_unique_id: the people
    Places,      \* what a city and state can mean
    NULL,        \* SQL NULL
    NullText,    \* the text "<null>" that stands for NULL inside a hash
    EndOfTime    \* SCD2_END_OF_TIME

Segments == {"new", "returning", "lapsed", "high_value", "unknown"}

Address == [place : Places, spelling : {"silver", "feed"}]

OrNull(S) == S \cup {NULL}

ASSUME NullIsNotData == NULL \notin Customers \cup Segments
ASSUME NullTextIsNotData == NullText \notin Address
ASSUME EndOfTimeIsATime == EndOfTime \in Nat

(***************************************************************************)
(* A row of the change file, a row of dim_customer, and a classified row   *)
(* of the staging table.  `added` is the Delta table version that appended *)
(* the row: it keeps two rows with equal columns apart, as a table does.   *)
(* _row_hash is not stored: it is always the hash of the row's own tracked *)
(* columns.                                                                *)
(***************************************************************************)
ChangeRow ==
    [uid : OrNull(Customers), op : {"I", "U", "D"},
     address : OrNull(Address), updated_at : Nat]   \* 0: no updated_at

Version ==
    [uid : OrNull(Customers), address : OrNull(Address),
     segment : OrNull(Segments), profile : OrNull(Customers),
     effective_from : Nat, effective_to : Nat,
     is_current : BOOLEAN, is_deleted : BOOLEAN, added : Nat]

Actions == {"new", "changed", "unchanged", "deleted"}

StagedRow ==
    [uid : OrNull(Customers), address : OrNull(Address),
     segment : OrNull(Segments), profile : OrNull(Customers),
     action : Actions, effective_from : Nat]

-----------------------------------------------------------------------------
(***************************************************************************)
(* dedupe_by_key with order_by = updated_at: a row with the latest         *)
(* updated_at of its key survives.  Rows that tie are ordered by nothing,  *)
(* so any of them may survive; a NULL key is a group like any other.       *)
(***************************************************************************)
EarliestRows(file) ==   \* a bug: ascending order
    {w \in file : \A r \in file : r.uid = w.uid => w.updated_at <= r.updated_at}

LatestRows(file) ==
    {w \in file : \A r \in file : r.uid = w.uid => r.updated_at <= w.updated_at}

OneRowPerKey(rows) == \A r, s \in rows : r.uid = s.uid => r = s

DedupedByEquality(file) ==   \* a bug: NULL keys are not a group of their own
    {rows \cup {r \in file : r.uid = NULL} :
        rows \in {x \in SUBSET LatestRows(file) :
                    OneRowPerKey(x) /\ \A r \in file : \E w \in x : w.uid = r.uid}}

Deduped(file) ==
    {rows \in SUBSET LatestRows(file) :
        /\ OneRowPerKey(rows)
        /\ \A r \in file : \E w \in rows : w.uid = r.uid}

(***************************************************************************)
(* The current rows, and the right side of a LEFT JOIN on the natural key: *)
(* SQL equality never matches NULL, and an unmatched row sees all NULLs.   *)
(***************************************************************************)
Current(dim) == {v \in dim : v.is_current}

NoMatch == [uid |-> NULL, address |-> NULL, segment |-> NULL,
            profile |-> NULL, is_deleted |-> FALSE]

Matches(uid, dim) == {v \in Current(dim) : uid # NULL /\ v.uid = uid}

LeftJoin(uid, dim) ==
    IF Matches(uid, dim) = {} THEN {NoMatch} ELSE Matches(uid, dim)

(* add_row_hash: equal exactly when the tracked columns are; NULL counts as *)
(* the sentinel, so that NULL equals NULL.                                  *)
Text(x) == IF x = NULL THEN NullText ELSE x

RowHash(row) == <<Text(row.address), Text(row.segment)>>

(* resolve_against_current, for the two kinds of column: a column the feed *)
(* sends takes the change unless it is NULL, one it omits is inherited.    *)
Coalesce(x, y) == IF x # NULL THEN x ELSE y

ResolveFromChange(change, cur) ==   \* a bug: nothing is inherited
    [address |-> change.address, segment |-> NULL, profile |-> NULL]

Resolve(change, cur) ==
    [address |-> Coalesce(change.address, cur.address),
     segment |-> cur.segment,
     profile |-> cur.profile]

(* classify_changes, for one row against the current version it joined.    *)
ClassifyRepeatedDelete(op, resolved, cur) ==   \* a bug: no guard on tombstones
    IF op = "D" THEN IF cur.uid # NULL THEN "deleted" ELSE "unchanged"
    ELSE IF cur.uid = NULL THEN "new"
    ELSE IF RowHash(resolved) # RowHash(cur) THEN "changed"
    ELSE "unchanged"

ClassifyWithoutHash(op, resolved, cur) ==   \* a bug: any update is a change
    IF op = "D"
    THEN IF cur.uid # NULL /\ ~cur.is_deleted THEN "deleted" ELSE "unchanged"
    ELSE IF cur.uid = NULL THEN "new"
    ELSE "changed"

Classify(op, resolved, cur) ==
    IF op = "D"
    THEN IF cur.uid # NULL /\ ~cur.is_deleted THEN "deleted" ELSE "unchanged"
    ELSE IF cur.uid = NULL THEN "new"
    ELSE IF RowHash(resolved) # RowHash(cur) THEN "changed"
    ELSE "unchanged"

(***************************************************************************)
(* What apply_customer_changes stages: every deduplicated row, joined to   *)
(* the current rows once to be completed (c) and once more to be           *)
(* classified (k).                                                         *)
(***************************************************************************)
StagedFrom(change, c, k, date) ==
    LET resolved == Resolve(change, c) IN
    [uid |-> change.uid, address |-> resolved.address,
     segment |-> resolved.segment, profile |-> resolved.profile,
     action |-> Classify(change.op, resolved, k),
     effective_from |-> date]

Staged(rows, dim, date) ==
    UNION {{StagedFrom(r, c, k, date) :
              c \in LeftJoin(r.uid, dim), k \in LeftJoin(r.uid, dim)} : r \in rows}

-----------------------------------------------------------------------------
(* keys_to_close: the keys the MERGE closes and the time it stamps.        *)
KeysToClose(staged) ==
    {[uid |-> s.uid, closed_at |-> s.effective_from] :
        s \in {x \in staged : x.action \in {"changed", "deleted"}}}

(* The MERGE of apply_scd2: its ON condition, its UPDATE, and the table it *)
(* leaves.                                                                 *)
MatchesAnyVersion(v, k) == k.uid # NULL /\ k.uid = v.uid   \* a bug: no is_current = true

OnMerge(v, k) == k.uid # NULL /\ k.uid = v.uid /\ v.is_current

ClosedUnstamped(v, t) == [v EXCEPT !.is_current = FALSE]   \* a bug: effective_to left open

ClosedAt(v, t) == [v EXCEPT !.is_current = FALSE, !.effective_to = t]

Close(dim, staged) ==
    {v \in dim : \A k \in KeysToClose(staged) : ~OnMerge(v, k)} \cup
    UNION {{ClosedAt(v, k.closed_at) : k \in {x \in KeysToClose(staged) : OnMerge(v, x)}} :
             v \in dim}

(* build_new_versions: the rows the append writes, tombstones included.    *)
NewVersion(s, commit) ==
    [uid |-> s.uid, address |-> s.address, segment |-> s.segment,
     profile |-> s.profile, effective_from |-> s.effective_from,
     effective_to |-> EndOfTime, is_current |-> TRUE,
     is_deleted |-> (s.action = "deleted"), added |-> commit]

NoTombstones(staged, commit) ==   \* a bug: a delete only closes
    {NewVersion(s, commit) : s \in {x \in staged : x.action \in {"new", "changed"}}}

NewVersions(staged, commit) ==
    {NewVersion(s, commit) : s \in {x \in staged : x.action \in {"new", "changed", "deleted"}}}

(* customer_sk: a hash of the natural key and effective_from.              *)
Sk(v) == <<v.uid, v.effective_from>>
=============================================================================
