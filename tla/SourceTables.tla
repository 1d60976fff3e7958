----------------------------- MODULE SourceTables -----------------------------
(***************************************************************************)
(* The registry of source tables (SOURCE_TABLES in src/src/config.py) and  *)
(* what silver does to a row before anything looks at it: casts, timestamp *)
(* parsing and string normalisation (src/src/silver/clean.py and           *)
(* transforms.py).                                                         *)
(*                                                                         *)
(* A row is a record of its columns, those no rule and no gold table reads *)
(* left out.  A numeric or timestamp column of a source row is NULL, a     *)
(* number, or Unreadable; a string column is NULL or <<text, spelling>>,   *)
(* where the text of a blank string is "".  The renaming of two columns    *)
(* nothing reads is left out.                                              *)
(***************************************************************************)
EXTENDS Naturals, Sequences, FiniteSets, TLC

CONSTANTS NULL, Unreadable

ASSUME UnreadableIsNotNull == Unreadable # NULL

BusinessKey == [
    customers |-> {"customer_id"},
    orders |-> {"order_id"},
    order_items |-> {"order_id", "order_item_id"},
    order_payments |-> {"order_id", "payment_sequential"},
    order_reviews |-> {"review_id", "order_id"},
    products |-> {"product_id"},
    sellers |-> {"seller_id"},
    product_category_translation |-> {"product_category_name"}]

(* The tables whose duplicates a column of theirs decides. *)
SequenceCol == [
    orders |-> "order_purchase_timestamp",
    order_reviews |-> "review_answer_timestamp"]

NumericCols == {"order_item_id", "price", "freight_value", "payment_sequential",
                "payment_installments", "payment_value", "review_score", "product_weight_g"}

TimestampCols == {"order_purchase_timestamp", "order_delivered_customer_date",
                  "review_answer_timestamp"}

StringCols == {"customer_state", "order_status", "payment_type", "product_category_name",
               "product_category_name_english"}

(* try_cast and try_to_timestamp: what cannot be read is NULL, not an error. *)
Read(value) == IF value = Unreadable THEN NULL ELSE value

(* normalise_strings: the spelling goes, and a blank is NULL.              *)
Normalised(value) == IF value = NULL \/ value[1] = "" THEN NULL ELSE value[1]

(* A row of bronze as the rules, the deduplication and gold see it.        *)
Typed(row) ==
    [c \in DOMAIN row |->
        IF c \in NumericCols \cup TimestampCols THEN Read(row[c])
        ELSE IF c \in StringCols THEN Normalised(row[c])
        ELSE row[c]]

(* PARTITION BY the business key: NULLs are one partition.                 *)
Key(t, row) == [c \in BusinessKey[t] |-> row[c]]

SameKey(t, r, s) == \A c \in BusinessKey[t] : r[c] = s[c]

(* ORDER BY the sequence column DESC NULLS LAST; times are positive.       *)
SequenceOf(t, row) ==
    IF t \notin DOMAIN SequenceCol THEN 0
    ELSE IF row[SequenceCol[t]] = NULL THEN 0
    ELSE row[SequenceCol[t]]
=============================================================================
