---------------------------- MODULE DeltaGenerator ----------------------------
(***************************************************************************)
(* src/src/generator/make_deltas.py: the change file of each day, cut from *)
(* the head of the customers file.  It is run by every job, may be lost    *)
(* between two files, and overwrites what an earlier run wrote.            *)
(*                                                                         *)
(* A customer row is only its person, customer_unique_id: the same person  *)
(* has a row for every order.  Times are tenths of an hour.  A random      *)
(* stream is the sequence of its draws; a draw is a place.                 *)
(***************************************************************************)
EXTENDS Naturals, Sequences, FiniteSets

CONSTANTS
    People, Places,
    NewPeople,      \* NewPeople[day][i]: the synthetic customers, known to nobody
    Correct,        \* the city "correct-city-wins"
    Days, Updates, Deletes  \* --days, --updates-per-day, --deletes-per-day

ASSUME SizesAreCounts == Days \in Nat /\ Updates \in Nat \ {0} /\ Deletes \in Nat
ASSUME NewPeopleAreNew == \A d \in 1 .. Days : \A i \in 1 .. 3 : NewPeople[d][i] \notin People
ASSUME CorrectIsNoPlace == Correct \notin Places \cup {"base"}

VARIABLES
    customers,  \* the rows of olist_customers_dataset.csv, in order
    draws,      \* draws[day]: the stream of random.Random(seed + day)
    files,      \* files[day]: what customers_changes_day<day>.csv holds
    day         \* the day being generated; 0 when the generator does not run

vars == <<customers, draws, files, day>>

Streams == [1 .. Days -> [1 .. Updates + 3 -> Places]]

Init ==
    /\ customers \in [1 .. Days * (Updates + Deletes) -> People]
    /\ draws \in Streams
    /\ files = [d \in 1 .. Days |-> {}]
    /\ day = 0

ChangeRow(op, uid, place, t) == [op |-> op, uid |-> uid, place |-> place, updated_at |-> t]

(* The day's slice of the customers: updates first, deletes after them.    *)
OverlappingPool(d) ==   \* a bug: the deletes are not counted
    LET start == (d - 1) * Updates IN [i \in 1 .. Updates + Deletes |-> start + i]

Pool(d) ==
    LET start == (d - 1) * (Updates + Deletes) IN [i \in 1 .. Updates + Deletes |-> start + i]

UpdateRows(d) ==
    {ChangeRow("U", customers[Pool(d)[i]], draws[d][i], 240 * d + (i - 1)) : i \in 1 .. Updates}

DeleteRows(d) ==
    {ChangeRow("D", customers[Pool(d)[Updates + i]], "base", 240 * d + 120 + (i - 1)) :
        i \in 1 .. Deletes}

InsertRows(d) ==
    {ChangeRow("I", NewPeople[d][i], draws[d][Updates + i], 240 * d + 180 + 10 * (i - 1)) :
        i \in 1 .. 3}

(* _inject_dirt: the first row again, with another city and a later time;  *)
(* the shuffle makes the file a set.                                       *)
EarlyVictim(d) ==   \* a bug: the duplicate is not the latest row of its key
    ChangeRow("U", customers[Pool(d)[1]], Correct, 240 * d)

Victim(d) == ChangeRow("U", customers[Pool(d)[1]], Correct, 240 * d + 230)

BuildChangeDay(d) == UpdateRows(d) \cup DeleteRows(d) \cup InsertRows(d) \cup {Victim(d)}

-----------------------------------------------------------------------------
Unseeded ==   \* a bug: random.Random() without a seed (all draws alike is enough)
    \E place \in Places : draws' = [d \in 1 .. Days |-> [i \in 1 .. Updates + 3 |-> place]]

Seeded == UNCHANGED draws

Main ==
    /\ day = 0
    /\ day' = 1
    /\ Seeded
    /\ UNCHANGED <<customers, files>>

WriteDay ==
    /\ day # 0
    /\ files' = [files EXCEPT ![day] = BuildChangeDay(day)]
    /\ day' = IF day < Days THEN day + 1 ELSE 0
    /\ UNCHANGED <<customers, draws>>

Lose ==
    /\ day # 0
    /\ day' = 0
    /\ UNCHANGED <<customers, draws, files>>

Next == Main \/ WriteDay \/ Lose

Spec == Init /\ [][Next]_vars

-----------------------------------------------------------------------------
(* "Regenerating produces byte-identical files" (make_deltas.py:15): a     *)
(* file that is there is never replaced by another one.                    *)
RegeneratesTheSame ==
    [][\A d \in 1 .. Days : files[d] # {} => files'[d] = files[d]]_vars

(* The planted duplicate wins (make_deltas.py:127), even if its person is  *)
(* also deleted the same day, and no key of a file ties: what the dedupe   *)
(* of the dimension needs to be decided.                                   *)
KeysAreDecided ==
    \A d \in 1 .. Days : \A r, s \in files[d] :
        /\ r # s /\ r.uid = s.uid => r.updated_at # s.updated_at
        /\ r.place = Correct /\ r.uid = s.uid => s.updated_at <= r.updated_at

(* "Disjoint slices per day, so day 2 does not silently undo day 1"        *)
(* (make_deltas.py:84), as far as it is true: the slices are of customer   *)
(* rows, and a person is changed on as many days as it has rows.           *)
DaysTakeDistinctRows ==
    \A u \in People :
        Cardinality({d \in 1 .. Days : \E r \in files[d] : r.uid = u})
            <= Cardinality({i \in DOMAIN customers : customers[i] = u})
=============================================================================
