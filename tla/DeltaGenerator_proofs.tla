------------------------- MODULE DeltaGenerator_proofs -------------------------
(***************************************************************************)
(* Proofs about DeltaGenerator: a change file depends on its day alone,    *)
(* the keys of a file are decided as long as the updates and the deletes   *)
(* of a day fit the hours they are given, and days take distinct rows.     *)
(***************************************************************************)
EXTENDS DeltaGenerator, FiniteSetTheorems, TLAPS

(* Every file is the one of its day, or is still to be written.            *)
FileInv ==
    /\ customers \in [1 .. Days * (Updates + Deletes) -> People]
    /\ draws \in Streams
    /\ files = [d \in 1 .. Days |-> files[d]]
    /\ \A d \in 1 .. Days : files[d] \in {{}, BuildChangeDay(d)}

LEMMA DayIsAFunction ==
    ASSUME UNCHANGED <<customers, draws>>, NEW d
    PROVE  BuildChangeDay(d)' = BuildChangeDay(d)
  BY DEF BuildChangeDay, UpdateRows, DeleteRows, InsertRows, Victim, Pool

LEMMA FileStep ==
    ASSUME FileInv, [Next]_vars
    PROVE  /\ FileInv'
           /\ \A d \in 1 .. Days : files[d] # {} => files'[d] = files[d]
  <1>1. UNCHANGED <<customers, draws>>
    BY DEF Next, Main, Seeded, WriteDay, Lose, vars
  <1>2. CASE files' = files
    BY <1>1, <1>2, DayIsAFunction DEF FileInv
  <1>3. CASE WriteDay
    <2>1. files' = [files EXCEPT ![day] = BuildChangeDay(day)]
      BY <1>3 DEF WriteDay
    <2>2. \A d \in 1 .. Days : files'[d] = IF d = day THEN BuildChangeDay(d) ELSE files[d]
      BY <2>1 DEF FileInv
    <2>3. DOMAIN files' = 1 .. Days
      BY <2>1 DEF FileInv
    <2>4. files' = [d \in 1 .. Days |-> files'[d]]
      BY <2>1, <2>3
    <2>5. \A d \in 1 .. Days : files'[d] \in {{}, BuildChangeDay(d)'}
      BY <1>1, <2>2, DayIsAFunction DEF FileInv
    <2>6. \A d \in 1 .. Days : files[d] # {} => files'[d] = files[d]
      BY <2>2 DEF FileInv
    <2> QED
      BY <1>1, <2>4, <2>5, <2>6 DEF FileInv
  <1> QED
    BY <1>2, <1>3 DEF Next, Main, Lose, vars

LEMMA FileInvariance == Spec => []FileInv
  <1>1. Init => FileInv
    BY DEF Init, FileInv
  <1>2. FileInv /\ [Next]_vars => FileInv'
    BY FileStep
  <1> QED
    BY <1>1, <1>2, PTL DEF Spec

(* "Regenerating produces byte-identical files": a file that is there is   *)
(* never replaced by another one, however often the generator is lost and  *)
(* run again.                                                              *)
THEOREM RegeneratingIsIdempotent == Spec => RegeneratesTheSame
  <1>1. FileInv /\ [Next]_vars =>
            [\A d \in 1 .. Days : files[d] # {} => files'[d] = files[d]]_vars
    BY FileStep
  <1> QED
    BY <1>1, FileInvariance, PTL DEF Spec, RegeneratesTheSame

-----------------------------------------------------------------------------
(* The hours of a day: updates from midnight, deletes from noon, inserts   *)
(* from six in the evening, the planted duplicate at eleven.               *)
LEMMA PoolIsOfTheDay ==
    ASSUME NEW d \in 1 .. Days, NEW i \in 1 .. (Updates + Deletes)
    PROVE  /\ Pool(d)[i] = (d - 1) * (Updates + Deletes) + i
           /\ Pool(d)[i] \in 1 .. Days * (Updates + Deletes)
  <1>1. Pool(d)[i] = (d - 1) * (Updates + Deletes) + i
    BY DEF Pool
  <1> DEFINE size == Updates + Deletes
  <1>2. size \in Nat /\ Days \in Nat /\ d \in Nat /\ d >= 1 /\ d <= Days /\ i \in 1 .. size
    BY SizesAreCounts
  <1> HIDE DEF size
  <1>3. (d - 1) * size \in Nat /\ Days * size \in Nat
    BY <1>2
  <1>4. (d - 1) * size + size <= Days * size
    BY <1>2
  <1>5. (d - 1) * size + i \in 1 .. Days * size
    BY <1>2, <1>3, <1>4
  <1> QED
    BY <1>1, <1>5 DEF size

LEMMA RowTimes ==
    ASSUME FileInv, Updates <= 120, Deletes <= 110, NEW d \in 1 .. Days,
           NEW r \in BuildChangeDay(d)
    PROVE  \/ \E i \in 1 .. Updates : /\ r = ChangeRow("U", customers[Pool(d)[i]], draws[d][i],
                                                         240 * d + (i - 1))
                                      /\ r.uid \in People /\ r.place # Correct
                                      /\ r.updated_at < 240 * d + 120
           \/ \E i \in 1 .. Deletes : /\ r = ChangeRow("D", customers[Pool(d)[Updates + i]],
                                                         "base", 240 * d + 120 + (i - 1))
                                      /\ r.uid \in People /\ r.place # Correct
                                      /\ 240 * d + 120 <= r.updated_at
                                      /\ r.updated_at < 240 * d + 230
           \/ \E i \in 1 .. 3 : /\ r = ChangeRow("I", NewPeople[d][i], draws[d][Updates + i],
                                                   240 * d + 180 + 10 * (i - 1))
                                /\ r.uid \notin People /\ r.place # Correct
           \/ /\ r = Victim(d) /\ r.uid \in People
              /\ r.updated_at = 240 * d + 230
  <1> USE SizesAreCounts
  <1>1. \A i \in 1 .. Updates : i \in 1 .. (Updates + Deletes)
    OBVIOUS
  <1>2. \A i \in 1 .. Deletes : Updates + i \in 1 .. (Updates + Deletes)
    OBVIOUS
  <1>3. \A i \in 1 .. (Updates + Deletes) : customers[Pool(d)[i]] \in People
    BY PoolIsOfTheDay DEF FileInv
  <1>4. \A i \in 1 .. Updates + 3 : draws[d][i] # Correct
    BY CorrectIsNoPlace DEF FileInv, Streams
  <1>5. CASE r \in UpdateRows(d)
    <2>1. PICK i \in 1 .. Updates :
            r = ChangeRow("U", customers[Pool(d)[i]], draws[d][i], 240 * d + (i - 1))
      BY <1>5 DEF UpdateRows
    <2>2. r.uid = customers[Pool(d)[i]] /\ r.place = draws[d][i]
          /\ r.updated_at = 240 * d + (i - 1)
      BY <2>1 DEF ChangeRow
    <2>3. i \in 1 .. Updates + 3
      OBVIOUS
    <2>4. r.updated_at < 240 * d + 120
      BY <2>2
    <2> QED
      BY <1>1, <1>3, <1>4, <2>1, <2>2, <2>3, <2>4
  <1>6. CASE r \in DeleteRows(d)
    <2>1. PICK i \in 1 .. Deletes :
            r = ChangeRow("D", customers[Pool(d)[Updates + i]], "base",
                          240 * d + 120 + (i - 1))
      BY <1>6 DEF DeleteRows
    <2>2. r.uid = customers[Pool(d)[Updates + i]] /\ r.place = "base"
          /\ r.updated_at = 240 * d + 120 + (i - 1)
      BY <2>1 DEF ChangeRow
    <2>3. 240 * d + 120 <= r.updated_at /\ r.updated_at < 240 * d + 230
      BY <2>2
    <2> QED
      BY <1>2, <1>3, <2>1, <2>2, <2>3, CorrectIsNoPlace
  <1>7. CASE r \in InsertRows(d)
    <2>1. PICK i \in 1 .. 3 : r = ChangeRow("I", NewPeople[d][i], draws[d][Updates + i],
                                             240 * d + 180 + 10 * (i - 1))
      BY <1>7 DEF InsertRows
    <2>2. r.uid = NewPeople[d][i] /\ r.place = draws[d][Updates + i]
      BY <2>1 DEF ChangeRow
    <2>3. Updates + i \in 1 .. Updates + 3
      OBVIOUS
    <2> QED
      BY <1>4, <2>1, <2>2, <2>3, NewPeopleAreNew
  <1>8. CASE r = Victim(d)
    <2>1. r.uid = customers[Pool(d)[1]] /\ r.updated_at = 240 * d + 230
      BY <1>8 DEF Victim, ChangeRow
    <2>2. 1 \in 1 .. (Updates + Deletes)
      OBVIOUS
    <2> QED
      BY <1>3, <1>8, <2>1, <2>2
  <1> QED
    BY <1>5, <1>6, <1>7, <1>8 DEF BuildChangeDay

LEMMA DayIsDecided ==
    ASSUME FileInv, Updates <= 120, Deletes <= 110, NEW d \in 1 .. Days,
           NEW r \in BuildChangeDay(d), NEW s \in BuildChangeDay(d), r.uid = s.uid
    PROVE  /\ r # s => r.updated_at # s.updated_at
           /\ r.place = Correct => s.updated_at <= r.updated_at
  <1> USE SizesAreCounts
  <1> DEFINE IsU(x) == \E i \in 1 .. Updates :
                          /\ x = ChangeRow("U", customers[Pool(d)[i]], draws[d][i],
                                           240 * d + (i - 1))
                          /\ x.uid \in People /\ x.place # Correct
                          /\ x.updated_at < 240 * d + 120
             IsD(x) == \E i \in 1 .. Deletes :
                          /\ x = ChangeRow("D", customers[Pool(d)[Updates + i]], "base",
                                           240 * d + 120 + (i - 1))
                          /\ x.uid \in People /\ x.place # Correct
                          /\ 240 * d + 120 <= x.updated_at /\ x.updated_at < 240 * d + 230
             IsI(x) == \E i \in 1 .. 3 :
                          /\ x = ChangeRow("I", NewPeople[d][i], draws[d][Updates + i],
                                           240 * d + 180 + 10 * (i - 1))
                          /\ x.uid \notin People /\ x.place # Correct
             IsV(x) == x = Victim(d) /\ x.uid \in People /\ x.updated_at = 240 * d + 230
  <1>1. \A x \in BuildChangeDay(d) : IsU(x) \/ IsD(x) \/ IsI(x) \/ IsV(x)
    BY RowTimes
  <1>2. \A x : IsU(x) \/ IsD(x) \/ IsI(x) => x.updated_at \in Nat /\ x.place # Correct
    BY DEF ChangeRow
  <1>3. IsU(r) /\ IsU(s) => r = s \/ r.updated_at # s.updated_at
    BY DEF ChangeRow
  <1>4. IsD(r) /\ IsD(s) => r = s \/ r.updated_at # s.updated_at
    BY DEF ChangeRow
  <1>5. IsI(r) /\ IsI(s) => r = s \/ r.updated_at # s.updated_at
    BY DEF ChangeRow
  <1>6. (IsU(r) => r.uid \in People /\ r.updated_at < 240 * d + 120)
        /\ (IsU(s) => s.uid \in People /\ s.updated_at < 240 * d + 120)
    OBVIOUS
  <1>7. \A x : IsD(x) => /\ x.uid \in People /\ 240 * d + 120 <= x.updated_at
                         /\ x.updated_at < 240 * d + 230
    OBVIOUS
  <1>8. (IsI(r) => r.uid \notin People) /\ (IsI(s) => s.uid \notin People)
    OBVIOUS
  <1>9. \A x : IsV(x) => x = Victim(d) /\ x.uid \in People /\ x.updated_at = 240 * d + 230
    OBVIOUS
  <1> HIDE DEF IsU, IsD, IsI, IsV
  <1>10. d \in Nat
    OBVIOUS
  <1> QED
    BY <1>1, <1>2, <1>3, <1>4, <1>5, <1>6, <1>7, <1>8, <1>9, <1>10

(* The planted duplicate wins, even if its person is also deleted the same *)
(* day, and no key of a file ties, for any number of days and any streams, *)
(* as long as a day has at most 120 updates and 110 deletes; with more,    *)
(* updates run into the hours of the deletes, and deletes past the         *)
(* duplicate.                                                              *)
THEOREM DecidedWithinTheHours ==
    Updates <= 120 /\ Deletes <= 110 => (Spec => []KeysAreDecided)
  <1> SUFFICES ASSUME Updates <= 120 /\ Deletes <= 110
               PROVE  Spec => []KeysAreDecided
    OBVIOUS
  <1>1. FileInv => KeysAreDecided
    <2> SUFFICES ASSUME FileInv, NEW d \in 1 .. Days, NEW r \in files[d], NEW s \in files[d]
                 PROVE  /\ r # s /\ r.uid = s.uid => r.updated_at # s.updated_at
                        /\ r.place = Correct /\ r.uid = s.uid => s.updated_at <= r.updated_at
      BY DEF KeysAreDecided
    <2>1. r \in BuildChangeDay(d) /\ s \in BuildChangeDay(d)
      BY DEF FileInv
    <2> QED
      BY <2>1, DayIsDecided
  <1> QED
    BY <1>1, FileInvariance, PTL

-----------------------------------------------------------------------------
(* A person that a file names has a row in the slice of its day.           *)
LEMMA PersonHasRowInSlice ==
    ASSUME FileInv, NEW u \in People, NEW d \in 1 .. Days, NEW r \in BuildChangeDay(d), r.uid = u
    PROVE  \E i \in 1 .. (Updates + Deletes) : customers[Pool(d)[i]] = u
  <1> USE SizesAreCounts
  <1>1. CASE r \in UpdateRows(d)
    BY <1>1 DEF UpdateRows, ChangeRow
  <1>2. CASE r \in DeleteRows(d)
    <2>1. PICK i \in 1 .. Deletes : r.uid = customers[Pool(d)[Updates + i]]
      BY <1>2 DEF DeleteRows, ChangeRow
    <2>2. Updates + i \in 1 .. (Updates + Deletes)
      OBVIOUS
    <2> QED
      BY <2>1, <2>2
  <1>3. CASE r \in InsertRows(d)
    BY <1>3, NewPeopleAreNew DEF InsertRows, ChangeRow
  <1>4. CASE r = Victim(d)
    <2>1. r.uid = customers[Pool(d)[1]] /\ 1 \in 1 .. (Updates + Deletes)
      BY <1>4 DEF Victim, ChangeRow
    <2> QED
      BY <2>1
  <1> QED
    BY <1>1, <1>2, <1>3, <1>4 DEF BuildChangeDay

LEMMA SlicesAreDisjoint ==
    ASSUME NEW d \in 1 .. Days, NEW e \in 1 .. Days, d < e,
           NEW i \in 1 .. (Updates + Deletes), NEW j \in 1 .. (Updates + Deletes)
    PROVE  Pool(d)[i] # Pool(e)[j]
  <1> DEFINE size == Updates + Deletes
  <1>1. size \in Nat /\ d \in Nat /\ e \in Nat /\ d + 1 <= e /\ i \in 1 .. size /\ j \in 1 .. size
    BY SizesAreCounts
  <1>2. Pool(d)[i] = (d - 1) * size + i /\ Pool(e)[j] = (e - 1) * size + j
    BY PoolIsOfTheDay
  <1> HIDE DEF size
  <1>3. (d - 1) * size \in Int /\ (e - 1) * size \in Int
    BY <1>1
  <1>4. (d - 1) * size + size <= (e - 1) * size
    BY <1>1
  <1> QED
    BY <1>1, <1>2, <1>3, <1>4

(* "Disjoint slices per day", as far as it is true: a person is changed on *)
(* at most as many days as it has rows in the customers file.              *)
THEOREM SlicesTakeDistinctRows == Spec => []DaysTakeDistinctRows
  <1>1. ASSUME FileInv, NEW u \in People
        PROVE  Cardinality({d \in 1 .. Days : \E r \in files[d] : r.uid = u})
                 <= Cardinality({i \in DOMAIN customers : customers[i] = u})
    <2> DEFINE days == {d \in 1 .. Days : \E r \in files[d] : r.uid = u}
               rows == {i \in DOMAIN customers : customers[i] = u}
               RowOf(d) == CHOOSE i \in 1 .. (Updates + Deletes) : customers[Pool(d)[i]] = u
               taken == [d \in days |-> Pool(d)[RowOf(d)]]
    <2>1. \A d \in days : /\ RowOf(d) \in 1 .. (Updates + Deletes)
                          /\ customers[Pool(d)[RowOf(d)]] = u
      <3> SUFFICES ASSUME NEW d \in days
                   PROVE  \E i \in 1 .. (Updates + Deletes) : customers[Pool(d)[i]] = u
        OBVIOUS
      <3>1. PICK r \in files[d] : r.uid = u
        OBVIOUS
      <3>2. r \in BuildChangeDay(d)
        BY <1>1, <3>1 DEF FileInv
      <3> QED
        BY <1>1, <3>1, <3>2, PersonHasRowInSlice
    <2> HIDE DEF RowOf
    <2>2. \A d \in days : taken[d] \in rows
      BY <1>1, <2>1, PoolIsOfTheDay DEF FileInv
    <2>3. \A d, e \in days : d < e => taken[d] # taken[e]
      BY <2>1, SlicesAreDisjoint
    <2>4. \A d, e \in days : taken[d] = taken[e] => d = e
      <3>1. \A d, e \in days : d < e \/ d = e \/ e < d
        OBVIOUS
      <3> HIDE DEF days, taken
      <3> QED
        BY <2>3, <3>1
    <2>5. taken \in [days -> rows]
      BY <2>2
    <2>6. taken \in Injection(days, rows)
      BY <2>4, <2>5 DEF Injection, IsInjective
    <2>7. IsFiniteSet(rows)
      <3>1. DOMAIN customers = 1 .. Days * (Updates + Deletes)
        BY <1>1 DEF FileInv
      <3>2. Days * (Updates + Deletes) \in Int
        BY SizesAreCounts
      <3>3. IsFiniteSet(DOMAIN customers)
        BY <3>1, <3>2, FS_Interval
      <3>4. rows \in SUBSET DOMAIN customers
        OBVIOUS
      <3> HIDE DEF rows
      <3> QED
        BY <3>3, <3>4, FS_Subset
    <2> HIDE DEF days, rows, taken
    <2>8. Cardinality(days) <= Cardinality(rows)
      BY <2>6, <2>7, FS_Injection
    <2> QED
      BY <2>8 DEF days, rows
  <1>2. FileInv => DaysTakeDistinctRows
    BY <1>1 DEF DaysTakeDistinctRows
  <1> QED
    BY <1>2, FileInvariance, PTL
=============================================================================
