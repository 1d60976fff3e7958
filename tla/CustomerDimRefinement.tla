------------------------- MODULE CustomerDimRefinement -------------------------
(***************************************************************************)
(* CustomerDim implements CustomerTimeline as long as no run fails between *)
(* its MERGE and its append.  A version maps to itself without its window  *)
(* and its flag; the MERGE, which only writes those, is then a stuttering  *)
(* step and the append is the whole batch.  The window and the flag encode *)
(* the order of the timeline, which WindowsEncodeOrder says.               *)
(***************************************************************************)
EXTENDS CustomerDim

Entry(v) ==
    [uid |-> v.uid, address |-> v.address, segment |-> v.segment, profile |-> v.profile,
     effective_from |-> v.effective_from, is_deleted |-> v.is_deleted, added |-> v.added]

Timeline == INSTANCE CustomerTimeline WITH versions <- {Entry(v) : v \in dim}

(* No run tears a key; AppliedFileLeavesEveryoneCurrent is about one that  *)
(* does.                                                                   *)
UntornSpec == Init /\ [][Next /\ torn' = {}]_vars

(* "Append-only history" as a whole: each change of dim_customer, whatever *)
(* passes it takes, is one batch that extends the timelines at their ends, *)
(* carries attributes forward, never repeats a version or a deletion, and  *)
(* never starts a timeline with a deletion.                                *)
ImplementsTimeline == Timeline!Spec

(* The encoding: a version's window ends where the next version of the     *)
(* person starts, whatever the run dates were; the last one is current and *)
(* open, unless a run is just replacing it.                                *)
Later(v) == {w \in dim : w.uid = v.uid /\ w.added > v.added}

IsNext(w, v) == w \in Later(v) /\ \A x \in Later(v) : w.added <= x.added

WindowsEncodeOrder ==
    \A v \in dim : v.uid # NULL =>
        /\ \A w \in dim : IsNext(w, v) => ~v.is_current /\ v.effective_to = w.effective_from
        /\ Later(v) = {} /\ ~BetweenPasses(v.uid) =>
              v.is_current /\ v.effective_to = EndOfTime

(* A feed that writes every place in one way.                              *)
FeedAddresses == {q.address : q \in UNION ChangeFiles} \ {NULL}

FeedSpelling == \A a, b \in FeedAddresses : a.place = b.place => a = b

(* The feed writes a city as it likes, silver lower-cases and trims it, and *)
(* the hash compares the spellings: a person that has not moved gets a     *)
(* version for it, but once only, for the feed's spelling is carried       *)
(* forward from then on, through deletions and rows without an address.    *)
Unmoved(u) ==
    {w \in dim : w.uid = u /\ ~w.is_deleted /\ w.address # NULL /\
        \E v \in dim : IsNext(w, v) /\ v.address # NULL /\ v.address.place = w.address.place}

SpellingCostsOneVersion ==
    \A u \in Customers : \A v, w \in Unmoved(u) : v = w
=============================================================================
