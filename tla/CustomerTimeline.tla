--------------------------- MODULE CustomerTimeline ---------------------------
(***************************************************************************)
(* What dim_customer promises, without saying how: every person has a      *)
(* timeline of versions that only ever grows at its end, a batch at a      *)
(* time.  There are no windows, no flags, no staging table and no passes:  *)
(* the latest version of a person is simply the last one added.            *)
(***************************************************************************)
EXTENDS Naturals

CONSTANTS
    People,  \* whom the seed knows
    Dates,   \* the dates a batch may have
    NULL     \* of a feed-only person's profile and segment; the key nobody has

VARIABLE versions  \* [uid, address, segment, profile, effective_from, is_deleted, added]

Latest(u) ==
    {v \in versions : v.uid = u /\ \A w \in versions : w.uid = u => w.added <= v.added}

AtMostOnePerPerson(new) == \A n, m \in new : n.uid = m.uid => n = m

(* A version extends a timeline: it carries over what the feed does not    *)
(* send; a deletion ends a live version, anything else is a real change.   *)
Follows(n, v) ==
    /\ n.profile = v.profile /\ n.segment = v.segment
    /\ n.added > v.added
    /\ IF n.is_deleted THEN ~v.is_deleted ELSE n.address # v.address

(* A version begins the timeline of a person the seed did not know.        *)
Begins(n) == ~n.is_deleted /\ n.profile = NULL /\ n.segment = NULL

-----------------------------------------------------------------------------
Init == versions = {}

Seed ==
    /\ versions = {}
    /\ {v.uid : v \in versions'} = People
    /\ AtMostOnePerPerson(versions')
    /\ \A v \in versions' : ~v.is_deleted /\ v.profile = v.uid

(* A batch of one date adds at most one version to a timeline, all at once. *)
ApplyBatch ==
    /\ versions \subseteq versions'
    /\ LET new == versions' \ versions IN
         /\ \E date \in Dates : \A n \in new : n.effective_from = date
         /\ AtMostOnePerPerson(new)
         /\ \A n \in new : n.uid # NULL =>
              IF Latest(n.uid) = {} THEN Begins(n)
              ELSE \A v \in Latest(n.uid) : Follows(n, v)

Next == Seed \/ ApplyBatch

Spec == Init /\ [][Next]_versions
=============================================================================
