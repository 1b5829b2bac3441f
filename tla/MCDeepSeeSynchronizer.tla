----------------------- MODULE MCDeepSeeSynchronizer -----------------------
(* Small instances of DeepSeeSynchronizer for TLC: entity 1 is a member    *)
(* from the start, the others are not.                                     *)
EXTENDS DeepSeeSynchronizer

MCInitialMembers == [e \in EntityIds |-> IF e = 1 THEN 1 ELSE Absent]

\* Every delivery mode of the feed, with either form of the snapshot.
BitmapKnobs == {k \in FeedKnobs : k.bitmap_snapshot}
IdListKnobs == FeedKnobs \ BitmapKnobs
=============================================================================
