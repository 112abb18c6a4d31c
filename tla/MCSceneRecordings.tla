------------------------- MODULE MCSceneRecordings -------------------------
(* Model values for the run of SceneRecordings. *)
EXTENDS SceneRecordings, TLC

CONSTANTS a, b, c, p, q, r

ThreeScenes == {a, b, c}
ThreePaths == {p, q, r}

\* r is another spelling of p.
FoldingDisk == [path \in ThreePaths |-> IF path = q THEN "two" ELSE "one"]

\* The scenes are alike, and so are the two spellings.
ScenesAndSpellingsSymmetry == Permutations(Scenes) \cup Permutations({p, r})

\* Bound of the run: the last session, which is there to fill the history, has
\* one recording and is not stopped.
SmallLastSession ==
    /\ Cardinality(DOMAIN recordings[MaxSessions]) <= 1
    /\ stops[MaxSessions] = 0
=============================================================================
