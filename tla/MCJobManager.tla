---------------------------- MODULE MCJobManager ----------------------------
(* Small instances of JobManager: one or two runs, each on its own checkout. *)
EXTENDS JobManager, TLC

CONSTANTS r1, r2, t1, t2, j1, j2

TwoCheckouts == r1 :> t1 @@ r2 :> t2
OnlyOne == r1 :> t1

\* Job slots are interchangeable (not used where liveness is checked).
JobSymmetry == Permutations(Jobs)

\* What a free slot still holds of its last job is never read again.
UsedSlots ==
    <<phase, row, repro, [j \in Jobs |-> IF Free(j) THEN NullJob ELSE job[j]],
      registered, loop, pool, resuming, cut, crashes>>
=============================================================================
