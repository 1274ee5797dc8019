---------------------------- MODULE MCLineage ----------------------------
(***************************************************************************)
(* Three processes on either platform whose flows the sampler asks about,  *)
(* with pids given out again after a second or never, and a max_depth both *)
(* shorter than the longest line and as long.  And four without: an agent, *)
(* its tool, its hook, and a shell between that names the hook's file.     *)
(***************************************************************************)
EXTENDS Lineage, TLC

On(posix, reuse, ps, depth) ==
  [posix |-> posix, reuse |-> reuse, ps |-> ps, depth |-> depth,
   mentions |-> FALSE, flows |-> TRUE, births |-> 3]

Hooked == {[On(posix, "never", "works", 2) EXCEPT !.mentions = TRUE, !.flows = FALSE,
                                                  !.births = 4] : posix \in BOOLEAN}

Usual == {On(posix, "later", "works", depth) : posix \in BOOLEAN, depth \in 1 .. 2}
           \cup {On(TRUE, "never", "flaky", 2)}

UsualAndHooked == Usual \cup Hooked

Recycling == {On(TRUE, "later", "works", 2)}
Stale     == {[On(FALSE, "later", "works", 2) EXCEPT !.births = 4]}
SameSecond == {On(FALSE, "soon", "works", 2)}

Pids == Permutations(Pid)
=============================================================================
