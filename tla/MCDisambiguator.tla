-------------------------- MODULE MCDisambiguator --------------------------
(* A unit of 250 ticks; a clock that wraps soon after a state is found, or  *)
(* while it is looked for, by as much of a cycle as 2^32 ticks do.          *)
EXTENDS Disambiguator, TLC

CONSTANTS o1, o2

MCObjects == {o1, o2}
Symmetry  == Permutations(MCObjects)

MCClock  == 6 * Offset[End] + 2269
MCSecond == Offset[End]
MCFrames == {<<0>>, <<1, 1, 0, 0, 1>>}
MCBoots  == {MCClock - 1000, MCClock - 9000}
=============================================================================
