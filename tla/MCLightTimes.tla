---------------------------- MODULE MCLightTimes ----------------------------
(* Ticks of which 1000 are a rotation, with the ratios of the real ones.     *)
EXTENDS LightTimes

\* Just before the wrap; or early, so that a time kept over a restart is well ahead.
MCStarts == {Clock - 3300, 2700}
MCLags   == {-9000, 600}
=============================================================================
