------------------------------ MODULE MCUpkeep ------------------------------
(***************************************************************************)
(* Instances of Upkeep for TLC.                                            *)
(***************************************************************************)
EXTENDS Upkeep

\* Frames enough to fill the queue; frames across a restart; both kinds of
\* work and a restart; usage over several days.
Mixed == {[frames |-> 3, usages |-> 0, starts |-> 1, time |-> 4],
          [frames |-> 2, usages |-> 0, starts |-> 2, time |-> 4],
          [frames |-> 1, usages |-> 1, starts |-> 2, time |-> 4],
          [frames |-> 0, usages |-> 3, starts |-> 2, time |-> 8]}
=============================================================================
