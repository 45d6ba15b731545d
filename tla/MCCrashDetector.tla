-------------------------- MODULE MCCrashDetector --------------------------
(***************************************************************************)
(* Instances of CrashDetector for TLC.                                     *)
(***************************************************************************)
EXTENDS CrashDetector

Says(kind, tells) == [kind |-> kind, tells |-> tells]

\* Kernel-Power 41 or EventLog 6008, before or after the boot record.
AfterACrash ==
  {<<Says("Boot", FALSE), Says("BugCheck", FALSE)>>,
   <<Says("Unexpected", TRUE), Says("Boot", FALSE)>>,
   <<Says("Unexpected", FALSE), Says("Boot", FALSE), Says("Unexpected", TRUE)>>}

\* A second crash, with frames around the first; and one fault or order of the user.
Some ==
  {[boots |-> 2, frames |-> {1, 3}, events |-> 0, time |-> 4],
   [boots |-> 2, frames |-> {1}, events |-> 1, time |-> 3]}
=============================================================================
