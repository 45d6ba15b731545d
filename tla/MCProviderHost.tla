---------------------------- MODULE MCProviderHost ----------------------------
(***************************************************************************)
(* Instances of ProviderHost for TLC: which operations are slow together.  *)
(***************************************************************************)
EXTENDS ProviderHost

AllButProbes == {"Start", "Reconfigure", "Sample", "Stop"}
Setup == {"Start", "Reconfigure"}

\* Two categories: a late answer of any kind; a late start only.
LateAnswers == {AllButProbes, Setup}

\* One category: the same, and late probes.
AnyLateAnswer == {AllButProbes, {"Probe"}}
===============================================================================
