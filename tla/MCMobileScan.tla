---------------------------- MODULE MCMobileScan ----------------------------
(* Two threads of the application, two scans, a queue of one line, ranges of *)
(* two candidates: every way the configuration can make the worker end.  An  *)
(* instruction scan with a budget and a fallback, a panicking one, a sandbox *)
(* scan and its stand-in on another target.                                  *)
EXTENDS MobileScan

MCConfigs ==
  {[mode |-> "native", max |-> 1, cap |-> 1, required |-> FALSE, wide |-> FALSE],
   [mode |-> "corpus", max |-> 0, cap |-> 1, required |-> TRUE, wide |-> TRUE],
   [mode |-> "sandbox", max |-> 1, cap |-> 2, required |-> FALSE, wide |-> FALSE],
   [mode |-> "stub", max |-> 0, cap |-> 1, required |-> FALSE, wide |-> FALSE]}
=============================================================================
