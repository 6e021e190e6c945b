----------------------------- MODULE SearchSpace -----------------------------
(* The candidates of a whole brute search, for the modules that look at it   *)
(* from outside: the supervisor and the sifter.                              *)
EXTENDS InstructionBytes

(* with_range: the depth asked for, at least the bytes the start specifies.  *)
Depth(wanted, start) ==
  Larger(1, Smaller(Larger(wanted, start.len), Width))

BruteSet(start, end, wanted) ==
  {b \in Raw : /\ ZeroTail(b, Depth(wanted, start))
               /\ ~Precedes(b, start.bytes)
               /\ Precedes(b, end.bytes)}

(* The one that is tried first.                                              *)
Least(s) == CHOOSE b \in s : \A x \in s : x = b \/ Precedes(b, x)
===============================================================================
