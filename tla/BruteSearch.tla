----------------------------- MODULE BruteSearch -----------------------------
(* crates/search/src/brute.rs: the candidates are the numbers of depth bytes *)
(* from the start of the range, one after the other, below its end.          *)
EXTENDS InstructionBytes

CONSTANT NoCandidate      \* None

VARIABLES range,          \* [start, end], the end exclusive
          bytes, depth, started, done,     \* fields of BruteStrategy
          candidate       \* answer of the latest next_candidate

fixed == <<range, depth>>
vars == <<fixed, bytes, started, done, candidate>>

(* with_range: the depth asked for, at least the bytes the start specifies.  *)
BruteDepth(wanted, r) ==
  Larger(1, Smaller(Larger(wanted, r.start.len), Width))

BruteInit(wanted, r) ==
  /\ range = r
  /\ bytes = r.start.bytes
  /\ depth = BruteDepth(wanted, r)
  /\ started = FALSE
  /\ done = FALSE
  /\ candidate = NoCandidate

(* Mutant: the end is included.                                              *)
BruteUpToEnd(b) == IF ~Precedes(range.end.bytes, b)
                   THEN NewInstruction(b, depth) ELSE NoCandidate

BruteCurrent(b) == IF Precedes(b, range.end.bytes)
                   THEN NewInstruction(b, depth) ELSE NoCandidate

BruteFirst == /\ ~done /\ ~started
              /\ started' = TRUE
              /\ candidate' = BruteCurrent(bytes)
              /\ UNCHANGED <<fixed, bytes, done>>

(* Mutant: the carry stops at the second byte from the end.                  *)
BruteIncrementShort ==
  /\ ~done /\ started
  /\ \E i \in 0 .. depth - 1 :
       /\ CarriesTo(bytes, depth, i)
       /\ bytes' = [bytes EXCEPT ![i] = @ + 1]
  /\ candidate' = BruteCurrent(bytes')
  /\ done' = (candidate' = NoCandidate)
  /\ UNCHANGED <<fixed, started>>

BruteIncrement ==
  /\ ~done /\ started
  /\ \E i \in 0 .. depth - 1 : /\ CarriesTo(bytes, depth, i)
                               /\ bytes' = Carried(bytes, depth, i)
  /\ candidate' = BruteCurrent(bytes')
  /\ done' = (candidate' = NoCandidate)
  /\ UNCHANGED <<fixed, started>>

(* Mutant: a carry out of the first byte does not end the search.            *)
BruteWrapOnward == /\ ~done /\ started
                   /\ WrapsAround(bytes, depth)
                   /\ bytes' = ZeroFirst(bytes, depth)
                   /\ done' = FALSE
                   /\ candidate' = BruteCurrent(bytes')
                   /\ UNCHANGED <<fixed, started>>

BruteWrap == /\ ~done /\ started
             /\ WrapsAround(bytes, depth)
             /\ bytes' = ZeroFirst(bytes, depth)
             /\ done' = TRUE
             /\ candidate' = NoCandidate
             /\ UNCHANGED <<fixed, started>>

BruteOver == /\ done
             /\ candidate' = NoCandidate
             /\ UNCHANGED <<fixed, bytes, started, done>>

BruteNext == BruteFirst \/ BruteIncrement \/ BruteWrap \/ BruteOver

-----------------------------------------------------------------------------
(* The candidates a brute search of this range is there to try.              *)
BruteForm(b) == b \in Raw /\ ZeroTail(b, depth)

BruteTypeOK == /\ range \in [start : Instruction, end : Instruction]
               /\ bytes \in Raw
               /\ depth \in 1 .. Width
               /\ started \in BOOLEAN /\ done \in BOOLEAN
               /\ candidate \in Instruction \cup {NoCandidate}
==============================================================================
