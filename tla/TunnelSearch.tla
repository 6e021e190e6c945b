----------------------------- MODULE TunnelSearch -----------------------------
(* crates/search/src/tunnel.rs: the byte at index is incremented from one    *)
(* candidate to the next; what the processor and the disassembler made of a  *)
(* candidate moves the index deeper into the instruction or back out of it.  *)
EXTENDS InstructionBytes

CONSTANTS NoCandidate,
          Prefixes,        \* instruction prefixes (is_prefix)
          Reach,           \* how many bytes of a map are opened by its first
          TwoByte, Maps,   \* 0x0f, and the bytes that open a map after it
          Invalid          \* SIGILL

VARIABLES range,
          bytes, index, lastLength, started, done,   \* TunnelStrategy
          panicked,        \* next_candidate indexed past the array
          candidate

position == <<index, lastLength>>
vars == <<range, bytes, position, started, done, panicked, candidate>>

Feedback == [observed : Nat, signum : Nat, length : Nat, known : BOOLEAN]

KnownMatch(f) == f.known /\ f.length = f.observed
UnknownInvalid(f) == ~f.known /\ f.signum = Invalid

(* with_range: the index is just behind the specified bytes of the start.    *)
TunnelInit(r) ==
  /\ range = r
  /\ bytes = r.start.bytes
  /\ index = r.start.len
  /\ lastLength = {}
  /\ started = FALSE /\ done = FALSE /\ panicked = FALSE
  /\ candidate = NoCandidate

TunnelCurrent(b, i) == IF Precedes(b, range.end.bytes)
                       THEN NewInstruction(b, i + 1) ELSE NoCandidate

TunnelFirst == /\ ~done /\ ~started
               /\ started' = TRUE
               /\ candidate' = TunnelCurrent(bytes, index)
               /\ UNCHANGED <<range, bytes, position, done, panicked>>

(* The byte at the index grows; while it wraps the index backs out.          *)
TunnelIncrement ==
  /\ ~done /\ started
  /\ index \in Positions
  /\ \E i \in 0 .. index :
       /\ CarriesTo(bytes, index + 1, i)
       /\ bytes' = Carried(bytes, index + 1, i)
       /\ lastLength' = IF i = index THEN lastLength ELSE {}
       /\ index' = i
  /\ candidate' = TunnelCurrent(bytes', index')
  /\ done' = (candidate' = NoCandidate)
  /\ UNCHANGED <<range, started, panicked>>

TunnelWrap ==
  /\ ~done /\ started
  /\ index \in Positions
  /\ WrapsAround(bytes, index + 1)
  /\ bytes' = ZeroFirst(bytes, index + 1)
  /\ lastLength' = IF index = 0 THEN lastLength ELSE {}
  /\ index' = 0
  /\ done' = TRUE
  /\ candidate' = NoCandidate
  /\ UNCHANGED <<range, started, panicked>>

(* self.bytes[self.index] with the index at the end of the array.            *)
TunnelPanic ==
  /\ ~done /\ started
  /\ index = Width
  /\ panicked' = TRUE
  /\ candidate' = NoCandidate
  /\ UNCHANGED <<range, bytes, position, started, done>>

TunnelOver == /\ done
              /\ candidate' = NoCandidate
              /\ UNCHANGED <<range, bytes, position, started, done, panicked>>

TunnelNext == \/ TunnelFirst \/ TunnelIncrement \/ TunnelWrap \/ TunnelPanic
              \/ TunnelOver

-----------------------------------------------------------------------------
(* observe                                                                   *)

PrefixLength(b) ==
  CHOOSE k \in 0 .. Width :
    /\ \A j \in Positions : j < k => b[j] \in Prefixes
    /\ k = Width \/ b[k] \notin Prefixes

(* should_descend_structural_byte: the bytes up to the index are prefixes,   *)
(* or open an opcode map that continues behind it.                           *)
Structural(b, i) ==
  LET first == PrefixLength(b)
      len == i + 1 - first            \* length of bytes[map_start..=index]
  IN  /\ i + 1 < Width
      /\ \/ i < first
         \/ /\ i >= first
            /\ \/ len <= Reach[b[first]]
               \/ /\ len = 2
                  /\ b[first] = TwoByte
                  /\ b[i] \in Maps

DescendStructure == /\ Structural(bytes, index)
                    /\ index' = index + 1
                    /\ lastLength' = {}
                    /\ UNCHANGED bytes

(* Mutant: backing out leaves the bytes behind the index.                    *)
BackOutKeeping(i) == /\ index' = i
                     /\ lastLength' = {}
                     /\ UNCHANGED bytes

BackOutTo(i) == /\ index' = i
                /\ bytes' = ZeroFrom(bytes, i + 1)
                /\ lastLength' = {}

(* The byte the fault is attributed to: the last one observed.               *)
FaultIndex(f) == IF f.observed = 0 THEN 0 ELSE f.observed - 1

BackOutInvalid(f) ==
  /\ ~Structural(bytes, index)
  /\ UnknownInvalid(f) /\ index > 0
  /\ BackOutTo(Smaller(FaultIndex(f), index - 1))

BackOutOperand(f) ==
  /\ ~Structural(bytes, index)
  /\ ~(UnknownInvalid(f) /\ index > 0)
  /\ KnownMatch(f) /\ index > 1 /\ index + 1 < f.observed
  /\ BackOutTo(index - 1)

(* The observed length changed: one byte deeper.                             *)
Deepens(f) == /\ ~UnknownInvalid(f)
              /\ ~KnownMatch(f)
              /\ index + 1 < Width
              /\ lastLength # {f.observed}
              /\ index + 1 < f.observed

Settle(f) ==
  /\ ~Structural(bytes, index)
  /\ ~(UnknownInvalid(f) /\ index > 0)
  /\ ~(KnownMatch(f) /\ index > 1 /\ index + 1 < f.observed)
  /\ index' = IF Deepens(f) THEN index + 1 ELSE index
  /\ lastLength' = {f.observed}
  /\ UNCHANGED bytes

TunnelObserve(f) ==
  /\ \/ DescendStructure \/ BackOutInvalid(f) \/ BackOutOperand(f) \/ Settle(f)
  /\ UNCHANGED <<range, started, done, panicked, candidate>>

-----------------------------------------------------------------------------
TunnelTypeOK == /\ range \in [start : Instruction, end : Instruction]
                /\ bytes \in Raw
                /\ index \in 0 .. Width
                /\ lastLength \in SUBSET Nat
                /\ \A m, n \in lastLength : m = n
                /\ started \in BOOLEAN /\ done \in BOOLEAN
                /\ panicked \in BOOLEAN
                /\ candidate \in Instruction \cup {NoCandidate}
===============================================================================
