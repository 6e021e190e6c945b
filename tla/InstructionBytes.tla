--------------------------- MODULE InstructionBytes ---------------------------
(* crates/core/src/instruction.rs: an instruction is a fixed array of bytes  *)
(* of which the first len are specified.  Positions count from 0 as in the   *)
(* source.  Base is 256 and Width 16 in the code; nothing below needs that.  *)
EXTENDS Naturals

CONSTANTS Base, Width

ASSUME ByteAssumption == Base \in Nat /\ Base >= 2
ASSUME WidthAssumption == Width \in Nat /\ Width >= 1

Byte == 0 .. Base - 1
Positions == 0 .. Width - 1
Raw == [Positions -> Byte]
Instruction == [bytes : Raw, len : 0 .. Width]

Smaller(m, n) == IF m <= n THEN m ELSE n
Larger(m, n) == IF m >= n THEN m ELSE n

(* Mutant: the length is taken as it is.                                     *)
NewUnclamped(bytes, len) == [bytes |-> bytes, len |-> len]

(* InstructionBytes::new clamps the length.                                  *)
NewInstruction(bytes, len) == [bytes |-> bytes, len |-> Smaller(len, Width)]

(* instruction_lt compares all the bytes, whatever the lengths.              *)
Precedes(a, b) ==
  \E i \in Positions : /\ a[i] < b[i]
                       /\ \A j \in Positions : j < i => a[j] = b[j]

(* Adding one to the number in the first n bytes, with byte i the last one   *)
(* that does not wrap: it grows, the bytes behind it wrap to 0.              *)
CarriesTo(bytes, n, i) ==
  /\ bytes[i] # Base - 1
  /\ \A j \in Positions : i < j /\ j < n => bytes[j] = Base - 1

Carried(bytes, n, i) ==
  [j \in Positions |-> IF j = i THEN bytes[j] + 1
                       ELSE IF i < j /\ j < n THEN 0 ELSE bytes[j]]

(* The number in the first n bytes is the largest there is.                  *)
WrapsAround(bytes, n) == \A j \in Positions : j < n => bytes[j] = Base - 1

ZeroFirst(bytes, n) == [j \in Positions |-> IF j < n THEN 0 ELSE bytes[j]]

ZeroFrom(bytes, n) == [j \in Positions |-> IF j < n THEN bytes[j] ELSE 0]

(* Every byte from position n on is zero.                                    *)
ZeroTail(bytes, n) == \A j \in Positions : j >= n => bytes[j] = 0
===============================================================================
