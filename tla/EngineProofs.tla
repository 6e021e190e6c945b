----------------------------- MODULE EngineProofs -----------------------------
(* Proofs about Corpus and the Engine it runs, for any number of byte values *)
(* and any length of instructions, any policies and any feedback.            *)
EXTENDS Corpus, OrderLemmas

(* A systematic search has begun, and stands where its candidate was.        *)
Asking == pc \in {"next", "try"}

CursorInv ==
  /\ pc = "try" => Offered
  /\ Systematic =>
    /\ ~started => ~Offered /\ bytes = range.start.bytes
    /\ pc = "next" /\ started => Offered
    /\ Offered => started
    /\ Asking => ~done
    /\ range.start \in Specified

BruteInv ==
  mode = "brute" =>
    /\ range.start.len <= depth
    /\ ZeroTail(bytes, depth)
    /\ Offered => candidate.bytes = bytes

(* Observing may zero what follows the index; up to it the bytes stay those  *)
(* of the candidate.                                                         *)
TunnelInv ==
  mode = "tunnel" =>
    /\ ZeroTail(bytes, index + 1)
    /\ ~started => index = range.start.len
    /\ Offered => /\ index <= candidate.len
                  /\ ZeroTail(candidate.bytes, candidate.len)
                  /\ \A j \in Positions : j <= index => bytes[j] = candidate.bytes[j]
    /\ pc = "try" => /\ bytes = candidate.bytes
                     /\ candidate.len = Smaller(index + 1, Width)

(* A candidate with one prefix too many has it in the byte at the index.     *)
PrefixInv ==
  mode = "tunnel" /\ Offered /\ policy.maxPrefix # Unlimited
    /\ OpcodeStart(range.start.bytes) <= policy.maxPrefix
  => /\ OpcodeStart(candidate.bytes) <= policy.maxPrefix + 1
     /\ OpcodeStart(candidate.bytes) > policy.maxPrefix
          => index <= policy.maxPrefix

EngineInv == /\ TypeOK
             /\ CursorInv /\ BruteInv /\ TunnelInv
             /\ InRange /\ PrefixInv

IInv == CorpusTypeOK /\ EngineInv

-----------------------------------------------------------------------------
(* The strategies have the bytes of the engine.                              *)
LEMMA BruteBytes ==
  /\ Brute!Positions = Positions /\ Brute!Raw = Raw
  /\ Brute!Instruction = Instruction
  /\ \A a, b : Brute!Precedes(a, b) <=> Precedes(a, b)
  /\ \A a, n, i : Brute!CarriesTo(a, n, i) <=> CarriesTo(a, n, i)
  /\ \A a, n, i : Brute!Carried(a, n, i) = Carried(a, n, i)
  /\ \A a, n : Brute!WrapsAround(a, n) <=> WrapsAround(a, n)
  /\ \A a, n : Brute!ZeroFirst(a, n) = ZeroFirst(a, n)
  /\ \A a, n : Brute!NewInstruction(a, n) = NewInstruction(a, n)
  /\ \A m, n : Brute!Smaller(m, n) = Smaller(m, n)
  /\ \A m, n : Brute!Larger(m, n) = Larger(m, n)
<1>1. Brute!Positions = Positions BY DEF Brute!Positions, Positions
<1>2. Brute!Raw = Raw
  BY <1>1 DEF Brute!Raw, Raw, Brute!Byte, Byte
<1>3. Brute!Instruction = Instruction
  BY <1>2 DEF Brute!Instruction, Instruction
<1>4. \A m, n : Brute!Smaller(m, n) = Smaller(m, n)
  BY DEF Brute!Smaller, Smaller
<1>5. \A a, n : Brute!NewInstruction(a, n) = NewInstruction(a, n)
  BY <1>4 DEF Brute!NewInstruction, NewInstruction
<1> QED
  BY <1>1, <1>2, <1>3, <1>4, <1>5
     DEF Brute!Precedes, Precedes, Brute!CarriesTo, CarriesTo, Brute!Carried,
         Carried, Brute!WrapsAround, WrapsAround, Brute!ZeroFirst, ZeroFirst,
         Brute!Larger, Larger

(* The same of the tunnel search.                                            *)
LEMMA TunnelBytes ==
  /\ Tunnel!Positions = Positions /\ Tunnel!Raw = Raw
  /\ Tunnel!Instruction = Instruction
  /\ \A a, b : Tunnel!Precedes(a, b) <=> Precedes(a, b)
  /\ \A a, n, i : Tunnel!CarriesTo(a, n, i) <=> CarriesTo(a, n, i)
  /\ \A a, n, i : Tunnel!Carried(a, n, i) = Carried(a, n, i)
  /\ \A a, n : Tunnel!WrapsAround(a, n) <=> WrapsAround(a, n)
  /\ \A a, n : Tunnel!ZeroFirst(a, n) = ZeroFirst(a, n)
  /\ \A a, n : Tunnel!ZeroFrom(a, n) = ZeroFrom(a, n)
  /\ \A a, n : Tunnel!NewInstruction(a, n) = NewInstruction(a, n)
  /\ \A m, n : Tunnel!Smaller(m, n) = Smaller(m, n)
<1>1. Tunnel!Positions = Positions BY DEF Tunnel!Positions, Positions
<1>2. Tunnel!Raw = Raw
  BY <1>1 DEF Tunnel!Raw, Raw, Tunnel!Byte, Byte
<1>3. Tunnel!Instruction = Instruction
  BY <1>2 DEF Tunnel!Instruction, Instruction
<1>4. \A m, n : Tunnel!Smaller(m, n) = Smaller(m, n)
  BY DEF Tunnel!Smaller, Smaller
<1>5. \A a, n : Tunnel!NewInstruction(a, n) = NewInstruction(a, n)
  BY <1>4 DEF Tunnel!NewInstruction, NewInstruction
<1> QED
  BY <1>1, <1>2, <1>3, <1>4, <1>5
     DEF Tunnel!Precedes, Precedes, Tunnel!CarriesTo, CarriesTo,
         Tunnel!Carried, Carried, Tunnel!WrapsAround, WrapsAround,
         Tunnel!ZeroFirst, ZeroFirst, Tunnel!ZeroFrom, ZeroFrom

(* A candidate made of the bytes is one.                                     *)
LEMMA CandidateType ==
  ASSUME NEW b \in Raw, NEW n \in Nat
  PROVE  /\ NewInstruction(b, n) \in Instruction
         /\ NewInstruction(b, n).bytes = b
         /\ NewInstruction(b, n).len = Smaller(n, Width)
         /\ NewInstruction(b, n) # NoCandidate
<1>1. Smaller(n, Width) \in 0 .. Width BY WidthAssumption DEF Smaller
<1>2. NewInstruction(b, n) \in Instruction
  BY <1>1 DEF NewInstruction, Instruction
<1> QED BY <1>2, ConfigAssumption DEF NewInstruction

(* The prefixes an instruction opens with are its first OpcodeStart bytes.   *)
LEMMA PrefixRun ==
  ASSUME NEW b \in Raw
  PROVE  /\ OpcodeStart(b) \in 0 .. Width
         /\ \A j \in Positions : j < OpcodeStart(b) => b[j] \in Prefixes
         /\ \A j \in Positions : j = OpcodeStart(b) => b[j] \notin Prefixes
<1> DEFINE Others == {k \in Positions : b[k] \notin Prefixes}
<1> SUFFICES \E n \in 0 .. Width :
                /\ Leading(b) = 0 .. n - 1
                /\ \A j \in Positions : j < n => b[j] \in Prefixes
                /\ \A j \in Positions : j = n => b[j] \notin Prefixes
  <2>1. PICK n \in 0 .. Width :
               /\ Leading(b) = 0 .. n - 1
               /\ \A j \in Positions : j < n => b[j] \in Prefixes
               /\ \A j \in Positions : j = n => b[j] \notin Prefixes
    OBVIOUS
  <2>2. n \in Nat /\ 0 \in Int /\ n - 1 \in Int BY WidthAssumption
  <2>3. Cardinality(0 .. n - 1) = n BY <2>2, FS_Interval
  <2> QED BY <2>1, <2>3 DEF OpcodeStart
<1>1. CASE Others = {}
  <2>1. \A j \in Positions : b[j] \in Prefixes BY <1>1
  <2>2. Leading(b) = 0 .. Width - 1
    BY <2>1, WidthAssumption DEF Leading, Positions
  <2>3. Width \in 0 .. Width BY WidthAssumption
  <2> QED BY <2>1, <2>2, <2>3, WidthAssumption DEF Positions
<1>2. CASE Others # {}
  <2>1. Others \in SUBSET Nat BY PositionType
  <2>2. PICK n \in Others : \A k \in Others : n <= k
    BY <1>2, <2>1, LeastNatural
  <2>3. n \in Positions /\ n \in 0 .. Width /\ b[n] \notin Prefixes
    BY <2>2, WidthAssumption DEF Positions
  <2>4. \A j \in Positions : j < n => b[j] \in Prefixes
    BY <2>2, <2>3, PositionType
  <2>5. Leading(b) = 0 .. n - 1
    BY <2>3, <2>4, WidthAssumption DEF Leading, Positions
  <2> QED BY <2>3, <2>4, <2>5
<1> QED BY <1>1, <1>2

(* An instruction that differs from another in one byte, and is zero behind  *)
(* it, has at most that byte as a prefix more.                               *)
LEMMA SiblingPrefixes ==
  ASSUME NEW c \in Raw, NEW d \in Raw, NEW i \in Positions,
         \A j \in Positions : j < i => d[j] = c[j],
         \A j \in Positions : j > i => d[j] = 0
  PROVE  \/ OpcodeStart(c) < i /\ OpcodeStart(d) = OpcodeStart(c)
         \/ OpcodeStart(c) >= i /\ OpcodeStart(d) <= i + 1
<1> DEFINE m == OpcodeStart(c)
           n == OpcodeStart(d)
<1>1. /\ m \in 0 .. Width
      /\ \A j \in Positions : j < m => c[j] \in Prefixes
      /\ \A j \in Positions : j = m => c[j] \notin Prefixes
  BY PrefixRun
<1>2. /\ n \in 0 .. Width
      /\ \A j \in Positions : j < n => d[j] \in Prefixes
      /\ \A j \in Positions : j = n => d[j] \notin Prefixes
  BY PrefixRun
<1> HIDE DEF m, n
<1>3. 0 \notin Prefixes BY MapAssumption
<1>4. i \in Nat /\ i < Width BY WidthAssumption DEF Positions
<1>5. n <= i + 1
  <2> SUFFICES ASSUME n > i + 1 PROVE FALSE
    BY <1>2, <1>4
  <2>1. i + 1 \in Positions BY <1>2, <1>4, WidthAssumption DEF Positions
  <2> QED BY <1>2, <1>3, <1>4, <2>1
<1>6. CASE m < i
  <2>1. m \in Positions BY <1>1, <1>4, <1>6, WidthAssumption DEF Positions
  <2>2. ~(m < n) BY <1>1, <1>2, <1>6, <2>1
  <2>3. ~(n < m)
    <3> SUFFICES ASSUME n < m PROVE FALSE
      OBVIOUS
    <3>1. n \in Positions BY <1>1, <1>2, WidthAssumption DEF Positions
    <3> QED BY <1>1, <1>2, <1>6, <3>1, <1>4
  <2> QED BY <1>1, <1>2, <1>6, <2>2, <2>3 DEF m, n
<1> QED BY <1>1, <1>4, <1>5, <1>6 DEF m, n

-----------------------------------------------------------------------------
(* A brute search goes to the next number: it stays in the range, and passes *)
(* over no number of its depth.                                              *)
LEMMA BruteGoes ==
  ASSUME EngineInv, mode = "brute", pc = "next", started, Brute!BruteNext
  PROVE  /\ bytes' \in Raw /\ ZeroTail(bytes', depth)
         /\ UNCHANGED <<range, depth, started>>
         /\ done' \in BOOLEAN
         /\ \/ candidate' = NoCandidate
            \/ /\ candidate' \in Instruction /\ candidate' # NoCandidate
               /\ candidate'.bytes = bytes' /\ ~done'
               /\ Precedes(bytes, bytes') /\ Precedes(bytes', range.end.bytes)
         /\ \A b \in {r \in Raw : ZeroTail(r, depth)} :
              Precedes(bytes, b) =>
                \/ ~Precedes(b, range.end.bytes)
                \/ candidate' # NoCandidate /\ ~Precedes(b, bytes')
<1>1. /\ bytes \in Raw /\ depth \in 1 .. Width /\ ZeroTail(bytes, depth)
      /\ depth \in 0 .. Width /\ depth \in Nat
      /\ range.end.bytes \in Raw
  BY BruteBytes, WidthAssumption
     DEF EngineInv, TypeOK, Brute!BruteTypeOK, BruteInv, Instruction
<1>2. CASE Brute!BruteIncrement
  <2>1. PICK i \in 0 .. depth - 1 : /\ CarriesTo(bytes, depth, i)
                                   /\ bytes' = Carried(bytes, depth, i)
    BY <1>2, BruteBytes DEF Brute!BruteIncrement
  <2>2. i \in Positions /\ i < depth BY <1>1, <2>1, WidthAssumption DEF Positions
  <2>3. bytes' \in Raw /\ ZeroTail(bytes', i + 1)
    BY <1>1, <2>1, <2>2, CarriedType
  <2>4. ZeroTail(bytes', depth)
    BY <2>2, <2>3, <1>1, PositionType DEF ZeroTail
  <2>5. Precedes(bytes, bytes') BY <1>1, <2>1, <2>2, CarriedAbove
  <2>6. candidate' = IF Precedes(bytes', range.end.bytes)
                     THEN NewInstruction(bytes', depth) ELSE NoCandidate
    BY <1>2, BruteBytes
       DEF Brute!BruteIncrement, Brute!BruteCurrent, Brute!fixed
  <2>7. /\ UNCHANGED <<range, depth, started>>
        /\ done' = (candidate' = NoCandidate) /\ done' \in BOOLEAN
    BY <1>2 DEF Brute!BruteIncrement, Brute!fixed
  <2>8. ASSUME NEW b \in Raw, ZeroTail(b, depth), Precedes(bytes, b)
        PROVE  ~Precedes(b, bytes')
    BY <1>1, <2>1, <2>2, <2>8, CarriedIsNext
  <2>9. CASE Precedes(bytes', range.end.bytes)
    BY <1>1, <2>3, <2>4, <2>5, <2>6, <2>7, <2>8, <2>9, CandidateType
  <2>10. CASE ~Precedes(bytes', range.end.bytes)
    <3>1. ASSUME NEW b \in Raw, ZeroTail(b, depth), Precedes(bytes, b)
          PROVE  ~Precedes(b, range.end.bytes)
      BY <1>1, <2>3, <2>8, <2>10, <3>1, OrderNotBelow
    <3> QED BY <2>3, <2>4, <2>6, <2>7, <2>10, <3>1
  <2> QED BY <2>9, <2>10
<1>3. CASE Brute!BruteWrap
  <2>1. /\ WrapsAround(bytes, depth) /\ bytes' = ZeroFirst(bytes, depth)
        /\ candidate' = NoCandidate
        /\ UNCHANGED <<range, depth, started>> /\ done' \in BOOLEAN
    BY <1>3, BruteBytes DEF Brute!BruteWrap, Brute!fixed
  <2>2. bytes' \in Raw BY <1>1, <2>1, ZeroType
  <2>3. ZeroTail(bytes', depth)
    BY <1>1, <2>1, PositionType DEF ZeroTail, ZeroFirst
  <2>4. ASSUME NEW b \in Raw, ZeroTail(b, depth), Precedes(bytes, b)
        PROVE  FALSE
    BY <1>1, <2>1, <2>4, NothingAboveWrap
  <2> QED BY <2>1, <2>2, <2>3, <2>4
<1>4. ~Brute!BruteOver
  BY DEF Brute!BruteOver, EngineInv, CursorInv, Systematic, Asking
<1>5. ~Brute!BruteFirst BY DEF Brute!BruteFirst
<1> QED BY <1>2, <1>3, <1>4, <1>5 DEF Brute!BruteNext

LEMMA BruteAsks ==
  ASSUME EngineInv, NextBrute, Ask
  PROVE  EngineInv'
<1>1. /\ mode = "brute" /\ pc = "next" /\ Brute!BruteNext
      /\ UNCHANGED <<mode, policy, index, lastLength, panicked, queue>>
      /\ pc' = IF panicked' THEN "panicked"
               ELSE IF candidate' = NoCandidate THEN "over" ELSE "try"
  BY DEF NextBrute, Ask
<1>2. /\ TypeOK /\ CursorInv /\ InRange /\ BruteInv BY DEF EngineInv
<1>3. /\ bytes \in Raw /\ depth \in 1 .. Width /\ ZeroTail(bytes, depth)
      /\ range \in [start : Instruction, end : Instruction]
      /\ range.start.bytes \in Raw /\ range.end.bytes \in Raw
      /\ range.start \in Specified /\ range.start.len <= depth
      /\ started \in BOOLEAN /\ done \in BOOLEAN /\ ~done
  BY <1>1, <1>2, BruteBytes
     DEF TypeOK, Brute!BruteTypeOK, CursorInv, BruteInv, Instruction,
         Systematic, Asking
<1>4. /\ UNCHANGED <<range, depth>> /\ started' = TRUE /\ done' \in BOOLEAN
      /\ bytes' \in Raw /\ ZeroTail(bytes', depth)
      /\ \/ candidate' = NoCandidate
         \/ /\ candidate' \in Instruction /\ candidate' # NoCandidate
            /\ candidate'.bytes = bytes' /\ ~done'
            /\ ~Precedes(bytes', range.start.bytes)
            /\ Precedes(bytes', range.end.bytes)
  <2>1. CASE started
    <3>1. Offered /\ candidate.bytes = bytes
      BY <1>1, <1>2, <2>1 DEF CursorInv, BruteInv, Systematic
    <3>2. ~Precedes(bytes, range.start.bytes)
      BY <1>1, <1>2, <3>1 DEF InRange, Systematic
    <3>3. ASSUME bytes' \in Raw, Precedes(bytes, bytes')
          PROVE  ~Precedes(bytes', range.start.bytes)
      BY <1>3, <3>2, <3>3, OrderTransitive
    <3> QED BY <1>1, <2>1, <3>3, BruteGoes
  <2>2. CASE ~started
    <3>1. bytes = range.start.bytes
      BY <1>1, <1>2, <2>2 DEF CursorInv, Systematic
    <3>2. /\ UNCHANGED <<range, depth, bytes, done>> /\ started' = TRUE
          /\ candidate' = IF Precedes(bytes, range.end.bytes)
                          THEN NewInstruction(bytes, depth) ELSE NoCandidate
      BY <1>1, <1>3, <2>2, BruteBytes
         DEF Brute!BruteNext, Brute!BruteFirst, Brute!BruteIncrement,
             Brute!BruteWrap, Brute!BruteOver, Brute!fixed, Brute!BruteCurrent
    <3>3. ~Precedes(bytes, range.start.bytes)
      BY <1>3, <3>1, OrderAsymmetric
    <3>4. depth \in Nat BY <1>3
    <3>5. /\ NewInstruction(bytes, depth) \in Instruction
          /\ NewInstruction(bytes, depth).bytes = bytes
          /\ NewInstruction(bytes, depth) # NoCandidate
      BY <1>3, <3>4, CandidateType
    <3>6. CASE Precedes(bytes, range.end.bytes)
      <4>1. candidate' = NewInstruction(bytes, depth) BY <3>2, <3>6
      <4>2. candidate' \in Instruction /\ candidate' # NoCandidate
            /\ candidate'.bytes = bytes
        BY <3>5, <4>1
      <4>3. bytes' = bytes /\ range' = range /\ depth' = depth /\ done' = done
        BY <3>2
      <4>4. ~Precedes(bytes', range.start.bytes) /\ Precedes(bytes', range.end.bytes)
            /\ ZeroTail(bytes', depth) /\ bytes' \in Raw
        BY <1>3, <3>3, <3>6, <4>3
      <4> QED BY <1>3, <3>2, <4>2, <4>3, <4>4
    <3>7. CASE ~Precedes(bytes, range.end.bytes)
      <4>1. candidate' = NoCandidate BY <3>2, <3>7
      <4>2. bytes' = bytes BY <3>2
      <4>3. ZeroTail(bytes', depth) /\ bytes' \in Raw BY <1>3, <4>2
      <4> QED BY <1>3, <3>2, <4>1, <4>3
    <3> QED BY <3>6, <3>7
  <2> QED BY <1>3, <2>1, <2>2
<1>5. TypeOK'
  BY <1>1, <1>2, <1>3, <1>4, BruteBytes, TunnelBytes
     DEF TypeOK, Brute!BruteTypeOK, Tunnel!TunnelTypeOK, Modes
<1>6. CursorInv'
  BY <1>1, <1>3, <1>4 DEF CursorInv, Systematic, Offered, Asking
<1>7. BruteInv' BY <1>1, <1>3, <1>4 DEF BruteInv, Offered
<1>8. InRange' BY <1>1, <1>4 DEF InRange, Offered
<1>9. TunnelInv' /\ PrefixInv' BY <1>1 DEF TunnelInv, PrefixInv
<1> QED BY <1>5, <1>6, <1>7, <1>8, <1>9 DEF EngineInv

-----------------------------------------------------------------------------
(* A tunnel search goes to a sibling, at the index or before it.             *)
LEMMA TunnelGoes ==
  ASSUME EngineInv, mode = "tunnel", pc = "next", started, Tunnel!TunnelNext
  PROVE  /\ UNCHANGED <<range, started>>
         /\ done' \in BOOLEAN /\ panicked' \in BOOLEAN
         /\ bytes' \in Raw /\ index' \in 0 .. Width
         /\ lastLength' \in {lastLength, {}}
         /\ ZeroTail(bytes', index' + 1)
         /\ \/ candidate' = NoCandidate
            \/ /\ candidate' \in Instruction /\ candidate' # NoCandidate
               /\ candidate'.bytes = bytes' /\ ~done'
               /\ candidate'.len = Smaller(index' + 1, Width)
               /\ Sibling(candidate, candidate')
               /\ Precedes(candidate.bytes, bytes')
               /\ Precedes(bytes', range.end.bytes)
               /\ index' \in Positions /\ index' <= index
               /\ \A j \in Positions : j < index' => bytes'[j] = candidate.bytes[j]
<1>1. /\ bytes \in Raw /\ index \in 0 .. Width /\ ZeroTail(bytes, index + 1)
      /\ range.end.bytes \in Raw
      /\ started \in BOOLEAN /\ done \in BOOLEAN /\ panicked \in BOOLEAN
      /\ candidate \in Instruction \cup {NoCandidate}
  BY TunnelBytes DEF EngineInv, TypeOK, Tunnel!TunnelTypeOK, TunnelInv, Instruction
<1>2. /\ candidate \in Instruction /\ candidate.bytes \in Raw
      /\ candidate.len \in 0 .. Width
      /\ index <= candidate.len
      /\ \A j \in Positions : j <= index => bytes[j] = candidate.bytes[j]
  BY <1>1 DEF EngineInv, CursorInv, TunnelInv, Systematic, Offered, Instruction
<1>3. ~done BY DEF EngineInv, CursorInv, Systematic, Asking
<1>4. CASE Tunnel!TunnelIncrement
  <2>1. PICK i \in 0 .. index :
               /\ index \in Positions
               /\ CarriesTo(bytes, index + 1, i)
               /\ bytes' = Carried(bytes, index + 1, i)
               /\ lastLength' \in {lastLength, {}}
               /\ index' = i
    BY <1>4, TunnelBytes DEF Tunnel!TunnelIncrement
  <2>2. /\ i \in Positions /\ i < index + 1 /\ i <= index
        /\ i \in Nat /\ i + 1 \in Nat /\ i + 1 <= Width
        /\ index \in Nat /\ index + 1 \in 0 .. Width
    BY <1>1, <2>1, WidthAssumption DEF Positions
  <2>3. /\ bytes' \in Raw /\ ZeroTail(bytes', i + 1)
        /\ bytes'[i] = bytes[i] + 1
        /\ \A j \in Positions : j < i => bytes'[j] = bytes[j]
    <3> DEFINE n == index + 1
               next == Carried(bytes, n, i)
    <3>1. n \in 0 .. Width /\ i < n /\ CarriesTo(bytes, n, i) /\ ZeroTail(bytes, n)
      BY <1>1, <2>1, <2>2
    <3>2. bytes' = next BY <2>1
    <3> HIDE DEF n, next
    <3>3. /\ next \in Raw /\ ZeroTail(next, i + 1)
          /\ next[i] = bytes[i] + 1
          /\ \A j \in Positions : j < i => next[j] = bytes[j]
      BY <1>1, <2>2, <3>1, CarriedType DEF next
    <3> QED BY <3>2, <3>3
  <2>4. \A j \in Positions : j <= i => bytes[j] = candidate.bytes[j]
    <3> SUFFICES ASSUME NEW j \in Positions, j <= i
                 PROVE  bytes[j] = candidate.bytes[j]
      OBVIOUS
    <3>1. j <= index BY <2>2, PositionType
    <3> QED BY <1>2, <3>1
  <2>5. Precedes(candidate.bytes, bytes')
    BY <1>1, <1>2, <2>1, <2>2, <2>4, CarriedAbove
  <2>6. /\ candidate' = IF Precedes(bytes', range.end.bytes)
                        THEN NewInstruction(bytes', i + 1) ELSE NoCandidate
        /\ done' = (candidate' = NoCandidate) /\ done' \in BOOLEAN
        /\ UNCHANGED <<range, started, panicked>>
    BY <1>4, <2>1, TunnelBytes
       DEF Tunnel!TunnelIncrement, Tunnel!TunnelCurrent
  <2>7. /\ UNCHANGED <<range, started>> /\ panicked' \in BOOLEAN
        /\ index' \in 0 .. Width
    <3>1. panicked' \in BOOLEAN BY <1>1, <2>6
    <3>2. index' \in 0 .. Width BY <2>1, <2>2, WidthAssumption DEF Positions
    <3> QED BY <2>6, <3>1, <3>2
  <2>8. CASE ~Precedes(bytes', range.end.bytes)
    BY <2>1, <2>3, <2>6, <2>7, <2>8
  <2>9. CASE Precedes(bytes', range.end.bytes)
    <3>1. candidate' = NewInstruction(bytes', i + 1) BY <2>6, <2>9
    <3>2. /\ candidate' \in Instruction /\ candidate' # NoCandidate
          /\ candidate'.bytes = bytes' /\ candidate'.len = Smaller(i + 1, Width)
      BY <2>2, <2>3, <3>1, CandidateType
    <3>3. Smaller(i + 1, Width) = i + 1 BY <2>2 DEF Smaller
    <3>4. candidate.bytes[i] < Base - 1 /\ bytes'[i] = candidate.bytes[i] + 1
      BY <1>1, <2>1, <2>2, <2>3, <2>4, ByteType, ByteAssumption DEF CarriesTo
    <3>5. bytes' = [j \in Positions |->
                      IF j < i THEN candidate.bytes[j]
                      ELSE IF j = i THEN candidate.bytes[i] + 1 ELSE 0]
      <4>1. bytes' = [j \in Positions |-> bytes'[j]] BY <2>3 DEF Raw
      <4>2. ASSUME NEW j \in Positions
            PROVE  bytes'[j] = IF j < i THEN candidate.bytes[j]
                               ELSE IF j = i THEN candidate.bytes[i] + 1 ELSE 0
        BY <2>2, <2>3, <2>4, <3>4, PositionType DEF ZeroTail
      <4> QED BY <4>1, <4>2
    <3>6. i <= candidate.len BY <1>2, <2>2
    <3>7. Sibling(candidate, candidate')
      BY <2>2, <3>2, <3>3, <3>4, <3>5, <3>6 DEF Sibling
    <3>8. \A j \in Positions : j < i => bytes'[j] = candidate.bytes[j]
      BY <2>2, <2>3, <2>4, PositionType
    <3> QED BY <2>1, <2>2, <2>3, <2>5, <2>6, <2>7, <2>9, <3>2, <3>7, <3>8
  <2> QED BY <2>8, <2>9
<1>5. CASE Tunnel!TunnelWrap
  <2>1. /\ index \in Positions
        /\ bytes' = ZeroFirst(bytes, index + 1)
        /\ lastLength' \in {lastLength, {}}
        /\ index' = 0 /\ done' \in BOOLEAN
        /\ candidate' = NoCandidate
        /\ UNCHANGED <<range, started, panicked>>
    BY <1>5, TunnelBytes DEF Tunnel!TunnelWrap
  <2>2. index + 1 \in Nat BY <1>1
  <2>3. bytes' \in Raw BY <1>1, <2>1, <2>2, ZeroType
  <2>4. ZeroTail(bytes', index' + 1)
    BY <1>1, <2>1, PositionType DEF ZeroTail, ZeroFirst
  <2>5. index' \in 0 .. Width BY <2>1, WidthAssumption
  <2> QED BY <1>1, <2>1, <2>3, <2>4, <2>5
<1>6. CASE Tunnel!TunnelPanic
  <2>1. /\ UNCHANGED <<range, bytes, index, lastLength, started, done>>
        /\ panicked' = TRUE /\ candidate' = NoCandidate
    BY <1>6 DEF Tunnel!TunnelPanic, Tunnel!position
  <2>2. ZeroTail(bytes', index' + 1) BY <1>1, <2>1
  <2> QED BY <1>1, <2>1, <2>2
<1>7. ~Tunnel!TunnelFirst BY DEF Tunnel!TunnelFirst
<1>8. ~Tunnel!TunnelOver BY <1>3 DEF Tunnel!TunnelOver
<1> QED BY <1>4, <1>5, <1>6, <1>7, <1>8 DEF Tunnel!TunnelNext

(* The policy's bound holds for a sibling, of a candidate that itself has a  *)
(* prefix too many as well.                                                  *)
LEMMA PrefixStep ==
  ASSUME EngineInv, mode = "tunnel", Offered, policy.maxPrefix # Unlimited,
         OpcodeStart(range.start.bytes) <= policy.maxPrefix,
         NEW d \in Raw, NEW i \in Positions, i <= index,
         \A j \in Positions : j < i => d[j] = candidate.bytes[j],
         ZeroTail(d, i + 1)
  PROVE  /\ OpcodeStart(d) <= policy.maxPrefix + 1
         /\ OpcodeStart(d) > policy.maxPrefix => i <= policy.maxPrefix
<1> DEFINE max == policy.maxPrefix
           c == candidate.bytes
<1>1. max \in Nat /\ index \in Nat /\ i \in Nat /\ c \in Raw
  BY TunnelBytes, PositionType
     DEF EngineInv, TypeOK, Tunnel!TunnelTypeOK, Instruction, Offered
<1>2. OpcodeStart(c) <= max + 1 /\ (OpcodeStart(c) > max => index <= max)
  BY DEF EngineInv, PrefixInv
<1>3. \A j \in Positions : j > i => d[j] = 0
  BY <1>1, PositionType DEF ZeroTail
<1>4. \/ OpcodeStart(c) < i /\ OpcodeStart(d) = OpcodeStart(c)
      \/ OpcodeStart(c) >= i /\ OpcodeStart(d) <= i + 1
  BY <1>1, <1>3, SiblingPrefixes
<1>5. OpcodeStart(c) \in Nat /\ OpcodeStart(d) \in Nat
  BY <1>1, PrefixRun
<1> HIDE DEF max, c
<1>6. OpcodeStart(d) <= max + 1 /\ (OpcodeStart(d) > max => i <= max)
  BY <1>1, <1>2, <1>4, <1>5
<1> QED BY <1>6 DEF max

LEMMA TunnelAsks ==
  ASSUME EngineInv, NextTunnel, Ask
  PROVE  EngineInv'
<1>1. /\ mode = "tunnel" /\ pc = "next" /\ Tunnel!TunnelNext
      /\ UNCHANGED <<mode, policy, depth, queue>>
      /\ pc' = IF panicked' THEN "panicked"
               ELSE IF candidate' = NoCandidate THEN "over" ELSE "try"
  BY DEF NextTunnel, Ask
<1>2. /\ TypeOK /\ CursorInv /\ InRange /\ TunnelInv BY DEF EngineInv
<1>3. /\ bytes \in Raw /\ index \in 0 .. Width /\ ZeroTail(bytes, index + 1)
      /\ range \in [start : Instruction, end : Instruction]
      /\ range.start.bytes \in Raw /\ range.end.bytes \in Raw
      /\ range.start \in Specified
      /\ started \in BOOLEAN /\ done \in BOOLEAN /\ ~done
      /\ panicked \in BOOLEAN
      /\ candidate \in Instruction \cup {NoCandidate}
  BY <1>1, <1>2, TunnelBytes
     DEF TypeOK, Tunnel!TunnelTypeOK, CursorInv, TunnelInv, Instruction,
         Systematic, Asking
<1> DEFINE Bound == policy.maxPrefix # Unlimited
                    /\ OpcodeStart(range.start.bytes) <= policy.maxPrefix
           Bounded == /\ OpcodeStart(bytes') <= policy.maxPrefix + 1
                      /\ OpcodeStart(bytes') > policy.maxPrefix
                           => index' <= policy.maxPrefix
           Found == /\ candidate' \in Instruction /\ candidate' # NoCandidate
                    /\ candidate'.bytes = bytes'
                    /\ candidate'.len = Smaller(index' + 1, Width)
                    /\ ~done'
                    /\ ~Precedes(bytes', range.start.bytes)
                    /\ Precedes(bytes', range.end.bytes)
                    /\ Bound => Bounded
<1>4. /\ UNCHANGED range /\ started' = TRUE
      /\ done' \in BOOLEAN /\ panicked' \in BOOLEAN
      /\ bytes' \in Raw /\ index' \in 0 .. Width
      /\ lastLength' \in {lastLength, {}}
      /\ ZeroTail(bytes', index' + 1)
      /\ candidate' = NoCandidate \/ Found
  <2>1. CASE started
    <3>1. /\ Offered /\ candidate.bytes \in Raw
          /\ ~Precedes(candidate.bytes, range.start.bytes)
      BY <1>1, <1>2, <1>3, <2>1
         DEF CursorInv, InRange, Systematic, Offered, Instruction
    <3>2. CASE candidate' = NoCandidate
      BY <1>1, <2>1, <3>2, TunnelGoes
    <3>3. CASE candidate' # NoCandidate
      <4>1. /\ UNCHANGED <<range, started>>
            /\ done' \in BOOLEAN /\ panicked' \in BOOLEAN
            /\ bytes' \in Raw /\ index' \in 0 .. Width
            /\ lastLength' \in {lastLength, {}}
            /\ ZeroTail(bytes', index' + 1)
            /\ candidate' \in Instruction /\ candidate'.bytes = bytes' /\ ~done'
            /\ candidate'.len = Smaller(index' + 1, Width)
            /\ Precedes(candidate.bytes, bytes')
            /\ Precedes(bytes', range.end.bytes)
            /\ index' \in Positions /\ index' <= index
            /\ \A j \in Positions : j < index' => bytes'[j] = candidate.bytes[j]
        BY <1>1, <2>1, <3>3, TunnelGoes
      <4>2. ~Precedes(bytes', range.start.bytes)
        BY <1>3, <3>1, <4>1, OrderTransitive
      <4>3. ASSUME Bound PROVE Bounded
        BY <1>1, <3>1, <4>1, <4>3, PrefixStep
      <4> HIDE DEF Bound, Bounded
      <4> QED BY <2>1, <3>3, <4>1, <4>2, <4>3
    <3> QED BY <3>2, <3>3
  <2>2. CASE ~started
    <3>1. bytes = range.start.bytes
      BY <1>1, <1>2, <2>2 DEF CursorInv, Systematic
    <3>2. /\ UNCHANGED <<range, bytes, index, lastLength, done, panicked>>
          /\ started' = TRUE
          /\ candidate' = IF Precedes(bytes, range.end.bytes)
                          THEN NewInstruction(bytes, index + 1) ELSE NoCandidate
      BY <1>1, <1>3, <2>2, TunnelBytes
         DEF Tunnel!TunnelNext, Tunnel!TunnelFirst, Tunnel!TunnelIncrement,
             Tunnel!TunnelWrap, Tunnel!TunnelPanic, Tunnel!TunnelOver,
             Tunnel!position, Tunnel!TunnelCurrent
    <3>3. ~Precedes(bytes, range.start.bytes)
      BY <1>3, <3>1, OrderAsymmetric
    <3>4. index + 1 \in Nat BY <1>3
    <3>5. /\ NewInstruction(bytes, index + 1) \in Instruction
          /\ NewInstruction(bytes, index + 1).bytes = bytes
          /\ NewInstruction(bytes, index + 1).len = Smaller(index + 1, Width)
          /\ NewInstruction(bytes, index + 1) # NoCandidate
      BY <1>3, <3>4, CandidateType
    <3>6. /\ bytes' = bytes /\ index' = index /\ range' = range
          /\ done' = done /\ panicked' = panicked /\ lastLength' = lastLength
      BY <3>2
    <3>7. bytes' \in Raw /\ ZeroTail(bytes', index' + 1)
      BY <1>3, <3>6
    <3>8. ASSUME Bound PROVE Bounded
      <4>1. OpcodeStart(bytes') <= policy.maxPrefix
        BY <3>1, <3>6, <3>8
      <4>2. OpcodeStart(bytes') \in Nat /\ policy.maxPrefix \in Nat
        BY <1>2, <3>7, <3>8, PrefixRun DEF TypeOK
      <4> QED BY <4>1, <4>2
    <3> HIDE DEF Bound, Bounded
    <3>9. CASE Precedes(bytes, range.end.bytes)
      <4>1. candidate' = NewInstruction(bytes, index + 1) BY <3>2, <3>9
      <4>2. Found BY <1>3, <3>3, <3>5, <3>6, <3>8, <3>9, <4>1
      <4> QED BY <1>3, <3>2, <3>6, <3>7, <4>2
    <3>10. CASE ~Precedes(bytes, range.end.bytes)
      <4>1. candidate' = NoCandidate BY <3>2, <3>10
      <4> QED BY <1>3, <3>2, <3>6, <3>7, <4>1
    <3> QED BY <3>9, <3>10
  <2> QED BY <1>3, <2>1, <2>2
<1>5. lastLength' \in SUBSET Nat /\ \A m, n \in lastLength' : m = n
  BY <1>2, <1>4 DEF TypeOK, Tunnel!TunnelTypeOK
<1>6. TypeOK'
  <2>1. candidate' \in Instruction \cup {NoCandidate} BY <1>4
  <2> QED BY <1>1, <1>2, <1>4, <1>5, <2>1, BruteBytes, TunnelBytes
          DEF TypeOK, Brute!BruteTypeOK, Tunnel!TunnelTypeOK
<1>7. CursorInv'
  BY <1>1, <1>3, <1>4 DEF CursorInv, Systematic, Offered, Asking
<1>8. TunnelInv'
  <2>1. ASSUME Found
        PROVE  /\ index' <= candidate'.len
               /\ ZeroTail(candidate'.bytes, candidate'.len)
    <3>1. \/ candidate'.len = index' + 1
          \/ candidate'.len = Width
      BY <2>1 DEF Smaller
    <3>2. index' \in Nat /\ index' <= Width BY <1>4, WidthAssumption
    <3>3. ZeroTail(candidate'.bytes, Width)
      BY WidthAssumption DEF ZeroTail, Positions
    <3> QED BY <1>4, <2>1, <3>1, <3>2, <3>3
  <2> HIDE DEF Bound, Bounded
  <2> QED BY <1>1, <1>4, <2>1 DEF TunnelInv, Offered
<1>9. InRange' BY <1>1, <1>4 DEF InRange, Offered
<1>10. PrefixInv' BY <1>1, <1>4 DEF PrefixInv, Offered
<1>11. BruteInv' BY <1>1 DEF BruteInv
<1> QED BY <1>6, <1>7, <1>8, <1>9, <1>10, <1>11 DEF EngineInv

-----------------------------------------------------------------------------
(* The strategies that are not systematic keep the types.                    *)
LEMMA OthersAsk ==
  ASSUME EngineInv, NextRandom \/ NextDriven, Ask
  PROVE  EngineInv'
<1>1. /\ mode \in {"random", "driven"}
      /\ UNCHANGED <<mode, policy, range, depth, bytes, index, lastLength,
                     started, done, panicked>>
      /\ pc' = "try" => Offered'
      /\ pc' \in {"panicked", "over", "try"}
  BY DEF NextRandom, NextDriven, Ask, cursor, Offered
<1>2. TypeOK BY DEF EngineInv
<1>3. candidate' \in Instruction \cup {NoCandidate} /\ queue' \in Seq(Instruction)
  <2>1. queue \in Seq(Instruction) /\ range \in [start : Instruction, end : Instruction]
    BY <1>2, BruteBytes DEF TypeOK, Brute!BruteTypeOK
  <2>2. CASE NextRandom
    <3>1. queue' = queue BY <2>2 DEF NextRandom, cursor
    <3>2. PICK b \in Raw : candidate' = NewInstruction(b, Larger(range.start.len, 1))
      BY <2>2 DEF NextRandom
    <3>3. Larger(range.start.len, 1) \in Nat
      BY <2>1, WidthAssumption DEF Larger, Instruction
    <3> QED BY <2>1, <3>1, <3>2, <3>3, CandidateType
  <2>3. CASE NextDriven
    BY <2>1, <2>3 DEF NextDriven
  <2> QED BY <2>2, <2>3
<1>4. TypeOK'
  BY <1>1, <1>2, <1>3, BruteBytes, TunnelBytes
     DEF TypeOK, Brute!BruteTypeOK, Tunnel!TunnelTypeOK
<1> QED BY <1>1, <1>4
        DEF EngineInv, CursorInv, BruteInv, TunnelInv, InRange, PrefixInv,
            Systematic

LEMMA Asks == ASSUME EngineInv, Ask PROVE EngineInv'
BY BruteAsks, TunnelAsks, OthersAsk DEF Ask

(* Nothing is at risk where only pc changes.                                 *)
LEMMA Unmoved ==
  ASSUME EngineInv, UNCHANGED <<given, cursor, candidate>>,
         pc' = pc \/ (pc = "try" /\ pc' \in {"next", "failed"})
  PROVE  EngineInv'
<1>1. UNCHANGED <<mode, policy, range, bytes, depth, index, lastLength, started,
                  done, panicked, queue, candidate>>
  BY DEF given, cursor
<1>2. TypeOK /\ CursorInv /\ BruteInv /\ TunnelInv /\ InRange /\ PrefixInv
  BY DEF EngineInv
<1>3. TypeOK'
  BY <1>1, <1>2 DEF TypeOK, Brute!BruteTypeOK, Tunnel!TunnelTypeOK
<1>4. CursorInv'
  BY <1>1, <1>2 DEF CursorInv, Systematic, Offered, Asking
<1>5. BruteInv' BY <1>1, <1>2 DEF BruteInv, Offered
<1>6. TunnelInv' BY <1>1, <1>2 DEF TunnelInv, Offered
<1>7. InRange' BY <1>1, <1>2 DEF InRange, Offered, Systematic
<1>8. PrefixInv' BY <1>1, <1>2 DEF PrefixInv, Offered
<1> QED BY <1>3, <1>4, <1>5, <1>6, <1>7, <1>8 DEF EngineInv

(* Whatever is observed, the index stays within what the candidate specifies *)
(* or just behind it, and the bytes up to it are the candidate's.            *)
LEMMA TunnelLooks ==
  ASSUME EngineInv, mode = "tunnel", pc = "try",
         NEW f \in Tunnel!Feedback, Tunnel!TunnelObserve(f)
  PROVE  /\ bytes' \in Raw /\ index' \in 0 .. Width
         /\ lastLength' \in SUBSET Nat /\ \A m, n \in lastLength' : m = n
         /\ ZeroTail(bytes', index' + 1)
         /\ index' <= candidate.len
         /\ \A j \in Positions : j <= index' => bytes'[j] = candidate.bytes[j]
         /\ UNCHANGED <<range, started, done, panicked, candidate>>
<1>1. /\ bytes \in Raw /\ index \in 0 .. Width /\ ZeroTail(bytes, index + 1)
      /\ bytes = candidate.bytes /\ candidate.len = Smaller(index + 1, Width)
      /\ lastLength \in SUBSET Nat
  BY TunnelBytes DEF EngineInv, TypeOK, Tunnel!TunnelTypeOK, TunnelInv
<1>2. UNCHANGED <<range, started, done, panicked, candidate>>
  BY DEF Tunnel!TunnelObserve
<1>3. f.observed \in Nat BY DEF Tunnel!Feedback
<1>4. ASSUME index' = index \/ (index' = index + 1 /\ index + 1 < Width),
             bytes' = bytes
      PROVE  /\ bytes' \in Raw /\ index' \in 0 .. Width
             /\ ZeroTail(bytes', index' + 1)
             /\ index' <= candidate.len
             /\ \A j \in Positions : j <= index' => bytes'[j] = candidate.bytes[j]
  <2>1. index' \in 0 .. Width /\ index' <= candidate.len
    BY <1>1, <1>4, WidthAssumption DEF Smaller
  <2>2. ZeroTail(bytes', index' + 1)
    BY <1>1, <1>4, PositionType DEF ZeroTail
  <2> QED BY <1>1, <1>4, <2>1, <2>2
<1>5. ASSUME NEW i \in Nat, i <= index - 1, Tunnel!BackOutTo(i)
      PROVE  /\ bytes' \in Raw /\ index' \in 0 .. Width
             /\ lastLength' = {}
             /\ ZeroTail(bytes', index' + 1)
             /\ index' <= candidate.len
             /\ \A j \in Positions : j <= index' => bytes'[j] = candidate.bytes[j]
  <2>1. index' = i /\ bytes' = ZeroFrom(bytes, i + 1) /\ lastLength' = {}
    BY <1>5, TunnelBytes DEF Tunnel!BackOutTo
  <2>2. i + 1 \in Nat OBVIOUS
  <2>3. /\ bytes' \in Raw /\ ZeroTail(bytes', i + 1)
        /\ \A j \in Positions : j < i + 1 => bytes'[j] = bytes[j]
    BY <1>1, <2>1, <2>2, ZeroType
  <2>4. index' \in 0 .. Width /\ index' <= candidate.len
    BY <1>1, <1>5, <2>1, WidthAssumption DEF Smaller
  <2>5. \A j \in Positions : j <= index' => bytes'[j] = candidate.bytes[j]
    BY <1>1, <2>1, <2>3, PositionType
  <2> QED BY <2>1, <2>3, <2>4, <2>5
<1>6. CASE Tunnel!DescendStructure
  <2>1. /\ index + 1 < Width /\ index' = index + 1 /\ lastLength' = {}
        /\ bytes' = bytes
    BY <1>6 DEF Tunnel!DescendStructure, Tunnel!Structural
  <2> QED BY <1>2, <1>4, <2>1
<1>7. CASE Tunnel!BackOutInvalid(f)
  <2> DEFINE i == Tunnel!Smaller(Tunnel!FaultIndex(f), index - 1)
  <2>1. index > 0 /\ Tunnel!BackOutTo(i) BY <1>7 DEF Tunnel!BackOutInvalid
  <2>2. Tunnel!FaultIndex(f) \in Nat BY <1>3 DEF Tunnel!FaultIndex
  <2>3. i \in Nat /\ i <= index - 1
    BY <1>1, <2>1, <2>2, WidthAssumption DEF Tunnel!Smaller
  <2> HIDE DEF i
  <2>4. lastLength' = {} BY <1>5, <2>1, <2>3
  <2> QED BY <1>2, <1>5, <2>1, <2>3, <2>4
<1>8. CASE Tunnel!BackOutOperand(f)
  <2>1. index > 1 /\ Tunnel!BackOutTo(index - 1)
    BY <1>8 DEF Tunnel!BackOutOperand
  <2>2. index - 1 \in Nat /\ index - 1 <= index - 1
    BY <1>1, <2>1, WidthAssumption
  <2>3. lastLength' = {} BY <1>5, <2>1, <2>2
  <2> QED BY <1>2, <1>5, <2>1, <2>2, <2>3
<1>9. CASE Tunnel!Settle(f)
  <2>1. /\ index' = index \/ (index' = index + 1 /\ index + 1 < Width)
        /\ lastLength' = {f.observed} /\ bytes' = bytes
    BY <1>9 DEF Tunnel!Settle, Tunnel!Deepens
  <2> QED BY <1>2, <1>3, <1>4, <2>1
<1> QED BY <1>6, <1>7, <1>8, <1>9 DEF Tunnel!TunnelObserve

(* What is executed has no prefix too many: the next candidate may have one  *)
(* more, wherever the search goes from there.                                *)
LEMMA Executes ==
  ASSUME EngineInv, NEW f \in Tunnel!Feedback, ExecuteWith(f)
  PROVE  EngineInv'
<1>1. /\ pc = "try" /\ pc' = "next" /\ ~Forbidden(candidate.bytes)
      /\ UNCHANGED <<mode, policy, depth, queue>>
  BY DEF ExecuteWith
<1>2. CASE mode # "tunnel"
  <2>1. UNCHANGED <<given, cursor, candidate>>
    BY <1>1, <1>2 DEF ExecuteWith, given, cursor
  <2> QED BY <1>1, <2>1, Unmoved
<1>3. CASE mode = "tunnel"
  <2>1. Tunnel!TunnelObserve(f) BY <1>3 DEF ExecuteWith
  <2>2. /\ bytes' \in Raw /\ index' \in 0 .. Width
        /\ lastLength' \in SUBSET Nat /\ \A m, n \in lastLength' : m = n
        /\ ZeroTail(bytes', index' + 1)
        /\ index' <= candidate.len
        /\ \A j \in Positions : j <= index' => bytes'[j] = candidate.bytes[j]
        /\ UNCHANGED <<range, started, done, panicked, candidate>>
    BY <1>1, <1>3, <2>1, TunnelLooks
  <2>3. TypeOK /\ CursorInv /\ TunnelInv /\ InRange /\ PrefixInv
    BY DEF EngineInv
  <2>4. Offered /\ started BY <1>1, <1>3, <2>3 DEF CursorInv, Systematic
  <2>5. TypeOK'
    BY <1>1, <2>2, <2>3, BruteBytes, TunnelBytes
       DEF TypeOK, Brute!BruteTypeOK, Tunnel!TunnelTypeOK
  <2>6. CursorInv'
    BY <1>1, <1>3, <2>2, <2>3, <2>4 DEF CursorInv, Systematic, Offered, Asking
  <2>7. BruteInv' BY <1>1, <1>3 DEF BruteInv
  <2>8. TunnelInv'
    BY <1>1, <1>3, <2>2, <2>3, <2>4 DEF TunnelInv, Offered
  <2>9. InRange' BY <1>1, <2>2, <2>3 DEF InRange, Offered, Systematic
  <2>10. PrefixInv'
    <3> SUFFICES ASSUME policy.maxPrefix # Unlimited
                 PROVE  /\ OpcodeStart(candidate.bytes) <= policy.maxPrefix
                        /\ OpcodeStart(candidate.bytes) \in Nat
                        /\ policy.maxPrefix \in Nat
      BY <1>1, <2>2 DEF PrefixInv
    <3>1. policy.maxPrefix \in Nat BY <2>3 DEF TypeOK
    <3>2. candidate.bytes \in Raw
      BY <2>3, <2>4, TunnelBytes
         DEF TypeOK, Tunnel!TunnelTypeOK, Offered, Instruction
    <3>3. OpcodeStart(candidate.bytes) \in Nat BY <3>2, PrefixRun
    <3>4. ~(OpcodeStart(candidate.bytes) > policy.maxPrefix)
      BY <1>1 DEF Forbidden, PrefixViolation, OpcodeStart
    <3> QED BY <3>1, <3>3, <3>4
  <2> QED BY <2>5, <2>6, <2>7, <2>8, <2>9, <2>10 DEF EngineInv
<1> QED BY <1>2, <1>3

-----------------------------------------------------------------------------
(* new_with_strategy                                                         *)
LEMMA DepthType ==
  ASSUME NEW c \in ConfigType
  PROVE  /\ Brute!BruteDepth(c.wanted, c.range) \in 1 .. Width
         /\ c.range.start.len <= Brute!BruteDepth(c.wanted, c.range)
         /\ c.range.start \in Instruction /\ c.range.end \in Instruction
         /\ c.range \in [start : Instruction, end : Instruction]
         /\ c.range.start.bytes \in Raw /\ c.range.start.len \in 0 .. Width
         /\ ZeroTail(c.range.start.bytes, c.range.start.len)
<1>1. /\ c.wanted \in Nat
      /\ c.range \in [start : Specified, end : Instruction]
  BY DEF ConfigType
<1>2. /\ c.range.start \in Specified /\ c.range.end \in Instruction
      /\ c.range = [start |-> c.range.start, end |-> c.range.end]
  BY <1>1
<1>3. /\ c.range.start \in Instruction /\ c.range.start.bytes \in Raw
      /\ c.range.start.len \in 0 .. Width
      /\ ZeroTail(c.range.start.bytes, c.range.start.len)
  BY <1>2 DEF Specified, Instruction
<1>4. c.range \in [start : Instruction, end : Instruction]
  BY <1>2, <1>3
<1>5. /\ Brute!BruteDepth(c.wanted, c.range) \in 1 .. Width
      /\ c.range.start.len <= Brute!BruteDepth(c.wanted, c.range)
  BY <1>1, <1>3, WidthAssumption
     DEF Brute!BruteDepth, Brute!Larger, Brute!Smaller
<1> QED BY <1>2, <1>3, <1>4, <1>5

LEMMA StartTails ==
  ASSUME NEW c \in ConfigType
  PROVE  /\ ZeroTail(c.range.start.bytes, c.range.start.len + 1)
         /\ ZeroTail(c.range.start.bytes, Brute!BruteDepth(c.wanted, c.range))
<1>1. /\ ZeroTail(c.range.start.bytes, c.range.start.len)
      /\ c.range.start.len \in Nat
      /\ Brute!BruteDepth(c.wanted, c.range) \in Nat
      /\ c.range.start.len <= Brute!BruteDepth(c.wanted, c.range)
  BY DepthType
<1> QED BY <1>1, PositionType DEF ZeroTail

LEMMA Starts ==
  ASSUME NEW c \in ConfigType, StartOn(c)
  PROVE  EngineInv
<1>1. /\ mode = c.mode /\ mode \in Modes
      /\ policy \in [maxPrefix : Nat \cup {Unlimited}, duplicates : BOOLEAN]
      /\ queue \in Seq(Instruction) /\ pc = "next"
  BY DEF StartOn, ConfigType
<1>2. /\ range = c.range /\ bytes = c.range.start.bytes
      /\ depth = Brute!BruteDepth(c.wanted, c.range)
      /\ index = c.range.start.len /\ lastLength = {}
      /\ started = FALSE /\ done = FALSE /\ panicked = FALSE
      /\ candidate = NoCandidate
  BY DEF StartOn, Brute!BruteInit, Tunnel!TunnelInit
<1>3. TypeOK
  BY <1>1, <1>2, DepthType, BruteBytes, TunnelBytes
     DEF TypeOK, Brute!BruteTypeOK, Tunnel!TunnelTypeOK
<1>4. range.start \in Specified BY <1>2 DEF ConfigType
<1> QED BY <1>1, <1>2, <1>3, <1>4, DepthType, StartTails
        DEF EngineInv, CursorInv, BruteInv, TunnelInv, InRange, PrefixInv,
            Offered, Asking

LEMMA Restarts ==
  ASSUME NEW c \in ConfigType, Restart(c)
  PROVE  EngineInv'
<1>1. /\ mode' = c.mode /\ mode' \in Modes
      /\ policy' \in [maxPrefix : Nat \cup {Unlimited}, duplicates : BOOLEAN]
      /\ queue' \in Seq(Instruction) /\ pc' = "next"
  BY DEF Restart, ConfigType
<1>2. /\ range' = c.range /\ bytes' = c.range.start.bytes
      /\ depth' = Brute!BruteDepth(c.wanted, c.range)
      /\ index' = c.range.start.len /\ lastLength' = {}
      /\ started' = FALSE /\ done' = FALSE /\ panicked' = FALSE
      /\ candidate' = NoCandidate
  BY DEF Restart
<1>3. TypeOK'
  BY <1>1, <1>2, DepthType, BruteBytes, TunnelBytes
     DEF TypeOK, Brute!BruteTypeOK, Tunnel!TunnelTypeOK
<1>4. range'.start \in Specified BY <1>2 DEF ConfigType
<1> QED BY <1>1, <1>2, <1>3, <1>4, DepthType, StartTails
        DEF EngineInv, CursorInv, BruteInv, TunnelInv, InRange, PrefixInv,
            Offered, Asking

-----------------------------------------------------------------------------
(* The engine of the corpus is that of Engine, in the build and in the scan. *)
LEMMA EngineSteps ==
  ASSUME IInv, [CorpusNext]_allVars
  PROVE  EngineInv'
<1>1. EngineInv BY DEF IInv
<1>2. ASSUME Skip \/ Fail PROVE EngineInv'
  BY <1>1, <1>2, Unmoved DEF Skip, Fail
<1>3. ASSUME NEW f \in ArmOutcomes \cup {Clean}, ExecuteWith(f) PROVE EngineInv'
  <2>1. Clean \in Tunnel!Feedback BY CorpusAssumption DEF Clean, Tunnel!Feedback
  <2>2. f \in Tunnel!Feedback BY <2>1, CorpusAssumption
  <2> QED BY <1>1, <1>3, <2>2, Executes
<1>4. CASE Search
  <2>1. ASSUME NEW f \in Outcomes, ExecuteWith(f) PROVE EngineInv'
    BY <1>1, <2>1, ConfigAssumption, Executes
  <2> QED BY <1>1, <1>2, <1>4, <2>1, Asks DEF Search, Next, Execute
<1>5. CASE BuildAsk \/ ScanAsk
  BY <1>1, <1>5, Asks DEF BuildAsk, ScanAsk
<1>6. CASE BuildSkip \/ BuildFails \/ ScanSkip \/ ScanFails
  BY <1>2, <1>6 DEF BuildSkip, BuildFails, ScanSkip, ScanFails
<1>7. CASE BuildExecute
  BY <1>3, <1>7 DEF BuildExecute
<1>8. CASE ScanExecute
  BY <1>3, <1>8 DEF ScanExecute
<1>9. CASE Deploy
  <2>1. PICK c \in Scans : Restart(c) BY <1>9 DEF Deploy
  <2>2. c \in ConfigType BY CorpusAssumption DEF Scans
  <2> QED BY <2>1, <2>2, Restarts
<1>10. CASE UNCHANGED allVars
  BY <1>1, <1>10, Unmoved DEF allVars, vars
<1> QED BY <1>4, <1>5, <1>6, <1>7, <1>8, <1>9, <1>10 DEF CorpusNext

(* What is baked and looked up are the first bytes of a candidate.           *)
LEMMA KeyType ==
  ASSUME IInv, pc = "try"
  PROVE  Key(candidate) \in [1 .. KeyLen -> Byte]
<1>1. candidate \in Instruction
  BY BruteBytes
     DEF IInv, EngineInv, TypeOK, Brute!BruteTypeOK, CursorInv, Offered
<1>2. \A i \in 1 .. KeyLen : i - 1 \in Positions
  BY CorpusAssumption, WidthAssumption DEF Positions
<1> QED BY <1>1, <1>2 DEF Key, Instruction, Raw

(* The table has a last entry of an instruction it holds.                    *)
LEMMA LastEntry ==
  ASSUME IInv, NEW k, Entries(k) # {}
  PROVE  /\ (CHOOSE i \in Entries(k) : \A j \in Entries(k) : j <= i) \in Entries(k)
         /\ (CHOOSE i \in Entries(k) : \A j \in Entries(k) : j <= i) \in DOMAIN baked
         /\ baked[CHOOSE i \in Entries(k) : \A j \in Entries(k) : j <= i]
              \in [1 .. KeyLen -> Byte]
<1>1. baked \in Seq([1 .. KeyLen -> Byte]) BY DEF IInv, CorpusTypeOK
<1> DEFINE S == {Len(baked) - i : i \in Entries(k)}
<1>2. Entries(k) \subseteq 1 .. Len(baked) /\ Len(baked) \in Nat
  BY <1>1 DEF Entries
<1>3. S \in SUBSET Nat /\ S # {} BY <1>2
<1>4. PICK n \in S : \A m \in S : n <= m BY <1>3, LeastNatural
<1>5. PICK i \in Entries(k) : n = Len(baked) - i BY <1>4
<1>6. \A j \in Entries(k) : j <= i
  <2> SUFFICES ASSUME NEW j \in Entries(k) PROVE j <= i
    OBVIOUS
  <2>1. n <= Len(baked) - j BY <1>4
  <2>2. i \in Nat /\ j \in Nat BY <1>2, <1>5
  <2> QED BY <1>2, <1>5, <2>1, <2>2
<1> DEFINE last == CHOOSE x \in Entries(k) : \A j \in Entries(k) : j <= x
<1>7. last \in Entries(k) BY <1>5, <1>6
<1> HIDE DEF last
<1>8. /\ last \in Entries(k) /\ last \in DOMAIN baked
      /\ baked[last] \in [1 .. KeyLen -> Byte]
  BY <1>1, <1>7 DEF Entries
<1> QED BY <1>8 DEF last

(* The processor repeats what it made of an instruction.                     *)
LEMMA ProcessorType ==
  ASSUME IInv, NEW k, NEW f, RunsAs(k, f)
  PROVE  \A x \in DOMAIN processor' : processor'[x] \in ArmOutcomes
<1>1. \A x \in DOMAIN processor : processor[x] \in ArmOutcomes
  BY DEF IInv, CorpusTypeOK
<1>2. CASE mode # "tunnel" BY <1>1, <1>2 DEF RunsAs
<1>3. CASE mode = "tunnel"
  <2>1. f \in ArmOutcomes BY <1>1, <1>3 DEF RunsAs
  <2>2. processor' = [x \in DOMAIN processor \cup {k} |->
                        IF x = k THEN f ELSE processor[x]]
    BY <1>3 DEF RunsAs
  <2> QED BY <1>1, <2>1, <2>2
<1> QED BY <1>2, <1>3

LEMMA DrawnType ==
  ASSUME IInv, Ask, Drawn
  PROVE  draws' \in Seq(Raw) /\ drawn' \in 0 .. Len(draws')
<1>1. draws \in Seq(Raw) /\ drawn \in 0 .. Len(draws)
  BY DEF IInv, CorpusTypeOK
<1>2. CASE mode # "random" BY <1>1, <1>2 DEF Drawn, generator
<1>3. CASE mode = "random"
  <2>1. NextRandom
    BY <1>3 DEF Ask, NextBrute, NextTunnel, NextDriven
  <2>2. PICK b \in Raw : candidate' = NewInstruction(b, Larger(range.start.len, 1))
    BY <2>1 DEF NextRandom
  <2>3. candidate'.bytes \in Raw BY <2>2 DEF NewInstruction
  <2>4. CASE drawn < Len(draws)
    BY <1>1, <1>3, <2>4 DEF Drawn
  <2>5. CASE ~(drawn < Len(draws))
    <3>1. draws' = Append(draws, candidate'.bytes) /\ drawn' = drawn + 1
      BY <1>3, <2>5 DEF Drawn
    <3>2. draws' \in Seq(Raw) /\ Len(draws') = Len(draws) + 1
      BY <1>1, <2>3, <3>1
    <3> QED BY <1>1, <2>5, <3>1, <3>2
  <2> QED BY <2>4, <2>5
<1> QED BY <1>2, <1>3

LEMMA CorpusSteps ==
  ASSUME IInv, [CorpusNext]_allVars
  PROVE  CorpusTypeOK'
<1>1. /\ phase \in {"search", "build", "scan"}
      /\ host \in BuildConfigs \cup {NoConfig}
      /\ baked \in Seq([1 .. KeyLen -> Byte]) /\ Len(baked) <= MaxCount
      /\ replayed \in Seq([1 .. KeyLen -> Byte])
      /\ \A x \in DOMAIN processor : processor[x] \in ArmOutcomes
      /\ draws \in Seq(Raw) /\ drawn \in 0 .. Len(draws)
  BY DEF IInv, CorpusTypeOK
<1>2. TypeOK' BY EngineSteps DEF EngineInv
<1>3. CASE \/ Search \/ BuildSkip \/ BuildFails \/ ScanSkip \/ ScanFails
           \/ UNCHANGED allVars
  BY <1>1, <1>2, <1>3
     DEF Search, BuildSkip, BuildFails, ScanSkip, ScanFails, allVars, corpus,
         generator, CorpusTypeOK
<1>4. CASE BuildAsk \/ ScanAsk
  <2>1. /\ UNCHANGED <<phase, host, baked, replayed, processor>> /\ Ask /\ Drawn
    BY <1>4 DEF BuildAsk, ScanAsk, corpus
  <2>2. draws' \in Seq(Raw) /\ drawn' \in 0 .. Len(draws')
    BY <2>1, DrawnType
  <2> QED BY <1>1, <1>2, <2>1, <2>2 DEF CorpusTypeOK
<1>5. CASE BuildExecute
  <2>1. /\ UNCHANGED <<phase, host, replayed, draws, drawn>>
        /\ pc = "try" /\ Len(baked) < MaxCount
        /\ baked' = Append(baked, Key(candidate))
    BY <1>5 DEF BuildExecute, Wanted, generator
  <2>2. \A x \in DOMAIN processor' : processor'[x] \in ArmOutcomes
    BY <1>1, <1>5, ProcessorType DEF BuildExecute, Answers
  <2>3. baked' \in Seq([1 .. KeyLen -> Byte]) /\ Len(baked') = Len(baked) + 1
    BY <1>1, <2>1, KeyType
  <2>4. Len(baked') <= MaxCount BY <1>1, <2>1, <2>3, CorpusAssumption
  <2> QED BY <1>1, <1>2, <2>1, <2>2, <2>3, <2>4 DEF CorpusTypeOK
<1>6. CASE ScanExecute
  <2> DEFINE i == CHOOSE i \in Entries(Key(candidate)) :
                    \A j \in Entries(Key(candidate)) : j <= i
  <2>1. /\ UNCHANGED <<phase, host, baked, draws, drawn>>
        /\ Entries(Key(candidate)) # {}
        /\ replayed' = Append(replayed, baked[i])
        /\ \E f : RunsAs(baked[i], f)
    BY <1>6 DEF ScanExecute, corpus, generator
  <2>2. baked[i] \in [1 .. KeyLen -> Byte] BY <2>1, LastEntry
  <2> HIDE DEF i
  <2>3. \A x \in DOMAIN processor' : processor'[x] \in ArmOutcomes
    BY <2>1, ProcessorType
  <2>4. replayed' \in Seq([1 .. KeyLen -> Byte]) BY <1>1, <2>1, <2>2
  <2> QED BY <1>1, <1>2, <2>1, <2>3, <2>4 DEF CorpusTypeOK
<1>7. CASE Deploy
  <2>1. /\ UNCHANGED <<host, baked, replayed, processor, draws>>
        /\ phase' = "scan" /\ drawn' = 0
    BY <1>7 DEF Deploy, corpus
  <2>2. drawn' \in 0 .. Len(draws') BY <1>1, <2>1
  <2> QED BY <1>1, <1>2, <2>1, <2>2 DEF CorpusTypeOK
<1> QED BY <1>3, <1>4, <1>5, <1>6, <1>7 DEF CorpusNext

LEMMA CorpusStarts == CorpusInit => IInv
<1> SUFFICES ASSUME CorpusInit PROVE IInv
  OBVIOUS
<1>1. EngineInv
  <2>1. ASSUME NEW c \in Configs, StartOn(c) PROVE EngineInv
    BY <2>1, ConfigAssumption, Starts
  <2>2. ASSUME host \in BuildConfigs, StartOn(host) PROVE EngineInv
    BY <2>2, CorpusAssumption, Starts
  <2> QED BY <2>1, <2>2 DEF CorpusInit, Init
<1>2. /\ phase \in {"search", "build", "scan"}
      /\ host \in BuildConfigs \cup {NoConfig}
      /\ baked = <<>> /\ replayed = <<>> /\ processor = <<>>
      /\ draws = <<>> /\ drawn = 0
  BY DEF CorpusInit
<1>3. baked \in Seq([1 .. KeyLen -> Byte]) /\ Len(baked) <= MaxCount
  BY <1>2, CorpusAssumption
<1>4. replayed \in Seq([1 .. KeyLen -> Byte]) BY <1>2
<1>5. \A k \in DOMAIN processor : processor[k] \in ArmOutcomes BY <1>2
<1>6. draws \in Seq(Raw) /\ drawn \in 0 .. Len(draws) BY <1>2
<1> QED BY <1>1, <1>2, <1>3, <1>4, <1>5, <1>6 DEF IInv, EngineInv, CorpusTypeOK

-----------------------------------------------------------------------------
(* The inductive invariant holds in every search, build and scan.            *)
THEOREM Invariance == CorpusSpec => []IInv
<1>1. IInv /\ [CorpusNext]_allVars => IInv'
  BY EngineSteps, CorpusSteps DEF IInv
<1> QED BY CorpusStarts, <1>1, PTL DEF CorpusSpec

(* The engine, the table of the build and what the scan executes keep their  *)
(* types: no candidate, index or table goes past its bounds.                 *)
THEOREM TypeCorrect == CorpusSpec => []CorpusTypeOK
<1>1. IInv => CorpusTypeOK BY DEF IInv
<1> QED BY Invariance, <1>1, PTL

(* No candidate of a brute or tunnel search lies before the start or behind  *)
(* the end of its range, whatever carries, descents and backing out made of  *)
(* the bytes.                                                                *)
THEOREM StaysInRange == CorpusSpec => []InRange
<1>1. IInv => InRange BY DEF IInv, EngineInv
<1> QED BY Invariance, <1>1, PTL

(* A tunnel search offers at most one prefix more than the policy allows:    *)
(* next_event skips such a candidate, and what is skipped is not entered.    *)
THEOREM PrefixesStayBounded == CorpusSpec => []PrefixesBounded
<1>1. IInv => PrefixesBounded
  BY DEF IInv, EngineInv, PrefixInv, PrefixesBounded
<1> QED BY Invariance, <1>1, PTL

(* The carry of a brute search gives the next number of its depth: nothing   *)
(* lies between two candidates, nor between the last one and the end.        *)
THEOREM NoGapIsLeft == CorpusSpec => BruteLeavesNoGap
<1> DEFINE NoGap ==
      mode = "brute" /\ started /\ Offered /\ Ask =>
        /\ Offered' => Above(candidate'.bytes)
        /\ \A b \in {r \in Raw : ZeroTail(r, depth)} :
             Above(b) => \/ ~Precedes(b, range.end.bytes)
                         \/ Offered' /\ ~Precedes(b, candidate'.bytes)
<1>1. IInv => [NoGap]_vars
  <2> SUFFICES ASSUME IInv, mode = "brute", started, Offered, Ask
               PROVE  NoGap
    OBVIOUS
  <2>1. EngineInv /\ pc = "next" /\ Brute!BruteNext
    BY DEF IInv, Ask, NextBrute, NextTunnel, NextRandom, NextDriven
  <2>2. candidate.bytes = bytes BY <2>1 DEF EngineInv, BruteInv
  <2>3. /\ \/ candidate' = NoCandidate
           \/ /\ candidate'.bytes = bytes' /\ Precedes(bytes, bytes')
        /\ \A b \in {r \in Raw : ZeroTail(r, depth)} :
             Precedes(bytes, b) =>
               \/ ~Precedes(b, range.end.bytes)
               \/ candidate' # NoCandidate /\ ~Precedes(b, bytes')
    BY <2>1, BruteGoes
  <2> QED BY <2>2, <2>3 DEF Offered, Above
<1> QED BY Invariance, <1>1, PTL DEF BruteLeavesNoGap

(* A tunnel search goes from each candidate to a sibling of it, or ends.     *)
THEOREM SiblingsAreVisited == CorpusSpec => TunnelVisitsSiblings
<1> DEFINE Visits == mode = "tunnel" /\ Offered /\ Offered' /\ Ask
                       => Sibling(candidate, candidate')
<1>1. IInv => [Visits]_vars
  <2> SUFFICES ASSUME IInv, mode = "tunnel", Offered, Offered', Ask
               PROVE  Sibling(candidate, candidate')
    OBVIOUS
  <2>1. EngineInv /\ pc = "next" /\ Tunnel!TunnelNext
    BY DEF IInv, Ask, NextBrute, NextTunnel, NextRandom, NextDriven
  <2>2. started BY <2>1 DEF EngineInv, CursorInv, Systematic
  <2> QED BY <2>1, <2>2, TunnelGoes DEF Offered
<1> QED BY Invariance, <1>1, PTL DEF TunnelVisitsSiblings

-----------------------------------------------------------------------------
(* The scan and the build                                                    *)

(* A scan is an engine started anew, and goes where the build went.  A place *)
(* of a search is all its next step depends on: what the strategy keeps, the *)
(* candidate, the numbers drawn and the entries of the table that were put   *)
(* there or executed.                                                        *)
Place == [bytes : Raw, index : 0 .. Width, lastLength : SUBSET Nat,
          candidate : Instruction \cup {NoCandidate},
          pc : {"next", "try", "over"}, drawn : Nat, taken : Nat]

Spot(b, i, l, c, p, d, t) ==
  [bytes |-> b, index |-> i, lastLength |-> l, candidate |-> c, pc |-> p,
   drawn |-> d, taken |-> t]

Here(n) == Spot(bytes, index, lastLength, candidate, pc, drawn, n)

First == Spot(host.range.start.bytes, host.range.start.len, {}, NoCandidate,
              "next", 0, 0)

HostDepth == Brute!BruteDepth(host.wanted, host.range)

(* The candidate a systematic search makes of its bytes.                     *)
Current(b, n) == IF Precedes(b, host.range.end.bytes)
                 THEN NewInstruction(b, n) ELSE NoCandidate

(* The byte that grows.                                                      *)
Turn(b, n) == CHOOSE i \in 0 .. n - 1 : CarriesTo(b, n, i)

Turned(b, n) == IF WrapsAround(b, n) THEN ZeroFirst(b, n)
                ELSE Carried(b, n, Turn(b, n))

(* next_candidate, from a place.  A search that has no candidate to go on    *)
(* from begins.                                                              *)
Offers(s, b, i, c) ==
  Spot(b, i, IF i = s.index THEN s.lastLength ELSE {}, c,
       IF c = NoCandidate THEN "over" ELSE "try", s.drawn, s.taken)

AskedRandom(s) ==
  Spot(s.bytes, s.index, s.lastLength,
       NewInstruction(draws[s.drawn + 1], Larger(host.range.start.len, 1)),
       "try", s.drawn + 1, s.taken)

AskedBrute(s) ==
  LET b == IF s.candidate = NoCandidate THEN s.bytes ELSE Turned(s.bytes, HostDepth)
  IN  Offers(s, b, s.index,
             IF s.candidate # NoCandidate /\ WrapsAround(s.bytes, HostDepth)
             THEN NoCandidate ELSE Current(b, HostDepth))

AskedTunnel(s) ==
  LET n == s.index + 1
  IN  IF s.candidate = NoCandidate
      THEN Offers(s, s.bytes, s.index, Current(s.bytes, n))
      ELSE IF WrapsAround(s.bytes, n)
      THEN Offers(s, Turned(s.bytes, n), 0, NoCandidate)
      ELSE Offers(s, Turned(s.bytes, n), Turn(s.bytes, n),
                  Current(Turned(s.bytes, n), Turn(s.bytes, n) + 1))

(* A candidate that is skipped; one that is executed, and, in a tunnel       *)
(* search, observed.                                                         *)
Skipped(s) == Spot(s.bytes, s.index, s.lastLength, s.candidate, "next", s.drawn,
                   s.taken)

Executed(s, b, i, l) == Spot(b, i, l, s.candidate, "next", s.drawn, s.taken + 1)

GoesDeeper(s, f) ==
  /\ ~Tunnel!UnknownInvalid(f) /\ ~Tunnel!KnownMatch(f)
  /\ s.index + 1 < Width /\ s.lastLength # {f.observed}
  /\ s.index + 1 < f.observed

Observed(s, f) ==
  IF Tunnel!Structural(s.bytes, s.index)
  THEN Executed(s, s.bytes, s.index + 1, {})
  ELSE IF Tunnel!UnknownInvalid(f) /\ s.index > 0
  THEN LET i == Smaller(Tunnel!FaultIndex(f), s.index - 1)
       IN  Executed(s, ZeroFrom(s.bytes, i + 1), i, {})
  ELSE IF Tunnel!KnownMatch(f) /\ s.index > 1 /\ s.index + 1 < f.observed
  THEN Executed(s, ZeroFrom(s.bytes, s.index), s.index - 1, {})
  ELSE Executed(s, s.bytes, IF GoesDeeper(s, f) THEN s.index + 1 ELSE s.index,
                {f.observed})

(* next_event, from a place: the one after it.                               *)
Asked(s) == IF host.mode = "random" THEN AskedRandom(s)
            ELSE IF host.mode = "brute" THEN AskedBrute(s) ELSE AskedTunnel(s)

Tried(s) == IF Blacklisted(s.candidate.bytes) THEN Skipped(s)
            ELSE IF host.mode = "tunnel"
            THEN Observed(s, processor[Key(s.candidate)])
            ELSE Executed(s, s.bytes, s.index, s.lastLength)

Then(s) == IF s.pc = "next" THEN Asked(s) ELSE Tried(s)

(* What comes after a place is settled: the number is drawn, the instruction *)
(* is in the table at its turn, and what the processor makes of it is known. *)
Settled(s) ==
  /\ s \in Place
  /\ \/ /\ s.pc = "next"
        /\ host.mode = "random" => s.drawn < Len(draws)
        /\ host.mode = "tunnel" /\ s.candidate # NoCandidate =>
             s.index \in Positions
     \/ /\ s.pc = "try"
        /\ s.candidate # NoCandidate
        /\ ~Blacklisted(s.candidate.bytes) =>
             /\ s.taken < Len(baked) /\ baked[s.taken + 1] = Key(s.candidate)
             /\ host.mode = "tunnel" => Key(s.candidate) \in DOMAIN processor

(* A way from the first place: it leads from each place on it to the next,   *)
(* but for one.                                                              *)
Way(P, last) ==
  /\ First \in P /\ last \in P
  /\ \A s \in P \ {last} : Settled(s) /\ Then(s) \in P

(* The way the build went ends where the table does.                         *)
WayOfBuild(P, last) ==
  /\ Way(P, last)
  /\ last.taken = Len(baked)
  /\ \/ last.pc = "over"
     \/ last.pc = "next" /\ Len(baked) = MaxCount

(* Whose engine it is, and on what range it is set up.                       *)
HostInv ==
  phase # "search" =>
    /\ host \in BuildConfigs
    /\ policy.maxPrefix = Unlimited
    /\ panicked => pc = "panicked"
    /\ \E c \in Scans : /\ mode = c.mode /\ range = c.range
                        /\ depth = Brute!BruteDepth(c.wanted, c.range)
    /\ phase = "build" => /\ range = host.range
                          /\ drawn = Len(draws) /\ replayed = <<>>
    /\ pc = "failed" => Offered /\ ~Blacklisted(candidate.bytes)

(* What a brute build is there to bake is in the table or comes after the    *)
(* candidate it has.                                                         *)
Wanting == {b \in Raw : /\ ZeroTail(b, HostDepth)
                        /\ ~Precedes(b, host.range.start.bytes)
                        /\ Precedes(b, host.range.end.bytes)
                        /\ ~Blacklisted(b)}

Coming(b) == \/ pc = "next" /\ (~Offered \/ Precedes(candidate.bytes, b))
             \/ pc = "try" /\ ~Precedes(b, candidate.bytes)

BakedInv ==
  phase # "search" /\ host.mode = "brute" =>
    \/ phase = "scan" /\ Len(baked) = MaxCount
    \/ \A b \in Wanting : \/ Entries(Key([bytes |-> b])) # {}
                           \/ (phase = "build" /\ Coming(b))

(* The build has gone a way from its first place to where it is.  A scan     *)
(* with its configuration is on that way, or came to its end at max_count    *)
(* and has executed the whole table.                                         *)
Opens(s, t) == /\ Len(s) <= Len(t)
               /\ \A i \in 1 .. Len(s) : s[i] = t[i]

OnWay == /\ Opens(replayed, baked)
         /\ pc \in {"next", "try", "over"}
         /\ \E P, last : WayOfBuild(P, last) /\ Here(Len(replayed)) \in P

WayInv ==
  /\ phase = "build" /\ pc \in {"next", "try", "over"} =>
       \E P : Way(P, Here(Len(baked)))
  /\ phase = "scan" /\ range = host.range =>
       \/ OnWay
       \/ Len(baked) = MaxCount /\ Opens(baked, replayed)
       \/ pc = "failed" /\ Opens(replayed, baked) /\ Entries(Key(candidate)) # {}

ServeInv == IInv /\ HostInv /\ BakedInv /\ WayInv

-----------------------------------------------------------------------------
(* The byte that grows is the one the carry comes to.                        *)
LEMMA TurnIs ==
  ASSUME NEW b \in Raw, NEW n \in 0 .. Width,
         NEW i \in 0 .. n - 1, CarriesTo(b, n, i)
  PROVE  Turn(b, n) = i /\ ~WrapsAround(b, n)
<1>1. n \in Nat /\ n <= Width /\ \A j \in 0 .. n - 1 : j \in Positions /\ j < n /\ j \in Nat
  BY WidthAssumption DEF Positions
<1>2. ASSUME NEW j \in 0 .. n - 1, CarriesTo(b, n, j) PROVE j = i
  BY <1>1, <1>2 DEF CarriesTo
<1>3. Turn(b, n) = i BY <1>2 DEF Turn
<1>4. ~WrapsAround(b, n) BY <1>1 DEF WrapsAround, CarriesTo
<1> QED BY <1>3, <1>4

(* What a place is made of is the type of a place.                           *)
LEMMA HereType ==
  ASSUME IInv, pc \in {"next", "try", "over"}, NEW n \in Nat
  PROVE  Here(n) \in Place
<1>1. /\ bytes \in Raw /\ index \in 0 .. Width /\ lastLength \in SUBSET Nat
      /\ candidate \in Instruction \cup {NoCandidate} /\ drawn \in Nat
  BY BruteBytes, TunnelBytes
     DEF IInv, CorpusTypeOK, TypeOK, Tunnel!TunnelTypeOK
<1> QED BY <1>1 DEF Here, Spot, Place

(* What the engine of a build or of a scan with its configuration is.        *)
SameSearch == /\ EngineInv
              /\ host \in BuildConfigs
              /\ policy.maxPrefix = Unlimited /\ ~panicked
              /\ mode = host.mode /\ range = host.range
              /\ mode = "brute" => depth = HostDepth
              /\ drawn \in Nat

LEMMA SameType ==
  ASSUME SameSearch
  PROVE  /\ mode \in {"brute", "tunnel", "random"}
         /\ bytes \in Raw /\ index \in 0 .. Width /\ index \in Nat
         /\ lastLength \in SUBSET Nat
         /\ \A b : Forbidden(b) <=> Blacklisted(b)
<1>1. mode \in {"brute", "tunnel", "random"}
  BY CorpusAssumption DEF SameSearch
<1>2. \A b : Forbidden(b) <=> Blacklisted(b)
  BY DEF SameSearch, Forbidden, PrefixViolation
<1>3. /\ bytes \in Raw /\ index \in 0 .. Width /\ lastLength \in SUBSET Nat
      /\ index \in Nat
  BY TunnelBytes, WidthAssumption DEF SameSearch, EngineInv, TypeOK, Tunnel!TunnelTypeOK
<1> QED BY <1>1, <1>2, <1>3

LEMMA HereIs ==
  ASSUME NEW n
  PROVE  /\ Here(n).bytes = bytes /\ Here(n).index = index
         /\ Here(n).lastLength = lastLength /\ Here(n).candidate = candidate
         /\ Here(n).pc = pc /\ Here(n).drawn = drawn /\ Here(n).taken = n
BY DEF Here, Spot

(* A strategy asked from the same place answers the same and goes to the     *)
(* same place.                                                               *)
LEMMA BruteAlike ==
  ASSUME SameSearch, mode = "brute", pc = "next", NextBrute, Ask,
         UNCHANGED <<host, drawn>>, NEW n, NEW s, s = Here(n)
  PROVE  AskedBrute(s)' = Here(n)'
<1>1. /\ ~done /\ started \in BOOLEAN /\ depth \in 0 .. Width
      /\ started <=> candidate # NoCandidate
      /\ range = host.range /\ depth = HostDepth /\ HostDepth' = HostDepth
      /\ bytes \in Raw
  BY SameType DEF SameSearch, EngineInv, CursorInv, Systematic, Offered, Asking,
     TypeOK, Brute!BruteTypeOK, HostDepth
<1>2. UNCHANGED <<range, depth, index, lastLength, panicked>> /\ ~panicked
  BY DEF NextBrute, Brute!BruteNext, Brute!BruteFirst, Brute!BruteIncrement,
     Brute!BruteWrap, Brute!BruteOver, Brute!fixed, SameSearch
<1>3. pc' = IF candidate' = NoCandidate THEN "over" ELSE "try"
  BY <1>2 DEF Ask
<1>4. host.range.end.bytes = range.end.bytes /\ host' = host BY <1>1
<1>5. /\ bytes' = IF candidate = NoCandidate THEN bytes ELSE Turned(bytes, depth)
      /\ candidate' = IF candidate # NoCandidate /\ WrapsAround(bytes, depth)
                      THEN NoCandidate
                      ELSE IF Precedes(bytes', range.end.bytes)
                      THEN NewInstruction(bytes', depth) ELSE NoCandidate
  <2>1. CASE Brute!BruteFirst
    <3>1. /\ bytes' = bytes /\ ~started
          /\ candidate' = IF Precedes(bytes, range.end.bytes)
                          THEN NewInstruction(bytes, depth) ELSE NoCandidate
      BY <2>1, BruteBytes DEF Brute!BruteFirst, Brute!BruteCurrent
    <3> QED BY <1>1, <3>1
  <2>2. CASE Brute!BruteIncrement
    <3>1. PICK i \in 0 .. depth - 1 : /\ CarriesTo(bytes, depth, i)
                                      /\ bytes' = Carried(bytes, depth, i)
      BY <2>2, BruteBytes DEF Brute!BruteIncrement
    <3>2. Turn(bytes, depth) = i /\ ~WrapsAround(bytes, depth)
      BY <1>1, <3>1, TurnIs
    <3>3. /\ started
          /\ candidate' = IF Precedes(bytes', range.end.bytes)
                          THEN NewInstruction(bytes', depth) ELSE NoCandidate
      BY <2>2, BruteBytes DEF Brute!BruteIncrement, Brute!BruteCurrent
    <3> QED BY <1>1, <3>1, <3>2, <3>3 DEF Turned
  <2>3. CASE Brute!BruteWrap
    BY <1>1, <2>3, BruteBytes DEF Brute!BruteWrap, Turned
  <2>4. ~Brute!BruteOver BY <1>1 DEF Brute!BruteOver
  <2> QED BY <2>1, <2>2, <2>3, <2>4 DEF NextBrute, Brute!BruteNext
<1>6. /\ s.bytes = bytes /\ s.index = index /\ s.candidate = candidate
      /\ s.lastLength = lastLength /\ s.drawn = drawn /\ s.taken = n
  BY HereIs
<1>7. AskedBrute(s)' = Offers(s, bytes', index, candidate')
  <2>1. CASE candidate = NoCandidate
    BY <1>1, <1>4, <1>5, <1>6, <2>1 DEF AskedBrute, Current
  <2>2. CASE candidate # NoCandidate
    BY <1>1, <1>4, <1>5, <1>6, <2>2 DEF AskedBrute, Current
  <2> QED BY <2>1, <2>2
<1>8. Offers(s, bytes', index, candidate') = Here(n)'
  BY <1>2, <1>3, <1>6 DEF Here, Offers
<1> QED BY <1>7, <1>8

LEMMA TunnelAlike ==
  ASSUME SameSearch, mode = "tunnel", pc = "next", NextTunnel, Ask,
         pc' # "panicked", UNCHANGED <<host, drawn>>, NEW n, NEW s, s = Here(n)
  PROVE  /\ candidate # NoCandidate => index \in Positions
         /\ AskedTunnel(s)' = Here(n)'
<1>1. /\ ~done /\ started \in BOOLEAN
      /\ started <=> candidate # NoCandidate
      /\ range = host.range /\ host' = host
      /\ bytes \in Raw /\ index \in Nat /\ index <= Width
  BY SameType DEF SameSearch, EngineInv, CursorInv, Systematic, Offered, Asking,
     TypeOK, Tunnel!TunnelTypeOK
<1>2. /\ UNCHANGED range /\ ~panicked'
      /\ pc' = IF candidate' = NoCandidate THEN "over" ELSE "try"
  BY DEF Ask, NextTunnel, Tunnel!TunnelNext, Tunnel!TunnelFirst,
     Tunnel!TunnelIncrement, Tunnel!TunnelWrap, Tunnel!TunnelPanic,
     Tunnel!TunnelOver
<1>3. /\ s.bytes = bytes /\ s.index = index /\ s.candidate = candidate
      /\ s.lastLength = lastLength /\ s.drawn = drawn /\ s.taken = n
  BY HereIs
<1>4. Here(n)' = Spot(bytes', index', lastLength', candidate',
                      IF candidate' = NoCandidate THEN "over" ELSE "try",
                      drawn, n)
  BY <1>2 DEF Here
<1>5. CASE Tunnel!TunnelFirst
  <2>1. /\ UNCHANGED <<bytes, index, lastLength>> /\ candidate = NoCandidate
        /\ candidate' = IF Precedes(bytes, range.end.bytes)
                        THEN NewInstruction(bytes, index + 1) ELSE NoCandidate
    BY <1>1, <1>5, TunnelBytes
       DEF Tunnel!TunnelFirst, Tunnel!TunnelCurrent, Tunnel!position
  <2>2. AskedTunnel(s)' = Offers(s, bytes, index, candidate')
    BY <1>1, <1>3, <2>1 DEF AskedTunnel, Current
  <2> QED BY <1>3, <1>4, <2>1, <2>2 DEF Offers
<1>6. CASE Tunnel!TunnelIncrement
  <2>1. /\ started /\ index \in Positions
        /\ index + 1 \in 0 .. Width /\ index = (index + 1) - 1
    BY <1>1, <1>6, WidthAssumption DEF Tunnel!TunnelIncrement, Positions,
       Tunnel!Positions
  <2>2. PICK i \in 0 .. index :
          /\ CarriesTo(bytes, index + 1, i)
          /\ bytes' = Carried(bytes, index + 1, i)
          /\ lastLength' = IF i = index THEN lastLength ELSE {}
          /\ index' = i
    BY <1>6, TunnelBytes DEF Tunnel!TunnelIncrement
  <2>3. candidate' = IF Precedes(bytes', range.end.bytes)
                     THEN NewInstruction(bytes', index' + 1) ELSE NoCandidate
    BY <1>6, TunnelBytes DEF Tunnel!TunnelIncrement, Tunnel!TunnelCurrent
  <2>4. Turn(bytes, index + 1) = i /\ ~WrapsAround(bytes, index + 1)
    BY <1>1, <2>1, <2>2, TurnIs
  <2>5. Turned(bytes, index + 1) = bytes' BY <2>2, <2>4 DEF Turned
  <2>6. AskedTunnel(s)' = Offers(s, bytes', index', candidate')
    BY <1>1, <1>3, <2>1, <2>2, <2>3, <2>4, <2>5 DEF AskedTunnel, Current
  <2> QED BY <1>3, <1>4, <2>1, <2>2, <2>6 DEF Offers
<1>7. CASE Tunnel!TunnelWrap
  <2>1. /\ started /\ index \in Positions
        /\ WrapsAround(bytes, index + 1)
        /\ bytes' = ZeroFirst(bytes, index + 1)
        /\ lastLength' = IF index = 0 THEN lastLength ELSE {}
        /\ index' = 0 /\ candidate' = NoCandidate
    BY <1>7, TunnelBytes DEF Tunnel!TunnelWrap
  <2>2. AskedTunnel(s)' = Offers(s, bytes', 0, NoCandidate)
    BY <1>1, <1>3, <2>1 DEF AskedTunnel, Turned
  <2>3. (IF 0 = index THEN lastLength ELSE {}) = lastLength' BY <2>1
  <2> QED BY <1>3, <1>4, <2>1, <2>2, <2>3 DEF Offers
<1>8. ~Tunnel!TunnelPanic /\ ~Tunnel!TunnelOver
  BY <1>1, <1>2 DEF Tunnel!TunnelPanic, Tunnel!TunnelOver
<1>9. Tunnel!TunnelNext BY DEF NextTunnel
<1> QED
  <2>1. candidate # NoCandidate => index \in Positions
    BY <1>1, <1>8, <1>9, TunnelBytes
       DEF Tunnel!TunnelNext, Tunnel!TunnelFirst, Tunnel!TunnelIncrement,
           Tunnel!TunnelWrap
  <2> QED BY <1>5, <1>6, <1>7, <1>8, <1>9, <2>1 DEF Tunnel!TunnelNext

LEMMA RandomAlike ==
  ASSUME SameSearch, mode = "random", pc = "next", NextRandom, Ask,
         UNCHANGED host, drawn' = drawn + 1,
         candidate'.bytes = draws'[drawn + 1], NEW n, NEW s, s = Here(n)
  PROVE  AskedRandom(s)' = Here(n)'
<1>1. /\ UNCHANGED <<range, bytes, index, lastLength, panicked>> /\ ~panicked
      /\ range = host.range
  BY DEF NextRandom, cursor, SameSearch
<1>2. PICK b \in Raw : candidate' = NewInstruction(b, Larger(range.start.len, 1))
  BY DEF NextRandom
<1>3. candidate' = NewInstruction(draws'[drawn + 1], Larger(host.range.start.len, 1))
  BY <1>1, <1>2 DEF NewInstruction
<1>4. candidate' # NoCandidate
  <2>1. Larger(range.start.len, 1) \in Nat
    BY WidthAssumption, BruteBytes
       DEF SameSearch, EngineInv, TypeOK, Brute!BruteTypeOK, Larger, Instruction
  <2> QED BY <1>2, <2>1, CandidateType
<1>5. pc' = "try" BY <1>1, <1>4 DEF Ask
<1>6. /\ s.bytes = bytes /\ s.index = index /\ s.lastLength = lastLength
      /\ s.drawn = drawn /\ s.taken = n
  BY HereIs
<1> QED BY <1>1, <1>3, <1>5, <1>6 DEF AskedRandom, Here

(* The answer to a question asked from a place is the one it was before.     *)
LEMMA AskAlike ==
  ASSUME IInv, SameSearch, Ask, pc' # "panicked", UNCHANGED host, NEW n \in Nat,
         mode # "random" => UNCHANGED drawn,
         mode = "random" => /\ drawn' = drawn + 1 /\ drawn < Len(draws')
                            /\ candidate'.bytes = draws'[drawn + 1],
         NEW s, s = Here(n)
  PROVE  Settled(s)' /\ Then(s)' = Here(n)'
<1>1. pc = "next" /\ s.pc = "next" /\ s.drawn = drawn
      /\ s.index = index /\ s.candidate = candidate
  BY HereIs DEF Ask
<1>2. s \in Place BY <1>1, HereType
<1>3. mode \in {"brute", "tunnel", "random"} /\ host'.mode = mode
  BY SameType DEF SameSearch
<1>4. CASE mode = "brute"
  <2>1. NextBrute BY <1>4 DEF Ask, NextBrute, NextTunnel, NextRandom, NextDriven
  <2>2. AskedBrute(s)' = Here(n)' BY <1>1, <1>4, <2>1, BruteAlike
  <2>3. Settled(s)' BY <1>1, <1>2, <1>3, <1>4 DEF Settled
  <2> QED BY <1>1, <1>3, <1>4, <2>2, <2>3 DEF Then, Asked
<1>5. CASE mode = "tunnel"
  <2>1. NextTunnel BY <1>5 DEF Ask, NextBrute, NextTunnel, NextRandom, NextDriven
  <2>2. /\ AskedTunnel(s)' = Here(n)'
        /\ candidate # NoCandidate => index \in Positions
    BY <1>1, <1>5, <2>1, TunnelAlike
  <2>3. Settled(s)' BY <1>1, <1>2, <1>3, <1>5, <2>2 DEF Settled
  <2> QED BY <1>1, <1>3, <1>5, <2>2, <2>3 DEF Then, Asked
<1>6. CASE mode = "random"
  <2>1. NextRandom BY <1>6 DEF Ask, NextBrute, NextTunnel, NextRandom, NextDriven
  <2>2. AskedRandom(s)' = Here(n)' BY <1>1, <1>6, <2>1, RandomAlike
  <2>3. Settled(s)' BY <1>1, <1>2, <1>3, <1>6 DEF Settled
  <2> QED BY <1>1, <1>3, <1>6, <2>2, <2>3 DEF Then, Asked
<1> QED BY <1>3, <1>4, <1>5, <1>6

LEMMA SkipAlike ==
  ASSUME IInv, SameSearch, Skip, UNCHANGED <<host, drawn>>, NEW n \in Nat,
         NEW s, s = Here(n)
  PROVE  Settled(s)' /\ Then(s)' = Here(n)'
<1>1. /\ pc = "try" /\ pc' = "next" /\ Blacklisted(candidate.bytes)
      /\ candidate # NoCandidate
      /\ UNCHANGED <<bytes, index, lastLength, candidate>>
  BY SameType DEF Skip, cursor, SameSearch, EngineInv, CursorInv, Offered
<1>2. /\ s.bytes = bytes /\ s.index = index /\ s.candidate = candidate
      /\ s.lastLength = lastLength /\ s.drawn = drawn /\ s.taken = n
      /\ s.pc = "try"
  BY <1>1, HereIs
<1>3. s \in Place BY <1>1, HereType
<1>4. Settled(s)' BY <1>1, <1>2, <1>3 DEF Settled
<1>5. Then(s)' = Skipped(s) BY <1>1, <1>2 DEF Then, Tried
<1>6. Skipped(s) = Here(n)' BY <1>1, <1>2 DEF Skipped, Here
<1> QED BY <1>4, <1>5, <1>6

(* From the same outcome the strategy goes to the same place.                *)
LEMMA LooksAlike ==
  ASSUME SameSearch, mode = "tunnel", pc' = "next", NEW f \in Tunnel!Feedback,
         Tunnel!TunnelObserve(f), UNCHANGED drawn, NEW n, NEW s, s = Here(n)
  PROVE  Observed(s, f) = Here(n + 1)'
<1>1. /\ s.bytes = bytes /\ s.index = index /\ s.candidate = candidate
      /\ s.lastLength = lastLength /\ s.drawn = drawn /\ s.taken = n
  BY HereIs
<1>2. index \in Nat /\ UNCHANGED candidate
  BY SameType DEF Tunnel!TunnelObserve
<1>3. Here(n + 1)' = Executed(s, bytes', index', lastLength')
  BY <1>1, <1>2 DEF Here, Executed
<1>4. Tunnel!FaultIndex(f) \in Nat
  BY DEF Tunnel!FaultIndex, Tunnel!Feedback
<1>5. CASE Tunnel!DescendStructure
  BY <1>1, <1>3, <1>5 DEF Tunnel!DescendStructure, Observed
<1>6. CASE Tunnel!BackOutInvalid(f)
  <2> DEFINE i == Smaller(Tunnel!FaultIndex(f), index - 1)
  <2>1. /\ ~Tunnel!Structural(bytes, index) /\ Tunnel!UnknownInvalid(f)
        /\ index > 0
        /\ index' = i /\ bytes' = ZeroFrom(bytes, i + 1) /\ lastLength' = {}
    BY <1>6, TunnelBytes DEF Tunnel!BackOutInvalid, Tunnel!BackOutTo
  <2> QED BY <1>1, <1>3, <2>1 DEF Observed
<1>7. CASE Tunnel!BackOutOperand(f)
  <2>1. /\ ~Tunnel!Structural(bytes, index)
        /\ ~(Tunnel!UnknownInvalid(f) /\ index > 0)
        /\ Tunnel!KnownMatch(f) /\ index > 1 /\ index + 1 < f.observed
        /\ index' = index - 1 /\ bytes' = ZeroFrom(bytes, (index - 1) + 1)
        /\ lastLength' = {}
    BY <1>7, TunnelBytes DEF Tunnel!BackOutOperand, Tunnel!BackOutTo
  <2>2. (index - 1) + 1 = index BY <1>2
  <2> QED BY <1>1, <1>3, <2>1, <2>2 DEF Observed
<1>8. CASE Tunnel!Settle(f)
  <2>1. Tunnel!Deepens(f) <=> GoesDeeper(s, f)
    BY <1>1 DEF Tunnel!Deepens, GoesDeeper
  <2> QED BY <1>1, <1>3, <1>8, <2>1 DEF Tunnel!Settle, Observed
<1> QED BY <1>5, <1>6, <1>7, <1>8 DEF Tunnel!TunnelObserve

LEMMA ExecuteAlike ==
  ASSUME IInv, SameSearch, NEW f \in Tunnel!Feedback, ExecuteWith(f),
         UNCHANGED <<host, drawn>>, NEW n \in Nat,
         n < Len(baked'), baked'[n + 1] = Key(candidate),
         mode = "tunnel" => /\ Key(candidate) \in DOMAIN processor'
                            /\ processor'[Key(candidate)] = f,
         NEW s, s = Here(n)
  PROVE  Settled(s)' /\ Then(s)' = Here(n + 1)'
<1>1. /\ pc = "try" /\ pc' = "next" /\ ~Blacklisted(candidate.bytes)
      /\ candidate # NoCandidate
  BY SameType DEF ExecuteWith, SameSearch, EngineInv, CursorInv, Offered
<1>2. /\ s.bytes = bytes /\ s.index = index /\ s.candidate = candidate
      /\ s.lastLength = lastLength /\ s.drawn = drawn /\ s.taken = n
      /\ s.pc = "try"
  BY <1>1, HereIs
<1>3. s \in Place BY <1>1, HereType
<1>4. host'.mode = mode BY DEF SameSearch
<1>5. Settled(s)' BY <1>1, <1>2, <1>3, <1>4 DEF Settled
<1>6. CASE mode = "tunnel"
  <2>1. Observed(s, f) = Here(n + 1)' BY <1>1, <1>6, LooksAlike DEF ExecuteWith
  <2>2. Then(s)' = Observed(s, f) BY <1>1, <1>2, <1>4, <1>6 DEF Then, Tried
  <2> QED BY <1>5, <2>1, <2>2
<1>7. CASE mode # "tunnel"
  <2>1. UNCHANGED <<bytes, index, lastLength, candidate>>
    <3>1. mode \in {"brute", "random"} BY <1>7, SameType
    <3> QED BY <1>7 DEF ExecuteWith
  <2>2. Then(s)' = Executed(s, bytes, index, lastLength)
    BY <1>1, <1>2, <1>4, <1>7 DEF Then, Tried
  <2>3. Executed(s, bytes, index, lastLength) = Here(n + 1)'
    BY <1>1, <1>2, <2>1 DEF Executed, Here
  <2> QED BY <1>5, <2>2, <2>3
<1> QED BY <1>6, <1>7

-----------------------------------------------------------------------------
(* What a way is made of is only ever added to.                              *)
Grows ==
  /\ UNCHANGED host
  /\ Opens(draws, draws') /\ Opens(baked, baked')
  /\ \A k \in DOMAIN processor : /\ k \in DOMAIN processor'
                                 /\ processor'[k] = processor[k]

(* What is settled stays so: the table, the draws and the processor grow.    *)
LEMMA SettledStays ==
  ASSUME Grows, draws \in Seq(Raw), baked \in Seq([1 .. KeyLen -> Byte]),
         NEW s, Settled(s)
  PROVE  Settled(s)' /\ Then(s)' = Then(s)
<1>1. /\ s \in Place /\ s.drawn \in Nat /\ s.taken \in Nat /\ host' = host
      /\ s.pc = "next" \/ s.pc = "try"
  BY DEF Settled, Place, Grows
<1>2. ASSUME s.drawn < Len(draws)
      PROVE  s.drawn < Len(draws') /\ draws'[s.drawn + 1] = draws[s.drawn + 1]
  <2>1. /\ Len(draws) \in Nat /\ Len(draws) <= Len(draws')
        /\ \A i \in 1 .. Len(draws) : draws[i] = draws'[i]
    BY DEF Grows, Opens
  <2>2. s.drawn + 1 \in 1 .. Len(draws) BY <1>1, <1>2, <2>1
  <2>3. Len(draws') \in Int \/ s.drawn < Len(draws')
    BY <1>1, <1>2, <2>1
  <2> QED BY <1>1, <1>2, <2>1, <2>2, <2>3
<1>3. ASSUME s.taken < Len(baked)
      PROVE  s.taken < Len(baked') /\ baked'[s.taken + 1] = baked[s.taken + 1]
  <2>1. /\ Len(baked) \in Nat /\ Len(baked) <= Len(baked')
        /\ \A i \in 1 .. Len(baked) : baked[i] = baked'[i]
    BY DEF Grows, Opens
  <2>2. s.taken + 1 \in 1 .. Len(baked) BY <1>1, <1>3, <2>1
  <2> QED BY <1>1, <1>3, <2>1, <2>2
<1>4. \A k \in DOMAIN processor : k \in DOMAIN processor'
                                  /\ processor'[k] = processor[k]
  BY DEF Grows
<1>5. CASE s.pc = "next"
  <2>1. Settled(s)' BY <1>1, <1>2, <1>5 DEF Settled
  <2>2. AskedBrute(s)' = AskedBrute(s)
    BY <1>1 DEF AskedBrute, HostDepth, Current
  <2>3. AskedTunnel(s)' = AskedTunnel(s)
    BY <1>1 DEF AskedTunnel, Current
  <2>4. host.mode = "random" => AskedRandom(s)' = AskedRandom(s)
    <3>1. host.mode = "random" => s.drawn < Len(draws) BY <1>5 DEF Settled
    <3> QED BY <1>1, <1>2, <3>1 DEF AskedRandom
  <2>5. Asked(s)' = Asked(s) BY <1>1, <2>2, <2>3, <2>4 DEF Asked
  <2> QED BY <1>5, <2>1, <2>5 DEF Then
<1>6. CASE s.pc = "try"
  <2>1. ~Blacklisted(s.candidate.bytes) =>
          /\ s.taken < Len(baked) /\ baked[s.taken + 1] = Key(s.candidate)
          /\ host.mode = "tunnel" => Key(s.candidate) \in DOMAIN processor
    BY <1>6 DEF Settled
  <2>2. Settled(s)'
    <3>1. s.candidate # NoCandidate BY <1>6 DEF Settled
    <3> QED BY <1>1, <1>3, <1>4, <1>6, <2>1, <3>1 DEF Settled
  <2>3. Tried(s)' = Tried(s) BY <1>1, <1>4, <2>1 DEF Tried
  <2> QED BY <1>6, <2>2, <2>3 DEF Then
<1> QED BY <1>1, <1>5, <1>6

LEMMA WayStays ==
  ASSUME Grows, draws \in Seq(Raw), baked \in Seq([1 .. KeyLen -> Byte]),
         NEW P, NEW last, Way(P, last)
  PROVE  Way(P, last)'
<1>1. First' = First BY DEF First, Grows
<1> QED BY <1>1, SettledStays DEF Way

LEMMA WayGoesOn ==
  ASSUME Grows, draws \in Seq(Raw), baked \in Seq([1 .. KeyLen -> Byte]),
         NEW P, NEW last, Way(P, last), Settled(last)',
         NEW t, Then(last)' = t
  PROVE  Way(P \cup {t}, t)'
<1>1. /\ First' \in P /\ last \in P
      /\ \A s \in P \ {last} : Settled(s)' /\ Then(s)' \in P
  BY WayStays DEF Way
<1> QED BY <1>1 DEF Way

-----------------------------------------------------------------------------
(* The engine keeps its configuration.                                       *)
LEMMA AskKeeps ==
  ASSUME Ask
  PROVE  /\ UNCHANGED <<mode, policy, range, depth>>
         /\ pc = "next" /\ pc' \in {"panicked", "over", "try"}
         /\ panicked' => pc' = "panicked"
<1>1. UNCHANGED <<range, depth>>
  <2>1. CASE NextBrute
    BY <2>1 DEF NextBrute, Brute!BruteNext, Brute!BruteFirst,
       Brute!BruteIncrement, Brute!BruteWrap, Brute!BruteOver, Brute!fixed
  <2>2. CASE NextTunnel
    BY <2>2 DEF NextTunnel, Tunnel!TunnelNext, Tunnel!TunnelFirst,
       Tunnel!TunnelIncrement, Tunnel!TunnelWrap, Tunnel!TunnelPanic,
       Tunnel!TunnelOver
  <2>3. CASE NextRandom BY <2>3 DEF NextRandom
  <2>4. CASE NextDriven BY <2>4 DEF NextDriven
  <2> QED BY <2>1, <2>2, <2>3, <2>4 DEF Ask
<1>2. UNCHANGED <<mode, policy>> BY DEF Ask
<1>3. pc = "next" /\ pc' \in {"panicked", "over", "try"} BY DEF Ask
<1>4. panicked' => pc' = "panicked" BY DEF Ask
<1> QED BY <1>1, <1>2, <1>3, <1>4

LEMMA ExecuteKeeps ==
  ASSUME NEW f, ExecuteWith(f)
  PROVE  /\ UNCHANGED <<mode, policy, range, depth, panicked, candidate>>
         /\ pc = "try" /\ pc' = "next"
         /\ ~Forbidden(candidate.bytes)
BY DEF ExecuteWith, Tunnel!TunnelObserve

LEMMA HostStarts == CorpusInit => HostInv
<1> SUFFICES ASSUME CorpusInit, phase # "search" PROVE HostInv
  BY DEF HostInv
<1>1. /\ host \in BuildConfigs /\ StartOn(host) /\ phase = "build"
      /\ draws = <<>> /\ drawn = 0 /\ replayed = <<>>
  BY DEF CorpusInit
<1>2. host \in Scans /\ host.maxPrefix = Unlimited
  BY <1>1, CorpusAssumption DEF Scans
<1>3. /\ mode = host.mode /\ range = host.range
      /\ depth = Brute!BruteDepth(host.wanted, host.range)
      /\ policy.maxPrefix = Unlimited /\ panicked = FALSE /\ pc = "next"
  BY <1>1, <1>2 DEF StartOn, Brute!BruteInit, Tunnel!TunnelInit
<1> QED BY <1>1, <1>2, <1>3 DEF HostInv

(* The engine is the one that was set up, until Deploy or a restart.         *)
LEMMA HostSteps ==
  ASSUME IInv, HostInv, [CorpusNext]_allVars
  PROVE  HostInv'
<1>1. CASE phase = "search"
  <2>1. Search \/ UNCHANGED allVars
    BY <1>1 DEF CorpusNext, BuildAsk, BuildSkip, BuildExecute, BuildFails,
       Deploy, ScanAsk, ScanSkip, ScanExecute, ScanFails, Wanted
  <2>2. phase' = "search" BY <1>1, <2>1 DEF Search, allVars
  <2> QED BY <2>2 DEF HostInv
<1>2. CASE phase # "search"
  <2>1. /\ host \in BuildConfigs /\ policy.maxPrefix = Unlimited
        /\ panicked => pc = "panicked"
        /\ \E c \in Scans : /\ mode = c.mode /\ range = c.range
                            /\ depth = Brute!BruteDepth(c.wanted, c.range)
        /\ phase = "build" => /\ range = host.range
                              /\ drawn = Len(draws) /\ replayed = <<>>
        /\ pc = "failed" => Offered /\ ~Blacklisted(candidate.bytes)
    BY <1>2 DEF HostInv
  <2>2. ASSUME UNCHANGED <<host, mode, policy, range, depth>>,
               panicked' => pc' = "panicked",
               phase' = "build" => /\ phase = "build" /\ UNCHANGED replayed
                                   /\ drawn' = Len(draws'),
               pc' = "failed" => Offered' /\ ~Blacklisted(candidate'.bytes)
        PROVE  HostInv'
    <3>1. Scans' = Scans BY <2>2 DEF Scans
    <3> QED BY <2>1, <2>2, <3>1 DEF HostInv
  <2>3. CASE BuildAsk \/ ScanAsk
    <3>1. /\ Ask /\ Drawn /\ UNCHANGED <<phase, host, replayed>>
      BY <2>3 DEF BuildAsk, ScanAsk, corpus
    <3>2. ASSUME phase' = "build" PROVE drawn' = Len(draws')
      <4>1. drawn = Len(draws) /\ draws \in Seq(Raw)
        BY <2>1, <3>1, <3>2 DEF IInv, CorpusTypeOK
      <4>2. CASE mode # "random" BY <4>1, <4>2, <3>1 DEF Drawn, generator
      <4>3. CASE mode = "random"
        <5>1. draws' = Append(draws, candidate'.bytes) /\ drawn' = drawn + 1
          BY <3>1, <4>1, <4>3 DEF Drawn
        <5> QED BY <4>1, <5>1
      <4> QED BY <4>2, <4>3
    <3> QED BY <2>2, <3>1, <3>2, AskKeeps
  <2>4. CASE BuildExecute \/ ScanExecute
    <3>1. PICK f : ExecuteWith(f) BY <2>4 DEF BuildExecute, ScanExecute
    <3>2. /\ UNCHANGED <<phase, host, draws, drawn>>
          /\ phase = "build" => UNCHANGED replayed
      BY <2>4 DEF BuildExecute, ScanExecute, corpus, generator, Wanted
    <3> QED BY <2>1, <2>2, <3>1, <3>2, ExecuteKeeps
  <2>5. CASE BuildSkip \/ ScanSkip
    <3>1. /\ Skip /\ UNCHANGED <<phase, host, replayed, draws, drawn>>
      BY <2>5 DEF BuildSkip, ScanSkip, corpus, generator
    <3> QED BY <2>1, <2>2, <3>1 DEF Skip, given, cursor
  <2>6. CASE BuildFails \/ ScanFails
    <3>1. /\ Fail /\ UNCHANGED <<phase, host, replayed, draws, drawn>>
      BY <2>6 DEF BuildFails, ScanFails, corpus, generator
    <3>2. Offered BY <3>1 DEF Fail, IInv, EngineInv, CursorInv
    <3> QED BY <2>1, <2>2, <3>1, <3>2 DEF Fail, given, cursor, Forbidden, Offered
  <2>7. CASE Deploy
    <3>1. PICK c \in Scans : Restart(c) BY <2>7 DEF Deploy
    <3>2. /\ phase' = "scan" /\ host' = host BY <2>7 DEF Deploy, corpus
    <3>3. c.maxPrefix = Unlimited BY CorpusAssumption DEF Scans
    <3>4. Scans' = Scans BY <3>2 DEF Scans
    <3>5. /\ mode' = c.mode /\ range' = c.range
          /\ depth' = Brute!BruteDepth(c.wanted, c.range)
          /\ policy'.maxPrefix = Unlimited /\ panicked' = FALSE
          /\ pc' = "next"
      BY <3>1, <3>3 DEF Restart
    <3> QED BY <2>1, <3>2, <3>4, <3>5 DEF HostInv
  <2>8. CASE UNCHANGED allVars
    BY <2>1, <2>2, <2>8 DEF allVars, vars, given, cursor, corpus, generator, Offered
  <2>9. ~Search BY <1>2 DEF Search
  <2> QED BY <2>3, <2>4, <2>5, <2>6, <2>7, <2>8, <2>9 DEF CorpusNext
<1> QED BY <1>1, <1>2

(* The engine of the build and of the scan that follows search alike.        *)
LEMMA IsSameSearch ==
  ASSUME IInv, HostInv, phase # "search", range = host.range,
         pc \in {"next", "try"}
  PROVE  SameSearch
<1>1. PICK c \in Scans : /\ mode = c.mode /\ range = c.range
                         /\ depth = Brute!BruteDepth(c.wanted, c.range)
  BY DEF HostInv
<1>2. mode = host.mode BY <1>1 DEF Scans
<1>3. depth = HostDepth BY <1>1 DEF Scans, HostDepth
<1>4. drawn \in Nat BY DEF IInv, CorpusTypeOK
<1> QED BY <1>2, <1>3, <1>4 DEF SameSearch, HostInv, IInv

-----------------------------------------------------------------------------
(* The way of the build.                                                     *)
LEMMA WayStarts == CorpusInit => WayInv
<1> SUFFICES ASSUME CorpusInit, phase = "build" PROVE \E P : Way(P, Here(Len(baked)))
  BY DEF WayInv, CorpusInit
<1>1. /\ StartOn(host) /\ baked = <<>> /\ drawn = 0
  BY DEF CorpusInit
<1>2. Here(Len(baked)) = First
  BY <1>1 DEF StartOn, Brute!BruteInit, Tunnel!TunnelInit, Here, First
<1>3. Way({First}, First) BY DEF Way
<1> QED BY <1>2, <1>3

LEMMA OpensMore ==
  ASSUME NEW V, NEW s \in Seq(V), NEW x \in V
  PROVE  /\ Append(s, x) \in Seq(V) /\ Len(Append(s, x)) = Len(s) + 1
         /\ Append(s, x)[Len(s) + 1] = x
         /\ Opens(s, s) /\ Opens(s, Append(s, x))
BY DEF Opens

(* What the processor made of other instructions is not touched.             *)
LEMMA Remembers ==
  ASSUME NEW k, NEW f, RunsAs(k, f)
  PROVE  /\ \A x \in DOMAIN processor : /\ x \in DOMAIN processor'
                                        /\ processor'[x] = processor[x]
         /\ mode = "tunnel" => k \in DOMAIN processor' /\ processor'[k] = f
<1>1. CASE mode # "tunnel" BY <1>1 DEF RunsAs
<1>2. CASE mode = "tunnel"
  <2>1. /\ k \in DOMAIN processor => f = processor[k]
        /\ processor' = [x \in DOMAIN processor \cup {k} |->
                           IF x = k THEN f ELSE processor[x]]
    BY <1>2 DEF RunsAs
  <2> QED BY <2>1
<1> QED BY <1>1, <1>2

LEMMA FeedbackType == \A f \in ArmOutcomes \cup {Clean} : f \in Tunnel!Feedback
<1>1. Clean \in Tunnel!Feedback BY CorpusAssumption DEF Clean, Tunnel!Feedback
<1> QED BY <1>1, CorpusAssumption

(* A step of the build adds a place to its way.                              *)
LEMMA BuildGoesOn ==
  ASSUME IInv, HostInv, WayInv, phase = "build",
         BuildAsk \/ BuildSkip \/ BuildExecute \/ BuildFails
  PROVE  WayInv'
<1>1. phase' = "build" /\ host' = host /\ replayed' = replayed
  BY DEF BuildAsk, BuildSkip, BuildExecute, BuildFails, corpus
<1> SUFFICES ASSUME pc' \in {"next", "try", "over"}
             PROVE  \E P : Way(P, Here(Len(baked)))'
  BY <1>1 DEF WayInv
<1>2. /\ draws \in Seq(Raw) /\ baked \in Seq([1 .. KeyLen -> Byte])
      /\ drawn = Len(draws) /\ drawn \in Nat /\ Len(baked) \in Nat
      /\ range = host.range
      /\ Opens(draws, draws) /\ Opens(baked, baked)
  BY DEF IInv, CorpusTypeOK, HostInv, Opens
<1>3. pc \in {"next", "try"}
  BY DEF BuildAsk, BuildSkip, BuildExecute, BuildFails, Ask, Skip, Fail
<1>4. SameSearch BY <1>2, <1>3, IsSameSearch
<1>5. PICK s : s = Here(Len(baked)) OBVIOUS
<1>6. PICK P : Way(P, s) BY <1>3, <1>5 DEF WayInv
<1>7. ASSUME Grows, NEW n, n = Len(baked'), Settled(s)', Then(s)' = Here(n)'
      PROVE  \E Q : Way(Q, Here(Len(baked)))'
  <2>1. PICK t : t = Here(Len(baked))' OBVIOUS
  <2>2. Then(s)' = t BY <1>7, <2>1 DEF Here
  <2>3. Way(P \cup {t}, t)' BY <1>2, <1>6, <1>7, <2>2, WayGoesOn
  <2>4. Way(P \cup {t}, Here(Len(baked)))' BY <2>1, <2>3 DEF Way
  <2> QED BY <2>4
<1>8. CASE BuildAsk
  <2>1. Ask /\ Drawn /\ UNCHANGED <<host, baked, processor>>
    BY <1>8 DEF BuildAsk, corpus
  <2>2. /\ Opens(draws, draws')
        /\ mode # "random" => UNCHANGED drawn
        /\ mode = "random" => /\ drawn' = drawn + 1 /\ drawn < Len(draws')
                              /\ candidate'.bytes = draws'[drawn + 1]
    <3>1. CASE mode # "random" BY <1>2, <2>1, <3>1 DEF Drawn, generator
    <3>2. CASE mode = "random"
      <4>1. draws' = Append(draws, candidate'.bytes) /\ drawn' = drawn + 1
        BY <1>2, <2>1, <3>2 DEF Drawn
      <4>2. candidate'.bytes \in Raw
        <5>1. PICK b \in Raw : candidate' = NewInstruction(b, Larger(range.start.len, 1))
          BY <2>1, <3>2 DEF Ask, NextBrute, NextTunnel, NextDriven, NextRandom
        <5> QED BY <5>1 DEF NewInstruction
      <4>3. /\ Opens(draws, draws') /\ Len(draws') = Len(draws) + 1
            /\ draws'[Len(draws) + 1] = candidate'.bytes
        BY <1>2, <4>1, <4>2, OpensMore
      <4> QED BY <1>2, <3>2, <4>1, <4>3
    <3> QED BY <3>1, <3>2
  <2>3. Grows BY <1>2, <2>1, <2>2 DEF Grows
  <2>4. PICK n \in Nat : n = Len(baked) BY <1>2
  <2>5. Settled(s)' /\ Then(s)' = Here(n)'
    BY <1>4, <1>5, <2>1, <2>2, <2>4, AskAlike
  <2> QED BY <1>7, <2>1, <2>3, <2>4, <2>5
<1>9. CASE BuildSkip
  <2>1. Skip /\ UNCHANGED <<host, baked, processor, draws, drawn>>
    BY <1>9 DEF BuildSkip, corpus, generator
  <2>2. Grows BY <1>2, <2>1 DEF Grows
  <2>3. PICK n \in Nat : n = Len(baked) BY <1>2
  <2>4. Settled(s)' /\ Then(s)' = Here(n)'
    BY <1>4, <1>5, <2>1, <2>3, SkipAlike
  <2> QED BY <1>7, <2>1, <2>2, <2>3, <2>4
<1>10. CASE BuildExecute
  <2>1. PICK f \in ArmOutcomes \cup {Clean} :
               Answers(Key(candidate), f) /\ ExecuteWith(f)
    BY <1>10 DEF BuildExecute
  <2>2. /\ UNCHANGED <<host, draws, drawn>>
        /\ baked' = Append(baked, Key(candidate)) /\ pc = "try"
    BY <1>10 DEF BuildExecute, generator
  <2>3. /\ \A x \in DOMAIN processor : /\ x \in DOMAIN processor'
                                       /\ processor'[x] = processor[x]
        /\ mode = "tunnel" => /\ Key(candidate) \in DOMAIN processor'
                              /\ processor'[Key(candidate)] = f
    <3>1. CASE mode = "tunnel" BY <2>1, <3>1, Remembers DEF Answers
    <3>2. CASE mode # "tunnel" BY <2>1, <3>2 DEF Answers
    <3> QED BY <3>1, <3>2
  <2>4. Key(candidate) \in [1 .. KeyLen -> Byte] BY <2>2, KeyType
  <2>5. /\ Opens(baked, baked') /\ Len(baked') = Len(baked) + 1
        /\ baked'[Len(baked) + 1] = Key(candidate)
    BY <1>2, <2>2, <2>4, OpensMore
  <2>6. Grows BY <1>2, <2>2, <2>3, <2>5 DEF Grows
  <2>7. PICK n \in Nat : n = Len(baked) BY <1>2
  <2>8. Settled(s)' /\ Then(s)' = Here(n + 1)'
    BY <1>4, <1>5, <2>1, <2>2, <2>3, <2>5, <2>7, FeedbackType, ExecuteAlike
  <2>9. n + 1 = Len(baked') BY <2>5, <2>7
  <2> QED BY <1>7, <2>6, <2>8, <2>9
<1>11. CASE BuildFails BY <1>11 DEF BuildFails, Fail
<1> QED BY <1>8, <1>9, <1>10, <1>11

(* A scan that begins with the configuration of the build begins its way.    *)
LEMMA WayDeploys ==
  ASSUME IInv, HostInv, WayInv, Deploy
  PROVE  WayInv'
<1>1. /\ phase = "build" /\ phase' = "scan" /\ pc \in {"next", "over"}
      /\ pc = "next" => Len(baked) = MaxCount
      /\ UNCHANGED <<host, baked, replayed, processor, draws>> /\ drawn' = 0
  BY DEF Deploy, corpus
<1>2. PICK c \in Scans : Restart(c) BY DEF Deploy
<1>3. /\ draws \in Seq(Raw) /\ baked \in Seq([1 .. KeyLen -> Byte])
      /\ Opens(draws, draws) /\ Opens(baked, baked) /\ replayed = <<>>
  BY <1>1 DEF IInv, CorpusTypeOK, HostInv, Opens
<1>4. Grows BY <1>1, <1>3 DEF Grows
<1> SUFFICES ASSUME range' = host.range PROVE OnWay'
  BY <1>1 DEF WayInv
<1>5. /\ bytes' = host.range.start.bytes /\ index' = host.range.start.len
      /\ lastLength' = {} /\ candidate' = NoCandidate /\ pc' = "next"
  BY <1>2 DEF Restart
<1>6. PICK s : s = Here(Len(baked)) OBVIOUS
<1>7. PICK P : Way(P, s) BY <1>1, <1>6 DEF WayInv
<1>8. Way(P, s)' BY <1>3, <1>4, <1>7, WayStays
<1>9. s.pc = pc /\ s.taken = Len(baked) BY <1>6, HereIs
<1>10. WayOfBuild(P, s)' BY <1>1, <1>8, <1>9 DEF WayOfBuild
<1>11. Here(Len(replayed))' \in P
  <2>1. Len(replayed') = 0 BY <1>1, <1>3
  <2>2. Here(Len(replayed))' = First'
    BY <1>1, <1>5, <2>1 DEF Here, First
  <2> QED BY <1>8, <2>2 DEF Way
<1>12. Opens(replayed, baked)' BY <1>1, <1>3 DEF Opens
<1> QED BY <1>5, <1>10, <1>11, <1>12 DEF OnWay

(* A scan on the way stays there, until it has executed the whole table.     *)
Through == Len(baked) = MaxCount /\ Opens(baked, replayed)

(* A step of the scan stays on the way of the build, or leaves at its end.   *)
LEMMA ScanStays ==
  ASSUME IInv, HostInv, phase = "scan", range = host.range, OnWay,
         ScanAsk \/ ScanSkip \/ ScanExecute \/ ScanFails
  PROVE  \/ OnWay' \/ Through'
         \/ /\ pc' = "failed" /\ Opens(replayed, baked)'
            /\ Entries(Key(candidate))' # {}
<1>1. phase' = "scan" /\ host' = host /\ baked' = baked
  BY DEF ScanAsk, ScanSkip, ScanExecute, ScanFails, corpus
<1>2. /\ draws \in Seq(Raw) /\ baked \in Seq([1 .. KeyLen -> Byte])
      /\ replayed \in Seq([1 .. KeyLen -> Byte])
      /\ drawn \in 0 .. Len(draws) /\ Len(draws) \in Nat
      /\ Len(baked) \in Nat /\ Len(replayed) \in Nat
      /\ Opens(draws, draws) /\ Opens(baked, baked)
      /\ Opens(replayed, baked)
  BY DEF IInv, CorpusTypeOK, Opens, OnWay
<1>3. pc \in {"next", "try"}
  BY DEF ScanAsk, ScanSkip, ScanExecute, ScanFails, Ask, Skip, Fail
<1>4. SameSearch BY <1>3, IsSameSearch
<1>5. PICK n \in Nat : n = Len(replayed) BY <1>2
<1>6. PICK s : s = Here(n) OBVIOUS
<1>7. PICK P, last : WayOfBuild(P, last) /\ s \in P
  BY <1>5, <1>6 DEF OnWay
<1>8. /\ s.pc = pc /\ s.taken = n /\ s.drawn = drawn
      /\ s.index = index /\ s.candidate = candidate
  BY <1>6, HereIs
<1>9. mode = host.mode BY <1>4 DEF SameSearch
<1>10. CASE s = last
  <2>1. /\ pc = "next" /\ n = Len(baked) /\ Len(baked) = MaxCount
    BY <1>3, <1>7, <1>8, <1>10 DEF WayOfBuild
  <2>2. Opens(baked, replayed)
    BY <1>2, <1>5, <2>1 DEF Opens
  <2>3. replayed' = replayed
    BY <2>1 DEF ScanAsk, ScanSkip, ScanExecute, ScanFails, Skip, Fail
  <2> QED BY <1>1, <2>1, <2>2, <2>3 DEF Through, Opens
<1>11. CASE s # last
  <2>1. Settled(s) /\ Then(s) \in P
    BY <1>7, <1>11 DEF WayOfBuild, Way
  <2>2. ASSUME Grows, NEW m, m = Len(replayed'), Then(s)' = Here(m)',
               Opens(replayed, baked)', pc' \in {"next", "try", "over"}
        PROVE  OnWay'
    <3>1. WayOfBuild(P, last)'
      BY <1>1, <1>2, <1>7, <2>2, WayStays DEF WayOfBuild
    <3>2. Then(s)' = Then(s) BY <1>2, <2>1, <2>2, SettledStays
    <3>3. Here(Len(replayed))' \in P BY <2>1, <2>2, <3>2 DEF Here
    <3> QED BY <2>2, <3>1, <3>3 DEF OnWay
  <2>3. CASE ScanAsk
    <3>1. Ask /\ Drawn /\ UNCHANGED <<host, baked, replayed, processor>>
      BY <2>3 DEF ScanAsk, corpus
    <3>2. pc = "next" /\ pc' \in {"panicked", "over", "try"}
      BY <3>1, AskKeeps
    <3>3. /\ mode = "random" => drawn < Len(draws)
          /\ mode = "tunnel" /\ candidate # NoCandidate => index \in Positions
      BY <1>8, <1>9, <2>1, <3>2 DEF Settled
    <3>4. /\ draws' = draws
          /\ mode # "random" => UNCHANGED drawn
          /\ mode = "random" => /\ drawn' = drawn + 1 /\ drawn < Len(draws')
                                /\ candidate'.bytes = draws'[drawn + 1]
      BY <3>1, <3>3 DEF Drawn, generator
    <3>5. pc' # "panicked"
      <4>1. CASE mode = "tunnel"
        <5>1. NextTunnel
          BY <3>1, <4>1 DEF Ask, NextBrute, NextTunnel, NextRandom, NextDriven
        <5>2. /\ started => candidate # NoCandidate
              /\ ~panicked
          BY <1>4, <3>2, <4>1 DEF SameSearch, EngineInv, CursorInv, Systematic,
             Offered
        <5>3. ~Tunnel!TunnelPanic
          <6>1. started => index # Width
            BY <3>3, <4>1, <5>2, WidthAssumption DEF Positions
          <6> QED BY <6>1 DEF Tunnel!TunnelPanic
        <5>4. panicked' = panicked
          BY <5>1, <5>3 DEF NextTunnel, Tunnel!TunnelNext, Tunnel!TunnelFirst,
             Tunnel!TunnelIncrement, Tunnel!TunnelWrap, Tunnel!TunnelOver
        <5> QED BY <3>1, <5>2, <5>4 DEF Ask
      <4>2. CASE mode # "tunnel"
        <5>1. panicked' = panicked /\ ~panicked
          BY <1>4, <3>1, <4>2
             DEF Ask, NextBrute, NextTunnel, NextRandom, NextDriven, cursor,
                 SameSearch
        <5> QED BY <3>1, <5>1 DEF Ask
      <4> QED BY <4>1, <4>2
    <3>6. Then(s)' = Here(n)'
      BY <1>4, <1>6, <3>1, <3>4, <3>5, AskAlike
    <3>7. Grows BY <1>2, <3>1, <3>4 DEF Grows
    <3>8. n = Len(replayed') /\ Opens(replayed, baked)'
      BY <1>2, <1>5, <3>1 DEF Opens
    <3> QED BY <2>2, <3>2, <3>5, <3>6, <3>7, <3>8
  <2>4. CASE ScanSkip
    <3>1. /\ Skip /\ UNCHANGED <<host, baked, replayed, processor, draws, drawn>>
          /\ pc' = "next"
      BY <2>4 DEF ScanSkip, Skip, corpus, generator
    <3>2. Then(s)' = Here(n)' BY <1>4, <1>6, <3>1, SkipAlike
    <3>3. Grows BY <1>2, <3>1 DEF Grows
    <3>4. n = Len(replayed') /\ Opens(replayed, baked)'
      BY <1>2, <1>5, <3>1 DEF Opens
    <3> QED BY <2>2, <3>1, <3>2, <3>3, <3>4
  <2>5. CASE ScanExecute
    <3> DEFINE k == Key(candidate)
               i == CHOOSE i \in Entries(k) : \A j \in Entries(k) : j <= i
    <3>1. /\ UNCHANGED <<host, baked, draws, drawn>> /\ pc = "try"
          /\ Entries(k) # {} /\ replayed' = Append(replayed, baked[i])
      BY <2>5 DEF ScanExecute, corpus, generator
    <3>2. PICK f \in ArmOutcomes \cup {Clean} :
                 RunsAs(baked[i], f) /\ ExecuteWith(f)
      BY <2>5 DEF ScanExecute
    <3>3. baked[i] = k
      <4>1. i \in DOMAIN baked /\ i \in Entries(k)
        BY <3>1, LastEntry
      <4> QED BY <4>1 DEF Entries
    <3> HIDE DEF i
    <3>4. pc' = "next" /\ ~Forbidden(candidate.bytes)
      BY <3>2, ExecuteKeeps
    <3>5. /\ n < Len(baked) /\ baked[n + 1] = k
      <4>1. ~Blacklisted(candidate.bytes) BY <1>4, <3>4, SameType
      <4> QED BY <1>8, <2>1, <3>1, <4>1 DEF Settled
    <3>6. /\ \A x \in DOMAIN processor : /\ x \in DOMAIN processor'
                                         /\ processor'[x] = processor[x]
          /\ mode = "tunnel" => k \in DOMAIN processor' /\ processor'[k] = f
      BY <3>2, <3>3, Remembers
    <3>7. Then(s)' = Here(n + 1)'
      <4>1. n < Len(baked') /\ baked'[n + 1] = Key(candidate)
        BY <1>1, <3>5
      <4> QED BY <1>4, <1>6, <3>1, <3>2, <3>6, <4>1, FeedbackType, ExecuteAlike
    <3>8. Grows BY <1>2, <3>1, <3>6 DEF Grows
    <3>9. k \in [1 .. KeyLen -> Byte] BY <3>1, KeyType
    <3>10. /\ Len(replayed') = n + 1
           /\ \A j \in 1 .. n : replayed'[j] = replayed[j]
           /\ replayed'[n + 1] = k
      BY <1>2, <1>5, <3>1, <3>3, <3>9
    <3> HIDE DEF k
    <3>11. Opens(replayed, baked)'
      BY <1>1, <1>2, <1>5, <3>5, <3>10 DEF Opens
    <3> QED BY <2>2, <3>4, <3>7, <3>8, <3>10, <3>11
  <2>6. CASE ScanFails
    <3>1. /\ UNCHANGED <<baked, replayed, candidate>> /\ pc' = "failed"
          /\ pc = "try" /\ ~Forbidden(candidate.bytes)
      BY <2>6 DEF ScanFails, Fail, corpus
    <3>2. ~Blacklisted(candidate.bytes) BY <1>4, <3>1, SameType
    <3>3. n < Len(baked) /\ baked[n + 1] = Key(candidate)
      BY <1>8, <2>1, <3>1, <3>2 DEF Settled
    <3>4. n + 1 \in Entries(Key(candidate)) BY <1>2, <3>3 DEF Entries
    <3>5. Entries(Key(candidate))' # {}
      BY <3>1, <3>4 DEF Entries, Key
    <3>6. Opens(replayed, baked)' BY <1>2, <3>1 DEF Opens
    <3> QED BY <3>1, <3>5, <3>6
  <2> QED BY <2>3, <2>4, <2>5, <2>6
<1> QED BY <1>10, <1>11

(* The scan and the build stay on one way.                                   *)
LEMMA WaySteps ==
  ASSUME IInv, HostInv, WayInv, [CorpusNext]_allVars
  PROVE  WayInv'
<1>1. CASE phase = "search"
  <2>1. Search \/ UNCHANGED allVars
    BY <1>1 DEF CorpusNext, BuildAsk, BuildSkip, BuildExecute, BuildFails,
       Deploy, ScanAsk, ScanSkip, ScanExecute, ScanFails, Wanted
  <2>2. phase' = "search" BY <1>1, <2>1 DEF Search, allVars
  <2> QED BY <2>2 DEF WayInv
<1>2. CASE BuildAsk \/ BuildSkip \/ BuildExecute \/ BuildFails
  <2>1. phase = "build"
    BY <1>2 DEF BuildAsk, BuildSkip, BuildExecute, BuildFails, Wanted
  <2> QED BY <1>2, <2>1, BuildGoesOn
<1>3. CASE Deploy BY <1>3, WayDeploys
<1>4. CASE ScanAsk \/ ScanSkip \/ ScanExecute \/ ScanFails
  <2>1. /\ phase = "scan" /\ phase' = "scan" /\ UNCHANGED <<host, baked>>
    BY <1>4 DEF ScanAsk, ScanSkip, ScanExecute, ScanFails, corpus
  <2>2. range' = range
    <3>1. CASE ScanAsk BY <3>1, AskKeeps DEF ScanAsk
    <3>2. CASE ScanExecute BY <3>2, ExecuteKeeps DEF ScanExecute
    <3>3. CASE ScanSkip \/ ScanFails
      BY <3>3 DEF ScanSkip, ScanFails, Skip, Fail, given
    <3> QED BY <1>4, <3>1, <3>2, <3>3
  <2> SUFFICES ASSUME range = host.range
               PROVE  \/ OnWay' \/ Through'
                      \/ /\ pc' = "failed" /\ Opens(replayed, baked)'
                         /\ Entries(Key(candidate))' # {}
    BY <2>1, <2>2 DEF WayInv, Through
  <2>3. CASE OnWay BY <1>4, <2>1, <2>3, ScanStays
  <2>4. CASE Through
    <3>1. /\ baked \in Seq([1 .. KeyLen -> Byte]) /\ Len(baked) \in Nat
          /\ replayed \in Seq([1 .. KeyLen -> Byte]) /\ Len(replayed) \in Nat
      BY DEF IInv, CorpusTypeOK
    <3>2. replayed' = replayed \/ \E x \in [1 .. KeyLen -> Byte] : replayed' = Append(replayed, x)
      <4>1. CASE ScanExecute
        <5>1. /\ Entries(Key(candidate)) # {}
              /\ replayed' = Append(replayed,
                   baked[CHOOSE i \in Entries(Key(candidate)) :
                           \A j \in Entries(Key(candidate)) : j <= i])
          BY <4>1 DEF ScanExecute
        <5> QED BY <5>1, LastEntry
      <4>2. CASE ScanAsk \/ ScanSkip \/ ScanFails
        BY <4>2 DEF ScanAsk, ScanSkip, ScanFails
      <4> QED BY <1>4, <4>1, <4>2
    <3>3. Opens(baked, replayed')
      <4>1. CASE replayed' = replayed BY <2>4, <4>1 DEF Through
      <4>2. CASE replayed' # replayed
        <5>1. PICK x \in [1 .. KeyLen -> Byte] : replayed' = Append(replayed, x)
          BY <3>2, <4>2
        <5>2. Opens(replayed, replayed') /\ Len(replayed') \in Nat
          BY <3>1, <5>1, OpensMore
        <5> QED BY <2>4, <3>1, <5>2 DEF Through, Opens
      <4> QED BY <4>1, <4>2
    <3> QED BY <2>1, <2>4, <3>3 DEF Through, Opens
  <2>5. CASE pc = "failed"
    BY <1>4, <2>5
       DEF ScanAsk, ScanSkip, ScanExecute, ScanFails, Ask, Skip, Fail
  <2> QED BY <2>1, <2>3, <2>4, <2>5 DEF WayInv, Through
<1>5. CASE UNCHANGED allVars
  <2>1. UNCHANGED <<phase, host, baked, replayed, processor, draws, drawn, pc,
                    bytes, index, lastLength, candidate, range>>
    BY <1>5 DEF allVars, vars, given, cursor, corpus, generator
  <2>2. /\ draws \in Seq(Raw) /\ baked \in Seq([1 .. KeyLen -> Byte])
        /\ replayed \in Seq([1 .. KeyLen -> Byte])
        /\ Opens(draws, draws) /\ Opens(baked, baked)
    BY DEF IInv, CorpusTypeOK, Opens
  <2>3. Grows BY <2>1, <2>2 DEF Grows
  <2>4. \A P, last : Way(P, last) => Way(P, last)' BY <2>2, <2>3, WayStays
  <2>5. ASSUME phase = "build", pc \in {"next", "try", "over"}
        PROVE  \E P : Way(P, Here(Len(baked)))'
    <3>1. PICK s : s = Here(Len(baked)) OBVIOUS
    <3>2. PICK P : Way(P, s) BY <2>5, <3>1 DEF WayInv
    <3>3. Way(P, s)' BY <2>4, <3>2
    <3>4. s = Here(Len(baked))' BY <2>1, <3>1 DEF Here
    <3>5. Way(P, Here(Len(baked)))' BY <3>3, <3>4 DEF Way
    <3> QED BY <3>5
  <2>6. ASSUME OnWay PROVE OnWay'
    <3>1. PICK P, last : WayOfBuild(P, last) /\ Here(Len(replayed)) \in P
      BY <2>6 DEF OnWay
    <3>2. WayOfBuild(P, last)' BY <2>1, <2>4, <3>1 DEF WayOfBuild
    <3>3. Here(Len(replayed))' \in P BY <2>1, <3>1 DEF Here
    <3> QED BY <2>1, <2>6, <3>2, <3>3 DEF OnWay, Opens
  <2>7. Entries(Key(candidate))' = Entries(Key(candidate))
    BY <2>1 DEF Entries, Key
  <2>8. /\ Opens(replayed, baked)' <=> Opens(replayed, baked)
        /\ Opens(baked, replayed)' <=> Opens(baked, replayed)
    BY <2>1 DEF Opens
  <2> QED BY <2>1, <2>5, <2>6, <2>7, <2>8 DEF WayInv
<1>6. CASE Search BY <1>1, <1>6 DEF Search
<1> QED BY <1>2, <1>3, <1>4, <1>5, <1>6 DEF CorpusNext

-----------------------------------------------------------------------------
(* The table of a brute build.                                               *)
LEMMA BakedStarts == CorpusInit => BakedInv
<1> SUFFICES ASSUME CorpusInit, phase = "build" PROVE \A b : Coming(b)
  BY DEF BakedInv, CorpusInit
<1>1. pc = "next" /\ ~Offered
  BY DEF CorpusInit, StartOn, Brute!BruteInit, Offered
<1> QED BY <1>1 DEF Coming

LEMMA WantingType ==
  ASSUME HostInv, phase # "search", NEW b \in Wanting
  PROVE  /\ b \in Raw /\ ZeroTail(b, HostDepth) /\ ~Blacklisted(b)
         /\ ~Precedes(b, host.range.start.bytes)
         /\ Precedes(b, host.range.end.bytes)
         /\ host.range.start.bytes \in Raw /\ host.range.end.bytes \in Raw
<1>1. host \in ConfigType BY CorpusAssumption DEF HostInv
<1>2. host.range.start.bytes \in Raw /\ host.range.end.bytes \in Raw
  BY <1>1, DepthType DEF Instruction
<1> QED BY <1>2 DEF Wanting

(* What comes after a candidate comes after the next one, or is it.          *)
LEMMA ComesNext ==
  ASSUME IInv, HostInv, phase = "build", host.mode = "brute", Ask,
         NEW b \in Wanting, Coming(b)
  PROVE  Coming(b)'
<1>1. /\ pc = "next"
      /\ ~Offered \/ Precedes(candidate.bytes, b)
      /\ range = host.range
  BY DEF Ask, Coming, HostInv
<1>2. SameSearch /\ mode = "brute" /\ depth = HostDepth /\ EngineInv
  BY <1>1, IsSameSearch DEF SameSearch
<1>3. NextBrute
  BY <1>2 DEF Ask, NextBrute, NextTunnel, NextRandom, NextDriven
<1>4. /\ b \in Raw /\ ZeroTail(b, depth)
      /\ ~Precedes(b, range.start.bytes) /\ Precedes(b, range.end.bytes)
      /\ range.start.bytes \in Raw /\ range.end.bytes \in Raw
  BY <1>1, <1>2, WantingType
<1>5. candidate' # NoCandidate /\ ~Precedes(b, candidate'.bytes)
  <2>1. CASE ~Offered
    <3>1. /\ ~started /\ bytes = range.start.bytes /\ depth \in Nat
      BY <1>1, <1>2, <2>1
         DEF EngineInv, CursorInv, Systematic, TypeOK, Brute!BruteTypeOK
    <3>2. Brute!BruteFirst
      <4>1. ~done BY <1>1, <1>2 DEF EngineInv, CursorInv, Systematic, Asking
      <4> QED BY <1>3, <3>1, <4>1
              DEF NextBrute, Brute!BruteNext, Brute!BruteIncrement,
                  Brute!BruteWrap, Brute!BruteOver
    <3>3. candidate' = IF Precedes(bytes, range.end.bytes)
                       THEN NewInstruction(bytes, depth) ELSE NoCandidate
      BY <3>2, BruteBytes DEF Brute!BruteFirst, Brute!BruteCurrent
    <3>4. Precedes(bytes, range.end.bytes)
      BY <1>4, <3>1, OrderNotBelow
    <3> QED BY <1>4, <3>1, <3>3, <3>4, CandidateType
  <2>2. CASE Offered
    <3>1. started /\ candidate.bytes = bytes
      BY <1>2, <2>2 DEF EngineInv, CursorInv, BruteInv, Systematic
    <3>2. Brute!BruteNext BY <1>3 DEF NextBrute
    <3>3. /\ candidate' = NoCandidate \/ candidate'.bytes = bytes'
          /\ Precedes(bytes, b) =>
               \/ ~Precedes(b, range.end.bytes)
               \/ candidate' # NoCandidate /\ ~Precedes(b, bytes')
      BY <1>1, <1>2, <1>4, <3>1, <3>2, BruteGoes
    <3> QED BY <1>1, <1>4, <2>2, <3>1, <3>3
  <2> QED BY <2>1, <2>2
<1>6. pc' = "try"
  <2>1. ~panicked' BY <1>2, <1>3 DEF NextBrute, SameSearch
  <2> QED BY <1>5, <2>1 DEF Ask
<1> QED BY <1>5, <1>6 DEF Coming

(* A brute build bakes what it comes past.                                   *)
LEMMA BakedSteps ==
  ASSUME IInv, HostInv, BakedInv, [CorpusNext]_allVars
  PROVE  BakedInv'
<1>1. CASE phase = "search"
  <2>1. Search \/ UNCHANGED allVars
    BY <1>1 DEF CorpusNext, BuildAsk, BuildSkip, BuildExecute, BuildFails,
       Deploy, ScanAsk, ScanSkip, ScanExecute, ScanFails, Wanted
  <2>2. phase' = "search" BY <1>1, <2>1 DEF Search, allVars
  <2> QED BY <2>2 DEF BakedInv
<1>2. CASE phase # "search"
  <2>1. host' = host /\ ~Search
    BY <1>2 DEF CorpusNext, BuildAsk, BuildSkip, BuildExecute, BuildFails,
       Deploy, ScanAsk, ScanSkip, ScanExecute, ScanFails, Search, corpus, allVars
  <2>2. Wanting' = Wanting BY <2>1 DEF Wanting, HostDepth
  <2> SUFFICES ASSUME host.mode = "brute"
               PROVE  \/ (phase = "scan" /\ Len(baked) = MaxCount)'
                      \/ \A b \in Wanting :
                           \/ Entries(Key([bytes |-> b]))' # {}
                           \/ phase' = "build" /\ Coming(b)'
    BY <2>1, <2>2 DEF BakedInv
  <2>3. \/ phase = "scan" /\ Len(baked) = MaxCount
        \/ \A b \in Wanting : \/ Entries(Key([bytes |-> b])) # {}
                              \/ phase = "build" /\ Coming(b)
    BY <1>2 DEF BakedInv
  <2>4. ASSUME baked' = baked, phase' = phase, phase = "scan" \/
               \A b \in Wanting : Coming(b) => Coming(b)'
        PROVE  \/ (phase = "scan" /\ Len(baked) = MaxCount)'
               \/ \A b \in Wanting : \/ Entries(Key([bytes |-> b]))' # {}
                                     \/ phase' = "build" /\ Coming(b)'
    <3>1. \A b : Entries(Key([bytes |-> b]))' = Entries(Key([bytes |-> b]))
      BY <2>4 DEF Entries, Key
    <3> QED BY <2>3, <2>4, <3>1
  <2>5. CASE BuildAsk
    <3>1. /\ Ask /\ baked' = baked /\ phase' = phase /\ phase = "build"
      BY <2>5 DEF BuildAsk, corpus, Wanted
    <3> QED BY <2>4, <3>1, ComesNext
  <2>6. CASE BuildSkip
    <3>1. /\ Skip /\ baked' = baked /\ phase' = phase /\ phase = "build"
          /\ candidate' = candidate /\ pc = "try" /\ pc' = "next"
      BY <2>6 DEF BuildSkip, corpus, Wanted, Skip
    <3>2. SameSearch BY <3>1, IsSameSearch DEF HostInv
    <3>3. Blacklisted(candidate.bytes) BY <3>1, <3>2, SameType DEF Skip
    <3>4. candidate.bytes \in Raw
      BY <3>1, BruteBytes
         DEF IInv, EngineInv, TypeOK, Brute!BruteTypeOK, CursorInv, Offered,
             Instruction
    <3>5. ASSUME NEW b \in Wanting, Coming(b) PROVE Coming(b)'
      <4>1. b \in Raw /\ ~Blacklisted(b) BY <3>1, WantingType
      <4>2. ~Precedes(b, candidate.bytes) BY <3>1, <3>5 DEF Coming
      <4>3. Precedes(candidate.bytes, b)
        BY <3>3, <3>4, <4>1, <4>2, OrderTotal
      <4> QED BY <3>1, <4>3 DEF Coming
    <3> QED BY <2>4, <3>1, <3>5
  <2>7. CASE BuildExecute
    <3>1. /\ baked' = Append(baked, Key(candidate)) /\ phase' = phase
          /\ phase = "build" /\ pc = "try" /\ \E f : ExecuteWith(f)
      BY <2>7 DEF BuildExecute, Wanted
    <3>2. candidate' = candidate /\ pc' = "next" BY <3>1, ExecuteKeeps
    <3>3. candidate.bytes \in Raw /\ candidate # NoCandidate
      BY <3>1, BruteBytes
         DEF IInv, EngineInv, TypeOK, Brute!BruteTypeOK, CursorInv, Offered,
             Instruction
    <3>4. /\ Len(baked) \in Nat /\ Len(baked') = Len(baked) + 1
          /\ \A i \in 1 .. Len(baked) : baked'[i] = baked[i]
          /\ baked'[Len(baked) + 1] = Key(candidate)
          /\ DOMAIN baked = 1 .. Len(baked) /\ DOMAIN baked' = 1 .. Len(baked')
      <4>1. Key(candidate) \in [1 .. KeyLen -> Byte] BY <3>1, KeyType
      <4>2. baked \in Seq([1 .. KeyLen -> Byte]) BY DEF IInv, CorpusTypeOK
      <4> QED BY <3>1, <4>1, <4>2
    <3>5. ASSUME NEW b \in Wanting
          PROVE  \/ Entries(Key([bytes |-> b]))' # {}
                 \/ phase' = "build" /\ Coming(b)'
      <4>1. b \in Raw BY <3>1, WantingType
      <4>2. CASE Entries(Key([bytes |-> b])) # {}
        <5>1. PICK i \in DOMAIN baked : baked[i] = Key([bytes |-> b])
          BY <4>2 DEF Entries
        <5>2. i \in DOMAIN baked' /\ baked'[i] = Key([bytes |-> b])
          BY <3>4, <5>1
        <5> QED BY <5>2 DEF Entries, Key
      <4>3. CASE b = candidate.bytes
        <5>1. Key([bytes |-> b]) = Key(candidate) BY <4>3 DEF Key
        <5>2. /\ Len(baked) + 1 \in DOMAIN baked'
              /\ baked'[Len(baked) + 1] = Key([bytes |-> b])
          BY <3>4, <5>1
        <5> QED BY <5>2 DEF Entries, Key
      <4>4. CASE Coming(b) /\ b # candidate.bytes
        <5>1. ~Precedes(b, candidate.bytes) BY <3>1, <4>4 DEF Coming
        <5>2. Precedes(candidate.bytes, b)
          BY <3>3, <4>1, <4>4, <5>1, OrderTotal
        <5> QED BY <3>1, <3>2, <5>2 DEF Coming
      <4> QED BY <2>3, <3>1, <4>2, <4>3, <4>4
    <3> QED BY <3>5
  <2>8. CASE BuildFails
    <3>1. phase = "build" /\ mode = "tunnel" /\ pc = "try"
      BY <2>8 DEF BuildFails, Wanted, Fail
    <3>2. SameSearch BY <3>1, IsSameSearch DEF HostInv
    <3> QED BY <3>1, <3>2 DEF SameSearch
  <2>9. CASE Deploy
    <3>1. /\ phase = "build" /\ phase' = "scan" /\ baked' = baked
          /\ pc \in {"next", "over"}
          /\ pc = "next" => Len(baked) = MaxCount
      BY <2>9 DEF Deploy, corpus
    <3>2. \A b : Entries(Key([bytes |-> b]))' = Entries(Key([bytes |-> b]))
      BY <3>1 DEF Entries, Key
    <3>3. CASE pc = "next"
      <4>1. (phase = "scan" /\ Len(baked) = MaxCount)'
        BY <3>1, <3>3
      <4> QED BY <4>1
    <3>4. CASE pc = "over"
      <4>1. \A b : ~Coming(b) BY <3>4 DEF Coming
      <4>2. \A b \in Wanting : Entries(Key([bytes |-> b])) # {}
        BY <2>3, <3>1, <4>1
      <4>3. \A b \in Wanting : Entries(Key([bytes |-> b]))' # {}
        BY <3>2, <4>2
      <4> QED BY <4>3
    <3> QED BY <3>1, <3>3, <3>4
  <2>10. CASE ScanAsk \/ ScanSkip \/ ScanExecute \/ ScanFails
    <3>1. baked' = baked /\ phase' = phase /\ phase = "scan"
      BY <2>10 DEF ScanAsk, ScanSkip, ScanExecute, ScanFails, corpus
    <3> QED BY <2>4, <3>1
  <2>11. CASE UNCHANGED allVars
    <3>1. UNCHANGED <<baked, phase, pc, candidate>>
      BY <2>11 DEF allVars, vars, corpus
    <3>2. \A b : Coming(b)' <=> Coming(b) BY <3>1 DEF Coming, Offered
    <3> QED BY <2>4, <3>1, <3>2
  <2> QED BY <2>1, <2>5, <2>6, <2>7, <2>8, <2>9, <2>10, <2>11 DEF CorpusNext
<1> QED BY <1>1, <1>2

-----------------------------------------------------------------------------
(* A scan that misses an instruction has a table that was full.              *)
LEMMA NotMissed ==
  ASSUME StartsFit, IInv, HostInv, BakedInv, phase = "scan",
         host.mode = "brute", Missed
  PROVE  Len(baked) = MaxCount
<1> SUFFICES ASSUME Len(baked) # MaxCount PROVE FALSE
  OBVIOUS
<1>1. PICK c \in Scans : /\ mode = c.mode /\ range = c.range
                         /\ depth = Brute!BruteDepth(c.wanted, c.range)
  BY DEF HostInv
<1>2. /\ host \in BuildConfigs /\ c \in BuildConfigs /\ c.mode = "brute"
      /\ c.wanted = host.wanted
      /\ c.range = host.range \/ Within(c.range, host.range)
      /\ c \in ConfigType /\ host \in ConfigType
  BY <1>1, CorpusAssumption DEF Scans, HostInv
<1>3. depth = HostDepth
  <2>1. /\ c.range.start.len <= host.wanted
        /\ host.range.start.len <= host.wanted
        /\ host.wanted \in Nat
        /\ c.range.start.len \in Nat /\ host.range.start.len \in Nat
    BY <1>2, DepthType DEF StartsFit, ConfigType
  <2>2. /\ Brute!Larger(host.wanted, c.range.start.len) = host.wanted
        /\ Brute!Larger(host.wanted, host.range.start.len) = host.wanted
    BY <2>1 DEF Brute!Larger
  <2> QED BY <1>1, <1>2, <2>2 DEF HostDepth, Brute!BruteDepth
<1>4. /\ pc = "failed" /\ Offered /\ ~Blacklisted(candidate.bytes)
  BY DEF Missed, HostInv
<1>5. /\ mode = "brute" /\ candidate \in Instruction
      /\ candidate.bytes \in Raw /\ ZeroTail(candidate.bytes, depth)
      /\ ~Precedes(candidate.bytes, range.start.bytes)
      /\ Precedes(candidate.bytes, range.end.bytes)
  BY <1>1, <1>2, <1>4, BruteBytes
     DEF IInv, EngineInv, TypeOK, Brute!BruteTypeOK, BruteInv, InRange,
         Systematic, Offered, Instruction
<1>6. /\ range.start.bytes \in Raw /\ range.end.bytes \in Raw
      /\ host.range.start.bytes \in Raw /\ host.range.end.bytes \in Raw
  BY <1>1, <1>2, DepthType DEF Instruction
<1>7. /\ ~Precedes(candidate.bytes, host.range.start.bytes)
      /\ Precedes(candidate.bytes, host.range.end.bytes)
  <2>1. CASE range = host.range BY <1>5, <2>1
  <2>2. CASE Within(range, host.range)
    <3>1. /\ ~Precedes(range.start.bytes, host.range.start.bytes)
          /\ ~Precedes(host.range.end.bytes, range.end.bytes)
      BY <2>2 DEF Within
    <3>2. ~Precedes(candidate.bytes, host.range.start.bytes)
      BY <1>5, <1>6, <3>1, OrderNotBelow
    <3>3. Precedes(candidate.bytes, host.range.end.bytes)
      BY <1>5, <1>6, <3>1, OrderTotal, OrderTransitive
    <3> QED BY <3>2, <3>3
  <2> QED BY <1>1, <1>2, <2>1, <2>2
<1>8. candidate.bytes \in Wanting
  BY <1>3, <1>4, <1>5, <1>7 DEF Wanting
<1>9. Entries(Key([bytes |-> candidate.bytes])) # {}
  BY <1>8 DEF BakedInv
<1>10. Key([bytes |-> candidate.bytes]) = Key(candidate) BY DEF Key
<1> QED BY <1>9, <1>10 DEF Missed

LEMMA OpensIsPrefix ==
  ASSUME NEW V, NEW s \in Seq(V), NEW t \in Seq(V), Opens(s, t)
  PROVE  Sequence!IsPrefix(s, t)
<1>1. Len(s) \in Nat /\ Len(t) \in Nat /\ Len(s) <= Len(t) BY DEF Opens
<1>2. /\ SubSeq(s, 1, Len(s)) \in Seq(V) /\ SubSeq(t, 1, Len(s)) \in Seq(V)
      /\ Len(SubSeq(s, 1, Len(s))) = Len(s)
      /\ Len(SubSeq(t, 1, Len(s))) = Len(s)
      /\ \A i \in 1 .. Len(s) : SubSeq(s, 1, Len(s))[i] = s[i]
      /\ \A i \in 1 .. Len(s) : SubSeq(t, 1, Len(s))[i] = t[i]
  BY <1>1
<1>3. SubSeq(s, 1, Len(s)) = SubSeq(t, 1, Len(s))
  BY <1>1, <1>2, SameElements DEF Opens
<1> QED BY <1>1, <1>3 DEF Sequence!IsPrefix

LEMMA Served ==
  ASSUME StartsFit, ServeInv
  PROVE  CorpusServes
<1> SUFFICES ASSUME phase = "scan"
             PROVE  /\ range = host.range =>
                         \/ Sequence!IsPrefix(baked, replayed)
                         \/ /\ Sequence!IsPrefix(replayed, baked)
                            /\ ~Missed /\ pc # "over"
                    /\ Missed => Len(baked) = MaxCount
  BY DEF CorpusServes
<1>1. IInv /\ HostInv /\ BakedInv /\ WayInv BY DEF ServeInv
<1>2. /\ baked \in Seq([1 .. KeyLen -> Byte]) /\ Len(baked) \in Nat
      /\ replayed \in Seq([1 .. KeyLen -> Byte]) /\ Len(replayed) \in Nat
  BY <1>1 DEF IInv, CorpusTypeOK
<1>3. /\ Opens(replayed, baked) => Sequence!IsPrefix(replayed, baked)
      /\ Opens(baked, replayed) => Sequence!IsPrefix(baked, replayed)
  BY <1>2, OpensIsPrefix
<1>4. ASSUME range = host.range
      PROVE  /\ \/ Sequence!IsPrefix(baked, replayed)
                \/ /\ Sequence!IsPrefix(replayed, baked)
                   /\ ~Missed /\ pc # "over"
             /\ Missed => Len(baked) = MaxCount
  <2>1. CASE OnWay
    <3>1. Opens(replayed, baked) /\ ~Missed BY <2>1 DEF OnWay, Missed
    <3>2. CASE pc # "over" BY <1>3, <3>1, <3>2
    <3>3. CASE pc = "over"
      <4>1. PICK P, last : WayOfBuild(P, last) /\ Here(Len(replayed)) \in P
        BY <2>1 DEF OnWay
      <4>2. Here(Len(replayed)) = last
        <5>1. Here(Len(replayed)).pc = "over" BY <3>3, HereIs
        <5>2. ~Settled(Here(Len(replayed))) BY <5>1 DEF Settled
        <5> QED BY <4>1, <5>2 DEF WayOfBuild, Way
      <4>3. Len(replayed) = Len(baked) BY <4>1, <4>2, HereIs DEF WayOfBuild
      <4>4. Opens(baked, replayed) BY <1>2, <3>1, <4>3 DEF Opens
      <4> QED BY <1>3, <3>1, <4>4
    <3> QED BY <3>2, <3>3
  <2>2. CASE Len(baked) = MaxCount /\ Opens(baked, replayed)
    BY <1>3, <2>2
  <2>3. CASE /\ pc = "failed" /\ Opens(replayed, baked)
             /\ Entries(Key(candidate)) # {}
    BY <1>3, <2>3 DEF Missed
  <2> QED BY <1>1, <1>4, <2>1, <2>2, <2>3 DEF WayInv
<1>5. ASSUME range # host.range, Missed PROVE Len(baked) = MaxCount
  <2>1. host.mode = "brute" BY <1>1, <1>5 DEF HostInv, Scans
  <2> QED BY <1>1, <1>5, <2>1, NotMissed
<1> QED BY <1>4, <1>5

(* The scan of the app goes where the build went: it executes the table in   *)
(* its order and to its end, and within the range of a brute build it misses *)
(* nothing, unless max_count cut the table short.  Whoever knows where in    *)
(* the build the scan is knows what comes next, since what the processor     *)
(* made of an instruction and what the seed gave are the same again.         *)
THEOREM ScanIsServed ==
  ASSUME StartsFit
  PROVE  CorpusSpec => []CorpusServes
<1>1. CorpusInit => ServeInv
  BY CorpusStarts, HostStarts, BakedStarts, WayStarts DEF ServeInv
<1>2. ServeInv /\ [CorpusNext]_allVars => ServeInv'
  BY EngineSteps, CorpusSteps, HostSteps, BakedSteps, WaySteps
     DEF ServeInv, IInv
<1>3. ServeInv => CorpusServes BY Served
<1> QED BY <1>1, <1>2, <1>3, PTL DEF CorpusSpec

================================================================================
