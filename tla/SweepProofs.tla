----------------------------- MODULE SweepProofs -----------------------------
(* The supervisor: the pieces it cuts tile the range, its workers read what  *)
(* it means them to, and together they search what one process would.        *)
EXTENDS Sweep, OptionProofs

(* The workers are set up, all at once, when the last piece is cut.          *)
Launched == status # <<>>

(* Before that nothing of theirs is there.                                   *)
StageInv ==
  /\ conf = Configured(args)
  /\ pc = "split" \/ Launched =>
       /\ Accepted(args)
       /\ Parallel /\ conf.mode \notin {"random", "driven"}
  /\ pc \in {"run", "ok"} => Launched
  /\ Launched => /\ pc \in {"run", "ok", "failed"}
                 /\ ranges # <<>>
                 /\ Len(status) = Len(ranges) /\ Len(rest) = Len(ranges)
  /\ ~Launched => /\ rest = <<>> /\ next = 1 /\ active = <<>> /\ tried = {}
                  /\ pc # "split" => ranges = <<>>

Within(b, r) == /\ ~Precedes(b, r.start.bytes)
                /\ Precedes(b, r.end.bytes)

(* How far the range is cut.                                                 *)
Reached == IF Launched THEN End ELSE marker

MarkerInv ==
  /\ marker \in Hexed /\ ~Precedes(marker.bytes, Start.bytes)
  /\ ranges = <<>> => marker = Start
  /\ ~Launched /\ ranges # <<>> =>
       /\ ranges[Len(ranges)].end = marker /\ marker.len = LeadingBytes
       /\ Precedes(marker.bytes, End.bytes)

(* A piece lies in what is cut; no byte of it is lost in a worker's          *)
(* arguments, unless it is one of the end asked for.                         *)
PieceInv ==
  \A i \in DOMAIN ranges :
    /\ ranges[i].start \in Hexed
    /\ i > 1 => ranges[i].start.len = LeadingBytes
    /\ ranges[i].end \in Hexed \cup {End}
    /\ ~Precedes(ranges[i].start.bytes, Start.bytes)
    /\ ~Precedes(End.bytes, ranges[i].end.bytes)
    /\ ~Precedes(Reached.bytes, ranges[i].end.bytes)
    /\ Precedes(Start.bytes, End.bytes) =>
         Precedes(ranges[i].start.bytes, ranges[i].end.bytes)

OrderInv ==
  \A i, j \in DOMAIN ranges :
    i < j => ~Precedes(ranges[j].start.bytes, ranges[i].end.bytes)

(* Nothing is left out.                                                      *)
ReachInv ==
  \A b \in Raw :
    ~Precedes(b, Start.bytes) /\ Precedes(b, Reached.bytes)
      => \E i \in DOMAIN ranges : Within(b, ranges[i])

(* One piece begins where the one before it ends.                            *)
ChainInv ==
  /\ ranges # <<>> => ranges[1].start = Start
  /\ \A i \in 1 .. Len(ranges) - 1 : ranges[i].end = ranges[i + 1].start
  /\ Launched => ranges[Len(ranges)].end.bytes = End.bytes

CutInv == MarkerInv /\ PieceInv /\ OrderInv /\ ReachInv /\ ChainInv

(* Who is running is waited for, and who succeeded has nothing left.         *)
PoolInv ==
  /\ Len(active) <= conf.jobs
  /\ \A i \in DOMAIN status :
       /\ status[i] = "unborn" <=> i >= next
       /\ status[i] \in {"running", "failed"} =>
            \E k \in DOMAIN active : active[k] = i
       /\ status[i] = "succeeded" => rest[i] = {}

SweepInv == TypeOK /\ StageInv /\ CutInv /\ PoolInv /\ WorkersSearchAlike

-----------------------------------------------------------------------------
(* What one process would search of a piece.                                 *)
Share(i) == {b \in Asked : Within(b, ranges[i])}

CoverInv ==
  /\ tried \subseteq Asked
  /\ \A i \in DOMAIN status :
       /\ rest[i] \subseteq Share(i) /\ rest[i] \cap tried = {}
       /\ status[i] = "unborn" => Share(i) \cap tried = {}
       /\ status[i] # "unborn" => Share(i) \subseteq rest[i] \cup tried
  /\ SweepComplete

-----------------------------------------------------------------------------
(* The range of a command line, and by how many bytes it is cut.             *)
LEMMA RangeType ==
  ASSUME NEW config, config.start \in Hexed \cup {None},
         config.end \in Hexed \cup {None}
  PROVE  StartOf(config) \in Hexed /\ EndOf(config) \in Instruction
<1>1. None \notin Instruction /\ Hexed \subseteq Instruction
  BY NoneAssumption DEF Hexed
<1>2. StartOf(config) \in Hexed
  <2>1. CASE config.start # None BY <2>1 DEF StartOf
  <2>2. CASE config.start = None
    <3> DEFINE z == [i \in Positions |-> 0]
    <3>1. z \in Raw BY ByteAssumption DEF Raw, Byte
    <3>2. ZeroTail(z, 0) BY DEF ZeroTail
    <3>3. 0 \in 0 .. Width BY WidthAssumption
    <3> HIDE DEF z
    <3>4. [bytes |-> z, len |-> 0] \in Hexed
      BY <3>1, <3>2, <3>3 DEF Hexed, Instruction
    <3> QED BY <2>2, <3>4 DEF StartOf, z
  <2> QED BY <2>1, <2>2
<1>3. EndOf(config) \in Instruction
  <2>1. CASE config.end # None BY <1>1, <2>1 DEF EndOf
  <2>2. CASE config.end = None
    <3> DEFINE z == [i \in Positions |-> Base - 1]
    <3>1. z \in Raw BY ByteAssumption DEF Raw, Byte
    <3>2. Smaller(TargetLen, Width) \in 0 .. Width
      BY WidthAssumption, TargetAssumption DEF Smaller
    <3> HIDE DEF z
    <3>3. NewInstruction(z, TargetLen) \in Instruction
      BY <3>1, <3>2 DEF NewInstruction, Instruction
    <3> QED BY <2>2, <3>3 DEF EndOf, z
  <2> QED BY <2>1, <2>2
<1> QED BY <1>2, <1>3

LEMMA ConfType ==
  ASSUME args \in CommandLines, conf = Configured(args)
  PROVE  /\ DOMAIN conf = DOMAIN Default /\ args \in Seq(Argument)
         /\ conf.jobs \in Nat /\ conf.wanted \in Nat
         /\ Start \in Hexed /\ End \in Instruction
         /\ LeadingBytes \in 1 .. Width
<1>1. args \in Seq(Argument) BY SweepAssumption
<1>2. /\ DOMAIN conf = DOMAIN Default
      /\ conf.start \in Hexed \cup {None} /\ conf.end \in Hexed \cup {None}
      /\ conf.wanted \in Nat /\ conf.rangeBytes \in Nat /\ conf.jobs \in Nat
  <2>1. CASE Accepted(args) BY <1>1, <2>1, ConfigTypes DEF Configured
  <2>2. CASE ~Accepted(args) BY <2>2 DEF Configured, Default
  <2> QED BY <2>1, <2>2
<1>3. Start \in Hexed /\ End \in Instruction
  BY <1>2, RangeType DEF Start, End
<1>4. LeadingBytes \in 1 .. Width
  BY <1>2, WidthAssumption DEF LeadingBytes, Smaller, Larger
<1> QED BY <1>1, <1>2, <1>3, <1>4

(* increment_range gives a greater number in the leading bytes.              *)
LEMMA SteppedType ==
  ASSUME args \in CommandLines, conf = Configured(args),
         NEW m \in Instruction, ~WrapsAround(m.bytes, LeadingBytes)
  PROVE  /\ Stepped(m) \in Hexed /\ Stepped(m).len = LeadingBytes
         /\ Precedes(m.bytes, Stepped(m).bytes)
<1> DEFINE n == LeadingBytes
           cut == ZeroFrom(m.bytes, n)
           Grows(i) == CarriesTo(cut, n, i)
           i == CHOOSE i \in 0 .. n - 1 : Grows(i)
<1>1. n \in 1 .. Width /\ n \in 0 .. Width /\ n \in Nat
  <2>1. n \in 1 .. Width BY ConfType
  <2> QED BY <2>1, WidthAssumption
<1>2. m.bytes \in Raw BY DEF Instruction
<1> HIDE DEF n
<1>3. /\ cut \in Raw /\ ZeroTail(cut, n)
      /\ \A j \in Positions : j < n => cut[j] = m.bytes[j]
  BY <1>1, <1>2, ZeroType
<1>4. \E k \in 0 .. n - 1 : Grows(k)
  <2> DEFINE D == {d \in 0 .. n - 1 : m.bytes[n - 1 - d] # Base - 1}
  <2>1. PICK j \in Positions : j < n /\ m.bytes[j] # Base - 1
    BY DEF WrapsAround, n
  <2>2. n - 1 - (n - 1 - j) = j /\ n - 1 - j \in 0 .. n - 1
    BY <1>1, <2>1, PositionType
  <2>3. n - 1 - j \in D BY <2>1, <2>2
  <2>4. D \in SUBSET Nat BY <1>1
  <2>5. PICK d \in D : \A x \in D : d <= x BY <2>3, <2>4, LeastNatural
  <2> DEFINE k == n - 1 - d
  <2>6. d \in 0 .. n - 1 /\ m.bytes[k] # Base - 1 OBVIOUS
  <2>7. k \in 0 .. n - 1 /\ k \in Positions
    BY <1>1, <2>6, WidthAssumption DEF Positions
  <2>8. ASSUME NEW l \in Positions, k < l, l < n PROVE cut[l] = Base - 1
    <3>1. n - 1 - l \in 0 .. n - 1 /\ n - 1 - (n - 1 - l) = l
          /\ ~(d <= n - 1 - l)
      BY <1>1, <2>6, <2>8, PositionType
    <3>2. n - 1 - l \notin D BY <2>5, <3>1
    <3>3. m.bytes[l] = Base - 1 BY <3>1, <3>2
    <3> QED BY <1>3, <2>8, <3>3
  <2>9. cut[k] # Base - 1 BY <1>1, <1>3, <2>6, <2>7
  <2> HIDE DEF k, cut
  <2> QED BY <2>7, <2>8, <2>9 DEF CarriesTo
<1>5. i \in 0 .. n - 1 /\ Grows(i) BY <1>4
<1> HIDE DEF i, cut
<1>6. i \in Positions /\ i < n
  BY <1>1, <1>5, WidthAssumption DEF Positions
<1>7. Stepped(m) = [bytes |-> Carried(cut, n, i), len |-> n]
  BY DEF Stepped, n, cut, i
<1>8. Carried(cut, n, i) \in Raw /\ ZeroTail(Carried(cut, n, i), i + 1)
  BY <1>1, <1>3, <1>5, <1>6, CarriedType
<1>9. ZeroTail(Carried(cut, n, i), n)
  <2>1. ASSUME NEW j \in Positions, j >= n PROVE j >= i + 1
    BY <1>1, <1>6, <2>1, PositionType
  <2> QED BY <1>8, <2>1 DEF ZeroTail
<1>10. Precedes(m.bytes, Carried(cut, n, i))
  <2>1. \A j \in Positions : j <= i => cut[j] = m.bytes[j]
    BY <1>1, <1>3, <1>6, PositionType
  <2> QED BY <1>1, <1>2, <1>3, <1>5, <1>6, <2>1, CarriedAbove
<1> QED BY <1>1, <1>7, <1>8, <1>9, <1>10 DEF Hexed, Instruction, n

(* A piece is not empty and ends in the range.                               *)
LEMMA PieceEndType ==
  ASSUME args \in CommandLines, conf = Configured(args),
         NEW m \in Instruction, Precedes(m.bytes, End.bytes)
  PROVE  /\ PieceEnd(m) \in Hexed \cup {End} /\ PieceEnd(m) \in Instruction
         /\ PieceEnd(m) # End => PieceEnd(m).len = LeadingBytes
         /\ PieceEnd(m) # End => PieceEnd(m) \in Hexed
         /\ Precedes(m.bytes, PieceEnd(m).bytes)
         /\ ~Precedes(End.bytes, PieceEnd(m).bytes)
<1>1. End \in Instruction /\ End.bytes \in Raw /\ Hexed \subseteq Instruction
  BY ConfType DEF Instruction, Hexed
<1>2. CASE PieceEnd(m) = End BY <1>1, <1>2, OrderAsymmetric
<1>3. CASE PieceEnd(m) # End
  <2>1. /\ ~WrapsAround(m.bytes, LeadingBytes)
        /\ ~Precedes(End.bytes, Stepped(m).bytes)
        /\ PieceEnd(m) = Stepped(m)
    BY <1>3 DEF PieceEnd
  <2> QED BY <1>1, <1>3, <2>1, SteppedType
<1> QED BY <1>2, <1>3

-----------------------------------------------------------------------------
(* A list has no more members than it is long.                               *)
LEMMA ListedBound ==
  ASSUME NEW V, NEW s \in Seq(V), NEW R, \A i \in R : \E k \in DOMAIN s : s[k] = i
  PROVE  Cardinality(R) \in Nat /\ Cardinality(R) <= Len(s)
<1> DEFINE n == Len(s)
           T == {s[k] : k \in 1 .. n}
           f == [k \in 1 .. n |-> s[k]]
<1>1. n \in Nat /\ DOMAIN s = 1 .. n OBVIOUS
<1>2. R \subseteq T BY <1>1
<1>3. f \in Surjection(1 .. n, T) BY DEF Surjection
<1>4. IsFiniteSet(1 .. n) /\ Cardinality(1 .. n) = n
  <2> HIDE DEF n
  <2> QED BY <1>1, FS_Interval
<1> HIDE DEF T, n, f
<1>5. IsFiniteSet(T) /\ Cardinality(T) <= n
  BY <1>3, <1>4, FS_Surjection DEF ExistsSurjection
<1>6. IsFiniteSet(R) /\ Cardinality(R) <= Cardinality(T)
  BY <1>2, <1>5, FS_Subset
<1>7. Cardinality(R) \in Nat /\ Cardinality(T) \in Nat
  BY <1>5, <1>6, FS_CardinalityType
<1> QED BY <1>1, <1>5, <1>6, <1>7 DEF n

LEMMA InitInv == Init => SweepInv
<1> SUFFICES ASSUME Init PROVE SweepInv
  OBVIOUS
<1>1. /\ DOMAIN conf = DOMAIN Default /\ conf.jobs \in Nat
      /\ Start \in Hexed /\ Hexed \subseteq Instruction
      /\ Start.bytes \in Raw
  BY ConfType DEF Init, Hexed, Instruction
<1>2. /\ status = <<>> /\ rest = <<>> /\ read = <<>> /\ active = <<>>
      /\ ranges = <<>> /\ next = 1 /\ printed = 0 /\ tried = {}
      /\ pc = "main" /\ marker = Start /\ args \in CommandLines
      /\ conf = Configured(args)
  BY DEF Init
<1>3. Cardinality({i \in DOMAIN status : status[i] = "running"}) <= conf.jobs
  <2>1. {i \in DOMAIN status : status[i] = "running"} = {} BY <1>2
  <2> QED BY <1>1, <2>1, FS_EmptySet
<1>4. TypeOK BY <1>1, <1>2, <1>3 DEF TypeOK
<1>5. StageInv BY <1>2 DEF StageInv, Launched
<1>6. CutInv
  <2>1. \A b \in Raw : ~(~Precedes(b, Start.bytes) /\ Precedes(b, Start.bytes))
    OBVIOUS
  <2>2. ~Launched /\ Reached = Start BY <1>2 DEF Launched, Reached
  <2>3. ~Precedes(Start.bytes, Start.bytes) BY <1>1, OrderAsymmetric
  <2>4. DOMAIN ranges = {} /\ Len(ranges) = 0 BY <1>2
  <2>5. MarkerInv BY <1>1, <1>2, <2>3 DEF MarkerInv
  <2>6. PieceInv /\ OrderInv BY <2>4 DEF PieceInv, OrderInv
  <2>7. ReachInv BY <2>1, <2>2 DEF ReachInv
  <2>8. ChainInv BY <1>2, <2>2, <2>4 DEF ChainInv
  <2> QED BY <2>5, <2>6, <2>7, <2>8 DEF CutInv
<1>7. PoolInv BY <1>1, <1>2 DEF PoolInv
<1>8. WorkersSearchAlike BY <1>2 DEF WorkersSearchAlike
<1> QED BY <1>4, <1>5, <1>6, <1>7, <1>8 DEF SweepInv

-----------------------------------------------------------------------------
Statuses == {"unborn", "running", "succeeded", "failed"}

(* What there is of each piece once the workers are launched.                *)
LEMMA Domains ==
  ASSUME TypeOK, StageInv
  PROVE  /\ status \in Seq(Statuses) /\ rest \in Seq(SUBSET Raw)
         /\ Len(ranges) \in Nat /\ DOMAIN ranges = 1 .. Len(ranges)
         /\ \A i \in DOMAIN ranges : /\ ranges[i].start \in Instruction
                                    /\ ranges[i].end \in Instruction
         /\ DOMAIN rest = DOMAIN status /\ DOMAIN read = DOMAIN status
         /\ Launched => DOMAIN status = DOMAIN ranges /\ Len(ranges) >= 1
         /\ ~Launched => status = <<>> /\ DOMAIN status = {}
<1>1. /\ status \in Seq(Statuses) /\ rest \in Seq(SUBSET Raw)
      /\ ranges \in Seq(SearchRange) /\ DOMAIN read = DOMAIN rest
  BY DEF TypeOK, Statuses
<1>2. /\ DOMAIN status = 1 .. Len(status) /\ DOMAIN rest = 1 .. Len(rest)
      /\ Len(ranges) \in Nat /\ DOMAIN ranges = 1 .. Len(ranges)
  BY <1>1
<1>3. \A i \in DOMAIN ranges : /\ ranges[i].start \in Instruction
                              /\ ranges[i].end \in Instruction
  <2>1. \A i \in DOMAIN ranges : ranges[i] \in SearchRange BY <1>1
  <2> QED BY <2>1 DEF SearchRange
<1>4. CASE Launched
  <2>1. /\ ranges # <<>> /\ Len(status) = Len(ranges)
        /\ Len(rest) = Len(ranges)
    BY <1>4 DEF StageInv
  <2>2. Len(ranges) >= 1 BY <1>1, <2>1
  <2> QED BY <1>1, <1>2, <1>3, <1>4, <2>1, <2>2
<1>5. CASE ~Launched
  <2>1. status = <<>> /\ rest = <<>> BY <1>5 DEF StageInv, Launched
  <2> QED BY <1>1, <1>2, <1>3, <1>5, <2>1
<1> QED BY <1>4, <1>5

(* The workers are launched in one step, and in no other.                    *)
Cutting == Split \/ SplitEmpty

LEMMA NotCutting ==
  ASSUME TypeOK, StageInv, [Next]_vars, ~Cutting
  PROVE  /\ UNCHANGED splitting
         /\ status' \in Seq(Statuses) /\ Len(status') = Len(status)
         /\ rest' \in Seq(SUBSET Raw) /\ Len(rest') = Len(rest)
         /\ DOMAIN status' = DOMAIN status /\ DOMAIN rest' = DOMAIN rest
         /\ DOMAIN read' = DOMAIN read
         /\ Launched' <=> Launched
<1>1. status \in Seq(Statuses) /\ rest \in Seq(SUBSET Raw)
  BY DEF TypeOK, Statuses
<1>2. WorkerSet(read'[next]) \subseteq Raw
  BY DEF WorkerSet, SearchOf, BruteSet
<1>3. /\ UNCHANGED splitting
      /\ \/ status' = status
         \/ \E i, x : x \in Statuses /\ status' = [status EXCEPT ![i] = x]
      /\ \/ rest' = rest
         \/ \E i, x : x \in SUBSET Raw /\ rest' = [rest EXCEPT ![i] = x]
      /\ DOMAIN read' = DOMAIN read
  <2>1. CASE UNCHANGED vars
    BY <2>1 DEF vars, splitting, workers
  <2>2. CASE Supervisor
    <3>1. CASE Usage \/ Alone \/ RefuseMode \/ Supervise
      BY <3>1 DEF Usage, Alone, RefuseMode, Supervise, workers
    <3>2. CASE Spawn BY <1>2, <3>2 DEF Spawn, Statuses
    <3>3. CASE SpawnFails BY <3>3 DEF SpawnFails, workers
    <3>4. CASE Reap BY <3>4 DEF Reap, workers
    <3>5. CASE ReapFailed BY <3>5 DEF ReapFailed, workers
    <3>6. CASE Finish BY <3>6 DEF Finish, workers
    <3> QED BY <2>2, <3>1, <3>2, <3>3, <3>4, <3>5, <3>6
         DEF Supervisor, Cutting
  <2>3. ASSUME NEW i \in DOMAIN status, Worker(i)
        PROVE  /\ UNCHANGED splitting
               /\ \/ status' = status
                  \/ \E j, x : x \in Statuses
                               /\ status' = [status EXCEPT ![j] = x]
               /\ \/ rest' = rest
                  \/ \E j, x : x \in SUBSET Raw
                               /\ rest' = [rest EXCEPT ![j] = x]
               /\ DOMAIN read' = DOMAIN read
    <3>1. CASE Report(i)
      <4>1. rest[i] \ {Least(rest[i])} \in SUBSET Raw
        <5>1. i \in DOMAIN rest BY <2>3, Domains
        <5> QED BY <1>1, <5>1
      <4> QED BY <3>1, <4>1 DEF Report
    <3>2. CASE Exit(i) BY <3>2 DEF Exit, Statuses
    <3>3. CASE Die(i) BY <3>3 DEF Die, Statuses
    <3> QED BY <2>3, <3>1, <3>2, <3>3 DEF Worker
  <2> QED BY <2>1, <2>2, <2>3 DEF Next
<1>4. /\ status' \in Seq(Statuses) /\ Len(status') = Len(status)
      /\ DOMAIN status' = DOMAIN status
  BY <1>1, <1>3
<1>5. /\ rest' \in Seq(SUBSET Raw) /\ Len(rest') = Len(rest)
      /\ DOMAIN rest' = DOMAIN rest
  BY <1>1, <1>3
<1>6. Launched' <=> Launched BY <1>1, <1>4 DEF Launched
<1> QED BY <1>3, <1>4, <1>5, <1>6

LEMMA CuttingStep ==
  ASSUME TypeOK, StageInv, Cutting
  PROVE  /\ UNCHANGED <<args, conf, next, active, printed, tried>>
         /\ pc = "split" /\ ~Launched /\ status = <<>>
         /\ next = 1 /\ active = <<>> /\ tried = {}
         /\ ranges' # <<>> /\ ranges' \in Seq(SearchRange)
         /\ \/ /\ pc' = pc /\ status' = status /\ rest' = rest /\ read' = read
               /\ ~Launched'
            \/ /\ pc' = "run" /\ Launched'
               /\ DOMAIN status' = DOMAIN ranges'
               /\ status' \in Seq(Statuses) /\ Len(status') = Len(ranges')
               /\ rest' \in Seq(SUBSET Raw) /\ Len(rest') = Len(ranges')
               /\ DOMAIN read' = DOMAIN rest'
               /\ \A i \in DOMAIN status' : /\ status'[i] = "unborn"
                                            /\ rest'[i] = {}
<1>1. /\ pc = "split" /\ ~Launched /\ status = <<>>
      /\ next = 1 /\ active = <<>> /\ tried = {}
  <2>1. pc = "split" BY DEF Cutting, Split, SplitEmpty
  <2> QED BY <2>1 DEF StageInv, Launched
<1>2. UNCHANGED <<args, conf, next, active, printed, tried>>
  BY DEF Cutting, Split, SplitEmpty, pool, output
<1>3. ranges \in Seq(SearchRange) /\ marker \in Instruction BY DEF TypeOK
<1>4. args \in CommandLines /\ conf = Configured(args)
  BY DEF TypeOK, StageInv
<1>5. /\ ranges' # <<>> /\ ranges' \in Seq(SearchRange)
      /\ \/ /\ pc' = pc /\ status' = status /\ rest' = rest /\ read' = read
         \/ StartRunning(ranges')
  <2>1. CASE Split
    <3> DEFINE r == [start |-> marker, end |-> PieceEnd(marker)]
    <3>1. PieceEnd(marker) \in Instruction
      BY <1>3, <1>4, <2>1, PieceEndType DEF Split
    <3>2. r \in SearchRange BY <1>3, <3>1 DEF SearchRange
    <3>3. ranges' = Append(ranges, r) BY <2>1 DEF Split
    <3> HIDE DEF r
    <3>4. ranges' # <<>> /\ ranges' \in Seq(SearchRange)
      BY <1>3, <3>2, <3>3
    <3> QED BY <2>1, <3>4 DEF Split
  <2>2. CASE SplitEmpty
    <3> DEFINE r == [start |-> Start, end |-> End]
    <3>1. r \in SearchRange
      BY <1>4, ConfType DEF SearchRange, Hexed
    <3>2. ranges' = <<r>> BY <2>2 DEF SplitEmpty
    <3> HIDE DEF r
    <3>3. ranges' # <<>> /\ ranges' \in Seq(SearchRange) BY <3>1, <3>2
    <3> QED BY <2>2, <3>3 DEF SplitEmpty
  <2> QED BY <2>1, <2>2 DEF Cutting
<1>6. ASSUME StartRunning(ranges')
      PROVE  /\ pc' = "run" /\ Launched'
             /\ DOMAIN status' = DOMAIN ranges'
             /\ status' \in Seq(Statuses) /\ Len(status') = Len(ranges')
             /\ rest' \in Seq(SUBSET Raw) /\ Len(rest') = Len(ranges')
             /\ DOMAIN read' = DOMAIN rest'
             /\ \A i \in DOMAIN status' : /\ status'[i] = "unborn"
                                          /\ rest'[i] = {}
  <2> DEFINE n == Len(ranges')
  <2>1. n \in Nat /\ n # 0 /\ DOMAIN ranges' = 1 .. n BY <1>5
  <2> HIDE DEF n
  <2>2. /\ pc' = "run" /\ status' = [i \in 1 .. n |-> "unborn"]
        /\ rest' = [i \in 1 .. n |-> {}] /\ read' = [i \in 1 .. n |-> {}]
    BY <1>6, <2>1 DEF StartRunning
  <2>3. /\ status' \in Seq(Statuses) /\ Len(status') = n
        /\ rest' \in Seq(SUBSET Raw) /\ Len(rest') = n
    BY <2>1, <2>2 DEF Statuses
  <2>4. Launched' BY <2>1, <2>3 DEF Launched
  <2> QED BY <2>1, <2>2, <2>3, <2>4 DEF n
<1>7. status' = status => ~Launched' BY <1>1 DEF Launched
<1> QED BY <1>1, <1>2, <1>5, <1>6, <1>7

LEMMA StageStep ==
  ASSUME TypeOK, StageInv, [Next]_vars
  PROVE  StageInv'
<1>1. conf' = conf /\ args' = args
  <2>1. CASE Cutting BY <2>1, CuttingStep
  <2>2. CASE ~Cutting BY <2>2, NotCutting DEF splitting
  <2> QED BY <2>1, <2>2
<1>2. conf' = Configured(args') BY <1>1 DEF StageInv
<1>3. CASE Cutting
  <2>1. /\ Accepted(args') /\ Parallel'
        /\ conf'.mode \notin {"random", "driven"}
    BY <1>1, <1>3, CuttingStep DEF StageInv, Parallel
  <2>2. CASE Launched'
    BY <1>2, <1>3, <2>1, <2>2, CuttingStep DEF StageInv
  <2>3. CASE ~Launched'
    <3>1. pc' = pc /\ rest' = rest /\ pc = "split" /\ ~Launched
      BY <1>3, <2>3, CuttingStep
    <3>2. rest' = <<>> /\ next' = 1 /\ active' = <<>> /\ tried' = {}
      BY <1>3, <3>1, CuttingStep DEF StageInv
    <3> QED BY <1>2, <2>1, <2>3, <3>1, <3>2 DEF StageInv
  <2> QED BY <2>2, <2>3
<1>4. CASE ~Cutting
  <2>0. /\ Launched' <=> Launched
        /\ Len(status') = Len(status) /\ Len(rest') = Len(rest)
        /\ ranges' = ranges
    BY <1>4, NotCutting DEF splitting
  <2>1. CASE Launched
    <3>1. pc \in {"run", "ok", "failed"} BY <2>1 DEF StageInv
    <3>2. pc' \in {"run", "ok", "failed"}
      BY <1>4, <3>1 DEF Next, vars, Supervisor, Cutting, Usage, Alone,
         RefuseMode, Supervise, Spawn, SpawnFails, Reap, ReapFailed, Finish,
         Worker, Report, Exit, Die
    <3> QED BY <1>1, <1>2, <2>0, <2>1, <3>2 DEF StageInv, Parallel
  <2>2. CASE ~Launched
    <3>1. DOMAIN status = {} /\ pc \notin {"run", "ok"}
      BY <2>2, Domains DEF StageInv
    <3>2. CASE UNCHANGED vars
      BY <1>1, <1>2, <2>0, <2>2, <3>2
         DEF StageInv, vars, splitting, pool, workers, output, Launched,
             Parallel
    <3>3. CASE Usage \/ Alone \/ RefuseMode \/ Supervise
      <4>1. /\ UNCHANGED <<splitting, pool, workers>> /\ pc = "main"
            /\ pc' \in {"usage", "alone", "failed", "split"}
            /\ pc' = "split" => /\ Accepted(args) /\ Parallel
                                /\ conf.mode \notin {"random", "driven"}
        BY <3>3 DEF Usage, Alone, RefuseMode, Supervise
      <4> QED BY <1>1, <1>2, <2>0, <2>2, <4>1
           DEF StageInv, splitting, pool, workers, output, Parallel
    <3> QED BY <1>4, <3>1, <3>2, <3>3
         DEF Next, Supervisor, Cutting, Spawn, SpawnFails, Reap, ReapFailed,
             Finish
  <2> QED BY <2>1, <2>2
<1> QED BY <1>3, <1>4

-----------------------------------------------------------------------------
(* One more piece, as far as the next change of the leading bytes.           *)
LEMMA SplitCuts ==
  ASSUME TypeOK, StageInv, CutInv, Split
  PROVE  CutInv'
<1> DEFINE n == Len(ranges)
           e == PieceEnd(marker)
           r == [start |-> marker, end |-> e]
<1>1. /\ Start' = Start /\ End' = End /\ LeadingBytes' = LeadingBytes
      /\ ranges' = Append(ranges, r) /\ pc = "split"
      /\ Precedes(marker.bytes, End.bytes)
  BY DEF Split, Start, End, LeadingBytes
<1>2. ~Launched /\ Reached = marker BY CuttingStep DEF Cutting, Reached
<1>3. /\ Start \in Hexed /\ End \in Instruction /\ marker \in Hexed
      /\ Hexed \subseteq Instruction
  BY ConfType DEF TypeOK, StageInv, CutInv, MarkerInv, Hexed
<1>4. /\ e \in Hexed \cup {End} /\ e \in Instruction
      /\ e # End => e.len = LeadingBytes /\ e \in Hexed
      /\ Precedes(marker.bytes, e.bytes)
      /\ ~Precedes(End.bytes, e.bytes)
  BY <1>1, <1>3, PieceEndType DEF TypeOK, StageInv
<1>5. /\ Start.bytes \in Raw /\ End.bytes \in Raw /\ marker.bytes \in Raw
      /\ e.bytes \in Raw
  BY <1>3, <1>4 DEF Instruction
<1> HIDE DEF e
<1>6. /\ n \in Nat /\ DOMAIN ranges = 1 .. n
      /\ Len(ranges') = n + 1 /\ DOMAIN ranges' = 1 .. n + 1
      /\ \A i \in 1 .. n : ranges'[i] = ranges[i]
      /\ ranges'[n + 1] = r /\ ranges' # <<>>
  <2>1. ranges \in Seq(SearchRange) BY DEF TypeOK
  <2>2. r \in SearchRange BY <1>3, <1>4 DEF SearchRange
  <2> HIDE DEF r
  <2> QED BY <1>1, <2>1, <2>2
<1>7. \A i \in 1 .. n : /\ ranges[i].start.bytes \in Raw
                        /\ ranges[i].end.bytes \in Raw
  BY <1>3, <1>6, Domains DEF Instruction
<1>8. \/ /\ ~Launched' /\ marker' = e /\ Precedes(e.bytes, End.bytes)
      \/ /\ Launched' /\ marker' = marker /\ e.bytes = End.bytes
  <2>1. CASE Precedes(e.bytes, End.bytes)
    BY <1>2, <2>1 DEF Split, e, Launched
  <2>2. CASE ~Precedes(e.bytes, End.bytes)
    <3>1. e.bytes = End.bytes BY <1>4, <1>5, <2>2, OrderTotal
    <3>2. marker' = marker /\ StartRunning(ranges')
      BY <2>2 DEF Split, e
    <3>3. status' = [i \in 1 .. n + 1 |-> "unborn"]
      BY <1>6, <3>2 DEF StartRunning
    <3>4. Len(status') = n + 1
      BY <1>6, <3>3
    <3> QED BY <1>6, <3>1, <3>2, <3>4 DEF Launched
  <2> QED BY <2>1, <2>2
<1>9. Reached'.bytes = e.bytes BY <1>1, <1>8 DEF Reached
<1> HIDE DEF n
<1>10. \A i \in 1 .. n + 1 : i \in 1 .. n \/ i = n + 1 BY <1>6
<1>11. MarkerInv'
  <2>1. ~Precedes(e.bytes, marker.bytes) BY <1>4, <1>5, OrderAsymmetric
  <2>2. ~Precedes(marker.bytes, Start.bytes) BY DEF CutInv, MarkerInv
  <2>3. ~Precedes(e.bytes, Start.bytes)
    BY <1>5, <2>1, <2>2, OrderNotBelow
  <2>4. CASE ~Launched' /\ marker' = e /\ Precedes(e.bytes, End.bytes)
    <3>1. e # End BY <1>5, <2>4, OrderAsymmetric
    <3> QED BY <1>1, <1>4, <1>6, <2>3, <2>4, <3>1 DEF MarkerInv
  <2>5. CASE Launched' /\ marker' = marker
    BY <1>1, <1>3, <1>6, <2>2, <2>5 DEF MarkerInv
  <2> QED BY <1>8, <2>4, <2>5
<1>12. PieceInv'
  <2> SUFFICES ASSUME NEW i \in 1 .. n + 1
               PROVE  /\ ranges'[i].start \in Hexed
                      /\ i > 1 => ranges'[i].start.len = LeadingBytes
                      /\ ranges'[i].end \in Hexed \cup {End}
                      /\ ~Precedes(ranges'[i].start.bytes, Start.bytes)
                      /\ ~Precedes(End.bytes, ranges'[i].end.bytes)
                      /\ ~Precedes(e.bytes, ranges'[i].end.bytes)
                      /\ Precedes(Start.bytes, End.bytes) =>
                           Precedes(ranges'[i].start.bytes,
                                    ranges'[i].end.bytes)
    BY <1>1, <1>6, <1>9 DEF PieceInv
  <2>1. CASE i \in 1 .. n
    <3>1. ranges'[i] = ranges[i] /\ i \in DOMAIN ranges BY <1>6, <2>1
    <3>2. ~Precedes(marker.bytes, ranges[i].end.bytes)
      BY <1>2, <3>1 DEF CutInv, PieceInv
    <3>3. ~Precedes(e.bytes, marker.bytes) BY <1>4, <1>5, OrderAsymmetric
    <3>4. ~Precedes(e.bytes, ranges[i].end.bytes)
      BY <1>5, <1>7, <2>1, <3>2, <3>3, OrderNotBelow
    <3> QED BY <3>1, <3>4 DEF CutInv, PieceInv
  <2>2. CASE i = n + 1
    <3>1. ranges'[i].start = marker /\ ranges'[i].end = e BY <1>6, <2>2
    <3>2. i > 1 => marker.len = LeadingBytes
      <4>1. i > 1 => ranges # <<>> BY <1>6, <2>2 DEF n
      <4> QED BY <1>2, <4>1 DEF CutInv, MarkerInv
    <3>3. ~Precedes(marker.bytes, Start.bytes) BY DEF CutInv, MarkerInv
    <3>4. ~Precedes(e.bytes, e.bytes) BY <1>5, OrderAsymmetric
    <3> QED BY <1>3, <1>4, <3>1, <3>2, <3>3, <3>4
  <2> QED BY <1>10, <2>1, <2>2
<1>13. OrderInv'
  <2> SUFFICES ASSUME NEW i \in 1 .. n + 1, NEW j \in 1 .. n + 1, i < j
               PROVE  ~Precedes(ranges'[j].start.bytes, ranges'[i].end.bytes)
    BY <1>6 DEF OrderInv
  <2>1. i \in 1 .. n BY <1>6
  <2>2. CASE j \in 1 .. n BY <1>6, <2>1, <2>2 DEF CutInv, OrderInv
  <2>3. CASE j = n + 1
    <3>1. ranges'[j].start = marker /\ ranges'[i] = ranges[i]
      BY <1>6, <2>1, <2>3
    <3> QED BY <1>2, <1>6, <2>1, <3>1 DEF CutInv, PieceInv
  <2> QED BY <1>10, <2>2, <2>3
<1>14. ReachInv'
  <2> SUFFICES ASSUME NEW b \in Raw, ~Precedes(b, Start.bytes),
                      Precedes(b, e.bytes)
               PROVE  \E i \in 1 .. n + 1 : Within(b, ranges'[i])
    BY <1>1, <1>6, <1>9 DEF ReachInv, Within
  <2>1. CASE Precedes(b, marker.bytes)
    <3>1. PICK i \in 1 .. n : Within(b, ranges[i])
      BY <1>2, <1>6, <2>1 DEF CutInv, ReachInv
    <3>2. i \in 1 .. n + 1 BY <1>6
    <3> QED BY <1>6, <3>1, <3>2
  <2>2. CASE ~Precedes(b, marker.bytes)
    <3>1. Within(b, r) BY <2>2 DEF Within
    <3>2. n + 1 \in 1 .. n + 1 BY <1>6
    <3> QED BY <1>6, <3>1, <3>2
  <2> QED BY <2>1, <2>2
<1>15. ChainInv'
  <2>1. ranges'[1].start = Start
    <3>1. CASE n = 0
      <4>1. ranges = <<>> BY <3>1 DEF n, TypeOK
      <4>2. marker = Start BY <4>1 DEF CutInv, MarkerInv
      <4>3. ranges'[1] = r BY <1>6, <3>1
      <4> QED BY <4>2, <4>3
    <3>2. CASE n # 0
      <4>1. ranges # <<>> /\ 1 \in 1 .. n BY <1>6, <3>2 DEF n
      <4> QED BY <1>6, <4>1 DEF CutInv, ChainInv
    <3> QED BY <3>1, <3>2
  <2>2. ASSUME NEW i \in 1 .. n
        PROVE  ranges'[i].end = ranges'[i + 1].start
    <3>1. CASE i = n
      <4>1. ranges # <<>> BY <1>6, <2>2 DEF n
      <4>2. ranges[n].end = marker
        BY <1>2, <4>1 DEF CutInv, MarkerInv, n
      <4> QED BY <1>6, <2>2, <3>1, <4>2
    <3>2. CASE i # n
      <4>1. i \in 1 .. n - 1 /\ i + 1 \in 1 .. n BY <1>6, <3>2
      <4>2. ranges[i].end = ranges[i + 1].start
        BY <4>1 DEF CutInv, ChainInv, n
      <4> QED BY <1>6, <4>1, <4>2
    <3> QED BY <3>1, <3>2
  <2>3. Launched' => e.bytes = End.bytes BY <1>8
  <2>4. ranges'[n + 1].end = e /\ (n + 1) - 1 = n BY <1>6
  <2> QED BY <1>1, <1>6, <2>1, <2>2, <2>3, <2>4 DEF ChainInv
<1> QED BY <1>11, <1>12, <1>13, <1>14, <1>15 DEF CutInv

(* A range that is empty is its only piece.                                  *)
LEMMA SplitEmptyCuts ==
  ASSUME TypeOK, StageInv, CutInv, SplitEmpty
  PROVE  CutInv'
<1> DEFINE r == [start |-> Start, end |-> End]
<1>1. /\ Start' = Start /\ End' = End /\ LeadingBytes' = LeadingBytes
      /\ ranges' = <<r>> /\ marker' = marker /\ marker = Start
      /\ ~Precedes(Start.bytes, End.bytes)
  BY DEF SplitEmpty, Start, End, LeadingBytes, CutInv, MarkerInv
<1>2. /\ Start \in Hexed /\ End \in Instruction
      /\ Start.bytes \in Raw /\ End.bytes \in Raw
  BY ConfType DEF TypeOK, StageInv, Hexed, Instruction
<1>3. /\ ~Precedes(Start.bytes, Start.bytes)
      /\ ~Precedes(End.bytes, End.bytes)
  BY <1>2, OrderAsymmetric
<1>4. Launched'
  <2>1. status' = [i \in DOMAIN ranges' |-> "unborn"]
    BY DEF SplitEmpty, StartRunning
  <2>2. status' = [i \in 1 .. 1 |-> "unborn"] BY <1>1, <2>1
  <2>3. Len(status') = 1 BY <2>2
  <2> QED BY <2>3 DEF Launched
<1>5. Reached' = End BY <1>1, <1>4 DEF Reached
<1>6. /\ ranges' # <<>> /\ Len(ranges') = 1 /\ DOMAIN ranges' = {1}
      /\ ranges'[1] = r
  <2> HIDE DEF r
  <2> QED BY <1>1
<1>7. MarkerInv' BY <1>1, <1>2, <1>3, <1>4, <1>6 DEF MarkerInv
<1>8. PieceInv' BY <1>1, <1>2, <1>3, <1>5, <1>6 DEF PieceInv
<1>9. OrderInv' BY <1>6 DEF OrderInv
<1>10. ReachInv' BY <1>1, <1>5, <1>6 DEF ReachInv, Within
<1>11. ChainInv' BY <1>1, <1>4, <1>6 DEF ChainInv
<1> QED BY <1>7, <1>8, <1>9, <1>10, <1>11 DEF CutInv

LEMMA CutStep ==
  ASSUME TypeOK, StageInv, CutInv, [Next]_vars
  PROVE  CutInv'
<1>1. CASE Cutting BY <1>1, SplitCuts, SplitEmptyCuts DEF Cutting
<1>2. CASE ~Cutting
  <2>1. /\ conf' = conf /\ marker' = marker /\ ranges' = ranges
        /\ Launched' <=> Launched
    BY <1>2, NotCutting DEF splitting
  <2>2. /\ Start' = Start /\ End' = End /\ LeadingBytes' = LeadingBytes
        /\ Reached' = Reached
    BY <2>1 DEF Start, End, LeadingBytes, Reached
  <2>3. MarkerInv' BY <2>1, <2>2 DEF CutInv, MarkerInv
  <2>4. PieceInv' BY <2>1, <2>2 DEF CutInv, PieceInv
  <2>5. OrderInv' BY <2>1, <2>2 DEF CutInv, OrderInv
  <2>6. ReachInv' BY <2>1, <2>2 DEF CutInv, ReachInv, Within
  <2>7. ChainInv' BY <2>1, <2>2 DEF CutInv, ChainInv
  <2> QED BY <2>3, <2>4, <2>5, <2>6, <2>7 DEF CutInv
<1> QED BY <1>1, <1>2

-----------------------------------------------------------------------------
LEMMA PoolStep ==
  ASSUME TypeOK, StageInv, PoolInv, [Next]_vars
  PROVE  PoolInv'
<1>1. /\ conf.jobs \in Nat /\ active \in Seq(1 .. Len(ranges))
      /\ Len(active) \in Nat /\ next \in Nat
  BY ConfType DEF TypeOK, StageInv
<1>2. /\ status \in Seq(Statuses) /\ rest \in Seq(SUBSET Raw)
      /\ DOMAIN rest = DOMAIN status
      /\ Len(ranges) \in Nat /\ DOMAIN ranges = 1 .. Len(ranges)
      /\ Launched => DOMAIN status = DOMAIN ranges
      /\ DOMAIN status \subseteq Nat
  <2>1. DOMAIN status = 1 .. Len(status) /\ Len(status) \in Nat
    BY DEF TypeOK
  <2>2. DOMAIN status \subseteq Nat BY <2>1
  <2> QED BY <2>2, Domains
<1>3. CASE Cutting
  <2>1. /\ conf' = conf /\ active' = active /\ next' = 1 /\ active = <<>>
        /\ status = <<>>
        /\ \/ status' = status
           \/ /\ DOMAIN status' = DOMAIN ranges'
              /\ ranges' \in Seq(SearchRange)
              /\ \A i \in DOMAIN status' : status'[i] = "unborn"
    BY <1>3, CuttingStep
  <2>2. \A i \in DOMAIN status' : i >= 1 /\ status'[i] = "unborn"
    <3>1. CASE status' = status BY <2>1, <3>1
    <3>2. CASE status' # status
      <4>1. DOMAIN status' = 1 .. Len(ranges') BY <2>1, <3>2
      <4> QED BY <2>1, <3>2, <4>1
    <3> QED BY <3>1, <3>2
  <2>3. Len(active') <= conf'.jobs BY <1>1, <2>1
  <2> QED BY <2>1, <2>2, <2>3 DEF PoolInv
<1>4. CASE /\ UNCHANGED <<conf, next, active, status, rest>>
  BY <1>4 DEF PoolInv
<1>5. CASE Spawn
  <2>1. /\ conf' = conf /\ active' = Append(active, next)
        /\ status' = [status EXCEPT ![next] = "running"]
        /\ rest' = [rest EXCEPT ![next] = WorkerSet(read'[next])]
        /\ next' = next + 1 /\ Len(active) < conf.jobs
    BY <1>5 DEF Spawn, Spawning, splitting
  <2>2. /\ Len(active') = Len(active) + 1
        /\ DOMAIN active' = 1 .. Len(active) + 1
        /\ \A k \in 1 .. Len(active) : active'[k] = active[k]
        /\ active'[Len(active) + 1] = next
    BY <1>1, <2>1
  <2>3. Len(active') <= conf'.jobs BY <1>1, <2>1, <2>2
  <2>4. ASSUME NEW i \in DOMAIN status'
        PROVE  /\ status'[i] = "unborn" <=> i >= next'
               /\ status'[i] \in {"running", "failed"} =>
                    \E k \in DOMAIN active' : active'[k] = i
               /\ status'[i] = "succeeded" => rest'[i] = {}
    <3>1. i \in DOMAIN status /\ i \in Nat BY <1>2, <2>1
    <3>2. CASE i = next
      <4>1. status'[i] = "running" /\ ~(i >= next')
        BY <1>1, <2>1, <3>1, <3>2
      <4>2. Len(active) + 1 \in DOMAIN active' BY <1>1, <2>2
      <4> QED BY <2>2, <3>2, <4>1, <4>2
    <3>3. CASE i # next
      <4>1. status'[i] = status[i] /\ rest'[i] = rest[i]
        BY <1>2, <2>1, <3>1, <3>3
      <4>2. i >= next' <=> i >= next BY <1>1, <2>1, <3>1, <3>3
      <4>3. ASSUME NEW k \in DOMAIN active, active[k] = i
            PROVE  k \in DOMAIN active' /\ active'[k] = i
        <5>1. k \in 1 .. Len(active) BY <1>1
        <5> QED BY <1>1, <2>2, <4>3, <5>1
      <4> QED BY <3>1, <4>1, <4>2, <4>3 DEF PoolInv
    <3> QED BY <3>2, <3>3
  <2> QED BY <2>3, <2>4 DEF PoolInv
<1>6. CASE Reap
  <2>1. /\ UNCHANGED <<conf, next, status, rest>> /\ active' = Tail(active)
        /\ active # <<>> /\ status[Head(active)] = "succeeded"
    BY <1>6 DEF Reap, splitting, workers
  <2>2. /\ Len(active) >= 1 /\ Len(active') = Len(active) - 1
        /\ DOMAIN active' = 1 .. Len(active) - 1
        /\ \A k \in 1 .. Len(active) - 1 : active'[k] = active[k + 1]
        /\ Head(active) = active[1] /\ DOMAIN active = 1 .. Len(active)
    BY <1>1, <2>1
  <2>3. Len(active') <= conf'.jobs BY <1>1, <2>1, <2>2 DEF PoolInv
  <2>4. ASSUME NEW i \in DOMAIN status, status[i] \in {"running", "failed"}
        PROVE  \E k \in DOMAIN active' : active'[k] = i
    <3>1. PICK k \in DOMAIN active : active[k] = i BY <2>4 DEF PoolInv
    <3>2. k # 1 BY <2>1, <2>2, <2>4, <3>1
    <3>3. k - 1 \in 1 .. Len(active) - 1 /\ (k - 1) + 1 = k
      BY <1>1, <2>2, <3>1, <3>2
    <3> QED BY <2>2, <3>1, <3>3
  <2> QED BY <2>1, <2>3, <2>4 DEF PoolInv
<1>7. ASSUME NEW i \in DOMAIN status, Worker(i)
      PROVE  PoolInv'
  <2>1. /\ UNCHANGED <<conf, next, active>> /\ status[i] = "running"
        /\ DOMAIN status' = DOMAIN status
        /\ \A j \in DOMAIN status : j # i => status'[j] = status[j]
                                             /\ rest'[j] = rest[j]
        /\ status'[i] \in {"running", "succeeded", "failed"}
        /\ status'[i] = "succeeded" => rest'[i] = {}
    <3>1. CASE Report(i)
      BY <1>2, <3>1 DEF Report, splitting, pool
    <3>2. CASE Exit(i) BY <1>2, <3>2 DEF Exit, splitting, pool
    <3>3. CASE Die(i) BY <1>2, <3>3 DEF Die, splitting, pool
    <3> QED BY <1>7, <3>1, <3>2, <3>3 DEF Worker
  <2>2. /\ Len(active') <= conf'.jobs /\ ~(i >= next')
        /\ \E k \in DOMAIN active' : active'[k] = i
    BY <2>1 DEF PoolInv
  <2>3. ASSUME NEW j \in DOMAIN status
        PROVE  /\ status'[j] = "unborn" <=> j >= next'
               /\ status'[j] \in {"running", "failed"} =>
                    \E k \in DOMAIN active' : active'[k] = j
               /\ status'[j] = "succeeded" => rest'[j] = {}
    <3>1. CASE j = i BY <2>1, <2>2, <3>1
    <3>2. CASE j # i BY <2>1, <3>2 DEF PoolInv
    <3> QED BY <3>1, <3>2
  <2> QED BY <2>1, <2>2, <2>3 DEF PoolInv
<1>8. CASE \/ Usage \/ Alone \/ RefuseMode \/ Supervise \/ SpawnFails
           \/ ReapFailed \/ Finish \/ UNCHANGED vars
  BY <1>4, <1>8 DEF Usage, Alone, RefuseMode, Supervise, SpawnFails,
     ReapFailed, Finish, vars, splitting, pool, workers
<1> QED BY <1>3, <1>5, <1>6, <1>7, <1>8 DEF Next, Supervisor, Cutting

(* A worker that is started has read what it was meant to.                   *)
LEMMA SpawnReads ==
  ASSUME TypeOK, StageInv, Spawn
  PROVE  /\ next \in DOMAIN status /\ next \in DOMAIN ranges
         /\ read'[next] = {[conf EXCEPT !.start = Parsed(ranges[next].start),
                                        !.end = Parsed(ranges[next].end),
                                        !.jobs = 1, !.worker = TRUE]}
         /\ \A i \in DOMAIN status : i # next => read'[i] = read[i]
<1>1. /\ next <= Len(ranges) /\ Launched /\ next \in Nat /\ next >= 1
      /\ read' = [read EXCEPT ![next] = Read(next)]
  BY DEF Spawn, Spawning, Pending, StageInv, TypeOK
<1>2. /\ next \in DOMAIN ranges /\ next \in DOMAIN status
      /\ next \in DOMAIN read /\ DOMAIN read = DOMAIN status
      /\ ranges[next].start \in Instruction
      /\ ranges[next].end \in Instruction
  <2>1. next \in 1 .. Len(ranges) BY <1>1, Domains
  <2> QED BY <1>1, <2>1, Domains
<1>3. /\ args \in Seq(Argument) /\ Accepted(args) /\ conf = ConfigOf(args)
  BY <1>1, ConfType DEF TypeOK, StageInv, Configured
<1> DEFINE line == WorkerArgs(args, ranges[next])
<1>4. /\ Accepted(line)
      /\ ConfigOf(line) = [conf EXCEPT !.start = Parsed(ranges[next].start),
                                       !.end = Parsed(ranges[next].end),
                                       !.jobs = 1, !.worker = TRUE]
  BY <1>2, <1>3, WorkerConfig
<1> HIDE DEF line
<1>5. Read(next) = {ConfigOf(line)}
  <2>1. Read(next) = {ConfigOf(l) : l \in {a \in {line} : Accepted(a)}}
    BY DEF Read, line
  <2>2. {a \in {line} : Accepted(a)} = {line} BY <1>4
  <2> QED BY <2>1, <2>2
<1>6. read'[next] = {ConfigOf(line)} BY <1>1, <1>2, <1>5
<1>7. \A i \in DOMAIN status : i # next => read'[i] = read[i]
  BY <1>1, <1>2
<1> QED BY <1>2, <1>4, <1>6, <1>7

LEMMA AlikeStep ==
  ASSUME TypeOK, StageInv, WorkersSearchAlike, [Next]_vars
  PROVE  WorkersSearchAlike'
<1>1. CASE Cutting
  <2>1. \A i \in DOMAIN status' : status'[i] = "unborn"
    BY <1>1, CuttingStep
  <2> QED BY <2>1 DEF WorkersSearchAlike
<1>2. CASE Spawn
  <2>1. /\ conf' = conf /\ ranges' = ranges
        /\ status' = [status EXCEPT ![next] = "running"]
    BY <1>2 DEF Spawn, splitting
  <2>2. SUFFICES ASSUME NEW i \in DOMAIN status', status'[i] # "unborn"
        PROVE  read'[i] = {[conf EXCEPT !.start = Parsed(ranges[i].start),
                                        !.end = Parsed(ranges[i].end),
                                        !.jobs = 1, !.worker = TRUE]}
    BY <2>1 DEF WorkersSearchAlike
  <2>3. i \in DOMAIN status BY <2>1
  <2>4. CASE i = next BY <1>2, <2>4, SpawnReads
  <2>5. CASE i # next
    <3>1. read'[i] = read[i] BY <1>2, <2>3, <2>5, SpawnReads
    <3>2. status[i] # "unborn" BY <2>1, <2>2, <2>3, <2>5
    <3> QED BY <2>3, <3>1, <3>2 DEF WorkersSearchAlike
  <2> QED BY <2>4, <2>5
<1>3. CASE ~Cutting /\ ~Spawn
  <2>1. conf' = conf /\ ranges' = ranges /\ DOMAIN status' = DOMAIN status
    BY <1>3, NotCutting DEF splitting
  <2>2. read' = read
    BY <1>3 DEF Next, Supervisor, Cutting, Usage, Alone, RefuseMode,
       Supervise, SpawnFails, Reap, ReapFailed, Finish, Worker, Report, Exit,
       Die, vars, workers
  <2>3. \A i \in DOMAIN status : status[i] = "unborn" => status'[i] = "unborn"
    <3>1. CASE status' = status BY <3>1
    <3>2. ASSUME NEW j \in DOMAIN status, Worker(j)
          PROVE  \A i \in DOMAIN status :
                   status[i] = "unborn" => status'[i] = "unborn"
      BY <3>2 DEF Worker, Report, Exit, Die
    <3> QED BY <1>3, <3>1, <3>2
         DEF Next, Supervisor, Cutting, Usage, Alone, RefuseMode,
             Supervise, SpawnFails, Reap, ReapFailed, Finish, vars, workers
  <2>4. \A i \in DOMAIN status :
          status'[i] # "unborn" => status[i] # "unborn"
    BY <2>3
  <2> QED BY <2>1, <2>2, <2>4 DEF WorkersSearchAlike
<1> QED BY <1>1, <1>2, <1>3

LEMMA TypeStep ==
  ASSUME TypeOK, StageInv, CutInv', PoolInv', StageInv', [Next]_vars
  PROVE  TypeOK'
<1>1. args' = args /\ conf' = conf
  <2>1. CASE Cutting BY <2>1, CuttingStep
  <2>2. CASE ~Cutting BY <2>2, NotCutting DEF splitting
  <2> QED BY <2>1, <2>2
<1>2. args' \in CommandLines /\ DOMAIN conf' = DOMAIN Default
      /\ conf'.jobs \in Nat
  BY <1>1, ConfType DEF TypeOK, StageInv
<1>3. /\ status' \in Seq(Statuses) /\ rest' \in Seq(SUBSET Raw)
      /\ DOMAIN read' = DOMAIN rest' /\ ranges' \in Seq(SearchRange)
  <2>1. CASE Cutting
    BY <2>1, CuttingStep DEF TypeOK, Statuses
  <2>2. CASE ~Cutting
    <3>1. DOMAIN read = DOMAIN rest /\ ranges \in Seq(SearchRange)
      BY DEF TypeOK
    <3> QED BY <2>2, <3>1, NotCutting DEF splitting
  <2> QED BY <2>1, <2>2
<1>4. marker' \in Instruction BY DEF CutInv, MarkerInv, Hexed
<1>5. pc' \in {"main", "usage", "alone", "split", "run", "ok", "failed"}
  <2>1. CASE Cutting BY <2>1, CuttingStep
  <2>2. CASE ~Cutting
    BY <2>2 DEF TypeOK, Next, Supervisor, Cutting, Usage, Alone, RefuseMode,
       Supervise, Spawn, SpawnFails, Reap, ReapFailed, Finish, Worker, Report,
       Exit, Die, vars
  <2> QED BY <2>1, <2>2
<1>6. /\ next' \in 1 .. Len(ranges') + 1
      /\ active' \in Seq(1 .. Len(ranges')) /\ printed' \in Nat
  <2>1. /\ next \in 1 .. Len(ranges) + 1 /\ active \in Seq(1 .. Len(ranges))
        /\ printed \in Nat /\ Len(ranges) \in Nat
    BY DEF TypeOK
  <2>2. CASE Cutting
    <3>1. /\ next' = 1 /\ active' = <<>> /\ printed' = printed
          /\ ranges' \in Seq(SearchRange)
      BY <2>2, CuttingStep
    <3> QED BY <2>1, <3>1
  <2>3. CASE ~Cutting
    <3>1. ranges' = ranges BY <2>3, NotCutting DEF splitting
    <3>2. CASE Spawn
      <4>1. /\ next <= Len(ranges) /\ active' = Append(active, next)
            /\ next' = next + 1 /\ printed' = printed
        BY <3>2 DEF Spawn, Spawning, Pending, output
      <4> QED BY <2>1, <3>1, <4>1
    <3>3. CASE Reap
      <4>1. active' = Tail(active) /\ active # <<>> /\ next' = next
            /\ printed' = printed
        BY <3>3 DEF Reap, workers, output
      <4> QED BY <2>1, <3>1, <4>1
    <3>4. CASE ~Spawn /\ ~Reap
      <4>1. UNCHANGED <<next, active>>
            /\ (printed' = printed \/ printed' = printed + 1)
        BY <2>3, <3>4 DEF Next, Supervisor, Cutting, Usage, Alone, RefuseMode,
           Supervise, SpawnFails, ReapFailed, Finish, Worker, Report, Exit,
           Die, vars, workers, output, pool
      <4> QED BY <2>1, <3>1, <4>1
    <3> QED BY <3>2, <3>3, <3>4
  <2> QED BY <2>2, <2>3
<1>7. tried' \subseteq Raw
  <2>1. tried \subseteq Raw BY DEF TypeOK
  <2>2. ASSUME NEW i \in DOMAIN status, Report(i) PROVE tried' \subseteq Raw
    <3>1. rest[i] \subseteq Raw
      <4>1. rest \in Seq(SUBSET Raw) /\ i \in DOMAIN rest
        BY <2>2, Domains DEF TypeOK
      <4> QED BY <4>1
    <3>2. Least(rest[i]) \in rest[i]
      <4>1. rest[i] # {} BY <2>2 DEF Report
      <4>2. \E b \in rest[i] : \A x \in rest[i] : x = b \/ Precedes(b, x)
        BY <3>1, <4>1, FirstExists
      <4> QED BY <4>2 DEF Least
    <3> QED BY <2>1, <2>2, <3>1, <3>2 DEF Report
  <2>3. CASE Cutting BY <2>1, <2>3, CuttingStep
  <2>4. CASE ~Cutting /\ \A i \in DOMAIN status : ~Report(i)
    BY <2>1, <2>4 DEF Next, Supervisor, Cutting, Usage, Alone, RefuseMode,
       Supervise, Spawn, SpawnFails, Reap, ReapFailed, Finish, Worker, Exit,
       Die, vars, workers, output
  <2> QED BY <2>2, <2>3, <2>4
<1>8. Cardinality({i \in DOMAIN status' : status'[i] = "running"})
        <= conf'.jobs
  <2> DEFINE R == {i \in DOMAIN status' : status'[i] = "running"}
  <2>1. \A i \in R : \E k \in DOMAIN active' : active'[k] = i
    BY DEF PoolInv
  <2>2. Len(active') <= conf'.jobs /\ Len(active') \in Nat
    BY <1>6 DEF PoolInv
  <2> HIDE DEF R
  <2>3. Cardinality(R) \in Nat /\ Cardinality(R) <= Len(active')
    BY <1>6, <2>1, ListedBound
  <2>4. Cardinality(R) <= conf'.jobs BY <1>2, <2>2, <2>3
  <2> QED BY <2>4 DEF R
<1> QED BY <1>2, <1>3, <1>4, <1>5, <1>6, <1>7, <1>8 DEF TypeOK, Statuses

-----------------------------------------------------------------------------
(* What the supervisor and its workers have reached is always as SweepInv    *)
(* says, however they are scheduled and whichever of them fail.              *)
THEOREM Invariance == Spec => []SweepInv
<1>1. SweepInv /\ [Next]_vars => SweepInv'
  <2> SUFFICES ASSUME SweepInv, [Next]_vars PROVE SweepInv'
    OBVIOUS
  <2>1. TypeOK /\ StageInv /\ CutInv /\ PoolInv /\ WorkersSearchAlike
    BY DEF SweepInv
  <2>2. StageInv' BY <2>1, StageStep
  <2>3. CutInv' BY <2>1, CutStep
  <2>4. PoolInv' BY <2>1, PoolStep
  <2>5. WorkersSearchAlike' BY <2>1, AlikeStep
  <2>6. TypeOK' BY <2>1, <2>2, <2>3, <2>4, TypeStep
  <2> QED BY <2>2, <2>3, <2>4, <2>5, <2>6 DEF SweepInv
<1> QED BY <1>1, InitInv, PTL DEF Spec

(* Never more than jobs workers run at a time, and every variable of main.rs *)
(* and range.rs has its type.                                                *)
THEOREM TypeCorrect == Spec => []TypeOK
BY Invariance, PTL DEF SweepInv

(* split_search_range tiles the range: no gap, no overlap, no empty piece.   *)
THEOREM PiecesTile == Spec => []RangesTile
<1>1. SweepInv => RangesTile
  <2> SUFFICES ASSUME SweepInv PROVE RangesTile
    OBVIOUS
  <2>1. /\ PieceInv /\ ChainInv /\ StageInv BY DEF SweepInv, CutInv
  <2>2. pc = "run" => Launched BY <2>1 DEF StageInv
  <2>3. \A i \in 1 .. Len(ranges) - 1 :
          ranges[i].end.bytes = ranges[i + 1].start.bytes
    BY <2>1 DEF ChainInv
  <2> QED BY <2>1, <2>2, <2>3 DEF RangesTile, PieceInv, ChainInv
<1> QED BY <1>1, Invariance, PTL

(* A worker reads the command line strip_value_flags and spawn_worker make   *)
(* for it as its supervisor read its own, but for the range.                 *)
THEOREM WorkersReadAlike == Spec => []WorkersSearchAlike
BY Invariance, PTL DEF SweepInv

-----------------------------------------------------------------------------
AllDivide == \A line \in CommandLines : Divisible(line)

(* What a worker searches of a range that can be divided is its share.       *)
LEMMA WorkerShare ==
  ASSUME SweepInv, AllDivide, Launched, NEW i \in DOMAIN ranges
  PROVE  WorkerSet({[conf EXCEPT !.start = Parsed(ranges[i].start),
                                 !.end = Parsed(ranges[i].end),
                                 !.jobs = 1, !.worker = TRUE]}) = Share(i)
<1> DEFINE s == ranges[i].start
           e == ranges[i].end
           c == [conf EXCEPT !.start = Parsed(s), !.end = Parsed(e),
                             !.jobs = 1, !.worker = TRUE]
<1>1. /\ TypeOK /\ StageInv /\ PieceInv /\ ChainInv
  BY DEF SweepInv, CutInv
<1>2. /\ DOMAIN conf = DOMAIN Default /\ Start \in Hexed
      /\ Start.bytes \in Raw /\ End.bytes \in Raw
      /\ Hexed \subseteq Instruction
  BY <1>1, ConfType DEF TypeOK, StageInv, Hexed, Instruction
<1>3. /\ conf = ConfigOf(args) /\ Divisible(args) /\ Accepted(args)
      /\ conf.jobs > 1 /\ ~conf.worker
      /\ conf.mode \notin {"random", "driven"}
  BY <1>1 DEF StageInv, TypeOK, Configured, AllDivide, Parallel
<1>4. /\ End \in Hexed
      /\ Depth(Wanted(conf), Start)
           = Depth(Wanted(conf), [len |-> LeadingBytes])
  BY <1>3 DEF Divisible, End, Start, LeadingBytes
<1>5. s \in Hexed /\ e \in Hexed BY <1>1, <1>4 DEF PieceInv
<1>6. Parsed(s) = s /\ Parsed(e) = e BY <1>2, <1>5, ParsedType
<1>7. c.start = s /\ c.end = e /\ Wanted(c) = Wanted(conf)
  BY <1>2, <1>6 DEF Default, Wanted
<1> HIDE DEF c
<1>8. s # None /\ e # None BY <1>2, <1>5, NoneAssumption
<1>9. s.bytes \in Raw /\ e.bytes \in Raw BY <1>2, <1>5 DEF Instruction
<1>10. Depth(Wanted(conf), s) = Depth(Wanted(conf), Start)
  <2>1. CASE i = 1
    <3>1. ranges # <<>> BY <1>1 DEF StageInv
    <3> QED BY <1>1, <2>1, <3>1 DEF ChainInv
  <2>2. CASE i # 1
    <3>1. i > 1 BY <1>1, <2>2, Domains
    <3>2. s.len = LeadingBytes BY <1>1, <3>1 DEF PieceInv
    <3> QED BY <1>4, <3>2 DEF Depth
  <2> QED BY <2>1, <2>2
<1>11. SearchOf(c) = {b \in Raw : /\ ZeroTail(b, Depth(Wanted(conf), Start))
                                  /\ Within(b, ranges[i])}
  BY <1>7, <1>8, <1>10 DEF SearchOf, StartOf, EndOf, BruteSet, Within
<1>12. ASSUME NEW b \in Raw, Within(b, ranges[i])
       PROVE  ~Precedes(b, Start.bytes) /\ Precedes(b, End.bytes)
  <2>1. ~Precedes(s.bytes, Start.bytes) /\ ~Precedes(End.bytes, e.bytes)
    BY <1>1 DEF PieceInv
  <2>2. ~Precedes(b, s.bytes) /\ Precedes(b, e.bytes)
    BY <1>12 DEF Within
  <2>3. ~Precedes(b, Start.bytes)
    BY <1>2, <1>9, <2>1, <2>2, OrderNotBelow
  <2>4. Precedes(b, End.bytes)
    BY <1>2, <1>9, <2>1, <2>2, OrderTotal, OrderTransitive
  <2> QED BY <2>3, <2>4
<1>13. SearchOf(c) = Share(i)
  BY <1>11, <1>12 DEF Share, Asked, SearchOf, BruteSet, Start, End
<1> QED BY <1>13 DEF WorkerSet, c

(* No candidate is in two pieces.                                            *)
LEMMA SharesApart ==
  ASSUME SweepInv, NEW i \in DOMAIN ranges, NEW j \in DOMAIN ranges, i # j
  PROVE  Share(i) \cap Share(j) = {}
<1>1. TypeOK /\ StageInv /\ OrderInv BY DEF SweepInv, CutInv
<1>2. \A k \in DOMAIN ranges : /\ ranges[k].start.bytes \in Raw
                               /\ ranges[k].end.bytes \in Raw
  BY <1>1, Domains DEF Instruction
<1>3. ASSUME NEW k \in DOMAIN ranges, NEW l \in DOMAIN ranges, k < l,
             NEW b \in Raw, Within(b, ranges[k]), Within(b, ranges[l])
      PROVE  FALSE
  <2>1. ~Precedes(ranges[l].start.bytes, ranges[k].end.bytes)
    BY <1>1, <1>3 DEF OrderInv
  <2>2. Precedes(b, ranges[k].end.bytes) /\ ~Precedes(b, ranges[l].start.bytes)
    BY <1>3 DEF Within
  <2> QED BY <1>2, <2>1, <2>2, OrderNotBelow
<1>4. i < j \/ j < i
  <2>1. i \in Nat /\ j \in Nat BY <1>1, Domains
  <2> QED BY <2>1
<1>5. \A k : Share(k) \subseteq Raw /\ \A b \in Share(k) : Within(b, ranges[k])
  BY DEF Share, Asked, SearchOf, BruteSet
<1> QED BY <1>3, <1>4, <1>5

(* The supervisor succeeds when nothing is left.                             *)
LEMMA FinishCovers ==
  ASSUME SweepInv, CoverInv, Finish
  PROVE  Asked \subseteq tried
<1>1. TypeOK /\ StageInv /\ PoolInv /\ ReachInv BY DEF SweepInv, CutInv
<1>2. /\ Launched /\ ~(next <= Len(ranges)) /\ active = <<>>
  BY <1>1 DEF Finish, Pending, StageInv
<1>3. ASSUME NEW i \in DOMAIN ranges PROVE Share(i) \subseteq tried
  <2>1. i \in DOMAIN status /\ ~(i >= next)
    <3>1. next \in Nat BY <1>1 DEF TypeOK
    <3>2. DOMAIN ranges = 1 .. Len(ranges) /\ Len(ranges) \in Nat
          /\ DOMAIN status = DOMAIN ranges
      BY <1>1, <1>2, Domains
    <3> QED BY <1>2, <3>1, <3>2
  <2>2. status[i] \in Statuses BY <1>1, <2>1, Domains
  <2>3. DOMAIN active = {} BY <1>2
  <2>4. status[i] = "succeeded" /\ rest[i] = {}
    BY <1>1, <2>1, <2>2, <2>3 DEF PoolInv, Statuses
  <2> QED BY <2>1, <2>4 DEF CoverInv
<1>4. ASSUME NEW b \in Asked PROVE b \in tried
  <2>1. /\ b \in Raw /\ ~Precedes(b, Start.bytes)
        /\ Precedes(b, Reached.bytes)
    BY <1>2 DEF Asked, SearchOf, BruteSet, Reached, Start, End
  <2>2. PICK i \in DOMAIN ranges : Within(b, ranges[i])
    BY <1>1, <2>1 DEF ReachInv
  <2>3. b \in Share(i) BY <2>2 DEF Share
  <2> QED BY <1>3, <2>3
<1> QED BY <1>4

LEMMA CoverStep ==
  ASSUME SweepInv, AllDivide, CoverInv, [Next]_vars
  PROVE  CoverInv'
<1>1. /\ TypeOK /\ StageInv /\ PoolInv BY DEF SweepInv
<1>2. Asked' = Asked
  <2>1. CASE Cutting BY <1>1, <2>1, CuttingStep DEF Asked
  <2>2. CASE ~Cutting BY <1>1, <2>2, NotCutting DEF Asked, splitting
  <2> QED BY <2>1, <2>2
<1>3. CASE Cutting
  <2>1. /\ tried = {} /\ tried' = {} /\ pc = "split" /\ status = <<>>
        /\ \/ status' = status /\ pc' = pc
           \/ /\ pc' = "run"
              /\ \A i \in DOMAIN status' : /\ status'[i] = "unborn"
                                           /\ rest'[i] = {}
    BY <1>1, <1>3, CuttingStep
  <2>2. SweepComplete' BY <2>1 DEF SweepComplete
  <2> QED BY <2>1, <2>2 DEF CoverInv
<1>4. CASE ~Cutting
  <2>0. /\ ranges' = ranges /\ DOMAIN status' = DOMAIN status
        /\ \A i : Share(i)' = Share(i)
    BY <1>1, <1>2, <1>4, NotCutting DEF splitting, Share, Within
  <2>1. CASE Spawn
    <3>1. /\ tried' = tried /\ pc' = pc
          /\ status' = [status EXCEPT ![next] = "running"]
          /\ rest' = [rest EXCEPT ![next] = WorkerSet(read'[next])]
      BY <2>1 DEF Spawn, output
    <3>2. /\ next \in DOMAIN status /\ next \in DOMAIN ranges
          /\ DOMAIN rest = DOMAIN status
      BY <1>1, <2>1, SpawnReads, Domains
    <3>3. Launched BY <1>1, <2>1 DEF Spawn, StageInv
    <3>4. rest'[next] = Share(next)
      BY <1>1, <2>1, <3>1, <3>2, <3>3, SpawnReads, WorkerShare
    <3>5. status[next] = "unborn"
      <4>1. next >= next BY <1>1 DEF TypeOK
      <4> QED BY <1>1, <3>2, <4>1 DEF PoolInv
    <3>6. SweepComplete' BY <1>2, <3>1 DEF CoverInv, SweepComplete
    <3>7. ASSUME NEW i \in DOMAIN status
          PROVE  /\ rest'[i] \subseteq Share(i) /\ rest'[i] \cap tried = {}
                 /\ status'[i] = "unborn" => Share(i) \cap tried = {}
                 /\ status'[i] # "unborn" =>
                      Share(i) \subseteq rest'[i] \cup tried
      <4>1. CASE i = next BY <3>1, <3>2, <3>4, <3>5, <4>1 DEF CoverInv
      <4>2. CASE i # next BY <3>1, <3>2, <4>2 DEF CoverInv
      <4> QED BY <4>1, <4>2
    <3>8. tried \subseteq Asked BY DEF CoverInv
    <3> QED BY <1>2, <2>0, <3>1, <3>6, <3>7, <3>8 DEF CoverInv
  <2>2. ASSUME NEW i \in DOMAIN status, Report(i)
        PROVE  CoverInv'
    <3> DEFINE x == Least(rest[i])
    <3>1. /\ tried' = tried \cup {x} /\ pc' = pc /\ status' = status
          /\ rest' = [rest EXCEPT ![i] = @ \ {x}] /\ rest[i] # {}
          /\ status[i] = "running"
      BY <2>2 DEF Report
    <3>2. /\ DOMAIN rest = DOMAIN status /\ DOMAIN status = DOMAIN ranges
          /\ rest \in Seq(SUBSET Raw)
      BY <1>1, <2>2, Domains
    <3>3. x \in rest[i]
      <4>1. rest[i] \subseteq Raw BY <2>2, <3>2
      <4>2. \E b \in rest[i] : \A y \in rest[i] : y = b \/ Precedes(b, y)
        BY <3>1, <4>1, FirstExists
      <4> QED BY <4>2 DEF Least
    <3> HIDE DEF x
    <3>4. x \in Share(i) /\ x \in Asked
      BY <2>2, <3>3 DEF CoverInv, Share
    <3>5. \A j \in DOMAIN status : j # i => x \notin Share(j)
      BY <3>2, <3>4, SharesApart
    <3>6. SweepComplete' BY <1>2, <3>1 DEF CoverInv, SweepComplete
    <3>7. ASSUME NEW j \in DOMAIN status
          PROVE  /\ rest'[j] \subseteq Share(j) /\ rest'[j] \cap tried' = {}
                 /\ status'[j] = "unborn" => Share(j) \cap tried' = {}
                 /\ status'[j] # "unborn" =>
                      Share(j) \subseteq rest'[j] \cup tried'
      <4>0. /\ rest[j] \subseteq Share(j) /\ rest[j] \cap tried = {}
            /\ status[j] = "unborn" => Share(j) \cap tried = {}
            /\ status[j] # "unborn" =>
                 Share(j) \subseteq rest[j] \cup tried
        BY DEF CoverInv
      <4>1. CASE j = i
        <5>1. rest'[j] = rest[j] \ {x} BY <3>1, <3>2, <4>1
        <5> QED BY <3>1, <4>0, <4>1, <5>1
      <4>2. CASE j # i
        <5>1. rest'[j] = rest[j] /\ x \notin Share(j)
          BY <3>1, <3>2, <3>5, <4>2
        <5> QED BY <3>1, <4>0, <5>1
      <4> QED BY <4>1, <4>2
    <3>8. tried' \subseteq Asked BY <3>1, <3>4 DEF CoverInv
    <3> QED BY <1>2, <2>0, <3>6, <3>7, <3>8 DEF CoverInv
  <2>3. CASE Finish
    <3>1. UNCHANGED <<rest, status, tried>>
      BY <2>3 DEF Finish, workers, output
    <3>2. Asked \subseteq tried BY <2>3, FinishCovers
    <3>3. SweepComplete' BY <1>2, <3>1, <3>2 DEF SweepComplete
    <3> QED BY <1>2, <2>0, <3>1, <3>3 DEF CoverInv
  <2>4. CASE ~Spawn /\ ~Finish /\ \A i \in DOMAIN status : ~Report(i)
    <3>1. /\ rest' = rest /\ tried' = tried
          /\ pc' = "ok" => pc = "ok"
          /\ \A i \in DOMAIN status :
               status'[i] = "unborn" <=> status[i] = "unborn"
      <4>1. CASE UNCHANGED vars BY <4>1 DEF vars, workers, output
      <4>2. CASE Supervisor
        BY <1>4, <2>4, <4>2 DEF Supervisor, Cutting, Usage, Alone,
           RefuseMode, Supervise, SpawnFails, Reap, ReapFailed, workers,
           output
      <4>3. ASSUME NEW j \in DOMAIN status, Exit(j) \/ Die(j)
            PROVE  /\ rest' = rest /\ tried' = tried
                   /\ pc' = "ok" => pc = "ok"
                   /\ \A i \in DOMAIN status :
                        status'[i] = "unborn" <=> status[i] = "unborn"
        BY <4>3 DEF Exit, Die, output
      <4> QED BY <2>4, <4>1, <4>2, <4>3 DEF Next, Worker
    <3>2. SweepComplete' BY <1>2, <3>1 DEF CoverInv, SweepComplete
    <3> QED BY <1>2, <2>0, <3>1, <3>2 DEF CoverInv
  <2> QED BY <2>1, <2>2, <2>3, <2>4
<1> QED BY <1>3, <1>4

(* Of ranges that can be divided no candidate is lost, none is given to two  *)
(* workers, and none that nobody asked for is tried.                         *)
THEOREM Covering ==
  ASSUME AllDivide
  PROVE  Spec => []CoverInv
<1>1. Init => CoverInv
  <2> SUFFICES ASSUME Init PROVE CoverInv
    OBVIOUS
  <2>1. status = <<>> /\ tried = {} /\ pc = "main" BY DEF Init
  <2> QED BY <2>1 DEF CoverInv, SweepComplete
<1>2. SweepInv /\ CoverInv /\ [Next]_vars => CoverInv' BY CoverStep
<1> QED BY <1>1, <1>2, Invariance, PTL DEF Spec

(* A parallel search that succeeds has tried all that one process would.     *)
THEOREM NothingIsSkipped ==
  ASSUME AllDivide
  PROVE  Spec => []SweepComplete
BY Covering, PTL DEF CoverInv

-----------------------------------------------------------------------------
(* Every step of the supervisor and its workers is one of the abstract       *)
(* search, or none.                                                          *)
LEMMA SearchStep ==
  ASSUME SweepInv, CoverInv, CoverInv', [Next]_vars
  PROVE  [Search!Next]_(Search!vars)
<1> DEFINE verdict == IF pc = "ok" THEN "complete"
                      ELSE IF pc = "failed" THEN "failed" ELSE "open"
<1>1. /\ TypeOK /\ StageInv BY DEF SweepInv
<1>2. Asked' = Asked
  <2>1. CASE Cutting BY <1>1, <2>1, CuttingStep DEF Asked
  <2>2. CASE ~Cutting BY <1>1, <2>2, NotCutting DEF Asked, splitting
  <2> QED BY <2>1, <2>2
<1>3. ASSUME UNCHANGED <<tried, printed>>, verdict' = verdict
      PROVE  UNCHANGED Search!vars
  BY <1>2, <1>3 DEF Search!vars
<1>4. CASE Cutting
  <2>1. /\ UNCHANGED <<tried, printed>> /\ pc = "split"
        /\ pc' \in {"split", "run"}
    BY <1>1, <1>4, CuttingStep
  <2> QED BY <1>3, <2>1
<1>5. CASE \/ UNCHANGED vars \/ Usage \/ Alone \/ Supervise \/ Spawn \/ Reap
  <2>1. /\ UNCHANGED <<tried, printed>>
        /\ pc' = pc \/ (pc = "main" /\ pc' \in {"usage", "alone", "split"})
    BY <1>5 DEF vars, workers, output, Usage, Alone, Supervise, Spawn, Reap
  <2> QED BY <1>3, <2>1
<1>6. CASE RefuseMode \/ SpawnFails \/ ReapFailed
  <2>1. /\ UNCHANGED <<tried, printed>> /\ pc \in {"main", "run"}
        /\ pc' = "failed"
    BY <1>6 DEF RefuseMode, SpawnFails, ReapFailed, workers, output
  <2>2. Search!GiveUp BY <1>2, <2>1 DEF Search!GiveUp
  <2> QED BY <2>2 DEF Search!Next
<1>7. CASE Finish
  <2>1. /\ UNCHANGED <<tried, printed>> /\ pc = "run" /\ pc' = "ok"
    BY <1>7 DEF Finish, workers, output
  <2>2. tried = Asked
    BY <1>2, <2>1 DEF CoverInv, SweepComplete
  <2>3. Search!Complete BY <1>2, <2>1, <2>2 DEF Search!Complete
  <2> QED BY <2>3 DEF Search!Next
<1>8. ASSUME NEW i \in DOMAIN status, Worker(i)
      PROVE  [Search!Next]_(Search!vars)
  <2>1. CASE Report(i)
    <3> DEFINE x == Least(rest[i])
    <3>1. /\ tried' = tried \cup {x} /\ printed' = printed + 1 /\ pc' = pc
          /\ rest[i] # {}
      BY <2>1 DEF Report
    <3>2. x \in rest[i]
      <4>1. rest[i] \subseteq Raw
        <5>1. rest \in Seq(SUBSET Raw) /\ i \in DOMAIN rest
          BY <1>1, <1>8, Domains
        <5> QED BY <5>1
      <4>2. \E b \in rest[i] : \A y \in rest[i] : y = b \/ Precedes(b, y)
        BY <3>1, <4>1, FirstExists
      <4> QED BY <4>2 DEF Least
    <3> HIDE DEF x
    <3>3. x \in Asked \ tried BY <1>8, <3>2 DEF CoverInv, Share
    <3>4. Search!Try BY <1>2, <3>1, <3>3 DEF Search!Try
    <3> QED BY <3>4 DEF Search!Next
  <2>2. CASE Exit(i) \/ Die(i)
    <3>1. UNCHANGED <<tried, printed>> /\ pc' = pc
      BY <2>2 DEF Exit, Die, output
    <3> QED BY <1>3, <3>1
  <2> QED BY <1>8, <2>1, <2>2 DEF Worker
<1> QED BY <1>4, <1>5, <1>6, <1>7, <1>8 DEF Next, Supervisor, Cutting

(* The supervisor and its workers implement the search of one process: they  *)
(* report what was asked for, nothing twice, and success when all of it is.  *)
THEOREM SweepImplementsCoverage ==
  ASSUME AllDivide
  PROVE  Spec => ImplementsCoverage
<1>1. Init => Search!Init
  <2> SUFFICES ASSUME Init PROVE Search!Init
    OBVIOUS
  <2>1. pc = "main" /\ tried = {} /\ printed = 0 BY DEF Init
  <2>2. Asked \in SUBSET Raw BY DEF Asked, SearchOf, BruteSet
  <2> QED BY <2>1, <2>2 DEF Search!Init
<1>2. SweepInv /\ CoverInv /\ CoverInv' /\ [Next]_vars
        => [Search!Next]_(Search!vars)
  BY SearchStep
<1> QED BY <1>1, <1>2, Invariance, Covering, PTL
     DEF Spec, ImplementsCoverage, Search!Spec
=============================================================================
