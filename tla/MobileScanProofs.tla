-------------------------- MODULE MobileScanProofs --------------------------
(* Proofs about MobileScan, for any number of clients and scans and any      *)
(* configurations.                                                           *)
EXTENDS MobileScan, Integers, TLAPS

(* Who may be where: a client inside next or status holds the SCAN mutex of  *)
(* a slot that is not empty; at most one client joins, and it joins the scan *)
(* in the slot; the slot holds the latest scan; only that one can be alive.  *)
Holding == {"front", "drained", "running", "done", "totals"}
Joining == {"join", "clear"}

SlotInv ==
  /\ \A c \in Clients : cpc[c] \in Holding => guard = c
  /\ guard # NoClient => handle # NoScan
  /\ \A c \in Clients : cpc[c] \in Joining =>
       /\ handle # NoScan
       /\ snap[c].scan = handle
       /\ ~attached
  /\ \A c, d \in Clients :
       cpc[c] \in Joining /\ cpc[d] \in Joining => c = d
  /\ \A c \in Clients : cpc[c] = "clear" => ThreadOver(handle)
  /\ handle # NoScan => handle = started
  /\ handle = NoScan => ~attached
  /\ \A s \in Scans : s > started <=> wpc[s] = "unborn"
  /\ OneWorker

(* What the worker knows of its own scan, and what the stream looks like.    *)
LineOf(s) ==
  /\ wpc[s] \in {"unborn", "open"} =>
       /\ emitted[s] = 0 /\ notice[s] = 0 /\ received[s] = 0
       /\ queue[s] = <<>>
  /\ wpc[s] \in {"probe", "count", "push"} => HasRoom(s)
  /\ wpc[s] \in {"room", "probe", "count"} => ~Exhausted(s)
  /\ wpc[s] = "push" => emitted[s] > 0
  /\ done[s] => wpc[s] = "exited"
  /\ Len(queue[s]) <= conf[s].cap
  /\ Instructions(s) /\ conf[s].max # 0 => emitted[s] <= conf[s].max

LineInv == \A s \in Scans : LineOf(s)

(* What a client has read stays true while it holds the queue mutex.         *)
ReadInv ==
  \A c \in Clients :
    /\ cpc[c] \in {"drained", "running", "done", "totals"} => qlock[handle] = c
    /\ cpc[c] = "drained" => queue[handle] = <<>>
    /\ cpc[c] \in {"done", "totals"} /\ ~snap[c].running => done[handle]
    /\ cpc[c] = "totals" => /\ snap[c].running \/ snap[c].done
                            /\ snap[c].done => done[handle]

-----------------------------------------------------------------------------
(* Sequences of consecutive line numbers stay consecutive when the next one  *)
(* is appended and when the head is taken.                                   *)
LEMMA AppendConsecutive ==
  ASSUME NEW q \in Seq(Nat), NEW before \in Int, NEW n \in Nat,
         Consecutive(q, before), n = before + Len(q) + 1
  PROVE  Consecutive(Append(q, n), before)
BY DEF Consecutive

(* What is left when the head is taken is consecutive from one later.        *)
LEMMA TailConsecutive ==
  ASSUME NEW q \in Seq(Nat), q # <<>>, NEW before \in Int,
         Consecutive(q, before)
  PROVE  Consecutive(Tail(q), before + 1)
<1>1. Len(Tail(q)) = Len(q) - 1 /\ Len(q) \in Nat OBVIOUS
<1>2. ASSUME NEW i \in 1 .. Len(Tail(q)) PROVE Tail(q)[i] = (before + 1) + i
  <2>1. i + 1 \in 1 .. Len(q) BY <1>1
  <2>2. Tail(q)[i] = q[i + 1] BY <1>1
  <2> QED BY <2>1, <2>2 DEF Consecutive
<1> QED BY <1>2 DEF Consecutive

(* The lengths of a queue after a push and after a pop.                      *)
LEMMA AppendTailLength ==
  ASSUME NEW q \in Seq(Nat), NEW n \in Nat
  PROVE  /\ Len(Append(q, n)) = Len(q) + 1
         /\ q # <<>> => Len(Tail(q)) = Len(q) - 1
OBVIOUS

(* The line numbers of a queue, counted from the first line of the scan.     *)
Shift(q, z) == [i \in 1 .. Len(q) |-> q[i] + z]

(* Two sequences with the same length and elements are equal.                *)
LEMMA SameSeq ==
  ASSUME NEW p \in Seq(Nat), NEW q \in Seq(Nat), Len(p) = Len(q),
         \A i \in 1 .. Len(p) : p[i] = q[i]
  PROVE  p = q
OBVIOUS

(* Renumbering an empty queue gives an empty queue.                          *)
LEMMA ShiftEmpty == \A z \in Nat : Shift(<<>>, z) = <<>>
BY DEF Shift

(* Renumbering keeps the length of a queue.                                  *)
LEMMA ShiftSeq ==
  ASSUME NEW q \in Seq(Nat), NEW z \in Nat
  PROVE  Shift(q, z) \in Seq(Nat) /\ Len(Shift(q, z)) = Len(q)
BY DEF Shift

(* Renumbering commutes with a push.                                         *)
LEMMA ShiftAppend ==
  ASSUME NEW q \in Seq(Nat), NEW z \in Nat, NEW n \in Nat
  PROVE  Shift(Append(q, n), z) = Append(Shift(q, z), n + z)
<1>1. /\ Append(q, n) \in Seq(Nat) /\ Len(Append(q, n)) = Len(q) + 1
      /\ Len(q) \in Nat
  OBVIOUS
<1>2. Append(Shift(q, z), n + z) \in Seq(Nat)
      /\ Len(Append(Shift(q, z), n + z)) = Len(q) + 1
  BY ShiftSeq
<1>3. ASSUME NEW i \in 1 .. Len(q) + 1
      PROVE  Shift(Append(q, n), z)[i] = Append(Shift(q, z), n + z)[i]
  BY <1>1, ShiftSeq DEF Shift
<1>4. Shift(Append(q, n), z) \in Seq(Nat)
      /\ Len(Shift(Append(q, n), z)) = Len(q) + 1
  BY <1>1, ShiftSeq
<1> QED BY <1>2, <1>3, <1>4

(* Renumbering commutes with a pop.                                          *)
LEMMA ShiftTail ==
  ASSUME NEW q \in Seq(Nat), q # <<>>, NEW z \in Nat
  PROVE  Shift(Tail(q), z) = Tail(Shift(q, z)) /\ Shift(q, z) # <<>>
<1>1. Tail(q) \in Seq(Nat) /\ Len(Tail(q)) = Len(q) - 1 /\ Len(q) \in Nat \ {0}
  OBVIOUS
<1>2. Shift(q, z) \in Seq(Nat) /\ Len(Shift(q, z)) = Len(q) /\ Shift(q, z) # <<>>
  BY <1>1, ShiftSeq
<1>3. Tail(Shift(q, z)) \in Seq(Nat) /\ Len(Tail(Shift(q, z))) = Len(q) - 1
  BY <1>1, <1>2
<1>4. Shift(Tail(q), z) \in Seq(Nat) /\ Len(Shift(Tail(q), z)) = Len(q) - 1
  BY <1>1, ShiftSeq
<1>5. ASSUME NEW i \in 1 .. Len(q) - 1
      PROVE  Shift(Tail(q), z)[i] = Tail(Shift(q, z))[i]
  <2>1. Tail(q)[i] = q[i + 1] /\ i + 1 \in 1 .. Len(q) BY <1>1
  <2>2. Tail(Shift(q, z))[i] = Shift(q, z)[i + 1] BY <1>1, <1>2
  <2> QED BY <1>1, <2>1, <2>2 DEF Shift
<1>6. \A i \in 1 .. Len(Shift(Tail(q), z)) :
        Shift(Tail(q), z)[i] = Tail(Shift(q, z))[i]
  BY <1>4, <1>5
<1>7. Len(Shift(Tail(q), z)) = Len(Tail(Shift(q, z))) BY <1>3, <1>4
<1> QED BY <1>2, <1>3, <1>4, <1>6, <1>7, SameSeq

(* A pop keeps a queue within its capacity.                                  *)
LEMMA TailShorter ==
  ASSUME NEW q \in Seq(Nat), q # <<>>, NEW cap \in Nat, Len(q) <= cap
  PROVE  Len(Tail(q)) <= cap /\ (Len(q) < cap => Len(Tail(q)) < cap)
OBVIOUS

(* What the assumptions say of the constants.                                *)
LEMMA ConstantTypes == /\ MaxScans \in Nat
                       /\ Configs \subseteq ConfigType
                       /\ \A config \in Configs : config.cap > 0
BY ConfigAssumption, BoundAssumption

(* The placeholder of a scan not yet started is a configuration.             *)
LEMMA UnstartedType == Unstarted \in ConfigType /\ Unstarted.cap > 0
BY DEF Unstarted, ConfigType, Modes

(* Overwriting one field of what a client has read keeps its type.           *)
LEMMA SnapUpdate ==
  ASSUME NEW r \in SnapType,
         NEW b \in BOOLEAN, NEW s \in Scans \cup {NoScan}
  PROVE  /\ [r EXCEPT !.running = b] \in SnapType
         /\ [r EXCEPT !.done = b] \in SnapType
         /\ [r EXCEPT !.scan = s] \in SnapType
BY DEF SnapType

(* What a client reads as running is what it remembers.                      *)
LEMMA SnapRunning ==
  ASSUME NEW r \in SnapType, NEW b \in BOOLEAN
  PROVE  [r EXCEPT !.running = b].running = b
BY DEF SnapType

(* A client that has read nothing is well typed.                             *)
LEMMA NoSnapType == NoSnap \in SnapType
BY DEF NoSnap, SnapType

(* Every variable starts within its type.                                    *)
LEMMA TypeInit == Init => TypeOK
<1> SUFFICES ASSUME Init PROVE TypeOK
  OBVIOUS
<1>1. /\ NoSnap \in SnapType
      /\ "unborn" \in WorkerPCs /\ "idle" \in ClientPCs
      /\ <<>> \in Seq(Nat) /\ 0 \in 0 .. MaxScans
  BY ConstantTypes DEF NoSnap, SnapType, WorkerPCs, ClientPCs
<1> QED BY <1>1, UnstartedType DEF Init, TypeOK

(* Every step keeps every variable within its type.                          *)
LEMMA TypeNext == TypeOK /\ SlotInv /\ [Next]_vars => TypeOK'
<1> SUFFICES ASSUME TypeOK, SlotInv, [Next]_vars PROVE TypeOK'
  OBVIOUS
<1> USE DEF TypeOK, slot, flags, counters, channel, clients
<1>1. ASSUME NEW s \in Scans, Worker(s) PROVE TypeOK'
  <2> USE DEF WorkerGoto, WorkerPCs
  <2>1. CASE BackendReady(s) BY <2>1 DEF BackendReady
  <2>2. CASE BackendMissing(s) BY <2>2 DEF BackendMissing
  <2>3. CASE BackendFallback(s) BY <2>3, SMTT(40) DEF BackendFallback, PushLine
  <2>4. CASE CheckStop(s) BY <2>4 DEF CheckStop
  <2>5. CASE CheckRoom(s) BY <2>5 DEF CheckRoom
  <2>6. CASE Executed(s)
    <3>1. last' \in [Scans -> Nat]
      <4>1. CASE ~Instructions(s) BY <2>6, <4>1 DEF Executed
      <4>2. CASE Instructions(s) BY <2>6, <4>2 DEF Executed
      <4> QED BY <4>1, <4>2
    <3> QED BY <2>6, <3>1 DEF Executed
  <2>7. CASE SkippedEvent(s) BY <2>7, SMTT(40) DEF SkippedEvent
  <2>8. CASE RangeEnd(s) BY <2>8 DEF RangeEnd
  <2>9. CASE ProbeError(s) BY <2>9 DEF ProbeError
  <2>10. CASE ProbePanic(s) BY <2>10 DEF ProbePanic
  <2>11. CASE CountLine(s) BY <2>11, SMTT(40) DEF CountLine
  <2>12. CASE QueueLine(s) BY <2>12, SMTT(40) DEF QueueLine, PushLine
  <2>13. CASE Finish(s) BY <2>13 DEF Finish
  <2>14. CASE SandboxMissing(s) BY <2>14 DEF SandboxMissing
  <2> QED BY <1>1, <2>1, <2>2, <2>3, <2>4, <2>5, <2>6, <2>7, <2>8, <2>9, <2>10, <2>11, <2>12, <2>13, <2>14 DEF Worker
<1>2. ASSUME NEW c \in Clients, Client(c) PROVE TypeOK'
  <2> USE DEF ClientGoto, ClientPCs, CanEnter, SlotInv, Holding, Joining, NoScan
  <2>1. ASSUME NEW config \in Configs, Start(c, config) PROVE TypeOK'
    <3>1. started' \in Scans /\ started' \in 0 .. MaxScans
      BY <2>1, ConstantTypes DEF Start, Scans
    <3>2. config \in ConfigType /\ config.cap > 0 BY <2>1, ConstantTypes
    <3>3. conf' \in [Scans -> ConfigType] BY <2>1, <3>1, <3>2 DEF Start
    <3>4. \A s \in Scans : conf'[s].cap > 0 BY <2>1, <3>1, <3>2 DEF Start
    <3>5. wpc' \in [Scans -> WorkerPCs] BY <2>1, <3>1 DEF Start, WorkerPCs
    <3> QED BY <2>1, <3>1, <3>3, <3>4, <3>5 DEF Start
  <2>2. CASE NextEnter(c) BY <2>2 DEF NextEnter
  <2>3. CASE NextLine(c)
    <3>1. handle \in Scans BY <2>3, ClientAssumption DEF NextLine
    <3>2. Tail(queue[handle]) \in Seq(Nat) BY <2>3, <3>1 DEF NextLine
    <3>3. queue' \in [Scans -> Seq(Nat)] BY <2>3, <3>2 DEF NextLine
    <3> QED BY <2>3, <3>3, SMTT(40) DEF NextLine
  <2>4. CASE NextTooSmall(c) BY <2>4 DEF NextTooSmall
  <2>5. CASE NextEmpty(c) BY <2>5 DEF NextEmpty
  <2>6. CASE NextEnd(c) BY <2>6 DEF NextEnd, Leave
  <2>7. CASE NextWait(c) BY <2>7 DEF NextWait, Leave
  <2>8. CASE StatusEnter(c) BY <2>8 DEF StatusEnter
  <2>9. CASE StatusRunning(c)
    <3>1. handle \in Scans BY <2>9, ClientAssumption DEF StatusRunning
    <3>2. (~done[handle]) \in BOOLEAN BY <3>1
    <3>3. [snap[c] EXCEPT !.running = (~done[handle])]
            \in SnapType
      BY <3>2, SnapUpdate
    <3>4. snap' = [snap EXCEPT ![c] = [snap[c] EXCEPT !.running = (~done[handle])]]
      BY <2>9 DEF StatusRunning
    <3>5. snap' \in [Clients -> SnapType]
      BY <3>3, <3>4
    <3> QED BY <2>9, <3>5 DEF StatusRunning
  <2>10. CASE StatusDone(c)
    <3>1. handle \in Scans BY <2>10, ClientAssumption DEF StatusDone
    <3>2. done[handle] \in BOOLEAN BY <3>1
    <3>3. [snap[c] EXCEPT !.done = done[handle]]
            \in SnapType
      BY <3>2, SnapUpdate
    <3>4. snap' = [snap EXCEPT ![c] = [snap[c] EXCEPT !.done = done[handle]]]
      BY <2>10 DEF StatusDone
    <3>5. snap' \in [Clients -> SnapType]
      BY <3>3, <3>4
    <3> QED BY <2>10, <3>5 DEF StatusDone
  <2>11. CASE StatusTotals(c) BY <2>11, NoSnapType DEF StatusTotals, Leave
  <2>12. CASE StopJoining(c)
    <3>1. [snap[c] EXCEPT !.scan = handle]
            \in SnapType
      BY SnapUpdate
    <3>2. snap' = [snap EXCEPT ![c] = [snap[c] EXCEPT !.scan = handle]]
      BY <2>12 DEF StopJoining
    <3>3. snap' \in [Clients -> SnapType]
      BY <3>1, <3>2
    <3> QED BY <2>12, <3>3 DEF StopJoining
  <2>13. CASE StopAgain(c) BY <2>13 DEF StopAgain
  <2>14. CASE StopJoined(c) BY <2>14 DEF StopJoined
  <2>15. CASE StopClear(c) BY <2>15, NoSnapType DEF StopClear
  <2> QED BY <1>2, <2>1, <2>2, <2>3, <2>4, <2>5, <2>6, <2>7, <2>8, <2>9, <2>10, <2>11, <2>12, <2>13, <2>14, <2>15 DEF Client
<1>3. CASE UNCHANGED vars BY <1>3 DEF vars
<1> QED BY <1>1, <1>2, <1>3 DEF Next

-----------------------------------------------------------------------------
(* The discipline of the slot holds at the start.                            *)
LEMMA SlotInit == Init => SlotInv
BY ClientAssumption, ConstantTypes DEF Init, SlotInv, OneWorker, Live, Holding, Joining, Scans, NoScan

(* Every step keeps the discipline of the slot: two-phase stop, one joiner.  *)
LEMMA SlotNext == TypeOK /\ SlotInv /\ [Next]_vars => SlotInv'
<1> SUFFICES ASSUME TypeOK, SlotInv, [Next]_vars PROVE SlotInv'
  OBVIOUS
<1> USE ClientAssumption, ConstantTypes
    DEF TypeOK, SlotInv, OneWorker, Live, ThreadOver, Holding, Joining,
        slot, flags, counters, channel, clients, Scans, NoScan
<1>1. ASSUME NEW s \in Scans, Worker(s) PROVE SlotInv'
  <2> USE DEF WorkerGoto
  <2>1. CASE BackendReady(s) BY <2>1 DEF BackendReady
  <2>2. CASE BackendMissing(s) BY <2>2 DEF BackendMissing
  <2>3. CASE BackendFallback(s) BY <2>3 DEF BackendFallback, PushLine
  <2>4. CASE CheckStop(s) BY <2>4 DEF CheckStop
  <2>5. CASE CheckRoom(s) BY <2>5 DEF CheckRoom
  <2>6. CASE Executed(s) BY <2>6 DEF Executed
  <2>7. CASE SkippedEvent(s) BY <2>7 DEF SkippedEvent
  <2>8. CASE RangeEnd(s) BY <2>8 DEF RangeEnd
  <2>9. CASE ProbeError(s) BY <2>9 DEF ProbeError
  <2>10. CASE ProbePanic(s) BY <2>10 DEF ProbePanic
  <2>11. CASE CountLine(s) BY <2>11 DEF CountLine
  <2>12. CASE QueueLine(s) BY <2>12 DEF QueueLine, PushLine
  <2>13. CASE Finish(s) BY <2>13 DEF Finish
  <2>14. CASE SandboxMissing(s) BY <2>14 DEF SandboxMissing
  <2> QED BY <1>1, <2>1, <2>2, <2>3, <2>4, <2>5, <2>6, <2>7, <2>8, <2>9, <2>10, <2>11, <2>12, <2>13, <2>14 DEF Worker
<1>2. ASSUME NEW c \in Clients, Client(c) PROVE SlotInv'
  <2> USE DEF ClientGoto, CanEnter
  <2>1. ASSUME NEW config \in Configs, Start(c, config) PROVE SlotInv'
    BY <2>1, SMTT(60) DEF Start, SlotEmpty
  <2>2. CASE NextEnter(c) BY <2>2 DEF NextEnter
  <2>3. CASE NextLine(c) BY <2>3 DEF NextLine
  <2>4. CASE NextTooSmall(c) BY <2>4 DEF NextTooSmall
  <2>5. CASE NextEmpty(c) BY <2>5 DEF NextEmpty
  <2>6. CASE NextEnd(c) BY <2>6, SMTT(40) DEF NextEnd, Leave
  <2>7. CASE NextWait(c) BY <2>7 DEF NextWait, Leave
  <2>8. CASE StatusEnter(c) BY <2>8 DEF StatusEnter
  <2>9. CASE StatusRunning(c) BY <2>9 DEF StatusRunning
  <2>10. CASE StatusDone(c) BY <2>10 DEF StatusDone
  <2>11. CASE StatusTotals(c) BY <2>11 DEF StatusTotals, Leave, NoSnap
  <2>12. CASE StopJoining(c) BY <2>12 DEF StopJoining
  <2>13. CASE StopAgain(c) BY <2>13 DEF StopAgain
  <2>14. CASE StopJoined(c) BY <2>14 DEF StopJoined
  <2>15. CASE StopClear(c) BY <2>15 DEF StopClear, NoSnap
  <2> QED BY <1>2, <2>1, <2>2, <2>3, <2>4, <2>5, <2>6, <2>7, <2>8, <2>9, <2>10, <2>11, <2>12, <2>13, <2>14, <2>15 DEF Client
<1>3. CASE UNCHANGED vars BY <1>3 DEF vars
<1> QED BY <1>1, <1>2, <1>3 DEF Next

(* The state is well typed, and whoever is inside a call holds the mutex of a *)
(* slot that is not empty; only one thread joins, and it joins the scan held. *)
THEOREM SlotCorrect == Spec => [](TypeOK /\ SlotInv)
<1>1. Init => TypeOK /\ SlotInv  BY TypeInit, SlotInit
<1>2. TypeOK /\ SlotInv /\ [Next]_vars => (TypeOK /\ SlotInv)'
  BY TypeNext, SlotNext
<1> QED BY <1>1, <1>2, PTL DEF Spec
-----------------------------------------------------------------------------
(* The counters and queues of one scan are numbers and sequences of numbers. *)
LEMMA ScanNumbers ==
  ASSUME TypeOK, NEW s \in Scans
  PROVE  /\ Len(queue[s]) \in Nat /\ emitted[s] \in Nat
         /\ received[s] \in Nat /\ notice[s] \in Nat
         /\ conf[s].cap \in Nat /\ conf[s].max \in Nat
<1>1. Len(queue[s]) \in Nat
  <2>1. queue[s] \in Seq(Nat) BY DEF TypeOK
  <2> QED BY <2>1
<1>2. conf[s].cap \in Nat /\ conf[s].max \in Nat
  <2>1. conf[s] \in ConfigType BY DEF TypeOK
  <2> QED BY <2>1 DEF ConfigType
<1>3. notice[s] \in Nat
  <2>1. notice[s] \in {0, 1} BY DEF TypeOK
  <2> QED BY <2>1
<1> QED BY <1>1, <1>2, <1>3 DEF TypeOK

(* What the worker knows of its scan holds at the start.                     *)
LEMMA LineInit == Init => LineInv
BY ConstantTypes, UnstartedType DEF Init, LineInv, LineOf, Unstarted

(* A step that leaves a scan alone leaves its worker's knowledge alone.      *)
LEMMA LineKept ==
  ASSUME NEW t \in Scans, LineOf(t),
         conf'[t] = conf[t], wpc'[t] = wpc[t], queue'[t] = queue[t],
         notice'[t] = notice[t], emitted'[t] = emitted[t],
         received'[t] = received[t], done'[t] = done[t]
  PROVE  LineOf(t)'
BY DEF LineOf, HasRoom, Exhausted, Instructions

(* The notice of a fallback is the first line of an empty queue.             *)
LEMMA LineFallback ==
  ASSUME TypeOK, LineInv, NEW s \in Scans, BackendFallback(s)
  PROVE  LineInv'
<1>1. LineOf(s) BY DEF LineInv
<1>2. /\ wpc[s] = "open" /\ queue[s] = <<>> /\ emitted[s] = 0 /\ ~done[s]
  BY <1>1 DEF BackendFallback, LineOf
<1>3. queue' = [queue EXCEPT ![s] = Append(@, 0)]
  BY DEF BackendFallback, PushLine
<1>4. UNCHANGED <<conf, emitted, received, done>>
  BY DEF BackendFallback, slot, counters, flags
<1>5. wpc' = [wpc EXCEPT ![s] = "check"] /\ notice' = [notice EXCEPT ![s] = 1]
  BY DEF BackendFallback, WorkerGoto
<1>6. LineOf(s)'
  <2>1. conf[s].cap \in Nat /\ conf[s].max \in Nat /\ conf[s].cap > 0
    BY ScanNumbers DEF TypeOK
  <2>2. queue'[s] = <<0>> /\ wpc'[s] = "check"
    BY <1>2, <1>3, <1>5 DEF TypeOK
  <2>3. Len(queue'[s]) <= conf[s].cap BY <2>1, <2>2
  <2>4. emitted'[s] <= conf[s].max BY <1>2, <1>4, <2>1
  <2> QED BY <1>2, <1>4, <2>2, <2>3, <2>4 DEF LineOf
<1>7. ASSUME NEW t \in Scans, t # s PROVE LineOf(t)'
  <2>1. LineOf(t) BY DEF LineInv
  <2>2. queue'[t] = queue[t] /\ wpc'[t] = wpc[t] /\ notice'[t] = notice[t]
    BY <1>3, <1>5, <1>7 DEF TypeOK
  <2> QED BY <1>4, <2>1, <2>2, LineKept
<1> QED BY <1>6, <1>7 DEF LineInv

(* A scan that starts has an empty queue and nothing counted.                *)
LEMMA LineStart ==
  ASSUME TypeOK, SlotInv, LineInv,
         NEW c, NEW config \in Configs, Start(c, config)
  PROVE  LineInv'
<1> DEFINE n == started + 1
<1>1. n \in Scans /\ wpc[n] = "unborn" /\ started' = n
  BY ConstantTypes DEF Start, TypeOK, SlotInv, Scans
<1>2. /\ conf' = [conf EXCEPT ![n] = config]
      /\ wpc' = [wpc EXCEPT ![n] = "open"]
      /\ UNCHANGED <<queue, notice, emitted, received, done>>
  BY <1>1 DEF Start, channel, counters, flags
<1> HIDE DEF n
<1>3. ASSUME NEW s \in Scans, s = n PROVE LineOf(s)'
  <2>1. conf'[s] = config /\ wpc'[s] = "open"
    BY <1>2, <1>3 DEF TypeOK
  <2>2. /\ emitted[s] = 0 /\ notice[s] = 0 /\ received[s] = 0
        /\ queue[s] = <<>> /\ ~done[s]
    BY <1>1, <1>3 DEF LineInv, LineOf
  <2>3. config.cap \in Nat /\ config.max \in Nat
    BY ConstantTypes DEF ConfigType
  <2>4. Len(queue[s]) <= config.cap /\ emitted[s] <= config.max
    BY <2>2, <2>3
  <2> QED BY <1>2, <2>1, <2>2, <2>4 DEF LineOf
<1>4. ASSUME NEW t \in Scans, t # n PROVE LineOf(t)'
  <2>1. LineOf(t) BY DEF LineInv
  <2>2. conf'[t] = conf[t] /\ wpc'[t] = wpc[t] BY <1>2, <1>4 DEF TypeOK
  <2> QED BY <1>2, <2>1, <2>2, LineKept
<1> QED BY <1>3, <1>4 DEF LineInv

(* A line taken makes room.                                                  *)
LEMMA LineTake ==
  ASSUME TypeOK, SlotInv, LineInv, NEW c \in Clients, NextLine(c)
  PROVE  LineInv'
<1>1. handle \in Scans /\ queue[handle] \in Seq(Nat) /\ queue[handle] # <<>>
  BY ClientAssumption DEF NextLine, TypeOK, SlotInv, Holding
<1>2. /\ queue' = [queue EXCEPT ![handle] = Tail(@)]
      /\ UNCHANGED <<conf, wpc, notice, emitted, done>>
      /\ \A t \in Scans \ {handle} : received'[t] = received[t]
  BY <1>1 DEF NextLine, slot, counters, flags, TypeOK
<1>3. ASSUME NEW s \in Scans, s = handle PROVE LineOf(s)'
  <2>1. LineOf(s) BY <1>1, <1>3 DEF LineInv
  <2>2. wpc[s] \notin {"unborn", "open"} BY <1>1, <1>3, <2>1 DEF LineOf
  <2>3. queue'[s] = Tail(queue[s]) BY <1>1, <1>3, <1>2 DEF TypeOK
  <2>4. conf[s].cap \in Nat /\ Len(queue[s]) <= conf[s].cap
    BY <1>1, <1>3, <2>1, ScanNumbers DEF LineOf
  <2>5. /\ Len(queue'[s]) <= conf[s].cap
        /\ Len(queue[s]) < conf[s].cap
             => Len(queue'[s]) < conf[s].cap
    BY <1>1, <1>3, <2>3, <2>4, TailShorter
  <2> QED BY <1>2, <2>1, <2>2, <2>5 DEF LineOf, HasRoom, Exhausted, Instructions
<1>4. ASSUME NEW t \in Scans, t # handle PROVE LineOf(t)'
  <2>1. LineOf(t) BY DEF LineInv
  <2>2. queue'[t] = queue[t] /\ received'[t] = received[t]
    BY <1>2, <1>4 DEF TypeOK
  <2> QED BY <1>2, <2>1, <2>2, LineKept
<1> QED BY <1>3, <1>4 DEF LineInv

(* Every step keeps what the worker knows: room found stays room, the budget *)
(* checked is not exceeded, done means exited.                               *)
LEMMA LineNext == TypeOK /\ SlotInv /\ LineInv /\ [Next]_vars => LineInv'
<1> SUFFICES ASSUME TypeOK, SlotInv, LineInv, [Next]_vars PROVE LineInv'
  OBVIOUS
<1> USE ClientAssumption, ConstantTypes
    DEF TypeOK, LineInv, LineOf, HasRoom, Exhausted, Instructions, slot, flags,
        counters, channel, clients
<1>1. ASSUME NEW s \in Scans, Worker(s) PROVE LineInv'
  <2> USE DEF WorkerGoto
  <2>1. CASE BackendReady(s) BY <2>1 DEF BackendReady
  <2>2. CASE BackendMissing(s) BY <2>2 DEF BackendMissing
  <2>3. CASE BackendFallback(s) BY ONLY <2>3, TypeOK, LineInv, s \in Scans, LineFallback
  <2>4. CASE CheckStop(s) BY <2>4 DEF CheckStop
  <2>5. CASE CheckRoom(s) BY <2>5 DEF CheckRoom
  <2>6. CASE Executed(s) BY <2>6 DEF Executed
  <2>7. CASE SkippedEvent(s) BY <2>7 DEF SkippedEvent
  <2>8. CASE RangeEnd(s) BY <2>8 DEF RangeEnd
  <2>9. CASE ProbeError(s) BY <2>9 DEF ProbeError
  <2>10. CASE ProbePanic(s) BY <2>10 DEF ProbePanic
  <2>11. CASE CountLine(s)
    <3>1. conf[s].max \in Nat BY DEF ConfigType
    <3>2. emitted'[s] = emitted[s] + 1 /\ emitted'[s] > 0 BY <2>11 DEF CountLine
    <3>3. ~(Instructions(s) /\ conf[s].max # 0 /\ emitted[s] >= conf[s].max)
      BY <2>11 DEF CountLine
    <3>4. Instructions(s) /\ conf[s].max # 0 => emitted'[s] <= conf[s].max
      BY <3>1, <3>2, <3>3
    <3> QED BY <2>11, <3>2, <3>4 DEF CountLine
  <2>12. CASE QueueLine(s)
    <3>1. conf[s].cap \in Nat BY DEF ConfigType
    <3>2. Len(queue[s]) < conf[s].cap BY <2>12 DEF QueueLine
    <3>3. Len(queue'[s]) = Len(queue[s]) + 1 BY <2>12 DEF QueueLine, PushLine
    <3>4. Len(queue'[s]) <= conf[s].cap BY <3>1, <3>2, <3>3
    <3>5. \A t \in Scans \ {s} : queue'[t] = queue[t]
      BY <2>12 DEF QueueLine, PushLine
    <3> QED BY <2>12, <3>4, <3>5 DEF QueueLine
  <2>13. CASE Finish(s) BY <2>13 DEF Finish
  <2>14. CASE SandboxMissing(s) BY <2>14 DEF SandboxMissing
  <2> QED BY <1>1, <2>1, <2>2, <2>3, <2>4, <2>5, <2>6, <2>7, <2>8, <2>9, <2>10, <2>11, <2>12, <2>13, <2>14 DEF Worker
<1>2. ASSUME NEW c \in Clients, Client(c) PROVE LineInv'
  <2> USE DEF ClientGoto, CanEnter, SlotInv, Scans, NoScan, Holding
  <2>1. ASSUME NEW config \in Configs, Start(c, config) PROVE LineInv'
    BY ONLY <2>1, TypeOK, SlotInv, LineInv, config \in Configs, LineStart
  <2>2. CASE NextEnter(c) BY <2>2 DEF NextEnter
  <2>3. CASE NextLine(c) BY ONLY <2>3, TypeOK, SlotInv, LineInv, c \in Clients, LineTake
  <2>4. CASE NextTooSmall(c) BY <2>4 DEF NextTooSmall
  <2>5. CASE NextEmpty(c) BY <2>5 DEF NextEmpty
  <2>6. CASE NextEnd(c) BY <2>6 DEF NextEnd, Leave
  <2>7. CASE NextWait(c) BY <2>7 DEF NextWait, Leave
  <2>8. CASE StatusEnter(c) BY <2>8 DEF StatusEnter
  <2>9. CASE StatusRunning(c) BY <2>9 DEF StatusRunning
  <2>10. CASE StatusDone(c) BY <2>10 DEF StatusDone
  <2>11. CASE StatusTotals(c) BY <2>11 DEF StatusTotals, Leave, NoSnap
  <2>12. CASE StopJoining(c) BY <2>12 DEF StopJoining
  <2>13. CASE StopAgain(c) BY <2>13 DEF StopAgain
  <2>14. CASE StopJoined(c) BY <2>14 DEF StopJoined
  <2>15. CASE StopClear(c) BY <2>15 DEF StopClear, NoSnap
  <2> QED BY <1>2, <2>1, <2>2, <2>3, <2>4, <2>5, <2>6, <2>7, <2>8, <2>9, <2>10, <2>11, <2>12, <2>13, <2>14, <2>15 DEF Client
<1>3. CASE UNCHANGED vars BY <1>3 DEF vars
<1> QED BY <1>1, <1>2, <1>3 DEF Next

-----------------------------------------------------------------------------
(* No line is out of order at the start.                                     *)
LEMMA OrderInit == Init => StreamInOrder
BY DEF Init, StreamInOrder, InOrder, Pushed, Consecutive

(* Every step keeps the lines handed out and queued in the order pushed.     *)
LEMMA OrderNext ==
  TypeOK /\ SlotInv /\ LineInv /\ StreamInOrder /\ [Next]_vars => StreamInOrder'
<1> SUFFICES ASSUME TypeOK, SlotInv, LineInv, StreamInOrder, [Next]_vars
             PROVE  StreamInOrder'
  OBVIOUS
<1> USE ClientAssumption, ConstantTypes
    DEF TypeOK, StreamInOrder, InOrder, Pushed, slot, flags, counters, channel, clients
<1>1. ASSUME NEW s \in Scans, Worker(s) PROVE StreamInOrder'
  <2> USE DEF WorkerGoto
  <2>1. CASE BackendReady(s) BY <2>1 DEF BackendReady
  <2>2. CASE BackendMissing(s) BY <2>2 DEF BackendMissing
  <2>3. CASE BackendFallback(s)
    <3>1. queue[s] = <<>> /\ emitted[s] = 0 /\ received[s] = 0
      BY <2>3 DEF BackendFallback, LineInv, LineOf
    <3>2. queue'[s] = <<0>> BY <2>3, <3>1 DEF BackendFallback, PushLine
    <3>3. wpc'[s] = "check" /\ notice'[s] = 1 BY <2>3 DEF BackendFallback
    <3>4. \A t \in Scans \ {s} : /\ queue'[t] = queue[t] /\ wpc'[t] = wpc[t]
                                  /\ notice'[t] = notice[t]
      BY <2>3 DEF BackendFallback, PushLine
    <3>5. InOrder(s)'
      <4>1. Len(queue'[s]) = 1 /\ queue'[s][1] = 0 BY <3>2
      <4>2. received'[s] = 0 /\ emitted'[s] = 0 BY <2>3, <3>1 DEF BackendFallback
      <4> QED BY <3>3, <4>1, <4>2 DEF Consecutive
    <3>6. ASSUME NEW t \in Scans, t # s PROVE InOrder(t)'
      <4>1. InOrder(t) OBVIOUS
      <4> QED BY <2>3, <3>4, <3>6, <4>1 DEF BackendFallback
    <3> QED BY <3>5, <3>6
  <2>4. CASE CheckStop(s) BY <2>4 DEF CheckStop
  <2>5. CASE CheckRoom(s) BY <2>5 DEF CheckRoom
  <2>6. CASE Executed(s) BY <2>6 DEF Executed
  <2>7. CASE SkippedEvent(s) BY <2>7 DEF SkippedEvent
  <2>8. CASE RangeEnd(s) BY <2>8 DEF RangeEnd
  <2>9. CASE ProbeError(s) BY <2>9 DEF ProbeError
  <2>10. CASE ProbePanic(s) BY <2>10 DEF ProbePanic
  <2>11. CASE CountLine(s)
    <3>1. emitted'[s] = emitted[s] + 1 /\ wpc[s] = "count" /\ wpc'[s] = "push"
      BY <2>11 DEF CountLine
    <3>2. InOrder(s)'
      <4>1. InOrder(s) /\ emitted[s] \in Nat /\ notice[s] \in Nat
        BY ScanNumbers
      <4>2. Pushed(s)' = Pushed(s) BY <2>11, <3>1, <4>1 DEF CountLine
      <4> QED BY <2>11, <4>1, <4>2 DEF CountLine
    <3>3. \A t \in Scans \ {s} : InOrder(t)' BY <2>11 DEF CountLine
    <3> QED BY <3>2, <3>3
  <2>12. CASE QueueLine(s)
    <3>1. wpc[s] = "push" /\ wpc'[s] # "push"
      BY <2>12 DEF QueueLine
    <3>2. queue'[s] = Append(queue[s], emitted[s])
      BY <2>12 DEF QueueLine, PushLine
    <3>0. /\ Len(queue[s]) \in Nat /\ emitted[s] \in Nat
          /\ received[s] \in Nat /\ notice[s] \in Nat
      BY ScanNumbers
    <3>3. received[s] + Len(queue[s]) = notice[s] + emitted[s] - 1 BY <3>1
    <3>4. queue[s] \in Seq(Nat) /\ InOrder(s) OBVIOUS
    <3>5. Consecutive(queue'[s], received[s] - notice[s])
      <4>1. emitted[s] = (received[s] - notice[s]) + Len(queue[s]) + 1
        BY ONLY <3>0, <3>3, SMTT(40)
      <4>2. received[s] - notice[s] \in Int BY ONLY <3>0
      <4> QED BY <3>0, <3>2, <3>4, <4>1, <4>2, AppendConsecutive
    <3>6. received[s] + Len(queue'[s]) = notice[s] + emitted[s]
      <4>1. Len(queue'[s]) = Len(queue[s]) + 1
        BY <3>0, <3>2, <3>4, AppendTailLength
      <4>2. Len(queue'[s]) \in Nat BY <3>0, <4>1
      <4> QED BY <3>0, <3>3, <4>1, <4>2, SMTT(40)
    <3>7. InOrder(s)'
      <4>1. received'[s] = received[s] /\ notice'[s] = notice[s]
            /\ emitted'[s] = emitted[s]
        BY <2>12 DEF QueueLine
      <4>2. Pushed(s)' = notice[s] + emitted[s] BY <3>0, <3>1, <4>1
      <4> QED BY <3>5, <3>6, <4>1, <4>2
    <3>8. \A t \in Scans \ {s} : InOrder(t)'
      BY <2>12 DEF QueueLine, PushLine
    <3> QED BY <3>7, <3>8
  <2>13. CASE Finish(s) BY <2>13 DEF Finish
  <2>14. CASE SandboxMissing(s) BY <2>14 DEF SandboxMissing
  <2> QED BY <1>1, <2>1, <2>2, <2>3, <2>4, <2>5, <2>6, <2>7, <2>8, <2>9, <2>10, <2>11, <2>12, <2>13, <2>14 DEF Worker
<1>2. ASSUME NEW c \in Clients, Client(c) PROVE StreamInOrder'
  <2> USE DEF ClientGoto, CanEnter, SlotInv, Scans, NoScan, Holding
  <2>1. ASSUME NEW config \in Configs, Start(c, config) PROVE StreamInOrder'
    <3>1. started' \in Scans /\ wpc[started'] = "unborn"
      BY <2>1 DEF Start
    <3>2. \A t \in Scans : wpc[t] # "push" => wpc'[t] # "push"
      BY <2>1 DEF Start
    <3>3. \A t \in Scans : wpc[t] = "push" => wpc'[t] = "push"
      BY <2>1, <3>1 DEF Start
    <3>4. \A t \in Scans : InOrder(t)' BY <2>1, <3>2, <3>3 DEF Start
    <3> QED BY <3>4
  <2>2. CASE NextEnter(c) BY <2>2 DEF NextEnter
  <2>3. CASE NextLine(c)
    <3>1. handle \in Scans /\ queue[handle] \in Seq(Nat) /\ queue[handle] # <<>>
      BY <2>3 DEF NextLine
    <3>2. queue'[handle] = Tail(queue[handle])
          /\ received'[handle] = received[handle] + 1
      BY <2>3, <3>1 DEF NextLine
    <3>3. /\ InOrder(handle) /\ Len(queue[handle]) \in Nat
          /\ received[handle] \in Nat /\ notice[handle] \in Nat
      BY <3>1, ScanNumbers
    <3>4. received'[handle] + Len(queue'[handle])
            = received[handle] + Len(queue[handle])
      <4>1. Len(queue'[handle]) = Len(queue[handle]) - 1
        BY <3>1, <3>2, AppendTailLength
      <4> QED BY ONLY <3>2, <3>3, <4>1
    <3>5. InOrder(handle)'
      <4>1. Pushed(handle)' = Pushed(handle) /\ notice'[handle] = notice[handle]
        BY <2>3 DEF NextLine
      <4>2. Consecutive(Tail(queue[handle]), (received[handle] - notice[handle]) + 1)
        <5>1. received[handle] - notice[handle] \in Int BY ONLY <3>3
        <5> QED BY <3>1, <3>3, <5>1, TailConsecutive
      <4>3. (received[handle] - notice[handle]) + 1
              = received'[handle] - notice'[handle]
        BY ONLY <3>2, <3>3, <4>1
      <4>4. received'[handle] + Len(queue'[handle]) = Pushed(handle)'
        BY <3>3, <3>4, <4>1
      <4>5. Consecutive(queue'[handle], received'[handle] - notice'[handle])
        BY ONLY <3>2, <4>2, <4>3
      <4> QED BY <2>3, <4>4, <4>5 DEF NextLine
    <3>6. ASSUME NEW t \in Scans, t # handle PROVE InOrder(t)'
      <4>1. InOrder(t) OBVIOUS
      <4> QED BY <2>3, <3>6, <4>1 DEF NextLine
    <3>7. ASSUME NEW t \in Scans PROVE InOrder(t)'
      <4>1. CASE t = handle BY <2>3, <3>5, <4>1 DEF NextLine
      <4>2. CASE t # handle BY <3>6, <4>2
      <4> QED BY <4>1, <4>2
    <3> QED BY <3>7
  <2>4. CASE NextTooSmall(c) BY <2>4 DEF NextTooSmall
  <2>5. CASE NextEmpty(c) BY <2>5 DEF NextEmpty
  <2>6. CASE NextEnd(c) BY <2>6 DEF NextEnd, Leave
  <2>7. CASE NextWait(c) BY <2>7 DEF NextWait, Leave
  <2>8. CASE StatusEnter(c) BY <2>8 DEF StatusEnter
  <2>9. CASE StatusRunning(c) BY <2>9 DEF StatusRunning
  <2>10. CASE StatusDone(c) BY <2>10 DEF StatusDone
  <2>11. CASE StatusTotals(c) BY <2>11 DEF StatusTotals, Leave, NoSnap
  <2>12. CASE StopJoining(c) BY <2>12 DEF StopJoining
  <2>13. CASE StopAgain(c) BY <2>13 DEF StopAgain
  <2>14. CASE StopJoined(c) BY <2>14 DEF StopJoined
  <2>15. CASE StopClear(c) BY <2>15 DEF StopClear, NoSnap
  <2> QED BY <1>2, <2>1, <2>2, <2>3, <2>4, <2>5, <2>6, <2>7, <2>8, <2>9, <2>10, <2>11, <2>12, <2>13, <2>14, <2>15 DEF Client
<1>3. CASE UNCHANGED vars BY <1>3 DEF vars
<1> QED BY <1>1, <1>2, <1>3 DEF Next

-----------------------------------------------------------------------------
(* Nobody has read anything at the start.                                    *)
LEMMA ReadInit == Init => ReadInv
BY DEF Init, ReadInv

(* Every step keeps what a client has read true while it holds the queue.    *)
LEMMA ReadNext == TypeOK /\ SlotInv /\ ReadInv /\ [Next]_vars => ReadInv'
<1> SUFFICES ASSUME TypeOK, SlotInv, ReadInv, [Next]_vars PROVE ReadInv'
  OBVIOUS
<1> USE ClientAssumption, ConstantTypes
    DEF TypeOK, SlotInv, Holding, Joining, ReadInv, QueueFree, NoScan,
        slot, flags, counters, channel, clients
<1>1. ASSUME NEW s \in Scans, Worker(s) PROVE ReadInv'
  <2> USE DEF WorkerGoto
  <2>1. CASE BackendReady(s) BY <2>1 DEF BackendReady
  <2>2. CASE BackendMissing(s) BY <2>2 DEF BackendMissing
  <2>3. CASE BackendFallback(s) BY <2>3 DEF BackendFallback, PushLine
  <2>4. CASE CheckStop(s) BY <2>4 DEF CheckStop
  <2>5. CASE CheckRoom(s) BY <2>5 DEF CheckRoom
  <2>6. CASE Executed(s) BY <2>6 DEF Executed
  <2>7. CASE SkippedEvent(s) BY <2>7 DEF SkippedEvent
  <2>8. CASE RangeEnd(s) BY <2>8 DEF RangeEnd
  <2>9. CASE ProbeError(s) BY <2>9 DEF ProbeError
  <2>10. CASE ProbePanic(s) BY <2>10 DEF ProbePanic
  <2>11. CASE CountLine(s) BY <2>11 DEF CountLine
  <2>12. CASE QueueLine(s) BY <2>12 DEF QueueLine, PushLine
  <2>13. CASE Finish(s) BY <2>13 DEF Finish
  <2>14. CASE SandboxMissing(s) BY <2>14 DEF SandboxMissing
  <2> QED BY <1>1, <2>1, <2>2, <2>3, <2>4, <2>5, <2>6, <2>7, <2>8, <2>9, <2>10, <2>11, <2>12, <2>13, <2>14 DEF Worker
<1>2. ASSUME NEW c \in Clients, Client(c) PROVE ReadInv'
  <2> USE DEF ClientGoto, CanEnter
  <2>1. ASSUME NEW config \in Configs, Start(c, config) PROVE ReadInv'
    BY <2>1 DEF Start, SlotEmpty
  <2>2. CASE NextEnter(c) BY <2>2 DEF NextEnter
  <2>3. CASE NextLine(c) BY <2>3 DEF NextLine
  <2>4. CASE NextTooSmall(c) BY <2>4 DEF NextTooSmall
  <2>5. CASE NextEmpty(c) BY <2>5 DEF NextEmpty
  <2>6. CASE NextEnd(c) BY <2>6 DEF NextEnd, Leave
  <2>7. CASE NextWait(c) BY <2>7 DEF NextWait, Leave
  <2>8. CASE StatusEnter(c) BY <2>8 DEF StatusEnter
  <2>9. CASE StatusRunning(c)
    <3>1. /\ cpc[c] = "running" /\ cpc' = [cpc EXCEPT ![c] = "done"]
          /\ UNCHANGED <<handle, qlock, queue, done>>
      BY <2>9 DEF StatusRunning
    <3>2. snap'[c].running = ~done[handle] BY <2>9, SnapRunning DEF StatusRunning
    <3>3. \A d \in Clients \ {c} : cpc'[d] = cpc[d] /\ snap'[d] = snap[d]
      BY <2>9 DEF StatusRunning
    <3> QED BY <3>1, <3>2, <3>3
  <2>10. CASE StatusDone(c) BY <2>10 DEF StatusDone
  <2>11. CASE StatusTotals(c) BY <2>11 DEF StatusTotals, Leave, NoSnap
  <2>12. CASE StopJoining(c) BY <2>12 DEF StopJoining
  <2>13. CASE StopAgain(c) BY <2>13 DEF StopAgain
  <2>14. CASE StopJoined(c) BY <2>14 DEF StopJoined
  <2>15. CASE StopClear(c) BY <2>15 DEF StopClear, NoSnap
  <2> QED BY <1>2, <2>1, <2>2, <2>3, <2>4, <2>5, <2>6, <2>7, <2>8, <2>9, <2>10, <2>11, <2>12, <2>13, <2>14, <2>15 DEF Client
<1>3. CASE UNCHANGED vars BY <1>3 DEF vars
<1> QED BY <1>1, <1>2, <1>3 DEF Next
-----------------------------------------------------------------------------
(* The inductive invariant.                                                  *)
IInv == TypeOK /\ SlotInv /\ LineInv /\ StreamInOrder /\ ReadInv

(* The inductive invariant holds in every reachable state.                   *)
THEOREM Invariance == Spec => []IInv
<1>1. Init => IInv
  BY TypeInit, SlotInit, LineInit, OrderInit, ReadInit DEF IInv
<1>2. IInv /\ [Next]_vars => IInv'
  BY TypeNext, SlotNext, LineNext, OrderNext, ReadNext DEF IInv
<1> QED BY <1>1, <1>2, PTL DEF Spec

(* Every variable of the interface stays within its type.                    *)
THEOREM TypeCorrect == Spec => []TypeOK
<1>1. IInv => TypeOK BY DEF IInv
<1> QED BY <1>1, Invariance, PTL

(* The queue of a scan never holds more than queue_capacity lines, and       *)
(* max_packets bounds what an instruction scan emits.                        *)
THEOREM BoundsAreKept == Spec => []BoundsKept
<1>1. IInv => QueueBounded BY DEF IInv, LineInv, LineOf, QueueBounded
<1>2. IInv => MaxRespected BY DEF IInv, LineInv, LineOf, MaxRespected
<1>3. IInv => BoundsKept BY <1>1, <1>2 DEF BoundsKept
<1> QED BY <1>3, Invariance, PTL

(* However starts and stops interleave, only the worker of the scan in the   *)
(* slot is alive.                                                            *)
THEOREM OneWorkerAlive == Spec => []OneWorker
<1>1. IInv => OneWorker BY DEF IInv, SlotInv
<1> QED BY <1>1, Invariance, PTL

(* scan_next hands out the worker's lines once each, in order, whichever     *)
(* thread calls it.                                                          *)
THEOREM StreamStaysInOrder == Spec => []StreamInOrder
<1>1. IInv => StreamInOrder BY DEF IInv
<1> QED BY <1>1, Invariance, PTL

(* A client inside a call finds a scan in the slot.                          *)
LEMMA HolderScan ==
  ASSUME TypeOK, SlotInv, NEW c \in Clients, cpc[c] \in Holding
  PROVE  handle \in Scans
BY ClientAssumption DEF TypeOK, SlotInv

(* A status that says done carries final totals, and every status says       *)
(* running or done.                                                          *)
THEOREM StatusIsCoherent == Spec => []StatusCoherent
<1>1. IInv => StatusCoherent
  <2> SUFFICES ASSUME IInv, NEW c \in Clients, cpc[c] = "totals"
               PROVE  /\ snap[c].running \/ snap[c].done
                      /\ snap[c].done => /\ wpc[handle] = "exited"
                                         /\ received[handle] + Len(queue[handle])
                                              = notice[handle] + emitted[handle]
    BY DEF StatusCoherent
  <2>1. handle \in Scans BY HolderScan DEF IInv, Holding
  <2>2. snap[c].running \/ snap[c].done BY DEF IInv, ReadInv
  <2>3. ASSUME snap[c].done
        PROVE  /\ wpc[handle] = "exited"
               /\ received[handle] + Len(queue[handle])
                    = notice[handle] + emitted[handle]
    <3>1. wpc[handle] = "exited" BY <2>1, <2>3 DEF IInv, ReadInv, LineInv, LineOf
    <3>2. received[handle] + Len(queue[handle]) = Pushed(handle)
      BY <2>1 DEF IInv, StreamInOrder, InOrder
    <3>3. emitted[handle] \in Nat /\ notice[handle] \in Nat
      BY <2>1, ScanNumbers DEF IInv
    <3> QED BY <3>1, <3>2, <3>3 DEF Pushed
  <2> QED BY <2>2, <2>3
<1> QED BY <1>1, Invariance, PTL

(* A -1 of scan_next on a live handle means that the worker has exited and   *)
(* that every line it counted has been handed out.                           *)
THEOREM EndIsFinal == Spec => EndMeansDrained
<1>1. IInv /\ [Next]_vars =>
        [\A c \in Clients :
           NextEnd(c) => /\ wpc[handle] = "exited"
                         /\ received[handle]
                              = notice[handle] + emitted[handle]]_vars
  <2> SUFFICES ASSUME IInv, NEW c \in Clients, NextEnd(c)
               PROVE  /\ wpc[handle] = "exited"
                      /\ received[handle] = notice[handle] + emitted[handle]
    OBVIOUS
  <2>1. handle \in Scans BY HolderScan DEF IInv, Holding, NextEnd
  <2>2. wpc[handle] = "exited" BY <2>1 DEF IInv, LineInv, LineOf, NextEnd
  <2>3. queue[handle] = <<>> BY DEF IInv, ReadInv, NextEnd
  <2>4. received[handle] + Len(queue[handle]) = Pushed(handle)
    BY <2>1 DEF IInv, StreamInOrder, InOrder
  <2>5. /\ emitted[handle] \in Nat /\ notice[handle] \in Nat
        /\ received[handle] \in Nat
    BY <2>1, ScanNumbers DEF IInv
  <2> QED BY <2>2, <2>3, <2>4, <2>5 DEF Pushed
<1> QED BY <1>1, Invariance, PTL DEF Spec, EndMeansDrained

-----------------------------------------------------------------------------
(* The interface implements the abstract channel: a push is a Send, the pop  *)
(* in scan_next a Take, the end of the thread an End, and emptying the slot  *)
(* after the join a Close.                                                   *)
LEMMA Stutter ==
  ASSUME handle' = handle,
         AbsOpen => /\ conf'[handle] = conf[handle]
                    /\ queue'[handle] = queue[handle]
                    /\ notice'[handle] = notice[handle]
                    /\ emitted'[handle] = emitted[handle]
                    /\ wpc'[handle] = "push" <=> wpc[handle] = "push"
                    /\ ThreadOver(handle)' <=> ThreadOver(handle)
                    /\ done'[handle] = done[handle]
  PROVE  UNCHANGED Channel!vars
BY DEF Channel!vars, AbsOpen, AbsEnded, AbsDone, AbsCapacity, AbsSent, AbsBuffer, Pushed

(* A worker that is alive is the worker of the scan in the slot, and has not *)
(* said that it is done.                                                     *)
LEMMA WorkerScan ==
  ASSUME IInv, NEW s \in Scans, Live(s)
  PROVE  /\ handle = s /\ AbsOpen /\ ~AbsEnded /\ ~ThreadOver(s)
         /\ ~done[s] /\ AbsDone = FALSE
<1>1. handle = s /\ AbsOpen /\ ~AbsEnded /\ ~ThreadOver(s)
  BY DEF IInv, SlotInv, OneWorker, Live, AbsOpen, AbsEnded, ThreadOver, NoScan, Scans
<1>2. ~done[s] BY DEF IInv, LineInv, LineOf, Live
<1> QED BY <1>1, <1>2 DEF AbsDone

(* The initial states of the interface are those of the channel.             *)
LEMMA ChannelInit == Init => Channel!Init
BY DEF Init, Channel!Init, AbsOpen, AbsEnded, AbsDone, AbsCapacity, AbsSent, AbsBuffer

(* The channel's buffer is the queue of the scan in the slot, renumbered.    *)
LEMMA BufferIsShift ==
  ASSUME AbsOpen
  PROVE  AbsBuffer = Shift(queue[handle], notice[handle])
BY DEF AbsBuffer, Shift

(* A line pushed with room left, from a worker at a point where it is not in *)
(* hand yet counted, is a Send.                                              *)
LEMMA PushIsSend ==
  ASSUME IInv, NEW s \in Scans, Live(s), NEW n \in Nat,
         handle' = handle, conf' = conf,
         queue'[s] = Append(queue[s], n),
         ~ThreadOver(s)', done' = done,
         HasRoom(s),
         Pushed(s)' = Pushed(s) + 1,
         notice'[s] + n = Pushed(s)',
         queue[s] = <<>> \/ notice'[s] = notice[s],
         notice'[s] \in Nat
  PROVE  Channel!Send
<1>1. handle = s /\ AbsOpen /\ ~AbsEnded BY WorkerScan
<1>2. AbsOpen' /\ ~AbsEnded' BY <1>1 DEF AbsOpen, AbsEnded
<1>3. AbsSent' = AbsSent + 1 BY <1>1, <1>2 DEF AbsSent
<1>4. AbsCapacity' = AbsCapacity BY <1>1, <1>2 DEF AbsCapacity
<1>5. queue[s] \in Seq(Nat) /\ notice[s] \in Nat BY ScanNumbers DEF IInv, TypeOK
<1>6. Len(AbsBuffer) < AbsCapacity
  BY <1>1, <1>5, ShiftSeq, BufferIsShift DEF AbsCapacity, HasRoom
<1>7. AbsBuffer' = Shift(queue'[s], notice'[s])
  BY <1>1, <1>2 DEF AbsBuffer, Shift
<1>8. AbsSent' = n + notice'[s]
  BY <1>1, <1>2, <1>5 DEF AbsSent
<1>9. AbsBuffer' = Append(Shift(queue[s], notice'[s]), AbsSent')
  BY <1>5, <1>7, <1>8, ShiftAppend
<1>10. Shift(queue[s], notice'[s]) = AbsBuffer
  <2>1. CASE notice'[s] = notice[s] BY <1>1, <2>1, BufferIsShift
  <2>2. CASE queue[s] = <<>>
    <3>1. Shift(queue[s], notice'[s]) = <<>> /\ Shift(queue[s], notice[s]) = <<>>
      BY <1>5, <2>2, ShiftEmpty
    <3> QED BY <1>1, <3>1, BufferIsShift
  <2> QED BY <2>1, <2>2
<1>11. UNCHANGED <<AbsOpen, AbsEnded, AbsDone>>
  BY <1>1, <1>2 DEF AbsOpen, AbsEnded, AbsDone
<1> QED BY <1>1, <1>2, <1>3, <1>4, <1>6, <1>9, <1>10, <1>11 DEF Channel!Send

(* A step of a worker is a step of the channel or leaves it alone.           *)
LEMMA WorkerStep ==
  ASSUME IInv, IInv', NEW s \in Scans, Worker(s)
  PROVE  Channel!Next \/ UNCHANGED Channel!vars
<1> USE DEF slot, flags, counters, channel, clients, WorkerGoto
<1>0. Live(s) /\ wpc \in [Scans -> WorkerPCs]
  BY DEF Worker, Live, IInv, TypeOK, BackendReady, BackendMissing,
         BackendFallback, CheckStop, CheckRoom, Executed, SkippedEvent,
         RangeEnd, ProbeError, ProbePanic, CountLine, QueueLine, Finish,
         SandboxMissing
<1>1. /\ handle = s /\ AbsOpen /\ ~AbsEnded /\ ~ThreadOver(s)
      /\ ~done[s] /\ AbsDone = FALSE
  BY <1>0, WorkerScan
<1>2. /\ emitted \in [Scans -> Nat] /\ notice \in [Scans -> {0, 1}]
      /\ emitted[s] \in Nat /\ notice[s] \in Nat
  BY ScanNumbers DEF IInv, TypeOK
<1>3. CASE BackendReady(s)
  BY <1>0, <1>1, <1>3, Stutter DEF BackendReady, ThreadOver
<1>4. CASE BackendMissing(s)
  BY <1>0, <1>1, <1>4, Stutter DEF BackendMissing, ThreadOver
<1>5. CASE CheckStop(s)
  BY <1>0, <1>1, <1>5, Stutter DEF CheckStop, ThreadOver
<1>6. CASE CheckRoom(s)
  BY <1>0, <1>1, <1>6, Stutter DEF CheckRoom, ThreadOver
<1>7. CASE Executed(s)
  BY <1>0, <1>1, <1>7, Stutter DEF Executed, ThreadOver
<1>8. CASE SkippedEvent(s)
  BY <1>0, <1>1, <1>8, Stutter DEF SkippedEvent, ThreadOver
<1>9. CASE RangeEnd(s)
  BY <1>0, <1>1, <1>9, Stutter DEF RangeEnd, ThreadOver
<1>10. CASE ProbeError(s)
  BY <1>0, <1>1, <1>10, Stutter DEF ProbeError, ThreadOver
(* The counter grows as the line comes in hand: nothing was pushed yet.      *)
<1>11. CASE CountLine(s)
  <2>1. /\ AbsOpen' /\ ~AbsEnded' /\ handle' = handle
        /\ UNCHANGED <<conf, queue, notice, done>>
    BY <1>0, <1>1, <1>11 DEF CountLine, AbsOpen, AbsEnded, ThreadOver
  <2>2. Pushed(s)' = Pushed(s) BY <1>0, <1>2, <1>11 DEF CountLine, Pushed
  <2>3. UNCHANGED <<AbsOpen, AbsEnded, AbsDone, AbsCapacity, AbsBuffer>>
    BY <1>1, <2>1 DEF AbsOpen, AbsEnded, AbsDone, AbsCapacity, AbsBuffer
  <2>4. AbsSent' = AbsSent BY <1>1, <2>1, <2>2 DEF AbsSent
  <2> QED BY <2>3, <2>4 DEF Channel!vars
<1>12. CASE BackendFallback(s)
  <2>1. /\ queue[s] = <<>> /\ notice[s] = 0 /\ emitted[s] = 0 /\ HasRoom(s)
    <3>1. queue[s] = <<>> /\ notice[s] = 0 /\ emitted[s] = 0
      BY <1>12 DEF IInv, LineInv, LineOf, BackendFallback
    <3>2. conf[s].cap > 0 BY DEF IInv, TypeOK
    <3>3. conf[s].cap \in Nat BY ScanNumbers DEF IInv
    <3> QED BY <3>1, <3>2, <3>3 DEF HasRoom
  <2>2. /\ handle' = handle /\ conf' = conf /\ queue'[s] = Append(queue[s], 0)
        /\ notice'[s] = 1 /\ emitted' = emitted /\ done' = done
        /\ wpc[s] = "open" /\ wpc'[s] = "check"
    <3>1. queue \in [Scans -> Seq(Nat)] BY DEF IInv, TypeOK
    <3> QED BY <1>0, <1>2, <1>12, <3>1 DEF BackendFallback, PushLine
  <2>3. ~ThreadOver(s)' BY <2>2 DEF ThreadOver
  <2>4. /\ Pushed(s)' = Pushed(s) + 1 /\ notice'[s] + 0 = Pushed(s)'
        /\ notice'[s] \in Nat /\ 0 \in Nat
    BY <2>1, <2>2 DEF Pushed
  <2>5. Channel!Send BY <1>0, <2>1, <2>2, <2>3, <2>4, PushIsSend
  <2> QED BY <2>5 DEF Channel!Next
<1>13. CASE QueueLine(s)
  <2>1. /\ handle' = handle /\ conf' = conf
        /\ queue'[s] = Append(queue[s], emitted[s])
        /\ notice' = notice /\ emitted' = emitted /\ done' = done
        /\ wpc[s] = "push" /\ wpc'[s] \in {"check", "finish"}
    <3>1. queue \in [Scans -> Seq(Nat)] BY DEF IInv, TypeOK
    <3> QED BY <1>0, <1>13, <3>1 DEF QueueLine, PushLine
  <2>2. HasRoom(s) BY <2>1 DEF IInv, LineInv, LineOf
  <2>3. ~ThreadOver(s)' BY <2>1 DEF ThreadOver
  <2>4. /\ Pushed(s)' = Pushed(s) + 1
        /\ notice'[s] + emitted[s] = Pushed(s)'
    BY <1>2, <2>1 DEF Pushed
  <2>5. Channel!Send BY <1>0, <1>2, <2>1, <2>2, <2>3, <2>4, PushIsSend
  <2> QED BY <2>5 DEF Channel!Next
<1>14. CASE ProbePanic(s)
  <2>1. /\ handle' = handle /\ ThreadOver(s)'
        /\ UNCHANGED <<conf, queue, notice, emitted, done>>
        /\ wpc[s] # "push" /\ wpc'[s] # "push"
    BY <1>0, <1>14 DEF ProbePanic, ThreadOver
  <2>2. AbsEnded' = TRUE BY <1>1, <2>1 DEF AbsOpen, AbsEnded, ThreadOver
  <2>3. UNCHANGED <<AbsOpen, AbsDone, AbsCapacity, AbsBuffer>>
    BY <1>1, <2>1 DEF AbsOpen, AbsDone, AbsCapacity, AbsBuffer
  <2>4. AbsSent' = AbsSent BY <1>1, <2>1 DEF AbsOpen, AbsSent, Pushed
  <2>5. Channel!Unwind BY <1>1, <2>2, <2>3, <2>4 DEF Channel!Unwind
  <2> QED BY <2>5 DEF Channel!Next
<1>15. CASE Finish(s)
  <2>1. /\ handle' = handle /\ ThreadOver(s)' /\ done'[s]
        /\ UNCHANGED <<conf, queue, notice, emitted>>
        /\ wpc[s] # "push" /\ wpc'[s] # "push"
    <3>1. done \in [Scans -> BOOLEAN] BY DEF IInv, TypeOK
    <3> QED BY <1>0, <1>15, <3>1 DEF Finish, ThreadOver
  <2>2. AbsEnded' = TRUE BY <1>1, <2>1 DEF AbsOpen, AbsEnded, ThreadOver
  <2>3. AbsDone' = TRUE BY <1>1, <2>1 DEF AbsOpen, AbsDone
  <2>4. UNCHANGED <<AbsOpen, AbsCapacity, AbsBuffer>>
    BY <1>1, <2>1 DEF AbsOpen, AbsCapacity, AbsBuffer
  <2>5. AbsSent' = AbsSent BY <1>1, <2>1 DEF AbsOpen, AbsSent, Pushed
  <2>6. Channel!End BY <1>1, <2>2, <2>3, <2>4, <2>5 DEF Channel!End
  <2> QED BY <2>6 DEF Channel!Next
<1>16. CASE SandboxMissing(s)
  BY <1>0, <1>1, <1>16, Stutter DEF SandboxMissing, ThreadOver
<1> QED BY <1>3, <1>4, <1>5, <1>6, <1>7, <1>8, <1>9, <1>10, <1>11, <1>12, <1>13, <1>14, <1>15, <1>16
       DEF Worker

(* A step of a client is a step of the channel or leaves it alone.           *)
LEMMA ClientStep ==
  ASSUME IInv, IInv', NEW c \in Clients, Client(c)
  PROVE  Channel!Next \/ UNCHANGED Channel!vars
<1> USE DEF slot, flags, counters, channel, clients, ClientGoto
<1>1. CASE NextEnter(c) BY <1>1, Stutter DEF NextEnter, ThreadOver
<1>2. CASE NextTooSmall(c) BY <1>2, Stutter DEF NextTooSmall, ThreadOver
<1>3. CASE NextEmpty(c) BY <1>3, Stutter DEF NextEmpty, ThreadOver
<1>4. CASE NextEnd(c) BY <1>4, Stutter DEF NextEnd, Leave, ThreadOver
<1>5. CASE NextWait(c) BY <1>5, Stutter DEF NextWait, Leave, ThreadOver
<1>6. CASE StatusEnter(c) BY <1>6, Stutter DEF StatusEnter, ThreadOver
<1>7. CASE StatusRunning(c) BY <1>7, Stutter DEF StatusRunning, ThreadOver
<1>8. CASE StatusDone(c) BY <1>8, Stutter DEF StatusDone, ThreadOver
<1>9. CASE StatusTotals(c) BY <1>9, Stutter DEF StatusTotals, Leave, ThreadOver
<1>10. CASE StopJoining(c) BY <1>10, Stutter DEF StopJoining, ThreadOver
<1>11. CASE StopAgain(c) BY <1>11, Stutter DEF StopAgain, ThreadOver
<1>12. CASE StopJoined(c) BY <1>12, Stutter DEF StopJoined, ThreadOver
<1>13. CASE NextLine(c)
  <2>1. handle \in Scans BY <1>13, HolderScan DEF IInv, Holding, NextLine
  <2>2. /\ handle' = handle
        /\ UNCHANGED <<conf, notice, emitted, wpc, done>>
        /\ queue'[handle] = Tail(queue[handle]) /\ queue[handle] # <<>>
    <3>1. queue \in [Scans -> Seq(Nat)] BY DEF IInv, TypeOK
    <3> QED BY <1>13, <2>1, <3>1 DEF NextLine
  <2>3. AbsOpen /\ AbsOpen' BY <2>1, <2>2 DEF AbsOpen, Scans, NoScan
  <2>4. queue[handle] \in Seq(Nat) /\ notice[handle] \in Nat
    BY <2>1, ScanNumbers DEF IInv, TypeOK
  <2>5. AbsBuffer' = Shift(Tail(queue[handle]), notice[handle])
    BY <2>2, <2>3 DEF AbsBuffer, Shift
  <2>6. AbsBuffer' = Tail(AbsBuffer) /\ AbsBuffer # <<>>
    BY <2>2, <2>3, <2>4, <2>5, ShiftTail, BufferIsShift
  <2>7. UNCHANGED <<AbsOpen, AbsEnded, AbsDone, AbsCapacity, AbsSent>>
    BY <2>2, <2>3 DEF AbsOpen, AbsEnded, AbsDone, ThreadOver, AbsCapacity, AbsSent, Pushed
  <2>8. Channel!Take BY <2>3, <2>6, <2>7 DEF Channel!Take
  <2> QED BY <2>8 DEF Channel!Next
<1>14. CASE StopClear(c)
  <2>1. handle # NoScan /\ ThreadOver(handle) /\ handle' = NoScan
    BY <1>14 DEF IInv, SlotInv, StopClear, Joining
  <2>2. AbsOpen /\ AbsEnded BY <2>1 DEF AbsOpen, AbsEnded
  <2>3. /\ AbsOpen' = FALSE /\ AbsEnded' = FALSE /\ AbsDone' = FALSE
        /\ AbsCapacity' = 0 /\ AbsSent' = 0 /\ AbsBuffer' = <<>>
    BY <2>1 DEF AbsOpen, AbsEnded, AbsDone, AbsCapacity, AbsSent, AbsBuffer
  <2>4. Channel!Close BY <2>2, <2>3 DEF Channel!Close
  <2> QED BY <2>4 DEF Channel!Next
<1>15. ASSUME NEW config \in Configs, Start(c, config)
      PROVE  Channel!Next
  <2>1. started' \in Scans /\ handle' = started' /\ handle = NoScan
        /\ started' = started + 1
    BY <1>15, ConstantTypes DEF Start, SlotEmpty, Scans, IInv, TypeOK
  <2>2. /\ UNCHANGED <<queue, emitted, notice, done>>
        /\ conf'[started'] = config /\ wpc'[started'] = "open"
    BY <1>15, <2>1 DEF Start, IInv, TypeOK
  <2>3. /\ queue'[started'] = <<>> /\ emitted'[started'] = 0
        /\ notice'[started'] = 0 /\ ~done'[started']
    BY <2>1, <2>2 DEF IInv, LineInv, LineOf
  <2>4. ~AbsOpen /\ AbsOpen' = TRUE BY <2>1 DEF AbsOpen, Scans, NoScan
  <2>5. AbsEnded' = FALSE /\ AbsDone' = FALSE
    BY <2>1, <2>2, <2>3 DEF AbsEnded, AbsDone, AbsOpen, ThreadOver
  <2>6. AbsCapacity' = config.cap BY <2>1, <2>2, <2>4 DEF AbsCapacity
  <2>7. AbsSent' = 0 BY <2>1, <2>2, <2>3, <2>4 DEF AbsSent, Pushed
  <2>8. AbsBuffer' = <<>>
    <3>1. AbsBuffer' = Shift(queue'[handle'], notice'[handle'])
      BY <2>4 DEF AbsBuffer, Shift
    <3> QED BY <2>1, <2>3, <3>1, ShiftEmpty
  <2>9. Channel!Open BY <2>4, <2>5, <2>6, <2>7, <2>8 DEF Channel!Open
  <2> QED BY <2>9 DEF Channel!Next
<1> QED BY <1>1, <1>2, <1>3, <1>4, <1>5, <1>6, <1>7, <1>8, <1>9, <1>10, <1>11, <1>12, <1>13, <1>14, <1>15 DEF Client

(* Every behaviour of the interface, with its mutexes, flags and two-phase   *)
(* stop, is a behaviour of the abstract channel.                             *)
THEOREM Refinement == Spec => ImplementsChannel
<1>1. IInv /\ IInv' /\ [Next]_vars => [Channel!Next]_(Channel!vars)
  <2> SUFFICES ASSUME IInv, IInv', [Next]_vars
               PROVE  Channel!Next \/ UNCHANGED Channel!vars
    OBVIOUS
  <2>1. CASE UNCHANGED vars
    BY <2>1, Stutter
       DEF vars, slot, flags, counters, channel, clients, ThreadOver
  <2>2. CASE Next BY <2>2, WorkerStep, ClientStep DEF Next
  <2> QED BY <2>1, <2>2
<1> QED BY <1>1, ChannelInit, Invariance, PTL DEF Spec, ImplementsChannel, Channel!Spec
=============================================================================
