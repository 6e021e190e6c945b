----------------------------- MODULE MobileScan -----------------------------
(* The scan interface of crates/mobile_ffi/src/lib.rs: the global SCAN slot  *)
(* and its mutex, one SharedState per scan with its queue mutex and atomic   *)
(* flags, the worker thread that fills the queue, and any number of foreign  *)
(* threads calling start, next, status and stop.                             *)
(*                                                                           *)
(* A step is one access to state two threads share.  Scans are numbered in   *)
(* the order they are started; the SharedState of scan s is the s-th element *)
(* of every function below.  The line of the i-th executed instruction is    *)
(* the number i, the notice of a fallback to dry-run is 0.                   *)
EXTENDS Naturals, Sequences, FiniteSets

CONSTANTS Clients,       \* threads of the application
          NoClient,      \* nobody holds the mutex
          Configs,       \* the MobileScanConfig values start may be given
          MaxScans,      \* bound on the scans a behaviour starts
          MaxEvents      \* bound on the candidates of one scan's range

(* "stub" is the sandbox mode of a build for any other target.               *)
Modes == {"native", "dry", "sandbox", "stub", "corpus"}

(* mode; max_packets; queue_capacity; require_native; and whether the range  *)
(* starts with all 16 bytes specified, on which the tunnel strategy panics.  *)
ConfigType == [mode : Modes, max : Nat, cap : Nat, required : BOOLEAN,
               wide : BOOLEAN]

ASSUME ClientAssumption == NoClient \notin Clients
ASSUME ConfigAssumption == /\ Configs \subseteq ConfigType
                           /\ \A c \in Configs : c.cap > 0
ASSUME BoundAssumption == MaxScans \in Nat /\ MaxEvents \in Nat

Scans == 1 .. MaxScans

VARIABLES
  guard,      \* who holds the mutex of the SCAN slot between two steps
  handle,     \* the scan the slot holds, 0 for None
  attached,   \* the slot's thread handle is Some (nobody is joining yet)
  started,    \* scans started so far
  conf,       \* configuration of each scan
  stop, done, error,   \* SharedState.stop, .done, and .error is not empty
  emitted, skipped,    \* SharedState counters
  last,       \* line whose instruction last_instruction names
  queue,      \* SharedState.queue
  qlock,      \* client that holds the queue mutex between two steps
  wpc,        \* where the worker thread of each scan is
  notice,     \* 1 when the worker queued a fallback notice, else 0
  received,   \* lines handed out by scan_next (history)
  cpc,        \* where each client is
  snap        \* what a client has read so far: scan joined, flags seen

slot == <<guard, handle, attached, started, conf>>
flags == <<stop, done, error>>
counters == <<emitted, skipped, last>>
channel == <<queue, qlock, notice, received>>
clients == <<cpc, snap>>
vars == <<slot, flags, counters, channel, wpc, clients>>

NoScan == 0
NoSnap == [scan |-> NoScan, running |-> FALSE, done |-> FALSE]
Unstarted == [mode |-> "dry", max |-> 0, cap |-> 1, required |-> FALSE,
              wide |-> FALSE]

SnapType == [scan : Scans \cup {NoScan}, running : BOOLEAN, done : BOOLEAN]

WorkerPCs == {"unborn", "open", "check", "room", "probe", "count", "push",
              "finish", "exited", "panicked"}
ClientPCs == {"idle", "front", "drained", "running", "done", "totals",
              "join", "clear"}

Init ==
  /\ guard = NoClient /\ handle = NoScan /\ attached = FALSE /\ started = 0
  /\ conf = [s \in Scans |-> Unstarted]
  /\ stop = [s \in Scans |-> FALSE]
  /\ done = [s \in Scans |-> FALSE]
  /\ error = [s \in Scans |-> FALSE]
  /\ emitted = [s \in Scans |-> 0]
  /\ skipped = [s \in Scans |-> 0]
  /\ last = [s \in Scans |-> 0]
  /\ queue = [s \in Scans |-> <<>>]
  /\ qlock = [s \in Scans |-> NoClient]
  /\ notice = [s \in Scans |-> 0]
  /\ received = [s \in Scans |-> 0]
  /\ wpc = [s \in Scans |-> "unborn"]
  /\ cpc = [c \in Clients |-> "idle"]
  /\ snap = [c \in Clients |-> NoSnap]

-----------------------------------------------------------------------------
(* The worker thread of scan s: run_instruction_worker, run_sandbox_worker.  *)

WorkerGoto(s, pc) == wpc' = [wpc EXCEPT ![s] = pc]

(* Mutant: the queue used without its mutex.                                 *)
QueueUnguarded(s) == s \in Scans

QueueFree(s) == qlock[s] = NoClient

(* Mutant: push_front for push_back.                                         *)
PushLineFirst(s, line) == /\ QueueFree(s)
                          /\ queue' = [queue EXCEPT ![s] = <<line>> \o @]

(* VecDeque::push_back under the queue mutex.                                *)
PushLine(s, line) == /\ QueueFree(s)
                     /\ queue' = [queue EXCEPT ![s] = Append(@, line)]

(* The backend opens.  Dry-run and sandbox mode need none.                   *)
BackendReady(s) ==
  /\ wpc[s] = "open" /\ conf[s].mode # "stub"
  /\ WorkerGoto(s, "check")
  /\ UNCHANGED <<slot, flags, counters, channel, clients>>

(* set_error: an unavailable corpus, or a required native backend, ends the  *)
(* scan before the engine exists.                                            *)
BackendMissing(s) ==
  /\ wpc[s] = "open"
  /\ \/ conf[s].mode = "corpus"
     \/ conf[s].mode = "native" /\ conf[s].required
  /\ error' = [error EXCEPT ![s] = TRUE]
  /\ WorkerGoto(s, "finish")
  /\ UNCHANGED <<slot, stop, done, counters, channel, clients>>

(* The native backend is unavailable and was not required: queue a notice    *)
(* and go on with dry-run.                                                   *)
BackendFallback(s) ==
  /\ wpc[s] = "open"
  /\ conf[s].mode = "native" /\ ~conf[s].required
  /\ PushLine(s, 0)
  /\ notice' = [notice EXCEPT ![s] = 1]
  /\ WorkerGoto(s, "check")
  /\ UNCHANGED <<slot, flags, counters, qlock, received, clients>>

(* Without sandbox_check the worker counts and pushes one line and is done;  *)
(* it reads neither the stop flag nor the room in the queue.                 *)
SandboxMissing(s) ==
  /\ wpc[s] = "open" /\ conf[s].mode = "stub"
  /\ WorkerGoto(s, "count")
  /\ UNCHANGED <<slot, flags, counters, channel, clients>>

(* run_instruction_worker serves the scan, not run_sandbox_worker.           *)
Instructions(s) == conf[s].mode \notin {"sandbox", "stub"}

(* max_packets ends an instruction scan; the sandbox worker never looks.     *)
Exhausted(s) == /\ Instructions(s)
                /\ conf[s].max # 0
                /\ emitted[s] >= conf[s].max

(* Top of the loop, and of wait_for_queue_capacity: the stop flag, then the  *)
(* packet budget.                                                            *)
CheckStop(s) ==
  /\ wpc[s] = "check"
  /\ WorkerGoto(s, IF stop[s] \/ Exhausted(s) THEN "finish" ELSE "room")
  /\ UNCHANGED <<slot, flags, counters, channel, clients>>

(* wait_for_queue_capacity looks under the queue mutex and, when the queue   *)
(* is full, drops it, sleeps and reads the stop flag again.                  *)
RoomForOneMore(s) == Len(queue[s]) <= conf[s].cap     \* mutant: <= for <
HasRoom(s) == Len(queue[s]) < conf[s].cap

(* Mutant: the wait spins on the queue without reading the stop flag.        *)
CheckRoomOnly(s) ==
  /\ wpc[s] = "room"
  /\ QueueFree(s)
  /\ WorkerGoto(s, IF HasRoom(s) THEN "probe" ELSE "room")
  /\ UNCHANGED <<slot, flags, counters, channel, clients>>

CheckRoom(s) ==
  /\ wpc[s] = "room"
  /\ QueueFree(s)
  /\ WorkerGoto(s, IF HasRoom(s) THEN "probe" ELSE "check")
  /\ UNCHANGED <<slot, flags, counters, channel, clients>>

InRange(s) == emitted[s] + skipped[s] < MaxEvents

(* engine.next_event (or sandbox_check) gave a result: name its instruction. *)
Executed(s) ==
  /\ wpc[s] = "probe"
  /\ InRange(s)
  /\ last' = [last EXCEPT ![s] = IF Instructions(s)
                                  THEN emitted[s] + 1 ELSE @]
  /\ WorkerGoto(s, "count")
  /\ UNCHANGED <<slot, flags, emitted, skipped, channel, clients>>

(* The candidate was skipped by the prefix or opcode policy.                 *)
SkippedEvent(s) ==
  /\ wpc[s] = "probe" /\ Instructions(s)
  /\ InRange(s)
  /\ skipped' = [skipped EXCEPT ![s] = @ + 1]
  /\ WorkerGoto(s, "check")
  /\ UNCHANGED <<slot, flags, emitted, last, channel, clients>>

(* Ok(None), or the end of SANDBOX_OPS: the range is exhausted.              *)
RangeEnd(s) ==
  /\ wpc[s] = "probe"
  /\ WorkerGoto(s, "finish")
  /\ UNCHANGED <<slot, flags, counters, channel, clients>>

(* Err(e): the backend failed.                                               *)
ProbeError(s) ==
  /\ wpc[s] = "probe" /\ conf[s].mode \in {"native", "corpus"}
  /\ error' = [error EXCEPT ![s] = TRUE]
  /\ WorkerGoto(s, "finish")
  /\ UNCHANGED <<slot, stop, done, counters, channel, clients>>

(* The second candidate of a range that starts with 16 specified bytes       *)
(* indexes past the tunnel's byte array: the thread unwinds, done stays      *)
(* false.                                                                    *)
ProbePanic(s) ==
  /\ wpc[s] = "probe" /\ conf[s].wide
  /\ emitted[s] + skipped[s] >= 1
  /\ WorkerGoto(s, "panicked")
  /\ UNCHANGED <<slot, flags, counters, channel, clients>>

(* Mutant: fetch_sub for fetch_add.                                          *)
CountDown(s) ==
  /\ wpc[s] = "count"
  /\ emitted' = [emitted EXCEPT ![s] = @ - 1]
  /\ WorkerGoto(s, "push")
  /\ UNCHANGED <<slot, flags, skipped, last, channel, clients>>

(* emitted.fetch_add(1).                                                     *)
CountLine(s) ==
  /\ wpc[s] = "count"
  /\ emitted' = [emitted EXCEPT ![s] = @ + 1]
  /\ WorkerGoto(s, "push")
  /\ UNCHANGED <<slot, flags, skipped, last, channel, clients>>

(* queue.push_back(line).                                                    *)
QueueLine(s) ==
  /\ wpc[s] = "push"
  /\ PushLine(s, emitted[s])
  /\ WorkerGoto(s, IF conf[s].mode = "stub" THEN "finish" ELSE "check")
  /\ UNCHANGED <<slot, flags, counters, qlock, notice, received, clients>>

(* done.store(true) is the worker's last act.                                *)
Finish(s) ==
  /\ wpc[s] = "finish"
  /\ done' = [done EXCEPT ![s] = TRUE]
  /\ WorkerGoto(s, "exited")
  /\ UNCHANGED <<slot, stop, error, counters, channel, clients>>

Worker(s) == \/ BackendReady(s) \/ BackendMissing(s) \/ BackendFallback(s)
             \/ SandboxMissing(s)
             \/ CheckStop(s) \/ CheckRoom(s)
             \/ Executed(s) \/ SkippedEvent(s) \/ RangeEnd(s)
             \/ ProbeError(s) \/ ProbePanic(s)
             \/ CountLine(s) \/ QueueLine(s) \/ Finish(s)

-----------------------------------------------------------------------------
(* The C interface, called by client c.  A client idle and a client waiting  *)
(* for the SCAN mutex are not told apart.                                    *)

ClientGoto(c, pc) == cpc' = [cpc EXCEPT ![c] = pc]

CanEnter(c) == cpc[c] = "idle" /\ guard = NoClient

SlotOpen == handle \in {NoScan} \cup Scans       \* mutant: is_some not checked
SlotEmpty == handle = NoScan

(* start_scan with an empty slot: a fresh SharedState, a worker, the handle. *)
Start(c, config) ==
  /\ CanEnter(c)
  /\ SlotEmpty
  /\ started < MaxScans
  /\ started' = started + 1
  /\ handle' = started'
  /\ attached' = TRUE
  /\ conf' = [conf EXCEPT ![started'] = config]
  /\ wpc' = [wpc EXCEPT ![started'] = "open"]
  /\ UNCHANGED <<guard, flags, counters, channel, clients>>

(* scan_next takes the SCAN mutex and waits for the queue mutex.             *)
NextEnter(c) ==
  /\ CanEnter(c)
  /\ handle # NoScan
  /\ guard' = c
  /\ ClientGoto(c, "front")
  /\ UNCHANGED <<handle, attached, started, conf, flags, counters, channel,
                 wpc, snap>>

(* A line is waiting and fits the caller's buffer: it is handed out.         *)
NextLine(c) ==
  /\ cpc[c] = "front"
  /\ QueueFree(handle)
  /\ queue[handle] # <<>>
  /\ queue' = [queue EXCEPT ![handle] = Tail(@)]
  /\ received' = [received EXCEPT ![handle] = @ + 1]
  /\ guard' = NoClient
  /\ ClientGoto(c, "idle")
  /\ UNCHANGED <<handle, attached, started, conf, flags, counters, qlock,
                 notice, wpc, snap>>

(* A line is waiting and does not fit (-3): it stays where it is.            *)
NextTooSmall(c) ==
  /\ cpc[c] = "front"
  /\ QueueFree(handle)
  /\ queue[handle] # <<>>
  /\ guard' = NoClient
  /\ ClientGoto(c, "idle")
  /\ UNCHANGED <<handle, attached, started, conf, flags, counters, channel,
                 wpc, snap>>

(* Nothing is waiting: the queue mutex is kept while done is read.           *)
NextEmpty(c) ==
  /\ cpc[c] = "front"
  /\ QueueFree(handle)
  /\ queue[handle] = <<>>
  /\ qlock' = [qlock EXCEPT ![handle] = c]
  /\ ClientGoto(c, "drained")
  /\ UNCHANGED <<slot, flags, counters, queue, notice, received, wpc, snap>>

(* Both mutexes are released: -1 when done was set, else 0.                  *)
Leave(c) ==
  /\ qlock' = [qlock EXCEPT ![handle] = NoClient]
  /\ guard' = NoClient
  /\ ClientGoto(c, "idle")
  /\ UNCHANGED <<handle, attached, started, conf, flags, counters, queue,
                 notice, received, wpc>>

NextEnd(c) ==
  /\ cpc[c] = "drained" /\ done[handle]
  /\ Leave(c) /\ UNCHANGED snap

NextWait(c) ==
  /\ cpc[c] = "drained" /\ ~done[handle]
  /\ Leave(c) /\ UNCHANGED snap

(* scan_status holds both mutexes and loads done twice, for "running" and    *)
(* for "done", then the counters.                                            *)
StatusEnter(c) ==
  /\ CanEnter(c)
  /\ handle # NoScan
  /\ QueueFree(handle)
  /\ guard' = c
  /\ qlock' = [qlock EXCEPT ![handle] = c]
  /\ ClientGoto(c, "running")
  /\ UNCHANGED <<handle, attached, started, conf, flags, counters, queue,
                 notice, received, wpc, snap>>

StatusRunning(c) ==
  /\ cpc[c] = "running"
  /\ snap' = [snap EXCEPT ![c].running = ~done[handle]]
  /\ ClientGoto(c, "done")
  /\ UNCHANGED <<slot, flags, counters, channel, wpc>>

(* Mutant: a stopped scan is taken for a finished one.                       *)
StatusStopped(c) ==
  /\ cpc[c] = "done"
  /\ snap' = [snap EXCEPT ![c].done = stop[handle]]
  /\ ClientGoto(c, "totals")
  /\ UNCHANGED <<slot, flags, counters, channel, wpc>>

StatusDone(c) ==
  /\ cpc[c] = "done"
  /\ snap' = [snap EXCEPT ![c].done = done[handle]]
  /\ ClientGoto(c, "totals")
  /\ UNCHANGED <<slot, flags, counters, channel, wpc>>

StatusTotals(c) ==
  /\ cpc[c] = "totals"
  /\ snap' = [snap EXCEPT ![c] = NoSnap]
  /\ Leave(c)

(* scan_stop raises the stop flag.  The caller that finds the thread handle  *)
(* takes it and joins outside the SCAN mutex; any other returns at once.     *)
StopJoining(c) ==
  /\ CanEnter(c)
  /\ handle # NoScan /\ attached
  /\ stop' = [stop EXCEPT ![handle] = TRUE]
  /\ attached' = FALSE
  /\ snap' = [snap EXCEPT ![c].scan = handle]
  /\ ClientGoto(c, "join")
  /\ UNCHANGED <<guard, handle, started, conf, done, error, counters, channel,
                 wpc>>

StopAgain(c) ==
  /\ CanEnter(c)
  /\ handle # NoScan /\ ~attached
  /\ stop' = [stop EXCEPT ![handle] = TRUE]
  /\ UNCHANGED <<slot, done, error, counters, channel, wpc, clients>>

ThreadSignalled(s) == stop[s]                     \* mutant: no join
ThreadOver(s) == wpc[s] \in {"exited", "panicked"}

StopJoined(c) ==
  /\ cpc[c] = "join"
  /\ ThreadOver(snap[c].scan)
  /\ ClientGoto(c, "clear")
  /\ UNCHANGED <<slot, flags, counters, channel, wpc, snap>>

(* *lock(global_scan()) = None, whatever the slot holds by then.             *)
StopClear(c) ==
  /\ cpc[c] = "clear"
  /\ guard = NoClient
  /\ handle' = NoScan
  /\ attached' = FALSE
  /\ snap' = [snap EXCEPT ![c] = NoSnap]
  /\ ClientGoto(c, "idle")
  /\ UNCHANGED <<guard, started, conf, flags, counters, channel, wpc>>

Client(c) == \/ \E config \in Configs : Start(c, config)
             \/ NextEnter(c) \/ NextLine(c) \/ NextTooSmall(c)
             \/ NextEmpty(c) \/ NextEnd(c) \/ NextWait(c)
             \/ StatusEnter(c) \/ StatusRunning(c) \/ StatusDone(c)
             \/ StatusTotals(c)
             \/ StopJoining(c) \/ StopAgain(c) \/ StopJoined(c)
             \/ StopClear(c)

Next == \/ \E s \in Scans : Worker(s)
        \/ \E c \in Clients : Client(c)

(* A call in progress and a running thread are scheduled; no client need     *)
(* ever make a call.  The SCAN mutex is taken again by a joined stop even    *)
(* when other clients keep entering (strong fairness of the mutex).          *)
InCall(c) == \/ NextLine(c) \/ NextTooSmall(c) \/ NextEmpty(c)
             \/ NextEnd(c) \/ NextWait(c)
             \/ StatusRunning(c) \/ StatusDone(c) \/ StatusTotals(c)
             \/ StopJoined(c)

(* The worker's queue mutex is contended by clients that poll, so it too is  *)
(* granted infinitely often only if the mutex does not starve a waiter.      *)
Fairness == /\ \A s \in Scans : SF_vars(Worker(s))
            /\ \A c \in Clients : WF_vars(InCall(c)) /\ SF_vars(StopClear(c))

Spec == Init /\ [][Next]_vars
FairSpec == Spec /\ Fairness

-----------------------------------------------------------------------------
TypeOK ==
  /\ guard \in Clients \cup {NoClient}
  /\ handle \in Scans \cup {NoScan}
  /\ attached \in BOOLEAN
  /\ started \in 0 .. MaxScans
  /\ conf \in [Scans -> ConfigType]
  /\ \A s \in Scans : conf[s].cap > 0
  /\ stop \in [Scans -> BOOLEAN]
  /\ done \in [Scans -> BOOLEAN]
  /\ error \in [Scans -> BOOLEAN]
  /\ emitted \in [Scans -> Nat]
  /\ skipped \in [Scans -> Nat]
  /\ last \in [Scans -> Nat]
  /\ queue \in [Scans -> Seq(Nat)]
  /\ qlock \in [Scans -> Clients \cup {NoClient}]
  /\ wpc \in [Scans -> WorkerPCs]
  /\ notice \in [Scans -> {0, 1}]
  /\ received \in [Scans -> Nat]
  /\ cpc \in [Clients -> ClientPCs]
  /\ snap \in [Clients -> SnapType]

(* The bounded queue stays within queue_capacity although room is checked    *)
(* and the line pushed under two separate lockings, with a probe between;    *)
(* and an instruction scan never emits more than max_packets, although the   *)
(* budget is tested before the wait for room and spent after it.             *)
QueueBounded == \A s \in Scans : Len(queue[s]) <= conf[s].cap

MaxRespected ==
  \A s \in Scans : Instructions(s) /\ conf[s].max # 0
                      => emitted[s] <= conf[s].max

BoundsKept == QueueBounded /\ MaxRespected

Live(s) == wpc[s] \notin {"unborn", "exited", "panicked"}

(* At most one worker thread is alive, and it is the one of the scan in the  *)
(* slot: concurrent stops and starts never leave an orphan, and never clear  *)
(* the slot under a newer scan.                                              *)
OneWorker == \A s \in Scans : Live(s) => s = handle

(* Lines pushed by the worker: all it has counted, less the one in hand.     *)
Pushed(s) == notice[s] + emitted[s] - (IF wpc[s] = "push" THEN 1 ELSE 0)

Consecutive(lines, before) == \A i \in 1 .. Len(lines) : lines[i] = before + i

InOrder(s) == /\ received[s] + Len(queue[s]) = Pushed(s)
              /\ Consecutive(queue[s], received[s] - notice[s])

(* Nothing is lost, duplicated or reordered between the worker and scan_next *)
(* calls from any threads: what was handed out and what is queued are the    *)
(* lines pushed, in order.                                                   *)
StreamInOrder == \A s \in Scans : InOrder(s)

(* scan_next answers -1 on a live handle only when the worker can add        *)
(* nothing more and every line has been handed out, although the two facts   *)
(* are read at different moments.                                            *)
EndMeansDrained ==
  [][\A c \in Clients :
       NextEnd(c) => /\ wpc[handle] = "exited"
                     /\ received[handle] = notice[handle] + emitted[handle]]_vars

(* A status never says neither running nor done, and one that says done      *)
(* carries the final totals of the scan.                                     *)
StatusCoherent ==
  \A c \in Clients : cpc[c] = "totals" =>
    /\ snap[c].running \/ snap[c].done
    /\ snap[c].done => /\ wpc[handle] = "exited"
                       /\ received[handle] + Len(queue[handle])
                            = notice[handle] + emitted[handle]

(* A stop that joins comes back, also when the worker was waiting for room   *)
(* in a queue nobody empties any more.                                       *)
StopReturns ==
  \A c \in Clients : cpc[c] = "join" ~> cpc[c] = "idle"

(* scan_next answers 0 ("queue is empty but scan is still running") only     *)
(* while the worker thread is alive.                                         *)
WaitMeansRunning ==
  [][\A c \in Clients : NextWait(c) => wpc[handle] # "panicked"]_vars

(* The interface implements the abstract channel: a worker that unwound has  *)
(* ended without its done flag.                                              *)
AbsOpen == handle # NoScan
AbsEnded == AbsOpen /\ ThreadOver(handle)
AbsDone == AbsOpen /\ done[handle]
AbsCapacity == IF AbsOpen THEN conf[handle].cap ELSE 0
AbsSent == IF AbsOpen THEN Pushed(handle) ELSE 0
AbsBuffer == IF AbsOpen
             THEN [i \in 1 .. Len(queue[handle]) |->
                     queue[handle][i] + notice[handle]]
             ELSE <<>>

Channel == INSTANCE ScanChannel WITH
  Capacities <- {config.cap : config \in Configs},
  open <- AbsOpen, ended <- AbsEnded, done <- AbsDone,
  capacity <- AbsCapacity, sent <- AbsSent, buffer <- AbsBuffer

ImplementsChannel == Channel!Spec
=============================================================================
