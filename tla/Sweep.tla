-------------------------------- MODULE Sweep --------------------------------
(* crates/injector: main, and a brute search with -j.  range.rs cuts the     *)
(* range where its leading bytes change; the supervisor of main.rs runs one  *)
(* injector process per piece, at most jobs at a time, and waits for them in *)
(* the order it started them.  A worker is the brute search of Engine on its *)
(* own piece, here as the set of candidates it has left (Engine checks that  *)
(* it offers each of them once, in order).                                   *)
EXTENDS Options, FiniteSets

CONSTANT CommandLines

VARIABLES args, conf,     \* the command line, and what it was read as
          pc,             \* main, split, run, then how the process ended
          marker,         \* where the next piece starts
          ranges,         \* the pieces
          next,           \* next_range, counted from 1
          active,         \* workers not yet waited for, oldest first
          status, rest,   \* of the worker of each piece
          read,           \* what it made of its arguments
          printed, tried  \* lines all workers printed, and their candidates

splitting == <<args, conf, marker, ranges>>
pool == <<next, active>>
output == <<printed, tried>>
workers == <<status, rest, read, output>>
vars == <<splitting, pool, workers, pc>>

(* A -j search is a brute search here; main refuses random and driven ones.  *)
ASSUME SweepAssumption ==
  \A line \in CommandLines :
    /\ line \in Seq(Argument)
    /\ Accepted(line) /\ ConfigOf(line).jobs > 1 =>
         ConfigOf(line).mode # "tunnel"

Configured(line) == IF Accepted(line) THEN ConfigOf(line) ELSE Default

Start == StartOf(conf)
End == EndOf(conf)

(* No -l is one byte, and no more than there are.                            *)
LeadingBytes == Smaller(Larger(conf.rangeBytes, 1), Width)

Init == /\ args \in CommandLines
        /\ conf = Configured(args)
        /\ pc = "main"
        /\ marker = Start
        /\ ranges = <<>>
        /\ next = 1 /\ active = <<>>
        /\ status = <<>> /\ rest = <<>> /\ read = <<>> /\ printed = 0 /\ tried = {}

-----------------------------------------------------------------------------
(* main                                                                      *)

(* --help anywhere, also among arguments that cannot be read; otherwise such *)
(* arguments end the process.                                                *)
Usage == /\ pc = "main"
         /\ AsksHelp(args) \/ ~Accepted(args)
         /\ pc' = "usage"
         /\ UNCHANGED <<splitting, pool, workers>>

Parallel == conf.jobs > 1 /\ ~conf.worker

(* One process: the searches of Engine.                                      *)
Alone == /\ pc = "main"
         /\ Accepted(args) /\ ~AsksHelp(args)
         /\ ~Parallel
         /\ pc' = "alone"
         /\ UNCHANGED <<splitting, pool, workers>>

RefuseMode == /\ pc = "main"
              /\ Accepted(args) /\ ~AsksHelp(args)
              /\ Parallel /\ conf.mode \in {"random", "driven"}
              /\ pc' = "failed"
              /\ UNCHANGED <<splitting, pool, workers>>

Supervise == /\ pc = "main"
             /\ Accepted(args) /\ ~AsksHelp(args)
             /\ Parallel /\ conf.mode \notin {"random", "driven"}
             /\ pc' = "split"
             /\ UNCHANGED <<splitting, pool, workers>>

-----------------------------------------------------------------------------
(* A worker is this program again, with the arguments made for it; one that  *)
(* cannot read them has no configuration, and nothing to do.                 *)
Read(i) == {ConfigOf(line) : line \in {arguments \in {WorkerArgs(args, ranges[i])} :
                                          Accepted(arguments)}}

WorkerSet(configs) == UNION {SearchOf(config) : config \in configs}

-----------------------------------------------------------------------------
(* split_search_range, one round of its loop.                                *)

(* increment_range: the number in the leading bytes grows by one.            *)
Stepped(m) ==
  LET cut == ZeroFrom(m.bytes, LeadingBytes)
      i == CHOOSE i \in 0 .. LeadingBytes - 1 :
             CarriesTo(cut, LeadingBytes, i)
  IN  [bytes |-> Carried(cut, LeadingBytes, i), len |-> LeadingBytes]

(* Mutant: the last piece is not clipped to the end.                         *)
PieceEndUnclipped(m) ==
  IF WrapsAround(m.bytes, LeadingBytes) THEN End ELSE Stepped(m)

PieceEnd(m) ==
  IF \/ WrapsAround(m.bytes, LeadingBytes)
     \/ Precedes(End.bytes, Stepped(m).bytes)
  THEN End ELSE Stepped(m)

StartRunning(pieces) ==
  /\ pc' = "run"
  /\ status' = [i \in DOMAIN pieces |-> "unborn"]
  /\ rest' = [i \in DOMAIN pieces |-> {}]
  /\ read' = [i \in DOMAIN pieces |-> {}]

Split ==
  /\ pc = "split"
  /\ Precedes(marker.bytes, End.bytes)
  /\ ranges' = Append(ranges, [start |-> marker, end |-> PieceEnd(marker)])
  /\ IF Precedes(PieceEnd(marker).bytes, End.bytes)
     THEN /\ marker' = PieceEnd(marker)
          /\ UNCHANGED <<pc, status, rest, read>>
     ELSE StartRunning(ranges') /\ UNCHANGED marker
  /\ UNCHANGED <<args, conf, pool, output>>

(* A range that is empty stays one piece.                                    *)
SplitEmpty ==
  /\ pc = "split" /\ ranges = <<>>
  /\ ~Precedes(marker.bytes, End.bytes)
  /\ ranges' = <<[start |-> Start, end |-> End]>>
  /\ StartRunning(ranges')
  /\ UNCHANGED <<args, conf, marker, pool, output>>

-----------------------------------------------------------------------------
(* run_supervisor                                                            *)

Pending == next <= Len(ranges)

SpawningTooMany == Pending /\ Len(active) <= conf.jobs     \* mutant: <= for <
Spawning == Pending /\ Len(active) < conf.jobs

Spawn ==
  /\ pc = "run" /\ Spawning
  /\ active' = Append(active, next)
  /\ status' = [status EXCEPT ![next] = "running"]
  /\ read' = [read EXCEPT ![next] = Read(next)]
  /\ rest' = [rest EXCEPT ![next] = WorkerSet(read'[next])]
  /\ next' = next + 1
  /\ UNCHANGED <<splitting, output, pc>>

SpawnFails == /\ pc = "run" /\ Spawning
              /\ pc' = "failed"
              /\ UNCHANGED <<splitting, pool, workers>>

(* child.wait() on the worker started first.                                 *)
Reap == /\ pc = "run" /\ ~Spawning /\ active # <<>>
        /\ status[Head(active)] = "succeeded"
        /\ active' = Tail(active)
        /\ UNCHANGED <<splitting, next, workers, pc>>

(* Mutant: a child that failed is waited for again.                          *)
ReapFailedAgain == /\ pc = "run" /\ ~Spawning /\ active # <<>>
                   /\ status[Head(active)] = "failed"
                   /\ UNCHANGED vars

(* Mutant: a worker's exit status is not looked at.                          *)
ReapFailedIgnored == /\ pc = "run" /\ ~Spawning /\ active # <<>>
                     /\ status[Head(active)] = "failed"
                     /\ active' = Tail(active)
                     /\ UNCHANGED <<splitting, next, workers, pc>>

(* It did not succeed: exit with 2, the other workers are left alone.        *)
ReapFailed == /\ pc = "run" /\ ~Spawning /\ active # <<>>
              /\ status[Head(active)] = "failed"
              /\ pc' = "failed"
              /\ UNCHANGED <<splitting, pool, workers>>

(* Mutant: the loop ends with the last piece started.                        *)
FinishEarly == /\ pc = "run" /\ ~Pending
               /\ pc' = "ok"
               /\ UNCHANGED <<splitting, pool, workers>>

Finish == /\ pc = "run" /\ ~Pending /\ active = <<>>
          /\ pc' = "ok"
          /\ UNCHANGED <<splitting, pool, workers>>

Supervisor == \/ Usage \/ Alone \/ RefuseMode \/ Supervise
              \/ Split \/ SplitEmpty \/ Spawn \/ SpawnFails \/ Reap
              \/ ReapFailed \/ Finish

-----------------------------------------------------------------------------
(* A worker prints its candidates in order and exits.                        *)

Report(i) == /\ status[i] = "running" /\ rest[i] # {}
             /\ tried' = tried \cup {Least(rest[i])}
             /\ printed' = printed + 1
             /\ rest' = [rest EXCEPT ![i] = @ \ {Least(@)}]
             /\ UNCHANGED <<splitting, pool, status, read, pc>>

Exit(i) == /\ status[i] = "running" /\ rest[i] = {}
           /\ read[i] # {}
           /\ status' = [status EXCEPT ![i] = "succeeded"]
           /\ UNCHANGED <<splitting, pool, rest, read, output, pc>>

(* It cannot read its arguments, the backend fails, stdout is gone, or a     *)
(* probed instruction kills it.                                              *)
Die(i) == /\ status[i] = "running"
          /\ status' = [status EXCEPT ![i] = "failed"]
          /\ UNCHANGED <<splitting, pool, rest, read, output, pc>>

Worker(i) == Report(i) \/ Exit(i) \/ Die(i)

Next == Supervisor \/ \E i \in DOMAIN status : Worker(i)

(* A process that can run does: every worker comes to an end of its own, and *)
(* the supervisor is woken when the child it waits for has exited.           *)
Fairness == /\ WF_vars(Supervisor)
            /\ WF_vars(\E i \in DOMAIN status : Worker(i))

Spec == Init /\ [][Next]_vars
FairSpec == Spec /\ Fairness

-----------------------------------------------------------------------------
SearchRange == [start : Instruction, end : Instruction]

(* With it: never more than jobs workers at a time, also while the oldest    *)
(* one holds up the reaping of those that have ended.                        *)
TypeOK == /\ args \in CommandLines /\ DOMAIN conf = DOMAIN Default
          /\ pc \in {"main", "usage", "alone", "split", "run", "ok", "failed"}
          /\ marker \in Instruction
          /\ ranges \in Seq(SearchRange)
          /\ next \in 1 .. Len(ranges) + 1
          /\ active \in Seq(1 .. Len(ranges))
          /\ Cardinality({i \in DOMAIN status : status[i] = "running"})
               <= conf.jobs
          /\ status \in Seq({"unborn", "running", "succeeded", "failed"})
          /\ rest \in Seq(SUBSET Raw) /\ DOMAIN read = DOMAIN rest
          /\ tried \subseteq Raw
          /\ printed \in Nat

(* The pieces tile the range: the first starts where it starts, each starts  *)
(* where the one before it ends, no piece of a range that is not empty is    *)
(* empty, and when the splitting is over the last one ends where it ends.    *)
RangesTile ==
  /\ ranges # <<>> => ranges[1].start.bytes = Start.bytes
  /\ \A i \in 1 .. Len(ranges) - 1 :
       ranges[i].end.bytes = ranges[i + 1].start.bytes
  /\ Precedes(Start.bytes, End.bytes) =>
       \A i \in DOMAIN ranges :
         Precedes(ranges[i].start.bytes, ranges[i].end.bytes)
  /\ pc = "run" => ranges[Len(ranges)].end.bytes = End.bytes

(* A worker reads its command line as the supervisor read its own, however   *)
(* the options were written and repeated: it differs in the range, and in    *)
(* that it is one worker.                                                    *)
WorkersSearchAlike ==
  \A i \in DOMAIN status :
    status[i] # "unborn" =>
      read[i] = {[conf EXCEPT !.start = Parsed(ranges[i].start),
                              !.end = Parsed(ranges[i].end),
                              !.jobs = 1, !.worker = TRUE]}

(* The process comes to its end, or searches by itself.                      *)
SupervisorEnds == <>(pc \in {"usage", "alone", "ok", "failed"})

(* What one process searches with the same options.                          *)
Asked == SearchOf(conf)

(* Together the workers report what one process would: nothing else, nothing *)
(* twice, and all of it when the supervisor succeeds.                        *)
Search == INSTANCE Coverage WITH
  Candidates <- Raw, todo <- Asked, tried <- tried, reports <- printed,
  verdict <- IF pc = "ok" THEN "complete"
             ELSE IF pc = "failed" THEN "failed" ELSE "open"

ImplementsCoverage == Search!Spec

(* What a command line must be like for that: its workers' arguments keep    *)
(* the end, with no bytes behind those specified, and the depth.             *)
Divisible(line) ==
  LET config == ConfigOf(line)
      leading == [len |-> Smaller(Larger(config.rangeBytes, 1), Width)]
  IN  /\ Accepted(line)
      /\ config.jobs > 1 /\ ~config.worker
      /\ config.mode \notin {"random", "driven"}
      => /\ EndOf(config) \in Hexed
         /\ Depth(Wanted(config), StartOf(config)) = Depth(Wanted(config), leading)

(* A parallel search that succeeds has tried every candidate that one        *)
(* process searches with the same options.                                   *)
SweepComplete == pc = "ok" => Asked \subseteq tried
=============================================================================
