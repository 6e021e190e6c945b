-------------------------------- MODULE Sifter --------------------------------
(* crates/cli/src/main.rs: the sifter reads the injector's lines from a      *)
(* pipe, or a file of them, keeps the findings among them, and leaves files  *)
(* in data/ that later invocations read: a saved search is resumed from      *)
(* data/last.                                                                *)
EXTENDS Options, FiniteSets

CONSTANTS Configs,        \* see SifterAssumption
          Outcomes,       \* [length, hit]: executed length, filter's verdict
          Capacity,       \* lines the pipe and the readers' buffers hold
          MaxRuns         \* bound on the invocations

VARIABLES conf, runs,
          command, resumed,       \* the injector's arguments in this run, and
                                  \* what it was resumed from
          rest, broken, pipe,     \* the injector
          pc, line,               \* the sifter's read loop and what follows it
          artifacts, found,       \* ScanStats
          tick, last, sync, reports,    \* the files
          emitted, read, tried    \* lines sent and handled in this run, and
                                  \* candidates handled in any (history)

setup == <<conf, runs, command, resumed>>
injector == <<rest, broken, pipe, emitted>>
stats == <<artifacts, found>>
files == <<tick, last, sync, reports>>
past == <<read, tried>>
vars == <<setup, injector, pc, line, stats, files, past>>

(* What a packet says of a result, and the lines of a file: packets, blank   *)
(* lines and comments, and those that are not packets.                       *)
Line == [bytes : Raw, length : 0 .. Width, hit : BOOLEAN]
Packet(l) == [kind |-> "packet", packet |-> l]
Blank == [kind |-> "blank"]
Other == [kind |-> "other"]
Text == {Packet(l) : l \in Line} \cup {Blank, Other}

NoFile == {}              \* a file that does not exist; otherwise a singleton

(* Injector arguments for a brute search, and the sifter's own options.      *)
ASSUME SifterAssumption ==
  /\ \A c \in Configs :
       /\ c.args \in Seq(Argument)
       /\ (Accepted(c.args) /\ c.input = NoFile) =>
            ConfigOf(c.args).mode = "brute"
       /\ {c.tick, c.save, c.sync, c.lowMem} \subseteq BOOLEAN
       /\ Cardinality(c.input) <= 1 /\ \A f \in c.input : f \in Seq(Text)
  /\ Outcomes \subseteq [length : 0 .. Width, hit : BOOLEAN]
  /\ Capacity \in Nat \ {0} /\ MaxRuns \in Nat

Imported == conf.input # NoFile

Live == pc \notin {"idle", "done", "failed"}
Goto(label) == pc' = label

-----------------------------------------------------------------------------
(* The injector.  With -j its workers each search the numbers of one leading *)
(* byte (Sweep), with a pipe in common.                                      *)

LeadingByte(k) == [bytes |-> [i \in Positions |-> IF i = 0 THEN k ELSE 0],
                   len |-> 1]

PieceStart(start, k) == IF k = start.bytes[0] THEN start ELSE LeadingByte(k)

Lanes(config) ==
  LET start == StartOf(config)
  IN  IF config.jobs > 1
      THEN [k \in start.bytes[0] .. Base - 1 |->
              {b \in BruteSet(PieceStart(start, k), EndOf(config),
                              Wanted(config)) : b[0] = k}]
      ELSE [k \in {0} |-> SearchOf(config)]

Emit(k) ==
  /\ Live
  /\ rest[k] # {} /\ Len(pipe) < Capacity
  /\ \E o \in Outcomes :
       LET sent == [bytes |-> Least(rest[k]), length |-> o.length,
                    hit |-> o.hit]
       IN  /\ pipe' = Append(pipe, Packet(sent))
           /\ emitted' = Append(emitted, sent)
  /\ rest' = [rest EXCEPT ![k] = @ \ {Least(@)}]
  /\ UNCHANGED <<setup, broken, pc, line, stats, files, past>>

(* A worker fails; the others go on, and the injector's status tells.        *)
Break(k) ==
  /\ Live
  /\ rest[k] # {}
  /\ rest' = [rest EXCEPT ![k] = {}]
  /\ broken' = TRUE
  /\ UNCHANGED <<setup, pipe, emitted, pc, line, stats, files, past>>

Injector == \E k \in DOMAIN rest : Emit(k) \/ Break(k)

-----------------------------------------------------------------------------
(* Mutant: the place to go on from comes before the arguments given.         *)
ResumedFirst(given, from) ==
  <<Flag("-i"), Value("hex", from)>> \o given

(* apply_resume: behind the arguments given.                                 *)
ResumedFrom(given, from) ==
  given \o <<Flag("-i"), Value("hex", from)>>

(* Packets for output, and with --tick the injector's own.                   *)
InjectorArgs(args) ==
  (IF conf.tick /\ \A i \in DOMAIN args : args[i] # Flag("-x")
   THEN Append(args, Flag("-x")) ELSE args) \o <<Flag("-R")>>

PacketsOf(file) ==
  LET packets == At(file, {i \in DOMAIN file : file[i].kind = "packet"})
  IN  [i \in DOMAIN packets |-> packets[i].packet]

(* run: create the sync log, spawn the injector, which may refuse what it is *)
(* given.                                                                    *)
Spawn(args) ==
  /\ command' = InjectorArgs(args)
  /\ broken' = ~Accepted(command')
  /\ rest' = IF broken' THEN <<>> ELSE Lanes(ConfigOf(command'))
  /\ pipe' = <<>> /\ emitted' = <<>>

(* --input: the lines of a file, and no injector.                            *)
Open(file) ==
  /\ command' = <<>> /\ rest' = <<>> /\ broken' = FALSE
  /\ pipe' = file /\ emitted' = PacketsOf(file)

Begin(args) ==
  /\ runs < MaxRuns
  /\ runs' = runs + 1
  /\ IF Imported THEN \E file \in conf.input : Open(file) ELSE Spawn(args)
  /\ artifacts' = {} /\ found' = 0
  /\ sync' = IF conf.sync THEN <<>> ELSE sync
  /\ line' = <<>>
  /\ read' = <<>>
  /\ Goto("read")
  /\ UNCHANGED <<conf, tick, last, reports, tried>>

Launch == pc = "idle" /\ resumed' = {} /\ Begin(conf.args)

Refused(args) == \E i \in DOMAIN args : args[i].flag = "-i" /\ Apart(args[i])

(* --resume, with the arguments of before or those without -i.               *)
Resume ==
  /\ pc \in {"done", "failed"}
  /\ \E args \in {conf.args, StripValueFlags(conf.args, {"-i"})},
        from \in last :
       /\ ~Refused(args)
       /\ resumed' = {from}
       /\ Begin(ResumedFrom(args, from))

(* With an -i of its own, or nothing saved: before any file is touched.      *)
RefuseResume ==
  /\ pc \in {"done", "failed"}
  /\ last = NoFile \/ Refused(conf.args)
  /\ Goto("failed")
  /\ UNCHANGED <<setup, injector, line, stats, files, past>>

-----------------------------------------------------------------------------
AfterTick == IF conf.save THEN "truncate" ELSE "record"

(* The next line of the pipe or file.                                        *)
ReadLine ==
  /\ pc = "read" /\ pipe # <<>> /\ Head(pipe).kind = "packet"
  /\ line' = <<Head(pipe).packet>>
  /\ pipe' = Tail(pipe)
  /\ Goto(IF conf.tick THEN "tick" ELSE AfterTick)
  /\ UNCHANGED <<setup, rest, broken, emitted, stats, files, past>>

SkipLine ==
  /\ pc = "read" /\ pipe # <<>> /\ Head(pipe) = Blank
  /\ pipe' = Tail(pipe)
  /\ UNCHANGED <<setup, rest, broken, emitted, pc, line, stats, files, past>>

(* VersionedPacket::parse_line refuses it, and the sifter ends.              *)
RefuseLine ==
  /\ pc = "read" /\ pipe # <<>> /\ Head(pipe) = Other
  /\ pipe' = Tail(pipe)
  /\ Goto("failed")
  /\ UNCHANGED <<setup, rest, broken, emitted, line, stats, files, past>>

(* write_tick: all the bytes tried.                                          *)
WriteTick == /\ pc = "tick"
             /\ tick' = {line[1].bytes}
             /\ Goto(AfterTick)
             /\ UNCHANGED <<setup, injector, line, stats, last, sync, reports,
                            past>>

(* Mutant: one byte more than was executed.                                  *)
SavedPast(l) == [bytes |-> ZeroFrom(l.bytes, l.length + 1),
                 len |-> l.length + 1]

(* Mutant: the search is to go on behind the instruction saved.              *)
SavedNext(l) ==
  [bytes |-> IF \E i \in Positions : CarriesTo(l.bytes, Width, i)
             THEN Carried(l.bytes, Width, CHOOSE i \in Positions :
                                            CarriesTo(l.bytes, Width, i))
             ELSE l.bytes,
   len |-> Width]

(* write_last_result keeps the executed bytes; parsed again, the rest is 0.  *)
Saved(l) == [bytes |-> ZeroFrom(l.bytes, l.length), len |-> l.length]

Empty == [bytes |-> [i \in Positions |-> 0], len |-> 0]

(* fs::write: the old contents go before the new ones come.                  *)
Truncate == /\ pc \in {"truncate", "close"}
            /\ last' = {Empty}
            /\ Goto(IF pc = "close" THEN "closing" ELSE "last")
            /\ UNCHANGED <<setup, injector, line, stats, tick, sync, reports,
                            past>>

WriteLast == /\ pc \in {"last", "closing"}
             /\ last' = {Saved(line[1])}
             /\ Goto(IF pc = "closing" THEN "done" ELSE "record")
             /\ UNCHANGED <<setup, injector, line, stats, tick, sync, reports,
                            past>>

-----------------------------------------------------------------------------
Key(l) == SubSeq([i \in 1 .. Width |-> l.bytes[i - 1]], 1, l.length)

(* FilterConfig::detect: a verdict on signal, code and lengths of the result, *)
(* never on one without an execution.                                        *)
Detect(l) == l.hit

IsNewAlways(l) == Detect(l)               \* mutant: artifacts are not looked up

IsNew(l) == Detect(l) /\ (conf.lowMem \/ Key(l) \notin artifacts)

(* record_artifact: --low-mem keeps no artifact in memory.                   *)
Record ==
  /\ pc = "record"
  /\ IF IsNew(line[1])
     THEN /\ found' = found + 1
          /\ sync' = IF conf.sync THEN Append(sync, Key(line[1])) ELSE sync
          /\ artifacts' = IF conf.lowMem THEN artifacts
                          ELSE artifacts \cup {Key(line[1])}
     ELSE UNCHANGED <<found, sync, artifacts>>
  /\ read' = Append(read, line[1])
  /\ tried' = tried \cup {line[1].bytes}
  /\ Goto("read")
  /\ UNCHANGED <<setup, injector, line, tick, last, reports>>

(* End of file: nobody has the pipe open any more.                           *)
Eof == /\ pc = "read" /\ pipe = <<>>
       /\ \A k \in DOMAIN rest : rest[k] = {}
       /\ Goto(IF Imported THEN "log" ELSE "wait")
       /\ UNCHANGED <<setup, injector, line, stats, files, past>>

(* Mutant: the injector's exit status is not looked at.                      *)
WaitAny == /\ pc = "wait"
           /\ Goto("log")
           /\ UNCHANGED <<setup, injector, line, stats, files, past>>

(* Mutant: an injector that failed is waited for again.                      *)
WaitAgain == /\ pc = "wait"
             /\ Goto(IF broken THEN "wait" ELSE "log")
             /\ UNCHANGED <<setup, injector, line, stats, files, past>>

(* child.wait(): without success nothing is written.                         *)
Wait == /\ pc = "wait"
        /\ Goto(IF broken THEN "failed" ELSE "log")
        /\ UNCHANGED <<setup, injector, line, stats, files, past>>

(* The three reports, in this order; only the log and the summary count what *)
(* was found, only the log and the findings list it.                         *)
WriteReport(report) == /\ reports' = report
                       /\ UNCHANGED <<setup, injector, line, stats, tick, last,
                                      sync, past>>

WriteFinalLog == /\ pc = "log" /\ Goto("findings")
                 /\ WriteReport([reports EXCEPT !.log = [keys |-> artifacts,
                                                        count |-> found]])

WriteFindings == /\ pc = "findings" /\ Goto("summary")
                 /\ WriteReport([reports EXCEPT !.findings = artifacts])

WriteSummary ==
  /\ pc = "summary"
  /\ Goto(IF conf.save /\ line # <<>> THEN "close" ELSE "done")
  /\ WriteReport([reports EXCEPT !.summary = found])

(* A file that cannot be opened or written, or Ctrl-C: the sifter ends where *)
(* it is.                                                                    *)
Abort == /\ Live
         /\ Goto("failed")
         /\ UNCHANGED <<setup, injector, line, stats, files, past>>

Sift == \/ ReadLine \/ SkipLine \/ RefuseLine \/ WriteTick \/ Truncate
        \/ WriteLast \/ Record \/ Eof \/ Wait
        \/ WriteFinalLog \/ WriteFindings \/ WriteSummary

Next == Launch \/ Resume \/ RefuseResume \/ Injector \/ Sift \/ Abort

Init ==
  /\ conf \in Configs
  /\ runs = 0 /\ command = <<>> /\ resumed = {}
  /\ rest = <<>> /\ broken = FALSE /\ pipe = <<>> /\ emitted = <<>>
  /\ pc = "idle" /\ line = <<>>
  /\ artifacts = {} /\ found = 0
  /\ tick = NoFile /\ last = NoFile /\ sync = <<>>
  /\ reports = [log |-> [keys |-> {}, count |-> 0], findings |-> {},
                summary |-> 0]
  /\ read = <<>> /\ tried = {}

Spec == Init /\ [][Next]_vars

(* Processes that can run do; nobody need start the sifter or interrupt it.  *)
FairSpec == Spec /\ WF_vars(Injector) /\ WF_vars(Sift)

-----------------------------------------------------------------------------
Keys == UNION {[1 .. n -> Byte] : n \in 0 .. Width}

TypeOK ==
  /\ conf \in Configs /\ runs \in 0 .. MaxRuns
  /\ command \in Seq(Argument)
  /\ resumed \in {{}} \cup {{i} : i \in Instruction}
  /\ broken \in BOOLEAN
  /\ \A k \in DOMAIN rest : rest[k] \subseteq Raw
  /\ pipe \in Seq(Text) /\ (Imported \/ Len(pipe) <= Capacity)
  /\ line \in Seq(Line) /\ Len(line) <= 1
  /\ pc \in {"idle", "read", "tick", "truncate", "last", "record", "wait", "log",
             "findings", "summary", "close", "closing", "done", "failed"}
  /\ artifacts \subseteq Keys /\ found \in Nat
  /\ tick \in {NoFile} \cup {{b} : b \in Raw}
  /\ last \in {NoFile} \cup {{i} : i \in Instruction}
  /\ sync \in Seq(Keys)
  /\ reports \in [log : [keys : SUBSET Keys, count : Nat],
                 findings : SUBSET Keys, summary : Nat]

(* Whatever interrupts the sifter, data/sync has each finding among the      *)
(* lines handled so far once, in the order they were first found (each time  *)
(* it was found with --low-mem).                                             *)
FirstFinds == {i \in DOMAIN read : /\ read[i].hit
                                   /\ \/ conf.lowMem
                                      \/ \A j \in 1 .. i - 1 :
                                           read[j].hit => Key(read[j]) # Key(read[i])}

SyncIsComplete ==
  IF conf.sync
  THEN /\ Len(sync) = Cardinality(FirstFinds)
       /\ \A i \in FirstFinds :
            sync[Cardinality({j \in FirstFinds : j <= i})] = Key(read[i])
  ELSE sync = <<>>

(* A sifter that ends well has handled every packet the injector sent or the *)
(* file has, the injector has searched all it was to, and the three reports  *)
(* count and list what was found (with --low-mem, count only).               *)
DoneIsComplete ==
  pc = "done" =>
    /\ read = emitted /\ ~broken /\ \A k \in DOMAIN rest : rest[k] = {}
    /\ reports.log.count = Cardinality(FirstFinds)
    /\ reports.summary = reports.log.count
    /\ reports.findings = reports.log.keys
    /\ reports.log.keys = IF conf.lowMem THEN {}
                           ELSE {Key(read[i]) : i \in FirstFinds}

(* What an injector that was resumed reads from its arguments is what the    *)
(* first one read, but for the start, which is the place saved.              *)
ResumeChangesStart ==
  (pc = "read" /\ ~Imported /\ emitted = <<>> /\ Accepted(conf.args)) =>
    /\ Accepted(command)
    /\ LET first == ConfigOf(InjectorArgs(conf.args))
       IN  ConfigOf(command) =
             IF resumed = {} THEN first
             ELSE [first EXCEPT !.start = CHOOSE from \in resumed : TRUE]

Given == ConfigOf(conf.args)
Alone == Given.jobs = 1
Searches == ~Imported /\ Accepted(conf.args)

(* Wherever a saved search of one process was interrupted, once a resumed    *)
(* one ends well every candidate has been handled by one of the two.  The    *)
(* depth has to come from -B: where it came from a longer -i, data/last may  *)
(* be shorter than that and the resumed search shallower.                    *)
ResumeLeavesNoGap ==
  (/\ pc = "done" /\ Searches
   /\ Alone /\ StartOf(Given).len <= Wanted(Given)) =>
    SearchOf(Given) \subseteq tried

(* The same of a search in parallel.                                         *)
ParallelResumeLeavesNoGap ==
  (pc = "done" /\ Searches /\ ~Alone) => SearchOf(Given) \subseteq tried

(* A sifter that was started comes to an end.                                *)
SifterEnds == (pc = "read") ~> (pc \in {"done", "failed"})
=============================================================================
