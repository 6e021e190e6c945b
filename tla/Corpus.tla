------------------------------- MODULE Corpus -------------------------------
(* The static corpus of the iOS app: crates/corpusgen runs an engine on the  *)
(* host when the app is built and bakes what it executes into the binary;    *)
(* ios_static_corpus.rs has the engine of the app execute only what it finds *)
(* there.  The engine of Engine runs the build, and then the scan.           *)
EXTENDS Engine

Sequence == INSTANCE SequencesExt

CONSTANTS NoConfig,
          BuildConfigs,    \* SANDBLASTER_IOS_CORPUS_*, see from_env
          KeyLen,          \* bytes of an ARM64 instruction: 4
          MaxCount,        \* max_count of the corpus
          ArmOutcomes,     \* what the processor may make of an instruction
          MaxDraws         \* bound: numbers a random search draws

VARIABLES phase,           \* search, or build on the host and scan in the app
          host,            \* the configuration of the build
          baked,           \* the candidates, in the order of the table
          replayed,        \* what the scan has executed
          processor,       \* what has been seen of instructions
          draws, drawn     \* the numbers of the seed, and how many are taken

corpus == <<host, baked>>
generator == <<draws, drawn>>
allVars == <<vars, phase, corpus, replayed, processor, generator>>

ASSUME CorpusAssumption ==
  /\ MaxCount \in Nat \ {0} /\ MaxDraws \in Nat
  /\ KeyLen \in 1 .. Width
  /\ BuildConfigs \subseteq ConfigType
  /\ \A c \in BuildConfigs : /\ c.mode \in {"brute", "tunnel", "random"}
                             /\ c.maxPrefix = Unlimited
  /\ ArmOutcomes \subseteq Tunnel!Feedback

(* The first bytes of a candidate, all that is executed and looked up.       *)
Key(c) == [i \in 1 .. KeyLen |-> c.bytes[i - 1]]

(* from_env, with brute_depth and the prefix policy of the default           *)
(* configuration: none for ARM64.                                            *)
CorpusInit ==
  /\ \/ phase = "search" /\ host = NoConfig /\ Init
     \/ /\ phase = "build"
        /\ host \in BuildConfigs
        /\ StartOn(host)
  /\ baked = <<>> /\ replayed = <<>>
  /\ processor = <<>>
  /\ draws = <<>> /\ drawn = 0

(* The random strategy starts from the same seed wherever it runs.           *)
Drawn ==
  IF mode # "random" THEN UNCHANGED generator
  ELSE /\ drawn < MaxDraws
       /\ drawn' = drawn + 1
       /\ IF drawn < Len(draws)
          THEN candidate'.bytes = draws[drawn + 1] /\ UNCHANGED draws
          ELSE draws' = Append(draws, candidate'.bytes)

Clean == [observed |-> KeyLen, signum |-> 0, length |-> KeyLen, known |-> TRUE]

(* A processor makes of an instruction what it made of it before; it is kept *)
(* for the search that looks at it.                                          *)
RunsAs(k, f) ==
  IF mode # "tunnel" THEN f = Clean /\ UNCHANGED processor
  ELSE /\ f \in (IF k \in DOMAIN processor THEN {processor[k]}
                 ELSE ArmOutcomes)
       /\ processor' = [x \in DOMAIN processor \cup {k} |->
                          IF x = k THEN f ELSE processor[x]]

-----------------------------------------------------------------------------
(* generate, on the host                                                     *)

(* Mutant: the tunnel search is answered by AlwaysCleanBackend too.          *)
AlwaysClean(k, f) == f = Clean /\ UNCHANGED processor

(* MacosArm64Backend executes for the tunnel search, AlwaysCleanBackend      *)
(* answers the others.                                                       *)
Answers(k, f) == IF mode = "tunnel" THEN RunsAs(k, f)
                 ELSE f = Clean /\ UNCHANGED processor

Wanted == phase = "build" /\ Len(baked) < MaxCount

BuildAsk == /\ Wanted /\ Ask /\ Drawn
            /\ UNCHANGED <<phase, corpus, replayed, processor>>

BuildSkip == /\ Wanted /\ Skip
             /\ UNCHANGED <<phase, corpus, replayed, processor, generator>>

BuildExecute ==
  /\ Wanted /\ pc = "try"
  /\ \E f \in ArmOutcomes \cup {Clean} :
       Answers(Key(candidate), f) /\ ExecuteWith(f)
  /\ baked' = Append(baked, Key(candidate))
  /\ UNCHANGED <<phase, host, replayed, generator>>

(* The backend fails, and with it the build.                                 *)
BuildFails == /\ Wanted /\ mode = "tunnel" /\ Fail
              /\ UNCHANGED <<phase, corpus, replayed, processor, generator>>

-----------------------------------------------------------------------------
(* The scan in the app                                                       *)

(* The configurations the corpus is there for: that of the build and, for a  *)
(* search that looks at no outcome, one of a range within it.                *)
Within(r, s) == /\ ~Precedes(r.start.bytes, s.start.bytes)
                /\ ~Precedes(s.end.bytes, r.end.bytes)

Scans == {c \in BuildConfigs :
            \/ c = host
            \/ /\ c.mode = "brute" /\ host.mode = "brute"
               /\ c.wanted = host.wanted /\ Within(c.range, host.range)}

(* A brute build is as deep as its instructions are long, and its start is   *)
(* no longer: so the depth of a range within its own is the same.            *)
StartsFit == \A c \in BuildConfigs :
               c.mode = "brute" => c.range.start.len <= c.wanted

(* An engine of its own, new_with_strategy again.                            *)
Restart(c) ==
  /\ mode' = c.mode
  /\ policy' = [maxPrefix |-> c.maxPrefix, duplicates |-> c.duplicates]
  /\ range' = c.range
  /\ bytes' = c.range.start.bytes
  /\ depth' = Brute!BruteDepth(c.wanted, c.range)
  /\ index' = c.range.start.len
  /\ lastLength' = {}
  /\ started' = FALSE /\ done' = FALSE /\ panicked' = FALSE
  /\ queue' = c.queue
  /\ candidate' = NoCandidate
  /\ pc' = "next"

(* The binary is built and a scan begins; try_new refuses an empty corpus.   *)
Deploy == /\ phase = "build"
          /\ pc \in {"next", "over"}
          /\ pc = "next" => Len(baked) = MaxCount
          /\ baked # <<>>
          /\ \E c \in Scans : Restart(c)
          /\ phase' = "scan"
          /\ drawn' = 0
          /\ UNCHANGED <<corpus, replayed, processor, draws>>

(* The index of the bytes: of equal ones the last.                           *)
Entries(k) == {i \in DOMAIN baked : baked[i] = k}

ScanAsk == /\ phase = "scan" /\ Ask /\ Drawn
           /\ UNCHANGED <<phase, corpus, replayed, processor>>

ScanSkip == /\ phase = "scan" /\ Skip
            /\ UNCHANGED <<phase, corpus, replayed, processor, generator>>

ScanExecute ==
  /\ phase = "scan"
  /\ pc = "try"
  /\ Entries(Key(candidate)) # {}
  /\ LET i == CHOOSE i \in Entries(Key(candidate)) :
                \A j \in Entries(Key(candidate)) : j <= i
     IN  /\ \E f \in ArmOutcomes \cup {Clean} :
              RunsAs(baked[i], f) /\ ExecuteWith(f)
         /\ replayed' = Append(replayed, baked[i])
  /\ UNCHANGED <<phase, corpus, generator>>

(* "not present in baked static corpus", or run_probe returns an error: the  *)
(* engine's error ends the scan.                                             *)
ScanFails == /\ phase = "scan" /\ Fail
             /\ UNCHANGED <<phase, corpus, replayed, processor, generator>>

-----------------------------------------------------------------------------
Search == /\ phase = "search" /\ Next
          /\ UNCHANGED <<phase, corpus, replayed, processor, generator>>

CorpusNext == \/ Search
              \/ BuildAsk \/ BuildSkip \/ BuildExecute \/ BuildFails
              \/ Deploy
              \/ ScanAsk \/ ScanSkip \/ ScanExecute \/ ScanFails

(* run_engine and the worker of the app keep calling next_event, and the     *)
(* backends return: Linux, Android and macOS bound an execution by an alarm  *)
(* or a deadline; cargo runs the build to its end.                           *)
CorpusSpec == CorpusInit /\ [][CorpusNext]_allVars /\ WF_allVars(CorpusNext)
-----------------------------------------------------------------------------
CorpusTypeOK ==
  /\ TypeOK
  /\ phase \in {"search", "build", "scan"}
  /\ host \in BuildConfigs \cup {NoConfig}
  /\ baked \in Seq([1 .. KeyLen -> Byte]) /\ Len(baked) <= MaxCount
  /\ replayed \in Seq([1 .. KeyLen -> Byte])
  /\ \A k \in DOMAIN processor : processor[k] \in ArmOutcomes
  /\ draws \in Seq(Raw) /\ drawn \in 0 .. Len(draws)

(* "the exact order a real ios-arm64 scan with this config would execute     *)
(* them": the scan with the configuration of the build executes the corpus   *)
(* in its order and to its end, whatever the processor makes of it.  No scan *)
(* within the range of the build misses an instruction, unless the build     *)
(* stopped at max_count.                                                     *)
Missed == pc = "failed" /\ Entries(Key(candidate)) = {}

CorpusServes ==
  phase = "scan" =>
    /\ range = host.range =>
         \/ Sequence!IsPrefix(baked, replayed)
         \/ Sequence!IsPrefix(replayed, baked) /\ (~Missed /\ pc # "over")
    /\ Missed => Len(baked) = MaxCount

(* Every search but a random one comes to its end and stays there, the scan  *)
(* that follows a build included, and in a panic only if the start specifies *)
(* every byte: next_candidate would index past the instruction, but no       *)
(* feedback takes the cursor there.                                          *)
SearchEnds ==
  mode # "random" =>
    <>[](\/ pc \in {"over", "failed"}
         \/ panicked /\ range.start.len = Width)
=============================================================================
