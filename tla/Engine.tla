------------------------------- MODULE Engine -------------------------------
(* crates/injector/src/engine.rs: one injector process.  next_event takes a  *)
(* candidate from the strategy, skips it if the policy forbids it, executes  *)
(* it otherwise and shows the outcome to the strategy; run_engine calls      *)
(* next_event until the strategy has no candidate or the backend fails.      *)
EXTENDS InstructionBytes, Sequences, FiniteSets

CONSTANTS NoCandidate,
          Configs,           \* configurations: see ConfigAssumption
          Outcomes,          \* what execution and disassembly may report
          Prefixes, Reach, TwoByte, Maps, Invalid,    \* see TunnelSearch
          OpcodeBlacklist,   \* opcodes, as sequences of bytes
          PrefixBlacklist,   \* the prefixes forbidden
          Unlimited          \* max_prefix where no policy applies

VARIABLES mode, policy,
          range, bytes, depth, index, lastLength, started, done, panicked,
          queue,             \* candidates left to a driven search
          candidate,
          pc                 \* next_event, then what run_engine came to

given == <<mode, policy, range, depth>>
cursor == <<bytes, index, lastLength, started, done, panicked, queue>>
vars == <<given, cursor, candidate, pc>>

Brute == INSTANCE BruteSearch
Tunnel == INSTANCE TunnelSearch

Modes == {"brute", "tunnel", "random", "driven"}

(* is_prefix does not take 0 for one.                                        *)
ASSUME MapAssumption == /\ Prefixes \subseteq Byte \ {0}
                        /\ Reach \in [Byte -> Nat]
                        /\ Maps \subseteq Byte

(* A start that is given is parsed: what it does not specify is zero.        *)
Specified == {i \in Instruction : ZeroTail(i.bytes, i.len)}

ConfigType == [mode : Modes,
               range : [start : Specified, end : Instruction],
               wanted : Nat,           \* brute_depth, or the fixed length
               queue : Seq(Instruction),
               maxPrefix : Nat \cup {Unlimited},
               duplicates : BOOLEAN]

ASSUME ConfigAssumption == /\ Configs \subseteq ConfigType
                           /\ Outcomes \subseteq Tunnel!Feedback
                           /\ NoCandidate \notin Instruction

(* new_with_strategy.  Every strategy is set up on the configured range; a   *)
(* field the chosen strategy does not have keeps its first value.            *)
StartOn(c) ==
  /\ mode = c.mode
  /\ policy = [maxPrefix |-> c.maxPrefix, duplicates |-> c.duplicates]
  /\ Brute!BruteInit(c.wanted, c.range)
  /\ Tunnel!TunnelInit(c.range)
  /\ queue = c.queue
  /\ pc = "next"

Init == \E c \in Configs : StartOn(c)

-----------------------------------------------------------------------------
(* policy.rs                                                                 *)

(* leading_prefix_bytes: the positions of the prefixes an instruction opens  *)
(* with.                                                                     *)
Leading(b) == {k \in Positions : \A j \in 0 .. k : b[j] \in Prefixes}

(* The first byte that is not a prefix.                                      *)
OpcodeStart(b) == Cardinality(Leading(b))

HasOpcode(b, opcode) ==
  /\ OpcodeStart(b) + Len(opcode) <= Width
  /\ \A k \in DOMAIN opcode : b[OpcodeStart(b) + k - 1] = opcode[k]

Blacklisted(b) ==
  \/ \E opcode \in OpcodeBlacklist : HasOpcode(b, opcode)
  \/ \E k \in Leading(b) : b[k] \in PrefixBlacklist

(* PrefixPolicy::validate                                                    *)
PrefixViolation(b) ==
  /\ policy.maxPrefix # Unlimited
  /\ \/ Cardinality(Leading(b)) > policy.maxPrefix
     \/ /\ ~policy.duplicates
        /\ \E j, k \in Leading(b) : j # k /\ b[j] = b[k]

Forbidden(b) == Blacklisted(b) \/ PrefixViolation(b)

-----------------------------------------------------------------------------
(* The strategies' next_candidate.                                           *)

NextBrute == /\ mode = "brute"
             /\ Brute!BruteNext
             /\ UNCHANGED <<index, lastLength, panicked, queue>>

NextTunnel == /\ mode = "tunnel"
              /\ Tunnel!TunnelNext
              /\ UNCHANGED <<depth, queue>>

(* RandomStrategy draws each byte between the two ends' bytes, both          *)
(* included, or anywhere when they are the wrong way round.                  *)
RandomByte(i) == LET low == range.start.bytes[i]
                     high == range.end.bytes[i]
                 IN  IF low <= high THEN low .. high ELSE Byte

NextRandom ==
  /\ mode = "random"
  /\ \E b \in {r \in Raw : \A i \in Positions : r[i] \in RandomByte(i)} :
       candidate' = NewInstruction(b, Larger(range.start.len, 1))
  /\ UNCHANGED <<range, depth, cursor>>

NextDriven ==
  /\ mode = "driven"
  /\ IF queue = <<>>
     THEN candidate' = NoCandidate /\ UNCHANGED queue
     ELSE candidate' = Head(queue) /\ queue' = Tail(queue)
  /\ UNCHANGED <<range, depth, bytes, index, lastLength, started, done,
                 panicked>>

-----------------------------------------------------------------------------
Ask ==
  /\ pc = "next"
  /\ NextBrute \/ NextTunnel \/ NextRandom \/ NextDriven
  /\ pc' = IF panicked' THEN "panicked"
           ELSE IF candidate' = NoCandidate THEN "over" ELSE "try"
  /\ UNCHANGED <<mode, policy>>

(* Mutant: a skipped candidate is shown to the strategy too.                 *)
SkipObserved ==
  /\ pc = "try"
  /\ Forbidden(candidate.bytes)
  /\ pc' = "next"
  /\ IF mode = "tunnel"
     THEN Tunnel!TunnelObserve([observed |-> 0, signum |-> 0,
                                length |-> 0, known |-> FALSE])
     ELSE UNCHANGED <<range, cursor, candidate>>
  /\ UNCHANGED <<mode, policy, depth, queue>>

(* A forbidden candidate is reported and not shown to the strategy.          *)
Skip == /\ pc = "try"
        /\ Forbidden(candidate.bytes)
        /\ pc' = "next"
        /\ UNCHANGED <<given, cursor, candidate>>

(* Execution and disassembly make f of the candidate; only the tunnel search *)
(* looks at it.                                                              *)
ExecuteWith(f) ==
  /\ pc = "try"
  /\ ~Forbidden(candidate.bytes)
  /\ IF mode = "tunnel"
     THEN Tunnel!TunnelObserve(f)
     ELSE UNCHANGED <<range, bytes, index, lastLength, started, done, panicked,
                      candidate>>
  /\ pc' = "next"
  /\ UNCHANGED <<mode, policy, depth, queue>>

Execute == \E f \in Outcomes : ExecuteWith(f)

(* The backend returns an error: the process exits with status 2.            *)
Fail == /\ pc = "try"
        /\ ~Forbidden(candidate.bytes)
        /\ pc' = "failed"
        /\ UNCHANGED <<given, cursor, candidate>>

Next == Ask \/ Skip \/ Execute \/ Fail

-----------------------------------------------------------------------------
TypeOK == /\ mode \in Modes
          /\ policy \in [maxPrefix : Nat \cup {Unlimited},
                         duplicates : BOOLEAN]
          /\ Brute!BruteTypeOK /\ Tunnel!TunnelTypeOK
          /\ queue \in Seq(Instruction)
          /\ pc \in {"next", "try", "over", "failed", "panicked"}

Systematic == mode \in {"brute", "tunnel"}

Offered == candidate # NoCandidate

(* The candidates of a systematic search lie in the range: not before its    *)
(* start, and before its end, wherever feedback and carries take the cursor. *)
InRange == Systematic /\ Offered =>
             /\ ~Precedes(candidate.bytes, range.start.bytes)
             /\ Precedes(candidate.bytes, range.end.bytes)

(* A brute search goes up and passes over no number of its depth: each       *)
(* candidate comes after the one before it, none lies between the two, nor   *)
(* between the last one and the end.                                         *)
Above(b) == ~Offered \/ Precedes(candidate.bytes, b)

BruteLeavesNoGap ==
  [][mode = "brute" /\ started /\ Offered /\ Ask =>
       /\ Offered' => Above(candidate'.bytes)
       /\ \A b \in {r \in Raw : ZeroTail(r, depth)} :
            Above(b) => \/ ~Precedes(b, range.end.bytes)
                        \/ Offered' /\ ~Precedes(b, candidate'.bytes)]_vars

(* A tunnel search goes from a candidate to the next value of one of its     *)
(* bytes or of the byte behind them, and what follows that byte is zero: it  *)
(* passes over no value of a byte before it leaves that byte, and never      *)
(* turns back, although it zeroes bytes when it backs out.                   *)
Sibling(c, d) ==
  \E i \in Positions :
    /\ i <= c.len
    /\ c.bytes[i] < Base - 1
    /\ d.len = i + 1
    /\ d.bytes = [j \in Positions |-> IF j < i THEN c.bytes[j]
                                      ELSE IF j = i THEN c.bytes[i] + 1 ELSE 0]

TunnelVisitsSiblings ==
  [][mode = "tunnel" /\ Offered /\ Offered' /\ Ask
       => Sibling(candidate, candidate')]_vars

(* A tunnel search does not enter what the prefix policy forbids: at most    *)
(* one prefix more than max_prefix is ever offered, because a candidate that *)
(* was skipped does not open the byte behind it.  (From a start that has too *)
(* many itself it backs out into the byte behind them, which may be one      *)
(* more.)                                                                    *)
PrefixesBounded ==
  mode = "tunnel" /\ Offered /\ policy.maxPrefix # Unlimited
    /\ OpcodeStart(range.start.bytes) <= policy.maxPrefix
  => OpcodeStart(candidate.bytes) <= policy.maxPrefix + 1
=============================================================================
