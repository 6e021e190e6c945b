------------------------------- MODULE Options -------------------------------
(* crates/injector/src/lib.rs and main.rs: what an injector makes of its     *)
(* command line, and the command line a supervisor makes of its own for a    *)
(* worker.  An argument is a flag, a value, or both written as one.          *)
EXTENDS SearchSpace, Sequences, Subsequences

CONSTANTS None,
          TargetLen,       \* max_instruction_len of the target
          FixedLen         \* its fixed_instruction_len, or None

(* A value is a number, an instruction in hex or the name of a target.       *)
Flag(f) == [flag |-> f, value |-> None]
Value(k, v) == [flag |-> None, value |-> [kind |-> k, of |-> v]]
Compact(f, k, v) == [flag |-> f, value |-> [kind |-> k, of |-> v]]

(* InjectorConfig::default()                                                 *)
Default ==
  [mode |-> "tunnel", output |-> "text", tick |-> FALSE, nullAccess |-> FALSE,
   duplicates |-> FALSE, nx |-> TRUE, seed |-> None, wanted |-> 4,
   maxPrefix |-> 0, start |-> None, end |-> None, core |-> None,
   blacklists |-> <<>>, jobs |-> 1, rangeBytes |-> 0, dryRun |-> FALSE,
   worker |-> FALSE, target |-> None]

To(f, v) == [field |-> f, set |-> v]

Switches ==
  [f \in {"-b", "-r", "-t", "-d", "-R", "-T", "-x", "-0", "-D", "-N",
          "--dry-run", "--worker"} |->
     CASE f = "-b" -> To("mode", "brute") [] f = "-r" -> To("mode", "random")
       [] f = "-t" -> To("mode", "tunnel") [] f = "-d" -> To("mode", "driven")
       [] f = "-R" -> To("output", "raw") [] f = "-T" -> To("output", "text")
       [] f = "-x" -> To("tick", TRUE) [] f = "-0" -> To("nullAccess", TRUE)
       [] f = "-D" -> To("duplicates", TRUE) [] f = "-N" -> To("nx", FALSE)
       [] f = "--dry-run" -> To("dryRun", TRUE)
       [] f = "--worker" -> To("worker", TRUE)]

Of(f, k) == [field |-> f, kind |-> k]

Valued ==
  [f \in {"--target", "-s", "-B", "-P", "-i", "-e", "-c", "-X", "-j", "-l"} |->
     CASE f = "--target" -> Of("target", "name")
       [] f = "-s" -> Of("seed", "number") [] f = "-B" -> Of("wanted", "number")
       [] f = "-P" -> Of("maxPrefix", "number") [] f = "-i" -> Of("start", "hex")
       [] f = "-e" -> Of("end", "hex") [] f = "-c" -> Of("core", "number")
       [] f = "-X" -> Of("blacklists", "hex") [] f = "-j" -> Of("jobs", "number")
       [] f = "-l" -> Of("rangeBytes", "number")]

(* Only a target cannot be written together with its flag.                   *)
Compactable == DOMAIN Valued \ {"--target"}

(* A flag sets a field.                                                      *)
Sets(flag, f) ==
  \/ flag \in DOMAIN Switches /\ Switches[flag].field = f
  \/ flag \in DOMAIN Valued /\ Valued[flag].field = f

Help == {"-?", "--help"}

(* Hex digits are the bytes they specify, and zeros behind them.             *)
Hexed == {x \in Instruction : ZeroTail(x.bytes, x.len)}

Names == DOMAIN Switches \cup DOMAIN Valued \cup Help
Values == [kind : {"number", "name"}, of : Nat]
            \cup [kind : {"hex"}, of : Hexed]
Argument == [flag : Names \cup {None}, value : Values \cup {None}]

(* None is nothing else.                                                     *)
ASSUME NoneAssumption ==
  None \notin Names /\ None \notin Instruction /\ None \notin Values

ASSUME TargetAssumption == TargetLen \in Nat /\ FixedLen \in Nat \cup {None}

-----------------------------------------------------------------------------
(* parse_args.  A flag with a value of its own takes the argument behind it; *)
(* no argument is left over.                                                 *)
Apart(a) == a.flag \in DOMAIN Valued /\ a.value = None

Fits(flag, v) == v # None /\ v.kind = Valued[flag].kind

Accepted(args) ==
  \A i \in DOMAIN args :
    \/ args[i].flag \in DOMAIN Switches \cup Help /\ args[i].value = None
    \/ args[i].flag \in Compactable /\ Fits(args[i].flag, args[i].value)
    \/ /\ Apart(args[i]) /\ i < Len(args)
       /\ args[i + 1].flag = None /\ Fits(args[i].flag, args[i + 1].value)
    \/ args[i].flag = None /\ i > 1 /\ Apart(args[i - 1])

(* The places where a field is set.                                          *)
Places(args, f) == {i \in DOMAIN args : Sets(args[i].flag, f)}

ValueAt(args, i) ==
  IF args[i].flag \in DOMAIN Switches THEN Switches[args[i].flag].set
  ELSE IF Apart(args[i]) THEN args[i + 1].value.of ELSE args[i].value.of

(* Of an option given twice the last value stays; every -X adds one.         *)
ConfigOf(args) ==
  [f \in DOMAIN Default |->
     LET places == Places(args, f)
         order == Ascending(places)
     IN  IF f = "blacklists" THEN [k \in DOMAIN order |-> ValueAt(args, order[k])]
         ELSE IF places = {} THEN Default[f]
         ELSE ValueAt(args, CHOOSE i \in places : \A j \in places : j <= i)]

AsksHelp(args) == \E i \in DOMAIN args : /\ args[i].flag \in Help
                                         /\ args[i].value = None

-----------------------------------------------------------------------------
(* Mutant: the value of a flag written apart is not taken away with it.      *)
StripFlagOnly(args, flags) ==
  At(args, {i \in DOMAIN args : args[i].flag \notin flags})

(* strip_value_flags, of arguments that were accepted: a flag goes, and with *)
(* it the value behind it.                                                   *)
StripValueFlags(args, flags) ==
  At(args, {i \in DOMAIN args :
              /\ args[i].flag \notin flags
              /\ args[i].flag = None => args[i - 1].flag \notin flags})

(* compact_hex: the specified bytes only; parsed again, the rest is zero.    *)
Parsed(x) == [bytes |-> ZeroFrom(x.bytes, x.len), len |-> x.len]

WorkerArgs(args, r) ==
  StripValueFlags(args, {"-i", "-e", "-j"})
    \o <<Flag("--worker"), Flag("-j"), Value("number", 1),
         Flag("-i"), Value("hex", Parsed(r.start)),
         Flag("-e"), Value("hex", Parsed(r.end))>>

-----------------------------------------------------------------------------
(* The range of a configuration, where an end is not given the default.      *)
StartOf(config) ==
  IF config.start # None THEN config.start
  ELSE [bytes |-> [i \in Positions |-> 0], len |-> 0]

EndOf(config) ==
  IF config.end # None THEN config.end
  ELSE NewInstruction([i \in Positions |-> Base - 1], TargetLen)

(* strategy_from_config: the length all instructions of the target have, or  *)
(* else what -B says.                                                        *)
Wanted(config) == IF FixedLen = None THEN config.wanted ELSE FixedLen

SearchOf(config) == BruteSet(StartOf(config), EndOf(config), Wanted(config))
==============================================================================
