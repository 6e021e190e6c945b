------------------------------ MODULE MCSifter ------------------------------
(* Bits for bytes, instructions of two of them.                              *)
EXTENDS Sifter

From(s) == [bytes |-> [i \in Positions |-> IF i < Len(s) THEN s[i + 1] ELSE 0],
            len |-> Len(s)]

Num(n) == Value("number", n)
Hex(s) == Value("hex", From(s))

Config(args, options, file) ==
  [args |-> args, tick |-> "tick" \in options, save |-> "save" \in options,
   sync |-> "sync" \in options, lowMem |-> "lowMem" \in options,
   input |-> file]

Brute(w) == <<Flag("-b"), Flag("-B"), Num(w), Flag("-e"), Hex(<<1, 1>>)>>

(* A packet twice, what is skipped, and another with the same finding.       *)
Captured ==
  LET twice == [bytes |-> From(<<1, 0>>).bytes, length |-> 1, hit |-> TRUE]
      same == [bytes |-> From(<<1, 1>>).bytes, length |-> 1, hit |-> TRUE]
  IN  <<Blank, Packet(twice), Packet(twice), Blank, Packet(same)>>

Corrupt == <<Packet([bytes |-> From(<<0, 1>>).bytes, length |-> 2, hit |-> TRUE]),
             Other>>

(* The starts are none, one that is given apart (a resumed search has to do  *)
(* without it) and one given in one word.                                    *)
MCConfigs ==
  {Config(Brute(2), {"save", "sync"}, NoFile),
   Config(Brute(1) \o <<Flag("-i"), Hex(<<0, 1>>)>>,
          {"save", "lowMem", "sync"}, NoFile),
   Config(Brute(1) \o <<Compact("-i", "hex", From(<<1>>))>>, {"save", "tick"}, NoFile),
   Config(Brute(2) \o <<Flag("-j"), Num(2)>>, {"lowMem", "sync"}, NoFile),
   Config(<<Flag("-b"), Flag("-i")>>, {"sync"}, NoFile),
   Config(<<>>, {"sync", "save"}, {Captured}),
   Config(<<>>, {"sync", "tick"}, {Corrupt})}

MCParallel == {Config(Brute(2) \o <<Compact("-j", "number", 2)>>,
                      {"save", "sync"}, NoFile)}

(* Skipped, ordinary, and a finding.                                         *)
MCOutcomes == {[length |-> 0, hit |-> FALSE], [length |-> 2, hit |-> FALSE],
               [length |-> 1, hit |-> TRUE]}
=============================================================================
