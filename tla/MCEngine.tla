------------------------------ MODULE MCEngine ------------------------------
(* Three byte values: 0, the prefix 1, and 2 that opens a map of two bytes,  *)
(* continued by a third behind 2 1; instructions of four bytes.              *)
EXTENDS Corpus

MCReach == [b \in Byte |-> IF b = 2 THEN 1 ELSE 0]

From(s) == [bytes |-> [i \in Positions |-> IF i < Len(s) THEN s[i + 1] ELSE 0],
            len |-> Len(s)]

Ones(len) == [bytes |-> [i \in Positions |-> Base - 1], len |-> len]

Starts == {From(<<>>), From(<<0>>), From(<<1, 2>>), From(<<1, 0>>),
           From(<<2, 1, 0, 2>>)}
Ends == {Ones(2), From(<<2>>), From(<<2, 1, 2>>)}

Ranges == {[start |-> s, end |-> e] : s \in Starts, e \in Ends}

Config(m, r, w, q, p, d) ==
  [mode |-> m, range |-> r, wanted |-> w, queue |-> q, maxPrefix |-> p,
   duplicates |-> d]

MCConfigs ==
  {Config("brute", r, w, <<>>, Unlimited, FALSE) : r \in Ranges, w \in {1, 2, 4}}
    \cup {Config("tunnel", r, 1, <<>>, p, d) :
            r \in Ranges, p \in {0, 1, Unlimited}, d \in BOOLEAN}
    \cup {Config("random", r, 1, <<>>, 1, FALSE) : r \in Ranges}
    \cup {Config("driven", [start |-> From(<<>>), end |-> Ones(2)], 1, q, 1,
                 FALSE) : q \in {<<>>, <<From(<<2, 1, 0, 0>>), From(<<1, 1, 2, 0>>)>>}}

MCOutcomes == [observed : 0 .. Width, signum : {4, 5}, length : {1, 4},
               known : BOOLEAN]

(* Two bytes are executed.  One of the builds meets the opcode 2 2.          *)
Arm(m, s, e) == Config(m, [start |-> From(s), end |-> From(e)], KeyLen, <<>>,
                       Unlimited, FALSE)

MCBuildConfigs ==
  {Arm("brute", s, e) : s \in {<<0, 1>>, <<0, 2>>, <<1, 0>>},
                        e \in {<<1, 0>>, <<1, 2>>, <<2, 1>>}}
    \cup {Arm("brute", <<2, 0>>, <<2, 2, 1>>)}
    \cup {Arm("tunnel", s, <<2, 0>>) : s \in {<<>>, <<1, 1>>, <<0, 0, 0, 0>>}}
    \cup {Arm("random", <<1, 0>>, <<2, 1>>)}

MCArmOutcomes ==
  {[observed |-> KeyLen, signum |-> 0, length |-> KeyLen, known |-> TRUE],
   [observed |-> KeyLen, signum |-> Invalid, length |-> KeyLen, known |-> FALSE],
   [observed |-> KeyLen, signum |-> 5, length |-> 1, known |-> TRUE]}

MCOpcodes == {<<2, 2>>}

(* The hypothesis of the theorem about CorpusServes.                         *)
ASSUME BuildStartsFit == StartsFit
=============================================================================
