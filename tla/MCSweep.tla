------------------------------- MODULE MCSweep -------------------------------
(* Three byte values, instructions of three bytes.                           *)
EXTENDS Sweep

From(s) == [bytes |-> [i \in Positions |-> IF i < Len(s) THEN s[i + 1] ELSE 0],
            len |-> Len(s)]

Num(n) == Value("number", n)
Hex(s) == Value("hex", From(s))

(* A search in the spelling of the README, and one that gives the options in *)
(* one word each, some of them twice, among others the workers must keep.    *)
Plain(s, e, l, w, j) ==
  <<Flag("-b"), Flag("-i"), Hex(s), Flag("-e"), Hex(e), Flag("-l"), Num(l),
    Flag("-B"), Num(w), Flag("-j"), Num(j)>>

Terse(s, e, l, w, j) ==
  <<Flag("-t"), Compact("-j", "number", 9), Flag("-X"), Hex(<<2>>), Flag("-e"),
    Hex(<<2, 2>>), Flag("-b"), Compact("-i", "hex", From(s)), Flag("-D"),
    Compact("-e", "hex", From(e)), Compact("-B", "number", w), Flag("-P"),
    Num(2), Compact("-X", "hex", From(<<0, 1>>)), Compact("-l", "number", l),
    Flag("-j"), Num(j)>>

(* Depth at least that of the start and of the pieces.                       *)
Searches ==
  {Plain(s, e, l, 2, 2) :
     s \in {<<>>, <<1>>, <<0, 2>>}, e \in {<<2>>, <<1, 1>>, <<1>>}, l \in {1, 2}}
    \cup {Terse(s, e, l, 2, 3) :
            s \in {<<>>, <<0, 2>>}, e \in {<<2, 1>>, <<1, 1>>}, l \in {0, 2}}

Others ==
  {<<Flag("-b"), Flag("-j"), Flag("-i"), Hex(<<1>>)>>, <<Num(2)>>,
   <<Flag("-b"), Flag("-i")>>, <<Compact("-i", "number", 2)>>,
   <<Compact("--target", "name", 1)>>, <<Flag("-b"), Num(3), Flag("--help")>>,
   <<Flag("-r"), Flag("-j"), Num(2)>>, <<Flag("-d"), Compact("-j", "number", 2)>>,
   <<Flag("-t"), Flag("-j"), Num(1), Flag("--target"), Value("name", 1)>>,
   <<Flag("-b"), Flag("-j"), Num(4), Flag("--worker")>>}

MCCommandLines == Searches \cup Others

ASSUME AllDivisible == \A line \in MCCommandLines : Divisible(line)

(* No -e on a target of two bytes.                                           *)
MCDefaultEnd == {<<Flag("-b"), Flag("-i"), Hex(<<1>>), Flag("-B"), Num(2),
                   Flag("-j"), Num(2)>>}
=============================================================================
