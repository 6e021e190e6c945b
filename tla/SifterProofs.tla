----------------------------- MODULE SifterProofs -----------------------------
(* Proofs about Sifter, for any configurations, outcomes and sizes: nothing  *)
(* that was read or found is lost, a resumed search is the same search, and  *)
(* it goes on where the earlier one ended.                                   *)
EXTENDS Sifter, OptionProofs

(* Between a line's being read and its being counted, and once the input is  *)
(* used up.                                                                  *)
Handling == pc \in {"tick", "truncate", "last", "record"}
Closing == {"log", "findings", "summary", "close", "closing", "done"}

InHand == IF Handling THEN line ELSE <<>>

(* What was sent, unless a line was refused, is what was handled, the line   *)
(* in hand and what is in the pipe, in this order.                           *)
LineInv ==
  /\ read \in Seq(Line) /\ emitted \in Seq(Line)
  /\ Handling \/ pc \in {"close", "closing"} => Len(line) = 1
  /\ pc # "failed" => emitted = (read \o InHand) \o PacketsOf(pipe)

(* The place saved is a start the injector can be given; a file has no       *)
(* injector; at the end of the input the search is over, and behind wait it  *)
(* has succeeded.                                                            *)
SourceInv ==
  /\ last \subseteq Hexed
  /\ rest \in [DOMAIN rest -> SUBSET Raw]
  /\ Imported => rest = <<>> /\ ~broken
  /\ pc \in Closing \cup {"wait"} =>
       pipe = <<>> /\ \A k \in DOMAIN rest : rest[k] = {}
  /\ pc \in Closing => ~broken

(* The statistics are of the lines handled.                                  *)
StatsInv ==
  /\ artifacts = IF conf.lowMem THEN {} ELSE {Key(read[i]) : i \in FirstFinds}
  /\ found = Cardinality(FirstFinds)

(* A report, once written, says what the statistics say.                     *)
ReportInv ==
  /\ pc \in Closing \ {"log"} => reports.log = [keys |-> artifacts, count |-> found]
  /\ pc \in Closing \ {"log", "findings"} => reports.findings = artifacts
  /\ pc \in Closing \ {"log", "findings", "summary"} => reports.summary = found

(* ResumeChangesStart, at any time.                                          *)
CommandInv ==
  pc # "idle" /\ Searches =>
    /\ Accepted(command)
    /\ ConfigOf(command) =
         LET first == ConfigOf(InjectorArgs(conf.args))
         IN  IF resumed = {} THEN first
             ELSE [first EXCEPT !.start = CHOOSE from \in resumed : TRUE]

(* ResumeLeavesNoGap, in every state.  A candidate that was not handled was  *)
(* sent already, or is left to search and behind all that were sent; and the *)
(* place saved is never behind it.                                           *)
Gapless == Searches /\ Alone /\ StartOf(Given).len <= Wanted(Given)
Remaining == SearchOf(Given) \ tried

Pending(b) == \E i \in DOMAIN emitted : i > Len(read) /\ emitted[i].bytes = b

OneLane ==
  /\ pc # "idle" => DOMAIN rest = {0}
  /\ pc = "idle" => last = {} /\ tried = {}
  /\ broken => rest[0] = {}

Sorted ==
  /\ \A i, j \in DOMAIN emitted :
       i < j => Precedes(emitted[i].bytes, emitted[j].bytes)
  /\ \A i \in DOMAIN emitted : \A b \in rest[0] : Precedes(emitted[i].bytes, b)

Resumable(b) == \A from \in last : ~Precedes(b, from.bytes)

Ahead(b) == /\ \A i \in DOMAIN emitted : ~Precedes(b, emitted[i].bytes)
            /\ broken \/ b \in rest[0]

GapInv ==
  Gapless => /\ OneLane /\ Sorted
             /\ \A b \in Remaining :
                  /\ Resumable(b)
                  /\ pc # "idle" /\ ~Pending(b) => Ahead(b)

SifterInv == /\ TypeOK /\ LineInv /\ SourceInv /\ StatsInv /\ SyncIsComplete
             /\ ReportInv /\ CommandInv /\ GapInv
-----------------------------------------------------------------------------
(* The configurations of two command lines that differ in one field.         *)
SetsOnly(args, g) == \A f : Places(args, f) # {} <=> f = g

LEMMA JoinOne ==
  ASSUME NEW a \in Seq(Argument), NEW b \in Seq(Argument),
         Accepted(a), Accepted(b),
         NEW g \in DOMAIN Default, g # "blacklists",
         SetsOnly(b, g)
  PROVE  /\ a \o b \in Seq(Argument) /\ Accepted(a \o b)
         /\ ConfigOf(a \o b) = [ConfigOf(a) EXCEPT ![g] = ConfigOf(b)[g]]
<1> DEFINE got == ConfigOf(a \o b)
           old == ConfigOf(a)
           want == [old EXCEPT ![g] = ConfigOf(b)[g]]
           D == DOMAIN Default
<1>1. /\ got = [f \in D |-> got[f]] /\ old = [f \in D |-> old[f]]
      /\ g \in D
  BY DEF ConfigOf
<1>2. ASSUME NEW f \in D PROVE got[f] = IF f = g THEN ConfigOf(b)[g] ELSE old[f]
  <2>1. CASE f = g BY <2>1, JoinConfig DEF SetsOnly
  <2>2. CASE f # g
    <3>1. Places(b, f) = {} BY <2>2 DEF SetsOnly
    <3> QED BY <2>2, <3>1, JoinConfig, JoinBlacklists
  <2> QED BY <2>1, <2>2
<1> HIDE DEF got, old, D
<1>3. got = want BY <1>1, <1>2
<1> QED BY <1>3, JoinAccepted DEF got, old

(* A switch behind a command line.                                           *)
LEMMA WithSwitch ==
  ASSUME NEW a \in Seq(Argument), Accepted(a), NEW x \in {"-x", "-R"}
  PROVE  /\ a \o <<Flag(x)>> \in Seq(Argument)
         /\ Accepted(a \o <<Flag(x)>>)
         /\ x = "-x" => ConfigOf(a \o <<Flag(x)>>)
                          = [ConfigOf(a) EXCEPT !.tick = TRUE]
         /\ x = "-R" => ConfigOf(a \o <<Flag(x)>>)
                          = [ConfigOf(a) EXCEPT !.output = "raw"]
<1> DEFINE b == <<Flag(x)>>
           g == Switches[x].field
<1>1. /\ x \in DOMAIN Switches /\ g \in {"tick", "output"}
      /\ x = "-x" => Switches[x] = [field |-> "tick", set |-> TRUE]
      /\ x = "-R" => Switches[x] = [field |-> "output", set |-> "raw"]
  BY DEF Switches, To
<1>2. g \in DOMAIN Default /\ g # "blacklists" BY <1>1 DEF Default
<1>3. Flag(x) \in Argument BY <1>1 DEF Flag, Argument, Names
<1>4. /\ b \in Seq(Argument) /\ DOMAIN b = {1} /\ b[1] = Flag(x)
  BY <1>3
<1>5. Flag(x).flag = x /\ Flag(x).value = None BY DEF Flag
<1> HIDE DEF b, g
<1>6. Accepted(b) BY <1>1, <1>4, <1>5 DEF Accepted
<1>7. \A f : Sets(x, f) <=> f = g
  <2>1. Sets(x, g) BY <1>1 DEF Sets, g
  <2> QED BY <2>1, SetsOne
<1>8. \A f : Places(b, f) = IF f = g THEN {1} ELSE {}
  BY <1>4, <1>5, <1>7 DEF Places
<1>9. ConfigOf(b)[g] = Switches[x].set
  <2>1. ValueAt(b, 1) = Switches[x].set BY <1>1, <1>4, <1>5 DEF ValueAt
  <2>2. Places(b, g) = {1} BY <1>8
  <2> QED BY <1>2, <1>4, <2>1, <2>2, ConfigValue
<1>10. /\ a \o b \in Seq(Argument) /\ Accepted(a \o b)
       /\ ConfigOf(a \o b) = [ConfigOf(a) EXCEPT ![g] = ConfigOf(b)[g]]
  <2>1. SetsOnly(b, g) BY <1>8 DEF SetsOnly
  <2> QED BY <1>2, <1>4, <1>6, <2>1, JoinOne
<1>11. g = IF x = "-x" THEN "tick" ELSE "output" BY <1>1 DEF g
<1>12. CASE x = "-x"
  <2>1. g = "tick" /\ ConfigOf(b)[g] = TRUE BY <1>1, <1>9, <1>11, <1>12
  <2>2. ConfigOf(a \o b) = [ConfigOf(a) EXCEPT !["tick"] = TRUE]
    BY <1>10, <2>1
  <2> QED BY <1>10, <1>12, <2>2 DEF b
<1>13. CASE x = "-R"
  <2>1. g = "output" /\ ConfigOf(b)[g] = "raw" BY <1>1, <1>9, <1>11, <1>13
  <2>2. ConfigOf(a \o b) = [ConfigOf(a) EXCEPT !["output"] = "raw"]
    BY <1>10, <2>1
  <2> QED BY <1>10, <1>13, <2>2 DEF b
<1> QED BY <1>12, <1>13

(* apply_resume: the place to go on from is the start.                       *)
LEMMA WithStart ==
  ASSUME NEW a \in Seq(Argument), NEW from \in Hexed
  PROVE  /\ ResumedFrom(a, from) \in Seq(Argument)
         /\ Accepted(a) =>
              /\ Accepted(ResumedFrom(a, from))
              /\ ConfigOf(ResumedFrom(a, from))
                   = [ConfigOf(a) EXCEPT !.start = from]
<1> DEFINE v == [kind |-> "hex", of |-> from]
           b == <<Flag("-i"), Value("hex", from)>>
<1>1. /\ "-i" \in DOMAIN Valued /\ "-i" \notin DOMAIN Switches
      /\ Valued["-i"].kind = "hex" /\ "-i" \in Names
  BY FlagFacts DEF Compactable, Names
<1>2. v \in Values
  <2> HIDE DEF Hexed
  <2> QED BY DEF Values
<1>3. v # None BY <1>2, NoneAssumption
<1>4. /\ b[1] = [flag |-> "-i", value |-> None]
      /\ b[2] = [flag |-> None, value |-> v]
      /\ DOMAIN b = {1, 2} /\ Len(b) = 2
  BY DEF Flag, Value
<1>5. b[1] \in Argument /\ b[2] \in Argument
  BY <1>1, <1>2, <1>4 DEF Argument
<1>6. b \in Seq(Argument)
  <2>1. Flag("-i") \in Argument /\ Value("hex", from) \in Argument
    BY <1>5
  <2> QED BY <2>1
<1>7. v.kind = "hex" /\ v.of = from OBVIOUS
<1> HIDE DEF b, v
<1>8. Apart(b[1]) /\ Fits("-i", v)
  BY <1>1, <1>3, <1>4, <1>7 DEF Apart, Fits
<1>9. Accepted(b) BY <1>4, <1>8 DEF Accepted
<1>10. \A f : Places(b, f) = IF f = "start" THEN {1} ELSE {}
  <2>1. \A f : Sets("-i", f) <=> f = "start" BY FlagFacts, SetsOne
  <2> QED BY <1>4, <2>1, SetsOne DEF Places
<1>11. "start" \in DOMAIN Default BY DEF Default
<1>12. ConfigOf(b)["start"] = from
  <2>1. ValueAt(b, 1) = from BY <1>1, <1>4, <1>7, <1>8 DEF ValueAt
  <2>2. Places(b, "start") = {1} BY <1>10
  <2> QED BY <1>6, <1>11, <2>1, <2>2, ConfigValue
<1>13. ResumedFrom(a, from) = a \o b BY DEF ResumedFrom, b
<1>14. a \o b \in Seq(Argument) BY <1>6
<1>15. ASSUME Accepted(a)
       PROVE  /\ Accepted(a \o b)
              /\ ConfigOf(a \o b) = [ConfigOf(a) EXCEPT !["start"] = from]
  <2>1. SetsOnly(b, "start") BY <1>10 DEF SetsOnly
  <2> QED BY <1>6, <1>9, <1>11, <1>12, <1>15, <2>1, JoinOne
<1> QED BY <1>13, <1>14, <1>15

(* What the sifter adds for the injector: packets, and ticks if it ticks.    *)
LEMMA InjectorConfig ==
  ASSUME NEW a \in Seq(Argument)
  PROVE  /\ InjectorArgs(a) \in Seq(Argument)
         /\ Accepted(a) =>
              /\ Accepted(InjectorArgs(a))
              /\ ConfigOf(InjectorArgs(a)) =
                   [ConfigOf(a) EXCEPT !.tick = IF conf.tick THEN TRUE ELSE @,
                                       !.output = "raw"]
<1> DEFINE given == \A i \in DOMAIN a : a[i] # Flag("-x")
           b == IF conf.tick /\ given THEN Append(a, Flag("-x")) ELSE a
<1>1. InjectorArgs(a) = b \o <<Flag("-R")>> BY DEF InjectorArgs
<1>2. Append(a, Flag("-x")) = a \o <<Flag("-x")>> OBVIOUS
<1>3. Flag("-x") \in Argument /\ Flag("-R") \in Argument
  BY DEF Flag, Argument, Names, Switches
<1>4. b \in Seq(Argument) BY <1>3
<1>5. InjectorArgs(a) \in Seq(Argument) BY <1>1, <1>3, <1>4
<1>6. ASSUME Accepted(a)
      PROVE  /\ Accepted(b)
             /\ ConfigOf(b) = [ConfigOf(a) EXCEPT !.tick = IF conf.tick THEN TRUE ELSE @]
  <2>1. CASE conf.tick /\ given
    BY <1>2, <1>6, <2>1, WithSwitch
  <2>2. ConfigOf(a) = [ConfigOf(a) EXCEPT !.tick = @]
    <3>1. ConfigOf(a) = [f \in DOMAIN Default |-> ConfigOf(a)[f]]
      BY DEF ConfigOf
    <3> HIDE DEF ConfigOf
    <3> QED BY <3>1
  <2>3. CASE ~conf.tick BY <1>6, <2>2, <2>3
  <2>4. CASE conf.tick /\ ~given
    <3>1. PICK i \in DOMAIN a : a[i] = Flag("-x") BY <2>4
    <3>2. /\ "-x" \in DOMAIN Switches /\ Sets("-x", "tick")
          /\ Switches["-x"].set = TRUE /\ "tick" \in DOMAIN Default
      BY DEF Switches, To, Sets, Default
    <3>3. \A x : Sets(x, "tick") => x = "-x"
      BY DEF Sets, Switches, Valued, To, Of
    <3>4. i \in Places(a, "tick") BY <3>1, <3>2 DEF Places, Flag
    <3>5. PICK j \in Places(a, "tick") : \A k \in Places(a, "tick") : k <= j
      BY <3>4, PlacesType, AscendingLast
    <3>6. a[j].flag = "-x" BY <3>3 DEF Places
    <3>7. ValueAt(a, j) = TRUE BY <3>2, <3>6 DEF ValueAt
    <3>8. ConfigOf(a)["tick"] = TRUE BY <3>2, <3>5, <3>7, ConfigValue
    <3> QED BY <1>6, <2>2, <2>4, <3>8
  <2> QED BY <2>1, <2>3, <2>4
<1> HIDE DEF b
<1>7. ASSUME Accepted(a)
      PROVE  /\ Accepted(InjectorArgs(a))
             /\ ConfigOf(InjectorArgs(a)) = [ConfigOf(b) EXCEPT !.output = "raw"]
  BY <1>1, <1>4, <1>6, <1>7, WithSwitch
<1> QED BY <1>5, <1>6, <1>7

-----------------------------------------------------------------------------
(* write_last_result: what is saved of a line is not behind it.              *)
LEMMA SavedBefore ==
  ASSUME NEW l \in Line
  PROVE  Saved(l) \in Hexed /\ ~Precedes(l.bytes, Saved(l).bytes)
<1>1. l.bytes \in Raw /\ l.length \in 0 .. Width /\ l.length \in Nat
  BY WidthAssumption DEF Line
<1> DEFINE z == ZeroFrom(l.bytes, l.length)
<1>2. z \in Raw /\ ZeroTail(z, l.length) BY <1>1, ZeroType
<1>3. Saved(l).bytes = z /\ Saved(l).len = l.length BY DEF Saved
<1>4. ASSUME NEW i \in Positions PROVE ~(l.bytes[i] < z[i])
  <2>1. l.bytes[i] \in Nat BY <1>1, ByteType
  <2>2. z[i] = l.bytes[i] \/ z[i] = 0 BY DEF ZeroFrom
  <2> QED BY <2>1, <2>2
<1> HIDE DEF z
<1>5. Saved(l) \in Hexed BY <1>1, <1>2, <1>3 DEF Saved, Hexed, Instruction
<1> QED BY <1>3, <1>4, <1>5 DEF Precedes

(* Nothing is in front of what an empty file is read as.                     *)
LEMMA EmptyIsFirst ==
  Empty \in Hexed /\ \A b \in Raw : ~Precedes(b, Empty.bytes)
<1> DEFINE z == [i \in Positions |-> 0]
<1>1. z \in Raw BY ByteAssumption DEF Raw, Byte
<1>2. ZeroTail(z, 0) /\ \A i \in Positions : z[i] = 0 BY DEF ZeroTail
<1>3. 0 \in 0 .. Width BY WidthAssumption
<1>4. Empty = [bytes |-> z, len |-> 0] BY DEF Empty
<1> HIDE DEF z
<1>5. Empty \in Hexed BY <1>1, <1>2, <1>3, <1>4 DEF Hexed, Instruction
<1>6. ASSUME NEW b \in Raw, Precedes(b, Empty.bytes) PROVE FALSE
  <2>1. PICK i \in Positions : b[i] < z[i] BY <1>4, <1>6 DEF Precedes
  <2>2. b[i] \in Nat BY ByteType
  <2> QED BY <1>2, <2>1, <2>2
<1> QED BY <1>5, <1>6

(* The injector always tries the first candidate it has left.                *)
LEMMA LeastFirst ==
  ASSUME NEW S \in SUBSET Raw, S # {}
  PROVE  /\ Least(S) \in S
         /\ \A x \in S : x = Least(S) \/ Precedes(Least(S), x)
<1>1. \E b \in S : \A x \in S : x = b \/ Precedes(b, x) BY FirstExists
<1> QED BY <1>1 DEF Least

(* What a line is filed under.                                               *)
LEMMA KeyType == \A l \in Line : Key(l) \in Keys
<1> SUFFICES ASSUME NEW l \in Line PROVE Key(l) \in Keys
  OBVIOUS
<1>1. l.bytes \in Raw /\ l.length \in 0 .. Width BY DEF Line
<1> DEFINE s == [i \in 1 .. Width |-> l.bytes[i - 1]]
<1>2. \A i \in 1 .. Width : i - 1 \in Positions
  BY WidthAssumption DEF Positions
<1>3. s \in [1 .. Width -> Byte] BY <1>1, <1>2 DEF Raw
<1>4. s \in Seq(Byte) /\ Len(s) = Width BY <1>3, WidthAssumption
<1> HIDE DEF s
<1>5. SubSeq(s, 1, l.length) \in [1 .. l.length -> Byte]
  <2>1. l.length \in Nat /\ l.length <= Len(s) BY <1>1, <1>4, WidthAssumption
  <2>2. \A i \in 1 .. l.length : s[i] \in Byte BY <1>4, <2>1
  <2>3. SubSeq(s, 1, l.length) = [i \in 1 .. l.length |-> s[i]] BY <2>1
  <2> QED BY <2>2, <2>3
<1> QED BY <1>1, <1>5 DEF Key, Keys, s

-----------------------------------------------------------------------------
(* The packets among the lines of a file or a pipe.                          *)
LEMMA TextKinds ==
  /\ \A t \in Text : t.kind = "packet" => t.packet \in Line
  /\ \A l \in Line : Packet(l) \in Text /\ Packet(l).kind = "packet"
                     /\ Packet(l).packet = l
  /\ Blank \in Text /\ Blank.kind # "packet"
  /\ Other \in Text /\ Other.kind # "packet"
BY DEF Text, Packet, Blank, Other

LEMMA PacketsType ==
  ASSUME NEW file \in Seq(Text)
  PROVE  PacketsOf(file) \in Seq(Line)
<1> DEFINE S == {i \in DOMAIN file : file[i].kind = "packet"}
           packets == At(file, S)
<1>1. S \in SUBSET DOMAIN file OBVIOUS
<1>2. /\ IsFiniteSet(S) /\ S \in SUBSET Nat
      /\ packets \in Seq(Text) /\ Len(packets) = Cardinality(S)
  BY <1>1, AtType
<1>3. ASSUME NEW k \in DOMAIN packets PROVE packets[k].packet \in Line
  <2>1. k \in 1 .. Cardinality(S) BY <1>2
  <2>2. Ascending(S)[k] \in S BY <1>2, <2>1, AscendingType
  <2>3. packets[k] = file[Ascending(S)[k]] BY <2>1 DEF At
  <2>4. packets[k].kind = "packet" BY <2>2, <2>3
  <2>5. packets[k] \in Text BY <1>2
  <2> QED BY <2>4, <2>5, TextKinds
<1>4. PacketsOf(file) = [i \in DOMAIN packets |-> packets[i].packet]
  BY DEF PacketsOf
<1> HIDE DEF packets, S
<1>5. DOMAIN packets = 1 .. Len(packets) /\ Len(packets) \in Nat BY <1>2
<1> QED BY <1>3, <1>4, <1>5

LEMMA PacketsJoin ==
  ASSUME NEW a \in Seq(Text), NEW b \in Seq(Text)
  PROVE  PacketsOf(a \o b) = PacketsOf(a) \o PacketsOf(b)
<1> DEFINE c == a \o b
           A == {i \in DOMAIN a : a[i].kind = "packet"}
           B == {i \in DOMAIN b : b[i].kind = "packet"}
           C == {i \in DOMAIN c : c[i].kind = "packet"}
<1>1. /\ c \in Seq(Text) /\ Len(c) = Len(a) + Len(b)
      /\ \A i \in 1 .. Len(a) : c[i] = a[i]
      /\ \A i \in 1 .. Len(b) : c[Len(a) + i] = b[i]
  BY ConcatType
<1>2. /\ Len(a) \in Nat /\ Len(b) \in Nat
      /\ DOMAIN a = 1 .. Len(a) /\ DOMAIN b = 1 .. Len(b)
      /\ DOMAIN c = 1 .. Len(a) + Len(b)
  BY <1>1
<1> HIDE DEF c
<1>3. \A i \in 1 .. Len(a) : i \in C <=> i \in A BY <1>1, <1>2
<1>4. \A i \in 1 .. Len(b) : Len(a) + i \in C <=> i \in B BY <1>1, <1>2
<1>5. /\ A \subseteq 1 .. Len(a) /\ B \subseteq 1 .. Len(b)
      /\ C \subseteq 1 .. Len(a) + Len(b)
  BY <1>2
<1> DEFINE pa == At(a, A)
           pb == At(b, B)
           pc2 == At(c, C)
<1>6. Halves(C, A, B, Len(a), Len(b)) BY <1>3, <1>4, <1>5 DEF Halves
<1> HIDE DEF A, B, C
<1>7. pc2 = pa \o pb BY <1>6, AtConcat DEF c
<1>8. pa \in Seq(Text) /\ pb \in Seq(Text) BY <1>2, <1>5, AtType
<1>9. /\ PacketsOf(a) = [i \in DOMAIN pa |-> pa[i].packet]
      /\ PacketsOf(b) = [i \in DOMAIN pb |-> pb[i].packet]
      /\ PacketsOf(c) = [i \in DOMAIN pc2 |-> pc2[i].packet]
  BY DEF PacketsOf, A, B, C
<1>10. /\ PacketsOf(a) \in Seq(Line) /\ PacketsOf(b) \in Seq(Line)
       /\ PacketsOf(c) \in Seq(Line)
  BY <1>1, PacketsType
<1> HIDE DEF pa, pb, pc2
<1>11. /\ Len(PacketsOf(a)) = Len(pa) /\ Len(PacketsOf(b)) = Len(pb)
       /\ Len(PacketsOf(c)) = Len(pc2)
       /\ \A i \in 1 .. Len(pa) : PacketsOf(a)[i] = pa[i].packet
       /\ \A i \in 1 .. Len(pb) : PacketsOf(b)[i] = pb[i].packet
       /\ \A i \in 1 .. Len(pc2) : PacketsOf(c)[i] = pc2[i].packet
  <2>1. pc2 \in Seq(Text) BY <1>7, <1>8
  <2>2. /\ DOMAIN pa = 1 .. Len(pa) /\ DOMAIN pb = 1 .. Len(pb)
        /\ DOMAIN pc2 = 1 .. Len(pc2)
    BY <1>8, <2>1
  <2>3. /\ DOMAIN PacketsOf(a) = 1 .. Len(pa)
        /\ DOMAIN PacketsOf(b) = 1 .. Len(pb)
        /\ DOMAIN PacketsOf(c) = 1 .. Len(pc2)
    BY <1>9, <2>2
  <2>4. /\ Len(PacketsOf(a)) = Len(pa) /\ Len(PacketsOf(b)) = Len(pb)
        /\ Len(PacketsOf(c)) = Len(pc2)
    BY <1>8, <1>10, <2>1, <2>3
  <2> QED BY <1>9, <2>2, <2>4
<1> DEFINE both == PacketsOf(a) \o PacketsOf(b)
<1>12. /\ both \in Seq(Line) /\ Len(both) = Len(pa) + Len(pb)
       /\ \A i \in 1 .. Len(pa) : both[i] = PacketsOf(a)[i]
       /\ \A i \in 1 .. Len(pb) : both[Len(pa) + i] = PacketsOf(b)[i]
  <2>1. /\ both \in Seq(Line)
        /\ Len(both) = Len(PacketsOf(a)) + Len(PacketsOf(b))
        /\ \A i \in 1 .. Len(PacketsOf(a)) : both[i] = PacketsOf(a)[i]
        /\ \A i \in 1 .. Len(PacketsOf(b)) :
             both[Len(PacketsOf(a)) + i] = PacketsOf(b)[i]
    BY <1>10, ConcatType
  <2> HIDE DEF both
  <2> QED BY <1>11, <2>1
<1>13. /\ Len(pc2) = Len(pa) + Len(pb)
       /\ \A i \in 1 .. Len(pa) : pc2[i] = pa[i]
       /\ \A i \in 1 .. Len(pb) : pc2[Len(pa) + i] = pb[i]
  BY <1>7, <1>8, ConcatType
<1> HIDE DEF both
<1>14. ASSUME NEW i \in 1 .. Len(both) PROVE both[i] = PacketsOf(c)[i]
  <2>1. Len(pa) \in Nat /\ Len(pb) \in Nat BY <1>8
  <2>2. CASE i <= Len(pa)
    <3>1. i \in 1 .. Len(pa) /\ i \in 1 .. Len(pc2)
      BY <1>12, <1>13, <2>1, <2>2
    <3> QED BY <1>11, <1>12, <1>13, <3>1
  <2>3. CASE ~(i <= Len(pa))
    <3>1. i - Len(pa) \in 1 .. Len(pb) /\ i = Len(pa) + (i - Len(pa))
      BY <1>12, <2>1, <2>3
    <3>2. PICK k \in 1 .. Len(pb) : i = Len(pa) + k BY <3>1
    <3>3. i \in 1 .. Len(pc2) BY <1>12, <1>13
    <3>4. both[i] = pb[k].packet BY <1>11, <1>12, <3>2
    <3>5. PacketsOf(c)[i] = pb[k].packet BY <1>11, <1>13, <3>2, <3>3
    <3> QED BY <3>4, <3>5
  <2> QED BY <2>2, <2>3
<1>15. PacketsOf(c) = both
  BY <1>10, <1>11, <1>12, <1>13, <1>14, SameElements
<1> QED BY <1>15 DEF both, c

(* One line is a packet or none.                                             *)
LEMMA PacketsOne ==
  /\ PacketsOf(<<>>) = <<>>
  /\ \A t \in Text : PacketsOf(<<t>>) =
                       IF t.kind = "packet" THEN <<t.packet>> ELSE <<>>
<1>1. Cardinality({}) = 0 BY FS_EmptySet
<1>2. \A s : At(s, {}) = <<>> BY <1>1 DEF At
<1>3. PacketsOf(<<>>) = <<>>
  <2>1. {i \in DOMAIN <<>> : <<>>[i].kind = "packet"} = {} OBVIOUS
  <2>2. At(<<>>, {i \in DOMAIN <<>> : <<>>[i].kind = "packet"}) = <<>>
    BY <1>2, <2>1
  <2> QED BY <2>2 DEF PacketsOf
<1>4. ASSUME NEW t \in Text
      PROVE  PacketsOf(<<t>>) = IF t.kind = "packet" THEN <<t.packet>> ELSE <<>>
  <2> DEFINE s == <<t>>
             S == {i \in DOMAIN s : s[i].kind = "packet"}
  <2>1. s \in Seq(Text) /\ DOMAIN s = {1} /\ s[1] = t /\ 1 .. 1 = {1} OBVIOUS
  <2> HIDE DEF s
  <2>2. CASE t.kind # "packet"
    <3>1. S = {} BY <2>1, <2>2
    <3>2. At(s, S) = <<>> BY <1>2, <3>1
    <3>3. [i \in DOMAIN <<>> |-> <<>>[i].packet] = <<>> OBVIOUS
    <3>4. PacketsOf(s) = <<>> BY <3>2, <3>3 DEF PacketsOf
    <3> QED BY <2>2, <3>4 DEF s
  <2>3. CASE t.kind = "packet"
    <3>1. S = {1} BY <2>1, <2>3
    <3>2. Cardinality({1}) = 1 BY FS_Singleton
    <3>3. Ascending({1})[1] = 1
      <4>1. IsFiniteSet({1}) BY FS_Singleton
      <4>2. {1} \in SUBSET Nat OBVIOUS
      <4>3. Ascending({1}) \in [1 .. Cardinality({1}) -> {1}]
        BY <4>1, <4>2, AscendingType
      <4>4. Ascending({1}) \in [1 .. 1 -> {1}] BY <3>2, <4>3
      <4> QED BY <4>4
    <3>4. At(s, S) = [k \in 1 .. 1 |-> t] BY <2>1, <3>1, <3>2, <3>3 DEF At
    <3>5. PacketsOf(s) = [k \in 1 .. 1 |-> t.packet]
      BY <3>4 DEF PacketsOf
    <3>6. [k \in 1 .. 1 |-> t.packet] = <<t.packet>> OBVIOUS
    <3> QED BY <2>3, <3>5, <3>6 DEF s
  <2> QED BY <2>2, <2>3
<1> QED BY <1>3, <1>4

(* A line is sent, a line is taken.                                          *)
LEMMA PacketSent ==
  ASSUME NEW file \in Seq(Text), NEW l \in Line
  PROVE  PacketsOf(Append(file, Packet(l))) = PacketsOf(file) \o <<l>>
<1>1. Packet(l) \in Text BY TextKinds
<1>2. Append(file, Packet(l)) = file \o <<Packet(l)>> /\ <<Packet(l)>> \in Seq(Text)
  BY <1>1
<1>3. PacketsOf(<<Packet(l)>>) = <<l>> BY <1>1, TextKinds, PacketsOne
<1> QED BY <1>2, <1>3, PacketsJoin

LEMMA PacketTaken ==
  ASSUME NEW file \in Seq(Text), file # <<>>
  PROVE  /\ Head(file) \in Text /\ Tail(file) \in Seq(Text)
         /\ PacketsOf(file) =
              IF Head(file).kind = "packet"
              THEN <<Head(file).packet>> \o PacketsOf(Tail(file))
              ELSE PacketsOf(Tail(file))
<1>1. /\ Head(file) \in Text /\ Tail(file) \in Seq(Text)
      /\ <<Head(file)>> \in Seq(Text)
      /\ file = <<Head(file)>> \o Tail(file)
  OBVIOUS
<1>2. PacketsOf(file) = PacketsOf(<<Head(file)>>) \o PacketsOf(Tail(file))
  BY <1>1, PacketsJoin
<1>3. PacketsOf(Tail(file)) \in Seq(Line) BY <1>1, PacketsType
<1>4. <<>> \o PacketsOf(Tail(file)) = PacketsOf(Tail(file)) BY <1>3
<1> QED BY <1>1, <1>2, <1>4, PacketsOne

-----------------------------------------------------------------------------
(* The first finds among the lines read, and those among one more.           *)
LEMMA FindsType ==
  ASSUME read \in Seq(Line)
  PROVE  /\ FirstFinds \in SUBSET (1 .. Len(read))
         /\ FirstFinds \in SUBSET Nat /\ IsFiniteSet(FirstFinds)
         /\ Cardinality(FirstFinds) \in Nat
         /\ \A i \in FirstFinds : Rank(FirstFinds, i) \in 1 .. Cardinality(FirstFinds)
<1>1. DOMAIN read = 1 .. Len(read) /\ Len(read) \in Nat OBVIOUS
<1>2. FirstFinds \in SUBSET (1 .. Len(read)) BY <1>1 DEF FirstFinds
<1>3. IsFiniteSet(1 .. Len(read)) BY <1>1, FS_Interval
<1>4. IsFiniteSet(FirstFinds) BY <1>2, <1>3, FS_Subset
<1>5. FirstFinds \in SUBSET Nat BY <1>2
<1> QED BY <1>2, <1>4, <1>5, RankType

(* Every finding has the key of a first one.                                 *)
LEMMA FirstsAreAll ==
  ASSUME read \in Seq(Line), ~conf.lowMem, NEW i \in DOMAIN read, read[i].hit
  PROVE  \E j \in FirstFinds : Key(read[j]) = Key(read[i])
<1> DEFINE S == {j \in DOMAIN read : read[j].hit /\ Key(read[j]) = Key(read[i])}
<1>1. DOMAIN read = 1 .. Len(read) /\ Len(read) \in Nat OBVIOUS
<1>2. S \in SUBSET Nat /\ S # {} BY <1>1
<1>3. PICK j \in S : \A k \in S : j <= k BY <1>2, LeastNatural
<1>4. ASSUME NEW k \in 1 .. j - 1, read[k].hit
      PROVE  Key(read[k]) # Key(read[j])
  <2>1. j \in 1 .. Len(read) /\ k \in DOMAIN read /\ ~(j <= k) BY <1>1, <1>3
  <2>2. k \notin S BY <1>3, <2>1
  <2> QED BY <1>3, <1>4, <2>1, <2>2
<1>5. j \in FirstFinds BY <1>3, <1>4 DEF FirstFinds
<1> QED BY <1>3, <1>5

(* Whether the line in hand is new to what is kept.                          *)
New(l) == /\ l.hit
          /\ conf.lowMem \/ Key(l) \notin {Key(read[i]) : i \in FirstFinds}

LEMMA FindsGrow ==
  ASSUME read \in Seq(Line), NEW l \in Line,
         read' = Append(read, l), conf' = conf
  PROVE  /\ Len(read) + 1 \notin FirstFinds
         /\ FirstFinds' = IF New(l) THEN FirstFinds \cup {Len(read) + 1}
                          ELSE FirstFinds
         /\ \A i \in FirstFinds : read'[i] = read[i]
         /\ read'[Len(read) + 1] = l
<1> DEFINE n == Len(read)
<1>1. /\ n \in Nat /\ DOMAIN read = 1 .. n /\ read' \in Seq(Line)
      /\ DOMAIN (read') = 1 .. n + 1
      /\ \A i \in 1 .. n : read'[i] = read[i]
      /\ read'[n + 1] = l
  OBVIOUS
<1>2. FirstFinds \subseteq 1 .. n BY FindsType
<1> HIDE DEF n
<1>3. ASSUME NEW i \in 1 .. n PROVE i \in FirstFinds' <=> i \in FirstFinds
  <2>1. \A j \in 1 .. i - 1 : j \in 1 .. n BY <1>1
  <2>2. i \in 1 .. n + 1 BY <1>1
  <2> QED BY <1>1, <2>1, <2>2 DEF FirstFinds
<1>4. n + 1 \in FirstFinds' <=> New(l)
  <2>1. n + 1 \in FirstFinds' <=>
          /\ l.hit
          /\ conf.lowMem \/ \A j \in 1 .. n : read[j].hit => Key(read[j]) # Key(l)
    <3>1. n + 1 \in 1 .. n + 1 /\ 1 .. (n + 1) - 1 = 1 .. n BY <1>1
    <3> QED BY <1>1, <3>1 DEF FirstFinds
  <2>2. ASSUME ~conf.lowMem
        PROVE  (\A j \in 1 .. n : read[j].hit => Key(read[j]) # Key(l))
                 <=> Key(l) \notin {Key(read[i]) : i \in FirstFinds}
    <3>1. \A j \in 1 .. n : read[j].hit =>
            \E i \in FirstFinds : Key(read[i]) = Key(read[j])
      BY <1>1, <2>2, FirstsAreAll
    <3>2. \A i \in FirstFinds : i \in 1 .. n /\ read[i].hit
      BY <1>2 DEF FirstFinds
    <3> QED BY <3>1, <3>2
  <2> QED BY <2>1, <2>2 DEF New
<1>5. FirstFinds' \subseteq 1 .. n + 1 BY <1>1 DEF FirstFinds
<1>6. n + 1 \notin FirstFinds /\ 1 .. n + 1 = (1 .. n) \cup {n + 1}
  BY <1>1, <1>2
<1>7. FirstFinds' = IF New(l) THEN FirstFinds \cup {n + 1} ELSE FirstFinds
  <2> DEFINE F == FirstFinds'
  <2>1. F = {i \in 1 .. n : i \in F} \cup {i \in {n + 1} : i \in F}
    BY <1>5, <1>6
  <2>2. {i \in 1 .. n : i \in F} = FirstFinds BY <1>2, <1>3
  <2> HIDE DEF F
  <2> QED BY <1>4, <2>1, <2>2 DEF F
<1> QED BY <1>1, <1>2, <1>6, <1>7 DEF n

(* A number above all others has the last rank, and changes no other.        *)
LEMMA RankGrows ==
  ASSUME NEW S \in SUBSET Nat, IsFiniteSet(S), NEW n \in Nat,
         \A i \in S : i < n
  PROVE  /\ Cardinality(S \cup {n}) = Cardinality(S) + 1
         /\ \A i \in S : Rank(S \cup {n}, i) = Rank(S, i)
         /\ Rank(S \cup {n}, n) = Cardinality(S) + 1
<1>1. n \notin S OBVIOUS
<1>2. Cardinality(S \cup {n}) = Cardinality(S) + 1 BY <1>1, FS_AddElement
<1>3. ASSUME NEW i \in S PROVE Rank(S \cup {n}, i) = Rank(S, i)
  <2>1. {j \in S \cup {n} : j <= i} = {j \in S : j <= i} OBVIOUS
  <2> QED BY <2>1 DEF Rank
<1>4. {j \in S \cup {n} : j <= n} = S \cup {n}
  <2>1. \A j \in S \cup {n} : j <= n OBVIOUS
  <2> QED BY <2>1
<1> QED BY <1>2, <1>3, <1>4 DEF Rank

(* What a step other than these leaves alone.                                *)
LEMMA Frame ==
  ASSUME [Next]_vars
  PROVE  \/ Launch \/ Resume \/ Record
         \/ /\ UNCHANGED <<setup, stats, sync, past>>
            /\ pc' = "idle" <=> pc = "idle"
<1>1. ASSUME Injector \/ Sift \/ RefuseResume \/ Abort \/ UNCHANGED vars
      PROVE  Record \/ /\ UNCHANGED <<setup, stats, sync, past>>
                       /\ pc' = "idle" <=> pc = "idle"
  BY <1>1 DEF Injector, Emit, Break, Sift, ReadLine, SkipLine, RefuseLine,
              WriteTick, Truncate, WriteLast, Eof, Wait, WriteReport,
              WriteFinalLog, WriteFindings, WriteSummary, RefuseResume, Abort,
              vars, files, Live, Goto, AfterTick
<1> QED BY <1>1 DEF Next

(* A start of either kind.                                                   *)
LEMMA Begins ==
  ASSUME SifterInv, Launch \/ Resume
  PROVE  \E args \in Seq(Argument) :
           /\ Begin(args)
           /\ \/ Launch /\ args = conf.args
              \/ /\ Resume
                 /\ \E given \in {conf.args, StripValueFlags(conf.args, {"-i"})},
                       from \in last :
                      resumed' = {from} /\ args = ResumedFrom(given, from)
<1>1. conf.args \in Seq(Argument) BY SifterAssumption DEF SifterInv, TypeOK
<1>2. CASE Launch BY <1>1, <1>2 DEF Launch
<1>3. CASE Resume
  <2>1. PICK given \in {conf.args, StripValueFlags(conf.args, {"-i"})},
             from \in last :
               resumed' = {from} /\ Begin(ResumedFrom(given, from))
    BY <1>3 DEF Resume
  <2>2. given \in Seq(Argument) BY <1>1, StripType
  <2>3. from \in Hexed BY DEF SifterInv, SourceInv
  <2>4. ResumedFrom(given, from) \in Seq(Argument) BY <2>2, <2>3, WithStart
  <2> QED BY <1>3, <2>1, <2>4
<1> QED BY <1>2, <1>3

(* The statistics and the sync log have the first finds.                     *)
LEMMA StatsStep ==
  ASSUME SifterInv, [Next]_vars
  PROVE  StatsInv' /\ SyncIsComplete'
<1>1. /\ StatsInv /\ SyncIsComplete /\ LineInv /\ TypeOK
  BY DEF SifterInv
<1>2. CASE UNCHANGED <<setup, stats, sync, past>>
  BY <1>1, <1>2 DEF StatsInv, SyncIsComplete, FirstFinds, setup, stats, past
<1>3. CASE Launch \/ Resume
  <2>1. PICK args \in Seq(Argument) : Begin(args) BY <1>3, Begins
  <2>2. /\ artifacts' = {} /\ found' = 0 /\ read' = <<>> /\ conf' = conf
        /\ sync' = IF conf.sync THEN <<>> ELSE sync
    BY <2>1 DEF Begin
  <2>3. FirstFinds' = {} BY <2>2 DEF FirstFinds
  <2>4. Cardinality({}) = 0 BY FS_EmptySet
  <2>5. StatsInv' BY <2>2, <2>3, <2>4 DEF StatsInv
  <2>6. SyncIsComplete' BY <1>1, <2>2, <2>3, <2>4 DEF SyncIsComplete
  <2> QED BY <2>5, <2>6
<1>4. CASE Record
  <2> DEFINE l == line[1]
             F == FirstFinds
             n == Len(read)
  <2>1. /\ pc = "record" /\ conf' = conf /\ read' = Append(read, l)
        /\ read \in Seq(Line) /\ line \in Seq(Line) /\ Len(line) = 1
    BY <1>1, <1>4 DEF Record, LineInv, Handling, TypeOK, setup
  <2>2. l \in Line
    <3>1. line \in Seq(Line) /\ 1 \in DOMAIN line BY <2>1
    <3> QED BY <3>1
  <2>3. /\ F \in SUBSET (1 .. n) /\ F \in SUBSET Nat /\ IsFiniteSet(F)
        /\ Cardinality(F) \in Nat /\ n \in Nat
        /\ \A i \in F : Rank(F, i) \in 1 .. Cardinality(F)
    BY <2>1, FindsType
  <2>4. /\ n + 1 \notin F
        /\ FirstFinds' = IF New(l) THEN F \cup {n + 1} ELSE F
        /\ \A i \in F : read'[i] = read[i]
        /\ read'[n + 1] = l
    BY <2>1, <2>2, FindsGrow
  <2>5. IsNew(l) <=> New(l)
    BY <1>1 DEF StatsInv, IsNew, Detect, New
  <2>6. /\ Cardinality(F \cup {n + 1}) = Cardinality(F) + 1
        /\ \A i \in F : Rank(F \cup {n + 1}, i) = Rank(F, i)
        /\ Rank(F \cup {n + 1}, n + 1) = Cardinality(F) + 1
    <3>1. n + 1 \in Nat /\ \A i \in F : i < n + 1 BY <2>3
    <3> QED BY <2>3, <3>1, RankGrows
  <2> HIDE DEF l, F, n
  <2>7. CASE ~New(l)
    <3>1. FirstFinds' = F /\ UNCHANGED <<found, sync, artifacts>>
      BY <1>4, <2>4, <2>5, <2>7 DEF Record, l
    <3>2. StatsInv' BY <1>1, <2>1, <2>4, <3>1 DEF StatsInv, F
    <3>3. SyncIsComplete' BY <1>1, <2>1, <2>4, <3>1 DEF SyncIsComplete, F
    <3> QED BY <3>2, <3>3
  <2>8. CASE New(l)
    <3>1. /\ FirstFinds' = F \cup {n + 1} /\ found' = found + 1
          /\ sync' = IF conf.sync THEN Append(sync, Key(l)) ELSE sync
          /\ artifacts' = IF conf.lowMem THEN artifacts
                          ELSE artifacts \cup {Key(l)}
      BY <1>4, <2>4, <2>5, <2>8 DEF Record, l
    <3>2. StatsInv'
      <4>1. {Key(read'[i]) : i \in FirstFinds'}
              = {Key(read[i]) : i \in F} \cup {Key(l)}
        BY <2>4, <3>1
      <4>2. found' = Cardinality(FirstFinds')
        BY <1>1, <2>6, <3>1 DEF StatsInv, F
      <4>3. artifacts' = IF conf.lowMem THEN {}
                         ELSE {Key(read'[i]) : i \in FirstFinds'}
        BY <1>1, <3>1, <4>1 DEF StatsInv, F
      <4> QED BY <2>1, <4>2, <4>3 DEF StatsInv
    <3>3. SyncIsComplete'
      <4>1. CASE ~conf.sync BY <1>1, <2>1, <3>1, <4>1 DEF SyncIsComplete
      <4>2. CASE conf.sync
        <5>1. /\ sync \in Seq(Keys) /\ Len(sync) = Cardinality(F)
              /\ \A i \in F : sync[Rank(F, i)] = Key(read[i])
          BY <1>1, <4>2 DEF SyncIsComplete, TypeOK, F, Rank
        <5>2. sync' = Append(sync, Key(l)) BY <3>1, <4>2
        <5>3. /\ Len(sync') = Cardinality(F) + 1
              /\ sync'[Cardinality(F) + 1] = Key(l)
              /\ \A k \in 1 .. Cardinality(F) : sync'[k] = sync[k]
          BY <5>1, <5>2
        <5>4. \A i \in F : sync'[Rank(FirstFinds', i)] = Key(read'[i])
          BY <2>3, <2>4, <2>6, <3>1, <5>1, <5>3
        <5>5. sync'[Rank(FirstFinds', n + 1)] = Key(read'[n + 1])
          BY <2>4, <2>6, <3>1, <5>3
        <5>6. Len(sync') = Cardinality(FirstFinds') BY <2>6, <3>1, <5>3
        <5>7. \A i \in FirstFinds' : sync'[Rank(FirstFinds', i)] = Key(read'[i])
          BY <3>1, <5>4, <5>5
        <5> QED BY <2>1, <4>2, <5>6, <5>7 DEF SyncIsComplete, Rank
      <4> QED BY <4>1, <4>2
    <3> QED BY <3>2, <3>3
  <2> QED BY <2>7, <2>8
<1> QED BY <1>2, <1>3, <1>4, Frame

-----------------------------------------------------------------------------
(* A resumed search reads what the first one read, but for its start.        *)
LEMMA ResumedConfig ==
  ASSUME NEW a \in Seq(Argument), Accepted(a), NEW from \in Hexed,
         NEW given \in {a, StripValueFlags(a, {"-i"})}
  PROVE  /\ Accepted(InjectorArgs(ResumedFrom(given, from)))
         /\ ConfigOf(InjectorArgs(ResumedFrom(given, from)))
              = [ConfigOf(InjectorArgs(a)) EXCEPT !.start = from]
<1> DEFINE D == DOMAIN Default
           r == ResumedFrom(given, from)
           old == ConfigOf(a)
           mid == ConfigOf(given)
           first == ConfigOf(InjectorArgs(a))
           got == ConfigOf(InjectorArgs(r))
           want == [first EXCEPT !.start = from]
<1>1. {"-i"} \in SUBSET Names BY FlagFacts DEF Compactable, Names
<1>2. given \in Seq(Argument) /\ Accepted(given)
  BY <1>1, StripType, StripAccepted
<1>3. \A f \in D \ {"start"} : mid[f] = old[f]
  <2>1. \A f \in D \ {"start"} : \A x \in {"-i"} : ~Sets(x, f)
    BY FlagFacts, SetsOne
  <2> QED BY <1>1, <2>1, StripConfig
<1>4. /\ r \in Seq(Argument) /\ Accepted(r)
      /\ ConfigOf(r) = [mid EXCEPT !.start = from]
  BY <1>2, WithStart
<1> HIDE DEF r
<1>5. /\ Accepted(InjectorArgs(r))
      /\ got = [ConfigOf(r) EXCEPT !.tick = IF conf.tick THEN TRUE ELSE @,
                                   !.output = "raw"]
      /\ first = [old EXCEPT !.tick = IF conf.tick THEN TRUE ELSE @,
                             !.output = "raw"]
  BY <1>4, InjectorConfig
<1>6. /\ old = [f \in D |-> old[f]] /\ mid = [f \in D |-> mid[f]]
      /\ got = [f \in D |-> got[f]] /\ first = [f \in D |-> first[f]]
  BY DEF ConfigOf
<1>7. {"start", "tick", "output"} \subseteq D BY DEF Default
<1> HIDE DEF old, mid, got, first, D
<1>8. ASSUME NEW f \in D PROVE got[f] = want[f]
  <2>1. CASE f = "start" BY <1>4, <1>5, <1>6, <1>7, <2>1
  <2>2. CASE f # "start"
    <3>1. want[f] = first[f] BY <1>6, <2>2
    <3>2. ConfigOf(r)[f] = old[f] BY <1>3, <1>4, <1>6, <2>2
    <3>3. CASE f = "tick" BY <1>4, <1>5, <1>6, <3>1, <3>2, <3>3
    <3>4. CASE f = "output" BY <1>4, <1>5, <1>6, <3>1, <3>2, <3>4
    <3>5. CASE f \notin {"tick", "output"}
      BY <1>4, <1>5, <1>6, <3>1, <3>2, <3>5
    <3> QED BY <3>3, <3>4, <3>5
  <2> QED BY <2>1, <2>2
<1>9. got = want BY <1>6, <1>8
<1> QED BY <1>5, <1>9 DEF got, first, r

(* The injector is given what the first one was, and the place saved.        *)
LEMMA CommandStep ==
  ASSUME SifterInv, [Next]_vars
  PROVE  CommandInv'
<1>1. CommandInv /\ SourceInv /\ conf.args \in Seq(Argument)
  BY SifterAssumption DEF SifterInv, TypeOK
<1>2. CASE UNCHANGED setup /\ (pc' = "idle" <=> pc = "idle")
  BY <1>1, <1>2 DEF CommandInv, Searches, Imported, InjectorArgs, setup
<1>3. CASE Record
  BY <1>1, <1>3 DEF CommandInv, Searches, Imported, InjectorArgs, setup, Record
<1>4. CASE Launch \/ Resume
  <2>1. PICK args \in Seq(Argument) :
           /\ Begin(args)
           /\ \/ Launch /\ args = conf.args
              \/ /\ Resume
                 /\ \E given \in {conf.args, StripValueFlags(conf.args, {"-i"})},
                       from \in last :
                      resumed' = {from} /\ args = ResumedFrom(given, from)
    BY <1>4, Begins
  <2>2. conf' = conf BY <2>1 DEF Begin
  <2> SUFFICES ASSUME ~Imported, Accepted(conf.args)
               PROVE  /\ Accepted(command')
                      /\ ConfigOf(command') =
                           LET first == ConfigOf(InjectorArgs(conf.args))
                           IN  IF resumed' = {} THEN first
                               ELSE [first EXCEPT !.start =
                                       CHOOSE from \in resumed' : TRUE]
    BY <2>2 DEF CommandInv, Searches, Imported, InjectorArgs
  <2>3. command' = InjectorArgs(args) BY <2>1 DEF Begin, Spawn
  <2>4. CASE Launch /\ args = conf.args
    BY <1>1, <2>3, <2>4, InjectorConfig DEF Launch
  <2>5. ASSUME NEW given \in {conf.args, StripValueFlags(conf.args, {"-i"})},
               NEW from \in last,
               resumed' = {from}, args = ResumedFrom(given, from)
        PROVE  /\ Accepted(command')
               /\ ConfigOf(command') =
                    [ConfigOf(InjectorArgs(conf.args)) EXCEPT !.start =
                       CHOOSE x \in resumed' : TRUE]
    <3>1. from \in Hexed BY <1>1 DEF SourceInv
    <3>2. (CHOOSE x \in resumed' : TRUE) = from BY <2>5
    <3>3. /\ Accepted(InjectorArgs(ResumedFrom(given, from)))
          /\ ConfigOf(InjectorArgs(ResumedFrom(given, from)))
               = [ConfigOf(InjectorArgs(conf.args)) EXCEPT !.start = from]
      BY <1>1, <3>1, ResumedConfig
    <3> QED BY <2>3, <2>5, <3>2, <3>3
  <2> QED BY <2>1, <2>4, <2>5
<1> QED BY <1>2, <1>3, <1>4, Frame
-----------------------------------------------------------------------------
(* Each report has what the statistics say.                                  *)
LEMMA ReportStep ==
  ASSUME SifterInv, [Next]_vars
  PROVE  ReportInv'
<1> DEFINE Kinds == [log : [keys : SUBSET Keys, count : Nat],
                     findings : SUBSET Keys, summary : Nat]
<1>1. ReportInv /\ reports \in Kinds BY DEF SifterInv, TypeOK
<1> HIDE DEF Kinds
<1>2. CASE Launch \/ Resume
  <2>1. pc' = "read" BY <1>2 DEF Launch, Resume, Begin, Goto
  <2> QED BY <2>1 DEF ReportInv, Closing
<1>3. CASE Injector \/ UNCHANGED vars
  BY <1>1, <1>3 DEF ReportInv, Closing, Injector, Emit, Break, vars, stats, files
<1>4. CASE RefuseResume \/ Abort
  BY <1>1, <1>4 DEF ReportInv, Closing, RefuseResume, Abort, Goto
<1>5. CASE ReadLine \/ SkipLine \/ RefuseLine \/ WriteTick \/ Record \/ Eof \/ Wait
  BY <1>1, <1>5 DEF ReportInv, Closing, ReadLine, SkipLine, RefuseLine,
                    WriteTick, Record, Eof, Wait, Goto, AfterTick
<1>6. CASE Truncate \/ WriteLast
  BY <1>1, <1>6 DEF ReportInv, Closing, Truncate, WriteLast, Goto, stats
<1>7. CASE WriteFinalLog
  <2>1. reports'.log = [keys |-> artifacts, count |-> found]
    BY <1>1, <1>7 DEF WriteFinalLog, WriteReport, Kinds
  <2> QED BY <1>7, <2>1 DEF ReportInv, Closing, WriteFinalLog, WriteReport,
                            Goto, stats
<1>8. CASE WriteFindings
  <2>1. reports'.log = reports.log /\ reports'.findings = artifacts
    BY <1>1, <1>8 DEF WriteFindings, WriteReport, Kinds
  <2> QED BY <1>1, <1>8, <2>1 DEF ReportInv, Closing, WriteFindings,
                                  WriteReport, Goto, stats
<1>9. CASE WriteSummary
  <2>1. /\ reports'.log = reports.log /\ reports'.findings = reports.findings
        /\ reports'.summary = found
    BY <1>1, <1>9 DEF WriteSummary, WriteReport, Kinds
  <2> QED BY <1>1, <1>9, <2>1 DEF ReportInv, Closing, WriteSummary,
                                  WriteReport, Goto, stats
<1> QED BY <1>2, <1>3, <1>4, <1>5, <1>6, <1>7, <1>8, <1>9 DEF Next, Sift

-----------------------------------------------------------------------------
(* What a start gives to read, and an injector to search.                    *)
LEMMA BeginFacts ==
  ASSUME SifterInv, NEW args \in Seq(Argument), Begin(args)
  PROVE  /\ command' \in Seq(Argument) /\ broken' \in BOOLEAN
         /\ rest' \in [DOMAIN (rest') -> SUBSET Raw]
         /\ pipe' \in Seq(Text) /\ emitted' \in Seq(Line)
         /\ emitted' = PacketsOf(pipe')
         /\ ~Imported => pipe' = <<>>
         /\ Imported => rest' = <<>> /\ ~broken'
<1>1. CASE Imported
  <2>1. PICK file \in conf.input : Open(file) BY <1>1 DEF Begin
  <2>2. file \in Seq(Text)
    BY SifterAssumption DEF SifterInv, TypeOK
  <2>3. /\ command' = <<>> /\ rest' = <<>> /\ broken' = FALSE
        /\ pipe' = file /\ emitted' = PacketsOf(file)
    BY <2>1 DEF Open
  <2>4. PacketsOf(file) \in Seq(Line) BY <2>2, PacketsType
  <2>5. <<>> \in [DOMAIN <<>> -> SUBSET Raw] OBVIOUS
  <2>6. rest' \in [DOMAIN (rest') -> SUBSET Raw] BY <2>3, <2>5
  <2>7. <<>> \in Seq(Argument) OBVIOUS
  <2>8. command' \in Seq(Argument) BY <2>3, <2>7
  <2> HIDE DEF Imported
  <2> QED BY <1>1, <2>2, <2>3, <2>4, <2>6, <2>8
<1>2. CASE ~Imported
  <2>1. /\ command' = InjectorArgs(args) /\ broken' = ~Accepted(command')
        /\ rest' = IF broken' THEN <<>> ELSE Lanes(ConfigOf(command'))
        /\ pipe' = <<>> /\ emitted' = <<>>
    BY <1>2 DEF Begin, Spawn
  <2>2. command' \in Seq(Argument) BY <2>1, InjectorConfig
  <2>3. ASSUME NEW c PROVE Lanes(c) \in [DOMAIN Lanes(c) -> SUBSET Raw]
    BY DEF Lanes, SearchOf, BruteSet
  <2>4. <<>> \in [DOMAIN <<>> -> SUBSET Raw] OBVIOUS
  <2>5. rest' \in [DOMAIN (rest') -> SUBSET Raw] BY <2>1, <2>3, <2>4
  <2> QED BY <1>2, <2>1, <2>2, <2>5, PacketsOne
<1> QED BY <1>1, <1>2

(* What a process of the injector prints.                                    *)
LEMMA EmitFacts ==
  ASSUME SifterInv, NEW k \in DOMAIN rest, Emit(k)
  PROVE  \E l \in Line :
           /\ l.bytes \in rest[k]
           /\ \A b \in rest[k] : b = l.bytes \/ Precedes(l.bytes, b)
           /\ pipe' = Append(pipe, Packet(l)) /\ emitted' = Append(emitted, l)
           /\ rest' = [rest EXCEPT ![k] = @ \ {l.bytes}]
<1>1. rest[k] \in SUBSET Raw /\ rest[k] # {}
  BY DEF SifterInv, SourceInv, Emit
<1>2. /\ Least(rest[k]) \in rest[k]
      /\ \A b \in rest[k] : b = Least(rest[k]) \/ Precedes(Least(rest[k]), b)
  BY <1>1, LeastFirst
<1>3. PICK o \in Outcomes :
         LET sent == [bytes |-> Least(rest[k]), length |-> o.length,
                      hit |-> o.hit]
         IN  /\ pipe' = Append(pipe, Packet(sent))
             /\ emitted' = Append(emitted, sent)
  BY DEF Emit
<1> DEFINE l == [bytes |-> Least(rest[k]), length |-> o.length, hit |-> o.hit]
<1>4. o.length \in 0 .. Width /\ o.hit \in BOOLEAN BY SifterAssumption
<1>5. l \in Line BY <1>1, <1>2, <1>4 DEF Line
<1>6. rest' = [rest EXCEPT ![k] = @ \ {l.bytes}] BY DEF Emit
<1> QED BY <1>2, <1>3, <1>5, <1>6

(* There is a line wherever one is saved or recorded.                        *)
LEMMA LineAtHand ==
  ASSUME SifterInv, Handling \/ pc \in {"close", "closing"}
  PROVE  line = <<line[1]>> /\ line[1] \in Line
<1>1. line \in Seq(Line) /\ Len(line) = 1
  BY DEF SifterInv, TypeOK, LineInv
<1> QED BY <1>1

(* The search is over and the injector succeeded before a report is written. *)
LEMMA SourceStep ==
  ASSUME SifterInv, [Next]_vars
  PROVE  SourceInv'
<1>1. SourceInv /\ conf \in Configs BY DEF SifterInv, TypeOK
<1>2. CASE Launch \/ Resume
  <2>1. PICK args \in Seq(Argument) : Begin(args) BY <1>2, Begins
  <2>2. /\ rest' \in [DOMAIN (rest') -> SUBSET Raw]
        /\ Imported => rest' = <<>> /\ ~broken'
    BY <2>1, BeginFacts
  <2>3. conf' = conf /\ last' = last /\ pc' = "read" BY <2>1 DEF Begin, Goto
  <2> QED BY <1>1, <2>2, <2>3 DEF SourceInv, Imported, Closing
<1>3. ASSUME NEW k \in DOMAIN rest, Emit(k) \/ Break(k) PROVE SourceInv'
  <2>1. rest[k] # {} /\ UNCHANGED <<conf, pc, last>>
    BY <1>3 DEF Emit, Break, setup, files
  <2>2. ~Imported BY <1>1 DEF SourceInv
  <2>3. pc \notin Closing \cup {"wait"} BY <1>1, <2>1 DEF SourceInv
  <2>4. rest' \in [DOMAIN (rest') -> SUBSET Raw]
    <3>1. CASE Emit(k) BY <1>1, <3>1 DEF SourceInv, Emit
    <3>2. CASE Break(k) BY <1>1, <3>2 DEF SourceInv, Break
    <3> QED BY <1>3, <3>1, <3>2
  <2> QED BY <1>1, <2>1, <2>2, <2>3, <2>4 DEF SourceInv, Imported, Closing
<1>4. CASE RefuseResume \/ Abort \/ UNCHANGED vars
  BY <1>1, <1>4 DEF SourceInv, Imported, Closing, RefuseResume, Abort, Goto,
                    vars, setup, injector, files
<1>5. CASE ReadLine \/ SkipLine \/ RefuseLine \/ WriteTick \/ Record
  BY <1>1, <1>5 DEF SourceInv, Imported, Closing, ReadLine, SkipLine,
                    RefuseLine, WriteTick, Record, Goto, AfterTick,
                    setup, injector, files
<1>6. CASE Eof \/ Wait
  BY <1>1, <1>6 DEF SourceInv, Imported, Closing, Eof, Wait, Goto,
                    setup, injector, files
<1>7. CASE Truncate
  <2>1. last' \subseteq Hexed BY <1>7, EmptyIsFirst DEF Truncate
  <2> QED BY <1>1, <1>7, <2>1 DEF SourceInv, Imported, Closing, Truncate, Goto,
                                  setup, injector
<1>8. CASE WriteLast
  <2>1. line[1] \in Line BY <1>8, LineAtHand DEF WriteLast, Handling
  <2>2. last' \subseteq Hexed BY <1>8, <2>1, SavedBefore DEF WriteLast
  <2> QED BY <1>1, <1>8, <2>2 DEF SourceInv, Imported, Closing, WriteLast, Goto,
                                  setup, injector
<1>9. CASE WriteFinalLog \/ WriteFindings \/ WriteSummary
  BY <1>1, <1>9 DEF SourceInv, Imported, Closing, WriteFinalLog, WriteFindings,
                    WriteSummary, WriteReport, Goto, setup, injector
<1> QED BY <1>2, <1>3, <1>4, <1>5, <1>6, <1>7, <1>8, <1>9
        DEF Next, Injector, Sift

-----------------------------------------------------------------------------
LEMMA ConcatAssociative ==
  ASSUME NEW V, NEW x \in Seq(V), NEW y \in Seq(V), NEW z \in Seq(V)
  PROVE  (x \o y) \o z = x \o (y \o z)
<1> DEFINE a == (x \o y) \o z
           b == x \o (y \o z)
<1>1. /\ a \in Seq(V) /\ b \in Seq(V)
      /\ Len(a) = Len(x) + Len(y) + Len(z) /\ Len(b) = Len(a)
  OBVIOUS
<1>2. ASSUME NEW i \in 1 .. Len(a) PROVE a[i] = b[i]
  OBVIOUS
<1> HIDE DEF a, b
<1>3. a = b BY <1>1, <1>2, SameElements
<1> QED BY <1>3 DEF a, b

LEMMA LinesAssociative ==
  \A x, y, z \in Seq(Line) : (x \o y) \o z = x \o (y \o z)
BY ConcatAssociative

(* What was sent is what was read, the line in hand, and what is in the pipe.*)
LEMMA LineStep ==
  ASSUME SifterInv, [Next]_vars
  PROVE  LineInv'
<1>1. /\ LineInv /\ SourceInv /\ conf \in Configs
      /\ pipe \in Seq(Text) /\ line \in Seq(Line) /\ Len(line) <= 1
  BY DEF SifterInv, TypeOK
<1>2. InHand \in Seq(Line) /\ PacketsOf(pipe) \in Seq(Line)
      /\ read \in Seq(Line) /\ emitted \in Seq(Line)
  BY <1>1, PacketsType DEF InHand, LineInv
<1>3. CASE Launch \/ Resume
  <2>1. PICK args \in Seq(Argument) : Begin(args) BY <1>3, Begins
  <2>2. emitted' \in Seq(Line) /\ emitted' = PacketsOf(pipe')
    BY <2>1, BeginFacts
  <2>3. read' = <<>> /\ pc' = "read" BY <2>1 DEF Begin, Goto
  <2>4. InHand' = <<>> BY <2>3 DEF InHand, Handling
  <2>5. (<<>> \o <<>>) \o emitted' = emitted' BY <2>2
  <2>6. read' \in Seq(Line) BY <2>3
  <2> QED BY <2>2, <2>3, <2>4, <2>5, <2>6 DEF LineInv, Handling
<1>4. ASSUME NEW k \in DOMAIN rest, Emit(k) PROVE LineInv'
  <2>1. PICK l \in Line : pipe' = Append(pipe, Packet(l))
                          /\ emitted' = Append(emitted, l)
    BY <1>4, EmitFacts
  <2>2. UNCHANGED <<pc, line, read>> BY <1>4 DEF Emit, past
  <2>3. PacketsOf(pipe') = PacketsOf(pipe) \o <<l>> BY <1>1, <2>1, PacketSent
  <2>4. emitted' = emitted \o <<l>> /\ emitted' \in Seq(Line) BY <1>2, <2>1
  <2>5. pc # "failed" => emitted = (read \o InHand) \o PacketsOf(pipe)
    BY <1>1 DEF LineInv
  <2>6. ((read \o InHand) \o PacketsOf(pipe)) \o <<l>>
          = (read \o InHand) \o (PacketsOf(pipe) \o <<l>>)
    <3>1. <<l>> \in Seq(Line) /\ read \o InHand \in Seq(Line) BY <1>2
    <3> HIDE DEF InHand
    <3> QED BY <1>2, <3>1, LinesAssociative
  <2>7. InHand' = InHand BY <2>2 DEF InHand, Handling
  <2> QED BY <1>1, <2>2, <2>3, <2>4, <2>5, <2>6, <2>7 DEF LineInv, Handling
<1>5. ASSUME UNCHANGED <<pipe, emitted, line, read>>,
             pc' # "failed" => pc # "failed" /\ (Handling <=> Handling')
                               /\ (pc' \in {"close", "closing"} =>
                                     pc \in {"close", "closing"} \/ Len(line) = 1)
      PROVE  LineInv'
  <2>1. CASE pc' = "failed" BY <1>1, <1>5, <2>1 DEF LineInv, Handling
  <2>2. CASE pc' # "failed"
    BY <1>1, <1>5, <2>2 DEF LineInv, InHand
  <2> QED BY <2>1, <2>2
<1>6. CASE Abort \/ RefuseResume \/ UNCHANGED vars
  BY <1>5, <1>6 DEF Abort, RefuseResume, Goto, vars, injector, past, Handling
<1>7. ASSUME NEW k \in DOMAIN rest, Break(k) PROVE LineInv'
  BY <1>5, <1>7 DEF Break, past, Handling
<1>8. CASE Truncate \/ WriteLast \/ WriteTick \/ Eof \/ Wait \/ WriteFinalLog
           \/ WriteFindings
  BY <1>5, <1>8 DEF Truncate, WriteLast, WriteTick, Eof, Wait, WriteFinalLog,
                    WriteFindings, WriteReport, Goto, injector, past, Handling,
                    AfterTick
<1>9. CASE WriteSummary
  <2>1. line # <<>> => Len(line) = 1
    <3>1. line \in Seq(Line) /\ Len(line) <= 1 BY <1>1
    <3>2. Len(line) \in Nat BY <3>1
    <3>3. line # <<>> => Len(line) # 0 BY <3>1
    <3>4. \A n \in Nat : n <= 1 => n = 0 \/ n = 1 OBVIOUS
    <3> QED BY <3>1, <3>2, <3>3, <3>4
  <2> QED BY <1>5, <1>9, <2>1 DEF WriteSummary, WriteReport, Goto, injector,
                                  past, Handling
<1>10. CASE ReadLine \/ SkipLine \/ RefuseLine
  <2>1. pc = "read" /\ pipe # <<>> /\ pipe' = Tail(pipe)
        /\ UNCHANGED <<emitted, read>>
    BY <1>10 DEF ReadLine, SkipLine, RefuseLine, past
  <2>2. /\ Head(pipe) \in Text /\ Tail(pipe) \in Seq(Text)
        /\ PacketsOf(pipe) = IF Head(pipe).kind = "packet"
                             THEN <<Head(pipe).packet>> \o PacketsOf(pipe')
                             ELSE PacketsOf(pipe')
    BY <1>1, <2>1, PacketTaken
  <2>3. PacketsOf(pipe') \in Seq(Line) BY <2>1, <2>2, PacketsType
  <2>4. emitted = read \o PacketsOf(pipe)
    <3>1. InHand = <<>> BY <2>1 DEF InHand, Handling
    <3>2. read \o <<>> = read BY <1>2
    <3> QED BY <1>1, <2>1, <3>1, <3>2 DEF LineInv
  <2>5. CASE ReadLine
    <3> DEFINE l == Head(pipe).packet
    <3>1. Head(pipe).kind = "packet" /\ line' = <<l>> /\ Handling'
      BY <2>5 DEF ReadLine, Goto, AfterTick, Handling
    <3>2. l \in Line BY <2>2, <3>1, TextKinds
    <3>3. emitted = read \o (<<l>> \o PacketsOf(pipe')) BY <2>2, <2>4, <3>1
    <3> HIDE DEF l
    <3>4. emitted = (read \o <<l>>) \o PacketsOf(pipe')
      <4>1. <<l>> \in Seq(Line) BY <3>2
      <4> DEFINE one == <<l>>
                 behind == PacketsOf(pipe')
      <4>2. /\ read \in Seq(Line) /\ one \in Seq(Line)
            /\ behind \in Seq(Line)
        BY <1>2, <2>3, <4>1
      <4> HIDE DEF one, behind
      <4>3. (read \o one) \o behind = read \o (one \o behind)
        BY <4>2, LinesAssociative
      <4> QED BY <3>3, <4>3 DEF one, behind
    <3>5. InHand' = <<l>> BY <3>1 DEF InHand
    <3>6. Len(<<l>>) = 1 OBVIOUS
    <3> QED BY <1>2, <2>1, <3>1, <3>4, <3>5, <3>6 DEF LineInv
  <2>6. CASE SkipLine
    <3>1. Head(pipe) = Blank /\ UNCHANGED pc BY <2>6 DEF SkipLine
    <3>2. emitted = read \o PacketsOf(pipe') BY <2>2, <2>4, <3>1, TextKinds
    <3>3. InHand' = <<>> /\ ~Handling' /\ read \o <<>> = read
      BY <1>2, <2>1, <3>1 DEF InHand, Handling
    <3> QED BY <1>2, <2>1, <3>1, <3>2, <3>3 DEF LineInv
  <2>7. CASE RefuseLine
    <3>1. pc' = "failed" BY <2>7 DEF RefuseLine, Goto
    <3> QED BY <1>2, <2>1, <3>1 DEF LineInv, Handling
  <2> QED BY <1>10, <2>5, <2>6, <2>7
<1>11. CASE Record
  <2>1. /\ pc = "record" /\ pc' = "read" /\ read' = Append(read, line[1])
        /\ UNCHANGED <<pipe, emitted, line>>
    BY <1>11 DEF Record, Goto, injector
  <2>2. line = <<line[1]>> /\ line[1] \in Line
    BY <2>1, LineAtHand DEF Handling
  <2>3. InHand = line BY <2>1 DEF InHand, Handling
  <2>4. read' = read \o line /\ read' \in Seq(Line)
    <3>1. read \in Seq(Line) /\ line[1] \in Line BY <1>2, <2>2
    <3>2. /\ Append(read, line[1]) = read \o <<line[1]>>
          /\ Append(read, line[1]) \in Seq(Line)
      BY <3>1
    <3> QED BY <2>1, <2>2, <3>2
  <2>5. emitted = (read \o line) \o PacketsOf(pipe)
    BY <1>1, <2>1, <2>3 DEF LineInv
  <2>6. InHand' = <<>> /\ ~Handling' /\ read' \o <<>> = read'
    BY <2>1, <2>4 DEF InHand, Handling
  <2> QED BY <1>2, <2>1, <2>4, <2>5, <2>6 DEF LineInv
<1> QED BY <1>3, <1>4, <1>6, <1>7, <1>8, <1>9, <1>10, <1>11
        DEF Next, Injector, Sift

-----------------------------------------------------------------------------
(* What the files, the pipe and the reports may have in them.                *)
LEMMA TypeStep ==
  ASSUME SifterInv, [Next]_vars
  PROVE  TypeOK'
<1> DEFINE PCs == {"idle", "read", "tick", "truncate", "last", "record", "wait",
                   "log", "findings", "summary", "close", "closing", "done",
                   "failed"}
           Reports == [log : [keys : SUBSET Keys, count : Nat],
                       findings : SUBSET Keys, summary : Nat]
<1>1. /\ TypeOK /\ conf \in Configs /\ runs \in 0 .. MaxRuns
      /\ command \in Seq(Argument)
      /\ resumed \in {{}} \cup {{i} : i \in Instruction}
      /\ broken \in BOOLEAN
      /\ pipe \in Seq(Text) /\ (Imported \/ Len(pipe) <= Capacity)
      /\ line \in Seq(Line) /\ Len(line) <= 1
      /\ pc \in PCs
      /\ artifacts \subseteq Keys /\ found \in Nat
      /\ tick \in {NoFile} \cup {{b} : b \in Raw}
      /\ last \in {NoFile} \cup {{i} : i \in Instruction}
      /\ sync \in Seq(Keys) /\ reports \in Reports
  BY DEF SifterInv, TypeOK
<1>2. \A k \in DOMAIN (rest') : rest'[k] \subseteq Raw
  BY SourceStep DEF SourceInv
<1>3. Hexed \subseteq Instruction BY DEF Hexed
<1> HIDE DEF PCs, Reports
<1>4. CASE Launch \/ Resume
  <2>1. PICK args \in Seq(Argument) :
           /\ Begin(args)
           /\ \/ Launch /\ args = conf.args
              \/ /\ Resume
                 /\ \E given \in {conf.args, StripValueFlags(conf.args, {"-i"})},
                       from \in last :
                      resumed' = {from} /\ args = ResumedFrom(given, from)
    BY <1>4, Begins
  <2>2. /\ command' \in Seq(Argument) /\ broken' \in BOOLEAN
        /\ pipe' \in Seq(Text)
        /\ ~Imported => pipe' = <<>>
    BY <2>1, BeginFacts
  <2>3. resumed' \in {{}} \cup {{i} : i \in Instruction}
    <3>1. CASE Launch BY <3>1 DEF Launch
    <3>2. last \subseteq Instruction BY <1>3 DEF SifterInv, SourceInv
    <3> QED BY <2>1, <3>1, <3>2
  <2>4. /\ UNCHANGED <<conf, tick, last, reports>>
        /\ artifacts' = {} /\ found' = 0 /\ line' = <<>> /\ pc' = "read"
        /\ sync' = IF conf.sync THEN <<>> ELSE sync
        /\ runs < MaxRuns /\ runs' = runs + 1
    BY <2>1 DEF Begin, Goto
  <2>5. /\ line' \in Seq(Line) /\ Len(line') <= 1 /\ sync' \in Seq(Keys)
        /\ artifacts' \subseteq Keys /\ found' \in Nat
    BY <1>1, <2>4
  <2>6. runs' \in 0 .. MaxRuns BY <1>1, <2>4, SifterAssumption
  <2>7. (Imported \/ Len(pipe) <= Capacity)'
    <3>1. Imported' <=> Imported BY <2>4 DEF Imported
    <3>2. pipe' = <<>> => Len(pipe') <= Capacity
      <4>1. Len(<<>>) = 0 OBVIOUS
      <4>2. Capacity \in Nat /\ 0 <= Capacity BY SifterAssumption
      <4> QED BY <4>1, <4>2
    <3> QED BY <2>2, <3>1, <3>2
  <2> QED BY <1>1, <1>2, <2>2, <2>3, <2>4, <2>5, <2>6, <2>7
          DEF TypeOK, PCs, Reports
<1>5. ASSUME NEW k \in DOMAIN rest, Emit(k) PROVE TypeOK'
  <2>1. PICK l \in Line : pipe' = Append(pipe, Packet(l)) BY <1>5, EmitFacts
  <2>2. /\ UNCHANGED <<setup, broken, pc, line, stats, files>>
        /\ Len(pipe) < Capacity
    BY <1>5 DEF Emit
  <2>3. Packet(l) \in Text BY TextKinds
  <2>4. /\ pipe' \in Seq(Text) /\ Len(pipe') = Len(pipe) + 1
        /\ Len(pipe) \in Nat /\ Capacity \in Nat
    BY <1>1, <2>1, <2>3, SifterAssumption
  <2>5. Len(pipe') <= Capacity BY <2>2, <2>4
  <2> QED BY <1>1, <1>2, <2>2, <2>4, <2>5
          DEF TypeOK, Imported, setup, stats, files, PCs, Reports
<1>6. ASSUME NEW k \in DOMAIN rest, Break(k) PROVE TypeOK'
  BY <1>1, <1>2, <1>6 DEF TypeOK, Imported, Break, setup, stats, files, PCs,
                          Reports
<1>7. CASE Abort \/ RefuseResume \/ Eof \/ Wait \/ UNCHANGED vars
  <2>1. /\ UNCHANGED <<setup, injector, line, stats, files>>
        /\ pc' \in {pc, "failed", "log", "wait"}
    BY <1>7 DEF Abort, RefuseResume, Eof, Wait, Goto, vars
  <2>2. pc' \in PCs BY <1>1, <2>1 DEF PCs
  <2> QED BY <1>1, <1>2, <2>1, <2>2
          DEF TypeOK, Imported, setup, injector, stats, files, PCs, Reports
<1>8. CASE ReadLine \/ SkipLine \/ RefuseLine
  <2>1. /\ pipe # <<>> /\ pipe' = Tail(pipe)
        /\ UNCHANGED <<setup, broken, stats, files>>
    BY <1>8 DEF ReadLine, SkipLine, RefuseLine
  <2>2. pipe' \in Seq(Text) /\ Len(pipe') <= Len(pipe)
        /\ Len(pipe) \in Nat /\ Len(pipe') \in Nat
    BY <1>1, <2>1
  <2>3. (Imported \/ Len(pipe) <= Capacity)'
    <3>1. Imported' <=> Imported BY <2>1 DEF Imported, setup
    <3>2. Capacity \in Nat BY SifterAssumption
    <3> QED BY <1>1, <2>2, <3>1, <3>2
  <2>4. pc' \in PCs
    BY <1>1, <1>8 DEF PCs, ReadLine, SkipLine, RefuseLine, Goto, AfterTick
  <2>5. line' \in Seq(Line) /\ Len(line') <= 1
    <3>1. CASE ReadLine
      <4>1. Head(pipe) \in Text /\ Head(pipe).kind = "packet"
            /\ line' = <<Head(pipe).packet>>
        BY <1>1, <2>1, <3>1, PacketTaken DEF ReadLine
      <4>2. Head(pipe).packet \in Line BY <4>1, TextKinds
      <4> QED BY <4>1, <4>2
    <3>2. CASE SkipLine \/ RefuseLine
      BY <1>1, <3>2 DEF SkipLine, RefuseLine
    <3> QED BY <1>8, <3>1, <3>2
  <2> QED BY <1>1, <1>2, <2>1, <2>2, <2>3, <2>4, <2>5
          DEF TypeOK, setup, stats, files, PCs, Reports
<1>9. CASE WriteTick
  <2>1. line[1] \in Line BY <1>9, LineAtHand DEF WriteTick, Handling
  <2>2. tick' \in {{b} : b \in Raw} BY <1>9, <2>1 DEF WriteTick, Line
  <2>3. pc' \in PCs BY <1>9 DEF WriteTick, Goto, AfterTick, PCs
  <2> QED BY <1>1, <1>2, <1>9, <2>2, <2>3
          DEF TypeOK, Imported, WriteTick, setup, injector, stats, PCs, Reports
<1>10. CASE Truncate \/ WriteLast
  <2>1. last' \in {{i} : i \in Instruction}
    <3>1. CASE Truncate
      <4>1. Empty \in Instruction BY <1>3, EmptyIsFirst
      <4> QED BY <3>1, <4>1 DEF Truncate
    <3>2. CASE WriteLast
      <4>1. line[1] \in Line BY <3>2, LineAtHand DEF WriteLast, Handling
      <4>2. Saved(line[1]) \in Instruction BY <1>3, <4>1, SavedBefore
      <4> QED BY <3>2, <4>2 DEF WriteLast
    <3> QED BY <1>10, <3>1, <3>2
  <2>2. /\ pc' \in PCs
        /\ UNCHANGED <<setup, injector, line, stats, tick, sync, reports>>
    BY <1>10 DEF Truncate, WriteLast, Goto, PCs
  <2> QED BY <1>1, <1>2, <2>1, <2>2
          DEF TypeOK, Imported, setup, injector, stats, PCs, Reports
<1>11. CASE Record
  <2>1. line[1] \in Line BY <1>11, LineAtHand DEF Record, Handling
  <2>2. Key(line[1]) \in Keys BY <2>1, KeyType
  <2>3. /\ found' \in {found, found + 1}
        /\ sync' \in {sync, Append(sync, Key(line[1]))}
        /\ artifacts' \in {artifacts, artifacts \cup {Key(line[1])}}
        /\ UNCHANGED <<setup, injector, line, tick, last, reports>>
        /\ pc' = "read"
    BY <1>11 DEF Record, Goto
  <2>4. /\ found' \in Nat /\ sync' \in Seq(Keys) /\ artifacts' \subseteq Keys
        /\ pc' \in PCs
    <3>1. found + 1 \in Nat /\ Append(sync, Key(line[1])) \in Seq(Keys)
      BY <1>1, <2>2
    <3>2. pc' \in PCs BY <2>3 DEF PCs
    <3> QED BY <1>1, <2>2, <2>3, <3>1, <3>2
  <2> QED BY <1>1, <1>2, <2>3, <2>4
          DEF TypeOK, Imported, setup, injector, PCs, Reports
<1>12. CASE WriteFinalLog \/ WriteFindings \/ WriteSummary
  <2>1. /\ UNCHANGED <<setup, injector, line, stats, tick, last, sync>>
        /\ pc' \in PCs
    BY <1>12 DEF WriteFinalLog, WriteFindings, WriteSummary, WriteReport, Goto,
                 PCs
  <2>2. reports' \in Reports
    <3>1. CASE WriteFinalLog
      <4>1. reports' = [reports EXCEPT !.log = [keys |-> artifacts,
                                               count |-> found]]
        BY <3>1 DEF WriteFinalLog, WriteReport
      <4> QED BY <1>1, <4>1 DEF Reports
    <3>2. CASE WriteFindings
      BY <1>1, <3>2 DEF WriteFindings, WriteReport, Reports
    <3>3. CASE WriteSummary
      BY <1>1, <3>3 DEF WriteSummary, WriteReport, Reports
    <3> QED BY <1>12, <3>1, <3>2, <3>3
  <2> QED BY <1>1, <1>2, <2>1, <2>2
          DEF TypeOK, Imported, setup, injector, stats, PCs, Reports
<1> QED BY <1>4, <1>5, <1>6, <1>7, <1>8, <1>9, <1>10, <1>11, <1>12
        DEF Next, Injector, Sift

-----------------------------------------------------------------------------
(* The line in hand is the one sent behind those that were read; at the end  *)
(* there is no other.                                                        *)
LEMMA Position ==
  ASSUME SifterInv
  PROVE  /\ emitted \in Seq(Line) /\ read \in Seq(Line)
         /\ pc # "failed" => Len(read) <= Len(emitted)
         /\ Handling => /\ Len(read) + 1 \in DOMAIN emitted
                        /\ emitted[Len(read) + 1] = line[1]
         /\ pc \in Closing => emitted = read
<1>1. /\ read \in Seq(Line) /\ emitted \in Seq(Line)
      /\ InHand \in Seq(Line) /\ PacketsOf(pipe) \in Seq(Line)
      /\ pc # "failed" => emitted = (read \o InHand) \o PacketsOf(pipe)
  <2>1. pipe \in Seq(Text) /\ line \in Seq(Line) /\ LineInv
    BY DEF SifterInv, TypeOK
  <2>2. PacketsOf(pipe) \in Seq(Line) BY <2>1, PacketsType
  <2> QED BY <2>1, <2>2 DEF LineInv, InHand
<1>2. pc # "failed" => Len(read) <= Len(emitted)
  <2>1. Len((read \o InHand) \o PacketsOf(pipe))
          = Len(read) + Len(InHand) + Len(PacketsOf(pipe))
    BY <1>1
  <2>2. /\ Len(read) \in Nat /\ Len(InHand) \in Nat
        /\ Len(PacketsOf(pipe)) \in Nat
    BY <1>1
  <2> QED BY <1>1, <2>1, <2>2
<1>3. ASSUME Handling
      PROVE  /\ Len(read) + 1 \in DOMAIN emitted
             /\ emitted[Len(read) + 1] = line[1]
  <2>1. InHand = <<line[1]>> /\ line[1] \in Line
    BY <1>3, LineAtHand DEF InHand
  <2>2. emitted = (read \o <<line[1]>>) \o PacketsOf(pipe)
    BY <1>1, <1>3, <2>1 DEF Handling
  <2>3. /\ Len(read) + 1 \in 1 .. Len((read \o <<line[1]>>) \o PacketsOf(pipe))
        /\ ((read \o <<line[1]>>) \o PacketsOf(pipe))[Len(read) + 1] = line[1]
    BY <1>1, <2>1
  <2> QED BY <1>1, <2>2, <2>3
<1>4. ASSUME pc \in Closing PROVE emitted = read
  <2>1. pipe = <<>> /\ InHand = <<>>
    BY <1>4 DEF SifterInv, SourceInv, InHand, Handling, Closing
  <2>2. PacketsOf(pipe) = <<>> BY <2>1, PacketsOne
  <2>3. (read \o <<>>) \o <<>> = read BY <1>1
  <2> QED BY <1>1, <1>4, <2>1, <2>2, <2>3 DEF Closing
<1> QED BY <1>1, <1>2, <1>3, <1>4

(* What an injector that is started has to search.                           *)
LEMMA BeginSearch ==
  ASSUME SifterInv, Gapless, Launch \/ Resume, CommandInv'
  PROVE  /\ ~broken' /\ DOMAIN (rest') = {0} /\ rest'[0] \in SUBSET Raw
         /\ emitted' = <<>> /\ read' = <<>> /\ pc' = "read"
         /\ UNCHANGED <<conf, last, tried>>
         /\ Launch => rest'[0] = SearchOf(Given)
         /\ Resume => \E from \in last :
              rest'[0] = BruteSet(from, EndOf(Given), Wanted(Given))
<1> DEFINE first == ConfigOf(InjectorArgs(conf.args))
           now == ConfigOf(command')
<1>1. conf.args \in Seq(Argument) /\ last \subseteq Hexed
  BY SifterAssumption DEF SifterInv, TypeOK, SourceInv
<1>2. PICK args \in Seq(Argument) :
         /\ Begin(args)
         /\ \/ Launch /\ resumed' = {}
            \/ Resume /\ \E from \in last : resumed' = {from}
  BY Begins DEF Launch
<1>3. /\ ~Imported /\ Spawn(args) /\ read' = <<>> /\ pc' = "read"
      /\ UNCHANGED <<conf, last, tried>>
  BY <1>2 DEF Begin, Goto, Gapless, Searches
<1>4. /\ Accepted(command')
      /\ now = IF resumed' = {} THEN first
               ELSE [first EXCEPT !.start = CHOOSE from \in resumed' : TRUE]
  BY <1>3 DEF CommandInv, Gapless, Searches, Imported, InjectorArgs
<1>5. /\ ~broken' /\ rest' = Lanes(now) /\ emitted' = <<>>
  BY <1>3, <1>4 DEF Spawn
<1>6. /\ first = [Given EXCEPT !.tick = IF conf.tick THEN TRUE ELSE @,
                               !.output = "raw"]
      /\ DOMAIN Given = DOMAIN Default /\ Given.jobs = 1
  BY <1>1, InjectorConfig DEF Gapless, Searches, Alone, Given, ConfigOf
<1>7. {"start", "end", "wanted", "jobs", "tick", "output"} \subseteq DOMAIN Default
  BY DEF Default
<1> HIDE DEF first
<1>8. /\ first.start = Given.start /\ first.end = Given.end
      /\ first.wanted = Given.wanted /\ first.jobs = 1
      /\ DOMAIN first = DOMAIN Default
  BY <1>6, <1>7
<1>9. now.end = Given.end /\ Wanted(now) = Wanted(Given) /\ now.jobs = 1
  BY <1>4, <1>7, <1>8 DEF Wanted
<1> HIDE DEF now
<1>10. Lanes(now) = [k \in {0} |-> SearchOf(now)] BY <1>9 DEF Lanes
<1>11. SearchOf(now) = BruteSet(StartOf(now), EndOf(Given), Wanted(Given))
  BY <1>9 DEF SearchOf, EndOf
<1>12. DOMAIN (rest') = {0} /\ rest'[0] = SearchOf(now) BY <1>5, <1>10
<1>13. rest'[0] \in SUBSET Raw BY <1>11, <1>12 DEF BruteSet
<1>14. ASSUME Launch PROVE rest'[0] = SearchOf(Given)
  <2>1. resumed' = {} BY <1>14 DEF Launch
  <2>2. StartOf(now) = StartOf(Given) BY <1>4, <1>8, <2>1 DEF StartOf, now
  <2> QED BY <1>11, <1>12, <2>2 DEF SearchOf
<1>15. ASSUME Resume
       PROVE  \E from \in last :
                rest'[0] = BruteSet(from, EndOf(Given), Wanted(Given))
  <2>1. PICK from \in last : resumed' = {from}
    BY <1>2, <1>15 DEF Resume, Launch
  <2>2. from # None
    BY <1>1, NoneAssumption DEF Hexed
  <2>3. now.start = from
    <3>1. (CHOOSE x \in {from} : TRUE) = from OBVIOUS
    <3> QED BY <1>4, <1>7, <1>8, <2>1, <3>1 DEF now
  <2>4. StartOf(now) = from BY <2>2, <2>3 DEF StartOf
  <2> QED BY <1>11, <1>12, <2>4
<1> QED BY <1>3, <1>5, <1>12, <1>13, <1>14, <1>15

(* A search from further on is as deep.                                      *)
LEMMA DepthGrows ==
  ASSUME NEW w \in Nat, NEW s \in Instruction, NEW t \in Instruction,
         s.len <= w
  PROVE  Depth(w, s) <= Depth(w, t) /\ Depth(w, s) \in Nat /\ Depth(w, t) \in Nat
<1>1. s.len \in Nat /\ t.len \in Nat /\ Width \in Nat
  BY WidthAssumption DEF Instruction
<1> QED BY <1>1 DEF Depth, Larger, Smaller

(* A search that is started has every candidate left that was not handled.   *)
LEMMA GapBegin ==
  ASSUME SifterInv, Launch \/ Resume, CommandInv', Gapless
  PROVE  OneLane' /\ Sorted'
         /\ \A b \in Remaining : /\ Resumable(b)'
                                 /\ Ahead(b)'
<1>1. /\ ~broken' /\ DOMAIN (rest') = {0} /\ rest'[0] \in SUBSET Raw
      /\ emitted' = <<>> /\ read' = <<>> /\ pc' = "read"
      /\ UNCHANGED <<conf, last, tried>>
      /\ Launch => rest'[0] = SearchOf(Given)
      /\ Resume => \E from \in last :
           rest'[0] = BruteSet(from, EndOf(Given), Wanted(Given))
  BY BeginSearch
<1>2. DOMAIN (emitted') = {} BY <1>1
<1>3. OneLane' BY <1>1 DEF OneLane
<1>4. Sorted' BY <1>2 DEF Sorted
<1>5. ASSUME NEW b \in Remaining PROVE Resumable(b)' /\ Ahead(b)'
  <2>1. Resumable(b) BY DEF SifterInv, GapInv
  <2>2. Resumable(b)' BY <1>1, <2>1 DEF Resumable
  <2>3. CASE Launch
    <3>1. b \in rest'[0] BY <1>1, <2>3 DEF Remaining
    <3> QED BY <1>2, <2>2, <3>1 DEF Ahead
  <2>4. CASE Resume
    <3>1. PICK from \in last :
             rest'[0] = BruteSet(from, EndOf(Given), Wanted(Given))
      BY <1>1, <2>4
    <3>2. from \in Instruction BY DEF SifterInv, SourceInv, Hexed
    <3>3. /\ conf.args \in Seq(Argument) /\ Accepted(conf.args)
      BY SifterAssumption DEF SifterInv, TypeOK, Gapless, Searches
    <3>4. Wanted(Given) \in Nat /\ Given.start \in Hexed \cup {None}
      BY <3>3, ConfigTypes, TargetAssumption DEF Given, Wanted
    <3>5. StartOf(Given) \in Instruction
      <4>1. [bytes |-> [i \in Positions |-> 0], len |-> 0] \in Instruction
        BY EmptyIsFirst DEF Empty, Hexed
      <4> QED BY <3>4, <4>1 DEF StartOf, Hexed
    <3>6. Depth(Wanted(Given), StartOf(Given)) <= Depth(Wanted(Given), from)
          /\ Depth(Wanted(Given), StartOf(Given)) \in Nat
          /\ Depth(Wanted(Given), from) \in Nat
      BY <3>2, <3>4, <3>5, DepthGrows DEF Gapless
    <3>7. /\ b \in Raw /\ Precedes(b, EndOf(Given).bytes)
          /\ ZeroTail(b, Depth(Wanted(Given), StartOf(Given)))
      BY DEF Remaining, SearchOf, BruteSet
    <3>8. ZeroTail(b, Depth(Wanted(Given), from))
      BY <3>6, <3>7, PositionType DEF ZeroTail
    <3>9. ~Precedes(b, from.bytes) BY <2>1 DEF Resumable
    <3>10. b \in rest'[0] BY <3>1, <3>7, <3>8, <3>9 DEF BruteSet
    <3> QED BY <1>2, <2>2, <3>10 DEF Ahead
  <2> QED BY <2>3, <2>4
<1> QED BY <1>3, <1>4, <1>5

(* The one sent is the first one left.                                       *)
LEMMA GapEmit ==
  ASSUME SifterInv, NEW k \in DOMAIN rest, Emit(k), Gapless
  PROVE  GapInv'
<1>1. /\ OneLane /\ Sorted
      /\ \A b \in Remaining : /\ Resumable(b)
                              /\ pc # "idle" /\ ~Pending(b) => Ahead(b)
      /\ rest \in [DOMAIN rest -> SUBSET Raw]
  BY DEF SifterInv, GapInv, SourceInv
<1>2. /\ Live /\ rest[k] # {}
      /\ UNCHANGED <<conf, broken, pc, last, read, tried>>
  BY DEF Emit, setup, files, past
<1>3. pc # "idle" /\ pc # "failed" /\ DOMAIN rest = {0} /\ k = 0 /\ ~broken
  BY <1>1, <1>2 DEF OneLane, Live
<1>4. PICK l \in Line :
         /\ l.bytes \in rest[0]
         /\ \A b \in rest[0] : b = l.bytes \/ Precedes(l.bytes, b)
         /\ emitted' = Append(emitted, l)
         /\ rest' = [rest EXCEPT ![0] = @ \ {l.bytes}]
  BY <1>3, EmitFacts
<1> DEFINE n == Len(emitted)
<1>5. /\ emitted \in Seq(Line) /\ n \in Nat /\ DOMAIN emitted = 1 .. n
      /\ Len(read) \in Nat /\ Len(read) <= n
  BY <1>3, Position
<1>6. /\ DOMAIN (emitted') = 1 .. n + 1
      /\ emitted'[n + 1] = l /\ \A i \in 1 .. n : emitted'[i] = emitted[i]
  BY <1>4, <1>5
<1>7. DOMAIN (rest') = {0} /\ rest'[0] = rest[0] \ {l.bytes}
  BY <1>3, <1>4
<1> HIDE DEF n
<1>8. OneLane' BY <1>1, <1>2, <1>3, <1>7 DEF OneLane
<1>9. Sorted'
  <2>1. ASSUME NEW i \in 1 .. n + 1, NEW j \in 1 .. n + 1, i < j
        PROVE  Precedes(emitted'[i].bytes, emitted'[j].bytes)
    <3>1. i \in 1 .. n BY <1>5, <2>1
    <3>2. CASE j \in 1 .. n BY <1>1, <1>5, <1>6, <2>1, <3>1, <3>2 DEF Sorted
    <3>3. CASE j = n + 1 BY <1>1, <1>4, <1>5, <1>6, <3>1, <3>3 DEF Sorted
    <3> QED BY <1>5, <3>2, <3>3
  <2>2. ASSUME NEW i \in 1 .. n + 1, NEW b \in rest'[0]
        PROVE  Precedes(emitted'[i].bytes, b)
    <3>1. b \in rest[0] /\ b # l.bytes BY <1>7
    <3>2. CASE i \in 1 .. n BY <1>1, <1>5, <1>6, <3>1, <3>2 DEF Sorted
    <3>3. CASE i = n + 1 BY <1>4, <1>6, <3>1, <3>3
    <3> QED BY <1>5, <3>2, <3>3
  <2> QED BY <1>6, <2>1, <2>2 DEF Sorted
<1>10. ASSUME NEW b \in Remaining PROVE Resumable(b)' /\ (Pending(b)' \/ Ahead(b)')
  <2>1. Resumable(b)' BY <1>1, <1>2 DEF Resumable
  <2>2. CASE Pending(b)
    <3>1. PICK i \in 1 .. n : i > Len(read) /\ emitted[i].bytes = b
      BY <1>5, <2>2 DEF Pending
    <3>2. i \in 1 .. n + 1 BY <1>5
    <3>3. Pending(b)' BY <1>2, <1>6, <3>1, <3>2 DEF Pending
    <3> QED BY <2>1, <3>3
  <2>3. CASE b = l.bytes
    <3>1. n + 1 \in 1 .. n + 1 /\ n + 1 > Len(read) BY <1>5
    <3>2. Pending(b)' BY <1>2, <1>6, <2>3, <3>1 DEF Pending
    <3> QED BY <2>1, <3>2
  <2>4. CASE ~Pending(b) /\ b # l.bytes
    <3>1. Ahead(b) BY <1>1, <1>3, <2>4
    <3>2. b \in rest[0] BY <1>3, <3>1 DEF Ahead
    <3>3. b \in rest'[0] BY <1>7, <2>4, <3>2
    <3>4. ~Precedes(b, l.bytes)
      <4>1. b \in Raw /\ l.bytes \in Raw /\ Precedes(l.bytes, b)
        BY <1>1, <1>3, <1>4, <2>4, <3>2
      <4> QED BY <4>1, OrderAsymmetric
    <3>5. \A i \in 1 .. n + 1 : ~Precedes(b, emitted'[i].bytes)
      <4>1. \A i \in 1 .. n : ~Precedes(b, emitted'[i].bytes)
        BY <1>5, <1>6, <3>1 DEF Ahead
      <4>2. \A i \in 1 .. n + 1 : i \in 1 .. n \/ i = n + 1 BY <1>5
      <4> QED BY <1>6, <3>4, <4>1, <4>2
    <3> QED BY <1>6, <2>1, <3>3, <3>5 DEF Ahead
  <2> QED BY <2>2, <2>3, <2>4
<1>11. Remaining' = Remaining
  BY <1>2 DEF Remaining, Given
<1> QED BY <1>8, <1>9, <1>10, <1>11 DEF GapInv

(* A place that is saved is not behind a candidate that was not handled.     *)
LEMMA GapSave ==
  ASSUME SifterInv, pc \in {"last", "closing"}, Gapless, NEW b \in Remaining
  PROVE  ~Precedes(b, Saved(line[1]).bytes)
<1> DEFINE l == line[1]
<1>1. /\ OneLane /\ Sorted
      /\ ~Pending(b) => Ahead(b)
  BY DEF SifterInv, GapInv
<1>2. /\ l \in Line /\ l.bytes \in Raw
      /\ Saved(l).bytes \in Raw /\ ~Precedes(l.bytes, Saved(l).bytes)
  <2>1. l \in Line BY LineAtHand DEF Handling
  <2>2. Saved(l) \in Hexed /\ ~Precedes(l.bytes, Saved(l).bytes)
    BY <2>1, SavedBefore
  <2> QED BY <2>1, <2>2 DEF Line, Hexed, Instruction
<1>3. b \in Raw BY DEF Remaining, SearchOf, BruteSet
<1> HIDE DEF l
<1>4. CASE pc = "last"
  <2>1. /\ Len(read) + 1 \in DOMAIN emitted /\ emitted[Len(read) + 1] = l
        /\ emitted \in Seq(Line) /\ read \in Seq(Line)
    BY <1>4, Position DEF Handling, l
  <2>2. ~Precedes(b, l.bytes)
    <3>1. CASE ~Pending(b) BY <1>1, <2>1, <3>1 DEF Ahead
    <3>2. CASE Pending(b)
      <4>1. PICK i \in DOMAIN emitted : i > Len(read) /\ emitted[i].bytes = b
        BY <3>2 DEF Pending
      <4>2. i \in Nat /\ Len(read) \in Nat BY <2>1
      <4>3. CASE i = Len(read) + 1
        <5>1. b = l.bytes BY <2>1, <4>1, <4>3
        <5> QED BY <1>3, <5>1, OrderAsymmetric
      <4>4. CASE Len(read) + 1 < i
        <5>1. Precedes(l.bytes, b) BY <1>1, <2>1, <4>1, <4>4 DEF Sorted
        <5> QED BY <1>2, <1>3, <5>1, OrderAsymmetric
      <4> QED BY <4>1, <4>2, <4>3, <4>4
    <3> QED BY <3>1, <3>2
  <2> QED BY <1>2, <1>3, <2>2, OrderNotBelow DEF l
<1>5. CASE pc = "closing"
  <2>1. /\ emitted = read /\ ~broken /\ DOMAIN rest = {0}
        /\ \A k \in DOMAIN rest : rest[k] = {}
    BY <1>1, <1>5, Position DEF SifterInv, SourceInv, Closing, OneLane
  <2>2. ~Pending(b)
    <3>1. \A i \in DOMAIN read : ~(i > Len(read))
      <4>1. read \in Seq(Line) BY Position
      <4>2. DOMAIN read = 1 .. Len(read) /\ Len(read) \in Nat BY <4>1
      <4> QED BY <4>2
    <3> QED BY <2>1, <3>1 DEF Pending
  <2> QED BY <1>1, <2>1, <2>2 DEF Ahead
<1> QED BY <1>4, <1>5

(* No step leaves a candidate behind that no later search goes over.         *)
LEMMA GapStep ==
  ASSUME SifterInv, [Next]_vars
  PROVE  GapInv'
<1> USE DEF GapInv
<1>1. conf' = conf
  BY Frame, Begins DEF Begin, Record, setup
<1>2. Gapless' <=> Gapless
  BY <1>1 DEF Gapless, Searches, Alone, Given, Imported
<1> SUFFICES ASSUME Gapless PROVE GapInv'
  BY <1>2
<1>3. /\ OneLane /\ Sorted
      /\ \A b \in Remaining : /\ Resumable(b)
                              /\ pc # "idle" /\ ~Pending(b) => Ahead(b)
  BY DEF SifterInv
<1>4. CASE Launch \/ Resume
  <2>1. CommandInv' BY CommandStep
  <2>2. tried' = tried BY <1>4, Begins DEF Begin
  <2>3. Remaining' = Remaining BY <1>1, <2>2 DEF Remaining, Given
  <2> QED BY <1>4, <2>1, <2>3, GapBegin
<1>5. ASSUME NEW k \in DOMAIN rest, Emit(k) PROVE GapInv'
  BY <1>5, GapEmit
<1>6. ASSUME NEW k \in DOMAIN rest, Break(k) PROVE GapInv'
  <2>1. /\ pc # "idle" /\ UNCHANGED <<emitted, pc, last, read, tried>>
        /\ rest' = [rest EXCEPT ![k] = {}] /\ broken'
    BY <1>6 DEF Break, Live, files, past
  <2>2. k = 0 /\ rest' = [rest EXCEPT ![0] = {}] /\ DOMAIN rest = {0}
    BY <1>3, <2>1 DEF OneLane
  <2>3. DOMAIN (rest') = {0} /\ rest'[0] = {}
    BY <2>2 DEF SifterInv, SourceInv
  <2>4. OneLane' BY <2>1, <2>3 DEF OneLane
  <2>5. Sorted' BY <1>3, <2>1, <2>3 DEF Sorted
  <2>6. \A b : Ahead(b) => Ahead(b)' BY <2>1 DEF Ahead
  <2>7. Remaining' = Remaining BY <1>1, <2>1 DEF Remaining, Given
  <2> QED BY <1>3, <2>1, <2>4, <2>5, <2>6, <2>7 DEF Resumable, Pending
<1>7. ASSUME UNCHANGED <<rest, broken, emitted, read, tried>>,
             pc' = "idle" <=> pc = "idle",
             pc = "idle" => last' = last,
             \A b \in Remaining : Resumable(b)'
      PROVE  GapInv'
  <2>1. OneLane' /\ Sorted' BY <1>3, <1>7 DEF OneLane, Sorted
  <2>2. Remaining' = Remaining BY <1>1, <1>7 DEF Remaining, Given
  <2>3. \A b : (Ahead(b) => Ahead(b)') /\ (Pending(b)' <=> Pending(b))
    BY <1>7 DEF Ahead, Pending
  <2> QED BY <1>3, <1>7, <2>1, <2>2, <2>3
<1>8. CASE \/ Abort \/ RefuseResume \/ ReadLine \/ SkipLine \/ RefuseLine
           \/ WriteTick \/ Eof \/ Wait \/ WriteFinalLog \/ WriteFindings
           \/ WriteSummary \/ UNCHANGED vars
  <2>1. /\ UNCHANGED <<rest, broken, emitted, read, tried, last>>
        /\ pc' = "idle" <=> pc = "idle"
    BY <1>8 DEF Abort, RefuseResume, ReadLine, SkipLine, RefuseLine, WriteTick,
                Eof, Wait, WriteFinalLog, WriteFindings, WriteSummary,
                WriteReport, AfterTick, Goto, Live, vars, injector, files, past
  <2>2. \A b \in Remaining : Resumable(b)' BY <1>3, <2>1 DEF Resumable
  <2> QED BY <1>7, <2>1, <2>2
<1>9. CASE Truncate
  <2>1. /\ UNCHANGED <<rest, broken, emitted, read, tried>>
        /\ pc # "idle" /\ pc' # "idle" /\ last' = {Empty}
    BY <1>9 DEF Truncate, Goto, injector, past
  <2>2. \A b \in Remaining : b \in Raw BY DEF Remaining, SearchOf, BruteSet
  <2>3. \A b \in Remaining : Resumable(b)'
    BY <2>1, <2>2, EmptyIsFirst DEF Resumable
  <2> QED BY <1>7, <2>1, <2>3
<1>10. CASE WriteLast
  <2>1. /\ UNCHANGED <<rest, broken, emitted, read, tried>>
        /\ pc \in {"last", "closing"} /\ pc' # "idle"
        /\ last' = {Saved(line[1])}
    BY <1>10 DEF WriteLast, Goto, injector, past
  <2>2. \A b \in Remaining : Resumable(b)' BY <2>1, GapSave DEF Resumable
  <2> QED BY <1>7, <2>1, <2>2
<1>11. CASE Record
  <2> DEFINE l == line[1]
  <2>1. /\ UNCHANGED <<rest, broken, emitted, last>>
        /\ pc = "record" /\ pc' = "read"
        /\ read' = Append(read, l) /\ tried' = tried \cup {l.bytes}
    BY <1>11 DEF Record, Goto, injector
  <2>2. /\ Len(read) + 1 \in DOMAIN emitted /\ emitted[Len(read) + 1] = l
        /\ emitted \in Seq(Line) /\ read \in Seq(Line)
    BY <2>1, Position DEF Handling
  <2>3. Len(read') = Len(read) + 1 /\ Len(read) \in Nat BY <2>1, <2>2
  <2>4. Remaining' = Remaining \ {l.bytes}
    BY <1>1, <2>1 DEF Remaining, Given
  <2> HIDE DEF l
  <2>5. ASSUME NEW b \in Remaining', ~Pending(b)' PROVE ~Pending(b)
    <3>1. ASSUME NEW i \in DOMAIN emitted, i > Len(read), emitted[i].bytes = b
          PROVE  FALSE
      <4>1. i # Len(read) + 1 BY <2>2, <2>4, <3>1
      <4>2. i \in Nat BY <2>2
      <4>3. i > Len(read') BY <2>3, <3>1, <4>1, <4>2
      <4>4. Pending(b)' BY <2>1, <3>1, <4>3 DEF Pending
      <4> QED BY <2>5, <4>4
    <3> QED BY <3>1 DEF Pending
  <2>6. OneLane' /\ Sorted' BY <1>3, <2>1 DEF OneLane, Sorted
  <2>7. \A b : (Ahead(b) => Ahead(b)') /\ (Resumable(b) => Resumable(b)')
    BY <2>1 DEF Ahead, Resumable
  <2> QED BY <1>3, <2>1, <2>4, <2>5, <2>6, <2>7
<1> QED BY <1>4, <1>5, <1>6, <1>8, <1>9, <1>10, <1>11 DEF Next, Injector, Sift

-----------------------------------------------------------------------------
LEMMA InitInv == Init => SifterInv
<1> SUFFICES ASSUME Init PROVE SifterInv
  OBVIOUS
<1>1. /\ conf \in Configs /\ runs = 0 /\ command = <<>> /\ resumed = {}
      /\ rest = <<>> /\ broken = FALSE /\ pipe = <<>> /\ emitted = <<>>
      /\ pc = "idle" /\ line = <<>> /\ artifacts = {} /\ found = 0
      /\ tick = NoFile /\ last = NoFile /\ sync = <<>>
      /\ reports = [log |-> [keys |-> {}, count |-> 0], findings |-> {},
                    summary |-> 0]
      /\ read = <<>> /\ tried = {}
  BY DEF Init
<1>2. \A V : <<>> \in Seq(V) OBVIOUS
<1>3. Len(<<>>) = 0 /\ DOMAIN <<>> = {} OBVIOUS
<1>4. FirstFinds = {} BY <1>1, <1>3 DEF FirstFinds
<1>5. Cardinality({}) = 0 BY FS_EmptySet
<1>6. TypeOK
  <2>1. 0 \in 0 .. MaxRuns /\ 0 <= Capacity BY SifterAssumption
  <2>2. reports \in [log : [keys : SUBSET Keys, count : Nat],
                     findings : SUBSET Keys, summary : Nat]
    BY <1>1
  <2>3. /\ command \in Seq(Argument) /\ pipe \in Seq(Text)
        /\ line \in Seq(Line) /\ sync \in Seq(Keys)
    BY <1>1, <1>2
  <2>4. \A k \in DOMAIN rest : rest[k] \subseteq Raw BY <1>1, <1>3
  <2>5. Len(pipe) <= Capacity /\ Len(line) <= 1 BY <1>1, <1>3, <2>1
  <2> QED BY <1>1, <2>1, <2>2, <2>3, <2>4, <2>5 DEF TypeOK, NoFile
<1>7. LineInv
  <2>1. (<<>> \o <<>>) \o <<>> = <<>> OBVIOUS
  <2> QED BY <1>1, <1>2, <2>1, PacketsOne DEF LineInv, InHand, Handling
<1>8. SourceInv
  <2>1. rest \in [DOMAIN rest -> SUBSET Raw] BY <1>1
  <2> QED BY <1>1, <2>1 DEF SourceInv, Closing, NoFile
<1>9. StatsInv BY <1>1, <1>4, <1>5 DEF StatsInv
<1>10. SyncIsComplete BY <1>1, <1>3, <1>4, <1>5 DEF SyncIsComplete
<1>11. ReportInv BY <1>1 DEF ReportInv, Closing
<1>12. CommandInv BY <1>1 DEF CommandInv
<1>13. GapInv
  <2>1. DOMAIN emitted = {} BY <1>1, <1>3
  <2> QED BY <1>1, <2>1 DEF GapInv, OneLane, Sorted, Resumable, NoFile
<1> QED BY <1>6, <1>7, <1>8, <1>9, <1>10, <1>11, <1>12, <1>13 DEF SifterInv

(* The invariant of the sifter.                                              *)
THEOREM SifterInvariance == Spec => []SifterInv
<1>1. Init => SifterInv BY InitInv
<1>2. SifterInv /\ [Next]_vars => SifterInv'
  BY TypeStep, LineStep, SourceStep, StatsStep, ReportStep, CommandStep, GapStep
     DEF SifterInv
<1> QED BY <1>1, <1>2, PTL DEF Spec

(* Every variable keeps its type, and the pipe its capacity.                 *)
THEOREM SifterTypeCorrect == Spec => []TypeOK
<1>1. SifterInv => TypeOK BY DEF SifterInv
<1> QED BY <1>1, SifterInvariance, PTL

(* Wherever the sifter is interrupted (an error, Ctrl-C), data/sync has each *)
(* finding of the lines handled so far once, in the order of the first ones. *)
THEOREM SyncLogIsComplete == Spec => []SyncIsComplete
<1>1. SifterInv => SyncIsComplete BY DEF SifterInv
<1> QED BY <1>1, SifterInvariance, PTL

(* A sifter that ends well lost no line between the injector and itself, was *)
(* not deceived by an injector that failed, and its reports agree with each  *)
(* other and with what was found.                                            *)
THEOREM GoodEndIsComplete == Spec => []DoneIsComplete
<1>1. ASSUME SifterInv, pc = "done" PROVE DoneIsComplete
  <2>1. emitted = read BY <1>1, Position DEF Closing
  <2>2. ~broken /\ \A k \in DOMAIN rest : rest[k] = {}
    BY <1>1 DEF SifterInv, SourceInv, Closing
  <2>3. /\ reports.log = [keys |-> artifacts, count |-> found]
        /\ reports.findings = artifacts /\ reports.summary = found
    BY <1>1 DEF SifterInv, ReportInv, Closing
  <2>4. /\ artifacts = IF conf.lowMem THEN {}
                       ELSE {Key(read[i]) : i \in FirstFinds}
        /\ found = Cardinality(FirstFinds)
    BY <1>1 DEF SifterInv, StatsInv
  <2>5. reports.log.keys = artifacts /\ reports.log.count = found BY <2>3
  <2> QED BY <2>1, <2>2, <2>3, <2>4, <2>5 DEF DoneIsComplete
<1>2. SifterInv => DoneIsComplete BY <1>1 DEF DoneIsComplete
<1> QED BY <1>2, SifterInvariance, PTL

(* Of all an injector reads from its arguments, a resume changes the start   *)
(* and nothing else, whatever the arguments given were.                      *)
THEOREM ResumedAlike == Spec => []ResumeChangesStart
<1>1. SifterInv => ResumeChangesStart
  BY DEF SifterInv, CommandInv, ResumeChangesStart, Searches
<1> QED BY <1>1, SifterInvariance, PTL

(* However often, and wherever, a saved search of one process is interrupted *)
(* and resumed, no candidate is left out once one of its sifters ends well.  *)
THEOREM NoGapAfterResume == Spec => []ResumeLeavesNoGap
<1>1. ASSUME SifterInv, pc = "done", Gapless PROVE SearchOf(Given) \subseteq tried
  <2>1. /\ OneLane
        /\ \A b \in Remaining : pc # "idle" /\ ~Pending(b) => Ahead(b)
    BY <1>1 DEF SifterInv, GapInv
  <2>2. emitted = read /\ read \in Seq(Line) BY <1>1, Position DEF Closing
  <2>3. \A i \in DOMAIN emitted : ~(i > Len(read))
    <3>1. DOMAIN read = 1 .. Len(read) /\ Len(read) \in Nat BY <2>2
    <3> QED BY <2>2, <3>1
  <2>4. /\ ~broken /\ DOMAIN rest = {0}
        /\ \A k \in DOMAIN rest : rest[k] = {}
    BY <1>1, <2>1 DEF SifterInv, SourceInv, Closing, OneLane
  <2>5. \A b \in Remaining : ~Pending(b) BY <2>3 DEF Pending
  <2>6. Remaining = {} BY <1>1, <2>1, <2>4, <2>5 DEF Ahead
  <2> QED BY <2>6 DEF Remaining
<1>2. SifterInv => ResumeLeavesNoGap
  BY <1>1 DEF ResumeLeavesNoGap, Gapless
<1> QED BY <1>2, SifterInvariance, PTL
=============================================================================
