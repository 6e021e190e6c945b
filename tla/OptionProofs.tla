---------------------------- MODULE OptionProofs ----------------------------
(* What the option parser makes of a command line that is cut, put together  *)
(* or extended, as the supervisor and the sifter do with theirs.             *)
EXTENDS Options, OrderLemmas

(* The flags that matter by name, and that no flag is two of them.           *)
LEMMA FlagFacts ==
  /\ DOMAIN Switches \cap DOMAIN Valued = {}
  /\ Help \cap DOMAIN Valued = {} /\ Help \cap DOMAIN Switches = {}
  /\ "--worker" \in DOMAIN Switches /\ {"-i", "-e", "-j"} \subseteq Compactable
  /\ \A x : /\ Sets(x, "worker") <=> x = "--worker"
            /\ Sets(x, "start") <=> x = "-i"
            /\ Sets(x, "end") <=> x = "-e"
            /\ Sets(x, "jobs") <=> x = "-j"
  /\ Switches["--worker"].set = TRUE
  /\ Valued["-i"].kind = "hex" /\ Valued["-e"].kind = "hex"
  /\ Valued["-j"].kind = "number"
<1>1. /\ DOMAIN Switches \cap DOMAIN Valued = {}
      /\ Help \cap DOMAIN Valued = {} /\ Help \cap DOMAIN Switches = {}
  BY DEF Switches, Valued, Help
<1>2. "--worker" \in DOMAIN Switches /\ {"-i", "-e", "-j"} \subseteq Compactable
  BY DEF Switches, Valued, Compactable
<1>3. /\ Valued["-i"].kind = "hex" /\ Valued["-e"].kind = "hex"
      /\ Valued["-j"].kind = "number"
  BY DEF Valued, Of
<1>4. Switches["--worker"].set = TRUE BY DEF Switches, To
<1>5. \A x : Sets(x, "worker") <=> x = "--worker"
  BY DEF Sets, Switches, Valued, To, Of
<1>6. \A x : Sets(x, "start") <=> x = "-i"
  BY DEF Sets, Switches, Valued, To, Of
<1>7. \A x : Sets(x, "end") <=> x = "-e"
  BY DEF Sets, Switches, Valued, To, Of
<1>8. \A x : Sets(x, "jobs") <=> x = "-j"
  BY DEF Sets, Switches, Valued, To, Of
<1> QED BY <1>1, <1>2, <1>3, <1>4, <1>5, <1>6, <1>7, <1>8

LEMMA KindFacts ==
  /\ \A x : Sets(x, "wanted") <=> x = "-B"
  /\ \A x : Sets(x, "rangeBytes") <=> x = "-l"
  /\ {"-B", "-l"} \subseteq DOMAIN Valued
  /\ Valued["-B"].kind = "number" /\ Valued["-l"].kind = "number"
<1>1. {"-B", "-l"} \subseteq DOMAIN Valued BY DEF Valued
<1>2. Valued["-B"].kind = "number" /\ Valued["-l"].kind = "number"
  BY DEF Valued, Of
<1>3. \A x : Sets(x, "wanted") <=> x = "-B"
  BY DEF Sets, Switches, Valued, To, Of
<1>4. \A x : Sets(x, "rangeBytes") <=> x = "-l"
  BY DEF Sets, Switches, Valued, To, Of
<1> QED BY <1>1, <1>2, <1>3, <1>4

(* A flag sets one field, and None is no flag.                               *)
LEMMA SetsOne ==
  /\ \A x, f, g : Sets(x, f) /\ Sets(x, g) => f = g
  /\ \A f : ~Sets(None, f)
  /\ \A x, f : Sets(x, f) => x \in DOMAIN Switches \/ x \in DOMAIN Valued
  /\ None \notin DOMAIN Switches /\ None \notin DOMAIN Valued
<1>1. None \notin DOMAIN Switches /\ None \notin DOMAIN Valued
  BY NoneAssumption DEF Names
<1>2. \A x, f, g : Sets(x, f) /\ Sets(x, g) => f = g
  BY FlagFacts, Zenon DEF Sets
<1>3. \A x, f : Sets(x, f) => x \in DOMAIN Switches \/ x \in DOMAIN Valued
  BY DEF Sets
<1> QED BY <1>1, <1>2, <1>3

-----------------------------------------------------------------------------
(* An accepted argument, and where its value is.                             *)
LEMMA ValuePlace ==
  ASSUME NEW args \in Seq(Argument), Accepted(args), NEW i \in DOMAIN args,
         args[i].flag \in DOMAIN Valued
  PROVE  /\ args[i].value = None =>
              /\ i + 1 \in DOMAIN args /\ args[i + 1].flag = None
              /\ Fits(args[i].flag, args[i + 1].value)
         /\ args[i].value # None => Fits(args[i].flag, args[i].value)
<1>1. \/ args[i].flag \in DOMAIN Switches \cup Help /\ args[i].value = None
      \/ args[i].flag \in Compactable /\ Fits(args[i].flag, args[i].value)
      \/ /\ Apart(args[i]) /\ i < Len(args)
         /\ args[i + 1].flag = None /\ Fits(args[i].flag, args[i + 1].value)
      \/ args[i].flag = None /\ i > 1 /\ Apart(args[i - 1])
  BY DEF Accepted
<1>2. args[i].flag \notin DOMAIN Switches \cup Help /\ args[i].flag # None
  BY FlagFacts, SetsOne
<1>3. CASE args[i].flag \in Compactable /\ Fits(args[i].flag, args[i].value)
  BY <1>3 DEF Fits
<1>4. CASE /\ Apart(args[i]) /\ i < Len(args)
           /\ args[i + 1].flag = None /\ Fits(args[i].flag, args[i + 1].value)
  <2>1. i + 1 \in DOMAIN args BY <1>4
  <2> QED BY <1>4, <2>1 DEF Apart
<1> QED BY <1>1, <1>2, <1>3, <1>4

(* Two accepted command lines, one behind the other, are accepted.           *)
LEMMA JoinAccepted ==
  ASSUME NEW a \in Seq(Argument), NEW b \in Seq(Argument),
         Accepted(a), Accepted(b)
  PROVE  /\ a \o b \in Seq(Argument) /\ Len(a \o b) = Len(a) + Len(b)
         /\ Accepted(a \o b)
<1> DEFINE c == a \o b
           m == Len(a)
           n == Len(b)
<1>1. /\ c \in Seq(Argument) /\ Len(c) = m + n /\ m \in Nat /\ n \in Nat
      /\ DOMAIN a = 1 .. m /\ DOMAIN b = 1 .. n /\ DOMAIN c = 1 .. m + n
      /\ \A i \in 1 .. m : c[i] = a[i]
      /\ \A i \in 1 .. n : c[m + i] = b[i]
  OBVIOUS
<1> HIDE DEF c, m, n
<1>2. ASSUME NEW i \in DOMAIN c
      PROVE  \/ c[i].flag \in DOMAIN Switches \cup Help /\ c[i].value = None
             \/ c[i].flag \in Compactable /\ Fits(c[i].flag, c[i].value)
             \/ /\ Apart(c[i]) /\ i < Len(c)
                /\ c[i + 1].flag = None /\ Fits(c[i].flag, c[i + 1].value)
             \/ c[i].flag = None /\ i > 1 /\ Apart(c[i - 1])
  <2>1. CASE i <= m
    <3>1. i \in DOMAIN a /\ c[i] = a[i] BY <1>1, <2>1
    <3>2. CASE a[i].flag \in DOMAIN Switches \cup Help /\ a[i].value = None
      BY <3>1, <3>2
    <3>3. CASE a[i].flag \in Compactable /\ Fits(a[i].flag, a[i].value)
      BY <3>1, <3>3
    <3>4. CASE /\ Apart(a[i]) /\ i < Len(a)
               /\ a[i + 1].flag = None /\ Fits(a[i].flag, a[i + 1].value)
      <4>1. i + 1 \in 1 .. m /\ i < Len(c) BY <1>1, <3>1, <3>4 DEF m
      <4>2. c[i + 1] = a[i + 1] BY <1>1, <4>1
      <4> QED BY <3>1, <3>4, <4>1, <4>2
    <3>5. CASE a[i].flag = None /\ i > 1 /\ Apart(a[i - 1])
      <4>1. i - 1 \in 1 .. m BY <1>1, <3>1, <3>5
      <4>2. c[i - 1] = a[i - 1] BY <1>1, <4>1
      <4> QED BY <3>1, <3>5, <4>2
    <3> QED BY <3>1, <3>2, <3>3, <3>4, <3>5 DEF Accepted
  <2>2. CASE ~(i <= m)
    <3> DEFINE k == i - m
    <3>1. k \in DOMAIN b /\ i = m + k BY <1>1, <2>2
    <3> HIDE DEF k
    <3>2. c[i] = b[k] BY <1>1, <3>1
    <3>3. CASE b[k].flag \in DOMAIN Switches \cup Help /\ b[k].value = None
      BY <3>2, <3>3
    <3>4. CASE b[k].flag \in Compactable /\ Fits(b[k].flag, b[k].value)
      BY <3>2, <3>4
    <3>5. CASE /\ Apart(b[k]) /\ k < Len(b)
               /\ b[k + 1].flag = None /\ Fits(b[k].flag, b[k + 1].value)
      <4>0. k < n /\ k \in 1 .. n BY <1>1, <3>1, <3>5 DEF n
      <4>a. Len(c) = m + n /\ m \in Nat /\ n \in Nat BY <1>1
      <4>1. k + 1 \in 1 .. n /\ i < Len(c) /\ i + 1 = m + (k + 1)
        BY <4>0, <4>a, <3>1
      <4>2. c[i + 1] = b[k + 1] BY <1>1, <4>1
      <4> QED BY <3>2, <3>5, <4>1, <4>2
    <3>6. CASE b[k].flag = None /\ k > 1 /\ Apart(b[k - 1])
      <4>1. k - 1 \in 1 .. n /\ i - 1 = m + (k - 1) /\ i > 1
        BY <1>1, <3>1, <3>6
      <4>2. c[i - 1] = b[k - 1] BY <1>1, <4>1
      <4> QED BY <3>2, <3>6, <4>1, <4>2
    <3> QED BY <3>1, <3>2, <3>3, <3>4, <3>5, <3>6 DEF Accepted
  <2> QED BY <1>1, <2>1, <2>2
<1>3. Accepted(c) BY <1>2 DEF Accepted
<1> QED BY <1>1, <1>3 DEF c, m, n

(* The values stay with their places.                                        *)
LEMMA JoinValues ==
  ASSUME NEW a \in Seq(Argument), NEW b \in Seq(Argument),
         Accepted(a), Accepted(b)
  PROVE  /\ \A i \in DOMAIN a :
              /\ (a \o b)[i] = a[i]
              /\ a[i].flag \in DOMAIN Switches \cup DOMAIN Valued =>
                   ValueAt(a \o b, i) = ValueAt(a, i)
         /\ \A i \in DOMAIN b :
              /\ (a \o b)[Len(a) + i] = b[i]
              /\ b[i].flag \in DOMAIN Switches \cup DOMAIN Valued =>
                   ValueAt(a \o b, Len(a) + i) = ValueAt(b, i)
<1> DEFINE c == a \o b
           m == Len(a)
           n == Len(b)
<1>1. /\ c \in Seq(Argument) /\ Len(c) = m + n /\ m \in Nat /\ n \in Nat
      /\ DOMAIN a = 1 .. m /\ DOMAIN b = 1 .. n
      /\ \A i \in 1 .. m : c[i] = a[i]
      /\ \A i \in 1 .. n : c[m + i] = b[i]
  OBVIOUS
<1> HIDE DEF c, m, n
<1>2. ASSUME NEW i \in DOMAIN a,
             a[i].flag \in DOMAIN Switches \cup DOMAIN Valued
      PROVE  ValueAt(c, i) = ValueAt(a, i)
  <2>1. c[i] = a[i] BY <1>1
  <2>2. CASE a[i].flag \in DOMAIN Switches BY <2>1, <2>2 DEF ValueAt
  <2>3. CASE a[i].flag \in DOMAIN Valued /\ a[i].value = None
    <3>1. i + 1 \in DOMAIN a BY <2>3, ValuePlace
    <3>2. c[i + 1] = a[i + 1] BY <1>1, <3>1
    <3> QED BY <2>1, <3>2 DEF ValueAt
  <2>4. CASE a[i].flag \in DOMAIN Valued /\ a[i].value # None
    <3>1. ~Apart(a[i]) BY <2>4 DEF Apart
    <3> QED BY <2>1, <3>1 DEF ValueAt
  <2> QED BY <1>2, <2>2, <2>3, <2>4
<1>3. ASSUME NEW i \in DOMAIN b,
             b[i].flag \in DOMAIN Switches \cup DOMAIN Valued
      PROVE  ValueAt(c, m + i) = ValueAt(b, i)
  <2>1. c[m + i] = b[i] BY <1>1
  <2>2. CASE b[i].flag \in DOMAIN Switches BY <2>1, <2>2 DEF ValueAt
  <2>3. CASE b[i].flag \in DOMAIN Valued /\ b[i].value = None
    <3>1. i + 1 \in DOMAIN b BY <2>3, ValuePlace
    <3>2. (m + i) + 1 = m + (i + 1) BY <1>1
    <3>3. c[(m + i) + 1] = b[i + 1] BY <1>1, <3>1, <3>2
    <3> QED BY <2>1, <3>3 DEF ValueAt
  <2>4. CASE b[i].flag \in DOMAIN Valued /\ b[i].value # None
    <3>1. ~Apart(b[i]) BY <2>4 DEF Apart
    <3> QED BY <2>1, <3>1 DEF ValueAt
  <2> QED BY <1>3, <2>2, <2>3, <2>4
<1> QED BY <1>1, <1>2, <1>3 DEF c, m

(* The last value given counts, and without one the default.                 *)
LEMMA ConfigValue ==
  ASSUME NEW args \in Seq(Argument), NEW f \in DOMAIN Default,
         f # "blacklists"
  PROVE  /\ Places(args, f) = {} => ConfigOf(args)[f] = Default[f]
         /\ \A i \in Places(args, f) :
              (\A j \in Places(args, f) : j <= i) =>
                ConfigOf(args)[f] = ValueAt(args, i)
<1> DEFINE places == Places(args, f)
<1>1. ConfigOf(args)[f] =
        IF places = {} THEN Default[f]
        ELSE ValueAt(args, CHOOSE i \in places : \A j \in places : j <= i)
  BY DEF ConfigOf
<1>2. places \subseteq Nat
  <2>1. DOMAIN args = 1 .. Len(args) OBVIOUS
  <2> QED BY <2>1 DEF Places
<1> HIDE DEF places
<1>3. ASSUME NEW i \in places, \A j \in places : j <= i
      PROVE  (CHOOSE x \in places : \A j \in places : j <= x) = i
  <2>1. ASSUME NEW x \in places, \A j \in places : j <= x PROVE x = i
    <3>1. x <= i /\ i <= x BY <1>3, <2>1
    <3> QED BY <1>2, <3>1
  <2> QED BY <1>3, <2>1
<1> QED BY <1>1, <1>3 DEF places

LEMMA PlacesType ==
  ASSUME NEW args \in Seq(Argument), NEW f
  PROVE  /\ Places(args, f) \in SUBSET DOMAIN args
         /\ Places(args, f) \in SUBSET Nat /\ IsFiniteSet(Places(args, f))
         /\ \A i \in Places(args, f) :
              args[i].flag \in DOMAIN Switches \cup DOMAIN Valued
<1>1. DOMAIN args = 1 .. Len(args) /\ Len(args) \in Nat OBVIOUS
<1>2. Places(args, f) \in SUBSET (1 .. Len(args)) BY <1>1 DEF Places
<1>3. IsFiniteSet(1 .. Len(args)) BY <1>1, FS_Interval
<1>4. IsFiniteSet(Places(args, f)) BY <1>2, <1>3, FS_Subset
<1>5. \A i \in Places(args, f) :
        args[i].flag \in DOMAIN Switches \cup DOMAIN Valued
  BY SetsOne DEF Places
<1> QED BY <1>1, <1>2, <1>4, <1>5

(* Where a field is set in two command lines, one behind the other.          *)
LEMMA JoinPlaces ==
  ASSUME NEW a \in Seq(Argument), NEW b \in Seq(Argument), NEW f
  PROVE  /\ \A i \in DOMAIN a : i \in Places(a \o b, f) <=> i \in Places(a, f)
         /\ \A i \in DOMAIN b :
              Len(a) + i \in Places(a \o b, f) <=> i \in Places(b, f)
         /\ \A i \in Places(a \o b, f) :
              i \in DOMAIN a \/ \E k \in DOMAIN b : i = Len(a) + k
<1> DEFINE c == a \o b
           m == Len(a)
           n == Len(b)
<1>1. /\ c \in Seq(Argument) /\ Len(c) = m + n /\ m \in Nat /\ n \in Nat
      /\ DOMAIN a = 1 .. m /\ DOMAIN b = 1 .. n /\ DOMAIN c = 1 .. m + n
      /\ \A i \in 1 .. m : c[i] = a[i]
      /\ \A i \in 1 .. n : c[m + i] = b[i]
  OBVIOUS
<1> HIDE DEF c, m, n
<1>2. \A i \in 1 .. m : i \in 1 .. m + n BY <1>1
<1>3. \A i \in 1 .. n : m + i \in 1 .. m + n BY <1>1
<1>4. \A i \in 1 .. m : i \in Places(c, f) <=> i \in Places(a, f)
  BY <1>1, <1>2 DEF Places
<1>5. \A i \in 1 .. n : m + i \in Places(c, f) <=> i \in Places(b, f)
  BY <1>1, <1>3 DEF Places
<1>6. ASSUME NEW i \in 1 .. m + n, i \notin 1 .. m
      PROVE  \E k \in 1 .. n : i = m + k
  <2>1. i - m \in 1 .. n /\ i = m + (i - m) BY <1>1, <1>6
  <2> QED BY <2>1
<1>7. Places(c, f) \subseteq 1 .. m + n BY <1>1 DEF Places
<1> QED BY <1>1, <1>4, <1>5, <1>6, <1>7 DEF c, m

(* An option that is given again behind them has its last value there.       *)
LEMMA JoinConfig ==
  ASSUME NEW a \in Seq(Argument), NEW b \in Seq(Argument),
         Accepted(a), Accepted(b),
         NEW f \in DOMAIN Default, f # "blacklists"
  PROVE  ConfigOf(a \o b)[f] =
           IF Places(b, f) = {} THEN ConfigOf(a)[f] ELSE ConfigOf(b)[f]
<1> DEFINE c == a \o b
           m == Len(a)
<1>1. c \in Seq(Argument) /\ m \in Nat /\ DOMAIN a = 1 .. m BY JoinAccepted
<1>2. /\ \A i \in DOMAIN a : i \in Places(c, f) <=> i \in Places(a, f)
      /\ \A i \in DOMAIN b : m + i \in Places(c, f) <=> i \in Places(b, f)
      /\ \A i \in Places(c, f) : i \in DOMAIN a
                                 \/ \E k \in DOMAIN b : i = m + k
  BY JoinPlaces
<1>3. /\ \A i \in Places(a, f) : ValueAt(c, i) = ValueAt(a, i)
      /\ \A i \in Places(b, f) : ValueAt(c, m + i) = ValueAt(b, i)
  BY JoinValues, PlacesType
<1>4. /\ Places(a, f) \subseteq DOMAIN a /\ Places(b, f) \subseteq DOMAIN b
      /\ Places(a, f) \subseteq Nat /\ Places(b, f) \subseteq Nat
      /\ IsFiniteSet(Places(a, f)) /\ IsFiniteSet(Places(b, f))
  BY PlacesType
<1>5. DOMAIN b \subseteq Nat /\ \A i \in DOMAIN b : i >= 1
  <2>1. DOMAIN b = 1 .. Len(b) /\ Len(b) \in Nat OBVIOUS
  <2> QED BY <2>1
<1> HIDE DEF c, m
<1>6. CASE Places(b, f) # {}
  <2>1. PICK k \in Places(b, f) : \A j \in Places(b, f) : j <= k
    BY <1>4, <1>6, AscendingLast
  <2>2. ConfigOf(b)[f] = ValueAt(b, k) BY <2>1, ConfigValue
  <2>3. m + k \in Places(c, f) BY <1>2, <1>4
  <2>4. ASSUME NEW j \in Places(c, f) PROVE j <= m + k
    <3>1. k \in Nat /\ k >= 1 BY <1>4, <1>5
    <3>2. CASE j \in DOMAIN a BY <1>1, <3>1, <3>2
    <3>3. CASE j \notin DOMAIN a
      <4>1. PICK l \in DOMAIN b : j = m + l BY <1>2, <3>3
      <4>2. l \in Places(b, f) BY <1>2, <4>1
      <4>3. l <= k /\ l \in Nat BY <1>4, <2>1, <4>2
      <4> QED BY <1>1, <3>1, <4>1, <4>3
    <3> QED BY <3>2, <3>3
  <2>5. ConfigOf(c)[f] = ValueAt(c, m + k)
    BY <1>1, <2>3, <2>4, ConfigValue
  <2> QED BY <1>3, <1>6, <2>2, <2>5 DEF c
<1>7. CASE Places(b, f) = {}
  <2>1. \A i \in Places(c, f) : i \in Places(a, f) BY <1>2, <1>7
  <2>2. CASE Places(a, f) = {}
    <3>1. Places(c, f) = {} BY <2>1, <2>2
    <3> QED BY <1>1, <1>7, <2>2, <3>1, ConfigValue DEF c
  <2>3. CASE Places(a, f) # {}
    <3>1. PICK k \in Places(a, f) : \A j \in Places(a, f) : j <= k
      BY <1>4, <2>3, AscendingLast
    <3>2. ConfigOf(a)[f] = ValueAt(a, k) BY <3>1, ConfigValue
    <3>3. k \in Places(c, f) /\ \A j \in Places(c, f) : j <= k
      BY <1>2, <1>4, <2>1, <3>1
    <3>4. ConfigOf(c)[f] = ValueAt(c, k) BY <1>1, <3>3, ConfigValue
    <3> QED BY <1>3, <1>7, <3>2, <3>4 DEF c
  <2> QED BY <2>2, <2>3
<1> QED BY <1>6, <1>7

(* Without a -X behind them the blacklists are those of the first.           *)
LEMMA JoinBlacklists ==
  ASSUME NEW a \in Seq(Argument), NEW b \in Seq(Argument),
         Accepted(a), Accepted(b), Places(b, "blacklists") = {}
  PROVE  ConfigOf(a \o b).blacklists = ConfigOf(a).blacklists
<1> DEFINE f == "blacklists"
           c == a \o b
<1>1. Places(c, f) = Places(a, f)
  <2>1. Places(c, f) \subseteq Places(a, f) BY JoinPlaces
  <2>2. Places(a, f) \subseteq Places(c, f) BY JoinPlaces, PlacesType
  <2> QED BY <2>1, <2>2
<1>2. \A i \in Places(a, f) : ValueAt(c, i) = ValueAt(a, i)
  BY JoinValues, PlacesType
<1> DEFINE order == Ascending(Places(a, f))
<1>3. \A k \in DOMAIN order : order[k] \in Places(a, f)
  BY AscendingType, PlacesType
<1>4. f \in DOMAIN Default BY DEF Default
<1> HIDE DEF c
<1>5. ConfigOf(a)[f] = [k \in DOMAIN order |-> ValueAt(a, order[k])]
  BY <1>4 DEF ConfigOf
<1>6. ConfigOf(c)[f] = [k \in DOMAIN order |-> ValueAt(c, order[k])]
  BY <1>1, <1>4 DEF ConfigOf
<1> HIDE DEF order
<1> QED BY <1>2, <1>3, <1>5, <1>6 DEF c

-----------------------------------------------------------------------------
(* What stays when flags are taken out of an accepted command line, with     *)
(* their values: the places that stay, in their order.                       *)
Kept(args, flags) ==
  {i \in DOMAIN args : /\ args[i].flag \notin flags
                       /\ args[i].flag = None => args[i - 1].flag \notin flags}

LEMMA StripType ==
  ASSUME NEW args \in Seq(Argument), NEW flags
  PROVE  /\ Kept(args, flags) \in SUBSET Nat
         /\ Kept(args, flags) \in SUBSET DOMAIN args
         /\ IsFiniteSet(Kept(args, flags))
         /\ StripValueFlags(args, flags) \in Seq(Argument)
         /\ Len(StripValueFlags(args, flags)) = Cardinality(Kept(args, flags))
         /\ \A k \in 1 .. Cardinality(Kept(args, flags)) :
              /\ StripValueFlags(args, flags)[k] =
                   args[Ascending(Kept(args, flags))[k]]
              /\ Ascending(Kept(args, flags))[k] \in Kept(args, flags)
<1> DEFINE K == Kept(args, flags)
<1>1. K \in SUBSET DOMAIN args BY DEF Kept
<1>2. StripValueFlags(args, flags) = At(args, K)
  BY DEF StripValueFlags, Kept
<1> HIDE DEF K
<1>3. /\ IsFiniteSet(K) /\ K \in SUBSET Nat
      /\ At(args, K) \in Seq(Argument) /\ Len(At(args, K)) = Cardinality(K)
  BY <1>1, AtType
<1>4. \A k \in 1 .. Cardinality(K) : Ascending(K)[k] \in K
  BY <1>3, AscendingType
<1>5. \A k \in 1 .. Cardinality(K) : At(args, K)[k] = args[Ascending(K)[k]]
  BY DEF At
<1> QED BY <1>1, <1>2, <1>3, <1>4, <1>5 DEF K

(* A flag that stays keeps the value behind it, and a value its flag.        *)
LEMMA StripPairs ==
  ASSUME NEW args \in Seq(Argument), NEW flags \in SUBSET Names,
         Accepted(args), NEW order, order = Ascending(Kept(args, flags)),
         NEW k \in 1 .. Cardinality(Kept(args, flags))
  PROVE  /\ Apart(args[order[k]]) =>
              /\ k + 1 \in 1 .. Cardinality(Kept(args, flags))
              /\ order[k + 1] = order[k] + 1
         /\ args[order[k]].flag = None =>
              /\ k - 1 \in 1 .. Cardinality(Kept(args, flags))
              /\ order[k - 1] = order[k] - 1
              /\ Apart(args[order[k - 1]])
<1> DEFINE K == Kept(args, flags)
           n == Cardinality(K)
           i == order[k]
<1>1. K \in SUBSET Nat /\ IsFiniteSet(K) /\ K \in SUBSET DOMAIN args
  BY StripType
<1>2. DOMAIN args = 1 .. Len(args) /\ Len(args) \in Nat OBVIOUS
<1>3. /\ n \in Nat /\ order \in [1 .. n -> K]
      /\ \A j, l \in 1 .. n : j < l => order[j] < order[l]
      /\ \A x \in K : \E j \in 1 .. n : order[j] = x
  BY <1>1, AscendingType
<1>4. k \in 1 .. n OBVIOUS
<1>5. \A j \in 1 .. n : order[j] + 1 \in K =>
                          j + 1 \in 1 .. n /\ order[j + 1] = order[j] + 1
  BY <1>1, AscendingNext
<1> HIDE DEF n
<1>6. i \in K /\ i \in DOMAIN args /\ i \in Nat BY <1>1, <1>3, <1>4
<1>7. None \notin flags BY NoneAssumption
<1>8. ASSUME Apart(args[i])
      PROVE  k + 1 \in 1 .. n /\ order[k + 1] = order[k] + 1
  <2>1. i + 1 \in DOMAIN args /\ args[i + 1].flag = None
    BY <1>6, <1>8, ValuePlace DEF Apart
  <2>2. (i + 1) - 1 = i BY <1>6
  <2>3. args[i].flag \notin flags BY <1>6 DEF Kept
  <2>4. i + 1 \in K BY <1>7, <2>1, <2>2, <2>3 DEF Kept
  <2> QED BY <1>4, <1>5, <2>4
<1>9. ASSUME args[i].flag = None
      PROVE  /\ k - 1 \in 1 .. n /\ order[k - 1] = order[k] - 1
             /\ Apart(args[order[k - 1]])
  <2>1. i > 1 /\ Apart(args[i - 1])
    <3>1. None \notin DOMAIN Switches \cup Help /\ None \notin Compactable
      BY NoneAssumption, SetsOne DEF Names, Compactable
    <3>2. \/ args[i].flag \in DOMAIN Switches \cup Help
          \/ args[i].flag \in Compactable
          \/ Apart(args[i])
          \/ i > 1 /\ Apart(args[i - 1])
      BY <1>6 DEF Accepted
    <3>3. ~Apart(args[i]) BY <1>9, SetsOne DEF Apart
    <3> QED BY <1>9, <3>1, <3>2, <3>3
  <2>2. i - 1 \in DOMAIN args BY <1>2, <1>6, <2>1
  <2>3. args[i - 1].flag \notin flags BY <1>6, <1>9 DEF Kept
  <2>4. args[i - 1].flag # None BY <2>1, SetsOne DEF Apart
  <2>5. i - 1 \in K BY <2>2, <2>3, <2>4 DEF Kept
  <2>6. PICK j \in 1 .. n : order[j] = i - 1 BY <1>3, <2>5
  <2>7. order[j] + 1 = i BY <1>6, <2>6
  <2>8. j + 1 \in 1 .. n /\ order[j + 1] = i BY <1>5, <1>6, <2>7
  <2>9. j + 1 = k
    <3>1. order[j + 1] = order[k] BY <2>8
    <3>2. ~(j + 1 < k)
      <4> SUFFICES ASSUME j + 1 < k PROVE FALSE
        OBVIOUS
      <4>1. order[j + 1] < order[k] BY <1>3, <1>4, <2>8
      <4> QED BY <1>6, <3>1, <4>1
    <3>3. ~(k < j + 1)
      <4> SUFFICES ASSUME k < j + 1 PROVE FALSE
        OBVIOUS
      <4>1. order[k] < order[j + 1] BY <1>3, <1>4, <2>8
      <4> QED BY <1>6, <3>1, <4>1
    <3> QED BY <1>3, <1>4, <2>8, <3>2, <3>3
  <2>10. k - 1 = j BY <1>3, <1>4, <2>9
  <2> QED BY <2>1, <2>6, <2>10
<1> QED BY <1>8, <1>9 DEF n

(* So what stays is accepted.                                                *)
LEMMA StripAccepted ==
  ASSUME NEW args \in Seq(Argument), NEW flags \in SUBSET Names,
         Accepted(args)
  PROVE  Accepted(StripValueFlags(args, flags))
<1> DEFINE s == StripValueFlags(args, flags)
           order == Ascending(Kept(args, flags))
           n == Cardinality(Kept(args, flags))
<1>1. /\ s \in Seq(Argument) /\ Len(s) = n /\ n \in Nat
      /\ \A k \in 1 .. n : /\ s[k] = args[order[k]]
                           /\ order[k] \in Kept(args, flags)
      /\ Kept(args, flags) \in SUBSET DOMAIN args
      /\ Kept(args, flags) \in SUBSET Nat
  BY StripType, AscendingType
<1>2. DOMAIN s = 1 .. n
  <2>1. DOMAIN s = 1 .. Len(s) BY <1>1
  <2> QED BY <1>1, <2>1
<1>3. \A k \in 1 .. n :
        /\ Apart(args[order[k]]) =>
             k + 1 \in 1 .. n /\ order[k + 1] = order[k] + 1
        /\ args[order[k]].flag = None =>
             k - 1 \in 1 .. n /\ Apart(args[order[k - 1]])
  BY StripPairs
<1> HIDE DEF s, order, n
<1> SUFFICES ASSUME NEW k \in DOMAIN s
    PROVE  \/ s[k].flag \in DOMAIN Switches \cup Help /\ s[k].value = None
           \/ s[k].flag \in Compactable /\ Fits(s[k].flag, s[k].value)
           \/ /\ Apart(s[k]) /\ k < Len(s)
              /\ s[k + 1].flag = None /\ Fits(s[k].flag, s[k + 1].value)
           \/ s[k].flag = None /\ k > 1 /\ Apart(s[k - 1])
  BY DEF Accepted, s
<1> DEFINE i == order[k]
<1>4. s[k] = args[i] /\ i \in DOMAIN args /\ k \in 1 .. n BY <1>1, <1>2
<1>5. CASE args[i].flag \in DOMAIN Switches \cup Help /\ args[i].value = None
  BY <1>4, <1>5
<1>6. CASE args[i].flag \in Compactable /\ Fits(args[i].flag, args[i].value)
  BY <1>4, <1>6
<1>7. CASE /\ Apart(args[i]) /\ i < Len(args)
           /\ args[i + 1].flag = None /\ Fits(args[i].flag, args[i + 1].value)
  <2>1. k + 1 \in 1 .. n /\ order[k + 1] = i + 1 BY <1>3, <1>4, <1>7
  <2>2. s[k + 1] = args[i + 1] BY <1>1, <2>1
  <2>3. k < Len(s) BY <1>1, <1>4, <2>1
  <2> QED BY <1>4, <1>7, <2>2, <2>3
<1>8. CASE args[i].flag = None /\ i > 1 /\ Apart(args[i - 1])
  <2>1. k - 1 \in 1 .. n /\ Apart(args[order[k - 1]]) BY <1>3, <1>4, <1>8
  <2>2. Apart(s[k - 1]) BY <1>1, <2>1
  <2>3. k > 1 BY <1>4, <2>1
  <2> QED BY <1>4, <1>8, <2>2, <2>3
<1> QED BY <1>4, <1>5, <1>6, <1>7, <1>8 DEF Accepted

(* The values stay, and the places of a field no removed flag sets.          *)
LEMMA StripValues ==
  ASSUME NEW args \in Seq(Argument), NEW flags \in SUBSET Names,
         Accepted(args), NEW f, \A flag \in flags : ~Sets(flag, f),
         NEW order, order = Ascending(Kept(args, flags)),
         NEW n, n = Cardinality(Kept(args, flags))
  PROVE  /\ Places(StripValueFlags(args, flags), f) \in SUBSET (1 .. n)
         /\ \A k \in Places(StripValueFlags(args, flags), f) :
              /\ order[k] \in Places(args, f)
              /\ ValueAt(StripValueFlags(args, flags), k)
                   = ValueAt(args, order[k])
         /\ \A i \in Places(args, f) :
              \E k \in Places(StripValueFlags(args, flags), f) : order[k] = i
<1> DEFINE s == StripValueFlags(args, flags)
           K == Kept(args, flags)
<1>1. /\ s \in Seq(Argument) /\ Len(s) = n /\ n \in Nat
      /\ \A k \in 1 .. n : s[k] = args[order[k]] /\ order[k] \in K
      /\ K \in SUBSET DOMAIN args
      /\ \A x \in K : \E i \in 1 .. n : order[i] = x
  <2>1. /\ s \in Seq(Argument) /\ Len(s) = n
        /\ \A k \in 1 .. n : s[k] = args[order[k]] /\ order[k] \in K
        /\ K \in SUBSET DOMAIN args /\ K \in SUBSET Nat /\ IsFiniteSet(K)
    BY StripType
  <2> HIDE DEF K, s
  <2>2. n \in Nat /\ \A x \in K : \E i \in 1 .. n : order[i] = x
    BY <2>1, AscendingType DEF K
  <2> QED BY <2>1, <2>2
<1>2. DOMAIN s = 1 .. n
  <2>1. DOMAIN s = 1 .. Len(s) BY <1>1
  <2> QED BY <1>1, <2>1
<1>3. \A k \in 1 .. n :
        Apart(args[order[k]]) =>
          k + 1 \in 1 .. n /\ order[k + 1] = order[k] + 1
  BY StripPairs
<1>4. Places(args, f) \subseteq K
  <2> SUFFICES ASSUME NEW i \in Places(args, f) PROVE i \in K
    OBVIOUS
  <2>1. i \in DOMAIN args /\ Sets(args[i].flag, f) BY DEF Places
  <2>2. args[i].flag \notin flags BY <2>1
  <2>3. args[i].flag # None BY <2>1, SetsOne
  <2> QED BY <2>1, <2>2, <2>3 DEF Kept
<1>5. Places(args, f) \subseteq DOMAIN args BY DEF Places
<1>6. Places(s, f) \in SUBSET (1 .. n) BY <1>2 DEF Places
<1> HIDE DEF s, K
<1>7. ASSUME NEW k \in Places(s, f)
      PROVE  order[k] \in Places(args, f) /\ ValueAt(s, k) = ValueAt(args, order[k])
  <2>1. k \in 1 .. n /\ s[k] = args[order[k]] /\ order[k] \in DOMAIN args
    BY <1>1, <1>6
  <2>2. Sets(s[k].flag, f) BY DEF Places
  <2>3. order[k] \in Places(args, f) BY <2>1, <2>2 DEF Places
  <2>4. CASE Apart(args[order[k]])
    <3>1. k + 1 \in 1 .. n /\ order[k + 1] = order[k] + 1
      BY <1>3, <2>1, <2>4
    <3>2. s[k + 1] = args[order[k] + 1] BY <1>1, <3>1
    <3> QED BY <2>1, <2>3, <3>2 DEF ValueAt
  <2>5. CASE ~Apart(args[order[k]]) BY <2>1, <2>3, <2>5 DEF ValueAt
  <2> QED BY <2>3, <2>4, <2>5
<1>8. ASSUME NEW i \in Places(args, f)
      PROVE  \E k \in Places(s, f) : order[k] = i
  <2>1. PICK k \in 1 .. n : order[k] = i BY <1>1, <1>4
  <2>2. s[k] = args[i] /\ k \in DOMAIN s BY <1>1, <1>2, <2>1
  <2>3. Sets(args[i].flag, f) BY DEF Places
  <2>4. k \in Places(s, f) BY <2>2, <2>3 DEF Places
  <2> QED BY <2>1, <2>4
<1> QED BY <1>6, <1>7, <1>8 DEF s

(* Taking flags out changes nothing that they do not set.                    *)
LEMMA StripConfig ==
  ASSUME NEW args \in Seq(Argument), NEW flags \in SUBSET Names,
         Accepted(args), NEW f \in DOMAIN Default,
         \A flag \in flags : ~Sets(flag, f)
  PROVE  ConfigOf(StripValueFlags(args, flags))[f] = ConfigOf(args)[f]
<1> DEFINE s == StripValueFlags(args, flags)
           order == Ascending(Kept(args, flags))
           n == Cardinality(Kept(args, flags))
           P == Places(s, f)
           Q == Places(args, f)
<1>1. /\ P \in SUBSET (1 .. n)
      /\ \A k \in P : order[k] \in Q /\ ValueAt(s, k) = ValueAt(args, order[k])
      /\ \A i \in Q : \E k \in P : order[k] = i
  BY StripValues
<1>2. /\ s \in Seq(Argument) /\ n \in Nat
      /\ order \in [1 .. n -> Kept(args, flags)]
      /\ Kept(args, flags) \in SUBSET Nat
      /\ \A i, j \in 1 .. n : i < j => order[i] < order[j]
  BY StripType, AscendingType
<1>3. \A i \in 1 .. n : order[i] \in Nat BY <1>2
<1>4. /\ P \in SUBSET Nat /\ IsFiniteSet(P)
      /\ Q \in SUBSET Nat /\ IsFiniteSet(Q)
  BY <1>2, PlacesType
<1> HIDE DEF s, order, n
<1>5. CASE f # "blacklists"
  <2>1. CASE Q = {}
    <3>1. P = {} BY <1>1, <2>1
    <3> QED BY <1>2, <1>5, <2>1, <3>1, ConfigValue DEF s
  <2>2. CASE Q # {}
    <3>1. PICK i \in Q : \A j \in Q : j <= i
      BY <1>4, <2>2, AscendingLast
    <3>2. PICK k \in P : order[k] = i BY <1>1
    <3>3. ASSUME NEW j \in P PROVE j <= k
      <4>1. j \in 1 .. n /\ k \in 1 .. n BY <1>1
      <4>2. order[j] <= order[k] BY <1>1, <3>1, <3>2
      <4>3. ~(k < j)
        <5> SUFFICES ASSUME k < j PROVE FALSE
          OBVIOUS
        <5>1. order[k] < order[j] BY <1>2, <4>1
        <5>2. order[k] \in Nat /\ order[j] \in Nat BY <1>3, <4>1
        <5> QED BY <4>2, <5>1, <5>2
      <4> QED BY <4>1, <4>3
    <3>4. ConfigOf(args)[f] = ValueAt(args, i) BY <1>5, <3>1, ConfigValue
    <3>5. ConfigOf(s)[f] = ValueAt(s, k) BY <1>2, <1>5, <3>3, ConfigValue
    <3> QED BY <1>1, <3>2, <3>4, <3>5 DEF s
  <2> QED BY <2>1, <2>2
<1>6. CASE f = "blacklists"
  <2> DEFINE m == Cardinality(P)
             p == Ascending(P)
             q == [k \in 1 .. m |-> order[p[k]]]
  <2>1. /\ m \in Nat /\ p \in [1 .. m -> P]
        /\ \A i, j \in 1 .. m : i < j => p[i] < p[j]
        /\ \A x \in P : \E i \in 1 .. m : p[i] = x
    BY <1>4, AscendingType
  <2> HIDE DEF m, p, P, Q
  <2>2. q \in [1 .. m -> Q] BY <1>1, <2>1
  <2>3. ASSUME NEW i \in 1 .. m, NEW j \in 1 .. m, i < j PROVE q[i] < q[j]
    <3>1. p[i] < p[j] /\ p[i] \in 1 .. n /\ p[j] \in 1 .. n
      BY <1>1, <2>1, <2>3
    <3> QED BY <1>2, <3>1
  <2>4. ASSUME NEW x \in Q PROVE \E i \in 1 .. m : q[i] = x
    <3>1. PICK k \in P : order[k] = x BY <1>1
    <3>2. PICK i \in 1 .. m : p[i] = k BY <2>1
    <3> QED BY <3>1, <3>2
  <2>5. \A i \in 1 .. m : q[i] = order[p[i]] OBVIOUS
  <2>6. DOMAIN q = 1 .. m /\ DOMAIN p = 1 .. m BY <2>1
  <2> HIDE DEF q
  <2>7. Ascending(Q) = q BY <1>4, <2>1, <2>2, <2>3, <2>4, AscendingUnique
  <2>8. ConfigOf(args)[f] = [k \in DOMAIN q |-> ValueAt(args, q[k])]
    BY <1>6, <2>7 DEF ConfigOf, Q
  <2>9. ConfigOf(s)[f] = [k \in DOMAIN p |-> ValueAt(s, p[k])]
    BY <1>6 DEF ConfigOf, P, p
  <2>10. \A k \in 1 .. m : ValueAt(s, p[k]) = ValueAt(args, q[k])
    BY <1>1, <2>1, <2>5
  <2> QED BY <2>6, <2>8, <2>9, <2>10 DEF s
<1> QED BY <1>5, <1>6

-----------------------------------------------------------------------------
(* A value is of the kind its flag takes.                                    *)
LEMMA ValueType ==
  ASSUME NEW args \in Seq(Argument), Accepted(args), NEW i \in DOMAIN args,
         args[i].flag \in DOMAIN Valued
  PROVE  /\ Valued[args[i].flag].kind = "hex" => ValueAt(args, i) \in Hexed
         /\ Valued[args[i].flag].kind = "number" => ValueAt(args, i) \in Nat
<1>1. ASSUME NEW v \in Values \cup {None}, Fits(args[i].flag, v)
      PROVE  /\ Valued[args[i].flag].kind = "hex" => v.of \in Hexed
             /\ Valued[args[i].flag].kind = "number" => v.of \in Nat
  <2>1. v \in Values /\ v.kind = Valued[args[i].flag].kind BY <1>1 DEF Fits
  <2> HIDE DEF Hexed
  <2> QED BY <2>1 DEF Values
<1>2. args[i].flag \notin DOMAIN Switches BY FlagFacts
<1>3. \A j \in DOMAIN args : args[j].value \in Values \cup {None}
  <2>1. \A j \in DOMAIN args : args[j] \in Argument OBVIOUS
  <2> QED BY <2>1 DEF Argument
<1>4. CASE args[i].value = None
  <2>1. i + 1 \in DOMAIN args /\ Fits(args[i].flag, args[i + 1].value)
    BY <1>4, ValuePlace
  <2>2. ValueAt(args, i) = args[i + 1].value.of
    BY <1>2, <1>4 DEF ValueAt, Apart
  <2> QED BY <1>1, <1>3, <2>1, <2>2
<1>5. CASE args[i].value # None
  <2>1. Fits(args[i].flag, args[i].value) BY <1>5, ValuePlace
  <2>2. ValueAt(args, i) = args[i].value.of BY <1>2, <1>5 DEF ValueAt, Apart
  <2> QED BY <1>1, <1>3, <2>1, <2>2
<1> QED BY <1>4, <1>5

(* What the supervisor computes with is of its type.                         *)
LEMMA ConfigTypes ==
  ASSUME NEW args \in Seq(Argument), Accepted(args)
  PROVE  /\ DOMAIN ConfigOf(args) = DOMAIN Default
         /\ ConfigOf(args).start \in Hexed \cup {None}
         /\ ConfigOf(args).end \in Hexed \cup {None}
         /\ ConfigOf(args).wanted \in Nat /\ ConfigOf(args).rangeBytes \in Nat
         /\ ConfigOf(args).jobs \in Nat
<1>1. ASSUME NEW f \in DOMAIN Default, f # "blacklists", Places(args, f) # {}
      PROVE  \E i \in Places(args, f) : ConfigOf(args)[f] = ValueAt(args, i)
  <2>1. PICK i \in Places(args, f) : \A j \in Places(args, f) : j <= i
    BY <1>1, PlacesType, AscendingLast
  <2> QED BY <1>1, <2>1, ConfigValue
<1>2. \A f, flag :
        /\ f \in DOMAIN Default /\ f # "blacklists"
        /\ flag \in DOMAIN Valued /\ \A x : Sets(x, f) <=> x = flag
        => /\ Valued[flag].kind = "hex" =>
                ConfigOf(args)[f] \in Hexed \cup {Default[f]}
           /\ Valued[flag].kind = "number" =>
                ConfigOf(args)[f] \in Nat \cup {Default[f]}
  <2> SUFFICES ASSUME NEW f \in DOMAIN Default, f # "blacklists",
                      NEW flag \in DOMAIN Valued,
                      \A x : Sets(x, f) <=> x = flag
               PROVE  /\ Valued[flag].kind = "hex" =>
                           ConfigOf(args)[f] \in Hexed \cup {Default[f]}
                      /\ Valued[flag].kind = "number" =>
                           ConfigOf(args)[f] \in Nat \cup {Default[f]}
    OBVIOUS
  <2>1. CASE Places(args, f) = {} BY <2>1, ConfigValue
  <2>2. CASE Places(args, f) # {}
    <3>1. PICK i \in Places(args, f) : ConfigOf(args)[f] = ValueAt(args, i)
      BY <1>1, <2>2
    <3>2. i \in DOMAIN args /\ args[i].flag = flag BY DEF Places
    <3> QED BY <3>1, <3>2, ValueType
  <2> QED BY <2>1, <2>2
<1>3. {"start", "end", "wanted", "rangeBytes", "jobs"} \subseteq DOMAIN Default
  BY DEF Default
<1>4. /\ Default.start = None /\ Default.end = None /\ Default.wanted \in Nat
      /\ Default.rangeBytes \in Nat /\ Default.jobs \in Nat
  BY DEF Default
<1>5. {"-i", "-e", "-j", "-B", "-l"} \subseteq DOMAIN Valued
  BY FlagFacts, KindFacts DEF Compactable
<1>6. DOMAIN ConfigOf(args) = DOMAIN Default BY DEF ConfigOf
<1>7. ConfigOf(args)["start"] \in Hexed \cup {None}
  BY <1>2, <1>3, <1>4, <1>5, FlagFacts
<1>8. ConfigOf(args)["end"] \in Hexed \cup {None}
  BY <1>2, <1>3, <1>4, <1>5, FlagFacts
<1>9. ConfigOf(args)["jobs"] \in Nat BY <1>2, <1>3, <1>4, <1>5, FlagFacts
<1>10. ConfigOf(args)["wanted"] \in Nat BY <1>2, <1>3, <1>4, <1>5, KindFacts
<1>11. ConfigOf(args)["rangeBytes"] \in Nat BY <1>2, <1>3, <1>4, <1>5, KindFacts
<1> QED BY <1>6, <1>7, <1>8, <1>9, <1>10, <1>11

-----------------------------------------------------------------------------
(* Hex digits, printed and read again, are the bytes they were.              *)
LEMMA ParsedType ==
  ASSUME NEW x \in Instruction
  PROVE  Parsed(x) \in Hexed /\ (x \in Hexed => Parsed(x) = x)
<1>1. x.bytes \in Raw /\ x.len \in Nat /\ x.len \in 0 .. Width
  BY WidthAssumption DEF Instruction
<1>2. /\ ZeroFrom(x.bytes, x.len) \in Raw
      /\ ZeroTail(ZeroFrom(x.bytes, x.len), x.len)
  BY <1>1, ZeroType
<1>3. Parsed(x) \in Hexed BY <1>1, <1>2 DEF Parsed, Hexed, Instruction
<1>4. ASSUME x \in Hexed PROVE Parsed(x) = x
  <2>1. ZeroTail(x.bytes, x.len) BY <1>4 DEF Hexed
  <2>2. ASSUME NEW i \in Positions
        PROVE  ZeroFrom(x.bytes, x.len)[i] = x.bytes[i]
    <3>1. CASE i < x.len BY <3>1 DEF ZeroFrom
    <3>2. CASE ~(i < x.len)
      <4>1. i >= x.len BY <1>1, <3>2, PositionType
      <4>2. x.bytes[i] = 0 BY <2>1, <4>1 DEF ZeroTail
      <4>3. ZeroFrom(x.bytes, x.len)[i] = 0 BY <3>2 DEF ZeroFrom
      <4> QED BY <4>2, <4>3
    <3> QED BY <3>1, <3>2
  <2>3. ZeroFrom(x.bytes, x.len) = x.bytes BY <1>1, <1>2, <2>2 DEF Raw
  <2> QED BY <2>3 DEF Parsed, Instruction
<1> QED BY <1>3, <1>4

(* What the supervisor appends for a worker.                                 *)
Tailored(r) ==
  <<Flag("--worker"), Flag("-j"), Value("number", 1),
    Flag("-i"), Value("hex", Parsed(r.start)),
    Flag("-e"), Value("hex", Parsed(r.end))>>

LEMMA TailoredConfig ==
  ASSUME NEW r, r.start \in Instruction, r.end \in Instruction
  PROVE  /\ Tailored(r) \in Seq(Argument) /\ Accepted(Tailored(r))
         /\ \A f \in DOMAIN Default \ {"start", "end", "jobs", "worker"} :
              Places(Tailored(r), f) = {}
         /\ \A f \in {"start", "end", "jobs", "worker"} :
              Places(Tailored(r), f) # {}
         /\ ConfigOf(Tailored(r)).worker = TRUE
         /\ ConfigOf(Tailored(r)).jobs = 1
         /\ ConfigOf(Tailored(r)).start = Parsed(r.start)
         /\ ConfigOf(Tailored(r)).end = Parsed(r.end)
<1> DEFINE t == Tailored(r)
           s == Parsed(r.start)
           e == Parsed(r.end)
<1>1. s \in Hexed /\ e \in Hexed BY ParsedType
<1> HIDE DEF s, e
<1>2. /\ Len(t) = 7 /\ DOMAIN t = 1 .. 7
      /\ t[1] = [flag |-> "--worker", value |-> None]
      /\ t[2] = [flag |-> "-j", value |-> None]
      /\ t[3] = [flag |-> None, value |-> [kind |-> "number", of |-> 1]]
      /\ t[4] = [flag |-> "-i", value |-> None]
      /\ t[5] = [flag |-> None, value |-> [kind |-> "hex", of |-> s]]
      /\ t[6] = [flag |-> "-e", value |-> None]
      /\ t[7] = [flag |-> None, value |-> [kind |-> "hex", of |-> e]]
  BY DEF Tailored, Flag, Value, s, e
<1>3. /\ {"--worker", "-j", "-i", "-e"} \subseteq Names
      /\ {"-j", "-i", "-e"} \subseteq DOMAIN Valued
      /\ "--worker" \in DOMAIN Switches
  BY FlagFacts DEF Names, Compactable
<1>4. /\ [kind |-> "number", of |-> 1] \in Values
      /\ [kind |-> "hex", of |-> s] \in Values
      /\ [kind |-> "hex", of |-> e] \in Values
  <2> HIDE DEF Hexed
  <2> QED BY <1>1 DEF Values
<1>5. t \in Seq(Argument)
  <2>1. \A i \in 1 .. 7 : t[i] \in Argument
    <3>1. /\ t[1] \in Argument /\ t[2] \in Argument /\ t[3] \in Argument
          /\ t[4] \in Argument /\ t[5] \in Argument /\ t[6] \in Argument
          /\ t[7] \in Argument
      BY <1>2, <1>3, <1>4 DEF Argument
    <3> QED BY <3>1
  <2>2. t = [i \in 1 .. 7 |-> t[i]] BY <1>2 DEF Tailored
  <2> HIDE DEF t
  <2> QED BY <2>1, <2>2
<1> HIDE DEF t
<1>6. Accepted(t)
  <2>1. Apart(t[2]) /\ Apart(t[4]) /\ Apart(t[6])
    BY <1>2, <1>3 DEF Apart
  <2>2. /\ Fits("-j", t[3].value) /\ Fits("-i", t[5].value)
        /\ Fits("-e", t[7].value)
    BY <1>2, <1>4, NoneAssumption, FlagFacts DEF Fits
  <2> DEFINE Fine(i) ==
        \/ t[i].flag \in DOMAIN Switches \cup Help /\ t[i].value = None
        \/ t[i].flag \in Compactable /\ Fits(t[i].flag, t[i].value)
        \/ /\ Apart(t[i]) /\ i < Len(t)
           /\ t[i + 1].flag = None /\ Fits(t[i].flag, t[i + 1].value)
        \/ t[i].flag = None /\ i > 1 /\ Apart(t[i - 1])
  <2>3. Fine(1) BY <1>2, <1>3
  <2>4. Fine(2) /\ Fine(4) /\ Fine(6) BY <1>2, <2>1, <2>2
  <2>5. Fine(3) /\ Fine(5) /\ Fine(7) BY <1>2, <2>1
  <2> HIDE DEF Fine
  <2>6. \A i \in 1 .. 7 : Fine(i) BY <2>3, <2>4, <2>5
  <2> QED BY <1>2, <2>6 DEF Accepted, Fine
<1>7. ASSUME NEW f
      PROVE  /\ 1 \in Places(t, f) <=> f = "worker"
             /\ 2 \in Places(t, f) <=> f = "jobs"
             /\ 4 \in Places(t, f) <=> f = "start"
             /\ 6 \in Places(t, f) <=> f = "end"
             /\ Places(t, f) \subseteq {1, 2, 4, 6}
  <2>1. /\ Sets("--worker", f) <=> f = "worker"
        /\ Sets("-j", f) <=> f = "jobs"
        /\ Sets("-i", f) <=> f = "start"
        /\ Sets("-e", f) <=> f = "end"
        /\ ~Sets(None, f)
    BY FlagFacts, SetsOne
  <2> QED BY <1>2, <2>1 DEF Places
<1>8. /\ Places(t, "worker") = {1} /\ Places(t, "jobs") = {2}
      /\ Places(t, "start") = {4} /\ Places(t, "end") = {6}
  BY <1>7
<1>9. \A f : f \notin {"worker", "jobs", "start", "end"} => Places(t, f) = {}
  BY <1>7
<1>10. /\ ValueAt(t, 1) = TRUE /\ ValueAt(t, 2) = 1
       /\ ValueAt(t, 4) = s /\ ValueAt(t, 6) = e
  <2>1. {"-j", "-i", "-e"} \cap DOMAIN Switches = {} BY <1>3, FlagFacts
  <2>2. Apart(t[2]) /\ Apart(t[4]) /\ Apart(t[6])
    BY <1>2, <1>3 DEF Apart
  <2>3. ValueAt(t, 1) = TRUE BY <1>2, <1>3, FlagFacts DEF ValueAt
  <2> QED BY <1>2, <2>1, <2>2, <2>3 DEF ValueAt
<1>11. {"worker", "jobs", "start", "end"} \subseteq DOMAIN Default
  BY DEF Default
<1>12. ASSUME NEW f \in {"worker", "jobs", "start", "end"}, NEW i \in Nat,
              Places(t, f) = {i}
       PROVE  ConfigOf(t)[f] = ValueAt(t, i)
  BY <1>5, <1>11, <1>12, ConfigValue
<1>13. /\ ConfigOf(t)["worker"] = TRUE /\ ConfigOf(t)["jobs"] = 1
       /\ ConfigOf(t)["start"] = s /\ ConfigOf(t)["end"] = e
  BY <1>8, <1>10, <1>12
<1> QED BY <1>5, <1>6, <1>8, <1>9, <1>13 DEF t, s, e

(* A worker reads what the supervisor read, but for its range and its work.  *)
LEMMA WorkerConfig ==
  ASSUME NEW args \in Seq(Argument), Accepted(args),
         NEW r, r.start \in Instruction, r.end \in Instruction
  PROVE  /\ Accepted(WorkerArgs(args, r))
         /\ ConfigOf(WorkerArgs(args, r)) =
              [ConfigOf(args) EXCEPT !.start = Parsed(r.start),
                                     !.end = Parsed(r.end),
                                     !.jobs = 1, !.worker = TRUE]
<1> DEFINE flags == {"-i", "-e", "-j"}
           s == StripValueFlags(args, flags)
           t == Tailored(r)
<1>1. flags \in SUBSET Names BY FlagFacts DEF Compactable, Names
<1>2. s \in Seq(Argument) /\ Accepted(s) BY <1>1, StripType, StripAccepted
<1>3. t \in Seq(Argument) /\ Accepted(t) BY TailoredConfig
<1>4. WorkerArgs(args, r) = s \o t BY DEF WorkerArgs, Tailored
<1>5. ASSUME NEW f \in DOMAIN Default \ {"start", "end", "jobs", "worker"}
      PROVE  ConfigOf(s \o t)[f] = ConfigOf(args)[f]
  <2>1. \A flag \in flags : ~Sets(flag, f) BY FlagFacts, SetsOne
  <2>2. Places(t, f) = {} BY TailoredConfig
  <2> HIDE DEF s, t, flags
  <2>3. ConfigOf(s)[f] = ConfigOf(args)[f] BY <1>1, <2>1, StripConfig DEF s
  <2>4. ConfigOf(s \o t)[f] = ConfigOf(s)[f]
    BY <1>2, <1>3, <2>2, JoinConfig, JoinBlacklists
  <2> QED BY <2>3, <2>4
<1>6. ASSUME NEW f \in {"start", "end", "jobs", "worker"}
      PROVE  ConfigOf(s \o t)[f] = ConfigOf(t)[f]
  <2>1. f \in DOMAIN Default /\ f # "blacklists" BY DEF Default
  <2>2. Places(t, f) # {} BY TailoredConfig
  <2> HIDE DEF s, t
  <2> QED BY <1>2, <1>3, <2>1, <2>2, JoinConfig
<1>7. /\ ConfigOf(t)["worker"] = TRUE /\ ConfigOf(t)["jobs"] = 1
      /\ ConfigOf(t)["start"] = Parsed(r.start)
      /\ ConfigOf(t)["end"] = Parsed(r.end)
  BY TailoredConfig
<1>8. Accepted(s \o t)
  <2> HIDE DEF s, t
  <2> QED BY <1>2, <1>3, JoinAccepted
<1>9. /\ ConfigOf(s \o t) = [f \in DOMAIN Default |-> ConfigOf(s \o t)[f]]
      /\ ConfigOf(args) = [f \in DOMAIN Default |-> ConfigOf(args)[f]]
  BY DEF ConfigOf
<1>10. {"start", "end", "jobs", "worker"} \subseteq DOMAIN Default
  BY DEF Default
<1> DEFINE want == [ConfigOf(args) EXCEPT !.start = Parsed(r.start),
                                          !.end = Parsed(r.end),
                                          !.jobs = 1, !.worker = TRUE]
           got == ConfigOf(s \o t)
           old == ConfigOf(args)
           D == DOMAIN Default
<1> HIDE DEF s, t, flags, D
<1>11. got = want
  <2> HIDE DEF got, old
  <2>1. DOMAIN got = D /\ got = [f \in D |-> got[f]] BY <1>9 DEF got, D
  <2>2. DOMAIN old = D /\ old = [f \in D |-> old[f]] BY <1>9 DEF old, D
  <2>3. DOMAIN want = D /\ want = [f \in D |-> want[f]] BY <2>2 DEF old
  <2>4. ASSUME NEW f \in D PROVE got[f] = want[f]
    <3>1. CASE f \notin {"start", "end", "jobs", "worker"}
      <4>1. got[f] = old[f] BY <1>5, <2>4, <3>1 DEF got, old, D
      <4>2. want[f] = old[f] BY <2>2, <2>4, <3>1 DEF old
      <4> QED BY <4>1, <4>2
    <3>2. CASE f \in {"start", "end", "jobs", "worker"}
      <4>1. got[f] = ConfigOf(t)[f] BY <1>6, <3>2 DEF got
      <4>2. /\ want["worker"] = TRUE /\ want["jobs"] = 1
            /\ want["start"] = Parsed(r.start)
            /\ want["end"] = Parsed(r.end)
        BY <1>10, <2>2 DEF old, D
      <4> QED BY <1>7, <3>2, <4>1, <4>2
    <3> QED BY <3>1, <3>2
  <2> HIDE DEF want
  <2> QED BY <2>1, <2>3, <2>4
<1> QED BY <1>4, <1>8, <1>11 DEF got
=============================================================================
