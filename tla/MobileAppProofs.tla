--------------------------- MODULE MobileAppProofs ---------------------------
(* The iOS app over the scan interface keeps every line and archives what it *)
(* logged, for every capacity, bound and choice of finding lines.  The bytes *)
(* OrderLemmas is also about (Base, Width) play no part.                     *)
EXTENDS MobileApp, OrderLemmas

(* A run of consecutive line numbers, after the first n.                     *)
Follows(lines, n) == \A i \in DOMAIN lines : lines[i] = n + i

ScanTypes == /\ open \in BOOLEAN /\ ended \in BOOLEAN
             /\ sent \in Nat /\ buffer \in Seq(Nat)

(* The lines of the open scan are, in order, those counted, those drained    *)
(* and not yet counted, and those still queued; a drain that outlived its    *)
(* scan holds none.                                                          *)
LinesInv ==
  /\ open => /\ executedCount + Len(newLines) + Len(buffer) = sent
             /\ Follows(newLines, executedCount)
             /\ Follows(buffer, executedCount + Len(newLines))
  /\ ~open => newLines = <<>>
  /\ pc \in {"idle", "stopping"} => newLines = <<>>

(* The files are open exactly while the app shows a running scan, and then   *)
(* the log has every line counted.                                           *)
FileInv ==
  /\ file = isRunning
  /\ isRunning => /\ open
                  /\ timer \/ pc = "stopping"
                  /\ Len(log) = executedCount
  /\ log = FirstLines(Len(log)) /\ Len(log) <= executedCount

FindingsInv ==
  /\ noted = FindingsIn(log)
  /\ findings = FindingsIn(FirstLines(executedCount))

ZipInv ==
  /\ ~isRunning => zip.log = log /\ zip.findings = noted
  /\ zip.total >= Len(zip.findings)

AppInv == /\ TypeOK /\ ScanTypes /\ LinesInv /\ FileInv /\ FindingsInv
          /\ ZipInv
-----------------------------------------------------------------------------
LEMMA FirstLinesType ==
  ASSUME NEW n \in Nat
  PROVE  /\ FirstLines(n) \in Seq(Nat) /\ Len(FirstLines(n)) = n
         /\ \A i \in 1 .. n : FirstLines(n)[i] = i
<1>1. FirstLines(n) \in [1 .. n -> Nat] BY DEF FirstLines
<1>2. FirstLines(n) \in Seq(Nat) BY <1>1
<1>3. Len(FirstLines(n)) = n BY <1>1
<1> QED BY <1>2, <1>3 DEF FirstLines

(* The first n lines and those that follow them are first lines again.       *)
LEMMA FirstLinesConcat ==
  ASSUME NEW n \in Nat, NEW lines \in Seq(Nat), Follows(lines, n)
  PROVE  FirstLines(n) \o lines = FirstLines(n + Len(lines))
<1> DEFINE all == FirstLines(n)
           more == FirstLines(n + Len(lines))
<1>1. /\ all \in Seq(Nat) /\ Len(all) = n
      /\ \A i \in 1 .. n : all[i] = i
  BY FirstLinesType
<1>2. Len(lines) \in Nat /\ n + Len(lines) \in Nat OBVIOUS
<1>3. /\ more \in Seq(Nat) /\ Len(more) = n + Len(lines)
      /\ \A i \in 1 .. n + Len(lines) : more[i] = i
  BY <1>2, FirstLinesType
<1> HIDE DEF all, more
<1>4. /\ all \o lines \in Seq(Nat) /\ Len(all \o lines) = n + Len(lines)
      /\ \A i \in 1 .. n : (all \o lines)[i] = all[i]
      /\ \A i \in 1 .. Len(lines) : (all \o lines)[n + i] = lines[i]
  <2>1. all \o lines \in Seq(Nat) BY <1>1
  <2>2. Len(all \o lines) = n + Len(lines) BY <1>1
  <2>3. \A i \in 1 .. n : (all \o lines)[i] = all[i] BY <1>1
  <2>4. \A i \in 1 .. Len(lines) : (all \o lines)[n + i] = lines[i]
    BY <1>1
  <2> QED BY <2>1, <2>2, <2>3, <2>4
<1>5. ASSUME NEW i \in 1 .. n + Len(lines)
      PROVE  (all \o lines)[i] = i
  <2>1. CASE i <= n BY <1>1, <1>2, <1>4, <2>1
  <2>2. CASE ~(i <= n)
    <3>1. i - n \in 1 .. Len(lines) /\ i = n + (i - n) BY <1>2, <2>2
    <3>2. lines[i - n] = n + (i - n) BY <3>1 DEF Follows
    <3> QED BY <1>4, <3>1, <3>2
  <2> QED BY <2>1, <2>2
<1>6. \A i \in 1 .. n + Len(lines) : (all \o lines)[i] = more[i]
  BY <1>3, <1>5
<1>7. all \o lines = more
  <2>1. Len(all \o lines) = Len(more) BY <1>3, <1>4
  <2>2. \A i \in 1 .. Len(more) : (all \o lines)[i] = more[i]
    BY <1>3, <1>6
  <2> QED BY <1>3, <1>4, <2>1, <2>2, SameElements
<1> QED BY <1>7 DEF all, more

LEMMA FindingsType ==
  ASSUME NEW lines \in Seq(Nat)
  PROVE  FindingsIn(lines) \in Seq(Nat)
BY AtType DEF FindingsIn

(* What parseFinding finds in two batches is what it finds in the first and  *)
(* then in the second.                                                       *)
LEMMA FindingsConcat ==
  ASSUME NEW a \in Seq(Nat), NEW b \in Seq(Nat)
  PROVE  FindingsIn(a \o b) = FindingsIn(a) \o FindingsIn(b)
<1> DEFINE A == {i \in DOMAIN a : a[i] \in FindingLines}
           B == {i \in DOMAIN b : b[i] \in FindingLines}
           C == {i \in DOMAIN (a \o b) : (a \o b)[i] \in FindingLines}
<1>1. /\ A \in SUBSET (1 .. Len(a)) /\ B \in SUBSET (1 .. Len(b))
      /\ C \in SUBSET (1 .. Len(a) + Len(b))
  OBVIOUS
<1>2. \A i \in 1 .. Len(a) : i \in C <=> i \in A
  <2>1. \A i \in 1 .. Len(a) : /\ i \in DOMAIN a /\ i \in DOMAIN (a \o b)
                               /\ (a \o b)[i] = a[i]
    OBVIOUS
  <2> QED BY <2>1
<1>3. \A i \in 1 .. Len(b) : Len(a) + i \in C <=> i \in B
  <2>1. \A i \in 1 .. Len(b) : /\ i \in DOMAIN b
                               /\ Len(a) + i \in DOMAIN (a \o b)
                               /\ (a \o b)[Len(a) + i] = b[i]
    OBVIOUS
  <2> QED BY <2>1
<1> HIDE DEF A, B, C
<1>4. At(a \o b, C) = At(a, A) \o At(b, B)
  <2>1. Halves(C, A, B, Len(a), Len(b)) BY <1>1, <1>2, <1>3 DEF Halves
  <2> QED BY <2>1, AtConcat
<1> QED BY <1>4 DEF FindingsIn, A, B, C

LEMMA FindingsGrow ==
  ASSUME NEW m \in Nat, NEW n \in Nat, m <= n
  PROVE  Len(FindingsIn(FirstLines(m))) <= Len(FindingsIn(FirstLines(n)))
<1> DEFINE lines == [i \in 1 .. n - m |-> m + i]
<1>1. lines \in Seq(Nat) /\ Len(lines) = n - m
  <2>1. n - m \in Nat OBVIOUS
  <2>2. lines \in [1 .. n - m -> Nat] OBVIOUS
  <2>3. lines \in Seq(Nat) BY <2>1, <2>2
  <2> QED BY <2>1, <2>2, <2>3
<1>2. Follows(lines, m) BY <1>1 DEF Follows
<1> HIDE DEF lines
<1>3. FirstLines(m) \o lines = FirstLines(n)
  <2>1. m + Len(lines) = n BY <1>1
  <2> QED BY <1>1, <1>2, <2>1, FirstLinesConcat
<1>4. FindingsIn(FirstLines(n)) = FindingsIn(FirstLines(m)) \o FindingsIn(lines)
  BY <1>1, <1>3, FirstLinesType, FindingsConcat
<1>5. /\ FindingsIn(FirstLines(m)) \in Seq(Nat)
      /\ FindingsIn(lines) \in Seq(Nat)
  BY <1>1, FirstLinesType, FindingsType
<1>6. Len(FindingsIn(FirstLines(n)))
        = Len(FindingsIn(FirstLines(m))) + Len(FindingsIn(lines))
  BY <1>4, <1>5, ConcatType
<1> QED BY <1>5, <1>6

LEMMA NoLines == FirstLines(0) = <<>> /\ FindingsIn(<<>>) = <<>>
<1>1. <<>> \in Seq(Nat) /\ Len(<<>>) = 0 OBVIOUS
<1>2. FirstLines(0) = <<>>
  BY <1>1, FirstLinesType, SameElements
<1>3. {i \in DOMAIN <<>> : <<>>[i] \in FindingLines} = {} OBVIOUS
<1>4. At(<<>>, {}) = <<>>
  <2>1. Cardinality({}) = 0 BY FS_EmptySet
  <2>2. {} \in SUBSET DOMAIN <<>> OBVIOUS
  <2>3. At(<<>>, {}) \in Seq(Nat) /\ Len(At(<<>>, {})) = 0
    BY <1>1, <2>1, <2>2, AtType
  <2> QED BY <1>1, <2>3, SameElements
<1> QED BY <1>2, <1>3, <1>4 DEF FindingsIn

(* The screen keeps the newest lines, and what it keeps and drops is all.    *)
LEMMA ShownType ==
  ASSUME NEW all \in Seq(Nat)
  PROVE  /\ SubSeq(all, Excess(all) + 1, Len(all)) \in Seq(Nat)
         /\ Len(SubSeq(all, Excess(all) + 1, Len(all))) <= MaxDisplay
         /\ Excess(all) \in Nat
         /\ Excess(all) + Len(SubSeq(all, Excess(all) + 1, Len(all)))
              = Len(all)
<1>1. Len(all) \in Nat /\ MaxDisplay \in Nat BY DisplayAssumption
<1>2. Excess(all) \in 0 .. Len(all) /\ Len(all) - Excess(all) <= MaxDisplay
  BY <1>1 DEF Excess
<1>3. Excess(all) + 1 \in 1 .. Len(all) + 1 BY <1>1, <1>2
<1>4. /\ SubSeq(all, Excess(all) + 1, Len(all)) \in Seq(Nat)
      /\ Len(SubSeq(all, Excess(all) + 1, Len(all))) = Len(all) - Excess(all)
  BY <1>1, <1>2, <1>3
<1> DEFINE kept == SubSeq(all, Excess(all) + 1, Len(all))
<1>5. kept \in Seq(Nat) /\ Len(kept) = Len(all) - Excess(all) BY <1>4
<1> HIDE DEF kept
<1>6. /\ Len(kept) <= MaxDisplay /\ Excess(all) \in Nat
      /\ Excess(all) + Len(kept) = Len(all)
  BY <1>1, <1>2, <1>5
<1> QED BY <1>5, <1>6 DEF kept

-----------------------------------------------------------------------------
(* Every start of the app, and every step of it, of its timer and of the     *)
(* scan's worker, keeps AppInv.                                              *)
LEMMA InitInv == Init => AppInv
<1> SUFFICES ASSUME Init PROVE AppInv
  OBVIOUS
<1> USE DEF Init, Channel!Init, Archive
<1>1. /\ <<>> \in Seq(Nat) /\ Len(<<>>) = 0
      /\ MaxTicks \in Nat /\ MaxDisplay \in Nat
  BY AppBounds, DisplayAssumption
<1>2. TypeOK
  <2>1. zip.log = <<>> /\ zip.findings = <<>> /\ zip.total = 0 OBVIOUS
  <2>2. {newLines, log, noted, findings, zip.log, zip.findings, shown}
          \subseteq Seq(Nat)
    BY <1>1, <2>1
  <2>3. /\ isRunning \in BOOLEAN /\ timer \in BOOLEAN /\ file \in BOOLEAN
        /\ pc \in {"idle", "drain", "write", "stopping"}
        /\ status \in {"Ready", "Running", "Done", "Stopped",
                       "Failed to start"}
    OBVIOUS
  <2>4. /\ ticks \in 0 .. MaxTicks /\ Len(shown) <= MaxDisplay
        /\ dropped \in Nat /\ executedCount = dropped + Len(shown)
    BY <1>1
  <2> QED BY <2>1, <2>2, <2>3, <2>4 DEF TypeOK
<1>3. ScanTypes BY <1>1 DEF ScanTypes
<1>4. LinesInv BY <1>1 DEF LinesInv
<1>5. FirstLines(0) = <<>> /\ FindingsIn(<<>>) = <<>> BY NoLines
<1>6. FileInv
  <2>1. ~isRunning /\ file = isRunning OBVIOUS
  <2>2. log = FirstLines(Len(log)) /\ Len(log) <= executedCount
    BY <1>1, <1>5
  <2> QED BY <2>1, <2>2 DEF FileInv
<1>7. FindingsInv BY <1>5 DEF FindingsInv
<1>8. ZipInv BY <1>1 DEF ZipInv
<1> QED BY <1>2, <1>3, <1>4, <1>6, <1>7, <1>8 DEF AppInv
LEMMA QuietSteps ==
  ASSUME AppInv,
         \/ StartRefused \/ StartInvalid \/ Tick \/ DrainTask \/ DrainEmpty
         \/ StopPressed \/ WorkerEnds \/ WorkerUnwinds
  PROVE  AppInv'
<1>0. /\ TypeOK /\ ScanTypes /\ LinesInv /\ FileInv /\ FindingsInv /\ ZipInv
      /\ MaxTicks \in Nat
  BY AppBounds DEF AppInv
<1>1. CASE StartRefused
  <2>0. /\ open' = open /\ ended' = ended /\ sent' = sent
        /\ buffer' = buffer /\ isRunning' = isRunning /\ timer' = timer
        /\ ticks' = ticks /\ pc' = pc /\ newLines' = newLines
        /\ file' = file /\ log' = log /\ noted' = noted /\ zip' = zip
        /\ findings' = findings /\ shown' = shown /\ dropped' = dropped
        /\ executedCount' = executedCount /\ status' = "Failed to start"
    BY <1>1 DEF StartRefused, scan, screen, output, disk
  <2>1. TypeOK' BY <1>0, <2>0 DEF TypeOK
  <2>2. ScanTypes' BY <1>0, <2>0 DEF ScanTypes
  <2>3. LinesInv' BY <1>0, <2>0 DEF LinesInv
  <2>4. FileInv' BY <1>0, <2>0 DEF FileInv
  <2>5. FindingsInv' BY <1>0, <2>0 DEF FindingsInv
  <2>6. ZipInv' BY <1>0, <2>0 DEF ZipInv
  <2> QED BY <2>1, <2>2, <2>3, <2>4, <2>5, <2>6 DEF AppInv
<1>2. CASE StartInvalid
  <2>0. /\ open' = open /\ ended' = ended /\ sent' = sent
        /\ buffer' = buffer /\ isRunning' = isRunning /\ timer' = timer
        /\ ticks' = ticks /\ pc' = pc /\ newLines' = newLines
        /\ file' = file /\ log' = log /\ noted' = noted /\ zip' = zip
        /\ findings' = findings /\ shown' = shown /\ dropped' = dropped
        /\ executedCount' = executedCount /\ status' = "Failed to start"
    BY <1>2 DEF StartInvalid, scan, screen, output, disk
  <2>1. TypeOK' BY <1>0, <2>0 DEF TypeOK
  <2>2. ScanTypes' BY <1>0, <2>0 DEF ScanTypes
  <2>3. LinesInv' BY <1>0, <2>0 DEF LinesInv
  <2>4. FileInv' BY <1>0, <2>0 DEF FileInv
  <2>5. FindingsInv' BY <1>0, <2>0 DEF FindingsInv
  <2>6. ZipInv' BY <1>0, <2>0 DEF ZipInv
  <2> QED BY <2>1, <2>2, <2>3, <2>4, <2>5, <2>6 DEF AppInv
<1>3. CASE Tick
  <2>0. /\ open' = open /\ ended' = ended /\ sent' = sent
        /\ buffer' = buffer /\ isRunning' = isRunning /\ timer' = timer
        /\ pc' = pc /\ newLines' = newLines /\ file' = file
        /\ log' = log /\ noted' = noted /\ zip' = zip
        /\ findings' = findings /\ shown' = shown /\ dropped' = dropped
        /\ executedCount' = executedCount /\ status' = status
        /\ ticks < MaxTicks /\ ticks' = ticks + 1
    BY <1>3 DEF Tick, scan, screen, output, disk
  <2>1. TypeOK'
    <3>0. ticks \in 0 .. MaxTicks BY <1>0 DEF TypeOK
    <3>1. ticks' \in 0 .. MaxTicks BY <1>0, <2>0, <3>0
    <3> QED BY <1>0, <2>0, <3>1 DEF TypeOK
  <2>2. ScanTypes' BY <1>0, <2>0 DEF ScanTypes
  <2>3. LinesInv' BY <1>0, <2>0 DEF LinesInv
  <2>4. FileInv' BY <1>0, <2>0 DEF FileInv
  <2>5. FindingsInv' BY <1>0, <2>0 DEF FindingsInv
  <2>6. ZipInv' BY <1>0, <2>0 DEF ZipInv
  <2> QED BY <2>1, <2>2, <2>3, <2>4, <2>5, <2>6 DEF AppInv
<1>4. CASE DrainTask
  <2>0. /\ pc = "idle" /\ open' = open /\ ended' = ended /\ sent' = sent
        /\ buffer' = buffer /\ isRunning' = isRunning /\ timer' = timer
        /\ file' = file /\ log' = log /\ noted' = noted /\ zip' = zip
        /\ findings' = findings /\ shown' = shown /\ dropped' = dropped
        /\ executedCount' = executedCount /\ status' = status
        /\ ticks > 0 /\ ticks' = ticks - 1 /\ pc' = "drain"
        /\ newLines' = <<>>
    BY <1>4 DEF DrainTask, scan, screen, output, disk
  <2>1. TypeOK'
    <3>0. ticks \in 0 .. MaxTicks BY <1>0 DEF TypeOK
    <3>1. ticks' \in 0 .. MaxTicks BY <1>0, <2>0, <3>0
    <3>2. newLines' \in Seq(Nat) BY <2>0
    <3>3. pc' \in {"idle", "drain", "write", "stopping"} BY <2>0
    <3> QED BY <1>0, <2>0, <3>1, <3>2, <3>3 DEF TypeOK
  <2>2. ScanTypes' BY <1>0, <2>0 DEF ScanTypes
  <2>3. LinesInv' BY <1>0, <2>0 DEF LinesInv
  <2>4. FileInv' BY <1>0, <2>0 DEF FileInv
  <2>5. FindingsInv' BY <1>0, <2>0 DEF FindingsInv
  <2>6. ZipInv' BY <1>0, <2>0 DEF ZipInv
  <2> QED BY <2>1, <2>2, <2>3, <2>4, <2>5, <2>6 DEF AppInv
<1>5. CASE DrainEmpty
  <2>0. /\ pc = "drain" /\ open' = open /\ ended' = ended
        /\ sent' = sent /\ buffer' = buffer /\ isRunning' = isRunning
        /\ timer' = timer /\ ticks' = ticks /\ newLines' = newLines
        /\ file' = file /\ log' = log /\ noted' = noted /\ zip' = zip
        /\ findings' = findings /\ shown' = shown /\ dropped' = dropped
        /\ executedCount' = executedCount /\ status' = status
        /\ pc' = "write"
    BY <1>5 DEF DrainEmpty, scan, screen, output, disk
  <2>1. TypeOK' BY <1>0, <2>0 DEF TypeOK
  <2>2. ScanTypes' BY <1>0, <2>0 DEF ScanTypes
  <2>3. LinesInv' BY <1>0, <2>0 DEF LinesInv
  <2>4. FileInv' BY <1>0, <2>0 DEF FileInv
  <2>5. FindingsInv' BY <1>0, <2>0 DEF FindingsInv
  <2>6. ZipInv' BY <1>0, <2>0 DEF ZipInv
  <2> QED BY <2>1, <2>2, <2>3, <2>4, <2>5, <2>6 DEF AppInv
<1>6. CASE StopPressed
  <2>0. /\ pc = "idle" /\ open' = open /\ ended' = ended /\ sent' = sent
        /\ buffer' = buffer /\ isRunning' = isRunning /\ ticks' = ticks
        /\ newLines' = newLines /\ file' = file /\ log' = log
        /\ noted' = noted /\ zip' = zip /\ findings' = findings
        /\ shown' = shown /\ dropped' = dropped
        /\ executedCount' = executedCount /\ status' = status
        /\ pc' = "stopping" /\ timer' = FALSE
    BY <1>6 DEF StopPressed, scan, screen, output, disk
  <2>1. TypeOK' BY <1>0, <2>0 DEF TypeOK
  <2>2. ScanTypes' BY <1>0, <2>0 DEF ScanTypes
  <2>3. LinesInv' BY <1>0, <2>0 DEF LinesInv
  <2>4. FileInv' BY <1>0, <2>0 DEF FileInv
  <2>5. FindingsInv' BY <1>0, <2>0 DEF FindingsInv
  <2>6. ZipInv' BY <1>0, <2>0 DEF ZipInv
  <2> QED BY <2>1, <2>2, <2>3, <2>4, <2>5, <2>6 DEF AppInv
<1>7. CASE WorkerEnds
  <2>0. /\ open' = open /\ sent' = sent /\ buffer' = buffer
        /\ isRunning' = isRunning /\ timer' = timer /\ ticks' = ticks
        /\ pc' = pc /\ newLines' = newLines /\ file' = file
        /\ log' = log /\ noted' = noted /\ zip' = zip
        /\ findings' = findings /\ shown' = shown /\ dropped' = dropped
        /\ executedCount' = executedCount /\ status' = status
        /\ ended' = TRUE
    BY <1>7 DEF WorkerEnds, scan, screen, output, disk, Channel!End
  <2>1. TypeOK' BY <1>0, <2>0 DEF TypeOK
  <2>2. ScanTypes' BY <1>0, <2>0 DEF ScanTypes
  <2>3. LinesInv' BY <1>0, <2>0 DEF LinesInv
  <2>4. FileInv' BY <1>0, <2>0 DEF FileInv
  <2>5. FindingsInv' BY <1>0, <2>0 DEF FindingsInv
  <2>6. ZipInv' BY <1>0, <2>0 DEF ZipInv
  <2> QED BY <2>1, <2>2, <2>3, <2>4, <2>5, <2>6 DEF AppInv
<1>8. CASE WorkerUnwinds
  <2>0. /\ open' = open /\ sent' = sent /\ buffer' = buffer
        /\ isRunning' = isRunning /\ timer' = timer /\ ticks' = ticks
        /\ pc' = pc /\ newLines' = newLines /\ file' = file
        /\ log' = log /\ noted' = noted /\ zip' = zip
        /\ findings' = findings /\ shown' = shown /\ dropped' = dropped
        /\ executedCount' = executedCount /\ status' = status
        /\ ended' = TRUE
    BY <1>8 DEF WorkerUnwinds, scan, screen, output, disk, Channel!Unwind
  <2>1. TypeOK' BY <1>0, <2>0 DEF TypeOK
  <2>2. ScanTypes' BY <1>0, <2>0 DEF ScanTypes
  <2>3. LinesInv' BY <1>0, <2>0 DEF LinesInv
  <2>4. FileInv' BY <1>0, <2>0 DEF FileInv
  <2>5. FindingsInv' BY <1>0, <2>0 DEF FindingsInv
  <2>6. ZipInv' BY <1>0, <2>0 DEF ZipInv
  <2> QED BY <2>1, <2>2, <2>3, <2>4, <2>5, <2>6 DEF AppInv
<1> QED BY <1>1, <1>2, <1>3, <1>4, <1>5, <1>6, <1>7, <1>8

LEMMA Types ==
  ASSUME TypeOK, ScanTypes
  PROVE  /\ newLines \in Seq(Nat) /\ log \in Seq(Nat) /\ noted \in Seq(Nat)
         /\ findings \in Seq(Nat) /\ shown \in Seq(Nat)
         /\ zip.log \in Seq(Nat) /\ zip.findings \in Seq(Nat)
         /\ zip.total \in Nat /\ dropped \in Nat /\ executedCount \in Nat
         /\ executedCount = dropped + Len(shown) /\ Len(shown) <= MaxDisplay
         /\ sent \in Nat /\ buffer \in Seq(Nat)
<1>1. /\ newLines \in Seq(Nat) /\ log \in Seq(Nat) /\ noted \in Seq(Nat)
      /\ findings \in Seq(Nat) /\ shown \in Seq(Nat)
      /\ zip.log \in Seq(Nat) /\ zip.findings \in Seq(Nat)
  BY DEF TypeOK
<1>2. /\ zip.total \in Nat /\ dropped \in Nat
      /\ executedCount = dropped + Len(shown) /\ Len(shown) <= MaxDisplay
  BY DEF TypeOK
<1>3. executedCount \in Nat BY <1>1, <1>2
<1> QED BY <1>1, <1>2, <1>3 DEF ScanTypes

(* A sent line follows the lines before it.                                  *)
LEMMA WorkerSendsKeeps == AppInv /\ WorkerSends => AppInv'
<1> SUFFICES ASSUME AppInv, WorkerSends PROVE AppInv'
  OBVIOUS
<1>0. /\ TypeOK /\ ScanTypes /\ LinesInv /\ FileInv /\ FindingsInv /\ ZipInv
  BY DEF AppInv
<1>1. /\ open /\ sent' = sent + 1 /\ buffer' = Append(buffer, sent + 1)
      /\ open' = open /\ ended' = ended /\ isRunning' = isRunning
      /\ timer' = timer /\ ticks' = ticks /\ pc' = pc
      /\ newLines' = newLines /\ file' = file /\ log' = log
      /\ noted' = noted /\ zip' = zip /\ findings' = findings
      /\ shown' = shown /\ dropped' = dropped
      /\ executedCount' = executedCount /\ status' = status
  BY DEF WorkerSends, Channel!Send, screen, output, disk
<1>2. TypeOK' BY <1>0, <1>1 DEF TypeOK
<1>3. ScanTypes'
  BY <1>0, <1>1 DEF ScanTypes
<1>4. LinesInv'
  <2>1. /\ executedCount + Len(newLines) + Len(buffer) = sent
        /\ Follows(newLines, executedCount)
        /\ Follows(buffer, executedCount + Len(newLines))
    BY <1>0, <1>1 DEF LinesInv
  <2>2. /\ executedCount \in Nat /\ newLines \in Seq(Nat)
        /\ buffer \in Seq(Nat) /\ sent \in Nat
    BY <1>0, Types
  <2>3. Len(buffer') = Len(buffer) + 1 BY <1>1, <2>2
  <2>4. Follows(buffer', executedCount + Len(newLines))
    <3> DEFINE n == executedCount + Len(newLines)
    <3>1. n \in Nat /\ n + Len(buffer) = sent BY <2>1, <2>2
    <3> HIDE DEF n
    <3> SUFFICES ASSUME NEW k \in DOMAIN buffer' PROVE buffer'[k] = n + k
      BY DEF Follows, n
    <3>2. k \in 1 .. Len(buffer) + 1 BY <1>1, <2>2
    <3>3. CASE k \in 1 .. Len(buffer)
      <4>1. buffer'[k] = buffer[k] BY <1>1, <2>2, <3>3
      <4> QED BY <2>1, <2>2, <3>3, <4>1 DEF Follows, n
    <3>4. CASE k = Len(buffer) + 1
      <4>1. buffer'[k] = sent + 1 BY <1>1, <2>2, <3>4
      <4> QED BY <2>2, <3>1, <3>4, <4>1
    <3> QED BY <2>2, <3>2, <3>3, <3>4
  <2>5. executedCount + Len(newLines) + Len(buffer') = sent'
    BY <1>1, <2>1, <2>2, <2>3
  <2> QED BY <1>0, <1>1, <2>1, <2>4, <2>5 DEF LinesInv
<1>5. FileInv' BY <1>0, <1>1 DEF FileInv
<1>6. FindingsInv' BY <1>0, <1>1 DEF FindingsInv
<1>7. ZipInv' BY <1>0, <1>1 DEF ZipInv
<1> QED BY <1>2, <1>3, <1>4, <1>5, <1>6, <1>7 DEF AppInv

(* A drained line leaves the head of the queue for the end of the batch.     *)
LEMMA DrainLineKeeps == AppInv /\ DrainLine => AppInv'
<1> SUFFICES ASSUME AppInv, DrainLine PROVE AppInv'
  OBVIOUS
<1>0. /\ TypeOK /\ ScanTypes /\ LinesInv /\ FileInv /\ FindingsInv /\ ZipInv
  BY DEF AppInv
<1>1. /\ open /\ buffer # <<>> /\ pc = "drain"
      /\ buffer' = Tail(buffer) /\ newLines' = Append(newLines, Head(buffer))
      /\ open' = open /\ ended' = ended /\ sent' = sent
      /\ isRunning' = isRunning
      /\ timer' = timer /\ ticks' = ticks /\ pc' = pc
      /\ file' = file /\ log' = log
      /\ noted' = noted /\ zip' = zip /\ findings' = findings
      /\ shown' = shown /\ dropped' = dropped
      /\ executedCount' = executedCount /\ status' = status
  BY DEF DrainLine, Channel!Take, screen, output, disk
<1>2. /\ executedCount + Len(newLines) + Len(buffer) = sent
      /\ Follows(newLines, executedCount)
      /\ Follows(buffer, executedCount + Len(newLines))
  BY <1>0, <1>1 DEF LinesInv
<1>3. /\ executedCount \in Nat /\ newLines \in Seq(Nat)
      /\ buffer \in Seq(Nat) /\ sent \in Nat
  BY <1>0, Types
<1>4. /\ Len(buffer) \in Nat \ {0}
      /\ Head(buffer) = executedCount + Len(newLines) + 1
  <2>1. Len(buffer) \in Nat \ {0} BY <1>1, <1>3
  <2>2. Head(buffer) = buffer[1] /\ 1 \in DOMAIN buffer BY <1>3, <2>1
  <2> QED BY <1>2, <2>1, <2>2 DEF Follows
<1>5. /\ newLines' \in Seq(Nat) /\ Len(newLines') = Len(newLines) + 1
      /\ Follows(newLines', executedCount)
  <2>0. Head(buffer) \in Nat BY <1>3, <1>4
  <2>1. newLines' \in Seq(Nat) /\ Len(newLines') = Len(newLines) + 1
    BY <1>1, <1>3, <2>0
  <2> SUFFICES ASSUME NEW k \in DOMAIN newLines'
               PROVE  newLines'[k] = executedCount + k
    BY <2>1 DEF Follows
  <2>2. k \in 1 .. Len(newLines) + 1 BY <2>1
  <2>3. CASE k \in 1 .. Len(newLines)
    <3>1. newLines'[k] = newLines[k] BY <1>1, <1>3, <2>3
    <3> QED BY <1>2, <1>3, <2>3, <3>1 DEF Follows
  <2>4. CASE k = Len(newLines) + 1
    <3>1. newLines'[k] = Head(buffer) BY <1>1, <1>3, <2>4
    <3> QED BY <1>3, <1>4, <2>4, <3>1
  <2> QED BY <1>3, <2>2, <2>3, <2>4
<1>6. /\ buffer' \in Seq(Nat) /\ Len(buffer') = Len(buffer) - 1
      /\ Follows(buffer', executedCount + Len(newLines'))
  <2>1. buffer' \in Seq(Nat) /\ Len(buffer') = Len(buffer) - 1
    BY <1>1, <1>3, <1>4
  <2> SUFFICES ASSUME NEW k \in DOMAIN buffer'
               PROVE  buffer'[k] = executedCount + Len(newLines') + k
    BY <2>1 DEF Follows
  <2>2. k \in Nat /\ k + 1 \in DOMAIN buffer
    <3>1. k \in 1 .. Len(buffer) - 1 BY <2>1
    <3>2. DOMAIN buffer = 1 .. Len(buffer) /\ Len(buffer) \in Nat BY <1>3
    <3> QED BY <3>1, <3>2
  <2>3. buffer'[k] = buffer[k + 1] BY <1>1, <1>3, <1>4, <2>1
  <2>4. buffer[k + 1] = executedCount + Len(newLines) + (k + 1)
    BY <1>2, <2>2 DEF Follows
  <2> QED BY <1>3, <1>5, <2>2, <2>3, <2>4
<1>7. TypeOK' BY <1>0, <1>1, <1>5 DEF TypeOK
<1>8. ScanTypes' BY <1>0, <1>1, <1>6 DEF ScanTypes
<1>9. LinesInv'
  <2>1. executedCount + Len(newLines') + Len(buffer') = sent
    <3>1. executedCount + Len(newLines) + Len(buffer) = sent BY <1>2
    <3>2. Len(newLines') = Len(newLines) + 1 BY <1>5
    <3>3. Len(buffer') = Len(buffer) - 1 BY <1>6
    <3>4. /\ Len(newLines) \in Nat /\ Len(buffer) \in Nat
          /\ executedCount \in Nat
      BY <1>3
    <3> QED BY <3>1, <3>2, <3>3, <3>4
  <2> QED BY <1>1, <1>5, <1>6, <2>1 DEF LinesInv
<1>10. FileInv' BY <1>0, <1>1 DEF FileInv
<1>11. FindingsInv' BY <1>0, <1>1 DEF FindingsInv
<1>12. ZipInv' BY <1>0, <1>1 DEF ZipInv
<1> QED BY <1>7, <1>8, <1>9, <1>10, <1>11, <1>12 DEF AppInv

(* START clears the screen, the files and the archive, and opens a scan that *)
(* has sent nothing.                                                         *)
LEMMA StartKeeps == AppInv /\ Start => AppInv'
<1> SUFFICES ASSUME AppInv, Start PROVE AppInv'
  OBVIOUS
<1>0. /\ TypeOK /\ ScanTypes /\ LinesInv /\ FileInv /\ FindingsInv /\ ZipInv
  BY DEF AppInv
<1>1. /\ pc = "idle" /\ open' = TRUE /\ ended' = FALSE
      /\ sent' = 0 /\ buffer' = <<>>
      /\ file' = TRUE /\ log' = <<>> /\ noted' = <<>>
      /\ zip' = [log |-> <<>>, findings |-> <<>>, total |-> 0]
      /\ shown' = <<>> /\ dropped' = 0 /\ executedCount' = 0
      /\ findings' = <<>> /\ isRunning' = TRUE /\ timer' = TRUE
      /\ status' = "Running" /\ ticks' = ticks /\ pc' = pc
      /\ newLines' = newLines
  BY DEF Start, Channel!Open, Archive
<1>2. newLines = <<>> BY <1>0, <1>1 DEF LinesInv
<1>3. <<>> \in Seq(Nat) /\ Len(<<>>) = 0 /\ MaxDisplay \in Nat
  BY DisplayAssumption
<1>4. TypeOK'
  <2>1. zip'.log = <<>> /\ zip'.findings = <<>> /\ zip'.total = 0 BY <1>1
  <2>2. {newLines', log', noted', findings', zip'.log, zip'.findings, shown'}
          \subseteq Seq(Nat)
    BY <1>1, <1>2, <1>3, <2>1
  <2>3. /\ isRunning' \in BOOLEAN /\ timer' \in BOOLEAN /\ file' \in BOOLEAN
        /\ status' \in {"Ready", "Running", "Done", "Stopped",
                        "Failed to start"}
    BY <1>1
  <2>4. ticks' \in 0 .. MaxTicks BY <1>0, <1>1 DEF TypeOK
  <2>5. pc' \in {"idle", "drain", "write", "stopping"}
    BY <1>0, <1>1 DEF TypeOK
  <2>6. /\ Len(shown') <= MaxDisplay /\ zip'.total \in Nat
        /\ dropped' \in Nat /\ executedCount' = dropped' + Len(shown')
    BY <1>1, <1>3, <2>1
  <2> QED BY <2>2, <2>3, <2>4, <2>5, <2>6 DEF TypeOK
<1>5. ScanTypes' BY <1>1, <1>3 DEF ScanTypes
<1>6. LinesInv' BY <1>1, <1>2, <1>3 DEF LinesInv, Follows
<1>7. FirstLines(0) = <<>> /\ FindingsIn(<<>>) = <<>> BY NoLines
<1>8. FileInv'
  <2>1. file' = isRunning' /\ open' /\ timer' /\ Len(log') = executedCount'
    BY <1>1, <1>3
  <2>2. log' = FirstLines(Len(log')) /\ Len(log') <= executedCount'
    BY <1>1, <1>3, <1>7
  <2> QED BY <2>1, <2>2 DEF FileInv
<1>9. FindingsInv' BY <1>1, <1>7 DEF FindingsInv
<1>10. ZipInv'
  <2>1. zip'.findings = <<>> /\ zip'.total = 0 /\ isRunning' BY <1>1
  <2> QED BY <1>3, <2>1 DEF ZipInv
<1> QED BY <1>4, <1>5, <1>6, <1>8, <1>9, <1>10 DEF AppInv

(* The archive built when a scan ends has both files, and states no fewer    *)
(* findings than it has: the list goes at least as far as the log.           *)
LEMMA ZipKeeps ==
  ASSUME AppInv, BuildZip, UNCHANGED <<log, noted>>
  PROVE  /\ zip'.log \in Seq(Nat) /\ zip'.findings \in Seq(Nat)
         /\ zip'.total \in Nat
         /\ ZipInv'
<1>0. /\ TypeOK /\ ScanTypes /\ FileInv /\ FindingsInv
  BY DEF AppInv
<1>1. /\ log \in Seq(Nat) /\ noted \in Seq(Nat) /\ findings \in Seq(Nat)
      /\ executedCount \in Nat
  BY <1>0, Types
<1>2. /\ zip' = [log |-> log, findings |-> noted, total |-> Len(findings)]
      /\ log' = log /\ noted' = noted
  BY DEF BuildZip, Archive
<1>3. zip'.log = log /\ zip'.findings = noted /\ zip'.total = Len(findings)
  BY <1>2
<1>4. Len(noted) <= Len(findings)
  <2>1. /\ Len(log) \in Nat /\ Len(log) <= executedCount
        /\ log = FirstLines(Len(log))
    BY <1>0, <1>1 DEF FileInv
  <2>2. /\ noted = FindingsIn(FirstLines(Len(log)))
        /\ findings = FindingsIn(FirstLines(executedCount))
    BY <1>0, <2>1 DEF FindingsInv
  <2> QED BY <1>1, <2>1, <2>2, FindingsGrow
<1>5. ZipInv' BY <1>1, <1>2, <1>3, <1>4 DEF ZipInv
<1> QED BY <1>1, <1>3, <1>5

LEMMA DrainEndKeeps == AppInv /\ DrainEnd => AppInv'
<1> SUFFICES ASSUME AppInv, DrainEnd PROVE AppInv'
  OBVIOUS
<1>0. /\ TypeOK /\ ScanTypes /\ LinesInv /\ FileInv /\ FindingsInv
  BY DEF AppInv
<1>1. /\ BuildZip /\ UNCHANGED <<log, noted>>
      /\ pc = "drain" /\ pc' = "write" /\ timer' = FALSE /\ file' = FALSE
      /\ isRunning' = FALSE /\ status' = "Done"
      /\ open' = open /\ ended' = ended /\ sent' = sent /\ buffer' = buffer
      /\ ticks' = ticks /\ newLines' = newLines
      /\ log' = log /\ noted' = noted /\ findings' = findings
      /\ shown' = shown /\ dropped' = dropped
      /\ executedCount' = executedCount
  BY DEF DrainEnd, scan, screen, output
<1>2. /\ zip'.log \in Seq(Nat) /\ zip'.findings \in Seq(Nat)
      /\ zip'.total \in Nat
      /\ ZipInv'
  BY <1>1, ZipKeeps
<1>3. TypeOK' BY <1>0, <1>1, <1>2 DEF TypeOK
<1>4. ScanTypes'
  <2>1. open' = open /\ ended' = ended /\ sent' = sent /\ buffer' = buffer
    BY <1>1
  <2> QED BY <1>0, <2>1 DEF ScanTypes
<1>5. LinesInv' BY <1>0, <1>1 DEF LinesInv
<1>6. FileInv' BY <1>0, <1>1 DEF FileInv
<1>7. FindingsInv' BY <1>0, <1>1 DEF FindingsInv
<1> QED BY <1>2, <1>3, <1>4, <1>5, <1>6, <1>7 DEF AppInv

LEMMA ScanStoppedKeeps == AppInv /\ ScanStopped => AppInv'
<1> SUFFICES ASSUME AppInv, ScanStopped PROVE AppInv'
  OBVIOUS
<1>0. /\ TypeOK /\ ScanTypes /\ LinesInv /\ FileInv /\ FindingsInv
  BY DEF AppInv
<1>1. /\ BuildZip /\ UNCHANGED <<log, noted>>
      /\ pc = "stopping" /\ pc' = "idle" /\ timer' = timer /\ file' = FALSE
      /\ isRunning' = FALSE /\ status' = "Stopped"
      /\ open' = FALSE /\ ended' = FALSE /\ sent' = 0 /\ buffer' = <<>>
      /\ ticks' = ticks /\ newLines' = newLines
      /\ log' = log /\ noted' = noted /\ findings' = findings
      /\ shown' = shown /\ dropped' = dropped
      /\ executedCount' = executedCount
  BY DEF ScanStopped, Channel!Close, screen, output
<1>2. /\ zip'.log \in Seq(Nat) /\ zip'.findings \in Seq(Nat)
      /\ zip'.total \in Nat
      /\ ZipInv'
  BY <1>1, ZipKeeps
<1>3. TypeOK' BY <1>0, <1>1, <1>2 DEF TypeOK
<1>4. ScanTypes'
  <2>1. open' \in BOOLEAN /\ ended' \in BOOLEAN /\ sent' = 0 /\ buffer' = <<>>
    BY <1>1
  <2> QED BY <2>1 DEF ScanTypes
<1>5. LinesInv' BY <1>0, <1>1 DEF LinesInv
<1>6. FileInv' BY <1>0, <1>1 DEF FileInv
<1>7. FindingsInv' BY <1>0, <1>1 DEF FindingsInv
<1> QED BY <1>2, <1>3, <1>4, <1>5, <1>6, <1>7 DEF AppInv

(* The batch goes to the list and the counters, and to the files when they   *)
(* are open: the log is then still all that was counted.                     *)
LEMMA DrainWriteKeeps == AppInv /\ DrainWrite => AppInv'
<1> SUFFICES ASSUME AppInv, DrainWrite PROVE AppInv'
  OBVIOUS
<1>0. /\ TypeOK /\ ScanTypes /\ LinesInv /\ FileInv /\ FindingsInv /\ ZipInv
  BY DEF AppInv
<1> DEFINE all == shown \o newLines
           more == executedCount + Len(newLines)
<1>1. /\ pc = "write" /\ pc' = "idle"
      /\ log' = IF file THEN log \o newLines ELSE log
      /\ noted' = IF file THEN noted \o FindingsIn(newLines) ELSE noted
      /\ findings' = findings \o FindingsIn(newLines)
      /\ executedCount' = more
      /\ shown' = SubSeq(all, Excess(all) + 1, Len(all))
      /\ dropped' = dropped + Excess(all)
      /\ newLines' = <<>>
      /\ open' = open /\ ended' = ended /\ sent' = sent /\ buffer' = buffer
      /\ isRunning' = isRunning /\ timer' = timer /\ ticks' = ticks
      /\ file' = file /\ zip' = zip /\ status' = status
  BY DEF DrainWrite, Publish, Written, scan
<1>2. /\ newLines \in Seq(Nat) /\ log \in Seq(Nat) /\ noted \in Seq(Nat)
      /\ findings \in Seq(Nat) /\ shown \in Seq(Nat)
      /\ zip.log \in Seq(Nat) /\ zip.findings \in Seq(Nat)
      /\ zip.total \in Nat /\ dropped \in Nat /\ executedCount \in Nat
      /\ executedCount = dropped + Len(shown) /\ Len(shown) <= MaxDisplay
      /\ sent \in Nat /\ buffer \in Seq(Nat)
  BY <1>0, Types
<1>3. /\ FindingsIn(newLines) \in Seq(Nat)
      /\ noted \o FindingsIn(newLines) \in Seq(Nat)
      /\ findings \o FindingsIn(newLines) \in Seq(Nat)
      /\ log \o newLines \in Seq(Nat)
      /\ Len(log \o newLines) = Len(log) + Len(newLines)
      /\ Len(newLines) \in Nat /\ more \in Nat /\ Len(log) \in Nat
  <2>1. FindingsIn(newLines) \in Seq(Nat) BY <1>2, FindingsType
  <2> QED BY <1>2, <2>1
<1>4. /\ shown' \in Seq(Nat) /\ Len(shown') <= MaxDisplay
      /\ dropped' \in Nat /\ more = dropped' + Len(shown')
  <2>1. all \in Seq(Nat) /\ Len(all) = Len(shown) + Len(newLines) BY <1>2
  <2> HIDE DEF all
  <2>2. /\ shown' \in Seq(Nat) /\ Len(shown') <= MaxDisplay
        /\ Excess(all) \in Nat
        /\ Excess(all) + Len(shown') = Len(all)
    BY <1>1, <2>1, ShownType
  <2>3. Len(shown') \in Nat BY <2>2
  <2>4. /\ Len(shown) \in Nat /\ dropped \in Nat /\ Len(newLines) \in Nat
        /\ executedCount = dropped + Len(shown)
    BY <1>2
  <2>5. dropped' = dropped + Excess(all) BY <1>1
  <2>6. dropped' \in Nat BY <2>2, <2>4, <2>5
  <2>7. more = dropped + Len(all) BY <2>1, <2>4
  <2>8. more = dropped' + Len(shown')
    <3> DEFINE e == Excess(all)
               l == Len(all)
               k == Len(shown')
    <3>1. e \in Nat /\ k \in Nat /\ l = e + k BY <2>2, <2>3
    <3>2. dropped \in Nat /\ more = dropped + l BY <2>4, <2>7
    <3>3. dropped' = dropped + e BY <2>5
    <3> HIDE DEF e, l, k
    <3>4. more = dropped' + k BY <3>1, <3>2, <3>3
    <3> QED BY <3>4 DEF k
  <2> QED BY <2>2, <2>6, <2>8
<1> HIDE DEF all, more
<1>5. open => Follows(newLines, executedCount)
  BY <1>0 DEF LinesInv
<1>6. TypeOK'
  <2>1. zip'.log \in Seq(Nat) /\ zip'.findings \in Seq(Nat)
        /\ zip'.total \in Nat
    BY <1>1, <1>2
  <2>2. newLines' \in Seq(Nat) /\ findings' \in Seq(Nat) BY <1>1, <1>3
  <2>3. log' \in Seq(Nat) /\ noted' \in Seq(Nat) BY <1>1, <1>2, <1>3
  <2>4. {newLines', log', noted', findings', zip'.log, zip'.findings, shown'}
          \subseteq Seq(Nat)
    BY <1>4, <2>1, <2>2, <2>3
  <2>5. /\ isRunning' \in BOOLEAN /\ timer' \in BOOLEAN /\ file' \in BOOLEAN
        /\ ticks' \in 0 .. MaxTicks
        /\ status' \in {"Ready", "Running", "Done", "Stopped",
                        "Failed to start"}
    BY <1>0, <1>1 DEF TypeOK
  <2>6. pc' \in {"idle", "drain", "write", "stopping"} BY <1>1
  <2>7. executedCount' = dropped' + Len(shown') BY <1>1, <1>4
  <2> QED BY <1>4, <2>1, <2>4, <2>5, <2>6, <2>7 DEF TypeOK
<1>7. ScanTypes' BY <1>0, <1>1 DEF ScanTypes
<1>8. LinesInv'
  <2>1. Len(newLines') = 0 /\ newLines' = <<>> BY <1>1
  <2>2. Follows(newLines', executedCount') BY <2>1 DEF Follows
  <2>3. executedCount' + Len(newLines') = more BY <1>1, <1>3, <2>1
  <2>4. open => /\ more + Len(buffer) = sent /\ Follows(buffer, more)
    BY <1>0 DEF LinesInv, more
  <2> QED BY <1>1, <2>1, <2>2, <2>3, <2>4 DEF LinesInv
<1>9. CASE file
  <2>1. /\ open /\ isRunning /\ Len(log) = executedCount
        /\ log = FirstLines(executedCount)
    BY <1>0, <1>9 DEF FileInv
  <2>2. log' = FirstLines(more)
    <3>1. log \o newLines = FirstLines(more)
      BY <1>2, <1>5, <2>1, FirstLinesConcat DEF more
    <3> QED BY <1>1, <1>9, <3>1
  <2>3. Len(log') = more BY <1>3, <2>2, FirstLinesType
  <2>4. FileInv'
    <3>1. timer' BY <1>0, <1>1, <2>1 DEF FileInv
    <3>2. open' /\ file' = isRunning' BY <1>0, <1>1, <2>1 DEF FileInv
    <3>3. Len(log') = executedCount' BY <1>1, <2>3
    <3>4. log' = FirstLines(Len(log')) /\ Len(log') <= executedCount'
      <4>1. executedCount' = more /\ Len(log') = more /\ more \in Nat
        BY <1>1, <1>3, <2>3
      <4> QED BY <2>2, <4>1
    <3> QED BY <3>1, <3>2, <3>3, <3>4 DEF FileInv
  <2>5. FindingsInv'
    <3>1. noted' = FindingsIn(log')
      <4>1. noted = FindingsIn(log) BY <1>0 DEF FindingsInv
      <4>2. FindingsIn(log \o newLines) = noted \o FindingsIn(newLines)
        BY <1>2, <4>1, FindingsConcat
      <4> QED BY <1>1, <1>9, <4>2
    <3>2. findings' = FindingsIn(FirstLines(executedCount'))
      <4>1. findings = FindingsIn(log) BY <1>0, <2>1 DEF FindingsInv
      <4>2. log' = log \o newLines BY <1>1, <1>9
      <4>3. FindingsIn(log \o newLines) = findings \o FindingsIn(newLines)
        BY <1>2, <4>1, FindingsConcat
      <4>4. findings' = FindingsIn(log') BY <1>1, <4>2, <4>3
      <4> QED BY <1>1, <2>2, <4>4
    <3> QED BY <3>1, <3>2 DEF FindingsInv
  <2>6. ZipInv'
    <3>1. isRunning' /\ zip' = zip BY <1>1, <2>1
    <3> QED BY <1>0, <3>1 DEF ZipInv
  <2> QED BY <1>6, <1>7, <1>8, <2>4, <2>5, <2>6 DEF AppInv
<1>10. CASE ~file
  <2>1. /\ log' = log /\ noted' = noted /\ ~isRunning'
        /\ file' = isRunning'
    BY <1>0, <1>1, <1>10 DEF FileInv
  <2>2. FileInv'
    <3>1. Len(log) <= executedCount' BY <1>0, <1>1, <1>2, <1>3 DEF FileInv, more
    <3> QED BY <1>0, <2>1, <3>1 DEF FileInv
  <2>3. findings' = FindingsIn(FirstLines(executedCount'))
    <3>1. CASE open
      <4>1. FirstLines(executedCount) \o newLines = FirstLines(more)
        BY <1>2, <1>5, <3>1, FirstLinesConcat DEF more
      <4>2. FirstLines(executedCount) \in Seq(Nat) BY <1>2, FirstLinesType
      <4>3. findings' = FindingsIn(FirstLines(executedCount) \o newLines)
        BY <1>0, <1>1, <1>2, <4>2, FindingsConcat DEF FindingsInv
      <4> QED BY <1>1, <4>1, <4>3
    <3>2. CASE ~open
      <4>1. newLines = <<>> BY <1>0, <3>2 DEF LinesInv
      <4>2. FindingsIn(newLines) = <<>> /\ Len(newLines) = 0
        BY <4>1, NoLines
      <4>3. findings' = findings BY <1>1, <1>2, <4>2
      <4>4. executedCount' = executedCount BY <1>1, <1>2, <4>2 DEF more
      <4> QED BY <1>0, <4>3, <4>4 DEF FindingsInv
    <3> QED BY <3>1, <3>2
  <2>4. FindingsInv' BY <1>0, <2>1, <2>3 DEF FindingsInv
  <2>5. ZipInv'
    <3>1. ~isRunning /\ zip' = zip BY <1>1, <2>1
    <3> QED BY <1>0, <2>1, <3>1 DEF ZipInv
  <2> QED BY <1>6, <1>7, <1>8, <2>2, <2>4, <2>5 DEF AppInv
<1> QED BY <1>9, <1>10

LEMMA StutterKeeps == AppInv /\ UNCHANGED vars => AppInv'
<1> SUFFICES ASSUME AppInv, UNCHANGED vars PROVE AppInv'
  OBVIOUS
<1>0. /\ TypeOK /\ ScanTypes /\ LinesInv /\ FileInv /\ FindingsInv /\ ZipInv
  BY DEF AppInv
<1>1. /\ open' = open /\ ended' = ended /\ sent' = sent /\ buffer' = buffer
      /\ isRunning' = isRunning /\ timer' = timer /\ ticks' = ticks
      /\ pc' = pc /\ newLines' = newLines /\ file' = file /\ log' = log
      /\ noted' = noted /\ zip' = zip /\ findings' = findings
      /\ shown' = shown /\ dropped' = dropped
      /\ executedCount' = executedCount /\ status' = status
  BY DEF vars, scan, screen, output, disk
<1>2. TypeOK' BY <1>0, <1>1 DEF TypeOK
<1>3. ScanTypes' BY <1>0, <1>1 DEF ScanTypes
<1>4. LinesInv' BY <1>0, <1>1 DEF LinesInv
<1>5. FileInv' BY <1>0, <1>1 DEF FileInv
<1>6. FindingsInv' BY <1>0, <1>1 DEF FindingsInv
<1>7. ZipInv' BY <1>0, <1>1 DEF ZipInv
<1> QED BY <1>2, <1>3, <1>4, <1>5, <1>6, <1>7 DEF AppInv

-----------------------------------------------------------------------------
(* AppInv holds in every reachable state.                                    *)
THEOREM Invariance == Spec => []AppInv
<1>1. Init => AppInv BY InitInv
<1>2. AppInv /\ [Next]_vars => AppInv'
  BY QuietSteps, WorkerSendsKeeps, StartKeeps, DrainLineKeeps, DrainEndKeeps,
     DrainWriteKeeps, ScanStoppedKeeps, StutterKeeps
     DEF Next, App
<1> QED BY <1>1, <1>2, PTL DEF Spec

(* Every variable has its type, and what is on the screen and what was taken *)
(* off it is all that was counted.                                           *)
THEOREM TypeCorrect == Spec => []TypeOK
<1>1. AppInv => TypeOK BY DEF AppInv
<1> QED BY <1>1, Invariance, PTL

(* While the app shows a running scan, no line of it is lost, repeated or    *)
(* out of order between the worker and the log.                              *)
THEOREM NothingIsLost == Spec => []RunningKeepsAll
<1>1. AppInv => RunningKeepsAll
  <2> SUFFICES ASSUME AppInv, isRunning PROVE RunningKeepsAll
    BY DEF RunningKeepsAll
  <2>0. /\ TypeOK /\ ScanTypes /\ LinesInv /\ FileInv /\ FindingsInv
    BY DEF AppInv
  <2>1. /\ open /\ file /\ (timer \/ pc = "stopping")
        /\ log = FirstLines(executedCount)
    BY <2>0 DEF FileInv
  <2>2. /\ executedCount + Len(newLines) + Len(buffer) = sent
        /\ Follows(newLines, executedCount)
        /\ Follows(buffer, executedCount + Len(newLines))
    BY <2>0, <2>1 DEF LinesInv
  <2>3. /\ executedCount \in Nat /\ newLines \in Seq(Nat)
        /\ buffer \in Seq(Nat)
    BY <2>0, Types
  <2>4. log \o newLines = FirstLines(executedCount + Len(newLines))
    BY <2>1, <2>2, <2>3, FirstLinesConcat
  <2>5. executedCount + Len(newLines) \in Nat BY <2>3
  <2>6. log \o newLines \o buffer = FirstLines(sent)
    BY <2>2, <2>3, <2>4, <2>5, FirstLinesConcat
  <2>7. noted = FindingsIn(log) BY <2>0 DEF FindingsInv
  <2> QED BY <2>1, <2>6, <2>7 DEF RunningKeepsAll
<1> QED BY <1>1, Invariance, PTL

(* The log has no gap, the list has every finding of the lines counted, and  *)
(* the archive of a scan that is over is both its files.                     *)
THEOREM ArchiveIsWhole == Spec => []ArchiveIsLog
<1>1. AppInv => ArchiveIsLog
  BY DEF AppInv, FileInv, FindingsInv, ZipInv, ArchiveIsLog
<1> QED BY <1>1, Invariance, PTL
=============================================================================
