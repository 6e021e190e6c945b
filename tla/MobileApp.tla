------------------------------ MODULE MobileApp ------------------------------
(* FuzzerViewModel.swift over the scan interface.  The view model runs on    *)
(* the main actor, so start, stop and drainQueue never interleave with one   *)
(* another; they do interleave with the scan's worker thread, and a timer    *)
(* tick queues a drainQueue that may run after the timer is gone.  The scan  *)
(* interface is taken at the level of ScanChannel, which MobileScan          *)
(* implements; a line is its number in the scan.  Every line fits the        *)
(* drain's buffer, and the app's files can be created and written.           *)
EXTENDS Naturals, Sequences, Subsequences

CONSTANTS Capacities,    \* queue capacities (the app passes 5000)
          MaxLines,      \* bound on the lines one scan sends
          MaxTicks,      \* bound on drains queued on the main actor
          MaxDisplay,    \* maxDisplayLines
          FindingLines   \* the lines parseFinding makes a finding of

ASSUME DisplayAssumption == MaxDisplay \in Nat /\ FindingLines \subseteq Nat
ASSUME AppBounds == MaxLines \in Nat /\ MaxTicks \in Nat

VARIABLES
  open, ended, done, capacity, sent, buffer, \* the scan (ScanChannel)
  isRunning,     \* published flag: START is enabled iff it is FALSE
  timer,         \* pollTimer # nil
  ticks,         \* drainQueue tasks waiting for the main actor
  pc,            \* what the main actor is doing
  newLines,      \* lines drained and not yet written
  file,          \* logFileHandle # nil
  log, noted,    \* contents of the log and the findings file of the latest
                 \* scan
  zip,           \* both in the latest archive, and the total it states
  findings,      \* the list of findings
  shown, dropped, executedCount,             \* the on-screen list
  status         \* statusMessage

scan == <<open, ended, done, capacity, sent, buffer>>
screen == <<shown, dropped, executedCount, findings>>
output == <<log, noted>>
disk == <<file, output, zip>>
vars == <<scan, isRunning, timer, ticks, pc, newLines, disk, screen, status>>

Channel == INSTANCE ScanChannel

Archive(logged, listed, total) ==
  [log |-> logged, findings |-> listed, total |-> total]

Init ==
  /\ Channel!Init
  /\ isRunning = FALSE /\ timer = FALSE /\ ticks = 0 /\ pc = "idle"
  /\ newLines = <<>>
  /\ file = FALSE /\ log = <<>> /\ noted = <<>>
  /\ zip = Archive(<<>>, <<>>, 0)
  /\ shown = <<>> /\ dropped = 0 /\ executedCount = 0 /\ findings = <<>>
  /\ status = "Ready"

-----------------------------------------------------------------------------
(* The worker thread, at any moment.                                         *)
WorkerSends == /\ sent < MaxLines
               /\ Channel!Send
               /\ UNCHANGED <<isRunning, timer, ticks, pc, newLines, disk,
                              screen, status>>

WorkerEnds == /\ Channel!End
              /\ UNCHANGED <<isRunning, timer, ticks, pc, newLines, disk,
                             screen, status>>

(* A panic of the worker: done stays unset (MobileScan!ProbePanic).          *)
WorkerUnwinds == /\ Channel!Unwind
                 /\ UNCHANGED <<isRunning, timer, ticks, pc, newLines, disk,
                                screen, status>>

-----------------------------------------------------------------------------
(* START with scan_start_config returning 0: new files, a cleared screen, a  *)
(* timer.                                                                    *)
Start ==
  /\ pc = "idle" /\ ~isRunning
  /\ Channel!Open
  /\ file' = TRUE /\ log' = <<>> /\ noted' = <<>>
  /\ zip' = Archive(<<>>, <<>>, 0)
  /\ shown' = <<>> /\ dropped' = 0 /\ executedCount' = 0 /\ findings' = <<>>
  /\ isRunning' = TRUE
  /\ timer' = TRUE
  /\ status' = "Running"
  /\ UNCHANGED <<ticks, pc, newLines>>

(* START with scan_start_config returning -1: the slot holds a scan.         *)
StartRefused ==
  /\ pc = "idle" /\ ~isRunning
  /\ open
  /\ status' = "Failed to start"
  /\ UNCHANGED <<scan, isRunning, timer, ticks, pc, newLines, disk, screen>>

(* START with a start or end that does not parse (-2).                       *)
StartInvalid ==
  /\ pc = "idle" /\ ~isRunning
  /\ status' = "Failed to start"
  /\ UNCHANGED <<scan, isRunning, timer, ticks, pc, newLines, disk, screen>>

(* The timer fires: a drain is queued on the main actor.                     *)
Tick == /\ timer
        /\ ticks < MaxTicks
        /\ ticks' = ticks + 1
        /\ UNCHANGED <<scan, isRunning, timer, pc, newLines, disk, screen,
                       status>>

(* A queued drainQueue gets the main actor, whatever happened since.         *)
DrainTask == /\ pc = "idle"
             /\ ticks > 0
             /\ ticks' = ticks - 1
             /\ pc' = "drain"
             /\ newLines' = <<>>
             /\ UNCHANGED <<scan, isRunning, timer, disk, screen, status>>

(* scan_next > 0.                                                            *)
DrainLine == /\ pc = "drain"
             /\ Channel!Take
             /\ newLines' = Append(newLines, Head(buffer))
             /\ UNCHANGED <<isRunning, timer, ticks, pc, disk, screen, status>>

(* scan_next = 0: what was drained is written below.                         *)
DrainEmpty == /\ pc = "drain"
              /\ open /\ ~done /\ buffer = <<>>
              /\ pc' = "write"
              /\ UNCHANGED <<scan, isRunning, timer, ticks, newLines, disk,
                             screen, status>>

(* scan_next answers -1 for an empty slot and for a drained scan that is     *)
(* done; a scan whose worker unwound answers 0 for ever.                     *)
Finished == ~open \/ (done /\ buffer = <<>>)

(* Mutant: the -1 branch leaves isRunning for the next tick to clear.        *)
DrainEndTimerOnly == /\ pc = "drain"
                     /\ Finished
                     /\ timer' = FALSE
                     /\ pc' = "write"
                     /\ UNCHANGED <<scan, isRunning, ticks, newLines, disk,
                                    screen, status>>

(* Mutant: the archive is not built anew.                                    *)
DrainEndStaleZip == /\ pc = "drain"
                    /\ Finished
                    /\ timer' = FALSE
                    /\ file' = FALSE
                    /\ isRunning' = FALSE
                    /\ status' = "Done"
                    /\ pc' = "write"
                    /\ UNCHANGED <<scan, ticks, newLines, output, zip,
                                   screen>>

(* buildZip: the files, and a footer with the number of findings listed.     *)
BuildZip == zip' = Archive(log, noted, Len(findings))

(* scan_next = -1: the timer goes, the files are flushed and closed, the     *)
(* archive is built, and only then the last lines reach writeLogsToFile.     *)
DrainEnd == /\ pc = "drain"
            /\ Finished
            /\ timer' = FALSE
            /\ file' = FALSE
            /\ isRunning' = FALSE
            /\ BuildZip
            /\ status' = "Done"
            /\ pc' = "write"
            /\ UNCHANGED <<scan, ticks, newLines, output, screen>>

(* Mutant: a batch is written without what the file already holds.           *)
Overwritten(contents, batch) == IF file THEN batch ELSE contents

(* writeLogsToFile and writeFindingToFile return early when there is no file. *)
Written(contents, batch) == IF file THEN contents \o batch ELSE contents

(* parseFinding                                                              *)
FindingsIn(batch) ==
  At(batch, {i \in DOMAIN batch : batch[i] \in FindingLines})

(* The newest MaxDisplay lines stay on screen.                               *)
Excess(lines) == IF Len(lines) > MaxDisplay THEN Len(lines) - MaxDisplay ELSE 0

(* Mutant: the lines taken off the screen are subtracted from the count.     *)
PublishUncounting ==
  /\ log' = Written(log, newLines)
  /\ noted' = Written(noted, FindingsIn(newLines))
  /\ findings' = findings \o FindingsIn(newLines)
  /\ executedCount' = executedCount + Len(newLines)
  /\ LET all == shown \o newLines
     IN  /\ shown' = SubSeq(all, Excess(all) + 1, Len(all))
         /\ dropped' = dropped - Excess(all)
  /\ newLines' = <<>>

(* Rest of drainQueue: files, findings, counters, screen.                    *)
Publish ==
  /\ log' = Written(log, newLines)
  /\ noted' = Written(noted, FindingsIn(newLines))
  /\ findings' = findings \o FindingsIn(newLines)
  /\ executedCount' = executedCount + Len(newLines)
  /\ LET all == shown \o newLines
     IN  /\ shown' = SubSeq(all, Excess(all) + 1, Len(all))
         /\ dropped' = dropped + Excess(all)
  /\ newLines' = <<>>

DrainWrite == /\ pc = "write"
              /\ Publish
              /\ pc' = "idle"
              /\ UNCHANGED <<scan, isRunning, timer, ticks, file, zip, status>>

-----------------------------------------------------------------------------
(* STOP: the timer goes and scan_stop blocks the main actor until the worker *)
(* has ended; the slot is empty when it returns.                             *)
StopPressed == /\ pc = "idle" /\ isRunning
               /\ timer' = FALSE
               /\ pc' = "stopping"
               /\ UNCHANGED <<scan, isRunning, ticks, newLines, disk, screen,
                              status>>

(* The worker has ended and the slot is cleared, lines still queued with it; *)
(* the drain that follows finds -1 at once, so stop closes and archives what *)
(* the log already has.                                                      *)
ScanStopped == /\ pc = "stopping"
               /\ Channel!Close
               /\ file' = FALSE
               /\ isRunning' = FALSE
               /\ BuildZip
               /\ status' = "Stopped"
               /\ pc' = "idle"
               /\ UNCHANGED <<timer, ticks, newLines, output, screen>>

App == \/ Start \/ StartRefused \/ StartInvalid \/ DrainTask \/ DrainLine \/ DrainEmpty
       \/ DrainEnd \/ DrainWrite \/ StopPressed \/ ScanStopped

Next == WorkerSends \/ WorkerEnds \/ WorkerUnwinds \/ Tick \/ App

(* The run loop delivers the timer and runs what the main actor was given;   *)
(* a worker told to stop ends (MobileScan!StopReturns).                      *)
MainActor == \/ DrainTask \/ DrainLine \/ DrainEmpty \/ DrainEnd \/ DrainWrite
             \/ ScanStopped

Fairness == /\ WF_vars(Tick)
            /\ WF_vars(MainActor)
            /\ WF_vars(pc = "stopping" /\ (WorkerEnds \/ WorkerUnwinds))

Spec == Init /\ [][Next]_vars
FairSpec == Spec /\ Fairness

-----------------------------------------------------------------------------
FirstLines(n) == [i \in 1 .. n |-> i]

TypeOK ==
  /\ isRunning \in BOOLEAN /\ timer \in BOOLEAN /\ file \in BOOLEAN
  /\ ticks \in 0 .. MaxTicks
  /\ pc \in {"idle", "drain", "write", "stopping"}
  /\ {newLines, log, noted, findings, zip.log, zip.findings, shown}
       \subseteq Seq(Nat)
  /\ zip.total \in Nat
  /\ Len(shown) <= MaxDisplay
  /\ dropped \in Nat /\ executedCount = dropped + Len(shown)
  /\ status \in {"Ready", "Running", "Done", "Stopped", "Failed to start"}

(* While the app shows a running scan, the interface does hold a scan, the   *)
(* files are open, the poll timer is armed unless STOP is being served, log, *)
(* drained batch and queue together are the lines sent, in order, and the    *)
(* findings file has the findings of the log: a drain that outlived an       *)
(* earlier scan's timer never disturbs a newer scan.                         *)
RunningKeepsAll ==
  isRunning => /\ open /\ file
               /\ timer \/ pc = "stopping"
               /\ log \o newLines \o buffer = FirstLines(sent)
               /\ noted = FindingsIn(log)

(* The log never has a gap, the list has every finding among the lines       *)
(* counted, and once the app is not running the archive it offers is the     *)
(* whole of both files, whichever path stopped the scan; it never states     *)
(* fewer findings than it holds.                                             *)
ArchiveIsLog == /\ log = FirstLines(Len(log))
                /\ findings = FindingsIn(FirstLines(executedCount))
                /\ ~isRunning => zip.log = log /\ zip.findings = noted
                /\ zip.total >= Len(zip.findings)

(* The app stops showing a running scan once the worker is done, whatever is *)
(* still queued and however late the ticks, and once STOP was pressed, also  *)
(* when the worker unwinds.  A worker that unwound is noticed by nobody: the *)
(* app shows a running scan until STOP (MobileScan!WaitMeansRunning).        *)
EndNoticed == /\ (isRunning /\ done) ~> ~isRunning
              /\ pc = "stopping" ~> ~isRunning

(* START is refused only while a scan is running.                            *)
RefusedMeansRunning == [][StartRefused => ~ended]_vars

(* When the app reports a scan as done, every line of it is in the log.      *)
DoneIsLogged == (~isRunning /\ open /\ pc = "idle") => log = FirstLines(sent)
=============================================================================
