------------------------------- MODULE ForkProbe -------------------------------
(* The arm64 backends of crates/injector.  macos_arm64.rs executes an        *)
(* instruction in a child that catches its fault (arm64_fault.rs) and writes *)
(* what it observed into a pipe; android_arm64.rs in a child that dies of    *)
(* it; ios_arm64.rs and ios_static_corpus.rs in the process itself.          *)
CONSTANTS Instructions      \* see ForkAssumption

VARIABLES host,             \* macos, android, ios
          asked, answer,    \* argument and result of execute
          parent,           \* execute, in the calling process
          child,            \* the code that runs the instruction
          status,           \* how the child ended, see waitpid
          pipe, fds,        \* what is in it; its ends that are open
          handlers, active, \* the signal handlers in force, PROBE_ACTIVE
          found,            \* PROBE_SIGNUM and its siblings
          ticking, ran, rang   \* alarm; the instruction started, the alarm
                               \* fired (history)

call == <<host, asked, answer>>
wire == <<pipe, fds>>
machinery == <<handlers, active, found>>
past == <<ran, rang>>
vars == <<call, parent, child, status, wire, machinery, ticking, past>>

(* arm64_fault catches these; SYS stands for any other that ends a process.  *)
ProbeSignals == {"ILL", "SEGV", "BUS", "FPE", "TRAP"}
Fatal == ProbeSignals \cup {"SYS"}
Signals == Fatal \cup {"ALRM", "none"}

(* How an instruction ends: it goes on to the breakpoint put behind it,      *)
(* returns to its caller, raises a signal, or does not end.                  *)
ForkAssumption ==
  Instructions \subseteq {"falls", "returns", "blocks"} \cup Fatal

Observed(valid, signum) == [valid |-> valid, signum |-> signum]

-----------------------------------------------------------------------------
(* execute_in_child, in the parent, and execute of the iOS backends.         *)

NewCall == /\ parent = "idle"
           /\ asked' \in Instructions
           /\ answer' = {}
           /\ ran' = FALSE /\ rang' = FALSE
           /\ UNCHANGED host

Execute == /\ NewCall
           /\ CASE host = "macos" -> /\ parent' = "read"
                                     /\ fds' = {"reader", "parent", "child"}
                                     /\ child' = "start"
                [] host = "android" -> /\ parent' = "wait"
                                       /\ child' = "start"
                                       /\ UNCHANGED fds
                [] host = "ios" -> /\ parent' = "probe"
                                   /\ child' = "mapped"
                                   /\ UNCHANGED fds
           /\ UNCHANGED <<status, pipe, machinery, ticking>>

(* pipe or fork fails, or a corpus does not have the instruction.            *)
Refuse == /\ NewCall
          /\ parent' = "failed"
          /\ UNCHANGED <<child, status, wire, machinery, ticking>>

(* The parent's copy of the write end has to go, or the pipe has no end.     *)
CloseWriter == /\ parent = "read" /\ "parent" \in fds
               /\ fds' = fds \ {"parent"}
               /\ UNCHANGED <<call, parent, child, status, pipe, machinery,
                              ticking, past>>

(* read_observation: 20 bytes, which are written at once, or none.           *)
ReadObservation ==
  /\ parent = "read" /\ "parent" \notin fds
  /\ \/ pipe # {}
     \/ "child" \notin fds
  /\ fds' = fds \ {"reader"}
  /\ parent' = "wait"
  /\ UNCHANGED <<call, child, status, pipe, machinery, ticking, past>>

(* It returns at once: the child is not waited for, its end not closed.      *)
ReadFails == /\ parent = "read" /\ "parent" \notin fds
             /\ parent' = "failed"
             /\ UNCHANGED <<call, child, status, wire, machinery, ticking, past>>

(* WIFSIGNALED; the code of an exit is not looked at.                        *)
Died == IF status = "exit" THEN "none" ELSE status

Conclusion == IF pipe # {} THEN pipe ELSE {Observed(TRUE, Died)}

(* Mutant: with the observation there, the child is not waited for.          *)
WaitUnlessObserved ==
  /\ parent = "wait"
  /\ IF pipe # {} THEN UNCHANGED <<child, status>>
     ELSE child = "gone" /\ child' = "none" /\ status' = "none"
  /\ answer' = Conclusion
  /\ pipe' = {}
  /\ parent' = "idle"
  /\ UNCHANGED <<host, asked, fds, machinery, ticking, past>>

Wait == /\ parent = "wait" /\ child = "gone"
        /\ answer' = Conclusion
        /\ child' = "none" /\ status' = "none"
        /\ pipe' = {}
        /\ parent' = "idle"
        /\ UNCHANGED <<host, asked, fds, machinery, ticking, past>>

(* waitpid returns an error: on Android any, on macOS any but EINTR, which   *)
(* waits again.                                                              *)
WaitFails == /\ parent = "wait"
             /\ parent' = "failed"
             /\ UNCHANGED <<call, child, status, wire, machinery, ticking, past>>

-----------------------------------------------------------------------------
(* The child.                                                                *)

(* All that is the child's own ends with it.                                 *)
End(how) == /\ child' = "gone" /\ status' = how
            /\ fds' = fds \ {"child"}
            /\ ticking' = FALSE
            /\ IF host = "macos"
               THEN handlers' = "old" /\ active' = FALSE
               ELSE UNCHANGED <<handlers, active>>
            /\ UNCHANGED found

(* alarm(1); on Android the crash reporter's handlers go first.              *)
Start == /\ child = "start"
         /\ ticking' = TRUE
         /\ child' = "map"
         /\ UNCHANGED <<call, parent, status, wire, machinery, past>>

(* Its default action ends the child.                                        *)
Ring == /\ ticking
        /\ End("ALRM")
        /\ rang' = TRUE
        /\ UNCHANGED <<call, parent, pipe, ran>>

Map == /\ child = "map"
       /\ child' = "mapped"
       /\ UNCHANGED <<call, parent, status, wire, machinery, ticking, past>>

MapFails == /\ child = "map"
            /\ End("exit")
            /\ pipe' = IF host = "macos" THEN {Observed(FALSE, "none")} ELSE {}
            /\ UNCHANGED <<call, parent, past>>

-----------------------------------------------------------------------------
(* run_probe of arm64_fault.rs; android calls the instruction as it is.      *)

Catches == host # "android"

Install == /\ child = "mapped" /\ Catches
           /\ handlers' = "probe" /\ active' = TRUE
           /\ found' = "none"
           /\ child' = "armed"
           /\ UNCHANGED <<call, parent, status, wire, ticking, past>>

(* What was installed before the failure stays.                              *)
InstallFails == /\ child = "mapped" /\ Catches
                /\ handlers' = "mixed"
                /\ IF host = "ios"
                   THEN /\ parent' = "failed" /\ child' = "none"
                        /\ UNCHANGED pipe
                   ELSE /\ child' = "written"
                        /\ pipe' = {Observed(FALSE, "none")}
                        /\ UNCHANGED parent
                /\ UNCHANGED <<call, status, fds, active, found, ticking, past>>

Enter == /\ child = IF Catches THEN "armed" ELSE "mapped"
         /\ ran' = TRUE
         /\ child' = "running"
         /\ UNCHANGED <<call, parent, status, wire, machinery, ticking, rang>>

(* probe_signal_handler knows its breakpoint from the syndrome register.     *)
Caught == IF asked = "falls" THEN "none" ELSE asked

Catch == /\ child = "running" /\ Catches
         /\ asked \in ProbeSignals \cup {"falls"}
         /\ found' = Caught
         /\ child' = "found"
         /\ UNCHANGED <<call, parent, status, wire, handlers, active, ticking,
                        past>>

Return == /\ child = "running" /\ asked = "returns"
          /\ IF Catches
             THEN /\ child' = "found"
                  /\ UNCHANGED <<status, fds, machinery, ticking>>
             ELSE End("exit")
          /\ UNCHANGED <<call, parent, pipe, past>>

(* A signal nobody catches: the child dies of it, on iOS the whole app.      *)
Die == /\ child = "running"
       /\ asked \in IF Catches THEN {"SYS"} ELSE Fatal \cup {"falls"}
       /\ End(IF asked = "falls" THEN "TRAP" ELSE asked)
       /\ parent' = IF host = "ios" THEN "dead" ELSE parent
       /\ UNCHANGED <<call, pipe, past>>

(* run_probe returns; the child writes what it returned.                     *)
Restore == /\ child = "found"
           /\ active' = FALSE /\ handlers' = "old"
           /\ IF host = "ios"
              THEN /\ answer' = {Observed(TRUE, found)}
                   /\ parent' = "idle" /\ child' = "none"
                   /\ UNCHANGED pipe
              ELSE /\ pipe' = {Observed(TRUE, found)}
                   /\ child' = "written"
                   /\ UNCHANGED <<parent, answer>>
           /\ UNCHANGED <<host, asked, status, fds, found, ticking, past>>

Exit == /\ child = "written"
        /\ End("exit")
        /\ UNCHANGED <<call, parent, pipe, past>>

-----------------------------------------------------------------------------
Parent == CloseWriter \/ ReadObservation \/ ReadFails \/ Wait \/ WaitFails

Child == \/ Start \/ Map \/ MapFails \/ Install \/ InstallFails \/ Enter
         \/ Catch \/ Return \/ Die \/ Restore \/ Exit

Next == Execute \/ Refuse \/ Parent \/ Child \/ Ring

Idle == /\ parent = "idle" /\ child = "none" /\ status = "none"
        /\ pipe = {} /\ fds = {}
        /\ handlers = "old" /\ active = FALSE /\ found = "none"
        /\ ticking = FALSE /\ ran = FALSE

Init == /\ asked \in Instructions /\ answer = {} /\ rang = FALSE
        /\ Idle

-----------------------------------------------------------------------------
Observations == [valid : BOOLEAN, signum : Signals]

TypeOK ==
  /\ asked \in Instructions
  /\ answer \subseteq Observations /\ pipe \subseteq Observations
  /\ parent \in {"idle", "read", "wait", "probe", "failed", "dead"}
  /\ child \in {"none", "start", "map", "mapped", "armed", "running", "found",
                "written", "gone"}
  /\ status \in Signals \cup {"exit"}
  /\ fds \subseteq {"reader", "parent", "child"}
  /\ handlers \in {"old", "probe", "mixed"} /\ found \in Signals
  /\ {active, ticking, ran, rang} \subseteq BOOLEAN

(* How an instruction that ends shows: on Android the breakpoint behind it   *)
(* is reported like one of its own.                                          *)
Shows == IF asked = "falls" THEN IF Catches THEN "none" ELSE "TRAP"
         ELSE IF asked = "returns" THEN "none"
         ELSE asked

(* What a valid result reports happened to this instruction: it was entered  *)
(* and ended so, or its own alarm rang.  Android reports no signal also for  *)
(* a child that could not map its page, see CleanMeansRan.                   *)
ObservationIsOurs ==
  \A a \in answer :
    IF a.signum = "ALRM" THEN rang
    ELSE a.valid /\ (Catches \/ a.signum # "none") =>
           ran /\ a.signum = Shows

(* A result without a signal is that of an instruction that was executed.    *)
CleanMeansRan == \A a \in answer : a.valid /\ a.signum = "none" => ran

(* Between two executions there is nothing left of the first: no child to    *)
(* wait for, no end of a pipe, no handler, no PROBE_ACTIVE.                  *)
NothingLeft == parent = "idle" => /\ child = "none" /\ fds = {} /\ pipe = {}
                                  /\ handlers = "old" /\ ~active /\ ~ticking
===============================================================================
