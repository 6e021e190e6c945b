------------------------------- MODULE Backends -------------------------------
(* The backend of a host, whichever it is: what the engine and the scan      *)
(* interface rely on when they call execute.                                 *)
EXTENDS Integers

CONSTANTS Hosts,            \* of linux, macos, android, ios
          X86Instructions, ArmInstructions, MaxLength, PageEnd, Wrap

VARIABLES host, asked, answer,
          \* linux
          at, probeLength, mode, baseline, observation, result, alarm,
          nullAccess, held, written,
          \* the others
          parent, child, status, pipe, fds, handlers, active, found, ticking,
          ran,
          \* all
          rang

LinuxVars == <<at, probeLength, mode, baseline, observation, result, alarm,
               nullAccess, held, written>>
ArmVars == <<parent, child, status, pipe, fds, handlers, active, found,
             ticking, ran>>
vars == <<host, asked, answer, LinuxVars, ArmVars, rang>>

Linux == INSTANCE LinuxProbe WITH Instructions <- X86Instructions
Arm == INSTANCE ForkProbe WITH Instructions <- ArmInstructions

ASSUME BackendsAssumption ==
  /\ Hosts \subseteq {"linux", "macos", "android", "ios"}
  /\ Linux!LinuxAssumption /\ Arm!ForkAssumption

Init == /\ host \in Hosts
        /\ IF host = "linux" THEN Linux!Init /\ Arm!Idle
           ELSE Arm!Init /\ Linux!Unused

LinuxNext == host = "linux" /\ Linux!Next /\ UNCHANGED <<host, ArmVars>>
ArmNext == host # "linux" /\ Arm!Next /\ UNCHANGED LinuxVars

Next == LinuxNext \/ ArmNext

LinuxProgram == /\ host = "linux" /\ Linux!Program
                /\ UNCHANGED <<host, ArmVars>>
LinuxRing == host = "linux" /\ Linux!Ring /\ UNCHANGED <<host, ArmVars>>
ArmParent == host # "linux" /\ Arm!Parent /\ UNCHANGED LinuxVars
ArmChild == host # "linux" /\ Arm!Child /\ UNCHANGED LinuxVars
ArmRing == host # "linux" /\ Arm!Ring /\ UNCHANGED LinuxVars

Spec == Init /\ [][Next]_vars

(* Processes run, and an alarm fires that is not dropped.                    *)
FairSpec == /\ Spec
            /\ WF_vars(LinuxProgram) /\ WF_vars(LinuxRing)
            /\ WF_vars(ArmParent) /\ WF_vars(ArmChild) /\ WF_vars(ArmRing)

-----------------------------------------------------------------------------
TypeOK == /\ host \in Hosts
          /\ IF host = "linux" THEN Linux!TypeOK ELSE Arm!TypeOK

(* What execute returns is what became of the instruction it was called      *)
(* with, not of an earlier one, or the alarm that broke this one off; and    *)
(* the length found by trial on Linux is that of the instruction.            *)
ObservationIsOurs == IF host = "linux" THEN Linux!ObservationIsOurs
                     ELSE Arm!ObservationIsOurs

(* An execution that returned without an error has left no child, no open    *)
(* descriptor and no signal handler behind.  What the Linux backend keeps    *)
(* for all executions is there for each, and none of it after the last or    *)
(* when some of it could not be had.                                         *)
NothingLeft == IF host = "linux" THEN Linux!NothingLeft ELSE Arm!NothingLeft

(* A valid result without a signal is that of an instruction that was        *)
(* executed.                                                                 *)
CleanMeansRan == host # "linux" => Arm!CleanMeansRan

(* An execution ends: with a result, an error, or the process.  On Linux an  *)
(* alarm in CaptureState may lead it astray, or be spent when an instruction *)
(* that does not end begins; on iOS nothing breaks off such an instruction.  *)
(* A Linux backend that is given up is given up to the end.                  *)
ExecutionReturns ==
  /\ (host = "linux" /\ at \in {"undo", "drop"}) ~> at \in {"refused", "gone"}
  /\ (host = "linux" /\ at = "arm") ~> \/ at \in {"idle", "astray"}
                                       \/ at = "probe" /\ rang
  /\ (host # "linux" /\ parent # "idle" /\ ~(host = "ios" /\ asked = "blocks"))
       ~> (parent \in {"idle", "failed", "dead"})
===============================================================================
