------------------------------ MODULE LinuxProbe ------------------------------
(* crates/injector/src/linux_x86.rs: one instruction is executed with 1, 2,  *)
(* ... of its bytes in front of a page that cannot be executed, until it     *)
(* no longer faults there.  The signal handler puts the program back behind  *)
(* the probe; an alarm of one second breaks off a probe that does not end.   *)
(* What that needs is set up before the first instruction, and undone after  *)
(* the last.                                                                 *)
EXTENDS Integers, Sequences

CONSTANTS Instructions,     \* see LinuxAssumption
          MaxLength,        \* max_instruction_length, 15 in the code
          PageEnd,          \* address of the second page
          Wrap              \* 2^32: addresses are reported in 32 bits

VARIABLES asked, answer,    \* argument and result of execute
          at,               \* the program counter
          probeLength, mode,
          baseline,         \* BASELINE_CONTEXT is captured
          observation,      \* CURRENT_OBSERVATION
          result,
          alarm, rang,      \* armed; fired since it was armed (history)
          nullAccess,       \* -0: page 0 is mapped
          held,             \* what has been set up, in this order
          written           \* an instruction has written to page 0

call == <<asked, answer>>
probe == <<probeLength, result>>
handler == <<mode, baseline, observation>>
timer == <<alarm, rang>>
setup == <<nullAccess, held>>
memory == <<setup, written>>
vars == <<call, at, probe, handler, timer, memory>>

MemoryFaults == {"SEGV", "BUS"}
Faults == {"ILL", "FPE", "TRAP"} \cup MemoryFaults

(* What the processor reports; addr of a fault that has none is not used.    *)
Fault == [signum : Faults, addr : Nat]
NoAddress == Wrap - 1

(* length: bytes the processor decodes; faults: how it may end once they are *)
(* all there (TRAP is the single step); none if it blocks.                   *)
LinuxAssumption ==
  /\ MaxLength \in Nat \ {0} /\ PageEnd \in Nat /\ Wrap \in Nat \ {0}
  /\ PageEnd % Wrap # NoAddress
  /\ Instructions \subseteq [length : 1 .. MaxLength, faults : SUBSET Fault]

Nothing == [signum |-> "none", addr |-> 0]

-----------------------------------------------------------------------------
(* try_new_with_options, drop                                                *)

Handled == <<"ILL", "SEGV", "FPE", "BUS", "TRAP", "ALRM">>

(* The two pages and the protection of the second, page 0, the alternate     *)
(* signal stack, the handlers.                                               *)
Needed == <<"region", "guard">> \o (IF nullAccess THEN <<"null page">> ELSE <<>>)
            \o <<"signal stack">> \o Handled

SetUp == /\ at = "new"
         /\ held' = SubSeq(Needed, 1, Len(held) + 1)
         /\ at' = IF held' = Needed THEN "idle" ELSE "new"
         /\ UNCHANGED <<call, probe, handler, timer, nullAccess, written>>

(* A system call fails: what is held goes, the newest first.                 *)
SetUpFails == /\ at = "new"
              /\ at' = "undo"
              /\ UNCHANGED <<call, probe, handler, timer, memory>>

Front(s) == SubSeq(s, 1, Len(s) - 1)

(* Mutant: the handlers installed before the one that failed stay.           *)
UndoButHandlers ==
  /\ at = "undo"
  /\ IF held = <<>> \/ held[Len(held)] \in {Handled[i] : i \in DOMAIN Handled}
     THEN at' = "refused" /\ UNCHANGED held
     ELSE held' = Front(held) /\ UNCHANGED at
  /\ UNCHANGED <<call, probe, handler, timer, nullAccess, written>>

Undo == /\ at = "undo"
        /\ IF held = <<>> THEN at' = "refused" /\ UNCHANGED held
           ELSE held' = Front(held) /\ UNCHANGED at
        /\ UNCHANGED <<call, probe, handler, timer, nullAccess, written>>

Drop == /\ at = "idle"
        /\ at' = "drop"
        /\ UNCHANGED <<call, probe, handler, timer, memory>>

(* The fields in the order they are declared; the handlers, which come last, *)
(* the newest first.                                                         *)
Release ==
  /\ at = "drop"
  /\ IF held = <<>> THEN at' = "gone" /\ UNCHANGED held
     ELSE /\ held' = IF Head(held) = "ILL" THEN Front(held) ELSE Tail(held)
          /\ UNCHANGED at
  /\ UNCHANGED <<call, probe, handler, timer, nullAccess, written>>

-----------------------------------------------------------------------------
(* execute: the loop over probe lengths starts.                              *)
Execute == /\ at = "idle"
           /\ asked' \in Instructions
           /\ answer' = {}
           /\ probeLength' = 1
           /\ at' = "arm"
           /\ UNCHANGED <<result, handler, timer, memory>>

(* Mutant: no alarm.                                                         *)
ArmNot == /\ at = "arm"
          /\ written' = FALSE
          /\ rang' = FALSE
          /\ at' = "armed"
          /\ UNCHANGED <<call, probe, handler, alarm, setup>>

(* Mutant: page 0 is not zeroed.                                             *)
ArmOnly == /\ at = "arm"
           /\ alarm' = TRUE /\ rang' = FALSE
           /\ at' = "armed"
           /\ UNCHANGED <<call, probe, handler, memory>>

(* load_probe, page 0 is zeroed, ProbeAlarm::arm.                            *)
Arm == /\ at = "arm"
       /\ written' = FALSE
       /\ alarm' = TRUE /\ rang' = FALSE
       /\ at' = "armed"
       /\ UNCHANGED <<call, probe, handler, setup>>

(* jump_to_probe.                                                            *)
EnterCapture == /\ at = "armed"
                /\ mode' = "CaptureState"
                /\ at' = "ud2"
                /\ UNCHANGED <<call, probe, baseline, observation, timer, memory>>

EnterProbe == /\ at = "captured"
              /\ mode' = "ExecuteProbe"
              /\ at' = "probe"
              /\ UNCHANGED <<call, probe, baseline, observation, timer, memory>>

-----------------------------------------------------------------------------
(* native_signal_handler.  In CaptureState it goes on two bytes behind the   *)
(* place of the signal, which is an instruction only after ud2.  Otherwise   *)
(* it restores the baseline: the frame of jump_to_probe, if it is still in   *)
(* there, and what the compiler has left of it, if not.                      *)
AfterSignal ==
  IF mode = "CaptureState"
  THEN IF at = "ud2" THEN {"captured"} ELSE {"astray"}
  ELSE IF at \in {"probe", "resumed"} THEN {"resumed"}
       ELSE {"resumed", "astray"}

(* Mutant: the first observation stays.                                      *)
HandleOnce(signum, addr) ==
  /\ at' \in AfterSignal
  /\ IF mode = "CaptureState"
     THEN baseline' = TRUE /\ UNCHANGED observation
     ELSE /\ observation' = IF observation = Nothing
                            THEN [signum |-> signum, addr |-> addr]
                            ELSE observation
          /\ UNCHANGED baseline
  /\ UNCHANGED <<call, probe, mode>>

Handle(signum, addr) ==
  /\ at' \in AfterSignal
  /\ IF mode = "CaptureState"
     THEN baseline' = TRUE /\ UNCHANGED observation
     ELSE /\ observation' = [signum |-> signum, addr |-> addr]
          /\ UNCHANGED baseline
  /\ UNCHANGED <<call, probe, mode>>

Ud2 == /\ at = "ud2"
       /\ Handle("ILL", 0)
       /\ UNCHANGED <<timer, memory>>

(* Where the instruction lies, its first missing byte is the first of the    *)
(* page behind.                                                              *)
Missing == probeLength < asked.length

Fetch == /\ at = "probe" /\ Missing
         /\ Handle("SEGV", PageEnd)
         /\ UNCHANGED <<timer, memory>>

Run == /\ at = "probe" /\ ~Missing
       /\ \E f \in asked.faults : Handle(f.signum, f.addr)
       /\ written' \in {written, nullAccess}
       /\ UNCHANGED <<timer, setup>>

(* SIGALRM, anywhere between Arm and Disarm.                                 *)
Ring == /\ alarm
        /\ at # "astray"
        /\ alarm' = FALSE /\ rang' = TRUE
        /\ Handle("ALRM", 0)
        /\ UNCHANGED memory

-----------------------------------------------------------------------------
(* run_probe returns what it finds, and drops the alarm after that.          *)
Observe == /\ at = "resumed"
           /\ result' = observation
           /\ at' = "observed"
           /\ UNCHANGED <<call, probeLength, handler, timer, memory>>

Disarm == /\ at = "observed"
          /\ alarm' = FALSE
          /\ at' = "judge"
          /\ UNCHANGED <<call, probe, handler, rang, memory>>

(* normalize_fault_addr.                                                     *)
Reported(o) == IF o.signum \in MemoryFaults THEN o.addr % Wrap ELSE NoAddress

(* Mutant: any memory fault is taken for a missing byte.                     *)
ContinuesOnFault == /\ result.signum \in MemoryFaults
                    /\ probeLength < MaxLength

(* Mutant: one probe more than the longest instruction needs.                *)
ContinuesPast == /\ Reported(result) = PageEnd % Wrap
                 /\ probeLength <= MaxLength

(* should_continue_probing.                                                  *)
Continues == /\ Reported(result) = PageEnd % Wrap
             /\ probeLength < MaxLength

Answer == /\ at = "judge" /\ ~Continues
          /\ answer' = {[valid |-> TRUE, length |-> probeLength,
                         signum |-> result.signum]}
          /\ at' = "idle"
          /\ UNCHANGED <<asked, probe, handler, timer, memory>>

Lengthen == /\ at = "judge" /\ Continues
            /\ probeLength' = probeLength + 1
            /\ at' = "arm"
            /\ UNCHANGED <<call, result, handler, timer, memory>>

Program == \/ SetUp \/ Undo \/ Release
           \/ Arm \/ EnterCapture \/ Ud2 \/ EnterProbe \/ Fetch \/ Run
           \/ Observe \/ Disarm \/ Lengthen \/ Answer

Next == SetUpFails \/ Execute \/ Program \/ Ring \/ Drop

Unused == /\ at = "new" /\ nullAccess = FALSE /\ held = <<>>
          /\ written = FALSE
          /\ probeLength = 1 /\ result = Nothing
          /\ mode = "CaptureState" /\ baseline = FALSE
          /\ observation = Nothing
          /\ alarm = FALSE

Init == /\ asked \in Instructions /\ answer = {} /\ rang = FALSE
        /\ at = "new" /\ nullAccess \in BOOLEAN /\ held = <<>>
        /\ written = FALSE
        /\ probeLength = 1 /\ result = Nothing
        /\ mode = "CaptureState" /\ baseline = FALSE
        /\ observation = Nothing
        /\ alarm = FALSE

-----------------------------------------------------------------------------
Observation == [signum : Faults \cup {"ALRM", "none"}, addr : Nat]

TypeOK ==
  /\ asked \in Instructions
  /\ \A a \in answer : a \in [valid : {TRUE}, length : 1 .. MaxLength,
                              signum : Faults \cup {"ALRM"}]
  /\ nullAccess \in BOOLEAN
  /\ \E i \in 1 .. Len(Needed) + 1, k \in 0 .. Len(Needed) :
       held = SubSeq(Needed, i, k)
  /\ at \in {"new", "undo", "refused", "drop", "gone", "idle", "arm", "armed",
             "ud2", "captured", "probe", "resumed", "observed", "judge",
             "astray"}
  /\ probeLength \in 1 .. MaxLength
  /\ mode \in {"CaptureState", "ExecuteProbe"}
  /\ mode = "ExecuteProbe" => baseline       \* the handler's expect
  /\ observation \in Observation /\ result \in Observation
  /\ alarm \in BOOLEAN /\ rang \in BOOLEAN

EndsAtPage(f) == f.signum \in MemoryFaults /\ f.addr % Wrap = PageEnd % Wrap

(* What execute returns is how this instruction may end, or SIGALRM if its   *)
(* own alarm rang; never what an earlier probe or another instruction left   *)
(* in CURRENT_OBSERVATION.  The length reported without an alarm is that of  *)
(* the instruction; at least that, if the instruction itself may fault at an *)
(* address that is, in 32 bits, the end of the page.                         *)
ObservationIsOurs ==
  \A a \in answer :
    IF a.signum = "ALRM" THEN rang
    ELSE /\ \E f \in asked.faults : f.signum = a.signum
         /\ a.length >= asked.length
         /\ (\A f \in asked.faults : ~EndsAtPage(f)) => a.length = asked.length

(* From the first instruction to the last all that was set up is there, and  *)
(* an alarm is armed at no other time; an instruction finds page 0 as empty  *)
(* as the first did.  A backend that could not be made, or is dropped, has   *)
(* left nothing of it.                                                       *)
NothingLeft ==
  /\ at \in {"refused", "gone"} => held = <<>>
  /\ at \notin {"new", "undo", "refused", "drop", "gone"} => held = Needed
  /\ alarm => held = Needed
  /\ at = "probe" => ~written
===============================================================================
