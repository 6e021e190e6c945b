---------------------------- MODULE BackendsProofs ----------------------------
(* Proofs about Backends, for any instructions, any length and page size: an *)
(* answer belongs to the instruction asked, and nothing is left behind.      *)
EXTENDS Backends, Sequences, SequenceTheorems, TLAPS

(* The Linux backend: what is held, what the handler would do with a signal, *)
(* and whose observation there is, at each place of the program.             *)
Needed == Linux!Needed
Preparing == {"new", "undo", "refused", "drop", "gone"}

(* A set-up holds the first of what it needs, and not yet all.               *)
HeldInv ==
  /\ at \in {"new", "undo"} => held = SubSeq(Needed, 1, Len(held))
  /\ at = "new" => held # Needed
  /\ at \notin Preparing => held = Needed
  /\ at \in {"refused", "gone"} => held = <<>>

(* An alarm is armed between arming and dropping it only, the mode is that   *)
(* of the place, and a baseline is there for whoever needs it.               *)
ModeInv ==
  /\ alarm => at \in {"armed", "ud2", "captured", "probe", "resumed",
                      "observed"}
  /\ at \in {"ud2", "captured"} => mode = "CaptureState"
  /\ at \in {"probe", "resumed", "observed", "judge"} => mode = "ExecuteProbe"
  /\ at = "captured" => baseline
  /\ mode = "ExecuteProbe" => baseline
  /\ at \in {"armed", "ud2", "captured", "probe"} => ~written

(* What can be observed of the probe under way: its own alarm, its first     *)
(* missing byte, or one of the faults of a whole instruction.                *)
OfProbe(o) ==
  \/ o.signum = "ALRM" /\ rang
  \/ Linux!Missing /\ o = [signum |-> "SEGV", addr |-> PageEnd]
  \/ ~Linux!Missing /\ \E f \in asked.faults :
                         o = [signum |-> f.signum, addr |-> f.addr]

MayEndAtPage == \E f \in asked.faults : Linux!EndsAtPage(f)

ProbeInv ==
  /\ at = "resumed" => OfProbe(observation)
  /\ at \in {"observed", "judge"} => OfProbe(result)
  /\ answer # {} => at \in {"idle", "drop", "gone"}
  /\ at \notin Preparing \cup {"idle"} =>
       probeLength <= asked.length \/ MayEndAtPage

LinuxInv == /\ Linux!TypeOK
            /\ HeldInv /\ ModeInv /\ ProbeInv
            /\ Linux!ObservationIsOurs

-----------------------------------------------------------------------------
(* The other backends: where the parent can be and what is left there.       *)
ParentInv ==
  /\ parent = "idle" => /\ child = "none" /\ status = "none"
                        /\ fds = {} /\ pipe = {}
                        /\ handlers = "old" /\ ~active /\ ~ticking
  /\ parent # "idle" => answer = {}
  /\ host = "macos" => parent \in {"idle", "read", "wait", "failed"}
  /\ host = "android" => parent \in {"idle", "wait", "failed"}
  /\ host = "ios" => parent \in {"idle", "probe", "failed", "dead"}
  /\ parent = "wait" => fds \subseteq {"child"}

ChildInv ==
  /\ host # "macos" => fds = {} /\ pipe = {}
  /\ host = "android" => /\ handlers = "old" /\ ~active /\ found = "none"
                         /\ child \notin {"armed", "found", "written"}
  /\ host = "ios" => /\ ~ticking
                     /\ child \in {"none", "mapped", "armed", "running",
                                   "found", "gone"}
                     /\ child \in {"mapped", "armed", "running", "found"} =>
                          parent = "probe"
  /\ child = "gone" => /\ ~ticking /\ "child" \notin fds
                       /\ host = "macos" => handlers = "old" /\ ~active
  /\ status = "none" <=> child # "gone"
  /\ child = "none" => ~ticking

(* What has been found is of this instruction, whichever way it is told.     *)
FoundInv ==
  /\ child \in {"armed", "running"} => found = "none"
  /\ child \in {"running", "found"} => ran
  /\ child = "found" => found = Arm!Shows
  /\ \A p \in pipe : p.signum # "ALRM" /\ (p.valid => ran /\ p.signum = Arm!Shows)
  /\ host = "macos" /\ (child = "written" \/ status = "exit") => pipe # {}
  /\ status = "ALRM" => rang
  /\ status \in Arm!Fatal => ran /\ status = Arm!Shows

ArmInv == /\ Arm!TypeOK
          /\ ParentInv /\ ChildInv /\ FoundInv
          /\ Arm!ObservationIsOurs

IInv == /\ host \in Hosts
        /\ IF host = "linux" THEN LinuxInv ELSE ArmInv
-----------------------------------------------------------------------------
(* The constants of the Linux backend.                                       *)
LEMMA LinuxConstants ==
  /\ MaxLength \in Nat \ {0} /\ PageEnd \in Nat /\ Wrap \in Nat \ {0}
  /\ PageEnd % Wrap # Linux!NoAddress
  /\ X86Instructions \subseteq [length : 1 .. MaxLength,
                                faults : SUBSET Linux!Fault]
BY BackendsAssumption DEF Linux!LinuxAssumption

(* What the handler can be told of is an observation.                        *)
LEMMA Observable ==
  /\ [signum |-> "ALRM", addr |-> 0] \in Linux!Observation
  /\ [signum |-> "ILL", addr |-> 0] \in Linux!Observation
  /\ [signum |-> "SEGV", addr |-> PageEnd] \in Linux!Observation
  /\ \A f \in Linux!Fault :
       /\ f.signum \in Linux!Faults
       /\ [signum |-> f.signum, addr |-> f.addr] \in Linux!Observation
BY LinuxConstants
   DEF Linux!Observation, Linux!Fault, Linux!Faults, Linux!MemoryFaults

(* What a set-up needs depends on -0 alone.                                  *)
LEMMA NeededKept == UNCHANGED nullAccess => Linux!Needed' = Linux!Needed
BY DEF Linux!Needed

(* The shape of what is held, for steps that leave it alone.                 *)
HeldType == \E i \in 1 .. Len(Linux!Needed) + 1, k \in 0 .. Len(Linux!Needed) :
              held = SubSeq(Linux!Needed, i, k)

LEMMA HeldKept == HeldType /\ UNCHANGED <<held, nullAccess>> => HeldType'
BY NeededKept DEF HeldType

(* While instructions are executed all stays held.                           *)
LEMMA HeldStays ==
  ASSUME LinuxInv, UNCHANGED <<held, nullAccess>>,
         at \notin Preparing, at' \notin Preparing \/ at' = "drop"
  PROVE  HeldType' /\ HeldInv'
<1>1. HeldType' /\ Linux!Needed' = Linux!Needed
  BY HeldKept, NeededKept DEF LinuxInv, Linux!TypeOK, HeldType
<1> QED BY <1>1 DEF LinuxInv, HeldInv, Preparing, Needed

(* Of the instruction and the probe the same can be observed while both stay.*)
LEMMA OfProbeStays ==
  ASSUME UNCHANGED <<asked, probeLength>>, rang => rang'
  PROVE  /\ \A o : OfProbe(o) => OfProbe(o)'
         /\ MayEndAtPage' = MayEndAtPage
BY DEF OfProbe, MayEndAtPage, Linux!Missing, Linux!EndsAtPage

(* An instruction comes in, and is probed with one byte.                     *)
LEMMA ExecuteStep == LinuxInv /\ Linux!Execute => LinuxInv'
<1> SUFFICES ASSUME LinuxInv, Linux!Execute PROVE LinuxInv'
  OBVIOUS
<1> USE DEF Linux!Execute, Linux!call, Linux!probe, Linux!handler, Linux!timer,
           Linux!setup, Linux!memory
<1>1. HeldType' /\ HeldInv' BY HeldStays DEF LinuxInv, ModeInv, Preparing
<1>. 1 \in 1 .. MaxLength BY LinuxConstants
<1>2. Linux!TypeOK' BY <1>1 DEF LinuxInv, Linux!TypeOK, HeldType
<1>3. ModeInv' BY DEF LinuxInv, ModeInv
<1>4. ProbeInv' BY LinuxConstants DEF LinuxInv, ProbeInv, ModeInv, Preparing
<1>5. Linux!ObservationIsOurs'
  BY DEF LinuxInv, ProbeInv, Linux!ObservationIsOurs
<1> QED BY <1>1, <1>2, <1>3, <1>4, <1>5 DEF LinuxInv

(* load_probe and the alarm.                                                 *)
LEMMA ArmStep == LinuxInv /\ Linux!Arm => LinuxInv'
<1> SUFFICES ASSUME LinuxInv, Linux!Arm PROVE LinuxInv'
  OBVIOUS
<1> USE DEF Linux!Arm, Linux!call, Linux!probe, Linux!handler, Linux!timer,
           Linux!setup, Linux!memory
<1>1. HeldType' /\ HeldInv' BY HeldStays DEF LinuxInv, ModeInv, Preparing
<1>2. Linux!TypeOK' BY <1>1 DEF LinuxInv, ModeInv, Linux!TypeOK, HeldType
<1>3. ModeInv' BY DEF LinuxInv, ModeInv
<1>4. ProbeInv'
  BY DEF LinuxInv, ProbeInv, MayEndAtPage, Linux!EndsAtPage, Preparing
<1>5. Linux!ObservationIsOurs'
  BY DEF LinuxInv, ProbeInv, Linux!ObservationIsOurs
<1> QED BY <1>1, <1>2, <1>3, <1>4, <1>5 DEF LinuxInv

(* The mode is stored, and ud2 is next.                                      *)
LEMMA EnterCaptureStep == LinuxInv /\ Linux!EnterCapture => LinuxInv'
<1> SUFFICES ASSUME LinuxInv, Linux!EnterCapture PROVE LinuxInv'
  OBVIOUS
<1> USE DEF Linux!EnterCapture, Linux!call, Linux!probe, Linux!handler, Linux!timer,
           Linux!setup, Linux!memory
<1>1. HeldType' /\ HeldInv' BY HeldStays DEF LinuxInv, ModeInv, Preparing
<1>2. Linux!TypeOK' BY <1>1 DEF LinuxInv, ModeInv, Linux!TypeOK, HeldType
<1>3. ModeInv' BY DEF LinuxInv, ModeInv
<1>4. ProbeInv' BY OfProbeStays DEF LinuxInv, ProbeInv, ModeInv, Preparing
<1>5. Linux!ObservationIsOurs'
  BY DEF LinuxInv, ProbeInv, Linux!ObservationIsOurs
<1> QED BY <1>1, <1>2, <1>3, <1>4, <1>5 DEF LinuxInv

(* The mode is stored, and the probe is next.                                *)
LEMMA EnterProbeStep == LinuxInv /\ Linux!EnterProbe => LinuxInv'
<1> SUFFICES ASSUME LinuxInv, Linux!EnterProbe PROVE LinuxInv'
  OBVIOUS
<1> USE DEF Linux!EnterProbe, Linux!call, Linux!probe, Linux!handler, Linux!timer,
           Linux!setup, Linux!memory
<1>1. HeldType' /\ HeldInv' BY HeldStays DEF LinuxInv, ModeInv, Preparing
<1>2. Linux!TypeOK' BY <1>1 DEF LinuxInv, ModeInv, Linux!TypeOK, HeldType
<1>3. ModeInv' BY DEF LinuxInv, ModeInv
<1>4. ProbeInv' BY OfProbeStays DEF LinuxInv, ProbeInv, ModeInv, Preparing
<1>5. Linux!ObservationIsOurs'
  BY DEF LinuxInv, ProbeInv, Linux!ObservationIsOurs
<1> QED BY <1>1, <1>2, <1>3, <1>4, <1>5 DEF LinuxInv

(* run_probe reads the observation.                                          *)
LEMMA ObserveStep == LinuxInv /\ Linux!Observe => LinuxInv'
<1> SUFFICES ASSUME LinuxInv, Linux!Observe PROVE LinuxInv'
  OBVIOUS
<1> USE DEF Linux!Observe, Linux!call, Linux!probe, Linux!handler, Linux!timer,
           Linux!setup, Linux!memory
<1>1. HeldType' /\ HeldInv' BY HeldStays DEF LinuxInv, ModeInv, Preparing
<1>2. Linux!TypeOK' BY <1>1 DEF LinuxInv, ModeInv, Linux!TypeOK, HeldType
<1>3. ModeInv' BY DEF LinuxInv, ModeInv
<1>4. ProbeInv' BY OfProbeStays DEF LinuxInv, ProbeInv, ModeInv, Preparing
<1>5. Linux!ObservationIsOurs'
  BY DEF LinuxInv, ProbeInv, Linux!ObservationIsOurs
<1> QED BY <1>1, <1>2, <1>3, <1>4, <1>5 DEF LinuxInv

(* The alarm is dropped.                                                     *)
LEMMA DisarmStep == LinuxInv /\ Linux!Disarm => LinuxInv'
<1> SUFFICES ASSUME LinuxInv, Linux!Disarm PROVE LinuxInv'
  OBVIOUS
<1> USE DEF Linux!Disarm, Linux!call, Linux!probe, Linux!handler, Linux!timer,
           Linux!setup, Linux!memory
<1>1. HeldType' /\ HeldInv' BY HeldStays DEF LinuxInv, ModeInv, Preparing
<1>2. Linux!TypeOK' BY <1>1 DEF LinuxInv, ModeInv, Linux!TypeOK, HeldType
<1>3. ModeInv' BY DEF LinuxInv, ModeInv
<1>4. ProbeInv' BY OfProbeStays DEF LinuxInv, ProbeInv, ModeInv, Preparing
<1>5. Linux!ObservationIsOurs'
  BY DEF LinuxInv, ProbeInv, Linux!ObservationIsOurs
<1> QED BY <1>1, <1>2, <1>3, <1>4, <1>5 DEF LinuxInv

(* The signal of ud2.                                                        *)
LEMMA Ud2Step == LinuxInv /\ Linux!Ud2 => LinuxInv'
<1> SUFFICES ASSUME LinuxInv, Linux!Ud2 PROVE LinuxInv'
  OBVIOUS
<1> USE DEF Linux!Ud2, Linux!call, Linux!probe, Linux!handler, Linux!timer,
           Linux!setup, Linux!memory,
           Linux!Handle, Linux!AfterSignal
<1>1. HeldType' /\ HeldInv' BY HeldStays DEF LinuxInv, ModeInv, Preparing
<1>2. Linux!TypeOK' BY <1>1, Observable DEF LinuxInv, ModeInv, Linux!TypeOK, HeldType
<1>3. ModeInv' BY DEF LinuxInv, ModeInv
<1>4. ProbeInv' BY OfProbeStays DEF LinuxInv, ProbeInv, ModeInv, Preparing
<1>5. Linux!ObservationIsOurs'
  BY DEF LinuxInv, ProbeInv, Linux!ObservationIsOurs
<1> QED BY <1>1, <1>2, <1>3, <1>4, <1>5 DEF LinuxInv

(* A missing byte.                                                           *)
LEMMA FetchStep == LinuxInv /\ Linux!Fetch => LinuxInv'
<1> SUFFICES ASSUME LinuxInv, Linux!Fetch PROVE LinuxInv'
  OBVIOUS
<1> USE DEF Linux!Fetch, Linux!call, Linux!probe, Linux!handler, Linux!timer,
           Linux!setup, Linux!memory,
           Linux!Handle, Linux!AfterSignal
<1>1. HeldType' /\ HeldInv' BY HeldStays DEF LinuxInv, ModeInv, Preparing
<1>2. Linux!TypeOK' BY <1>1, Observable DEF LinuxInv, ModeInv, Linux!TypeOK, HeldType
<1>3. ModeInv' BY DEF LinuxInv, ModeInv
<1>4. ProbeInv' BY OfProbeStays DEF LinuxInv, ProbeInv, ModeInv, Preparing, OfProbe
<1>5. Linux!ObservationIsOurs'
  BY DEF LinuxInv, ProbeInv, Linux!ObservationIsOurs
<1> QED BY <1>1, <1>2, <1>3, <1>4, <1>5 DEF LinuxInv

(* The instruction runs.                                                     *)
LEMMA RunStep == LinuxInv /\ Linux!Run => LinuxInv'
<1> SUFFICES ASSUME LinuxInv, Linux!Run PROVE LinuxInv'
  OBVIOUS
<1> USE DEF Linux!Run, Linux!call, Linux!probe, Linux!handler, Linux!timer,
           Linux!setup, Linux!memory,
           Linux!Handle, Linux!AfterSignal
<1>1. HeldType' /\ HeldInv' BY HeldStays DEF LinuxInv, ModeInv, Preparing
<1>2. Linux!TypeOK' BY <1>1, Observable, LinuxConstants DEF LinuxInv, ModeInv, Linux!TypeOK, HeldType
<1>3. ModeInv' BY DEF LinuxInv, ModeInv
<1>4. ProbeInv' BY OfProbeStays DEF LinuxInv, ProbeInv, ModeInv, Preparing, OfProbe
<1>5. Linux!ObservationIsOurs'
  BY DEF LinuxInv, ProbeInv, Linux!ObservationIsOurs
<1> QED BY <1>1, <1>2, <1>3, <1>4, <1>5 DEF LinuxInv

(* The alarm, wherever the program is.                                       *)
LEMMA RingStep == LinuxInv /\ Linux!Ring => LinuxInv'
<1> SUFFICES ASSUME LinuxInv, Linux!Ring PROVE LinuxInv'
  OBVIOUS
<1> USE DEF Linux!Ring, Linux!call, Linux!probe, Linux!handler, Linux!timer,
           Linux!setup, Linux!memory,
           Linux!Handle, Linux!AfterSignal
<1>1. HeldType' /\ HeldInv' BY HeldStays DEF LinuxInv, ModeInv, Preparing
<1>2. Linux!TypeOK' BY <1>1, Observable DEF LinuxInv, ModeInv, Linux!TypeOK, HeldType
<1>3. ModeInv' BY DEF LinuxInv, ModeInv, Linux!TypeOK
<1>4. ProbeInv' BY OfProbeStays DEF LinuxInv, ProbeInv, ModeInv, Preparing, OfProbe
<1>5. Linux!ObservationIsOurs'
  BY DEF LinuxInv, ProbeInv, Linux!ObservationIsOurs
<1> QED BY <1>1, <1>2, <1>3, <1>4, <1>5 DEF LinuxInv

(* What judge sees: a missing byte looks like the end of the page, and a     *)
(* whole instruction does so only if it may end there.                       *)
LEMMA Judged ==
  ASSUME LinuxInv, at = "judge"
  PROVE  /\ asked.length \in 1 .. MaxLength /\ probeLength \in 1 .. MaxLength
         /\ Linux!Continues => Linux!Missing \/ MayEndAtPage
         /\ ~Linux!Continues => result.signum = "ALRM" \/ ~Linux!Missing
         /\ result.signum = "ALRM" => rang
         /\ result.signum # "ALRM" /\ ~Linux!Missing =>
              \E f \in asked.faults : f.signum = result.signum
<1>1. OfProbe(result) BY DEF LinuxInv, ProbeInv
<1>2. /\ asked.length \in 1 .. MaxLength /\ probeLength \in 1 .. MaxLength
      /\ asked.faults \subseteq Linux!Fault
  BY LinuxConstants DEF LinuxInv, Linux!TypeOK
<1>3. ASSUME result.signum = "ALRM"
      PROVE  rang /\ ~Linux!Continues
  <2>1. Linux!Reported(result) = Linux!NoAddress
    BY <1>3 DEF Linux!Reported, Linux!MemoryFaults
  <2>2. \A f \in Linux!Fault : f.signum # "ALRM"
    BY Observable DEF Linux!Faults, Linux!MemoryFaults
  <2>3. rang BY <1>1, <1>2, <1>3, <2>2 DEF OfProbe
  <2> QED BY <2>1, <2>3, LinuxConstants DEF Linux!Continues
<1>4. CASE Linux!Missing /\ result = [signum |-> "SEGV", addr |-> PageEnd]
  <2>1. Linux!Reported(result) = PageEnd % Wrap
    BY <1>4 DEF Linux!Reported, Linux!MemoryFaults
  <2>2. Linux!Continues BY <1>2, <1>4, <2>1, LinuxConstants
                        DEF Linux!Continues, Linux!Missing
  <2> QED BY <1>2, <1>4, <2>2
<1>5. CASE /\ ~Linux!Missing
           /\ \E f \in asked.faults :
                result = [signum |-> f.signum, addr |-> f.addr]
  <2>1. PICK f \in asked.faults :
          result = [signum |-> f.signum, addr |-> f.addr]
    BY <1>5
  <2>2. Linux!Continues => Linux!EndsAtPage(f)
    BY <2>1, LinuxConstants
       DEF Linux!Continues, Linux!Reported, Linux!EndsAtPage
  <2> QED BY <1>2, <1>3, <1>5, <2>1, <2>2 DEF MayEndAtPage
<1> QED BY <1>1, <1>2, <1>3, <1>4, <1>5 DEF OfProbe

(* execute returns what it found.                                            *)
LEMMA AnswerStep == LinuxInv /\ Linux!Answer => LinuxInv'
<1> SUFFICES ASSUME LinuxInv, Linux!Answer PROVE LinuxInv'
  OBVIOUS
<1> USE DEF Linux!Answer, Linux!probe, Linux!handler, Linux!timer,
           Linux!setup, Linux!memory
<1>1. HeldType' /\ HeldInv' BY HeldStays DEF LinuxInv, ModeInv, Preparing
<1>2. Linux!TypeOK'
  <2>1. \A a \in answer' : a \in [valid : {TRUE}, length : 1 .. MaxLength,
                                  signum : Linux!Faults \cup {"ALRM"}]
    <3>1. result.signum \in Linux!Faults \cup {"ALRM"}
      BY Judged, Observable, LinuxConstants DEF LinuxInv, Linux!TypeOK
    <3>2. probeLength \in 1 .. MaxLength BY Judged
    <3>3. [valid |-> TRUE, length |-> probeLength, signum |-> result.signum]
            \in [valid : {TRUE}, length : 1 .. MaxLength,
                 signum : Linux!Faults \cup {"ALRM"}]
      BY <3>1, <3>2
    <3> QED BY <3>3
  <2> QED BY <1>1, <2>1 DEF LinuxInv, Linux!TypeOK, HeldType
<1>3. ModeInv' BY DEF LinuxInv, ModeInv
<1>4. ProbeInv' BY DEF LinuxInv, ProbeInv, Preparing
<1>5. Linux!ObservationIsOurs'
  <2>1. probeLength <= asked.length \/ MayEndAtPage
    BY DEF LinuxInv, ProbeInv, Preparing
  <2>2. result.signum # "ALRM" =>
          /\ probeLength >= asked.length
          /\ ~MayEndAtPage => probeLength = asked.length
    BY <2>1, Judged DEF Linux!Missing
  <2> QED BY <2>2, Judged
          DEF Linux!ObservationIsOurs, MayEndAtPage, Linux!EndsAtPage
<1> QED BY <1>1, <1>2, <1>3, <1>4, <1>5 DEF LinuxInv

(* One byte more, but never more than the instruction has.                   *)
LEMMA LengthenStep == LinuxInv /\ Linux!Lengthen => LinuxInv'
<1> SUFFICES ASSUME LinuxInv, Linux!Lengthen PROVE LinuxInv'
  OBVIOUS
<1> USE DEF Linux!Lengthen, Linux!call, Linux!handler, Linux!timer,
           Linux!setup, Linux!memory
<1>1. HeldType' /\ HeldInv' BY HeldStays DEF LinuxInv, ModeInv, Preparing
<1>2. probeLength' \in 1 .. MaxLength
  BY Judged, LinuxConstants DEF Linux!Continues
<1>3. Linux!TypeOK' BY <1>1, <1>2 DEF LinuxInv, Linux!TypeOK, HeldType
<1>4. ModeInv' BY DEF LinuxInv, ModeInv
<1>5. ProbeInv'
  <2>1. MayEndAtPage' = MayEndAtPage BY DEF MayEndAtPage, Linux!EndsAtPage
  <2>2. probeLength' <= asked.length \/ MayEndAtPage
    BY Judged DEF Linux!Missing
  <2> QED BY <2>1, <2>2 DEF LinuxInv, ProbeInv, Preparing
<1>6. Linux!ObservationIsOurs'
  BY DEF LinuxInv, ProbeInv, Linux!ObservationIsOurs
<1> QED BY <1>1, <1>3, <1>4, <1>5, <1>6 DEF LinuxInv

-----------------------------------------------------------------------------
(* Set-up and tear-down.                                                     *)
Things == {"region", "guard", "null page", "signal stack", "ILL", "SEGV", "FPE",
           "BUS", "TRAP", "ALRM"}

LEMMA NeededSeq == Linux!Needed \in Seq(Things) /\ Len(Linux!Needed) \in Nat
<1>1. /\ <<"region", "guard">> \in Seq(Things)
      /\ <<"signal stack">> \in Seq(Things)
      /\ <<"null page">> \in Seq(Things) /\ <<>> \in Seq(Things)
  BY DEF Things
<1>2. Linux!Handled \in Seq(Things) BY DEF Things, Linux!Handled
<1>3. Linux!Needed \in Seq(Things)
  BY <1>1, <1>2, ConcatProperties DEF Linux!Needed
<1> QED BY <1>3, LenProperties

(* A part of a sequence, and what is left of it without its first or last.   *)
LEMMA PartOf ==
  ASSUME NEW s \in Seq(Things),
         NEW i \in 1 .. Len(s) + 1, NEW k \in 0 .. Len(s)
  PROVE  /\ SubSeq(s, i, k) \in Seq(Things)
         /\ Len(SubSeq(s, i, k)) = IF i <= k THEN k - i + 1 ELSE 0
         /\ \A j \in 1 .. k - i + 1 : SubSeq(s, i, k)[j] = s[i + j - 1]
         /\ SubSeq(s, i, k) # <<>> => i <= k
BY LenProperties, SubSeqProperties, SubSeqEmpty

LEMMA PartWithoutLast ==
  ASSUME NEW s \in Seq(Things),
         NEW i \in 1 .. Len(s) + 1, NEW k \in 0 .. Len(s), i <= k
  PROVE  Linux!Front(SubSeq(s, i, k)) = SubSeq(s, i, k - 1)
<1> DEFINE part == SubSeq(s, i, k)
<1>1. part \in Seq(Things) /\ Len(part) = k - i + 1 BY PartOf
<1>2. CASE i = k
  BY <1>1, <1>2, SubSeqEmpty DEF Linux!Front
<1>3. CASE i < k
  <2>1. SubSeq(part, 1, k - i) = SubSeq(s, i, k - 1)
    BY <1>1, <1>3, SubSeqOfSubSeq, LenProperties
  <2> QED BY <1>1, <2>1 DEF Linux!Front
<1> QED BY <1>2, <1>3

LEMMA PartWithoutFirst ==
  ASSUME NEW s \in Seq(Things),
         NEW i \in 1 .. Len(s) + 1, NEW k \in 0 .. Len(s), i <= k
  PROVE  Tail(SubSeq(s, i, k)) = SubSeq(s, i + 1, k)
BY LenProperties, HeadTailOfSubSeq

(* While instructions are not executed there is no observation to keep.      *)
LEMMA PreparingStays ==
  ASSUME LinuxInv, UNCHANGED <<asked, answer, probeLength, result, mode,
                               baseline, observation, alarm, rang, nullAccess,
                               written>>,
         at \in Preparing \cup {"idle"}, at' \in Preparing \cup {"idle"},
         answer = {} \/ at' \in {"drop", "gone"},
         HeldType', HeldInv'
  PROVE  LinuxInv'
<1>1. Linux!TypeOK' BY DEF LinuxInv, Linux!TypeOK, HeldType, Preparing
<1>2. ModeInv' BY DEF LinuxInv, ModeInv, Preparing
<1>3. ProbeInv' BY DEF LinuxInv, ProbeInv, Preparing
<1>4. Linux!ObservationIsOurs'
  BY DEF LinuxInv, Linux!ObservationIsOurs, Linux!EndsAtPage
<1> QED BY <1>1, <1>2, <1>3, <1>4 DEF LinuxInv

(* One thing more is had.                                                    *)
LEMMA SetUpStep == LinuxInv /\ Linux!SetUp => LinuxInv'
<1> SUFFICES ASSUME LinuxInv, Linux!SetUp PROVE LinuxInv'
  OBVIOUS
<1> USE DEF Linux!SetUp, Linux!call, Linux!probe, Linux!handler, Linux!timer
<1> DEFINE n == Len(held)
<1>1. /\ held = SubSeq(Linux!Needed, 1, n) /\ held # Linux!Needed
      /\ Linux!Needed' = Linux!Needed
  BY NeededKept DEF LinuxInv, HeldInv, Needed
<1>2. n \in 0 .. Len(Linux!Needed) - 1
  <2>1. PICK i \in 1 .. Len(Linux!Needed) + 1, k \in 0 .. Len(Linux!Needed) :
          held = SubSeq(Linux!Needed, i, k)
    BY DEF LinuxInv, Linux!TypeOK
  <2>2. n \in 0 .. Len(Linux!Needed) BY <2>1, NeededSeq, PartOf
  <2>3. n # Len(Linux!Needed) BY <1>1, NeededSeq, SubSeqFull
  <2> QED BY <2>2, <2>3, NeededSeq
<1>3. HeldType'
  <2>1. /\ 1 \in 1 .. Len(Linux!Needed) + 1
        /\ n + 1 \in 0 .. Len(Linux!Needed)
    BY <1>2, NeededSeq
  <2> QED BY <1>1, <2>1 DEF HeldType
<1>4. Len(held') = n + 1
  BY <1>2, NeededSeq, PartOf
<1>5. HeldInv' BY <1>1, <1>4 DEF HeldInv, Preparing, Needed
<1>6. answer = {} BY DEF LinuxInv, ProbeInv
<1> QED BY <1>3, <1>5, <1>6, PreparingStays DEF Preparing

(* A system call fails.                                                      *)
LEMMA SetUpFailsStep == LinuxInv /\ Linux!SetUpFails => LinuxInv'
<1> SUFFICES ASSUME LinuxInv, Linux!SetUpFails PROVE LinuxInv'
  OBVIOUS
<1> USE DEF Linux!SetUpFails, Linux!call, Linux!probe, Linux!handler,
           Linux!timer, Linux!memory, Linux!setup
<1>1. HeldType' /\ Linux!Needed' = Linux!Needed
  BY HeldKept, NeededKept DEF LinuxInv, Linux!TypeOK, HeldType
<1>2. HeldInv' BY <1>1 DEF LinuxInv, HeldInv, Preparing, Needed
<1>3. answer = {} BY DEF LinuxInv, ProbeInv
<1> QED BY <1>1, <1>2, <1>3, PreparingStays DEF Preparing

(* The newest thing held goes, until nothing is left.                        *)
LEMMA UndoStep == LinuxInv /\ Linux!Undo => LinuxInv'
<1> SUFFICES ASSUME LinuxInv, Linux!Undo PROVE LinuxInv'
  OBVIOUS
<1> USE DEF Linux!Undo, Linux!call, Linux!probe, Linux!handler, Linux!timer
<1>1. Linux!Needed' = Linux!Needed /\ held = SubSeq(Linux!Needed, 1, Len(held))
  BY NeededKept DEF LinuxInv, HeldInv, Needed
<1>2. answer = {} BY DEF LinuxInv, ProbeInv
<1>3. CASE held = <<>>
  <2>1. HeldType' BY <1>3, HeldKept DEF LinuxInv, Linux!TypeOK, HeldType
  <2>2. HeldInv' BY <1>3 DEF HeldInv, Preparing
  <2> QED BY <1>2, <1>3, <2>1, <2>2, PreparingStays DEF Preparing
<1>4. CASE held # <<>>
  <2> DEFINE n == Len(held)
  <2>1. n \in 1 .. Len(Linux!Needed)
    <3>1. PICK i \in 1 .. Len(Linux!Needed) + 1, k \in 0 .. Len(Linux!Needed) :
            held = SubSeq(Linux!Needed, i, k)
      BY DEF LinuxInv, Linux!TypeOK
    <3>2. i <= k /\ n = k - i + 1 BY <1>4, <3>1, NeededSeq, PartOf
    <3> QED BY <3>2, NeededSeq
  <2>2. held' = SubSeq(Linux!Needed, 1, n - 1)
    <3>1. held' = Linux!Front(SubSeq(Linux!Needed, 1, n)) BY <1>1, <1>4
    <3> QED BY <2>1, <3>1, NeededSeq, PartWithoutLast
  <2>3. HeldType'
    <3>1. /\ 1 \in 1 .. Len(Linux!Needed) + 1
          /\ n - 1 \in 0 .. Len(Linux!Needed)
      BY <2>1, NeededSeq
    <3> QED BY <1>1, <2>2, <3>1 DEF HeldType
  <2>4. Len(held') = n - 1
    <3>1. 1 \in 1 .. Len(Linux!Needed) + 1 /\ n - 1 \in 0 .. Len(Linux!Needed)
      BY <2>1, NeededSeq
    <3> HIDE DEF n
    <3>2. Len(SubSeq(Linux!Needed, 1, n - 1))
            = IF 1 <= n - 1 THEN n - 1 - 1 + 1 ELSE 0
      BY <3>1, NeededSeq, PartOf
    <3> QED BY <2>1, <2>2, <3>2, NeededSeq
  <2>5. HeldInv' BY <1>1, <1>4, <2>2, <2>4 DEF HeldInv, Preparing, Needed
  <2> QED BY <1>2, <1>4, <2>3, <2>5, PreparingStays DEF Preparing
<1> QED BY <1>3, <1>4

(* The backend is dropped.                                                   *)
LEMMA DropStep == LinuxInv /\ Linux!Drop => LinuxInv'
<1> SUFFICES ASSUME LinuxInv, Linux!Drop PROVE LinuxInv'
  OBVIOUS
<1> USE DEF Linux!Drop, Linux!call, Linux!probe, Linux!handler,
           Linux!timer, Linux!memory, Linux!setup
<1>1. HeldType' /\ HeldInv' BY HeldStays DEF Preparing
<1> QED BY <1>1, PreparingStays DEF Preparing

(* One field goes, until nothing is left.                                    *)
LEMMA ReleaseStep == LinuxInv /\ Linux!Release => LinuxInv'
<1> SUFFICES ASSUME LinuxInv, Linux!Release PROVE LinuxInv'
  OBVIOUS
<1> USE DEF Linux!Release, Linux!call, Linux!probe, Linux!handler, Linux!timer
<1>1. Linux!Needed' = Linux!Needed BY NeededKept
<1>2. CASE held = <<>>
  <2>1. HeldType' BY <1>2, HeldKept DEF LinuxInv, Linux!TypeOK, HeldType
  <2>2. HeldInv' BY <1>2 DEF HeldInv, Preparing
  <2> QED BY <1>2, <2>1, <2>2, PreparingStays DEF Preparing
<1>3. CASE held # <<>>
  <2>1. PICK i \in 1 .. Len(Linux!Needed) + 1, k \in 0 .. Len(Linux!Needed) :
          held = SubSeq(Linux!Needed, i, k)
    BY DEF LinuxInv, Linux!TypeOK
  <2>2. i <= k BY <1>3, <2>1, NeededSeq, PartOf
  <2>3. \/ held' = SubSeq(Linux!Needed, i, k - 1)
        \/ held' = SubSeq(Linux!Needed, i + 1, k)
    BY <1>3, <2>1, <2>2, NeededSeq, PartWithoutLast, PartWithoutFirst
  <2>4. HeldType'
    <3>1. /\ i + 1 \in 1 .. Len(Linux!Needed) + 1
          /\ k - 1 \in 0 .. Len(Linux!Needed)
      BY <2>2, NeededSeq
    <3> QED BY <1>1, <2>3, <3>1 DEF HeldType
  <2>5. HeldInv' BY <1>3 DEF HeldInv, Preparing
  <2> QED BY <1>3, <2>4, <2>5, PreparingStays DEF Preparing
<1> QED BY <1>2, <1>3

(* Every step of the Linux backend.                                          *)
LEMMA LinuxStep == LinuxInv /\ Linux!Next => LinuxInv'
BY ExecuteStep, ArmStep, EnterCaptureStep, EnterProbeStep, ObserveStep,
   DisarmStep, Ud2Step, FetchStep, RunStep, RingStep, AnswerStep, LengthenStep,
   SetUpStep, SetUpFailsStep, UndoStep, DropStep, ReleaseStep
   DEF Linux!Next, Linux!Program

-----------------------------------------------------------------------------
(* The other backends.                                                       *)
Host == {"macos", "android", "ios"}

(* One observation, and what it says.                                        *)
LEMMA OneObservation ==
  ASSUME NEW v \in BOOLEAN, NEW s \in Arm!Signals
  PROVE  /\ {Arm!Observed(v, s)} \subseteq Arm!Observations
         /\ {Arm!Observed(v, s)} # {}
         /\ \A p \in {Arm!Observed(v, s)} : p.signum = s /\ p.valid = v
BY DEF Arm!Observed, Arm!Observations

(* The parent's copy of the write end goes.                                  *)
LEMMA CloseWriterKeeps == host \in Host /\ ArmInv /\ Arm!CloseWriter => ArmInv'
<1> SUFFICES ASSUME host \in Host, ArmInv, Arm!CloseWriter PROVE ArmInv'
  OBVIOUS
<1> USE DEF Arm!CloseWriter, Arm!call, Arm!wire, Arm!machinery, Arm!past
<1>1. Arm!TypeOK'
  BY DEF ArmInv, Arm!TypeOK, Arm!Observations, Arm!Observed, Arm!Signals,
         Arm!Fatal, Arm!ProbeSignals
<1>2. ParentInv' BY DEF ArmInv, Arm!TypeOK, ParentInv, ChildInv, Host
<1>3. ChildInv'
  BY DEF ArmInv, Arm!TypeOK, ParentInv, ChildInv, Host, Arm!Catches
<1>4. FoundInv'
  BY DEF ArmInv, Arm!TypeOK, ParentInv, ChildInv, FoundInv, Host, Arm!Shows,
         Arm!Catches, Arm!Observed, Arm!Fatal, Arm!ProbeSignals
<1>5. Arm!ObservationIsOurs'
  BY DEF ArmInv, ParentInv, ChildInv, FoundInv, Arm!ObservationIsOurs, Arm!Shows,
         Arm!Catches
<1> QED BY <1>1, <1>2, <1>3, <1>4, <1>5 DEF ArmInv

(* The pipe is read, or at its end.                                          *)
LEMMA ReadObservationKeeps == host \in Host /\ ArmInv /\ Arm!ReadObservation => ArmInv'
<1> SUFFICES ASSUME host \in Host, ArmInv, Arm!ReadObservation PROVE ArmInv'
  OBVIOUS
<1> USE DEF Arm!ReadObservation, Arm!call, Arm!wire, Arm!machinery, Arm!past
<1>1. Arm!TypeOK'
  BY DEF ArmInv, Arm!TypeOK, Arm!Observations, Arm!Observed, Arm!Signals,
         Arm!Fatal, Arm!ProbeSignals
<1>2. ParentInv' BY DEF ArmInv, Arm!TypeOK, ParentInv, ChildInv, Host
<1>3. ChildInv'
  BY DEF ArmInv, Arm!TypeOK, ParentInv, ChildInv, Host, Arm!Catches
<1>4. FoundInv'
  BY DEF ArmInv, Arm!TypeOK, ParentInv, ChildInv, FoundInv, Host, Arm!Shows,
         Arm!Catches, Arm!Observed, Arm!Fatal, Arm!ProbeSignals
<1>5. Arm!ObservationIsOurs'
  BY DEF ArmInv, ParentInv, ChildInv, FoundInv, Arm!ObservationIsOurs, Arm!Shows,
         Arm!Catches
<1> QED BY <1>1, <1>2, <1>3, <1>4, <1>5 DEF ArmInv

(* It cannot be read.                                                        *)
LEMMA ReadFailsKeeps == host \in Host /\ ArmInv /\ Arm!ReadFails => ArmInv'
<1> SUFFICES ASSUME host \in Host, ArmInv, Arm!ReadFails PROVE ArmInv'
  OBVIOUS
<1> USE DEF Arm!ReadFails, Arm!call, Arm!wire, Arm!machinery, Arm!past
<1>1. Arm!TypeOK'
  BY DEF ArmInv, Arm!TypeOK, Arm!Observations, Arm!Observed, Arm!Signals,
         Arm!Fatal, Arm!ProbeSignals
<1>2. ParentInv' BY DEF ArmInv, Arm!TypeOK, ParentInv, ChildInv, Host
<1>3. ChildInv'
  BY DEF ArmInv, Arm!TypeOK, ParentInv, ChildInv, Host, Arm!Catches
<1>4. FoundInv'
  BY DEF ArmInv, Arm!TypeOK, ParentInv, ChildInv, FoundInv, Host, Arm!Shows,
         Arm!Catches, Arm!Observed, Arm!Fatal, Arm!ProbeSignals
<1>5. Arm!ObservationIsOurs'
  BY DEF ArmInv, ParentInv, ChildInv, FoundInv, Arm!ObservationIsOurs, Arm!Shows,
         Arm!Catches
<1> QED BY <1>1, <1>2, <1>3, <1>4, <1>5 DEF ArmInv

(* The child is not waited for.                                              *)
LEMMA WaitFailsKeeps == host \in Host /\ ArmInv /\ Arm!WaitFails => ArmInv'
<1> SUFFICES ASSUME host \in Host, ArmInv, Arm!WaitFails PROVE ArmInv'
  OBVIOUS
<1> USE DEF Arm!WaitFails, Arm!call, Arm!wire, Arm!machinery, Arm!past
<1>1. Arm!TypeOK'
  BY DEF ArmInv, Arm!TypeOK, Arm!Observations, Arm!Observed, Arm!Signals,
         Arm!Fatal, Arm!ProbeSignals
<1>2. ParentInv' BY DEF ArmInv, Arm!TypeOK, ParentInv, ChildInv, Host
<1>3. ChildInv'
  BY DEF ArmInv, Arm!TypeOK, ParentInv, ChildInv, Host, Arm!Catches
<1>4. FoundInv'
  BY DEF ArmInv, Arm!TypeOK, ParentInv, ChildInv, FoundInv, Host, Arm!Shows,
         Arm!Catches, Arm!Observed, Arm!Fatal, Arm!ProbeSignals
<1>5. Arm!ObservationIsOurs'
  BY DEF ArmInv, ParentInv, ChildInv, FoundInv, Arm!ObservationIsOurs, Arm!Shows,
         Arm!Catches
<1> QED BY <1>1, <1>2, <1>3, <1>4, <1>5 DEF ArmInv

(* The child arms its alarm.                                                 *)
LEMMA StartKeeps == host \in Host /\ ArmInv /\ Arm!Start => ArmInv'
<1> SUFFICES ASSUME host \in Host, ArmInv, Arm!Start PROVE ArmInv'
  OBVIOUS
<1> USE DEF Arm!Start, Arm!call, Arm!wire, Arm!machinery, Arm!past
<1>1. Arm!TypeOK'
  BY DEF ArmInv, Arm!TypeOK, Arm!Observations, Arm!Observed, Arm!Signals,
         Arm!Fatal, Arm!ProbeSignals
<1>2. ParentInv' BY DEF ArmInv, Arm!TypeOK, ParentInv, ChildInv, Host
<1>3. ChildInv'
  BY DEF ArmInv, Arm!TypeOK, ParentInv, ChildInv, Host, Arm!Catches
<1>4. FoundInv'
  BY DEF ArmInv, Arm!TypeOK, ParentInv, ChildInv, FoundInv, Host, Arm!Shows,
         Arm!Catches, Arm!Observed, Arm!Fatal, Arm!ProbeSignals
<1>5. Arm!ObservationIsOurs'
  BY DEF ArmInv, ParentInv, ChildInv, FoundInv, Arm!ObservationIsOurs, Arm!Shows,
         Arm!Catches
<1> QED BY <1>1, <1>2, <1>3, <1>4, <1>5 DEF ArmInv

(* It maps its page.                                                         *)
LEMMA MapKeeps == host \in Host /\ ArmInv /\ Arm!Map => ArmInv'
<1> SUFFICES ASSUME host \in Host, ArmInv, Arm!Map PROVE ArmInv'
  OBVIOUS
<1> USE DEF Arm!Map, Arm!call, Arm!wire, Arm!machinery, Arm!past
<1>1. Arm!TypeOK'
  BY DEF ArmInv, Arm!TypeOK, Arm!Observations, Arm!Observed, Arm!Signals,
         Arm!Fatal, Arm!ProbeSignals
<1>2. ParentInv' BY DEF ArmInv, Arm!TypeOK, ParentInv, ChildInv, Host
<1>3. ChildInv'
  BY DEF ArmInv, Arm!TypeOK, ParentInv, ChildInv, Host, Arm!Catches
<1>4. FoundInv'
  BY DEF ArmInv, Arm!TypeOK, ParentInv, ChildInv, FoundInv, Host, Arm!Shows,
         Arm!Catches, Arm!Observed, Arm!Fatal, Arm!ProbeSignals
<1>5. Arm!ObservationIsOurs'
  BY DEF ArmInv, ParentInv, ChildInv, FoundInv, Arm!ObservationIsOurs, Arm!Shows,
         Arm!Catches
<1> QED BY <1>1, <1>2, <1>3, <1>4, <1>5 DEF ArmInv

(* Handlers, and PROBE_ACTIVE.                                               *)
LEMMA InstallKeeps == host \in Host /\ ArmInv /\ Arm!Install => ArmInv'
<1> SUFFICES ASSUME host \in Host, ArmInv, Arm!Install PROVE ArmInv'
  OBVIOUS
<1> USE DEF Arm!Install, Arm!call, Arm!wire, Arm!machinery, Arm!past
<1>1. Arm!TypeOK'
  BY DEF ArmInv, Arm!TypeOK, Arm!Observations, Arm!Observed, Arm!Signals,
         Arm!Fatal, Arm!ProbeSignals
<1>2. ParentInv' BY DEF ArmInv, Arm!TypeOK, ParentInv, ChildInv, Host
<1>3. ChildInv'
  BY DEF ArmInv, Arm!TypeOK, ParentInv, ChildInv, Host, Arm!Catches
<1>4. FoundInv'
  BY DEF ArmInv, Arm!TypeOK, ParentInv, ChildInv, FoundInv, Host, Arm!Shows,
         Arm!Catches, Arm!Observed, Arm!Fatal, Arm!ProbeSignals
<1>5. Arm!ObservationIsOurs'
  BY DEF ArmInv, ParentInv, ChildInv, FoundInv, Arm!ObservationIsOurs, Arm!Shows,
         Arm!Catches
<1> QED BY <1>1, <1>2, <1>3, <1>4, <1>5 DEF ArmInv

(* They cannot be had.                                                       *)
LEMMA InstallFailsKeeps == host \in Host /\ ArmInv /\ Arm!InstallFails => ArmInv'
<1> SUFFICES ASSUME host \in Host, ArmInv, Arm!InstallFails PROVE ArmInv'
  OBVIOUS
<1> USE DEF Arm!InstallFails, Arm!call, Arm!past
<1>1. \/ host = "ios" /\ pipe' = pipe
      \/ /\ host = "macos" /\ pipe' \subseteq Arm!Observations /\ pipe' # {}
         /\ \A p \in pipe' : p.signum = "none" /\ p.valid = FALSE
  <2>1. "none" \in Arm!Signals BY DEF Arm!Signals
  <2>2. host = "ios" \/ host = "macos" BY DEF Host, Arm!Catches
  <2>3. CASE host = "ios" BY <2>3
  <2>4. CASE host = "macos"
    <3>1. pipe' = {Arm!Observed(FALSE, "none")} BY <2>4
    <3> QED BY <2>1, <2>4, <3>1, OneObservation
  <2> QED BY <2>2, <2>3, <2>4
<1>2. Arm!TypeOK' BY <1>1 DEF ArmInv, Arm!TypeOK
<1>3. ParentInv' BY DEF ArmInv, Arm!TypeOK, ParentInv, ChildInv, Host, Arm!Catches
<1>4. ChildInv' BY DEF ArmInv, Arm!TypeOK, ParentInv, ChildInv, Host, Arm!Catches
<1>5. Arm!Shows' = Arm!Shows BY DEF Arm!Shows, Arm!Catches
<1>6. FoundInv'
  BY <1>1, <1>5 DEF ArmInv, ParentInv, ChildInv, FoundInv, Arm!Fatal, Arm!ProbeSignals
<1>7. Arm!ObservationIsOurs'
  BY <1>5 DEF ArmInv, Arm!ObservationIsOurs, Arm!Catches
<1> QED BY <1>2, <1>3, <1>4, <1>6, <1>7 DEF ArmInv

(* The instruction begins.                                                   *)
LEMMA EnterKeeps == host \in Host /\ ArmInv /\ Arm!Enter => ArmInv'
<1> SUFFICES ASSUME host \in Host, ArmInv, Arm!Enter PROVE ArmInv'
  OBVIOUS
<1> USE DEF Arm!Enter, Arm!call, Arm!wire, Arm!machinery, Arm!past
<1>1. Arm!TypeOK'
  BY DEF ArmInv, Arm!TypeOK, Arm!Observations, Arm!Observed, Arm!Signals,
         Arm!Fatal, Arm!ProbeSignals
<1>2. ParentInv' BY DEF ArmInv, Arm!TypeOK, ParentInv, ChildInv, Host
<1>3. ChildInv'
  BY DEF ArmInv, Arm!TypeOK, ParentInv, ChildInv, Host, Arm!Catches
<1>4. FoundInv'
  BY DEF ArmInv, Arm!TypeOK, ParentInv, ChildInv, FoundInv, Host, Arm!Shows,
         Arm!Catches, Arm!Observed, Arm!Fatal, Arm!ProbeSignals
<1>5. Arm!ObservationIsOurs'
  BY DEF ArmInv, ParentInv, ChildInv, FoundInv, Arm!ObservationIsOurs, Arm!Shows,
         Arm!Catches
<1> QED BY <1>1, <1>2, <1>3, <1>4, <1>5 DEF ArmInv

(* run_probe returns.                                                        *)
LEMMA RestoreKeeps == host \in Host /\ ArmInv /\ Arm!Restore => ArmInv'
<1> SUFFICES ASSUME host \in Host, ArmInv, Arm!Restore PROVE ArmInv'
  OBVIOUS
<1> USE DEF Arm!Restore, Arm!past
<1> DEFINE seen == {Arm!Observed(TRUE, found)}
<1>1. /\ seen \subseteq Arm!Observations /\ seen # {}
      /\ \A p \in seen : p.signum = Arm!Shows
  <2> found \in Arm!Signals /\ found = Arm!Shows
    BY DEF ArmInv, Arm!TypeOK, FoundInv
  <2> QED BY OneObservation
<1>2. \/ host = "ios" /\ answer' = seen /\ pipe' = pipe /\ parent' = "idle"
      \/ host = "macos" /\ pipe' = seen /\ answer' = answer /\ parent' = parent
  BY DEF ArmInv, ChildInv, Host
<1> HIDE DEF seen
<1>3. ran /\ Arm!Shows # "ALRM"
  BY BackendsAssumption
     DEF ArmInv, FoundInv, Arm!TypeOK, Arm!Shows, Arm!ForkAssumption, Arm!Fatal,
         Arm!ProbeSignals, Arm!Catches
<1>4. Arm!TypeOK' BY <1>1, <1>2 DEF ArmInv, Arm!TypeOK
<1>5. ParentInv' BY <1>2 DEF ArmInv, Arm!TypeOK, ParentInv, ChildInv, Host
<1>6. ChildInv' BY <1>2 DEF ArmInv, Arm!TypeOK, ParentInv, ChildInv, Host
<1>7. Arm!Shows' = Arm!Shows BY DEF Arm!Shows, Arm!Catches
<1>8. FoundInv'
  BY <1>1, <1>2, <1>3, <1>7
     DEF ArmInv, ParentInv, ChildInv, FoundInv, Arm!Fatal, Arm!ProbeSignals
<1>9. Arm!ObservationIsOurs'
  BY <1>1, <1>2, <1>3, <1>7 DEF ArmInv, Arm!ObservationIsOurs, Arm!Catches
<1> QED BY <1>4, <1>5, <1>6, <1>8, <1>9 DEF ArmInv

(* No child, or no such instruction.                                         *)
LEMMA RefuseKeeps == host \in Host /\ ArmInv /\ Arm!Refuse => ArmInv'
<1> SUFFICES ASSUME host \in Host, ArmInv, Arm!Refuse PROVE ArmInv'
  OBVIOUS
<1> USE DEF Arm!Refuse, Arm!call, Arm!wire, Arm!machinery, Arm!past, Arm!NewCall
<1>1. Arm!TypeOK'
  BY DEF ArmInv, Arm!TypeOK
<1>2. ParentInv' BY DEF ArmInv, Arm!TypeOK, ParentInv, ChildInv, Host
<1>3. ChildInv'
  BY DEF ArmInv, Arm!TypeOK, ParentInv, ChildInv, Host, Arm!Catches
<1>4. FoundInv'
  BY DEF ArmInv, Arm!TypeOK, ParentInv, ChildInv, FoundInv, Host, Arm!Shows,
         Arm!Catches, Arm!Observed, Arm!Fatal, Arm!ProbeSignals
<1>5. Arm!ObservationIsOurs'
  BY DEF ArmInv, ParentInv, ChildInv, FoundInv, Arm!ObservationIsOurs, Arm!Shows,
         Arm!Catches
<1> QED BY <1>1, <1>2, <1>3, <1>4, <1>5 DEF ArmInv

(* A child, or the machinery of the process.                                 *)
LEMMA ExecuteKeeps == host \in Host /\ ArmInv /\ Arm!Execute => ArmInv'
<1> SUFFICES ASSUME host \in Host, ArmInv, Arm!Execute PROVE ArmInv'
  OBVIOUS
<1> USE DEF Arm!Execute, Arm!call, Arm!wire, Arm!machinery, Arm!past, Arm!NewCall
<1>1. Arm!TypeOK'
  <2>1. CASE host = "macos" BY <2>1 DEF ArmInv, Arm!TypeOK
  <2>2. CASE host = "android" BY <2>2 DEF ArmInv, Arm!TypeOK
  <2>3. CASE host = "ios" BY <2>3 DEF ArmInv, Arm!TypeOK
  <2> QED BY <2>1, <2>2, <2>3 DEF Host
<1>2. ParentInv' BY DEF ArmInv, Arm!TypeOK, ParentInv, ChildInv, Host
<1>3. ChildInv'
  BY DEF ArmInv, Arm!TypeOK, ParentInv, ChildInv, Host, Arm!Catches
<1>4. FoundInv'
  BY DEF ArmInv, Arm!TypeOK, ParentInv, ChildInv, FoundInv, Host, Arm!Shows,
         Arm!Catches, Arm!Observed, Arm!Fatal, Arm!ProbeSignals
<1>5. Arm!ObservationIsOurs'
  BY DEF ArmInv, ParentInv, ChildInv, FoundInv, Arm!ObservationIsOurs, Arm!Shows,
         Arm!Catches
<1> QED BY <1>1, <1>2, <1>3, <1>4, <1>5 DEF ArmInv

(* The child is gone, and the parent concludes.                              *)
LEMMA WaitKeeps == host \in Host /\ ArmInv /\ Arm!Wait => ArmInv'
<1> SUFFICES ASSUME host \in Host, ArmInv, Arm!Wait PROVE ArmInv'
  OBVIOUS
<1> USE DEF Arm!Wait, Arm!machinery, Arm!past
<1>1. parent = "wait" /\ host # "ios" /\ status # "none" /\ answer' = Arm!Conclusion
  BY DEF ArmInv, ParentInv, ChildInv
<1>2. /\ Arm!Conclusion \subseteq Arm!Observations
      /\ \A a \in Arm!Conclusion :
           IF a.signum = "ALRM" THEN rang
           ELSE a.valid /\ (Arm!Catches \/ a.signum # "none") =>
                  ran /\ a.signum = Arm!Shows
  <2>1. CASE pipe # {}
    BY <2>1 DEF Arm!Conclusion, ArmInv, Arm!TypeOK, FoundInv
  <2>2. CASE pipe = {}
    <3>1. Arm!Died \in Arm!Signals
      BY DEF Arm!Died, ArmInv, Arm!TypeOK, Arm!Signals
    <3>2. Arm!Conclusion = {Arm!Observed(TRUE, Arm!Died)}
      BY <2>2 DEF Arm!Conclusion
    <3>3. CASE status = "exit"
      <4>1. ~Arm!Catches /\ Arm!Died = "none"
        BY <1>1, <2>2, <3>3 DEF ArmInv, FoundInv, Arm!Catches, Arm!Died, Host
      <4> QED BY <3>1, <3>2, <4>1, OneObservation
    <3>4. CASE status = "ALRM"
      <4>1. rang /\ Arm!Died = "ALRM"
        BY <3>4 DEF ArmInv, FoundInv, Arm!Died
      <4> QED BY <3>1, <3>2, <4>1, OneObservation
    <3>5. CASE status \in Arm!Fatal
      <4>1. ran /\ Arm!Died = Arm!Shows
        BY <3>5 DEF ArmInv, FoundInv, Arm!Died, Arm!Fatal, Arm!ProbeSignals
      <4>2. Arm!Died # "ALRM"
        BY <3>5 DEF Arm!Died, Arm!Fatal, Arm!ProbeSignals
      <4>3. /\ Arm!Conclusion \subseteq Arm!Observations
            /\ \A a \in Arm!Conclusion : a.signum = Arm!Died
        BY <3>1, <3>2, OneObservation
      <4> QED BY <4>1, <4>2, <4>3
    <3> QED BY <1>1, <3>3, <3>4, <3>5 DEF ArmInv, Arm!TypeOK, Arm!Signals
  <2> QED BY <2>1, <2>2
<1>3. Arm!TypeOK' BY <1>1, <1>2 DEF ArmInv, Arm!TypeOK, Arm!Signals
<1>4. ParentInv'
  BY <1>1 DEF ArmInv, Arm!TypeOK, ParentInv, ChildInv, Host
<1>5. ChildInv' BY <1>1 DEF ArmInv, Arm!TypeOK, ParentInv, ChildInv, Host
<1>6. Arm!Shows' = Arm!Shows BY DEF Arm!Shows, Arm!Catches
<1>7. FoundInv'
  BY <1>1, <1>6 DEF ArmInv, FoundInv, Arm!Fatal, Arm!ProbeSignals
<1>8. Arm!ObservationIsOurs'
  BY <1>1, <1>2, <1>6 DEF Arm!ObservationIsOurs, Arm!Catches
<1> QED BY <1>3, <1>4, <1>5, <1>7, <1>8 DEF ArmInv

(* The handler finds a signal.                                               *)
LEMMA CatchKeeps == host \in Host /\ ArmInv /\ Arm!Catch => ArmInv'
<1> SUFFICES ASSUME host \in Host, ArmInv, Arm!Catch PROVE ArmInv'
  OBVIOUS
<1> USE DEF Arm!Catch, Arm!call, Arm!wire, Arm!machinery, Arm!past, Arm!Caught
<1>1. Arm!TypeOK'
  BY DEF ArmInv, Arm!TypeOK, Arm!Observations, Arm!Observed, Arm!Signals,
         Arm!Fatal, Arm!ProbeSignals
<1>2. ParentInv' BY DEF ArmInv, Arm!TypeOK, ParentInv, ChildInv, Host
<1>3. ChildInv'
  BY DEF ArmInv, Arm!TypeOK, ParentInv, ChildInv, Host, Arm!Catches
<1>4. FoundInv'
  BY DEF ArmInv, Arm!TypeOK, ParentInv, ChildInv, FoundInv, Host, Arm!Shows,
         Arm!Catches, Arm!Observed, Arm!Fatal, Arm!ProbeSignals
<1>5. Arm!ObservationIsOurs'
  BY DEF ArmInv, ParentInv, ChildInv, FoundInv, Arm!ObservationIsOurs, Arm!Shows,
         Arm!Catches
<1> QED BY <1>1, <1>2, <1>3, <1>4, <1>5 DEF ArmInv

(* The alarm ends the child.                                                 *)
LEMMA RingKeeps == host \in Host /\ ArmInv /\ Arm!Ring => ArmInv'
<1> SUFFICES ASSUME host \in Host, ArmInv, Arm!Ring PROVE ArmInv'
  OBVIOUS
<1> USE DEF Arm!Ring, Arm!call, Arm!wire, Arm!machinery, Arm!past, Arm!End
<1>1. Arm!TypeOK'
  BY DEF ArmInv, Arm!TypeOK, Arm!Observations, Arm!Observed, Arm!Signals,
         Arm!Fatal, Arm!ProbeSignals
<1>2. ParentInv' BY DEF ArmInv, Arm!TypeOK, ParentInv, ChildInv, Host
<1>3. ChildInv'
  BY DEF ArmInv, Arm!TypeOK, ParentInv, ChildInv, Host, Arm!Catches
<1>4. FoundInv'
  BY DEF ArmInv, Arm!TypeOK, ParentInv, ChildInv, FoundInv, Host, Arm!Shows,
         Arm!Catches, Arm!Observed, Arm!Fatal, Arm!ProbeSignals
<1>5. Arm!ObservationIsOurs'
  BY DEF ArmInv, ParentInv, ChildInv, FoundInv, Arm!ObservationIsOurs, Arm!Shows,
         Arm!Catches
<1> QED BY <1>1, <1>2, <1>3, <1>4, <1>5 DEF ArmInv

(* No page.                                                                  *)
LEMMA MapFailsKeeps == host \in Host /\ ArmInv /\ Arm!MapFails => ArmInv'
<1> SUFFICES ASSUME host \in Host, ArmInv, Arm!MapFails PROVE ArmInv'
  OBVIOUS
<1> USE DEF Arm!MapFails, Arm!call, Arm!past, Arm!End
<1>1. \/ host # "macos" /\ pipe' = {}
      \/ /\ host = "macos" /\ pipe' \subseteq Arm!Observations /\ pipe' # {}
         /\ \A p \in pipe' : p.signum = "none" /\ p.valid = FALSE
  <2> "none" \in Arm!Signals BY DEF Arm!Signals
  <2> QED BY OneObservation DEF Host
<1>2. Arm!TypeOK' BY <1>1 DEF ArmInv, Arm!TypeOK
<1>3. ParentInv' BY DEF ArmInv, Arm!TypeOK, ParentInv, ChildInv, Host
<1>4. ChildInv' BY DEF ArmInv, Arm!TypeOK, ParentInv, ChildInv, Host
<1>5. Arm!Shows' = Arm!Shows BY DEF Arm!Shows, Arm!Catches
<1>6. FoundInv'
  BY <1>1, <1>5 DEF ArmInv, ParentInv, ChildInv, FoundInv, Arm!Fatal, Arm!ProbeSignals
<1>7. Arm!ObservationIsOurs'
  BY <1>5 DEF ArmInv, Arm!ObservationIsOurs, Arm!Catches
<1> QED BY <1>2, <1>3, <1>4, <1>6, <1>7 DEF ArmInv

(* The instruction returns.                                                  *)
LEMMA ReturnKeeps == host \in Host /\ ArmInv /\ Arm!Return => ArmInv'
<1> SUFFICES ASSUME host \in Host, ArmInv, Arm!Return PROVE ArmInv'
  OBVIOUS
<1> USE DEF Arm!Return, Arm!call, Arm!wire, Arm!machinery, Arm!past, Arm!End
<1>1. Arm!TypeOK'
  <2>1. CASE Arm!Catches BY <2>1 DEF ArmInv, Arm!TypeOK
  <2>2. CASE ~Arm!Catches
    <3>1. /\ child' = "gone" /\ status' = "exit" /\ ticking' = FALSE
          /\ handlers' \in {handlers, "old"} /\ active' \in {active, FALSE}
          /\ fds' \subseteq fds
          /\ UNCHANGED <<host, asked, answer, parent, pipe, found, ran, rang>>
      BY <2>2
    <3> QED BY <3>1 DEF ArmInv, Arm!TypeOK
  <2> QED BY <2>1, <2>2
<1>2. ParentInv' BY DEF ArmInv, Arm!TypeOK, ParentInv, ChildInv, Host
<1>3. ChildInv'
  BY DEF ArmInv, Arm!TypeOK, ParentInv, ChildInv, Host, Arm!Catches
<1>4. FoundInv'
  BY DEF ArmInv, Arm!TypeOK, ParentInv, ChildInv, FoundInv, Host, Arm!Shows,
         Arm!Catches, Arm!Observed, Arm!Fatal, Arm!ProbeSignals
<1>5. Arm!ObservationIsOurs'
  BY DEF ArmInv, ParentInv, ChildInv, FoundInv, Arm!ObservationIsOurs, Arm!Shows,
         Arm!Catches
<1> QED BY <1>1, <1>2, <1>3, <1>4, <1>5 DEF ArmInv

(* Nobody catches the signal.                                                *)
LEMMA DieKeeps == host \in Host /\ ArmInv /\ Arm!Die => ArmInv'
<1> SUFFICES ASSUME host \in Host, ArmInv, Arm!Die PROVE ArmInv'
  OBVIOUS
<1> USE DEF Arm!Die, Arm!call, Arm!wire, Arm!machinery, Arm!past, Arm!End
<1>1. Arm!TypeOK'
  BY DEF ArmInv, Arm!TypeOK, Arm!Observations, Arm!Observed, Arm!Signals,
         Arm!Fatal, Arm!ProbeSignals
<1>2. ParentInv' BY DEF ArmInv, Arm!TypeOK, ParentInv, ChildInv, Host
<1>3. ChildInv'
  BY DEF ArmInv, Arm!TypeOK, ParentInv, ChildInv, Host, Arm!Catches,
         Arm!Fatal, Arm!ProbeSignals
<1>4. FoundInv'
  BY DEF ArmInv, Arm!TypeOK, ParentInv, ChildInv, FoundInv, Host, Arm!Shows,
         Arm!Catches, Arm!Observed, Arm!Fatal, Arm!ProbeSignals
<1>5. Arm!ObservationIsOurs'
  BY DEF ArmInv, ParentInv, ChildInv, FoundInv, Arm!ObservationIsOurs, Arm!Shows,
         Arm!Catches
<1> QED BY <1>1, <1>2, <1>3, <1>4, <1>5 DEF ArmInv

(* The child has written what it saw.                                        *)
LEMMA ExitKeeps == host \in Host /\ ArmInv /\ Arm!Exit => ArmInv'
<1> SUFFICES ASSUME host \in Host, ArmInv, Arm!Exit PROVE ArmInv'
  OBVIOUS
<1> USE DEF Arm!Exit, Arm!call, Arm!wire, Arm!machinery, Arm!past, Arm!End
<1>1. Arm!TypeOK'
  BY DEF ArmInv, Arm!TypeOK, Arm!Observations, Arm!Observed, Arm!Signals,
         Arm!Fatal, Arm!ProbeSignals
<1>2. ParentInv' BY DEF ArmInv, Arm!TypeOK, ParentInv, ChildInv, Host
<1>3. ChildInv'
  BY DEF ArmInv, Arm!TypeOK, ParentInv, ChildInv, Host, Arm!Catches
<1>4. FoundInv'
  BY DEF ArmInv, Arm!TypeOK, ParentInv, ChildInv, FoundInv, Host, Arm!Shows,
         Arm!Catches, Arm!Observed, Arm!Fatal, Arm!ProbeSignals
<1>5. Arm!ObservationIsOurs'
  BY DEF ArmInv, ParentInv, ChildInv, FoundInv, Arm!ObservationIsOurs, Arm!Shows,
         Arm!Catches
<1> QED BY <1>1, <1>2, <1>3, <1>4, <1>5 DEF ArmInv

(* An answer says of the instruction what happened to it.                    *)
LEMMA ForkStep == host \in Host /\ ArmInv /\ Arm!Next => ArmInv'
<1> SUFFICES ASSUME host \in Host, ArmInv, Arm!Next PROVE ArmInv'
  OBVIOUS
<1> QED
  BY ExecuteKeeps, RefuseKeeps, CloseWriterKeeps, ReadObservationKeeps,
     ReadFailsKeeps, WaitKeeps, WaitFailsKeeps, StartKeeps, MapKeeps,
     MapFailsKeeps, InstallKeeps, InstallFailsKeeps, EnterKeeps, CatchKeeps,
     ReturnKeeps, DieKeeps, RestoreKeeps, ExitKeeps, RingKeeps, Zenon
     DEF Arm!Next, Arm!Parent, Arm!Child

-----------------------------------------------------------------------------
(* A set-up needs something.                                                 *)
LEMMA NeededSome == Linux!Needed # <<>>
<1> DEFINE first == <<"region", "guard">>
           later == (IF nullAccess THEN <<"null page">> ELSE <<>>)
           stack == <<"signal stack">>
<1>1. first \in Seq(Things) /\ stack \in Seq(Things) /\ first # <<>>
  BY DEF Things
<1>2. Linux!Handled \in Seq(Things) BY DEF Things, Linux!Handled
<1>3. later \in Seq(Things)
  <2>1. <<"null page">> \in Seq(Things) BY DEF Things
  <2>2. <<>> \in Seq(Things) BY EmptySeq
  <2> QED BY <2>1, <2>2
<1>4. Linux!Needed = ((first \o later) \o stack) \o Linux!Handled
  BY DEF Linux!Needed
<1> HIDE DEF first, later, stack
<1>5. first \o later \in Seq(Things) /\ first \o later # <<>>
  BY <1>1, <1>3, ConcatProperties, ConcatEqualIffEmpty
<1>6. /\ (first \o later) \o stack \in Seq(Things)
      /\ (first \o later) \o stack # <<>>
  BY <1>1, <1>5, ConcatProperties, ConcatEqualIffEmpty
<1> QED BY <1>2, <1>4, <1>6, ConcatEqualIffEmpty

(* Before the first system call nothing is held, and nothing answered.       *)
LEMMA Start == Init => IInv
<1> SUFFICES ASSUME Init PROVE IInv
  OBVIOUS
<1>1. host \in Hosts BY DEF Init
<1>2. CASE host = "linux"
  <2> USE DEF Init, Linux!Init
  <2>1. Linux!Needed \in Seq(Things) /\ Linux!Needed # <<>>
    BY NeededSeq, NeededSome
  <2>2. held = SubSeq(Linux!Needed, 1, 0) /\ held # Linux!Needed
    BY <1>2, <2>1
  <2>3. Linux!Nothing \in Linux!Observation /\ 1 \in 1 .. MaxLength
    BY LinuxConstants DEF Linux!Nothing, Linux!Observation
  <2>4. Linux!TypeOK
    <3>1. 1 \in 1 .. Len(Linux!Needed) + 1 /\ 0 \in 0 .. Len(Linux!Needed)
      BY NeededSeq
    <3> QED BY <1>2, <2>2, <2>3, <3>1 DEF Linux!TypeOK
  <2>5. HeldInv BY <1>2, <2>2 DEF HeldInv, Preparing, Needed
  <2>6. ModeInv /\ ProbeInv /\ Linux!ObservationIsOurs
    BY <1>2 DEF ModeInv, ProbeInv, Preparing, Linux!ObservationIsOurs
  <2>7. LinuxInv BY <2>4, <2>5, <2>6 DEF LinuxInv
  <2> QED BY <1>1, <1>2, <2>7 DEF IInv
<1>3. CASE host # "linux"
  <2>1. Arm!Init BY <1>3 DEF Init
  <2> USE DEF Arm!Init, Arm!Idle
  <2>2. host \in Host BY <1>1, <1>3, BackendsAssumption DEF Host
  <2>3. Arm!TypeOK BY <2>1 DEF Arm!TypeOK, Arm!Signals
  <2>4. ParentInv /\ ChildInv BY <2>1, <2>2 DEF ParentInv, ChildInv, Host
  <2>5. FoundInv
    BY <2>1 DEF FoundInv, Arm!Fatal, Arm!ProbeSignals
  <2>6. Arm!ObservationIsOurs BY <2>1 DEF Arm!ObservationIsOurs
  <2>7. ArmInv BY <2>3, <2>4, <2>5, <2>6 DEF ArmInv
  <2> QED BY <1>1, <1>3, <2>7 DEF IInv
<1> QED BY <1>2, <1>3

(* A step that changes nothing.                                              *)
LEMMA Stutter == IInv /\ UNCHANGED vars => IInv'
<1> SUFFICES ASSUME IInv, UNCHANGED vars PROVE IInv'
  OBVIOUS
<1> USE DEF vars, LinuxVars, ArmVars
<1>1. CASE host = "linux"
  <2>1. LinuxInv /\ Linux!Needed' = Linux!Needed
    BY <1>1, NeededKept DEF IInv
  <2>2. Linux!TypeOK'
    BY <2>1, HeldKept DEF LinuxInv, Linux!TypeOK, HeldType
  <2>3. HeldInv' /\ ModeInv'
    BY <2>1 DEF LinuxInv, HeldInv, ModeInv, Preparing, Needed
  <2>4. ProbeInv'
    BY <2>1, OfProbeStays DEF LinuxInv, ProbeInv, Preparing
  <2>5. Linux!ObservationIsOurs'
    BY <2>1 DEF LinuxInv, Linux!ObservationIsOurs, Linux!EndsAtPage
  <2> QED BY <1>1, <2>2, <2>3, <2>4, <2>5 DEF IInv, LinuxInv
<1>2. CASE host # "linux"
  <2>1. ArmInv BY <1>2 DEF IInv
  <2>2. Arm!Shows' = Arm!Shows BY DEF Arm!Shows, Arm!Catches
  <2>3. Arm!TypeOK' BY <2>1 DEF ArmInv, Arm!TypeOK
  <2>4. ParentInv' /\ ChildInv' BY <2>1 DEF ArmInv, ParentInv, ChildInv
  <2>5. FoundInv' BY <2>1, <2>2 DEF ArmInv, FoundInv
  <2>6. Arm!ObservationIsOurs'
    BY <2>1, <2>2 DEF ArmInv, Arm!ObservationIsOurs, Arm!Catches
  <2> QED BY <1>2, <2>3, <2>4, <2>5, <2>6 DEF IInv, ArmInv
<1> QED BY <1>1, <1>2

(* What holds of the backend at its start stays.                             *)
THEOREM Invariance == Spec => []IInv
<1>1. IInv /\ LinuxNext => IInv'
  BY LinuxStep DEF LinuxNext, IInv
<1>2. IInv /\ ArmNext => IInv'
  <2> SUFFICES ASSUME IInv, ArmNext PROVE IInv'
    OBVIOUS
  <2>1. host \in Hosts /\ host # "linux" /\ ArmInv /\ Arm!Next
    BY DEF IInv, ArmNext
  <2>2. host \in Host BY <2>1, BackendsAssumption DEF Host
  <2>3. ArmInv' BY <2>1, <2>2, ForkStep, Zenon
  <2>4. host' = host
    BY <2>1 DEF Arm!Next, Arm!Parent, Arm!Child, Arm!Execute, Arm!Refuse,
        Arm!NewCall, Arm!CloseWriter, Arm!ReadObservation, Arm!ReadFails,
        Arm!Wait, Arm!WaitFails, Arm!Start, Arm!Map, Arm!MapFails,
        Arm!Install, Arm!InstallFails, Arm!Enter, Arm!Catch, Arm!Return,
        Arm!Die, Arm!Restore, Arm!Exit, Arm!Ring, Arm!call
  <2> QED BY <2>1, <2>3, <2>4 DEF IInv
<1> QED BY <1>1, <1>2, Start, Stutter, PTL DEF Spec, Next

(* Every part of the state has the values it is meant to have, among them:   *)
(* the handler of linux_x86.rs never finds itself without a baseline context *)
(* (its expect), and what a set-up holds is a stretch of what it needs.      *)
THEOREM TypeCorrect == Spec => []TypeOK
<1>1. IInv => TypeOK BY DEF IInv, TypeOK, LinuxInv, ArmInv
<1> QED BY <1>1, Invariance, PTL

(* What execute returns happened to the instruction it was given, whatever   *)
(* an alarm, a missing byte or a failing child did in between, and the length*)
(* that linux_x86.rs finds by trial is the length of that instruction.       *)
THEOREM ObservationsAreOurs == Spec => []ObservationIsOurs
<1>1. IInv => ObservationIsOurs
  BY DEF IInv, ObservationIsOurs, LinuxInv, ArmInv
<1> QED BY <1>1, Invariance, PTL

(* An execution leaves no child, descriptor or handler to the next, and a    *)
(* Linux backend that was refused or dropped leaves nothing set up.          *)
THEOREM NothingIsLeft == Spec => []NothingLeft
<1>1. IInv => NothingLeft
  <2> SUFFICES ASSUME IInv PROVE NothingLeft
    OBVIOUS
  <2>1. CASE host = "linux"
    <3>1. LinuxInv BY <2>1 DEF IInv
    <3>2. Linux!NothingLeft
      BY <3>1 DEF LinuxInv, HeldInv, ModeInv, Preparing, Needed,
                  Linux!NothingLeft
    <3> QED BY <2>1, <3>2 DEF NothingLeft
  <2>2. CASE host # "linux"
    <3>1. ArmInv BY <2>2 DEF IInv
    <3>2. Arm!NothingLeft BY <3>1 DEF ArmInv, ParentInv, Arm!NothingLeft
    <3> QED BY <2>2, <3>2 DEF NothingLeft
  <2> QED BY <2>1, <2>2
<1> QED BY <1>1, Invariance, PTL

===============================================================================
