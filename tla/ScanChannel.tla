---------------------------- MODULE ScanChannel ----------------------------
(* What the scan interface of crates/mobile_ffi promises, with its threads, *)
(* mutexes and flags left out: at any time at most one scan is open; an      *)
(* open scan is a bounded channel of numbered lines, filled by one producer  *)
(* in order and emptied in the same order; the producer ends once, either    *)
(* saying that it is done or, when it unwinds, without a word; a scan is     *)
(* closed only after its producer has ended, and what was still buffered is  *)
(* then gone.                                                                *)
EXTENDS Naturals, Sequences

CONSTANT Capacities      \* the queue capacities a scan can be opened with

VARIABLES open,          \* a scan handle exists
          ended,         \* its producer will send nothing more
          done,          \* its producer has said so
          capacity,      \* bound on the buffer of the open scan
          sent,          \* lines the producer has sent
          buffer         \* lines sent and not yet taken

vars == <<open, ended, done, capacity, sent, buffer>>

Init == /\ open = FALSE
        /\ ended = FALSE
        /\ done = FALSE
        /\ capacity = 0
        /\ sent = 0
        /\ buffer = <<>>

Open == /\ ~open
        /\ open' = TRUE
        /\ ended' = FALSE
        /\ done' = FALSE
        /\ capacity' \in Capacities
        /\ sent' = 0
        /\ buffer' = <<>>

Send == /\ open
        /\ ~ended
        /\ Len(buffer) < capacity
        /\ sent' = sent + 1
        /\ buffer' = Append(buffer, sent')
        /\ UNCHANGED <<open, ended, done, capacity>>

Take == /\ open
        /\ buffer # <<>>
        /\ buffer' = Tail(buffer)
        /\ UNCHANGED <<open, ended, done, capacity, sent>>

End == /\ open
       /\ ~ended
       /\ ended' = TRUE
       /\ done' = TRUE
       /\ UNCHANGED <<open, capacity, sent, buffer>>

(* The producer is gone and nobody is told.                                  *)
Unwind == /\ open
          /\ ~ended
          /\ ended' = TRUE
          /\ UNCHANGED <<open, done, capacity, sent, buffer>>

Close == /\ open
         /\ ended
         /\ open' = FALSE
         /\ ended' = FALSE
         /\ done' = FALSE
         /\ capacity' = 0
         /\ sent' = 0
         /\ buffer' = <<>>

Next == Open \/ Send \/ Take \/ End \/ Unwind \/ Close

Spec == Init /\ [][Next]_vars
=============================================================================
