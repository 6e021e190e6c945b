------------------------------ MODULE Coverage ------------------------------
(* What a finite search promises whoever reads its output, be it one process *)
(* or many: every candidate it reports is one it was asked to try, none is   *)
(* reported twice, and success is reported only when none is left.           *)
EXTENDS Naturals

CONSTANT Candidates

VARIABLES todo,        \* the candidates asked for
          tried,       \* the candidates reported
          reports,     \* how many reports there were
          verdict      \* "open", "complete", "failed"

vars == <<todo, tried, reports, verdict>>

Init == /\ todo \in SUBSET Candidates
        /\ tried = {} /\ reports = 0
        /\ verdict = "open"

(* Also after a failure: workers left behind go on reporting.                *)
Try == /\ \E b \in todo \ tried : tried' = tried \cup {b}
       /\ reports' = reports + 1
       /\ UNCHANGED <<todo, verdict>>

Complete == /\ verdict = "open"
            /\ tried = todo
            /\ verdict' = "complete"
            /\ UNCHANGED <<todo, tried, reports>>

GiveUp == /\ verdict = "open"
          /\ verdict' = "failed"
          /\ UNCHANGED <<todo, tried, reports>>

Next == Try \/ Complete \/ GiveUp

Spec == Init /\ [][Next]_vars
=============================================================================
