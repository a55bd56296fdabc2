------------------------------ MODULE TaskPool ------------------------------
(***************************************************************************)
(* What a bounded pool promises its owner: tasks start in the order they   *)
(* were accepted, each exactly once, at most as many at a time as there    *)
(* are workers; the pool closes only when it has run all it accepted; and  *)
(* an accepted task is run, whatever else happens.                         *)
(***************************************************************************)
EXTENDS Naturals, Sequences, FiniteSets

CONSTANTS Tasks, Capacity, NWorkers

VARIABLES queue, running, done, closed
vars == <<queue, running, done, closed>>

Init == queue = <<>> /\ running = {} /\ done = {} /\ closed = FALSE

Accept(t) ==
    /\ ~closed /\ Len(queue) < Capacity
    /\ t \notin running \cup done /\ \A i \in DOMAIN queue : queue[i] # t
    /\ queue' = Append(queue, t)
    /\ UNCHANGED <<running, done, closed>>

Start ==
    /\ queue # <<>> /\ Cardinality(running) < NWorkers
    /\ running' = running \cup {Head(queue)} /\ queue' = Tail(queue)
    /\ UNCHANGED <<done, closed>>

Finish(t) ==
    /\ t \in running
    /\ running' = running \ {t} /\ done' = done \cup {t}
    /\ UNCHANGED <<queue, closed>>

Close ==
    /\ ~closed /\ queue = <<>> /\ running = {}
    /\ closed' = TRUE
    /\ UNCHANGED <<queue, running, done>>

Next ==
    \/ \E t \in Tasks : Accept(t) \/ Finish(t)
    \/ Start
    \/ Close

Safe == Init /\ [][Next]_vars
Spec == Safe /\ WF_vars(Start) /\ \A t \in Tasks : WF_vars(Finish(t))
=============================================================================
