--------------------------- MODULE GraphExecution ---------------------------
(***************************************************************************)
(* What IExecutor::Execute promises, whichever executor runs the graph: a  *)
(* kernel is computed at most once and only after the kernels it takes     *)
(* input from, Execute returns only when no kernel is running any more,    *)
(* and it reports success only if every kernel was computed.               *)
(***************************************************************************)
CONSTANTS Nodes,  \* The nodes of the graph
          Edges   \* Its edges, records with fields from and to

VARIABLES running,  \* Nodes whose kernel is computing
          done,     \* Nodes whose kernel was computed without error
          failed,   \* Nodes given up: their kernel failed or was not begun
          outcome   \* "none" until Execute returns "ok" or "error"

vars == <<running, done, failed, outcome>>

Inputs(n) == {e.from : e \in {x \in Edges : x.to = n}}

Init == running = {} /\ done = {} /\ failed = {} /\ outcome = "none"

Start(n) ==
    /\ outcome = "none"
    /\ n \notin running \cup done \cup failed
    /\ Inputs(n) \subseteq done
    /\ running' = running \cup {n}
    /\ UNCHANGED <<done, failed, outcome>>

Complete(n) ==
    /\ n \in running
    /\ running' = running \ {n}
    /\ done' = done \cup {n}
    /\ UNCHANGED <<failed, outcome>>

Fail(n) ==
    /\ n \in running
    /\ running' = running \ {n}
    /\ failed' = failed \cup {n}
    /\ UNCHANGED <<done, outcome>>

\* The run is being terminated and the kernel is not begun.
Abandon(n) ==
    /\ outcome = "none"
    /\ n \notin running \cup done \cup failed
    /\ failed' = failed \cup {n}
    /\ UNCHANGED <<running, done, outcome>>

Return ==
    /\ outcome = "none" /\ running = {}
    /\ \/ outcome' = "ok" /\ done = Nodes
       \/ outcome' = "error"
    /\ UNCHANGED <<running, done, failed>>

Next == Return \/ \E n \in Nodes : Start(n) \/ Complete(n) \/ Fail(n) \/ Abandon(n)

Spec == Init /\ [][Next]_vars
=============================================================================
