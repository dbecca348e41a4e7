------------------------- MODULE MCParallelExecutor -------------------------
(***************************************************************************)
(* Two roots; a diamond whose lower half takes two outputs of one node,    *)
(* and a node that both roots feed.                                        *)
(***************************************************************************)
EXTENDS ParallelExecutor

CONSTANTS a, b, c, d, r, t1, t2, t3

MCNodes == {a, b, c, d, r}
Edge(from, to, slot) == [from |-> from, to |-> to, slot |-> slot]
MCEdges == {Edge(a, b, 0), Edge(a, c, 0), Edge(b, d, 0), Edge(c, d, 0), Edge(c, d, 1),
            Edge(r, c, 0)}
MCThreads == {t1, t2, t3}
=============================================================================
