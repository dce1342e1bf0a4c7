--------------------------- MODULE MCLayoutLevels ---------------------------
(* Every graph on four nodes without self-loops, up to the names of the     *)
(* nodes (but for the complete graph, which has no root, one edge is        *)
(* missing: let it be the one from n4 to n1), and every graph on three of   *)
(* them with self-loops and with edges to and from the missing fourth.      *)
(* Boxes have four sizes; some labels are wider than the gap.               *)
EXTENDS LayoutPlacement

CONSTANTS n1, n2, n3, n4

Graphs(nodes, edges) ==
    [nodes: {nodes}, edges: SUBSET edges, links: {{}}, style: {""},
     tidy: {FALSE}, fits: {TRUE}]

MCDrawn == Graphs(Node, {e \in Edge : e[1] # e[2] /\ e # <<n4, n1>>})
      \cup Graphs({n1, n2, n3},
                  ({n1, n2, n3} \X {n1, n2, n3}) \cup {<<n1, n4>>, <<n4, n2>>})

MCWidth == n1 :> 2 @@ n2 :> 5 @@ n3 :> 3 @@ n4 :> 4
MCHeight == n1 :> 1 @@ n2 :> 2 @@ n3 :> 5 @@ n4 :> 1
MCLabelWidth == [e \in Edge |-> IF n3 \in {e[1], e[2]} THEN 7
                                ELSE IF e[1] = n1 THEN 4 ELSE 0]
=============================================================================
