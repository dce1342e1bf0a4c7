--------------------------- MODULE MCEditorCanvas ---------------------------
(* A diagram with two nodes and an edge, and a single node with a loop.     *)
EXTENDS EditorCanvas

MCLoaded == {[nodes |-> {1, 2}, edges |-> {NewEdge(3, 1, NoPort, 2, NoPort)}, look |-> 0],
             [nodes |-> {2}, edges |-> {NewEdge(1, 2, NoPort, 2, NoPort)}, look |-> 0]}
=============================================================================
