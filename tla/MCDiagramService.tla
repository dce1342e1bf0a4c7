-------------------------- MODULE MCDiagramService --------------------------
(* A small instance of DiagramService for TLC. *)
EXTENDS DiagramService

CONSTANTS n1, n2

Plain(nodes, edges) ==
    [nodes |-> nodes, edges |-> edges, links |-> {}, style |-> "", tidy |-> FALSE, fits |-> TRUE]

Chain   == Plain({n1, n2}, {<<n1, n2>>})
HalfRef == Plain({n1}, {<<n1, n2>>})               \* edge to a missing node
Loop    == Plain({n1, n2}, {<<n1, n2>>, <<n2, n2>>})  \* cycle behind a root

MCSent   == {Chain, HalfRef}
MCOnDisk == {HalfRef}
MCSentLoop == {Loop}
=============================================================================
