---------------------------- MODULE MCMcpServer ----------------------------
(* A small instance of McpServer.  A stored diagram is a container with an  *)
(* edge into it; n3 is the node a tool may add.                             *)
EXTENDS McpServer, TLC

CONSTANTS n1, n2, n3, i1, i2, a, b

MCOnDisk == {[nodes |-> {n1, n2}, edges |-> {<<n2, n1>>}, links |-> {<<n1, i1>>},
              style |-> "", tidy |-> FALSE, fits |-> TRUE]}
MCSent == {}

\* Every tool, with the arguments that let it meet the others.
MCTools ==
         [name: {"add_node"}, id: {i1}, node: {n3}]
    \cup [name: {"add_graph"}, id: {i1}, node: {n3}, to: {n1, n3}]
    \cup [name: {"delete_node"}, id: {i1}, node: {n1}]
    \cup [name: {"update_node"}, id: {i1}, node: {n1, n2}, sub: {i1, NoDiagram, NotGiven}]
    \cup [name: {"create_subdiagram"}, id: {i1}, node: {n1}, sub: {i2}]
    \cup [name: {"add_edge"}, id: {i1}, edge: {<<n1, n2>>, <<n1, n3>>}]
    \cup [name: {"delete_edge", "update_edge"}, id: {i1}, edge: {<<n2, n1>>, <<n1, n1>>}]
    \cup [name: {"create_diagram", "rename_diagram"}, id: {i1, i2}, newName: {a, Blank}]
    \cup [name: {"set_edge_style"}, id: {i1}, style: {"synthetic"}]
    \cup [name: {"get_diagram", "auto_layout", "delete_diagram"}, id: {i1}]

\* Edits and renames of one diagram.
MCRenames ==
    {[name |-> "add_node", id |-> i1, node |-> n3],
     [name |-> "rename_diagram", id |-> i1, newName |-> b],
     [name |-> "get_diagram", id |-> i1]}

HandlerSymmetry == Permutations(Caller)
=============================================================================
