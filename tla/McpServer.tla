----------------------------- MODULE McpServer -----------------------------
(***************************************************************************)
(* The tool handlers of `diagramer -mcp` (internal/mcp/server.go) on top   *)
(* of the service of the same process.  The tools that edit a diagram's    *)
(* content hold the server's own writeMu (here mcpMu) while they get the   *)
(* diagram, change it and update it without If-Match; the others call the  *)
(* service once and hold nothing.  A handler is a Caller of the service.   *)
(***************************************************************************)
EXTENDS DiagramService

CONSTANTS
    Asked,       \* the tool calls clients make
    MaxTools     \* bound: tool calls started, get_diagram aside

ASSUME ToolBoundAssumption == MaxTools \in Nat /\ MaxWrites >= 2 * MaxTools

VARIABLES
    mcpMu,      \* the holder of Server.writeMu
    tpc,        \* per handler: place in the handler
    tool,       \* per handler: the tool and its arguments
    view,       \* per handler: the diagram it got and edits
    minted,     \* node uuids in use
    tools       \* tool calls started (the bound)

service == vars
mine    == <<mcpMu, tpc, tool, view, minted, tools>>
mcpVars == <<disk, clock, drawn, started, writeMu, pc, call, base, reply,
             mcpMu, tpc, tool, view, minted, tools>>

NoTool == [name |-> "none"]

\* The subdiagram_id of an update_node that says nothing of it (nil).
NotGiven == "not given"
ASSUME NotGivenAssumption == NotGiven \notin Id

Tool ==
         [name: {"add_node", "delete_node"}, id: Id, node: Node]
    \cup [name: {"update_node"}, id: Id, node: Node, sub: Id \cup {NoDiagram, NotGiven}]
    \cup [name: {"create_subdiagram"}, id: Id, node: Node, sub: Id]
    \cup [name: {"add_edge", "delete_edge", "update_edge"}, id: Id, edge: Edge]
    \cup [name: {"add_graph"}, id: Id, node: Node, to: Node]
    \cup [name: {"create_diagram", "rename_diagram"}, id: Id, newName: NameArgument]
    \cup [name: {"set_edge_style"}, id: Id, style: {"", "synthetic"}]
    \cup [name: {"get_diagram", "auto_layout", "delete_diagram"}, id: Id]

ASSUME AskedAssumption == Asked \subseteq Tool

Adds  == {"add_node", "add_graph"}
Alone == {"get_diagram", "create_diagram", "rename_diagram", "set_edge_style",
          "auto_layout", "delete_diagram"}

MCPInit ==
    /\ Init
    /\ mcpMu = Nobody
    /\ tpc = [h \in Caller |-> "idle"]
    /\ tool = [h \in Caller |-> NoTool]
    /\ view = [h \in Caller |-> NoDiagram]
    /\ minted = UNION {disk[i].canvas.nodes : i \in {j \in Id : disk[j] # NoDiagram}}
    /\ tools = 0

-----------------------------------------------------------------------------
(* What a tool does to the diagram it got *)

\* The handler's own "not found" check.
Applicable(t, c) ==
    /\ t.name \in {"update_node", "create_subdiagram"} => t.node \in c.nodes
    /\ t.name = "update_edge" => t.edge \in c.edges

\* Mutant: an empty subdiagramId is stored as a reference too.
RelinkedAlways(c, n, sub) == {l \in c.links : l[1] # n} \cup {<<n, sub>>}

\* n becomes the container of sub, or an ordinary node (NoDiagram), or stays
\* what it is.
Relinked(c, n, sub) ==
    IF sub = NotGiven THEN c.links
    ELSE {l \in c.links : l[1] # n} \cup ({<<n, sub>>} \cap (Node \X Id))

Edited(t, c) ==
    CASE t.name = "add_node"    -> [c EXCEPT !.nodes = @ \cup {t.node}]
      [] t.name = "add_graph"   -> [c EXCEPT !.nodes = @ \cup {t.node},
                                             !.edges = @ \cup {<<t.node, t.to>>}]
      [] t.name = "delete_node" -> [c EXCEPT !.nodes = @ \ {t.node},
                                             !.edges = {e \in @ : t.node \notin {e[1], e[2]}},
                                             !.links = {l \in @ : l[1] # t.node}]
      [] t.name = "add_edge"    -> [c EXCEPT !.edges = @ \cup {t.edge}]
      [] t.name = "delete_edge" -> [c EXCEPT !.edges = @ \ {t.edge}]
      [] t.name = "update_edge" -> c
      [] t.name \in {"update_node", "create_subdiagram"} ->
                                   [c EXCEPT !.links = Relinked(c, t.node, t.sub)]

\* The tools that make one call of the service and take no lock of the server.
IsDirect(t) == t.name \in Alone

Direct(t) ==
    CASE t.name = "get_diagram"    -> [op |-> "Get", id |-> t.id]
      [] t.name = "create_diagram" -> [op |-> "Create", id |-> t.id, name |-> t.newName,
                                       component |-> FALSE]
      [] t.name = "rename_diagram" -> [op |-> "Rename", id |-> t.id, name |-> t.newName]
      [] t.name = "set_edge_style" -> [op |-> "SetEdgeStyle", id |-> t.id, style |-> t.style]
      [] t.name = "auto_layout"    -> [op |-> "AutoLayout", id |-> t.id]
      [] t.name = "delete_diagram" -> [op |-> "Delete", id |-> t.id]

-----------------------------------------------------------------------------
(* The handlers *)

Enter(h, place) == tpc' = [tpc EXCEPT ![h] = place]

\* uuids that no call has drawn.  create_subdiagram fixes its uuid at the start.
Fresh(i) ==
    /\ i \notin drawn
    /\ \A h \in Caller : tool[h].name = "create_subdiagram" => tool[h].sub # i

\* A tool call arrives.
StartTool(h, t) ==
    /\ tpc[h] = "idle"
    /\ t.name # "get_diagram" => tools < MaxTools
    /\ t.name \in Adds => t.node \notin minted
    /\ t.name = "create_diagram" => Fresh(t.id)
    /\ t.name = "create_subdiagram" => Fresh(t.sub)
    /\ tools' = IF t.name = "get_diagram" THEN tools ELSE tools + 1
    /\ tool' = [tool EXCEPT ![h] = t]
    /\ minted' = IF t.name \in Adds THEN minted \cup {t.node} ELSE minted
    /\ IF IsDirect(t) THEN Begin(h, Direct(t)) /\ Enter(h, "direct")
                      ELSE UNCHANGED service /\ Enter(h, "lock")
    /\ UNCHANGED <<mcpMu, view>>

\* Mutant: the handler does not take the server's writeMu.
LockServerNot(h) ==
    /\ tpc[h] = "lock"
    /\ Begin(h, [op |-> "Get", id |-> tool[h].id])
    /\ Enter(h, "get")
    /\ UNCHANGED <<mcpMu, tool, view, minted, tools>>

\* s.writeMu.Lock(), then s.svc.Get.
LockServer(h) ==
    /\ tpc[h] = "lock" /\ mcpMu = Nobody
    /\ mcpMu' = h
    /\ Begin(h, [op |-> "Get", id |-> tool[h].id])
    /\ Enter(h, "get")
    /\ UNCHANGED <<tool, view, minted, tools>>

\* Mutant: the handler does not unlock.
DoneLeaksLock(h) ==
    /\ Return(h)
    /\ Enter(h, "idle")
    /\ tool' = [tool EXCEPT ![h] = NoTool]
    /\ view' = [view EXCEPT ![h] = NoDiagram]
    /\ UNCHANGED <<mcpMu, minted, tools>>

\* The handler returns; the deferred Unlock runs.
Done(h) ==
    /\ Return(h)
    /\ Enter(h, "idle")
    /\ mcpMu' = IF mcpMu = h THEN Nobody ELSE mcpMu
    /\ tool' = [tool EXCEPT ![h] = NoTool]
    /\ view' = [view EXCEPT ![h] = NoDiagram]
    /\ UNCHANGED <<minted, tools>>

\* The diagram arrives: give up, or go on to edit it.
TakeDiagram(h) ==
    /\ tpc[h] = "get" /\ pc[h] = "done"
    /\ \/ /\ reply[h].status = "ok" => ~Applicable(tool[h], reply[h].diagram.canvas)
          /\ Done(h)
       \/ /\ reply[h].status = "ok" /\ Applicable(tool[h], reply[h].diagram.canvas)
          /\ view' = [view EXCEPT ![h] = reply[h].diagram]
          /\ Return(h)
          /\ Enter(h, IF tool[h].name = "create_subdiagram" THEN "create" ELSE "update")
          /\ UNCHANGED <<mcpMu, tool, minted, tools>>

\* create_subdiagram makes the component before it links it.
CreateComponent(h) ==
    /\ tpc[h] = "create" /\ pc[h] = "idle"
    /\ \E name \in Name :
          Begin(h, [op |-> "Create", id |-> tool[h].sub, name |-> name, component |-> TRUE])
    /\ Enter(h, "creating")
    /\ UNCHANGED <<mcpMu, tool, view, minted, tools>>

TakeComponent(h) ==
    /\ tpc[h] = "creating" /\ pc[h] = "done"
    /\ \/ reply[h].status # "ok" /\ Done(h)
       \/ /\ reply[h].status = "ok"
          /\ Return(h)
          /\ Enter(h, "update")
          /\ UNCHANGED <<mcpMu, tool, view, minted, tools>>

\* s.svc.Update(ctx, d, ""): the edited diagram replaces whatever is stored now.
SendUpdate(h) ==
    /\ tpc[h] = "update" /\ pc[h] = "idle"
    /\ Begin(h, [op |-> "Update", id |-> tool[h].id, name |-> view[h].name,
                 canvas |-> Edited(tool[h], view[h].canvas), ifMatch |-> NoTag])
    /\ Enter(h, "updating")
    /\ UNCHANGED <<mcpMu, tool, view, minted, tools>>

Finish(h) == tpc[h] \in {"updating", "direct"} /\ pc[h] = "done" /\ Done(h)

Handler(h) == \/ LockServer(h) \/ TakeDiagram(h) \/ CreateComponent(h)
              \/ TakeComponent(h) \/ SendUpdate(h) \/ Finish(h)

ServiceStep(h) == Step(h) /\ UNCHANGED mine

MCPNext == \E h \in Caller :
              \/ \E t \in Asked : StartTool(h, t)
              \/ Handler(h)
              \/ ServiceStep(h)

MCPSpec == MCPInit /\ [][MCPNext]_mcpVars

\* Both mutexes are fair, and the runtime runs every handler that can run.
MCPFairness ==
    \A h \in Caller :
        /\ WF_mcpVars(TakeDiagram(h) \/ CreateComponent(h) \/ TakeComponent(h)
                        \/ SendUpdate(h) \/ Finish(h))
        /\ SF_mcpVars(LockServer(h))
        /\ WF_mcpVars((Get(h) \/ Read(h) \/ Save(h)) /\ UNCHANGED mine)
        /\ SF_mcpVars(Lock(h) /\ UNCHANGED mine)

MCPFairSpec == MCPSpec /\ MCPFairness

-----------------------------------------------------------------------------
(* Properties *)

\* Every variable of the handlers has its type.
MCPTypeOK ==
    /\ mcpMu \in Caller \cup {Nobody}
    /\ tpc \in [Caller -> {"idle", "lock", "get", "create", "creating", "update",
                           "updating", "direct"}]
    /\ tool \in [Caller -> Tool \cup {NoTool}]
    /\ view \in [Caller -> Diagram \cup {NoDiagram}]
    /\ minted \in SUBSET Node

By(h, names) == tpc[h] \in {"updating", "direct"} /\ pc[h] = "save" /\ tool[h].name \in names

\* What one tool put into a diagram disappears only through a tool that is asked
\* to remove it: parallel tool calls do not drop each other's nodes, edges or
\* subdiagram links (server.go:20-25).
ToolsKeepContent ==
    [][\A i \in Id : (disk[i] # NoDiagram /\ disk'[i] # NoDiagram) =>
        LET old == disk[i].canvas
            new == disk'[i].canvas
        IN  /\ \A n \in old.nodes \ new.nodes :
                  \E h \in Caller : By(h, {"delete_node"}) /\ tool[h].node = n
            /\ \A e \in Attached(old) \ new.edges :
                  \E h \in Caller : \/ By(h, {"delete_node"}) /\ tool[h].node \in {e[1], e[2]}
                                    \/ By(h, {"delete_edge"}) /\ tool[h].edge = e
            /\ \A l \in old.links \ new.links :
                  \E h \in Caller :
                      \/ By(h, {"delete_node"}) /\ tool[h].node = l[1]
                      \/ /\ By(h, {"update_node", "create_subdiagram"})
                         /\ tool[h].node = l[1] /\ tool[h].sub # NotGiven]_mcpVars

\* "parallel tool calls ... silently drop each other's changes" (server.go:22-24)
\* must not happen to a rename either: only a rename changes the name.
RenamesSurvive ==
    [][\A i \in Id : (disk[i] # NoDiagram /\ disk'[i] # NoDiagram
                        /\ disk'[i].name # disk[i].name) =>
        \E h \in Caller : By(h, {"rename_diagram"})]_mcpVars

\* No tool call hangs: the two mutexes are always taken in the same order.
EveryToolReturns == \A h \in Caller : tpc[h] # "idle" ~> tpc[h] = "idle"
=============================================================================
