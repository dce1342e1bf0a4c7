-------------------------- MODULE McpServer_proofs --------------------------
(***************************************************************************)
(* Proofs about McpServer for any handlers, tools and diagrams.            *)
(* The service below keeps its own invariant Inv whatever the tools send   *)
(* (DiagramService_proofs, Serves).  MCPInv adds, for every handler: it is *)
(* between its Lock and its Unlock exactly when it holds writeMu; its      *)
(* place says what it has called; and what it has seen of its diagram is   *)
(* what the store still holds, unless the diagram was deleted for good.    *)
(***************************************************************************)
EXTENDS McpServer, DiagramService_proofs

-----------------------------------------------------------------------------
(* Tools *)

\* What a tool of each name carries.
LEMMA ToolFields ==
    ASSUME NEW t \in Tool
    PROVE  /\ t.id \in Id
           /\ t.name \in {"add_node", "delete_node", "update_node", "create_subdiagram",
                          "add_edge", "delete_edge", "update_edge", "add_graph"} \cup Alone
           /\ t.name \in {"add_node", "delete_node", "update_node", "create_subdiagram",
                          "add_graph"} => t.node \in Node
           /\ t.name = "add_graph" => t.to \in Node
           /\ t.name = "create_subdiagram" => t.sub \in Id
           /\ t.name \in {"add_edge", "delete_edge"} => t.edge \in Edge
           /\ t.name \in {"create_diagram", "rename_diagram"} => t.newName \in NameArgument
           /\ t.name = "set_edge_style" => t.style \in {"", "synthetic"}
  BY DEF Tool, Alone

\* An edited canvas is a canvas.
LEMMA EditedType ==
    ASSUME NEW t \in Tool, ~IsDirect(t), NEW c \in Canvas
    PROVE  Edited(t, c) \in Canvas
  <1> DEFINE Of(ns, es, ls) == [nodes |-> ns, edges |-> es, links |-> ls, style |-> c.style,
                                tidy |-> c.tidy, fits |-> c.fits]
  <1>1. /\ c.nodes \subseteq Node /\ c.edges \subseteq Edge /\ c.links \subseteq Node \X Id
        /\ c = Of(c.nodes, c.edges, c.links)
    BY DEF Canvas
  <1>2. ASSUME NEW ns \in SUBSET Node, NEW es \in SUBSET Edge, NEW ls \in SUBSET (Node \X Id)
        PROVE  Of(ns, es, ls) \in Canvas
    BY DEF Canvas
  <1>3. ASSUME NEW ns, NEW es, NEW ls
        PROVE  /\ [c EXCEPT !.nodes = ns] = Of(ns, c.edges, c.links)
               /\ [c EXCEPT !.edges = es] = Of(c.nodes, es, c.links)
               /\ [c EXCEPT !.links = ls] = Of(c.nodes, c.edges, ls)
               /\ [c EXCEPT !.nodes = ns, !.edges = es] = Of(ns, es, c.links)
    <2>1. [c EXCEPT !.nodes = ns] = Of(ns, c.edges, c.links)
      BY DEF Canvas
    <2>2. [c EXCEPT !.edges = es] = Of(c.nodes, es, c.links)
      BY DEF Canvas
    <2>3. [c EXCEPT !.links = ls] = Of(c.nodes, c.edges, ls)
      BY DEF Canvas
    <2>4. [c EXCEPT !.nodes = ns, !.edges = es] = [[c EXCEPT !.nodes = ns] EXCEPT !.edges = es]
      OBVIOUS
    <2>5. [Of(ns, c.edges, c.links) EXCEPT !.edges = es] = Of(ns, es, c.links)
      OBVIOUS
    <2> HIDE DEF Of
    <2> QED
      BY <2>1, <2>2, <2>3, <2>4, <2>5
  <1> HIDE DEF Of
  <1>4. CASE t.name = "add_node"
    <2>1. Edited(t, c) = Of(c.nodes \cup {t.node}, c.edges, c.links)
      BY <1>3, <1>4 DEF Edited
    <2>2. c.nodes \cup {t.node} \in SUBSET Node
      BY <1>1, <1>4, ToolFields
    <2> QED
      BY <1>1, <1>2, <2>1, <2>2
  <1>5. CASE t.name = "add_graph"
    <2>1. Edited(t, c) = Of(c.nodes \cup {t.node}, c.edges \cup {<<t.node, t.to>>}, c.links)
      BY <1>3, <1>5 DEF Edited, Canvas
    <2>2. <<t.node, t.to>> \in Edge /\ t.node \in Node
      BY <1>5, ToolFields DEF Edge
    <2>3. c.nodes \cup {t.node} \in SUBSET Node /\ c.edges \cup {<<t.node, t.to>>} \in SUBSET Edge
      BY <1>1, <2>2
    <2> QED
      BY <1>1, <1>2, <2>1, <2>3
  <1>6. CASE t.name = "delete_node"
    <2> DEFINE ns == c.nodes \ {t.node}
               es == {e \in c.edges : t.node \notin {e[1], e[2]}}
               ls == {l \in c.links : l[1] # t.node}
    <2>1. Edited(t, c) = [c EXCEPT !.nodes = ns, !.edges = es, !.links = ls]
      BY <1>6 DEF Edited, Canvas
    <2> HIDE DEF ns, es, ls
    <2>2. [c EXCEPT !.nodes = ns, !.edges = es, !.links = ls] = Of(ns, es, ls)
      <3>1. /\ [c EXCEPT !.nodes = ns, !.edges = es, !.links = ls]
                 = [[[c EXCEPT !.nodes = ns] EXCEPT !.edges = es] EXCEPT !.links = ls]
            /\ [c EXCEPT !.nodes = ns] = Of(ns, c.edges, c.links)
        BY <1>3
      <3>2. /\ [Of(ns, c.edges, c.links) EXCEPT !.edges = es] = Of(ns, es, c.links)
            /\ [Of(ns, es, c.links) EXCEPT !.links = ls] = Of(ns, es, ls)
        BY DEF Of
      <3> QED
        BY <3>1, <3>2
    <2>3. Edited(t, c) = Of(ns, es, ls)
      BY <2>1, <2>2
    <2>4. ns \in SUBSET Node /\ es \in SUBSET Edge /\ ls \in SUBSET (Node \X Id)
      BY <1>1 DEF ns, es, ls
    <2> QED
      BY <1>2, <2>3, <2>4
  <1>7. CASE t.name = "add_edge"
    <2>1. Edited(t, c) = Of(c.nodes, c.edges \cup {t.edge}, c.links)
      BY <1>3, <1>7 DEF Edited
    <2>2. c.edges \cup {t.edge} \in SUBSET Edge
      BY <1>1, <1>7, ToolFields
    <2> QED
      BY <1>1, <1>2, <2>1, <2>2
  <1>8. CASE t.name = "delete_edge"
    <2>1. Edited(t, c) = Of(c.nodes, c.edges \ {t.edge}, c.links)
      BY <1>3, <1>8 DEF Edited
    <2> QED
      BY <1>1, <1>2, <2>1
  <1>9. CASE t.name = "update_edge"
    BY <1>9 DEF Edited
  <1>10. CASE t.name \in {"update_node", "create_subdiagram"}
    <2>1. Edited(t, c) = Of(c.nodes, c.edges, Relinked(c, t.node, t.sub))
      BY <1>3, <1>10 DEF Edited
    <2>2. Relinked(c, t.node, t.sub) \in SUBSET (Node \X Id)
      BY <1>1 DEF Relinked
    <2> QED
      BY <1>1, <1>2, <2>1, <2>2
  <1> QED
    BY <1>4, <1>5, <1>6, <1>7, <1>8, <1>9, <1>10, ToolFields DEF IsDirect

\* An edit removes only what the tool is asked to remove.
LEMMA EditedKeeps ==
    ASSUME NEW t \in Tool, ~IsDirect(t), NEW c \in Canvas
    PROVE  /\ \A n \in c.nodes \ Edited(t, c).nodes : t.name = "delete_node" /\ t.node = n
           /\ \A e \in c.edges \ Edited(t, c).edges :
                 \/ t.name = "delete_node" /\ t.node \in {e[1], e[2]}
                 \/ t.name = "delete_edge" /\ t.edge = e
           /\ \A l \in c.links \ Edited(t, c).links :
                 \/ t.name = "delete_node" /\ t.node = l[1]
                 \/ /\ t.name \in {"update_node", "create_subdiagram"}
                    /\ t.node = l[1] /\ t.sub # NotGiven
  <1>1. t.name \in {"add_node", "delete_node", "update_node", "create_subdiagram",
                    "add_edge", "delete_edge", "update_edge", "add_graph"}
    BY ToolFields DEF IsDirect
  <1>2. CASE t.name \in {"add_node", "add_edge", "add_graph", "update_edge"}
    <2>1. /\ c.nodes \subseteq Edited(t, c).nodes /\ c.edges \subseteq Edited(t, c).edges
          /\ c.links \subseteq Edited(t, c).links
      BY <1>2 DEF Edited, Canvas
    <2> QED
      BY <2>1
  <1>3. CASE t.name = "delete_node"
    <2>1. /\ Edited(t, c).nodes = c.nodes \ {t.node}
          /\ Edited(t, c).edges = {e \in c.edges : t.node \notin {e[1], e[2]}}
          /\ Edited(t, c).links = {l \in c.links : l[1] # t.node}
      BY <1>3 DEF Edited, Canvas
    <2> QED
      BY <1>3, <2>1
  <1>4. CASE t.name = "delete_edge"
    <2>1. /\ Edited(t, c).nodes = c.nodes
          /\ Edited(t, c).edges = c.edges \ {t.edge}
          /\ Edited(t, c).links = c.links
      BY <1>4 DEF Edited, Canvas
    <2> QED
      BY <1>4, <2>1
  <1>5. CASE t.name \in {"update_node", "create_subdiagram"}
    <2>1. /\ Edited(t, c).nodes = c.nodes /\ Edited(t, c).edges = c.edges
          /\ Edited(t, c).links = Relinked(c, t.node, t.sub)
      BY <1>5 DEF Edited, Canvas
    <2> QED
      BY <1>5, <2>1 DEF Relinked
  <1> QED
    BY <1>1, <1>2, <1>3, <1>4, <1>5

\* The tools that make one call make a proper one.
LEMMA DirectType ==
    ASSUME NEW t \in Tool, IsDirect(t)
    PROVE  /\ Direct(t) \in Call
           /\ Direct(t).id = t.id
           /\ Direct(t).op \in {"Get", "Create", "Rename", "SetEdgeStyle", "AutoLayout", "Delete"}
  <1>1. t.id \in Id /\ t.name \in Alone
    BY ToolFields DEF IsDirect
  <1>2. CASE t.name = "create_diagram"
    <2>1. Direct(t) = [op |-> "Create", id |-> t.id, name |-> t.newName, component |-> FALSE]
      BY <1>2 DEF Direct
    <2>2. t.newName \in NameArgument
      BY <1>2, ToolFields
    <2>3. Direct(t) \in [op: {"Create"}, id: Id, name: NameArgument, component: BOOLEAN]
      BY <1>1, <2>1, <2>2
    <2>4. Direct(t) \in Call
      BY <2>3 DEF Call, CallsOver
    <2> QED
      BY <2>1, <2>4
  <1>3. CASE t.name = "rename_diagram"
    <2>1. Direct(t) = [op |-> "Rename", id |-> t.id, name |-> t.newName]
      BY <1>3 DEF Direct
    <2>2. t.newName \in NameArgument
      BY <1>3, ToolFields
    <2>3. Direct(t) \in [op: {"Rename"}, id: Id, name: NameArgument]
      BY <1>1, <2>1, <2>2
    <2>4. Direct(t) \in Call
      BY <2>3 DEF Call, CallsOver
    <2> QED
      BY <2>1, <2>4
  <1>4. CASE t.name = "set_edge_style"
    <2>1. Direct(t) = [op |-> "SetEdgeStyle", id |-> t.id, style |-> t.style]
      BY <1>4 DEF Direct
    <2>2. t.style \in Style
      BY <1>4, ToolFields DEF Style, KnownStyle
    <2>3. Direct(t) \in [op: {"SetEdgeStyle"}, id: Id, style: Style]
      BY <1>1, <2>1, <2>2
    <2>4. Direct(t) \in Call
      BY <2>3 DEF Call, CallsOver
    <2> QED
      BY <2>1, <2>4
  <1>5. CASE t.name \in {"get_diagram", "auto_layout", "delete_diagram"}
    <2>1. PICK op \in {"Get", "AutoLayout", "Delete"} : Direct(t) = [op |-> op, id |-> t.id]
      BY <1>5 DEF Direct
    <2>2. Direct(t) \in [op: {"Get", "AutoLayout", "Delete"}, id: Id]
      BY <1>1, <2>1
    <2>3. Direct(t) \in Call
      BY <2>2 DEF Call, CallsOver
    <2> QED
      BY <2>1, <2>3
  <1> QED
    BY <1>1, <1>2, <1>3, <1>4, <1>5 DEF Alone

-----------------------------------------------------------------------------
(* Content *)

SameContent(c, d) == c.nodes = d.nodes /\ Attached(c) = Attached(d) /\ c.links = d.links

\* Healing a diagram keeps what its tools see.
LEMMA PruneContent ==
    ASSUME NEW d \in Diagram
    PROVE  SameContent(Prune(d).canvas, d.canvas)
  <1>1. d.canvas \in Canvas
    BY DEF Diagram
  <1>2. Prune(d).canvas = [d.canvas EXCEPT !.edges = Attached(d.canvas)]
    BY DEF Prune, Diagram
  <1>3. /\ Prune(d).canvas.nodes = d.canvas.nodes
        /\ Prune(d).canvas.edges = Attached(d.canvas)
        /\ Prune(d).canvas.links = d.canvas.links
    BY <1>1, <1>2 DEF Canvas
  <1> QED
    BY <1>3 DEF SameContent, Attached

\* Renames, styles and layouts keep it too.
LEMMA WrittenContent ==
    ASSUME NEW c \in Call, c.op \in {"Rename", "SetEdgeStyle", "AutoLayout"},
           NEW d \in Diagram, NEW now \in Nat
    PROVE  SameContent(Written(c, Fetched(c, d), now).canvas, d.canvas)
  <1> DEFINE f == Fetched(c, d)
  <1>1. f \in Diagram /\ SameContent(f.canvas, d.canvas)
    BY NoDiagramAssumption, FetchedType, PruneContent DEF Fetched, SameContent
  <1>2. f.canvas \in Canvas
    BY <1>1 DEF Diagram
  <1> HIDE DEF f
  <1>3. CASE c.op = "Rename"
    <2>1. Written(c, f, now).canvas = f.canvas
      BY <1>1, <1>3 DEF Written, Diagram
    <2> QED
      BY <1>1, <2>1 DEF f
  <1>4. CASE c.op = "SetEdgeStyle"
    <2>1. Written(c, f, now).canvas = [f.canvas EXCEPT !.style = Normal(c.style)]
      BY <1>1, <1>4 DEF Written, Diagram
    <2>2. SameContent(Written(c, f, now).canvas, f.canvas)
      BY <1>2, <2>1 DEF Canvas, SameContent, Attached
    <2> QED
      BY <1>1, <2>2 DEF f, SameContent
  <1>5. CASE c.op = "AutoLayout"
    <2>1. Written(c, f, now).canvas = [f.canvas EXCEPT !.tidy = TRUE]
      BY <1>1, <1>5 DEF Written, Diagram
    <2>2. SameContent(Written(c, f, now).canvas, f.canvas)
      BY <1>2, <2>1 DEF Canvas, SameContent, Attached
    <2> QED
      BY <1>1, <2>2 DEF f, SameContent
  <1> QED
    BY <1>3, <1>4, <1>5

-----------------------------------------------------------------------------
(* The invariant *)

\* The places of a handler that edits, between its Lock and its Unlock.
Editing == {"get", "create", "creating", "update", "updating"}

MutexAt(h) == tpc[h] \in Editing <=> mcpMu = h

\* What the place in the handler says of the tool, of the call made and of the view.
HandlerAt(h) ==
    /\ tpc[h] \in {"idle", "lock", "create", "update"} <=> pc[h] = "idle"
    /\ tpc[h] # "idle" => tool[h] \in Tool
    /\ tpc[h] \in {"lock"} \cup Editing => ~IsDirect(tool[h])
    /\ tpc[h] = "direct" => IsDirect(tool[h]) /\ call[h] = Direct(tool[h])
    /\ tpc[h] = "get" => call[h] = [op |-> "Get", id |-> tool[h].id]
    /\ tpc[h] \in {"create", "creating"} => tool[h].name = "create_subdiagram"
    /\ tpc[h] = "creating" => call[h].op = "Create" /\ call[h].id = tool[h].sub
    /\ tpc[h] \in Editing \ {"get"} => view[h] # NoDiagram
    /\ tpc[h] = "updating" => call[h] =
          [op |-> "Update", id |-> tool[h].id, name |-> view[h].name,
           canvas |-> Edited(tool[h], view[h].canvas), ifMatch |-> NoTag]

\* The handler has the diagram, and has not written it back.
Working(h) == \/ tpc[h] = "get" /\ pc[h] = "done" /\ reply[h].status = "ok"
              \/ tpc[h] \in {"create", "creating", "update"}
              \/ tpc[h] = "updating" /\ pc[h] # "done"

Seen(h) == IF tpc[h] = "get" THEN reply[h].diagram ELSE view[h]

\* What it has seen is what the store still holds, unless that was deleted for good.
Latest(h) ==
    /\ Seen(h) # NoDiagram /\ Dangling(Seen(h).canvas) = {}
    /\ tool[h].id \in drawn
    /\ \A w \in Caller : Creating(w) => call[w].id # tool[h].id
    /\ disk[tool[h].id] # NoDiagram => SameContent(disk[tool[h].id].canvas, Seen(h).canvas)

At(h) == MutexAt(h) /\ HandlerAt(h) /\ (Working(h) => Latest(h))

MCPInv == Inv /\ MCPTypeOK /\ \A h \in Caller : At(h)

-----------------------------------------------------------------------------
(* Steps of the service *)

\* A method call of h enters the service.
LEMMA BeginFrame ==
    ASSUME Inv, NEW h \in Caller, NEW c \in Call, Begin(h, c)
    PROVE  /\ pc[h] = "idle" /\ pc'[h] # "idle" /\ call'[h] = c
           /\ c.op = "Get" => pc'[h] = "get"
           /\ UNCHANGED disk /\ drawn \subseteq drawn'
           /\ \A v \in Caller \ {h} : pc'[v] = pc[v] /\ call'[v] = call[v] /\ reply'[v] = reply[v]
           /\ \A v \in Caller : Creating(v)' =>
                 \/ Creating(v) /\ call'[v].id = call[v].id
                 \/ call'[v].id \notin drawn
  <1>1. /\ pc[h] = "idle" /\ pc'[h] \in {"done", "get", "lock"} /\ call'[h] = c
        /\ c.op = "Get" => pc'[h] = "get"
        /\ UNCHANGED disk /\ drawn \subseteq drawn'
        /\ \A v \in Caller \ {h} : pc'[v] = pc[v] /\ call'[v] = call[v] /\ reply'[v] = reply[v]
        /\ c.op = "Create" => c.id \notin drawn
    BY DEF Inv, TypeOK, Begin, Answer, Goto, BadStyle
  <1> QED
    BY <1>1 DEF Creating

\* The service goes on with the call of h.
LEMMA StepFrame ==
    ASSUME Inv, NEW h \in Caller, Step(h)
    PROVE  /\ pc[h] \notin {"idle", "done"} /\ pc'[h] # "idle"
           /\ UNCHANGED <<drawn, call>>
           /\ \A v \in Caller \ {h} : pc'[v] = pc[v] /\ call'[v] = call[v] /\ reply'[v] = reply[v]
           /\ \A v \in Caller : Creating(v)' => Creating(v) /\ call'[v].id = call[v].id
  <1>1. /\ pc[h] \notin {"idle", "done"} /\ UNCHANGED <<drawn, call>>
        /\ \A v \in Caller \ {h} : pc'[v] = pc[v] /\ reply'[v] = reply[v]
        /\ \/ pc'[h] \in {"done", "read", "diverged"}
           \/ pc[h] = "lock" /\ pc'[h] = "save"
           \/ pc[h] = "read" /\ pc'[h] = "save" /\ call[h].op # "Create"
    <2>1. CASE Get(h)
      BY <2>1 DEF Get, Answer, Goto, shared, Inv, TypeOK
    <2>2. CASE Lock(h)
      BY <2>2 DEF Lock, Answer, Goto, Inv, TypeOK
    <2>3. CASE Read(h)
      BY <2>3 DEF Read, Answer, Goto, Inv, TypeOK, PlaceInv
    <2>4. CASE Save(h) \/ SaveButNotIndexed(h)
      BY <2>4 DEF Save, SaveButNotIndexed, Write, Answer, Goto, Inv, TypeOK
    <2>5. CASE Fail(h)
      BY <2>5 DEF Fail, Answer, Goto, Inv, TypeOK
    <2> QED
      BY <2>1, <2>2, <2>3, <2>4, <2>5 DEF Step
  <1> QED
    BY <1>1 DEF Creating

\* The caller takes its result.
LEMMA ReturnFrame ==
    ASSUME Inv, NEW h \in Caller, Return(h)
    PROVE  /\ pc[h] = "done" /\ pc'[h] = "idle"
           /\ UNCHANGED <<disk, drawn>>
           /\ \A v \in Caller \ {h} : pc'[v] = pc[v] /\ call'[v] = call[v] /\ reply'[v] = reply[v]
           /\ \A v \in Caller : Creating(v)' => Creating(v) /\ call'[v].id = call[v].id
  <1>1. /\ pc[h] = "done" /\ pc'[h] = "idle"
        /\ UNCHANGED <<disk, drawn>>
        /\ \A v \in Caller \ {h} : pc'[v] = pc[v] /\ call'[v] = call[v] /\ reply'[v] = reply[v]
    BY DEF Return, Goto, shared, Inv, TypeOK
  <1> QED
    BY <1>1 DEF Creating

\* A handler whose state no step touches stands where it stood, if its diagram was at
\* most deleted or given another name or look.
LEMMA Untouched ==
    ASSUME NEW v \in Caller, At(v),
           tpc'[v] = tpc[v], tool'[v] = tool[v], view'[v] = view[v],
           pc'[v] = pc[v], call'[v] = call[v], reply'[v] = reply[v],
           mcpMu' = v <=> mcpMu = v, drawn \subseteq drawn',
           \A w \in Caller : Creating(w)' =>
              (Creating(w) /\ call'[w].id = call[w].id) \/ call'[w].id \notin drawn,
           Working(v) /\ disk'[tool[v].id] # NoDiagram =>
              /\ disk[tool[v].id] # NoDiagram
              /\ SameContent(disk'[tool[v].id].canvas, disk[tool[v].id].canvas)
    PROVE  At(v)'
  <1>1. MutexAt(v)'
    BY DEF At, MutexAt
  <1>2. HandlerAt(v)'
    BY DEF At, HandlerAt
  <1>3. Working(v)' => Working(v)
    BY DEF Working
  <1>4. ASSUME Working(v) PROVE Latest(v)'
    <2>1. Latest(v) /\ Seen(v)' = Seen(v)
      BY <1>4 DEF At, Seen
    <2>2. \A w \in Caller : Creating(w)' => call'[w].id # tool'[v].id
      BY <2>1 DEF Latest
    <2>3. disk'[tool[v].id] # NoDiagram => SameContent(disk'[tool[v].id].canvas, Seen(v).canvas)
      BY <1>4, <2>1 DEF Latest, SameContent
    <2> QED
      BY <2>1, <2>2, <2>3 DEF Latest
  <1> QED
    BY <1>1, <1>2, <1>3, <1>4 DEF At

-----------------------------------------------------------------------------
(* Steps of the handlers *)

\* The types and the rest of the handlers, when h alone has moved and nothing was written.
LEMMA HandlerKeeps ==
    ASSUME MCPInv, NEW h \in Caller, Inv', MCPTypeOK', At(h)',
           \A v \in Caller \ {h} :
              /\ tpc'[v] = tpc[v] /\ tool'[v] = tool[v] /\ view'[v] = view[v]
              /\ pc'[v] = pc[v] /\ call'[v] = call[v] /\ reply'[v] = reply[v]
              /\ mcpMu' = v <=> mcpMu = v,
           UNCHANGED disk, drawn \subseteq drawn',
           \A w \in Caller : Creating(w)' =>
              (Creating(w) /\ call'[w].id = call[w].id) \/ call'[w].id \notin drawn
    PROVE  MCPInv'
  <1>1. ASSUME NEW v \in Caller \ {h} PROVE At(v)'
    <2>1. Working(v) /\ disk'[tool[v].id] # NoDiagram =>
              /\ disk[tool[v].id] # NoDiagram
              /\ SameContent(disk'[tool[v].id].canvas, disk[tool[v].id].canvas)
      BY DEF SameContent
    <2> QED
      BY <2>1, Untouched DEF MCPInv
  <1> QED
    BY <1>1 DEF MCPInv

\* A tool call arrives.
LEMMA StartToolInv ==
    ASSUME MCPInv, NEW h \in Caller, NEW t \in Asked, StartTool(h, t)
    PROVE  MCPInv'
  <1>1. /\ tpc[h] = "idle" /\ t \in Tool
        /\ tool' = [tool EXCEPT ![h] = t] /\ UNCHANGED <<mcpMu, view>>
        /\ minted' = IF t.name \in Adds THEN minted \cup {t.node} ELSE minted
    BY AskedAssumption DEF StartTool
  <1>2. /\ Inv /\ tool \in [Caller -> Tool \cup {NoTool}] /\ At(h) /\ pc[h] = "idle"
        /\ minted \subseteq Node /\ mcpMu # h
    BY <1>1 DEF MCPInv, MCPTypeOK, At, HandlerAt, MutexAt, Editing
  <1>3. minted' \in SUBSET Node
    BY <1>1, <1>2, ToolFields DEF Adds
  <1>4. CASE IsDirect(t)
    <2>1. Begin(h, Direct(t)) /\ tpc' = [tpc EXCEPT ![h] = "direct"]
      BY <1>4 DEF StartTool, Enter
    <2>2. Direct(t) \in Call
      BY <1>1, <1>4, DirectType
    <2>3. /\ pc'[h] # "idle" /\ call'[h] = Direct(t)
          /\ UNCHANGED disk /\ drawn \subseteq drawn'
          /\ \A v \in Caller \ {h} : pc'[v] = pc[v] /\ call'[v] = call[v] /\ reply'[v] = reply[v]
          /\ \A v \in Caller : Creating(v)' =>
                \/ Creating(v) /\ call'[v].id = call[v].id
                \/ call'[v].id \notin drawn
      BY <1>2, <2>1, <2>2, BeginFrame
    <2>4. Inv'
      BY <1>2, <2>1, <2>2, BeginInv
    <2>5. MCPTypeOK'
      BY <1>1, <1>3, <2>1 DEF MCPInv, MCPTypeOK
    <2>6. tpc'[h] = "direct" /\ tool'[h] = t
      BY <1>1, <1>2, <2>1 DEF MCPInv, MCPTypeOK
    <2>7. At(h)'
      BY <1>1, <1>2, <1>4, <2>3, <2>6 DEF At, MutexAt, HandlerAt, Working, Editing
    <2>8. \A v \in Caller \ {h} : tpc'[v] = tpc[v] /\ tool'[v] = tool[v] /\ view'[v] = view[v]
      BY <1>1, <1>2, <2>1 DEF MCPInv, MCPTypeOK
    <2> QED
      BY <1>1, <2>3, <2>4, <2>5, <2>7, <2>8, HandlerKeeps
  <1>5. CASE ~IsDirect(t)
    <2>1. UNCHANGED vars /\ tpc' = [tpc EXCEPT ![h] = "lock"]
      BY <1>5 DEF StartTool, Enter, service
    <2>2. UNCHANGED <<disk, drawn, pc, call, reply>>
      BY <2>1 DEF vars
    <2>3. Inv'
      BY <1>2, <2>1, ServesInv
    <2>4. MCPTypeOK'
      BY <1>1, <1>3, <2>1 DEF MCPInv, MCPTypeOK
    <2>5. tpc'[h] = "lock" /\ tool'[h] = t
      BY <1>1, <1>2, <2>1 DEF MCPInv, MCPTypeOK
    <2>6. At(h)'
      BY <1>1, <1>2, <1>5, <2>2, <2>5 DEF At, MutexAt, HandlerAt, Working, Editing
    <2>7. \A v \in Caller \ {h} : tpc'[v] = tpc[v] /\ tool'[v] = tool[v] /\ view'[v] = view[v]
      BY <1>1, <1>2, <2>1 DEF MCPInv, MCPTypeOK
    <2>8. \A v \in Caller : Creating(v)' => Creating(v) /\ call'[v].id = call[v].id
      BY <2>2 DEF Creating
    <2> QED
      BY <1>1, <2>2, <2>3, <2>4, <2>6, <2>7, <2>8, HandlerKeeps
  <1> QED
    BY <1>4, <1>5

\* s.writeMu.Lock() and the Get that follows.
LEMMA LockServerInv ==
    ASSUME MCPInv, NEW h \in Caller, LockServer(h)
    PROVE  MCPInv'
  <1> DEFINE c == [op |-> "Get", id |-> tool[h].id]
  <1>1. /\ tpc[h] = "lock" /\ mcpMu = Nobody /\ mcpMu' = h /\ Begin(h, c)
        /\ tpc' = [tpc EXCEPT ![h] = "get"] /\ UNCHANGED <<tool, view, minted>>
    BY DEF LockServer, Enter
  <1>2. /\ Inv /\ MCPTypeOK /\ At(h) /\ tool[h] \in Tool /\ ~IsDirect(tool[h])
    BY <1>1 DEF MCPInv, At, HandlerAt
  <1>3. c \in Call
    <2>1. c \in [op: {"Get", "AutoLayout", "Delete"}, id: Id]
      BY <1>2, ToolFields
    <2> QED
      BY <2>1 DEF Call, CallsOver
  <1>4. c.op = "Get"
    OBVIOUS
  <1>5. c = [op |-> "Get", id |-> tool'[h].id]
    BY <1>1
  <1> HIDE DEF c
  <1>6. /\ pc'[h] = "get" /\ call'[h] = c
        /\ UNCHANGED disk /\ drawn \subseteq drawn'
        /\ \A v \in Caller \ {h} : pc'[v] = pc[v] /\ call'[v] = call[v] /\ reply'[v] = reply[v]
        /\ \A v \in Caller : Creating(v)' =>
              \/ Creating(v) /\ call'[v].id = call[v].id
              \/ call'[v].id \notin drawn
    BY <1>1, <1>2, <1>3, <1>4, BeginFrame
  <1>7. Inv'
    BY <1>1, <1>2, <1>3, BeginInv
  <1>8. MCPTypeOK'
    BY <1>1, <1>2 DEF MCPTypeOK
  <1>9. tpc'[h] = "get"
    BY <1>1, <1>2 DEF MCPTypeOK
  <1>10. At(h)'
    BY <1>1, <1>2, <1>5, <1>6, <1>9 DEF At, MutexAt, HandlerAt, Working, Editing
  <1>11. \A v \in Caller \ {h} : tpc'[v] = tpc[v] /\ tool'[v] = tool[v] /\ view'[v] = view[v]
    BY <1>1, <1>2 DEF MCPTypeOK
  <1>12. \A v \in Caller \ {h} : mcpMu' = v <=> mcpMu = v
    BY <1>1, CallerAssumption
  <1> QED
    BY <1>6, <1>7, <1>8, <1>10, <1>11, <1>12, HandlerKeeps

\* The handler answers.
LEMMA DoneInv ==
    ASSUME MCPInv, NEW h \in Caller, Done(h)
    PROVE  MCPInv'
  <1>1. /\ Return(h) /\ tpc' = [tpc EXCEPT ![h] = "idle"]
        /\ mcpMu' = IF mcpMu = h THEN Nobody ELSE mcpMu
        /\ tool' = [tool EXCEPT ![h] = NoTool] /\ view' = [view EXCEPT ![h] = NoDiagram]
        /\ UNCHANGED minted
    BY DEF Done, Enter
  <1>2. Inv /\ MCPTypeOK
    BY DEF MCPInv
  <1>3. /\ pc'[h] = "idle" /\ UNCHANGED <<disk, drawn>>
        /\ \A v \in Caller \ {h} : pc'[v] = pc[v] /\ call'[v] = call[v] /\ reply'[v] = reply[v]
        /\ \A v \in Caller : Creating(v)' => Creating(v) /\ call'[v].id = call[v].id
    BY <1>1, <1>2, ReturnFrame
  <1>4. Inv'
    BY <1>1, <1>2, ReturnInv
  <1>5. MCPTypeOK'
    BY <1>1, <1>2 DEF MCPTypeOK
  <1>6. tpc'[h] = "idle" /\ mcpMu' # h
    BY <1>1, <1>2, CallerAssumption DEF MCPTypeOK
  <1>7. At(h)'
    BY <1>3, <1>6 DEF At, MutexAt, HandlerAt, Working, Editing
  <1>8. \A v \in Caller \ {h} : /\ tpc'[v] = tpc[v] /\ tool'[v] = tool[v] /\ view'[v] = view[v]
                                /\ mcpMu' = v <=> mcpMu = v
    BY <1>1, <1>2, CallerAssumption DEF MCPTypeOK
  <1> QED
    BY <1>3, <1>4, <1>5, <1>7, <1>8, HandlerKeeps

\* The diagram arrives.
LEMMA TakeDiagramInv ==
    ASSUME MCPInv, NEW h \in Caller, TakeDiagram(h)
    PROVE  MCPInv'
  <1>1. CASE Done(h)
    BY <1>1, DoneInv
  <1>2. CASE ~Done(h)
    <2> DEFINE place == IF tool[h].name = "create_subdiagram" THEN "create" ELSE "update"
               d == reply[h].diagram
    <2>1. /\ tpc[h] = "get" /\ pc[h] = "done" /\ reply[h].status = "ok" /\ Return(h)
          /\ tpc' = [tpc EXCEPT ![h] = place] /\ view' = [view EXCEPT ![h] = d]
          /\ UNCHANGED <<mcpMu, tool, minted>>
      BY <1>2 DEF TakeDiagram, Enter
    <2>2. Inv /\ MCPTypeOK /\ At(h) /\ Working(h) /\ Latest(h) /\ Seen(h) = d
      BY <2>1 DEF MCPInv, At, Working, Seen
    <2>3. /\ pc'[h] = "idle" /\ UNCHANGED <<disk, drawn>>
          /\ \A v \in Caller \ {h} : pc'[v] = pc[v] /\ call'[v] = call[v] /\ reply'[v] = reply[v]
          /\ \A v \in Caller : Creating(v)' => Creating(v) /\ call'[v].id = call[v].id
      BY <2>1, <2>2, ReturnFrame
    <2>4. Inv'
      BY <2>1, <2>2, ReturnInv
    <2>5. d \in Diagram \cup {NoDiagram}
      BY <2>2 DEF Inv, TypeOK, Reply
    <2> HIDE DEF d
    <2>6. MCPTypeOK'
      BY <2>1, <2>2, <2>5 DEF MCPTypeOK
    <2>7. tpc'[h] = place /\ view'[h] = d
      BY <2>1, <2>2 DEF MCPTypeOK
    <2>8. Seen(h)' = d /\ d # NoDiagram
      BY <2>2, <2>7 DEF Seen, Latest
    <2>9. MutexAt(h)' /\ HandlerAt(h)'
      BY <2>1, <2>2, <2>3, <2>7, <2>8 DEF At, MutexAt, HandlerAt, Editing
    <2>10. Latest(h)'
      BY <2>1, <2>2, <2>3, <2>8 DEF Latest
    <2>11. At(h)'
      BY <2>9, <2>10 DEF At
    <2>12. \A v \in Caller \ {h} : tpc'[v] = tpc[v] /\ tool'[v] = tool[v] /\ view'[v] = view[v]
      BY <2>1, <2>2 DEF MCPTypeOK
    <2> QED
      BY <2>1, <2>3, <2>4, <2>6, <2>11, <2>12, HandlerKeeps
  <1> QED
    BY <1>1, <1>2

\* The component is asked for.
LEMMA CreateComponentInv ==
    ASSUME MCPInv, NEW h \in Caller, CreateComponent(h)
    PROVE  MCPInv'
  <1>1. PICK name \in Name :
           Begin(h, [op |-> "Create", id |-> tool[h].sub, name |-> name, component |-> TRUE])
    BY DEF CreateComponent
  <1> DEFINE c == [op |-> "Create", id |-> tool[h].sub, name |-> name, component |-> TRUE]
  <1>2. /\ tpc[h] = "create" /\ Begin(h, c)
        /\ tpc' = [tpc EXCEPT ![h] = "creating"] /\ UNCHANGED <<mcpMu, tool, view, minted>>
    BY <1>1 DEF CreateComponent, Enter
  <1>3. /\ Inv /\ MCPTypeOK /\ At(h) /\ tool[h] \in Tool
        /\ tool[h].name = "create_subdiagram" /\ Latest(h)
    BY <1>2 DEF MCPInv, At, HandlerAt, Working
  <1>4. c \in Call
    <2>1. tool[h].sub \in Id /\ name \in NameArgument
      BY <1>3, ToolFields DEF NameArgument
    <2>2. c \in [op: {"Create"}, id: Id, name: NameArgument, component: BOOLEAN]
      BY <2>1
    <2> QED
      BY <2>2 DEF Call, CallsOver
  <1>5. c.op = "Create" /\ c.id = tool[h].sub
    OBVIOUS
  <1> HIDE DEF c
  <1>6. /\ pc'[h] # "idle" /\ call'[h] = c
        /\ UNCHANGED disk /\ drawn \subseteq drawn'
        /\ \A v \in Caller \ {h} : pc'[v] = pc[v] /\ call'[v] = call[v] /\ reply'[v] = reply[v]
        /\ \A v \in Caller : Creating(v)' =>
              \/ Creating(v) /\ call'[v].id = call[v].id
              \/ call'[v].id \notin drawn
    BY <1>2, <1>3, <1>4, BeginFrame
  <1>7. Inv'
    BY <1>2, <1>3, <1>4, BeginInv
  <1>8. MCPTypeOK'
    BY <1>2, <1>3 DEF MCPTypeOK
  <1>9. tpc'[h] = "creating"
    BY <1>2, <1>3 DEF MCPTypeOK
  <1>10. MutexAt(h)' /\ HandlerAt(h)'
    BY <1>2, <1>3, <1>5, <1>6, <1>9 DEF At, MutexAt, HandlerAt, Editing
  <1>11. Latest(h)'
    <2>1. Seen(h)' = Seen(h)
      BY <1>2, <1>9 DEF Seen
    <2>2. \A v \in Caller : Creating(v)' => call'[v].id # tool[h].id
      BY <1>3, <1>6 DEF Latest
    <2> QED
      BY <1>2, <1>3, <1>6, <2>1, <2>2 DEF Latest
  <1>12. At(h)'
    BY <1>10, <1>11 DEF At
  <1>13. \A v \in Caller \ {h} : tpc'[v] = tpc[v] /\ tool'[v] = tool[v] /\ view'[v] = view[v]
    BY <1>2, <1>3 DEF MCPTypeOK
  <1> QED
    BY <1>2, <1>6, <1>7, <1>8, <1>12, <1>13, HandlerKeeps

\* The component was made, or was not.
LEMMA TakeComponentInv ==
    ASSUME MCPInv, NEW h \in Caller, TakeComponent(h)
    PROVE  MCPInv'
  <1>1. CASE Done(h)
    BY <1>1, DoneInv
  <1>2. CASE ~Done(h)
    <2>1. /\ tpc[h] = "creating" /\ pc[h] = "done" /\ Return(h)
          /\ tpc' = [tpc EXCEPT ![h] = "update"] /\ UNCHANGED <<mcpMu, tool, view, minted>>
      BY <1>2 DEF TakeComponent, Enter
    <2>2. Inv /\ MCPTypeOK /\ At(h) /\ Latest(h)
      BY <2>1 DEF MCPInv, At, Working
    <2>3. /\ pc'[h] = "idle" /\ UNCHANGED <<disk, drawn>>
          /\ \A v \in Caller \ {h} : pc'[v] = pc[v] /\ call'[v] = call[v] /\ reply'[v] = reply[v]
          /\ \A v \in Caller : Creating(v)' => Creating(v) /\ call'[v].id = call[v].id
      BY <2>1, <2>2, ReturnFrame
    <2>4. Inv'
      BY <2>1, <2>2, ReturnInv
    <2>5. MCPTypeOK'
      BY <2>1, <2>2 DEF MCPTypeOK
    <2>6. tpc'[h] = "update"
      BY <2>1, <2>2 DEF MCPTypeOK
    <2>7. MutexAt(h)' /\ HandlerAt(h)'
      BY <2>1, <2>2, <2>3, <2>6 DEF At, MutexAt, HandlerAt, Editing
    <2>8. Seen(h)' = Seen(h)
      BY <2>1, <2>6 DEF Seen
    <2>9. Latest(h)'
      BY <2>1, <2>2, <2>3, <2>8 DEF Latest
    <2>10. At(h)'
      BY <2>7, <2>9 DEF At
    <2>11. \A v \in Caller \ {h} : tpc'[v] = tpc[v] /\ tool'[v] = tool[v] /\ view'[v] = view[v]
      BY <2>1, <2>2 DEF MCPTypeOK
    <2> QED
      BY <2>1, <2>3, <2>4, <2>5, <2>10, <2>11, HandlerKeeps
  <1> QED
    BY <1>1, <1>2

\* The update of an editing handler is a proper call.
LEMMA UpdateType ==
    ASSUME MCPTypeOK, NEW h \in Caller, tool[h] \in Tool, ~IsDirect(tool[h]),
           view[h] # NoDiagram
    PROVE  [op |-> "Update", id |-> tool[h].id, name |-> view[h].name,
            canvas |-> Edited(tool[h], view[h].canvas), ifMatch |-> NoTag] \in Call
  <1>1. view[h] \in Diagram
    BY DEF MCPTypeOK
  <1>2. view[h].name \in NameArgument /\ view[h].canvas \in Canvas
    BY <1>1 DEF Diagram, NameArgument
  <1>3. Edited(tool[h], view[h].canvas) \in Canvas
    BY <1>2, EditedType
  <1>4. tool[h].id \in Id /\ NoTag \in Tag
    BY ToolFields DEF Tag
  <1>5. [op |-> "Update", id |-> tool[h].id, name |-> view[h].name,
         canvas |-> Edited(tool[h], view[h].canvas), ifMatch |-> NoTag]
           \in [op: {"Update"}, id: Id, name: NameArgument, canvas: Canvas, ifMatch: Tag]
    BY <1>2, <1>3, <1>4
  <1> QED
    BY <1>5 DEF Call, CallsOver

\* The edited diagram is sent.
LEMMA SendUpdateInv ==
    ASSUME MCPInv, NEW h \in Caller, SendUpdate(h)
    PROVE  MCPInv'
  <1> DEFINE c == [op |-> "Update", id |-> tool[h].id, name |-> view[h].name,
                   canvas |-> Edited(tool[h], view[h].canvas), ifMatch |-> NoTag]
  <1>1. /\ tpc[h] = "update" /\ Begin(h, c)
        /\ tpc' = [tpc EXCEPT ![h] = "updating"] /\ UNCHANGED <<mcpMu, tool, view, minted>>
    BY DEF SendUpdate, Enter
  <1>2. /\ Inv /\ MCPTypeOK /\ At(h) /\ tool[h] \in Tool /\ ~IsDirect(tool[h])
        /\ view[h] # NoDiagram /\ Latest(h)
    BY <1>1 DEF MCPInv, At, HandlerAt, Working, Editing
  <1>3. c \in Call
    BY <1>2, UpdateType
  <1>4. c = [op |-> "Update", id |-> tool'[h].id, name |-> view'[h].name,
             canvas |-> Edited(tool'[h], view'[h].canvas), ifMatch |-> NoTag]
    BY <1>1
  <1> HIDE DEF c
  <1>5. /\ pc'[h] # "idle" /\ call'[h] = c
        /\ UNCHANGED disk /\ drawn \subseteq drawn'
        /\ \A v \in Caller \ {h} : pc'[v] = pc[v] /\ call'[v] = call[v] /\ reply'[v] = reply[v]
        /\ \A v \in Caller : Creating(v)' =>
              \/ Creating(v) /\ call'[v].id = call[v].id
              \/ call'[v].id \notin drawn
    BY <1>1, <1>2, <1>3, BeginFrame
  <1>6. Inv'
    BY <1>1, <1>2, <1>3, BeginInv
  <1>7. MCPTypeOK'
    BY <1>1, <1>2 DEF MCPTypeOK
  <1>8. tpc'[h] = "updating"
    BY <1>1, <1>2 DEF MCPTypeOK
  <1>9. MutexAt(h)'
    BY <1>1, <1>2, <1>8 DEF At, MutexAt, Editing
  <1>10. HandlerAt(h)'
    <2>1. call'[h] = [op |-> "Update", id |-> tool'[h].id, name |-> view'[h].name,
                      canvas |-> Edited(tool'[h], view'[h].canvas), ifMatch |-> NoTag]
      BY <1>4, <1>5
    <2>2. tool'[h] \in Tool /\ ~IsDirect(tool'[h]) /\ view'[h] # NoDiagram
      BY <1>1, <1>2
    <2> QED
      BY <1>5, <1>8, <2>1, <2>2 DEF HandlerAt, Editing
  <1>11. Latest(h)'
    <2>1. Seen(h)' = Seen(h)
      BY <1>1, <1>8 DEF Seen
    <2>2. \A v \in Caller : Creating(v)' => call'[v].id # tool[h].id
      BY <1>2, <1>5 DEF Latest
    <2> QED
      BY <1>1, <1>2, <1>5, <2>1, <2>2 DEF Latest
  <1>12. At(h)'
    BY <1>9, <1>10, <1>11 DEF At
  <1>13. \A v \in Caller \ {h} : tpc'[v] = tpc[v] /\ tool'[v] = tool[v] /\ view'[v] = view[v]
    BY <1>1, <1>2 DEF MCPTypeOK
  <1> QED
    BY <1>1, <1>5, <1>6, <1>7, <1>12, <1>13, HandlerKeeps

-----------------------------------------------------------------------------
(* What a write of the service does to the content of a diagram *)

\* A diagram that is replaced keeps its content, or gets the edit of the handler that
\* holds the mutex, made on the content it replaces.
LEMMA WriteByTool ==
    ASSUME MCPInv, NEW h \in Caller, Step(h), NEW i \in Id,
           disk'[i] # disk[i], disk[i] # NoDiagram, disk'[i] # NoDiagram
    PROVE  /\ pc[h] = "save" /\ call[h].id = i
           /\ \/ /\ SameContent(disk'[i].canvas, disk[i].canvas)
              \/ /\ tpc[h] = "updating" /\ Working(h) /\ tool[h].id = i
                 /\ disk'[i].canvas = Edited(tool[h], view[h].canvas)
  <1> DEFINE c == call[h]
             new == Written(c, base[h], clock + 1)
  <1>1. Inv /\ MCPTypeOK /\ At(h) /\ HandlerAt(h)
    BY DEF MCPInv, At
  <1>2. PICK status \in {"ok", "internal"} : Write(h, status)
    BY DEF Step, Get, Lock, Read, Save, SaveButNotIndexed, Fail, shared
  <1>3. /\ c \in Call /\ c.op # "Get"
        /\ Verdict(c, base[h]) = "save"
        /\ \A j \in Id : j # c.id => disk'[j] = disk[j]
        /\ disk'[c.id] = new
        /\ c.op = "Delete" => new = NoDiagram
        /\ c.op = "Create" => disk[c.id] = NoDiagram
        /\ Rewriting(h) => disk[c.id] # NoDiagram /\ base[h] = Fetched(c, disk[c.id])
    BY <1>1, <1>2, WriteStep
  <1>4. pc[h] = "save" /\ c.id = i
    BY <1>2, <1>3 DEF Write
  <1>5. /\ disk'[i] = Written(c, base[h], clock + 1)
        /\ c.op \notin {"Get", "Create", "Delete"}
        /\ base[h] = Fetched(c, disk[i])
    BY <1>3, <1>4 DEF Rewriting
  <1>6. disk[i] \in Diagram /\ clock + 1 \in Nat
    BY <1>1 DEF Inv, TypeOK
  <1> HIDE DEF c
  <1>7. CASE tpc[h] = "direct"
    <2>1. c.op \in {"Get", "Create", "Rename", "SetEdgeStyle", "AutoLayout", "Delete"}
      BY <1>1, <1>7, DirectType DEF HandlerAt, c
    <2>2. c.op \in {"Rename", "SetEdgeStyle", "AutoLayout"}
      BY <1>5, <2>1
    <2>3. SameContent(disk'[i].canvas, disk[i].canvas)
      BY <1>3, <1>5, <1>6, <2>2, WrittenContent
    <2> QED
      BY <1>4, <2>3 DEF c
  <1>8. CASE tpc[h] = "updating"
    <2>1. c = [op |-> "Update", id |-> tool[h].id, name |-> view[h].name,
               canvas |-> Edited(tool[h], view[h].canvas), ifMatch |-> NoTag]
      BY <1>1, <1>8 DEF HandlerAt, c
    <2>2. c.op = "Update" /\ c.id = tool[h].id /\ c.canvas = Edited(tool[h], view[h].canvas)
      BY <2>1
    <2>3. base[h] = disk[i]
      BY <1>5, <2>2 DEF Fetched
    <2>4. disk'[i] = [Updated(c, disk[i]) EXCEPT !.updated = clock + 1]
      BY <1>5, <2>2, <2>3 DEF Written
    <2>5. disk'[i].canvas = c.canvas
      BY <1>6, <2>4 DEF Updated, Diagram
    <2> QED
      BY <1>4, <1>8, <2>2, <2>5 DEF Working, c
  <1>9. CASE tpc[h] \in {"get", "creating"}
    BY <1>1, <1>5, <1>9 DEF HandlerAt, c
  <1>10. CASE tpc[h] \in {"idle", "lock", "create", "update"}
    BY <1>1, <1>4, <1>10 DEF HandlerAt
  <1> QED
    BY <1>1, <1>7, <1>8, <1>9, <1>10 DEF MCPTypeOK

\* What a handler works on is not written under its hands: it has the mutex, and the
\* calls made without it leave the content alone.
LEMMA ContentKept ==
    ASSUME MCPInv, NEW w \in Caller, Step(w), NEW v \in Caller,
           v # w \/ tpc[v] # "updating"
    PROVE  Working(v) /\ disk'[tool[v].id] # NoDiagram =>
              /\ disk[tool[v].id] # NoDiagram
              /\ SameContent(disk'[tool[v].id].canvas, disk[tool[v].id].canvas)
  <1> DEFINE i == tool[v].id
  <1> SUFFICES ASSUME Working(v), disk'[i] # NoDiagram
               PROVE  disk[i] # NoDiagram /\ SameContent(disk'[i].canvas, disk[i].canvas)
    OBVIOUS
  <1>1. Inv /\ MCPTypeOK /\ At(v) /\ At(w) /\ Latest(v)
    BY DEF MCPInv, At
  <1>2. tpc[v] \in Editing /\ mcpMu = v
    BY <1>1 DEF At, MutexAt, Working, Editing
  <1>3. i \in Id
    BY <1>1, <1>2, ToolFields DEF At, HandlerAt, Editing
  <1>4. [Serves]_vars
    BY DEF Serves
  <1>5. disk[i] # NoDiagram
    <2>1. SUFFICES ASSUME disk[i] = NoDiagram PROVE FALSE
      OBVIOUS
    <2>2. PICK u \in Caller : pc[u] = "save" /\ call[u].op = "Create" /\ call[u].id = i
      BY <1>1, <1>3, <1>4, <2>1, DeletionStep
    <2> QED
      BY <1>1, <2>2 DEF Latest, Creating
  <1>6. CASE disk'[i] = disk[i]
    BY <1>5, <1>6 DEF SameContent
  <1>7. CASE disk'[i] # disk[i]
    <2>1. \/ SameContent(disk'[i].canvas, disk[i].canvas)
          \/ tpc[w] = "updating"
      BY <1>3, <1>5, <1>7, WriteByTool
    <2>2. tpc[w] # "updating"
      BY <1>1, <1>2 DEF At, MutexAt, Editing
    <2> QED
      BY <1>5, <2>1, <2>2
  <1> QED
    BY <1>6, <1>7

\* The service goes on with the call of a handler.
LEMMA ServiceStepInv ==
    ASSUME MCPInv, NEW h \in Caller, ServiceStep(h)
    PROVE  MCPInv'
  <1>1. Step(h) /\ UNCHANGED <<mcpMu, tpc, tool, view, minted>>
    BY DEF ServiceStep, mine
  <1>2. Inv /\ MCPTypeOK /\ At(h)
    BY DEF MCPInv
  <1>3. Inv'
    BY <1>1, <1>2, ServesInv DEF Serves
  <1>4. MCPTypeOK'
    BY <1>1, <1>2 DEF MCPTypeOK
  <1>5. /\ pc[h] \notin {"idle", "done"} /\ pc'[h] # "idle"
        /\ UNCHANGED <<drawn, call>>
        /\ \A v \in Caller \ {h} : pc'[v] = pc[v] /\ call'[v] = call[v] /\ reply'[v] = reply[v]
        /\ \A v \in Caller : Creating(v)' => Creating(v) /\ call'[v].id = call[v].id
    BY <1>1, <1>2, StepFrame
  <1>6. ASSUME NEW v \in Caller \ {h} PROVE At(v)'
    <2>1. Working(v) /\ disk'[tool[v].id] # NoDiagram =>
              /\ disk[tool[v].id] # NoDiagram
              /\ SameContent(disk'[tool[v].id].canvas, disk[tool[v].id].canvas)
      BY <1>1, ContentKept
    <2> QED
      BY <1>1, <1>5, <2>1, Untouched DEF MCPInv
  <1>7. MutexAt(h)'
    BY <1>1, <1>2 DEF At, MutexAt
  <1>8. HandlerAt(h)'
    BY <1>1, <1>2, <1>5 DEF At, HandlerAt
  <1>9. ASSUME Working(h)' PROVE Latest(h)'
    <2> DEFINE i == tool[h].id
    <2>1. tpc[h] # "idle" /\ i \in Id
      BY <1>1, <1>2, <1>9, ToolFields DEF Working, At, HandlerAt
    <2>2. CASE tpc[h] = "get"
      <3> DEFINE s == disk[i]
                 d == Fetched(call[h], s)
      <3>1. call[h] = [op |-> "Get", id |-> i] /\ call[h].op = "Get" /\ call[h].id = i
        BY <1>2, <2>2 DEF At, HandlerAt
      <3>2. pc'[h] = "done" /\ reply'[h].status = "ok" /\ Seen(h)' = reply'[h].diagram
        BY <1>1, <1>9, <2>2 DEF Working, Seen
      <3>3. pc[h] = "get"
        BY <1>2, <1>5, <3>1 DEF Inv, TypeOK, PlaceInv, Place, Holding
      <3>4. Get(h)
        BY <1>1, <1>2, <3>2, <3>3
           DEF Step, Lock, Read, Save, SaveButNotIndexed, Write, Fail, Answer, Inv, TypeOK
      <3>5. UNCHANGED disk /\ reply'[h] = [status |-> Verdict(call[h], d), diagram |-> d]
        BY <1>2, <3>1, <3>4 DEF Get, Answer, shared, Inv, TypeOK
      <3>6. Verdict(call[h], d) = "ok" /\ Seen(h)' = d
        BY <3>2, <3>5
      <3>7. d # NoDiagram
        BY <3>1, <3>6 DEF Verdict, BadStyle, BadName
      <3>8. s \in Diagram /\ d = Prune(s)
        BY <1>2, <2>1, <3>1, <3>7 DEF Fetched, Inv, TypeOK
      <3>9. Dangling(d.canvas) = {} /\ SameContent(s.canvas, d.canvas)
        BY <3>8, PruneHeals, PruneContent DEF SameContent
      <3>10. s # NoDiagram
        BY <3>8, NoDiagramAssumption
      <3> HIDE DEF d
      <3>11. i \in drawn
        BY <1>2, <2>1, <3>10 DEF Inv, FreshInv
      <3>12. \A w \in Caller : Creating(w) => call[w].id # i
        BY <1>2, <3>10 DEF Inv, FreshInv
      <3> QED
        BY <1>1, <1>5, <3>5, <3>6, <3>7, <3>9, <3>11, <3>12 DEF Latest
    <2>3. CASE tpc[h] # "get"
      <3>1. Working(h) /\ tpc[h] \in {"creating", "updating"} /\ Seen(h)' = Seen(h)
        BY <1>1, <1>2, <1>5, <1>9, <2>3 DEF Working, Seen, At, HandlerAt
      <3>2. Latest(h)
        BY <1>2, <3>1 DEF At
      <3>3. disk'[i] # NoDiagram => SameContent(disk'[i].canvas, Seen(h).canvas)
        <4>1. CASE tpc[h] = "creating"
          <5>1. disk'[i] # NoDiagram =>
                   disk[i] # NoDiagram /\ SameContent(disk'[i].canvas, disk[i].canvas)
            BY <1>1, <3>1, <4>1, ContentKept
          <5> QED
            BY <3>2, <5>1 DEF Latest, SameContent
        <4>2. CASE tpc[h] = "updating"
          <5>1. pc'[h] # "done"
            BY <1>1, <1>9, <4>2 DEF Working
          <5>2. UNCHANGED disk
            BY <1>1, <1>2, <5>1
               DEF Step, Get, Lock, Read, Save, SaveButNotIndexed, Write, Fail, Answer, Goto,
                   shared, Inv, TypeOK
          <5> QED
            BY <3>2, <5>2 DEF Latest
        <4> QED
          BY <3>1, <4>1, <4>2
      <3> QED
        BY <1>1, <1>5, <3>1, <3>2, <3>3 DEF Latest
    <2> QED
      BY <2>2, <2>3
  <1>10. At(h)'
    BY <1>7, <1>8, <1>9 DEF At
  <1> QED
    BY <1>3, <1>4, <1>6, <1>10 DEF MCPInv

-----------------------------------------------------------------------------
(* The steps together *)

\* The initial states satisfy the invariant.
LEMMA MCPInitInv == MCPInit => MCPInv
  <1> SUFFICES ASSUME MCPInit PROVE MCPInv
    OBVIOUS
  <1>1. Inv
    BY InitInv DEF MCPInit
  <1>2. \A i \in {j \in Id : disk[j] # NoDiagram} : disk[i].canvas.nodes \subseteq Node
    <2>1. ASSUME NEW i \in Id, disk[i] # NoDiagram PROVE disk[i].canvas.nodes \subseteq Node
      <3>1. disk[i] \in Diagram
        BY <1>1, <2>1 DEF Inv, TypeOK
      <3> QED
        BY <3>1 DEF Diagram, Canvas
    <2> QED
      BY <2>1
  <1>3. minted \in SUBSET Node
    BY <1>2 DEF MCPInit
  <1>4. MCPTypeOK
    BY <1>3 DEF MCPInit, MCPTypeOK
  <1>5. pc = [h \in Caller |-> "idle"] /\ mcpMu = Nobody /\ tpc = [h \in Caller |-> "idle"]
    BY DEF MCPInit, Init
  <1>6. ASSUME NEW h \in Caller PROVE At(h)
    BY <1>5, CallerAssumption DEF At, MutexAt, HandlerAt, Working, Editing
  <1> QED
    BY <1>1, <1>4, <1>6 DEF MCPInv

\* A step of the handlers is a step of the service, or leaves the service alone.
LEMMA MCPNextServes == MCPInv /\ [MCPNext]_mcpVars => [Serves]_vars
  <1> SUFFICES ASSUME MCPInv, [MCPNext]_mcpVars PROVE [Serves]_vars
    OBVIOUS
  <1>1. CASE UNCHANGED mcpVars
    BY <1>1 DEF mcpVars, vars
  <1>2. ASSUME NEW h \in Caller, NEW t \in Asked, StartTool(h, t) PROVE [Serves]_vars
    <2>1. CASE IsDirect(t)
      <3>1. Begin(h, Direct(t)) /\ Direct(t) \in Call
        BY <1>2, <2>1, AskedAssumption, DirectType DEF StartTool
      <3> QED
        BY <3>1 DEF Serves
    <2>2. CASE ~IsDirect(t)
      BY <1>2, <2>2 DEF StartTool, service
    <2> QED
      BY <2>1, <2>2
  <1>3. ASSUME NEW h \in Caller, LockServer(h) PROVE Serves
    <2>1. tool[h] \in Tool
      BY <1>3 DEF LockServer, MCPInv, At, HandlerAt
    <2>2. [op |-> "Get", id |-> tool[h].id] \in [op: {"Get", "AutoLayout", "Delete"}, id: Id]
      BY <2>1, ToolFields
    <2>3. [op |-> "Get", id |-> tool[h].id] \in Call
      BY <2>2 DEF Call, CallsOver
    <2> QED
      BY <1>3, <2>3 DEF LockServer, Serves
  <1>4. ASSUME NEW h \in Caller, CreateComponent(h) PROVE Serves
    <2>1. PICK name \in Name : Begin(h, [op |-> "Create", id |-> tool[h].sub, name |-> name,
                                         component |-> TRUE])
      BY <1>4 DEF CreateComponent
    <2>2. tool[h] \in Tool /\ tool[h].name = "create_subdiagram"
      BY <1>4 DEF CreateComponent, MCPInv, At, HandlerAt
    <2>3. tool[h].sub \in Id /\ name \in NameArgument
      BY <2>2, ToolFields DEF NameArgument
    <2>4. [op |-> "Create", id |-> tool[h].sub, name |-> name, component |-> TRUE]
             \in [op: {"Create"}, id: Id, name: NameArgument, component: BOOLEAN]
      BY <2>3
    <2>5. [op |-> "Create", id |-> tool[h].sub, name |-> name, component |-> TRUE] \in Call
      BY <2>4 DEF Call, CallsOver
    <2> QED
      BY <2>1, <2>5 DEF Serves
  <1>5. ASSUME NEW h \in Caller, SendUpdate(h) PROVE Serves
    <2>1. /\ tool[h] \in Tool /\ ~IsDirect(tool[h]) /\ view[h] # NoDiagram
      BY <1>5 DEF SendUpdate, MCPInv, At, HandlerAt, Editing
    <2>2. [op |-> "Update", id |-> tool[h].id, name |-> view[h].name,
           canvas |-> Edited(tool[h], view[h].canvas), ifMatch |-> NoTag] \in Call
      BY <2>1, UpdateType DEF MCPInv
    <2> QED
      BY <1>5, <2>2 DEF SendUpdate, Serves
  <1>6. ASSUME NEW h \in Caller, TakeDiagram(h) \/ TakeComponent(h) \/ Finish(h) PROVE Serves
    BY <1>6 DEF TakeDiagram, TakeComponent, Finish, Done, Serves
  <1>7. ASSUME NEW h \in Caller, ServiceStep(h) PROVE Serves
    BY <1>7 DEF ServiceStep, Serves
  <1> QED
    BY <1>1, <1>2, <1>3, <1>4, <1>5, <1>6, <1>7 DEF MCPNext, Handler

\* The steps keep the invariant.
LEMMA MCPNextInv == MCPInv /\ [MCPNext]_mcpVars => MCPInv'
  <1> SUFFICES ASSUME MCPInv, [MCPNext]_mcpVars PROVE MCPInv'
    OBVIOUS
  <1>1. CASE UNCHANGED mcpVars
    <2>1. Inv /\ MCPTypeOK
      BY DEF MCPInv
    <2>2. UNCHANGED vars /\ UNCHANGED <<disk, drawn, pc, call, reply>>
          /\ UNCHANGED <<mcpMu, tpc, tool, view, minted>>
      BY <1>1 DEF mcpVars, vars
    <2>3. Inv'
      BY <2>1, <2>2, ServesInv
    <2>4. MCPTypeOK'
      BY <2>1, <2>2 DEF MCPTypeOK
    <2>5. ASSUME NEW v \in Caller PROVE At(v)'
      <3>1. At(v)
        BY DEF MCPInv
      <3> QED
        BY <2>2, <3>1 DEF At, MutexAt, HandlerAt, Working, Latest, Seen, Creating
    <2> QED
      BY <2>3, <2>4, <2>5 DEF MCPInv
  <1>2. ASSUME NEW h \in Caller, NEW t \in Asked, StartTool(h, t) PROVE MCPInv'
    BY <1>2, StartToolInv
  <1>3. ASSUME NEW h \in Caller, Handler(h) PROVE MCPInv'
    <2>1. CASE Finish(h)
      BY <2>1, DoneInv DEF Finish
    <2> QED
      BY <1>3, <2>1, LockServerInv, TakeDiagramInv, CreateComponentInv, TakeComponentInv,
         SendUpdateInv DEF Handler
  <1>4. ASSUME NEW h \in Caller, ServiceStep(h) PROVE MCPInv'
    BY <1>4, ServiceStepInv
  <1> QED
    BY <1>1, <1>2, <1>3, <1>4 DEF MCPNext

\* MCPInv holds in every reachable state.
THEOREM MCPInvariance == MCPSpec => []MCPInv
  BY MCPInitInv, MCPNextInv, PTL DEF MCPSpec

\* Every variable of the handlers keeps its type.
THEOREM MCPTypes == MCPSpec => []MCPTypeOK
  BY MCPInvariance, PTL DEF MCPInv

-----------------------------------------------------------------------------
(* What the tools promise *)

\* A step that writes a diagram drops what its tool removes.
LEMMA KeepStep ==
    ASSUME MCPInv, [MCPNext]_mcpVars, NEW i \in Id,
           disk[i] # NoDiagram, disk'[i] # NoDiagram, disk'[i] # disk[i]
    PROVE  LET old == disk[i].canvas
               new == disk'[i].canvas
           IN  \/ SameContent(new, old)
               \/ \E h \in Caller :
                    /\ tpc[h] = "updating" /\ pc[h] = "save" /\ tool[h] \in Tool
                    /\ ~IsDirect(tool[h]) /\ view[h].canvas \in Canvas
                    /\ new = Edited(tool[h], view[h].canvas)
                    /\ Attached(view[h].canvas) = view[h].canvas.edges
                    /\ SameContent(old, view[h].canvas)
  <1>1. Inv
    BY DEF MCPInv
  <1>2. PICK h \in Caller : ServiceStep(h)
    <2>1. ~UNCHANGED mcpVars
      BY DEF mcpVars
    <2>2. ASSUME NEW h \in Caller, NEW t \in Asked, StartTool(h, t) PROVE UNCHANGED disk
      BY <2>2 DEF StartTool, Begin, service, vars
    <2>3. ASSUME NEW h \in Caller, Handler(h) PROVE UNCHANGED disk
      BY <2>3 DEF Handler, LockServer, TakeDiagram, CreateComponent, TakeComponent, SendUpdate,
                  Finish, Done, Begin, Return, shared
    <2> QED
      BY <2>1, <2>2, <2>3 DEF MCPNext
  <1>3. Step(h)
    BY <1>2 DEF ServiceStep
  <1>4. /\ pc[h] = "save" /\ call[h].id = i
        /\ \/ SameContent(disk'[i].canvas, disk[i].canvas)
           \/ /\ tpc[h] = "updating" /\ Working(h) /\ tool[h].id = i
              /\ disk'[i].canvas = Edited(tool[h], view[h].canvas)
    BY <1>3, WriteByTool
  <1>5. CASE tpc[h] = "updating" /\ Working(h) /\ tool[h].id = i
             /\ disk'[i].canvas = Edited(tool[h], view[h].canvas)
    <2>1. HandlerAt(h) /\ Latest(h) /\ Seen(h) = view[h] /\ MCPTypeOK
      BY <1>5 DEF MCPInv, At, Seen
    <2>2. tool[h] \in Tool /\ ~IsDirect(tool[h]) /\ view[h] \in Diagram
      BY <1>5, <2>1 DEF HandlerAt, Editing, MCPTypeOK
    <2>3. view[h].canvas \in Canvas
      BY <2>2 DEF Diagram
    <2>4. Dangling(view[h].canvas) = {} /\ SameContent(disk[i].canvas, view[h].canvas)
      BY <1>5, <2>1 DEF Latest
    <2>5. Attached(view[h].canvas) = view[h].canvas.edges
      BY <2>4 DEF Dangling, Attached
    <2> QED
      BY <1>4, <1>5, <2>2, <2>3, <2>4, <2>5
  <1> QED
    BY <1>4, <1>5

\* Parallel tool calls do not drop each other's nodes, edges and subdiagram links
\* (Server.writeMu, server.go:20-25).
THEOREM ContentIsKept == MCPSpec => ToolsKeepContent
  <1> DEFINE Kept(i) ==
        LET old == disk[i].canvas
            new == disk'[i].canvas
        IN  /\ \A n \in old.nodes \ new.nodes :
                  \E h \in Caller : By(h, {"delete_node"}) /\ tool[h].node = n
            /\ \A e \in Attached(old) \ new.edges :
                  \E h \in Caller : \/ By(h, {"delete_node"}) /\ tool[h].node \in {e[1], e[2]}
                                    \/ By(h, {"delete_edge"}) /\ tool[h].edge = e
            /\ \A l \in old.links \ new.links :
                  \E h \in Caller :
                      \/ By(h, {"delete_node"}) /\ tool[h].node = l[1]
                      \/ /\ By(h, {"update_node", "create_subdiagram"})
                         /\ tool[h].node = l[1] /\ tool[h].sub # NotGiven
  <1>1. ASSUME MCPInv, [MCPNext]_mcpVars, NEW i \in Id,
               disk[i] # NoDiagram, disk'[i] # NoDiagram
        PROVE  Kept(i)
    <2> DEFINE old == disk[i].canvas
               new == disk'[i].canvas
    <2>1. CASE new = old \/ SameContent(new, old)
      BY <2>1 DEF SameContent, Attached
    <2>2. CASE \E h \in Caller :
                    /\ tpc[h] = "updating" /\ pc[h] = "save" /\ tool[h] \in Tool
                    /\ ~IsDirect(tool[h]) /\ view[h].canvas \in Canvas
                    /\ new = Edited(tool[h], view[h].canvas)
                    /\ Attached(view[h].canvas) = view[h].canvas.edges
                    /\ SameContent(old, view[h].canvas)
      <3>1. PICK h \in Caller :
                    /\ tpc[h] = "updating" /\ pc[h] = "save" /\ tool[h] \in Tool
                    /\ ~IsDirect(tool[h]) /\ view[h].canvas \in Canvas
                    /\ new = Edited(tool[h], view[h].canvas)
                    /\ Attached(view[h].canvas) = view[h].canvas.edges
                    /\ SameContent(old, view[h].canvas)
        BY <2>2
      <3> DEFINE t == tool[h]
                 c == view[h].canvas
      <3>2. /\ \A n \in c.nodes \ Edited(t, c).nodes : t.name = "delete_node" /\ t.node = n
            /\ \A e \in c.edges \ Edited(t, c).edges :
                  \/ t.name = "delete_node" /\ t.node \in {e[1], e[2]}
                  \/ t.name = "delete_edge" /\ t.edge = e
            /\ \A l \in c.links \ Edited(t, c).links :
                  \/ t.name = "delete_node" /\ t.node = l[1]
                  \/ /\ t.name \in {"update_node", "create_subdiagram"}
                     /\ t.node = l[1] /\ t.sub # NotGiven
        BY <3>1, EditedKeeps
      <3>3. old.nodes = c.nodes /\ Attached(old) = c.edges /\ old.links = c.links
            /\ new = Edited(t, c)
        BY <3>1 DEF SameContent
      <3>4. \A names : t.name \in names => By(h, names)
        BY <3>1 DEF By
      <3> HIDE DEF t, c, old, new
      <3>5. \A n \in old.nodes \ new.nodes :
               \E v \in Caller : By(v, {"delete_node"}) /\ tool[v].node = n
        BY <3>2, <3>3, <3>4 DEF t
      <3>6. \A e \in Attached(old) \ new.edges :
               \E v \in Caller : \/ By(v, {"delete_node"}) /\ tool[v].node \in {e[1], e[2]}
                                 \/ By(v, {"delete_edge"}) /\ tool[v].edge = e
        BY <3>2, <3>3, <3>4 DEF t
      <3>7. \A l \in old.links \ new.links :
               \E v \in Caller :
                  \/ By(v, {"delete_node"}) /\ tool[v].node = l[1]
                  \/ /\ By(v, {"update_node", "create_subdiagram"})
                     /\ tool[v].node = l[1] /\ tool[v].sub # NotGiven
        BY <3>2, <3>3, <3>4 DEF t
      <3> QED
        BY <3>5, <3>6, <3>7 DEF old, new
    <2> HIDE DEF Kept
    <2>3. CASE disk'[i] = disk[i]
      BY <2>1, <2>3
    <2>4. CASE disk'[i] # disk[i]
      BY <1>1, <2>1, <2>2, <2>4, KeepStep
    <2> QED
      BY <2>3, <2>4
  <1>2. MCPInv /\ [MCPNext]_mcpVars =>
           [\A i \in Id : (disk[i] # NoDiagram /\ disk'[i] # NoDiagram) => Kept(i)]_mcpVars
    BY <1>1
  <1> QED
    BY <1>2, MCPInvariance, PTL DEF MCPSpec, ToolsKeepContent

\* The service keeps its promises to the tools as well: writers hold the latest version
\* (service.go:78-86),
THEOREM MCPWritersHaveLatest == MCPSpec => []WriterHasLatest
  BY MCPInvariance, PTL DEF MCPInv, Inv

\* tags name versions,
THEOREM MCPTagsIdentifyVersions == MCPSpec => []TagIdentifiesVersion
  BY MCPInvariance, PTL DEF MCPInv, Inv

\* tags increase (service.go:184-187),
THEOREM MCPVersionsDoAdvance == MCPSpec => VersionsAdvance
  <1>1. MCPInv /\ [MCPNext]_mcpVars => Inv /\ [Serves]_vars
    BY MCPNextServes DEF MCPInv
  <1> QED
    BY <1>1, VersionStep, MCPInvariance, PTL DEF MCPSpec, VersionsAdvance

\* no tool brings a deleted diagram back,
THEOREM MCPDeletionIsFinal == MCPSpec => DeletedStaysDeleted
  <1>1. MCPInv /\ [MCPNext]_mcpVars => Inv /\ [Serves]_vars
    BY MCPNextServes DEF MCPInv
  <1> QED
    BY <1>1, DeletionStep, MCPInvariance, PTL DEF MCPSpec, DeletedStaysDeleted

\* and none leaves a new edge without its end (service.go:106-112), whatever is added to
\* the diagram between its get and its update.
THEOREM MCPNoDanglingEdges == MCPSpec => NoNewDanglingEdge
  <1>1. MCPInv /\ [MCPNext]_mcpVars => Inv /\ [Serves]_vars
    BY MCPNextServes DEF MCPInv
  <1> QED
    BY <1>1, DanglingStep, MCPInvariance, PTL DEF MCPSpec, NoNewDanglingEdge
=============================================================================
