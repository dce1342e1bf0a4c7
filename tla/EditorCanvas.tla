---------------------------- MODULE EditorCanvas ----------------------------
(***************************************************************************)
(* The canvas of one tab of the editor (cmd/diagramer/web/app.js): what    *)
(* the pointer, the keyboard and the menus do to the nodes and edges of    *)
(* the open diagram, to the selection and to the undo history.  An action  *)
(* is one event handler.  Positions, labels, colours and kinds are one     *)
(* number, the look of the content, new with every change of them.         *)
(* Saving is left to module EditorTabs.                                    *)
(*                                                                         *)
(* Haste says what the user does not wait for:                             *)
(*   "keys"     commands while the mouse is down, a menu is open or only   *)
(*              one end of a connection is chosen                          *)
(*   "buttons"  a second mouse button before the first is released         *)
(*   "typing"   a click into the canvas while a label is being edited      *)
(*   "burst"    something else within 600 ms of an arrow key               *)
(*   "loading"  anything while a diagram or a container is on its way      *)
(***************************************************************************)
EXTENDS Integers, SequencesExt

CONSTANTS
    Loaded,         \* the contents a diagram may have when it is opened
    Container,      \* nodes that show the ports of the diagram they contain
    Port,           \* those ports
    HistoryLimit,   \* undo steps kept (HISTORY_LIMIT)
    Haste,          \* see above
    LoadedIds,      \* ids in use in those contents
    MaxIds,         \* bound: nodes and edges ever made
    MaxChanges,     \* bound: changes of the content; after them no gesture begins
    None            \* null

NoPort == "none"

ASSUME LimitAssumption ==
    /\ HistoryLimit \in Nat \ {0} /\ {LoadedIds, MaxIds, MaxChanges} \subseteq Nat
    /\ LoadedIds <= MaxIds
ASSUME HasteAssumption == Haste \subseteq {"keys", "buttons", "typing", "burst", "loading"}

Id == 1..MaxIds
Edge == [id: Id, source: Id, target: Id, sourcePort: Port \cup {NoPort},
         targetPort: Port \cup {NoPort}]
Content == [nodes: SUBSET Id, edges: SUBSET Edge, look: 0..MaxChanges]

\* Where an edge can be fixed to a node: to the node, or to a port of it.
Places(n) == {NoPort} \cup IF n \in Container THEN Port ELSE {}

EdgeIds(c) == {e.id : e \in c.edges}
Ids(c) == c.nodes \cup EdgeIds(c)

\* The service heals what it hands out: no edge without its nodes.
Closed(c) == \A e \in c.edges : e.source \in c.nodes /\ e.target \in c.nodes

ASSUME LoadedAssumption ==
    /\ Loaded \subseteq Content /\ None \notin Id
    /\ \A c \in Loaded : Closed(c) /\ c.look = 0 /\ Ids(c) \subseteq 1..LoadedIds

\* null is no drag either.
ASSUME NullAssumption ==
    /\ None \notin [edge: Id, moved: BOOLEAN, snapshot: Content]
    /\ None \notin [ids: SUBSET Id, moved: BOOLEAN, snapshot: Content]

VARIABLES
    content, past, future,              \* diagram.nodes and .edges, undo, redo
    nudging,                            \* nudgeHistoryTimer runs
    selectedIds, selectedEdgeId,
    connecting, connectSource,          \* connect mode and the end it has
    pendingEdge, lasso, edgeDrag, dragging, panning,    \* the mouse is down
    menu,                               \* what the open context menu acts on
    editing,                            \* the label in the inline editor
    blurred,                            \* the editor is losing the focus
    loading,                            \* a diagram is being fetched
    container,          \* addContainer or createSubdiagram waits for the service
    made, changes                       \* ids used up, changes made

document  == <<content, past, future>>
selection == <<selectedIds, selectedEdgeId>>
connect   == <<connecting, connectSource>>
mouse     == <<pendingEdge, lasso, edgeDrag, dragging, panning>>
requests  == <<loading, container>>
used      == <<made, changes>>
vars == <<content, past, future, nudging, selectedIds, selectedEdgeId, connecting,
          connectSource, pendingEdge, lasso, edgeDrag, dragging, panning, menu, editing,
          blurred, loading, container, made, changes>>

Init ==
    /\ content \in Loaded
    /\ past = <<>> /\ future = <<>> /\ nudging = FALSE
    /\ selectedIds = {} /\ selectedEdgeId = None
    /\ connecting = FALSE /\ connectSource = None
    /\ pendingEdge = None /\ lasso = None /\ edgeDrag = None /\ dragging = None
    /\ panning = FALSE
    /\ menu = None /\ editing = None /\ blurred = FALSE
    /\ loading = FALSE /\ container = None
    /\ made = LoadedIds /\ changes = 0

-----------------------------------------------------------------------------
(* pushHistory, and the ways the content changes *)

Kept(s) == IF Len(s) > HistoryLimit THEN Tail(s) ELSE s

Pushed(s) == past' = Kept(Append(past, s)) /\ future' = <<>>

Becomes(c) == changes < MaxChanges /\ changes' = changes + 1 /\ content' = c
Changed(c) == Pushed(content) /\ Becomes(c)
NewIds(n) == made + n <= MaxIds /\ made' = made + n

\* Another look of the content: a number not used before.
Restyled == [content EXCEPT !.look = changes + 1]

WithNode(c, n) == [c EXCEPT !.nodes = @ \cup {n}]
NewEdge(n, s, sp, t, tp) == [id |-> n, source |-> s, target |-> t, sourcePort |-> sp,
                             targetPort |-> tp]
WithEdge(c, e) == [c EXCEPT !.edges = @ \cup {e}]

edgeExists(s, t) == \E e \in content.edges : <<e.source, e.target>> \in {<<s, t>>, <<t, s>>}

edgeExistsExact(s, sp, t, tp) ==
    \E e \in content.edges :
        <<e.source, e.sourcePort, e.target, e.targetPort>>
            \in {<<s, sp, t, tp>>, <<t, tp, s, sp>>}

Within(c, nodes) == {e \in c.edges : e.source \in nodes /\ e.target \in nodes}

\* The copies get the next ids, in the order of their originals.
Cloned(nodes, edges) ==
    LET old == nodes \cup {e.id : e \in edges}
        new(n) == made + Cardinality({m \in old : m <= n})
        clone(e) == NewEdge(new(e.id), new(e.source), e.sourcePort, new(e.target), e.targetPort)
    IN [nodes |-> {new(n) : n \in nodes}, edges |-> {clone(e) : e \in edges}]

-----------------------------------------------------------------------------
(* What the user waits for *)

Idle == /\ pendingEdge = None /\ lasso = None /\ edgeDrag = None /\ dragging = None
        /\ ~panning

Settled == "loading" \in Haste \/ (~loading /\ container = None)
Paused == "burst" \in Haste \/ ~nudging

\* A key outside the editor (keydown leaves an INPUT alone) or a toolbar button.
Key == /\ editing = None /\ Settled
       /\ "keys" \in Haste \/ (Idle /\ menu = None /\ connectSource = None)

\* An item of the open context menu is clicked, which closes it.
Choice(kinds) == /\ menu # None /\ menu.kind \in kinds
                 /\ Settled /\ Paused
                 /\ "keys" \in Haste \/ (Idle /\ connectSource = None)
                 /\ menu' = None

Command(kinds) == (Key /\ Paused /\ UNCHANGED menu) \/ Choice(kinds)

-----------------------------------------------------------------------------
(* Commands *)

\* resetTransientForHistory
Reset == /\ selectedIds' = {} /\ selectedEdgeId' = None /\ connectSource' = None
         /\ pendingEdge' = None /\ dragging' = None /\ editing' = None
         /\ UNCHANGED <<connecting, lasso, edgeDrag, panning, menu, nudging, requests,
                        used>>

\* Mutant: the selection survives the undo.
UndoKeepsSelection ==
    /\ Key /\ Paused /\ past # <<>>
    /\ future' = Append(future, content)
    /\ content' = Last(past) /\ past' = Front(past)
    /\ UNCHANGED <<nudging, selection, connect, mouse, menu, editing, requests, used>>

Undo == /\ Key /\ Paused /\ past # <<>>
        /\ future' = Append(future, content)
        /\ content' = Last(past) /\ past' = Front(past)
        /\ Reset

Redo == /\ Key /\ Paused /\ future # <<>>
        /\ past' = Append(past, content)
        /\ content' = Last(future) /\ future' = Front(future)
        /\ Reset

SelectAll ==
    /\ Key /\ Paused
    /\ selectedIds' = content.nodes /\ selectedEdgeId' = None
    /\ UNCHANGED <<document, nudging, connect, mouse, menu, editing, requests, used>>

\* cloneInto, and the copies are selected.
Inserts(nodes, edges) ==
    LET copy == Cloned(nodes, edges)
    IN /\ NewIds(Cardinality(nodes \cup {e.id : e \in edges}))
       /\ Changed([content EXCEPT !.nodes = @ \cup copy.nodes, !.edges = @ \cup copy.edges])
       /\ selectedIds' = copy.nodes /\ selectedEdgeId' = None
       /\ UNCHANGED <<nudging, connect, mouse, editing, requests>>

Duplicate ==
    /\ Command({"node", "nodes"}) /\ selectedIds # {}
    /\ Inserts(content.nodes \cap selectedIds, Within(content, content.nodes \cap selectedIds))

Remembered == Range(past) \cup Range(future)

\* The clipboard survives everything: it holds part of this content or of one
\* seen before, in this diagram or another.  Copying changes nothing else.
Copied == {content} \cup Loaded \cup Remembered

Paste(c, nodes) ==
    /\ Command({"empty"}) /\ nodes # {}
    /\ Inserts(nodes, Within(c, nodes))

\* Mutant: the edges of the deleted nodes stay.
WithoutNodes == [content EXCEPT !.nodes = @ \ selectedIds,
                                !.edges = {e \in @ : e.id # selectedEdgeId}]

WithoutSelected ==
    [content EXCEPT !.nodes = @ \ selectedIds,
                    !.edges = {e \in @ : /\ e.id # selectedEdgeId
                                         /\ {e.source, e.target} \cap selectedIds = {}}]

DeleteSelected ==
    /\ Command({"node", "nodes", "edge"})
    /\ selectedIds # {} \/ selectedEdgeId # None
    /\ Changed(WithoutSelected)
    /\ selectedIds' = {} /\ selectedEdgeId' = None
    /\ UNCHANGED <<nudging, connect, mouse, editing, requests, made>>

Tidy == /\ Command({"empty"}) /\ content.nodes # {}
        /\ Changed(Restyled) /\ UNCHANGED made
        /\ UNCHANGED <<nudging, selection, connect, mouse, editing, requests>>

\* An arrow key: a burst of them is one step of the history.
Nudge == /\ Key /\ selectedIds # {}
         /\ Becomes(IF selectedIds \cap content.nodes = {} THEN content ELSE Restyled)
         /\ \/ nudging /\ UNCHANGED <<past, future>>
            \/ ~nudging /\ Pushed(content)
         /\ nudging' = TRUE
         /\ UNCHANGED <<selection, connect, mouse, menu, editing, requests, made>>

NudgeTimeout ==
    /\ nudging /\ nudging' = FALSE
    /\ UNCHANGED <<document, selection, connect, mouse, menu, editing, requests, used>>

\* Drag and drop from the sidebar (addContainerRef).
PlaceRef ==
    /\ Key /\ Paused
    /\ NewIds(1) /\ Changed(WithNode(content, made + 1))
    /\ UNCHANGED <<nudging, selection, connect, mouse, menu, editing, requests>>

ConnectButton ==
    /\ editing = None /\ Settled /\ Paused
    /\ "keys" \in Haste \/ (Idle /\ menu = None)
    /\ connecting' = ~connecting /\ connectSource' = None /\ selectedIds' = {}
    /\ UNCHANGED <<document, nudging, selectedEdgeId, mouse, menu, editing, requests,
                   used>>

\* One thing at a time is given up, in this order.
Escape ==
    /\ editing = None
    /\ \/ menu # None /\ menu' = None /\ UNCHANGED <<pendingEdge, lasso, connect,
                                                     selection>>
       \/ /\ menu = None /\ pendingEdge # None /\ pendingEdge' = None
          /\ UNCHANGED <<menu, lasso, connect, selection>>
       \/ /\ menu = None /\ pendingEdge = None /\ lasso # None /\ lasso' = None
          /\ UNCHANGED <<menu, pendingEdge, connect, selection>>
       \/ /\ menu = None /\ pendingEdge = None /\ lasso = None
          /\ connecting \/ connectSource # None
          /\ connecting' = FALSE /\ connectSource' = None
          /\ UNCHANGED <<menu, pendingEdge, lasso, selection>>
       \/ /\ menu = None /\ pendingEdge = None /\ lasso = None
          /\ ~connecting /\ connectSource = None
          /\ selectedIds' = {} /\ selectedEdgeId' = None
          /\ UNCHANGED <<menu, pendingEdge, lasso, connect>>
    /\ UNCHANGED <<document, nudging, edgeDrag, dragging, panning, editing, requests,
                   used>>

-----------------------------------------------------------------------------
(* The mouse *)

\* The button goes down on the canvas: an open menu closes.
Press == /\ Settled /\ Paused /\ menu' = None
         /\ changes < MaxChanges
         /\ "buttons" \in Haste \/ Idle
         /\ "typing" \in Haste \/ editing = None
         /\ UNCHANGED <<nudging, requests>>

\* Behind the handler the editor loses the focus.
LosesFocus == blurred' = (editing # None)

PressPan == /\ Press /\ panning' = TRUE
            /\ UNCHANGED <<document, selection, connect, pendingEdge, lasso, edgeDrag,
                           dragging, editing, blurred, used>>

\* A port or the "+" handle of a node: an edge begins.
PressHandle(n, port) ==
    /\ Press /\ LosesFocus
    /\ pendingEdge' = [source |-> n, port |-> port]
    /\ UNCHANGED <<document, selection, connect, lasso, edgeDrag, dragging, panning,
                   editing, used>>

\* The curvature handle, which only the selected edge shows.
PressEdgeHandle ==
    /\ Press /\ LosesFocus
    /\ selectedEdgeId \in EdgeIds(content)
    /\ edgeDrag' = [edge |-> selectedEdgeId, moved |-> FALSE, snapshot |-> content]
    /\ UNCHANGED <<document, selection, connect, pendingEdge, lasso, dragging, panning,
                   editing, used>>

\* startEdit, startEditPort: the kind of label and the node or edge it is on.
Edits(kind, n) ==
    /\ editing' = [kind |-> kind, id |-> n]
    /\ dragging' = None
    /\ selectedIds' = IF kind = "node" THEN {n} ELSE {}
    /\ selectedEdgeId' = IF kind = "edge" THEN n ELSE None
    /\ UNCHANGED <<document, connect, pendingEdge, lasso, edgeDrag, panning, used>>

DoubleClick(kind, n) ==
    /\ Press /\ editing = None /\ UNCHANGED blurred
    /\ n \in CASE kind = "edge" -> EdgeIds(content)
               [] kind = "port" -> content.nodes \cap Container
               [] kind = "node" -> content.nodes
    /\ Edits(kind, n)

\* Mutant: an edge stays selected beside the nodes of the lasso.
PressBesideEdge(shift) ==
    /\ Press /\ LosesFocus
    /\ lasso' = [additive |-> shift, baseSelection |-> selectedIds]
    /\ connectSource' = None
    /\ selectedIds' = IF shift THEN selectedIds ELSE {}
    /\ UNCHANGED <<document, selectedEdgeId, connecting, pendingEdge, edgeDrag, dragging, panning,
                   editing, used>>

PressEmpty(shift) ==
    /\ Press /\ LosesFocus
    /\ lasso' = [additive |-> shift, baseSelection |-> selectedIds]
    /\ connectSource' = None /\ selectedEdgeId' = None
    /\ selectedIds' = IF shift THEN selectedIds ELSE {}
    /\ UNCHANGED <<document, connecting, pendingEdge, edgeDrag, dragging, panning,
                   editing, used>>

PressEdge(e) ==
    /\ Press /\ LosesFocus
    /\ selectedEdgeId' = e /\ selectedIds' = {} /\ connectSource' = None
    /\ UNCHANGED <<document, connecting, mouse, editing, used>>

\* A click on a node in connect mode.
ConnectFrom(n) ==
    /\ Press /\ LosesFocus
    /\ connecting /\ connectSource \in {None, n}
    /\ connectSource' = n /\ selectedEdgeId' = None
    /\ UNCHANGED <<document, connecting, selectedIds, mouse, editing, used>>

ConnectTo(n) ==
    /\ Press /\ LosesFocus
    /\ connecting /\ connectSource \notin {None, n}
    /\ connectSource' = None /\ selectedEdgeId' = None
    /\ \/ edgeExists(connectSource, n) /\ UNCHANGED <<document, used>>
       \/ /\ ~edgeExists(connectSource, n)
          /\ NewIds(1)
          /\ Changed(WithEdge(content, NewEdge(made + 1, connectSource, NoPort, n, NoPort)))
    /\ UNCHANGED <<connecting, selectedIds, mouse, editing>>

\* Shift+click.
ToggleNode(n) ==
    /\ Press /\ LosesFocus /\ ~connecting
    /\ selectedEdgeId' = None
    /\ selectedIds' = (selectedIds \ {n}) \cup ({n} \ selectedIds)
    /\ UNCHANGED <<document, connect, mouse, editing, used>>

\* The selection, or the node alone, is about to be dragged.
PressNode(n) ==
    /\ Press /\ LosesFocus /\ ~connecting
    /\ selectedEdgeId' = None
    /\ selectedIds' = IF n \in selectedIds THEN selectedIds ELSE {n}
    /\ dragging' = [ids |-> selectedIds' \cap content.nodes, moved |-> FALSE,
                    snapshot |-> content]
    /\ UNCHANGED <<document, connect, pendingEdge, lasso, edgeDrag, panning, editing,
                   used>>

\* mousemove: panning, a pending edge and the lasso come first; they move nothing.
Moving == ~panning /\ pendingEdge = None /\ lasso = None /\ UNCHANGED made

MoveEdge ==
    /\ Moving /\ edgeDrag # None
    /\ \E e \in content.edges :
          e.id = edgeDrag.edge /\ e.source \in content.nodes /\ e.target \in content.nodes
    /\ Becomes(Restyled)
    /\ edgeDrag' = [edgeDrag EXCEPT !.moved = TRUE]
    /\ UNCHANGED <<past, future, nudging, selection, connect, pendingEdge, lasso,
                   dragging, panning, menu, editing, requests>>

MoveNodes ==
    /\ Moving /\ edgeDrag = None /\ dragging # None
    /\ Becomes(IF dragging.ids \cap content.nodes = {} THEN content ELSE Restyled)
    /\ dragging' = [dragging EXCEPT !.moved = TRUE]
    /\ UNCHANGED <<past, future, nudging, selection, connect, pendingEdge, lasso,
                   edgeDrag, panning, menu, editing, requests>>

\* mouseup looks for the gesture to end in this order.
ReleasePan ==
    /\ panning /\ panning' = FALSE
    /\ UNCHANGED <<document, nudging, selection, connect, pendingEdge, lasso, edgeDrag,
                   dragging, menu, editing, requests, used>>

Joins(s, sp, t, tp) ==
    \/ (s = t \/ edgeExistsExact(s, sp, t, tp)) /\ UNCHANGED <<document, used>>
    \/ /\ s # t /\ ~edgeExistsExact(s, sp, t, tp)
       /\ NewIds(1) /\ Changed(WithEdge(content, NewEdge(made + 1, s, sp, t, tp)))

ReleaseOn(n, port) ==
    /\ ~panning /\ pendingEdge # None
    /\ Joins(pendingEdge.source, pendingEdge.port, n, port)
    /\ pendingEdge' = None
    /\ UNCHANGED <<nudging, selection, connect, lasso, edgeDrag, dragging, panning, menu,
                   editing, requests>>

\* Mutant: the menu does not know the port.
ReleaseWithoutPort ==
    /\ ~panning /\ pendingEdge # None
    /\ menu' = [kind |-> "create", id |-> pendingEdge.source]
    /\ pendingEdge' = None
    /\ UNCHANGED <<document, nudging, selection, connect, lasso, edgeDrag, dragging,
                   panning, editing, requests, used>>

\* Dropped on empty canvas: a menu offers to create the other end.
ReleaseEmpty ==
    /\ ~panning /\ pendingEdge # None
    /\ menu' = [kind |-> "create", id |-> pendingEdge.source, port |-> pendingEdge.port]
    /\ pendingEdge' = None
    /\ UNCHANGED <<document, nudging, selection, connect, lasso, edgeDrag, dragging,
                   panning, editing, requests, used>>

ReleaseEdge ==
    /\ ~panning /\ pendingEdge = None /\ edgeDrag # None
    /\ \/ edgeDrag.moved /\ Pushed(edgeDrag.snapshot)
       \/ ~edgeDrag.moved /\ UNCHANGED <<past, future>>
    /\ edgeDrag' = None
    /\ UNCHANGED <<content, nudging, selection, connect, pendingEdge, lasso, dragging,
                   panning, menu, editing, requests, used>>

\* The lasso encloses nodes, or is too small to count.
ReleaseLasso(box) ==
    /\ ~panning /\ pendingEdge = None /\ edgeDrag = None /\ lasso # None
    /\ \/ selectedIds' = box \cup (IF lasso.additive THEN lasso.baseSelection ELSE {})
       \/ UNCHANGED selectedIds
    /\ lasso' = None
    /\ UNCHANGED <<document, nudging, selectedEdgeId, connect, pendingEdge, edgeDrag,
                   dragging, panning, menu, editing, requests, used>>

\* Mutant: the content is pushed as it is after the drag.
ReleaseAfter ==
    /\ ~panning /\ pendingEdge = None /\ edgeDrag = None /\ lasso = None /\ dragging # None
    /\ \/ dragging.moved /\ Pushed(content)
       \/ ~dragging.moved /\ UNCHANGED <<past, future>>
    /\ dragging' = None
    /\ UNCHANGED <<content, nudging, selection, connect, pendingEdge, lasso, edgeDrag,
                   panning, menu, editing, requests, used>>

ReleaseNodes ==
    /\ ~panning /\ pendingEdge = None /\ edgeDrag = None /\ lasso = None /\ dragging # None
    /\ \/ dragging.moved /\ Pushed(dragging.snapshot)
       \/ ~dragging.moved /\ UNCHANGED <<past, future>>
    /\ dragging' = None
    /\ UNCHANGED <<content, nudging, selection, connect, pendingEdge, lasso, edgeDrag,
                   panning, menu, editing, requests, used>>

-----------------------------------------------------------------------------
(* The inline editor *)

\* Enter, or the focus is lost; a port's label is written through to its own
\* diagram.
CommitEdit ==
    /\ editing # None /\ editing' = None
    /\ \/ /\ \/ editing.kind = "node" /\ editing.id \in content.nodes
             \/ editing.kind = "edge" /\ editing.id \in EdgeIds(content)
          /\ Changed(Restyled) /\ UNCHANGED made
       \/ UNCHANGED <<document, used>>
    /\ UNCHANGED <<nudging, selection, connect, mouse, menu, requests>>

CancelEdit ==
    /\ editing # None /\ editing' = None
    /\ UNCHANGED <<document, nudging, selection, connect, mouse, menu, requests, used>>

-----------------------------------------------------------------------------
(* The context menu *)

Dragged == dragging # None /\ dragging.moved

\* A menu is not opened in the middle of a gesture, but the right button has just
\* gone down there, which the canvas takes for the start of one.
Opens(kind, n) ==
    /\ editing = None /\ Settled /\ Paused /\ changes < MaxChanges
    /\ \/ "keys" \in Haste
       \/ /\ ~panning /\ pendingEdge = None /\ edgeDrag = None /\ connectSource = None
          /\ ~Dragged /\ (dragging # None => n \in dragging.ids)
          /\ lasso # None => n = None
    /\ menu' = [kind |-> kind, id |-> n, port |-> NoPort]
    /\ UNCHANGED <<document, nudging, connect, mouse, editing, requests, used>>

NodeMenu(n) ==
    /\ \/ n \in selectedIds /\ UNCHANGED selection
       \/ n \notin selectedIds /\ selectedIds' = {n} /\ selectedEdgeId' = None
    /\ Opens(IF \E m \in selectedIds' : m # n THEN "nodes" ELSE "node", n)

EdgeMenu(e) == selectedEdgeId' = e /\ selectedIds' = {} /\ Opens("edge", e)

\* "+ Add" opens the same list without Paste and Tidy up, which the keyboard and
\* the toolbar offer as well.
EmptyMenu == UNCHANGED selection /\ Opens("empty", None)

EditLabel ==
    /\ Choice({"node", "edge"})
    /\ \/ /\ menu.id \in IF menu.kind = "edge" THEN EdgeIds(content) ELSE content.nodes
          /\ Edits(menu.kind, menu.id)
       \/ /\ menu.id \notin IF menu.kind = "edge" THEN EdgeIds(content) ELSE content.nodes
          /\ UNCHANGED <<document, selection, connect, mouse, editing, used>>
    /\ UNCHANGED <<nudging, requests>>

Restyles == /\ Changed(Restyled) /\ UNCHANGED made
            /\ UNCHANGED <<nudging, selection, connect, mouse, editing, requests>>

\* Another type, role or colour for the node, a straight line for the edge.
ChangeNode == Choice({"node"}) /\ menu.id \in content.nodes /\ Restyles
ResetCurvature == Choice({"edge"}) /\ menu.id \in EdgeIds(content) /\ Restyles

Selected(n) == Cardinality(selectedIds \cap content.nodes) >= n
Colour == Choice({"nodes"}) /\ Selected(1) /\ Restyles
Align == Choice({"nodes"}) /\ Selected(2) /\ Restyles
Distribute == Choice({"nodes"}) /\ Selected(3) /\ Restyles

\* A box or a port node; from a dropped connection it comes wired (addBoxAt,
\* addPortNode, connectPendingTo): two steps of the history.
AddNode ==
    /\ Choice({"empty", "create"})
    /\ LET added == WithNode(content, made + 1)
           wire == NewEdge(made + 2, menu.id, menu.port, made + 1, NoPort)
       IN \/ menu.kind # "create" /\ NewIds(1) /\ Changed(added)
          \/ /\ menu.kind = "create" /\ NewIds(2)
             /\ past' = Kept(Append(Kept(Append(past, content)), added)) /\ future' = <<>>
             /\ Becomes(WithEdge(added, wire))
    /\ UNCHANGED <<nudging, selection, connect, mouse, editing, requests>>

\* A container first needs a diagram of its own (addContainer).
AskContainer ==
    /\ Choice({"empty", "create"}) /\ container = None
    /\ container' = [node |-> None, source |-> menu.id, port |-> menu.port]
    /\ UNCHANGED <<document, nudging, selection, connect, mouse, editing, loading, used>>

ContainerMade ==
    /\ container # None /\ container.node = None
    /\ NewIds(1) /\ Changed(WithNode(content, made + 1))
    /\ container' = [container EXCEPT !.node = made + 1]
    /\ UNCHANGED <<nudging, selection, connect, mouse, menu, editing, loading>>

\* The sidebar is refreshed; then the connection is made.
ContainerShown ==
    /\ container # None /\ container.node \notin {None, container.source}
    /\ \/ container.source = None /\ UNCHANGED <<document, used>>
       \/ container.source # None /\ Joins(container.source, container.port, container.node, NoPort)
    /\ container' = None
    /\ UNCHANGED <<nudging, selection, connect, mouse, menu, editing, loading>>

\* An ordinary node gets a diagram inside (createSubdiagram): a change of its look
\* (only its look says so, and the model lets it be asked again),
\* which is lost, but for the step of the history, if undo or a load has put
\* another object in the place of the node meanwhile.
Inside(n) == [node |-> n, source |-> n, port |-> NoPort]

AskInside ==
    /\ Choice({"node"}) /\ container = None
    /\ menu.id \in content.nodes \ Container
    /\ container' = Inside(menu.id)
    /\ UNCHANGED <<document, nudging, selection, connect, mouse, editing, loading, used>>

\* Then the sidebar is refreshed as above, and the new diagram is loaded (Leave).
InsideMade ==
    /\ container # None /\ container.node # None /\ container = Inside(container.node)
    /\ \E c \in {Restyled, content} :
          /\ c = Restyled \/ "loading" \in Haste
          /\ c = content \/ container.node \in content.nodes
          /\ Changed(c)
    /\ container' = [container EXCEPT !.source = None]
    /\ UNCHANGED <<nudging, selection, connect, mouse, menu, editing, loading, made>>

ContainerFails ==
    /\ container # None /\ container' = None
    /\ UNCHANGED <<document, nudging, selection, connect, mouse, menu, editing, loading,
                   used>>

-----------------------------------------------------------------------------
(* Another diagram *)

\* loadDiagram flushes the save, which changes nothing here, so what comes until
\* it is done comes before this step.  Then it forgets, and asks for the diagram ...
Leave ==
    /\ ~loading /\ Settled /\ Paused /\ loading' = TRUE
    /\ "keys" \in Haste \/ (Idle /\ menu = None)
    /\ "typing" \in Haste \/ editing = None
    /\ selectedIds' = {} /\ selectedEdgeId' = None
    /\ connecting' = FALSE /\ connectSource' = None
    /\ dragging' = None /\ pendingEdge' = None /\ lasso' = None /\ editing' = None
    /\ past' = <<>> /\ future' = <<>>
    /\ UNCHANGED <<content, nudging, edgeDrag, panning, menu, container, used>>

\* ... which comes, or does not.
Arrive ==
    /\ loading /\ loading' = FALSE
    /\ content' \in Loaded \cup {content}
    /\ UNCHANGED <<past, future, nudging, selection, connect, mouse, menu, editing,
                   container, used>>

-----------------------------------------------------------------------------

Keyboard == Undo \/ Redo \/ SelectAll \/ Duplicate \/ DeleteSelected \/ Tidy
            \/ Nudge \/ PlaceRef \/ ConnectButton \/ Escape
            \/ \E c \in Copied : \E nodes \in SUBSET c.nodes : Paste(c, nodes)

Down == \/ PressPan \/ PressEdgeHandle
        \/ \E shift \in BOOLEAN : PressEmpty(shift)
        \/ \E e \in EdgeIds(content) : PressEdge(e) \/ DoubleClick("edge", e)
        \/ \E n \in content.nodes :
              \/ ConnectFrom(n) \/ ConnectTo(n) \/ ToggleNode(n) \/ PressNode(n)
              \/ DoubleClick("node", n) \/ DoubleClick("port", n)
              \/ \E port \in Places(n) : PressHandle(n, port)

Up == \/ ReleasePan \/ ReleaseEmpty \/ ReleaseEdge \/ ReleaseNodes
      \/ \E n \in content.nodes : \E port \in Places(n) : ReleaseOn(n, port)
      \/ \E box \in SUBSET content.nodes : ReleaseLasso(box)

Menu == \/ \E n \in content.nodes : NodeMenu(n)
        \/ \E e \in EdgeIds(content) : EdgeMenu(e)
        \/ EmptyMenu \/ EditLabel \/ AddNode \/ AskContainer \/ AskInside
        \/ ChangeNode \/ ResetCurvature \/ Colour \/ Align \/ Distribute

Answer == ContainerMade \/ InsideMade \/ ContainerShown \/ ContainerFails \/ Arrive

\* When the focus is lost, nothing comes between.
Next == \/ ~blurred /\ Down
        \/ blurred' = FALSE /\ CommitEdit
        \/ /\ ~blurred /\ UNCHANGED blurred
           /\ Keyboard \/ MoveEdge \/ MoveNodes \/ Up \/ CancelEdit \/ Menu
              \/ Leave \/ Answer \/ NudgeTimeout

Spec == Init /\ [][Next]_vars

-----------------------------------------------------------------------------
(* Properties *)

\* Every variable has its type.
TypeOK ==
    /\ content \in Content
    /\ past \in Seq(Content) /\ future \in Seq(Content)
    /\ {nudging, connecting, panning, blurred, loading} \subseteq BOOLEAN
    /\ selectedIds \subseteq Id
    /\ {selectedEdgeId, connectSource} \subseteq Id \cup {None}
    /\ pendingEdge \in [source: Id, port: Port \cup {NoPort}] \cup {None}
    /\ lasso \in [additive: BOOLEAN, baseSelection: SUBSET Id] \cup {None}
    /\ edgeDrag \in [edge: Id, moved: BOOLEAN, snapshot: Content] \cup {None}
    /\ dragging \in [ids: SUBSET Id, moved: BOOLEAN, snapshot: Content] \cup {None}
    /\ menu \in [kind: {"node", "nodes", "edge", "create"}, id: Id, port: Port \cup {NoPort}]
          \cup [kind: {"empty"}, id: {None}, port: {NoPort}] \cup {None}
    /\ editing \in [kind: {"node", "edge", "port"}, id: Id] \cup {None}
    /\ container \in [node: Id \cup {None}, source: Id \cup {None},
                      port: Port \cup {NoPort}] \cup {None}
    /\ made \in 0..MaxIds /\ changes \in 0..MaxChanges

\* Whatever the canvas shows, or undo and redo can bring back, the service
\* accepts: it refuses edges to nodes that are not there (service.go, validate),
\* and every later save of the diagram with them.
NoDanglingEdges == Closed(content) /\ \A c \in Remembered : Closed(c)

Held == selectedIds
    \cup (IF lasso = None THEN {} ELSE lasso.baseSelection)
    \cup (IF dragging = None THEN {} ELSE dragging.ids)
    \cup (IF pendingEdge = None THEN {} ELSE {pendingEdge.source})
    \cup (IF menu = None \/ menu.kind = "edge" THEN {} ELSE {menu.id})
    \cup (IF editing = None \/ editing.kind = "edge" THEN {} ELSE {editing.id})
    \cup (IF container = None THEN {} ELSE {container.node, container.source})
    \cup {connectSource}

HeldEdges == {selectedEdgeId}
    \cup (IF edgeDrag = None THEN {} ELSE {edgeDrag.edge})
    \cup (IF menu = None \/ menu.kind # "edge" THEN {} ELSE {menu.id})
    \cup (IF editing = None \/ editing.kind # "edge" THEN {} ELSE {editing.id})

\* The selection, a gesture under way, an open menu, the editor and a request
\* under way refer to nodes and edges that are there.
NothingStale == Held \subseteq content.nodes \cup {None}
             /\ HeldEdges \subseteq EdgeIds(content) \cup {None}

\* Either one edge is selected or some nodes are: Delete removes what is shown
\* as selected and no second thing with it (app.js:1821-1838).
OneKindSelected == selectedEdgeId = None \/ selectedIds = {}

\* Until the mouse is released, undo does not know of the drag.
Shown == IF Dragged THEN dragging.snapshot
         ELSE IF edgeDrag # None /\ edgeDrag.moved THEN edgeDrag.snapshot
         ELSE content

History == INSTANCE UndoHistory WITH
    timeline <- past \o <<Shown>> \o Reverse(future),
    cursor <- Len(past) + 1,
    burst <- nudging

\* Undo and redo walk along the contents the diagram has had, whatever gestures
\* made them.
UndoIsFaithful == History!Spec
=============================================================================
