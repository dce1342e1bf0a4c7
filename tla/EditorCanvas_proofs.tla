------------------------ MODULE EditorCanvas_proofs ------------------------
(***************************************************************************)
(* Proofs about the canvas, for every content a diagram may be opened      *)
(* with, every number of nodes and changes, and the haste each theorem     *)
(* allows.  The invariants are TypeOK; Here, that whatever the selection,  *)
(* a gesture, a menu, the editor or a request holds is on the canvas; and  *)
(* Tight, that the content, every step of the history and every snapshot   *)
(* that a drag will push are closed.  Here carries Tight: an edge that is  *)
(* about to be made starts from what a gesture or a menu holds.  UndoInv   *)
(* carries the refinement of UndoHistory.                                  *)
(***************************************************************************)
EXTENDS EditorCanvas, FiniteSetTheorems, SequenceTheorems, TLAPS

-----------------------------------------------------------------------------
(* Types: the operators first, then the handlers in the order of the module *)

\* Another look is a content: the number is within its bound.
LEMMA RestyledType ==
    ASSUME content \in Content, changes \in 0..MaxChanges, changes < MaxChanges
    PROVE  Restyled \in Content
  BY LimitAssumption, SMT DEF Restyled, Content

\* A content with one node more is a content.
LEMMA WithNodeType ==
    ASSUME NEW c \in Content, NEW n \in Id
    PROVE  WithNode(c, n) \in Content
  BY DEF WithNode, Content

\* An edge between ids, at ports or none, is an edge.
LEMMA NewEdgeType ==
    ASSUME NEW n \in Id, NEW s \in Id, NEW t \in Id,
           NEW sp \in Port \cup {NoPort}, NEW tp \in Port \cup {NoPort}
    PROVE  NewEdge(n, s, sp, t, tp) \in Edge
  BY DEF NewEdge, Edge

\* A content with one edge more is a content.
LEMMA WithEdgeType ==
    ASSUME NEW c \in Content, NEW e \in Edge
    PROVE  WithEdge(c, e) \in Content
  BY DEF WithEdge, Content

\* pushHistory's limit leaves a history a history.
LEMMA KeptType ==
    ASSUME NEW s \in Seq(Content)
    PROVE  Kept(s) \in Seq(Content)
  BY LimitAssumption DEF Kept

\* pushHistory leaves both histories histories of contents.
LEMMA PushedType ==
    ASSUME past \in Seq(Content), NEW s \in Content, Pushed(s)
    PROVE  past' \in Seq(Content) /\ future' \in Seq(Content)
  <1>1. Append(past, s) \in Seq(Content) OBVIOUS
  <1>2. Kept(Append(past, s)) \in Seq(Content)
    BY <1>1, KeptType
  <1>3. past' \in Seq(Content) BY <1>2 DEF Pushed
  <1>4. future' \in Seq(Content) BY DEF Pushed
  <1> QED BY <1>3, <1>4

\* So does a change, which pushes what was shown.
LEMMA ChangedType ==
    ASSUME TypeOK, NEW c \in Content, Changed(c)
    PROVE  /\ content' \in Content /\ past' \in Seq(Content) /\ future' \in Seq(Content)
           /\ changes' \in 0..MaxChanges
  <1>1. past' \in Seq(Content) /\ future' \in Seq(Content)
    BY PushedType DEF Changed, TypeOK
  <1>2. content' \in Content /\ changes' \in 0..MaxChanges
    BY LimitAssumption DEF Changed, Becomes, TypeOK
  <1> QED BY <1>1, <1>2

\* Ids stay within their bound.
LEMMA NewIdsType ==
    ASSUME TypeOK, NEW n \in Nat, NewIds(n)
    PROVE  /\ made' \in 0..MaxIds
           /\ \A k \in 1..n : made + k \in Id
  BY LimitAssumption DEF NewIds, TypeOK, Id

\* Undo and redo move contents from one history to the other.
LEMMA UndoType ==
    ASSUME NEW s \in Seq(Content), s # <<>>
    PROVE  Last(s) \in Content /\ Front(s) \in Seq(Content)
  BY DEF Last, Front

\* A change of the content and of the histories that has the right type leaves
\* the rest to the action.
DocumentType == /\ content \in Content /\ past \in Seq(Content) /\ future \in Seq(Content)
                /\ changes \in 0..MaxChanges /\ made \in 0..MaxIds

\* A change of looks keeps the types.
LEMMA RestylesType ==
    ASSUME TypeOK, Changed(Restyled), UNCHANGED made
    PROVE  DocumentType'
  <1>1. Restyled \in Content
    BY RestyledType DEF Changed, Becomes, TypeOK
  <1> QED BY <1>1, ChangedType DEF DocumentType, TypeOK

\* A change gives the next number.
LEMMA BecomesType ==
    ASSUME TypeOK, NEW c \in {content, Restyled}, Becomes(c)
    PROVE  content' \in Content /\ changes' \in 0..MaxChanges
  <1>1. c \in Content
    BY RestyledType DEF Becomes, TypeOK
  <1> QED BY <1>1, LimitAssumption DEF Becomes, TypeOK

\* A change that adds a node gives a content and histories of contents.
LEMMA AddsNodeType ==
    ASSUME TypeOK, NewIds(1), Changed(WithNode(content, made + 1))
    PROVE  DocumentType' /\ made + 1 \in Id
  <1>1. made' \in 0..MaxIds /\ made + 1 \in Id
    BY NewIdsType
  <1>2. WithNode(content, made + 1) \in Content
    BY <1>1, WithNodeType DEF TypeOK
  <1> QED BY <1>1, <1>2, ChangedType DEF DocumentType

\* A change that adds an edge does, too.
LEMMA AddsEdgeType ==
    ASSUME TypeOK, NEW s \in Id, NEW sp \in Port \cup {NoPort},
           NEW t \in Id, NEW tp \in Port \cup {NoPort},
           NewIds(1), Changed(WithEdge(content, NewEdge(made + 1, s, sp, t, tp)))
    PROVE  DocumentType'
  <1>1. made' \in 0..MaxIds /\ made + 1 \in Id
    BY NewIdsType
  <1>2. WithEdge(content, NewEdge(made + 1, s, sp, t, tp)) \in Content
    BY <1>1, NewEdgeType, WithEdgeType DEF TypeOK
  <1> QED BY <1>1, <1>2, ChangedType DEF DocumentType

\* connectPendingTo adds an edge of the right type, or none.
LEMMA JoinsType ==
    ASSUME TypeOK, NEW s \in Id, NEW sp \in Port \cup {NoPort},
           NEW t \in Id, NEW tp \in Port \cup {NoPort}, Joins(s, sp, t, tp)
    PROVE  DocumentType'
  <1>1. CASE UNCHANGED <<document, used>>
    BY <1>1 DEF DocumentType, TypeOK, document, used
  <1>2. CASE /\ NewIds(1)
             /\ Changed(WithEdge(content, NewEdge(made + 1, s, sp, t, tp)))
    BY <1>2, AddsEdgeType
  <1> QED BY <1>1, <1>2 DEF Joins

\* The copies are given ids that are free.
LEMMA ClonedType ==
    ASSUME TypeOK, NEW nodes \in SUBSET Id, NEW edges \in SUBSET Edge,
           \A e \in edges : e.source \in nodes /\ e.target \in nodes,
           NewIds(Cardinality(nodes \cup {e.id : e \in edges}))
    PROVE  /\ made' \in 0..MaxIds
           /\ Cloned(nodes, edges).nodes \subseteq Id
           /\ Cloned(nodes, edges).edges \subseteq Edge
  <1> DEFINE old == nodes \cup {e.id : e \in edges}
             new(n) == made + Cardinality({m \in old : m <= n})
             clone(e) == NewEdge(new(e.id), new(e.source), e.sourcePort,
                                 new(e.target), e.targetPort)
  <1>1. old \subseteq Id
    BY DEF Edge
  <1>2. IsFiniteSet(old) /\ Cardinality(old) \in Nat
    <2>1. IsFiniteSet(Id)
      BY FS_Interval, LimitAssumption DEF Id
    <2> QED BY <2>1, <1>1, FS_Subset, FS_CardinalityType
  <1>3. made' \in 0..MaxIds /\ \A k \in 1..Cardinality(old) : made + k \in Id
    BY <1>2, NewIdsType
  <1>4. ASSUME NEW n \in old PROVE new(n) \in Id
    <2> DEFINE upto == {m \in old : m <= n}
    <2>1. n \in upto
      BY <1>1, LimitAssumption DEF Id
    <2>2. /\ IsFiniteSet(upto) /\ Cardinality(upto) \in Nat
          /\ Cardinality(upto) <= Cardinality(old)
      <3>1. upto \in SUBSET old OBVIOUS
      <3> HIDE DEF upto, old
      <3> QED BY <3>1, <1>2, FS_Subset, FS_CardinalityType
    <2>3. Cardinality(upto) # 0
      <3> HIDE DEF upto
      <3> QED BY <2>1, <2>2, FS_EmptySet
    <2>4. Cardinality(upto) \in 1..Cardinality(old)
      <3> HIDE DEF upto, old
      <3> QED BY <1>2, <2>2, <2>3
    <2> QED BY <2>4, <1>3
  <1>5. {new(n) : n \in nodes} \subseteq Id
    BY <1>4
  <1>6. ASSUME NEW e \in edges PROVE clone(e) \in Edge
    <2>1. /\ new(e.id) \in Id /\ new(e.source) \in Id /\ new(e.target) \in Id
      <3> HIDE DEF new
      <3> QED BY <1>4
    <2>2. e.sourcePort \in Port \cup {NoPort} /\ e.targetPort \in Port \cup {NoPort}
      BY DEF Edge
    <2> HIDE DEF new
    <2> QED BY <2>1, <2>2, NewEdgeType
  <1>7. {clone(e) : e \in edges} \subseteq Edge
    <2> HIDE DEF clone
    <2> QED BY <1>6
  <1>8. Cloned(nodes, edges) = [nodes |-> {new(n) : n \in nodes}, edges |-> {clone(e) : e \in edges}]
    BY Zenon DEF Cloned
  <1> HIDE DEF new, clone, old
  <1> QED BY <1>3, <1>5, <1>7, <1>8

\* Pasting keeps every type.
LEMMA InsertsType ==
    ASSUME TypeOK, NEW c \in Content, NEW nodes \in SUBSET c.nodes,
           Inserts(nodes, Within(c, nodes))
    PROVE  DocumentType' /\ selectedIds' \subseteq Id
  <1> DEFINE edges == Within(c, nodes)
             copy == Cloned(nodes, edges)
             grown == [content EXCEPT !.nodes = @ \cup copy.nodes, !.edges = @ \cup copy.edges]
  <1>1. /\ nodes \in SUBSET Id /\ edges \in SUBSET Edge
        /\ \A e \in edges : e.source \in nodes /\ e.target \in nodes
    BY DEF Within, Content
  <1>2. /\ NewIds(Cardinality(nodes \cup {e.id : e \in edges}))
        /\ Changed(grown) /\ selectedIds' = copy.nodes
    BY Zenon DEF Inserts
  <1>3. made' \in 0..MaxIds /\ copy.nodes \subseteq Id /\ copy.edges \subseteq Edge
    <2> HIDE DEF edges
    <2> QED BY <1>1, <1>2, ClonedType
  <1>4. grown \in Content
    <2> HIDE DEF copy
    <2> QED BY <1>3 DEF TypeOK, Content
  <1> HIDE DEF grown, copy
  <1> QED BY <1>2, <1>3, <1>4, ChangedType DEF DocumentType

\* What the clipboard may hold is a content.
LEMMA CopiedType ==
    ASSUME TypeOK
    PROVE  Copied \subseteq Content
  <1>1. Range(past) \subseteq Content /\ Range(future) \subseteq Content
    BY DEF Range, TypeOK
  <1> QED BY <1>1, LoadedAssumption DEF Copied, Remembered, TypeOK

USE DEF document, selection, connect, mouse, requests, used

\* Keys and toolbar keep the types.
LEMMA CommandsType ==
    ASSUME TypeOK, UNCHANGED blurred, Keyboard
    PROVE  TypeOK'
  <1>1. CASE Undo
    <2>1. content' \in Content /\ past' \in Seq(Content) /\ future' \in Seq(Content)
      BY <1>1, UndoType DEF TypeOK, Undo
    <2> QED BY <1>1, <2>1 DEF TypeOK, Undo, Reset
  <1>2. CASE Redo
    <2>1. content' \in Content /\ past' \in Seq(Content) /\ future' \in Seq(Content)
      BY <1>2, UndoType DEF TypeOK, Redo
    <2> QED BY <1>2, <2>1 DEF TypeOK, Redo, Reset
  <1>3. CASE SelectAll
    BY <1>3 DEF TypeOK, SelectAll, Content
  <1>4. CASE Duplicate
    <2>1. DocumentType' /\ selectedIds' \subseteq Id
      BY <1>4, InsertsType DEF Duplicate, TypeOK
    <2>2. /\ selectedEdgeId' = None /\ menu' \in {menu, None}
          /\ UNCHANGED <<nudging, connect, mouse, editing, requests>>
      BY <1>4 DEF Duplicate, Inserts, Command, Choice
    <2> QED BY <2>1, <2>2 DEF TypeOK, DocumentType
  <1>5. CASE DeleteSelected
    <2>1. WithoutSelected \in Content
      BY DEF WithoutSelected, TypeOK, Content
    <2>2. DocumentType'
      BY <1>5, <2>1, ChangedType DEF DeleteSelected, DocumentType, TypeOK
    <2> QED BY <1>5, <2>2 DEF TypeOK, DocumentType, DeleteSelected, Command, Key, Choice
  <1>6. CASE Tidy
    <2>1. DocumentType'
      BY <1>6, RestylesType DEF Tidy
    <2> QED BY <1>6, <2>1 DEF TypeOK, DocumentType, Tidy, Command, Key, Choice
  <1>7. CASE Nudge
    <2>1. content' \in Content /\ changes' \in 0..MaxChanges
      BY <1>7, BecomesType DEF Nudge
    <2>2. past' \in Seq(Content) /\ future' \in Seq(Content)
      BY <1>7, PushedType DEF Nudge, TypeOK
    <2> QED BY <1>7, <2>1, <2>2 DEF TypeOK, Nudge
  <1>8. CASE PlaceRef
    <2>1. DocumentType'
      BY <1>8, AddsNodeType DEF PlaceRef
    <2> QED BY <1>8, <2>1 DEF TypeOK, DocumentType, PlaceRef
  <1>9. CASE ConnectButton
    BY <1>9 DEF TypeOK, ConnectButton
  <1>10. CASE Escape
    BY <1>10 DEF TypeOK, Escape
  <1>11. ASSUME NEW c \in Copied, NEW nodes \in SUBSET c.nodes, Paste(c, nodes)
         PROVE  TypeOK'
    <2>1. DocumentType' /\ selectedIds' \subseteq Id
      BY <1>11, CopiedType, InsertsType DEF Paste
    <2> QED BY <1>11, <2>1 DEF TypeOK, DocumentType, Paste, Inserts, Command, Key, Choice
  <1> QED BY <1>1, <1>2, <1>3, <1>4, <1>5, <1>6, <1>7, <1>8, <1>9, <1>10, <1>11 DEF Keyboard

\* Mousedown keeps the types.
LEMMA DownType ==
    ASSUME TypeOK, Down
    PROVE  TypeOK'
  <1> USE DEF Press, LosesFocus
  <1>0. content.nodes \subseteq Id /\ EdgeIds(content) \subseteq Id
    BY DEF TypeOK, EdgeIds, Content, Edge
  <1>1. CASE PressPan
    BY <1>1 DEF TypeOK, PressPan
  <1>11. CASE PressEdgeHandle
    BY <1>11, <1>0 DEF TypeOK, PressEdgeHandle
  <1>2. ASSUME NEW shift \in BOOLEAN, PressEmpty(shift) PROVE TypeOK'
    BY <1>2 DEF TypeOK, PressEmpty
  <1>3. ASSUME NEW e \in EdgeIds(content), PressEdge(e) PROVE TypeOK'
    BY <1>3 DEF TypeOK, PressEdge, EdgeIds, Content, Edge
  <1>4. ASSUME NEW kind \in {"edge", "port", "node"}, NEW n \in Id, DoubleClick(kind, n)
        PROVE  TypeOK'
    BY <1>4 DEF TypeOK, DoubleClick, Edits
  <1>5. ASSUME NEW n \in content.nodes, ConnectFrom(n) PROVE TypeOK'
    BY <1>5, <1>0 DEF TypeOK, ConnectFrom
  <1>8. ASSUME NEW n \in content.nodes, ToggleNode(n) PROVE TypeOK'
    BY <1>8, <1>0 DEF TypeOK, ToggleNode
  <1>9. ASSUME NEW n \in content.nodes, PressNode(n) PROVE TypeOK'
    <2>1. dragging' \in [ids: SUBSET Id, moved: BOOLEAN, snapshot: Content]
      BY <1>9, <1>0 DEF TypeOK, PressNode
    <2>2. selectedIds' \subseteq Id /\ selectedEdgeId' = None
      BY <1>9, <1>0 DEF TypeOK, PressNode
    <2> QED BY <1>9, <2>1, <2>2 DEF TypeOK, PressNode
  <1>6. ASSUME NEW n \in content.nodes, ConnectTo(n) PROVE TypeOK'
    <2>1. DocumentType'
      <3>1. n \in Id /\ connectSource \in Id
        BY <1>6 DEF ConnectTo, TypeOK, Content
      <3>2. CASE UNCHANGED <<document, used>>
        BY <3>2 DEF TypeOK, DocumentType
      <3>3. CASE ~UNCHANGED <<document, used>>
        BY <1>6, <3>1, <3>3, AddsEdgeType DEF ConnectTo
      <3> QED BY <3>2, <3>3
    <2> QED BY <1>6, <2>1 DEF TypeOK, DocumentType, ConnectTo
  <1>7. ASSUME NEW n \in content.nodes, NEW port \in Places(n), PressHandle(n, port)
        PROVE  TypeOK'
    BY <1>7 DEF TypeOK, PressHandle, Places, Content
  <1> QED BY <1>0, <1>1, <1>11, <1>2, <1>3, <1>4, <1>5, <1>8, <1>9, <1>6, <1>7 DEF Down

\* Mousemove keeps the types.
LEMMA MoveType ==
    ASSUME TypeOK, UNCHANGED blurred, MoveEdge \/ MoveNodes
    PROVE  TypeOK'
  <1>1. CASE MoveEdge
    <2>1. content' \in Content /\ changes' \in 0..MaxChanges
      BY <1>1, BecomesType DEF MoveEdge
    <2>2. edgeDrag' \in [edge: Id, moved: BOOLEAN, snapshot: Content]
      BY <1>1 DEF MoveEdge, TypeOK
    <2> QED BY <1>1, <2>1, <2>2 DEF TypeOK, MoveEdge, Moving
  <1>2. CASE MoveNodes
    <2>1. content' \in Content /\ changes' \in 0..MaxChanges
      BY <1>2, BecomesType DEF MoveNodes
    <2>2. dragging' \in [ids: SUBSET Id, moved: BOOLEAN, snapshot: Content]
      BY <1>2 DEF MoveNodes, TypeOK
    <2> QED BY <1>2, <2>1, <2>2 DEF TypeOK, MoveNodes, Moving
  <1> QED BY <1>1, <1>2

\* Mouseup keeps the types.
LEMMA UpType ==
    ASSUME TypeOK, UNCHANGED blurred, Up
    PROVE  TypeOK'
  <1>1. CASE ReleasePan
    <2>1. panning' \in BOOLEAN
      BY <1>1, Zenon DEF ReleasePan
    <2> QED BY <1>1, <2>1 DEF TypeOK, ReleasePan
  <1>2. CASE ReleaseEmpty
    <2>1. menu' \in [kind: {"create"}, id: Id, port: Port \cup {NoPort}]
      BY <1>2 DEF ReleaseEmpty, TypeOK
    <2> QED BY <1>2, <2>1 DEF TypeOK, ReleaseEmpty
  <1>3. CASE ReleaseEdge
    <2>1. past' \in Seq(Content) /\ future' \in Seq(Content)
      BY <1>3, PushedType DEF ReleaseEdge, TypeOK
    <2> QED BY <1>3, <2>1 DEF TypeOK, ReleaseEdge
  <1>4. CASE ReleaseNodes
    <2>1. past' \in Seq(Content) /\ future' \in Seq(Content)
      BY <1>4, PushedType DEF ReleaseNodes, TypeOK
    <2> QED BY <1>4, <2>1 DEF TypeOK, ReleaseNodes
  <1>5. ASSUME NEW n \in content.nodes, NEW port \in Places(n), ReleaseOn(n, port)
        PROVE  TypeOK'
    <2>1. DocumentType'
      BY <1>5, JoinsType DEF ReleaseOn, TypeOK, Content, Places
    <2> QED BY <1>5, <2>1 DEF TypeOK, DocumentType, ReleaseOn
  <1>6. ASSUME NEW box \in SUBSET content.nodes, ReleaseLasso(box)
        PROVE  TypeOK'
    <2>1. selectedIds' \subseteq Id
      BY <1>6 DEF ReleaseLasso, TypeOK, Content
    <2> QED BY <1>6, <2>1 DEF TypeOK, ReleaseLasso
  <1> QED BY <1>1, <1>2, <1>3, <1>4, <1>5, <1>6 DEF Up

\* The inline editor keeps the types.
LEMMA EditorType ==
    ASSUME TypeOK, blurred' \in BOOLEAN, CommitEdit \/ CancelEdit
    PROVE  TypeOK'
  <1>1. CASE CommitEdit
    <2>1. DocumentType'
      <3>1. CASE UNCHANGED <<document, used>>
        BY <3>1 DEF DocumentType, TypeOK
      <3>2. CASE ~UNCHANGED <<document, used>>
        BY <1>1, <3>2, RestylesType DEF CommitEdit
      <3> QED BY <3>1, <3>2
    <2> QED BY <1>1, <2>1 DEF TypeOK, DocumentType, CommitEdit
  <1>2. CASE CancelEdit
    BY <1>2 DEF TypeOK, CancelEdit
  <1> QED BY <1>1, <1>2

\* The context menu keeps the types.
LEMMA MenuType ==
    ASSUME TypeOK, UNCHANGED blurred, Menu
    PROVE  TypeOK'
  <1> DEFINE menus ==
          [kind: {"node", "nodes", "edge", "create"}, id: Id, port: Port \cup {NoPort}]
              \cup [kind: {"empty"}, id: {None}, port: {NoPort}]
  <1>0. content.nodes \subseteq Id /\ EdgeIds(content) \subseteq Id
    BY DEF TypeOK, EdgeIds, Content, Edge
  <1>1. ASSUME NEW kind \in {"node", "nodes", "edge", "empty"}, NEW n \in Id \cup {None},
               kind = "empty" <=> n = None, Opens(kind, n), selectedIds' \subseteq Id, selectedEdgeId' \in Id \cup {None}
        PROVE  TypeOK'
    <2>1. menu' \in menus
      BY <1>1, LoadedAssumption DEF Opens
    <2> QED BY <1>1, <2>1 DEF TypeOK, Opens
  <1>2. ASSUME NEW n \in content.nodes, NodeMenu(n) PROVE TypeOK'
    <2>1. selectedIds' \subseteq Id /\ selectedEdgeId' \in Id \cup {None}
      BY <1>0, <1>2 DEF NodeMenu, TypeOK
    <2> QED BY <1>0, <1>1, <1>2, <2>1, LoadedAssumption DEF NodeMenu
  <1>3. ASSUME NEW e \in EdgeIds(content), EdgeMenu(e) PROVE TypeOK'
    BY <1>0, <1>1, <1>3, LoadedAssumption DEF EdgeMenu
  <1>4. CASE EmptyMenu
    BY <1>1, <1>4 DEF EmptyMenu, TypeOK
  <1>5. CASE EditLabel
    <2>1. menu \in menus /\ menu' = None
      BY <1>5 DEF EditLabel, Choice, TypeOK
    <2>2. CASE UNCHANGED <<document, selection, connect, mouse, editing, used>>
      BY <1>5, <2>1, <2>2 DEF EditLabel, TypeOK
    <2>3. CASE menu.id \in Id /\ Edits(menu.kind, menu.id) /\ menu.kind \in {"node", "edge"}
      BY <1>5, <2>1, <2>3 DEF EditLabel, Edits, TypeOK
    <2> QED BY <1>0, <1>5, <2>2, <2>3 DEF EditLabel, Choice
  <1>6. CASE AddNode
    <2>1. menu \in menus /\ menu' = None
      BY <1>6 DEF AddNode, Choice, TypeOK
    <2>2. DocumentType'
      <3> DEFINE added == WithNode(content, made + 1)
                 wire == NewEdge(made + 2, menu.id, menu.port, made + 1, NoPort)
      <3>1. CASE NewIds(1) /\ Changed(added)
        BY <3>1, AddsNodeType
      <3>2. CASE /\ menu.kind = "create" /\ NewIds(2)
                 /\ past' = Kept(Append(Kept(Append(past, content)), added)) /\ future' = <<>>
                 /\ Becomes(WithEdge(added, wire))
        <4>1. made' \in 0..MaxIds /\ made + 1 \in Id /\ made + 2 \in Id
          BY <3>2, NewIdsType
        <4>2. menu.id \in Id
          BY <2>1, <3>2, LoadedAssumption
        <4>3. added \in Content
          BY <4>1, WithNodeType DEF TypeOK
        <4>4. wire \in Edge
          BY <2>1, <4>1, <4>2, NewEdgeType
        <4>5. WithEdge(added, wire) \in Content
          <5> HIDE DEF added, wire
          <5> QED BY <4>3, <4>4, WithEdgeType
        <4>6. past' \in Seq(Content) /\ future' \in Seq(Content)
          <5> HIDE DEF added
          <5>1. Append(past, content) \in Seq(Content)
            BY DEF TypeOK
          <5>2. Kept(Append(past, content)) \in Seq(Content)
            BY <5>1, KeptType
          <5>3. Append(Kept(Append(past, content)), added) \in Seq(Content)
            BY <4>3, <5>2
          <5>4. past' \in Seq(Content)
            BY <3>2, <5>3, KeptType
          <5>5. future' \in Seq(Content)
            BY <3>2
          <5> QED BY <5>4, <5>5
        <4>7. content' \in Content /\ changes' \in 0..MaxChanges
          <5> HIDE DEF added, wire
          <5> QED BY <3>2, <4>5, LimitAssumption DEF Becomes, TypeOK
        <4> QED BY <4>1, <4>6, <4>7 DEF DocumentType
      <3> QED BY <1>6, <3>1, <3>2 DEF AddNode
    <2> QED BY <1>6, <2>1, <2>2 DEF TypeOK, DocumentType, AddNode
  <1>7. CASE AskContainer
    <2>1. container' \in [node: Id \cup {None}, source: Id \cup {None},
                          port: Port \cup {NoPort}]
      BY <1>7 DEF AskContainer, Choice, TypeOK
    <2> QED BY <1>7, <2>1 DEF TypeOK, AskContainer, Choice
  <1>8. CASE AskInside
    <2>1. menu.id \in Id
      BY <1>8 DEF AskInside, TypeOK, Content
    <2>2. container' \in [node: Id \cup {None}, source: Id \cup {None},
                          port: Port \cup {NoPort}]
      BY <1>8, <2>1 DEF AskInside, Inside
    <2> QED BY <1>8, <2>2 DEF TypeOK, AskInside, Choice
  <1>9. CASE ChangeNode \/ ResetCurvature \/ Colour \/ Align \/ Distribute
    <2>1. Restyles /\ menu' = None
      BY <1>9 DEF ChangeNode, ResetCurvature, Colour, Align, Distribute, Choice
    <2>2. DocumentType'
      BY <2>1, RestylesType DEF Restyles
    <2> QED BY <2>1, <2>2 DEF TypeOK, DocumentType, Restyles
  <1> QED BY <1>2, <1>3, <1>4, <1>5, <1>6, <1>7, <1>8, <1>9 DEF Menu

\* The answers of the service keep the types.
LEMMA AnswerType ==
    ASSUME TypeOK, UNCHANGED blurred, Answer \/ Leave \/ NudgeTimeout
    PROVE  TypeOK'
  <1>1. CASE ContainerMade
    <2>1. DocumentType' /\ made + 1 \in Id
      BY <1>1, AddsNodeType DEF ContainerMade
    <2>2. container' \in [node: Id, source: Id \cup {None}, port: Port \cup {NoPort}]
      BY <1>1, <2>1 DEF ContainerMade, TypeOK
    <2> QED BY <1>1, <2>1, <2>2 DEF TypeOK, DocumentType, ContainerMade
  <1>7. CASE InsideMade
    <2>1. PICK c \in {Restyled, content} : Changed(c)
      BY <1>7 DEF InsideMade
    <2>2. c \in Content
      BY <2>1, RestyledType DEF Changed, Becomes, TypeOK
    <2>3. DocumentType'
      <3>1. UNCHANGED made
        BY <1>7 DEF InsideMade
      <3>2. made' \in 0..MaxIds
        BY <3>1 DEF TypeOK
      <3> QED BY <2>1, <2>2, <3>2, ChangedType DEF DocumentType
    <2>4. container' \in [node: Id, source: {None}, port: Port \cup {NoPort}]
      BY <1>7 DEF InsideMade, TypeOK
    <2> QED BY <1>7, <2>3, <2>4 DEF TypeOK, DocumentType, InsideMade
  <1>2. CASE ContainerShown
    <2>1. DocumentType'
      <3>1. CASE UNCHANGED <<document, used>>
        BY <3>1 DEF DocumentType, TypeOK
      <3>2. CASE ~UNCHANGED <<document, used>>
        BY <1>2, <3>2, JoinsType DEF ContainerShown, TypeOK
      <3> QED BY <3>1, <3>2
    <2> QED BY <1>2, <2>1 DEF TypeOK, DocumentType, ContainerShown
  <1>3. CASE ContainerFails
    BY <1>3 DEF TypeOK, ContainerFails
  <1>4. CASE Arrive
    <2>1. loading' \in BOOLEAN
      BY <1>4, Zenon DEF Arrive
    <2> QED BY <1>4, <2>1, LoadedAssumption DEF TypeOK, Arrive
  <1>5. CASE Leave
    <2>1. connecting' \in BOOLEAN /\ loading' \in BOOLEAN
      BY <1>5, Zenon DEF Leave
    <2>2. past' \in Seq(Content) /\ future' \in Seq(Content)
      BY <1>5 DEF Leave
    <2> QED BY <1>5, <2>1, <2>2 DEF TypeOK, Leave
  <1>6. CASE NudgeTimeout
    <2>1. nudging' \in BOOLEAN
      BY <1>6, Zenon DEF NudgeTimeout
    <2> QED BY <1>6, <2>1 DEF TypeOK, NudgeTimeout
  <1> QED BY <1>1, <1>2, <1>3, <1>4, <1>5, <1>6, <1>7 DEF Answer

\* The page starts with the right types.
LEMMA TypeInitially == Init => TypeOK
  <1> SUFFICES ASSUME Init PROVE TypeOK OBVIOUS
  <1>1. content \in Content
    BY LoadedAssumption DEF Init
  <1>2. made \in 0..MaxIds /\ changes \in 0..MaxChanges
    BY LimitAssumption DEF Init
  <1>3. {nudging, connecting, panning, blurred, loading} \subseteq BOOLEAN
    <2>1. /\ nudging \in BOOLEAN /\ connecting \in BOOLEAN /\ panning \in BOOLEAN
          /\ blurred \in BOOLEAN /\ loading \in BOOLEAN
      BY Zenon DEF Init
    <2> QED BY <2>1
  <1>4. past \in Seq(Content) /\ future \in Seq(Content)
    BY DEF Init
  <1> QED BY <1>1, <1>2, <1>3, <1>4 DEF Init, TypeOK

\* Every step keeps them.
LEMMA TypeStep == TypeOK /\ [Next]_vars => TypeOK'
  <1> SUFFICES ASSUME TypeOK, [Next]_vars PROVE TypeOK' OBVIOUS
  <1>1. CASE Down
    BY <1>1, DownType
  <1>2. CASE blurred' = FALSE /\ CommitEdit
    BY <1>2, EditorType
  <1>3. CASE /\ UNCHANGED blurred
             /\ Keyboard \/ MoveEdge \/ MoveNodes \/ Up \/ CancelEdit \/ Menu
                \/ Leave \/ Answer \/ NudgeTimeout
    <2>1. blurred' \in BOOLEAN BY <1>3 DEF TypeOK
    <2> QED BY <1>3, <2>1, CommandsType, MoveType, UpType, EditorType, MenuType, AnswerType
  <1>4. CASE UNCHANGED vars
    BY <1>4 DEF TypeOK, vars
  <1> QED BY <1>1, <1>2, <1>3, <1>4 DEF Next

\* Every variable of the canvas keeps its type, whatever the user does not wait
\* for: no handler meets a value it does not expect.
THEOREM CanvasTypeCorrect == Spec => []TypeOK
  BY TypeInitially, TypeStep, PTL DEF Spec

-----------------------------------------------------------------------------
(* Nothing stale *)

\* The user finishes a gesture before the next command and waits for a diagram
\* that is on its way; labels, mouse buttons and arrow keys may still be hurried.
Unhurried == Haste \cap {"keys", "loading"} = {}

Quiet == /\ selectedIds = {} /\ selectedEdgeId = None /\ connectSource = None
         /\ pendingEdge = None /\ lasso = None /\ edgeDrag = None /\ dragging = None
         /\ menu = None /\ editing = None /\ container = None

SelectionHere == /\ selectedIds \subseteq content.nodes
                 /\ selectedEdgeId \in EdgeIds(content) \cup {None}
                 /\ connectSource \in content.nodes \cup {None}

GestureHere == /\ pendingEdge # None => pendingEdge.source \in content.nodes
               /\ lasso # None => lasso.baseSelection \subseteq content.nodes
               /\ dragging # None => dragging.ids \subseteq content.nodes
               /\ edgeDrag # None => edgeDrag.edge \in EdgeIds(content)

RequestHere ==
    /\ menu # None => /\ menu.kind = "edge" => menu.id \in EdgeIds(content)
                      /\ menu.kind # "edge" => menu.id \in content.nodes \cup {None}
    /\ editing # None => /\ editing.kind = "edge" => editing.id \in EdgeIds(content)
                         /\ editing.kind # "edge" => editing.id \in content.nodes
    /\ container # None => {container.node, container.source} \subseteq content.nodes \cup {None}

\* What is deleted from a menu is not being edited, and while a diagram is on its
\* way there is nothing that could refer to the one before.
Turns == /\ menu # None /\ menu.kind \in {"node", "nodes", "edge"} => editing = None
         /\ loading => Quiet

Here == SelectionHere /\ GestureHere /\ RequestHere /\ Turns

\* Here says of each holder what NothingStale says of all.
LEMMA HereIsNotStale == Here => NothingStale
  BY DEF Here, SelectionHere, GestureHere, RequestHere, NothingStale, Held, HeldEdges

\* Where nothing is held, nothing is stale.
LEMMA QuietIsHere == Quiet' /\ UNCHANGED loading => Here'
  BY DEF Quiet, Here, SelectionHere, GestureHere, RequestHere, Turns

Grows == /\ content.nodes \subseteq content'.nodes
         /\ EdgeIds(content) \subseteq EdgeIds(content')

\* A content that stays has all it had.
LEMMA StaysGrows == UNCHANGED content => Grows
  BY DEF Grows

\* So has one that only changes its looks.
LEMMA BecomesGrows ==
    ASSUME TypeOK, NEW c \in {content, Restyled}, Becomes(c)
    PROVE  Grows
  <1>1. content'.nodes = content.nodes /\ content'.edges = content.edges
    BY DEF Becomes, Restyled, TypeOK, Content
  <1> QED BY <1>1 DEF Grows, EdgeIds

\* So has one with another node.
LEMMA NodeGrows ==
    ASSUME TypeOK, NEW n \in Id, content' = WithNode(content, n)
    PROVE  Grows /\ n \in content'.nodes
  <1>1. content'.nodes = content.nodes \cup {n} /\ content'.edges = content.edges
    BY DEF WithNode, TypeOK, Content
  <1> QED BY <1>1 DEF Grows, EdgeIds

\* So has one with another edge.
LEMMA EdgeGrows ==
    ASSUME TypeOK, NEW e, content' = WithEdge(content, e)
    PROVE  Grows
  <1>1. content'.nodes = content.nodes /\ content'.edges = content.edges \cup {e}
    BY DEF WithEdge, TypeOK, Content
  <1> QED BY <1>1 DEF Grows, EdgeIds

\* So has one with a connection made.
LEMMA JoinsGrows ==
    ASSUME TypeOK, NEW s, NEW sp, NEW t, NEW tp, Joins(s, sp, t, tp)
    PROVE  Grows
  BY EdgeGrows, StaysGrows DEF Joins, Changed, Becomes

\* So has one that something was pasted into.
LEMMA InsertsGrows ==
    ASSUME TypeOK, NEW nodes, NEW edges, Inserts(nodes, edges)
    PROVE  /\ Grows /\ selectedIds' \subseteq content'.nodes /\ selectedEdgeId' = None
  <1> DEFINE copy == Cloned(nodes, edges)
             grown == [content EXCEPT !.nodes = @ \cup copy.nodes, !.edges = @ \cup copy.edges]
  <1>1. content' = grown /\ selectedIds' = copy.nodes /\ selectedEdgeId' = None
    BY Zenon DEF Inserts, Changed, Becomes
  <1> HIDE DEF copy
  <1>2. /\ content'.nodes = content.nodes \cup copy.nodes
        /\ content'.edges = content.edges \cup copy.edges
    BY <1>1 DEF TypeOK, Content
  <1> QED BY <1>1, <1>2 DEF Grows, EdgeIds

\* An unhurried user gives a command only when nothing but the menu is open.
LEMMA Waits ==
    ASSUME Unhurried
    PROVE  /\ Settled => ~loading /\ container = None
           /\ Key => Settled /\ editing = None /\ Idle /\ menu = None /\ connectSource = None
           /\ \A kinds : Choice(kinds) =>
                 Settled /\ Idle /\ connectSource = None /\ menu.kind \in kinds /\ menu # None
                         /\ menu' = None
  BY DEF Unhurried, Settled, Key, Choice

\* Keys and toolbar: what they delete or undo, nothing holds.
LEMMA CommandsHere ==
    ASSUME Unhurried, TypeOK, Here, Keyboard
    PROVE  Here'
  <1> DEFINE Frame == UNCHANGED <<connect, mouse, editing, requests>>
  <1>1. CASE Undo
    <2>1. Quiet' /\ UNCHANGED loading
      BY <1>1, Waits DEF Undo, Reset, Quiet, Idle
    <2> QED BY <2>1, QuietIsHere
  <1>2. CASE Redo
    <2>1. Quiet' /\ UNCHANGED loading
      BY <1>2, Waits DEF Redo, Reset, Quiet, Idle
    <2> QED BY <2>1, QuietIsHere
  <1>3. CASE SelectAll
    <2>1. ~loading /\ UNCHANGED content
      BY <1>3, Waits DEF SelectAll
    <2> QED BY <1>3, <2>1
          DEF SelectAll, Here, SelectionHere, GestureHere, RequestHere, Turns
  <1>4. ASSUME NEW nodes, NEW edges, Inserts(nodes, edges), ~loading, menu' \in {menu, None}
        PROVE  Here'
    <2>1. Grows /\ selectedIds' \subseteq content'.nodes /\ selectedEdgeId' = None
      BY <1>4, InsertsGrows
    <2>2. Frame
      BY <1>4 DEF Inserts
    <2> QED BY <1>4, <2>1, <2>2
          DEF Grows, Here, SelectionHere, GestureHere, RequestHere, Turns
  <1>5. CASE Duplicate
    <2>1. ~loading /\ menu' \in {menu, None}
      BY <1>5, Waits DEF Duplicate, Command
    <2> QED BY <1>4, <1>5, <2>1 DEF Duplicate
  <1>6. CASE DeleteSelected
    <2>1. Quiet' /\ UNCHANGED loading
      <3>1. Settled /\ Idle /\ connectSource = None /\ editing = None /\ menu' = None
        BY <1>6, Waits DEF DeleteSelected, Command, Here, Turns
      <3> QED BY <1>6, <3>1, Waits DEF DeleteSelected, Quiet, Idle
    <2> QED BY <2>1, QuietIsHere
  <1>7. CASE Tidy
    <2>1. ~loading /\ menu' \in {menu, None}
      BY <1>7, Waits DEF Tidy, Command
    <2>2. Grows
      BY <1>7, BecomesGrows DEF Tidy, Changed
    <2>3. Frame /\ UNCHANGED selection
      BY <1>7 DEF Tidy
    <2> QED BY <2>1, <2>2, <2>3
          DEF Grows, Here, SelectionHere, GestureHere, RequestHere, Turns
  <1>8. CASE Nudge
    <2>1. ~loading
      BY <1>8, Waits DEF Nudge
    <2>2. Grows
      BY <1>8, BecomesGrows DEF Nudge
    <2>3. Frame /\ UNCHANGED <<selection, menu>>
      BY <1>8 DEF Nudge
    <2> QED BY <2>1, <2>2, <2>3
          DEF Grows, Here, SelectionHere, GestureHere, RequestHere, Turns
  <1>9. CASE PlaceRef
    <2>1. ~loading
      BY <1>9, Waits DEF PlaceRef
    <2>2. Grows
      BY <1>9, AddsNodeType, NodeGrows DEF PlaceRef, Changed, Becomes
    <2>3. Frame /\ UNCHANGED <<selection, menu>>
      BY <1>9 DEF PlaceRef
    <2> QED BY <2>1, <2>2, <2>3
          DEF Grows, Here, SelectionHere, GestureHere, RequestHere, Turns
  <1>10. CASE ConnectButton
    <2>1. ~loading
      BY <1>10, Waits DEF ConnectButton
    <2> QED BY <1>10, <2>1
          DEF ConnectButton, Here, SelectionHere, GestureHere, RequestHere, Turns
  <1>11. CASE Escape
    BY <1>11 DEF Escape, Here, SelectionHere, GestureHere, RequestHere, Turns, Quiet
  <1>12. ASSUME NEW c \in Copied, NEW nodes \in SUBSET c.nodes, Paste(c, nodes)
         PROVE  Here'
    <2>1. ~loading /\ menu' \in {menu, None}
      BY <1>12, Waits DEF Paste, Command
    <2> QED BY <1>4, <1>12, <2>1 DEF Paste
  <1> QED BY <1>1, <1>2, <1>3, <1>5, <1>6, <1>7, <1>8, <1>9, <1>10, <1>11, <1>12 DEF Keyboard

\* Mousedown: gestures begin at what is there.
LEMMA DownHere ==
    ASSUME Unhurried, TypeOK, Here, Down
    PROVE  Here'
  <1> USE DEF SelectionHere, GestureHere, RequestHere, Turns, Here
  <1>1. ASSUME Press PROVE ~loading /\ ~loading' /\ container = None /\ menu' = None
                           /\ UNCHANGED requests
    BY <1>1, Waits DEF Press
  <1>2. CASE PressPan
    BY <1>1, <1>2 DEF PressPan
  <1>3. CASE PressEdgeHandle
    BY <1>1, <1>3 DEF PressEdgeHandle
  <1>4. ASSUME NEW shift \in BOOLEAN, PressEmpty(shift) PROVE Here'
    BY <1>1, <1>4 DEF PressEmpty
  <1>5. ASSUME NEW e \in EdgeIds(content), PressEdge(e) PROVE Here'
    BY <1>1, <1>5 DEF PressEdge
  <1>6. ASSUME NEW kind \in {"edge", "port", "node"}, NEW n, DoubleClick(kind, n)
        PROVE  Here'
    <2>1. n \in IF kind = "edge" THEN EdgeIds(content) ELSE content.nodes
      BY <1>6 DEF DoubleClick
    <2> QED BY <1>1, <1>6, <2>1 DEF DoubleClick, Edits
  <1>7. ASSUME NEW n \in content.nodes, ConnectFrom(n) PROVE Here'
    BY <1>1, <1>7 DEF ConnectFrom
  <1>8. ASSUME NEW n \in content.nodes, ConnectTo(n) PROVE Here'
    <2>1. Grows
      BY <1>8, EdgeGrows, StaysGrows DEF ConnectTo, Changed, Becomes
    <2>2. /\ connectSource' = None /\ selectedEdgeId' = None
          /\ UNCHANGED <<selectedIds, mouse, editing>> /\ Press
      BY <1>8 DEF ConnectTo
    <2> QED BY <1>1, <2>1, <2>2 DEF Grows
  <1>9. ASSUME NEW n \in content.nodes, ToggleNode(n) PROVE Here'
    BY <1>1, <1>9 DEF ToggleNode
  <1>10. ASSUME NEW n \in content.nodes, PressNode(n) PROVE Here'
    <2>1. selectedIds' \subseteq content.nodes
      BY <1>10 DEF PressNode
    <2>2. dragging' # None => dragging'.ids \subseteq content.nodes
      BY <1>10 DEF PressNode
    <2> QED BY <1>1, <1>10, <2>1, <2>2 DEF PressNode
  <1>11. ASSUME NEW n \in content.nodes, NEW port \in Places(n), PressHandle(n, port)
         PROVE  Here'
    BY <1>1, <1>11 DEF PressHandle
  <1> QED BY <1>2, <1>3, <1>4, <1>5, <1>6, <1>7, <1>8, <1>9, <1>10, <1>11 DEF Down

\* Mousemove: a drag changes looks only.
LEMMA MoveHere ==
    ASSUME TypeOK, Here, MoveEdge \/ MoveNodes
    PROVE  Here'
  <1> USE DEF SelectionHere, GestureHere, RequestHere, Turns, Here
  <1>1. CASE MoveEdge
    <2>1. Grows
      BY <1>1, BecomesGrows DEF MoveEdge
    <2>2. edgeDrag'.edge = edgeDrag.edge /\ edgeDrag # None
      BY <1>1 DEF MoveEdge, TypeOK
    <2>3. UNCHANGED <<selection, connect, pendingEdge, lasso, dragging, menu, editing,
                      requests>>
      BY <1>1 DEF MoveEdge
    <2> QED BY <2>1, <2>2, <2>3 DEF Grows, Quiet
  <1>2. CASE MoveNodes
    <2>1. Grows
      BY <1>2, BecomesGrows DEF MoveNodes
    <2>2. dragging'.ids = dragging.ids /\ dragging # None
      BY <1>2 DEF MoveNodes, TypeOK
    <2>3. UNCHANGED <<selection, connect, pendingEdge, lasso, edgeDrag, menu, editing,
                      requests>>
      BY <1>2 DEF MoveNodes
    <2> QED BY <2>1, <2>2, <2>3 DEF Grows, Quiet
  <1> QED BY <1>1, <1>2

\* Mouseup: the menu of a dropped connection holds its source.
LEMMA UpHere ==
    ASSUME TypeOK, Here, Up
    PROVE  Here'
  <1> USE DEF SelectionHere, GestureHere, RequestHere, Turns, Here, Quiet
  <1>1. CASE ReleasePan
    BY <1>1 DEF ReleasePan
  <1>2. CASE ReleaseEmpty
    BY <1>2 DEF ReleaseEmpty
  <1>3. CASE ReleaseEdge
    BY <1>3 DEF ReleaseEdge
  <1>4. CASE ReleaseNodes
    BY <1>4 DEF ReleaseNodes
  <1>5. ASSUME NEW n \in content.nodes, NEW port \in Places(n), ReleaseOn(n, port)
        PROVE  Here'
    <2>1. Grows
      BY <1>5, JoinsGrows DEF ReleaseOn
    <2>2. /\ pendingEdge # None /\ pendingEdge' = None
          /\ UNCHANGED <<selection, connect, lasso, edgeDrag, dragging, menu, editing,
                         requests>>
      BY <1>5 DEF ReleaseOn
    <2> QED BY <2>1, <2>2 DEF Grows
  <1>6. ASSUME NEW box \in SUBSET content.nodes, ReleaseLasso(box)
        PROVE  Here'
    <2>1. selectedIds' \subseteq content.nodes
      BY <1>6 DEF ReleaseLasso
    <2> QED BY <1>6, <2>1 DEF ReleaseLasso
  <1> QED BY <1>1, <1>2, <1>3, <1>4, <1>5, <1>6 DEF Up

\* The inline editor changes looks only.
LEMMA EditorHere ==
    ASSUME TypeOK, Here, CommitEdit \/ CancelEdit
    PROVE  Here'
  <1> USE DEF SelectionHere, GestureHere, RequestHere, Turns, Here, Quiet
  <1>1. CASE CommitEdit
    <2>1. Grows
      BY <1>1, BecomesGrows, StaysGrows DEF CommitEdit, Changed
    <2>2. /\ editing # None /\ editing' = None
          /\ UNCHANGED <<selection, connect, mouse, menu, requests>>
      BY <1>1 DEF CommitEdit
    <2> QED BY <2>1, <2>2 DEF Grows
  <1>2. CASE CancelEdit
    BY <1>2 DEF CancelEdit
  <1> QED BY <1>1, <1>2

\* The context menu: it opens on what is there, and an item leaves it there.
LEMMA MenuHere ==
    ASSUME Unhurried, TypeOK, Here, Menu
    PROVE  Here'
  <1> USE DEF SelectionHere, GestureHere, RequestHere, Turns, Here
  <1>1. ASSUME NEW n \in content.nodes, NodeMenu(n) PROVE Here'
    <2>1. /\ ~loading /\ editing = None /\ menu'.kind # "edge" /\ menu'.id = n
          /\ UNCHANGED <<document, connect, mouse, editing, requests>>
      BY <1>1, Waits DEF NodeMenu, Opens
    <2>2. SelectionHere'
      BY <1>1, <2>1 DEF NodeMenu
    <2> QED BY <2>1, <2>2
  <1>2. ASSUME NEW e \in EdgeIds(content), EdgeMenu(e) PROVE Here'
    BY <1>2, Waits DEF EdgeMenu, Opens
  <1>3. CASE EmptyMenu
    BY <1>3, Waits DEF EmptyMenu, Opens
  <1>4. CASE EditLabel
    <2>1. ~loading /\ container = None /\ menu' = None /\ UNCHANGED requests
      BY <1>4, Waits DEF EditLabel
    <2>2. CASE UNCHANGED <<document, selection, connect, mouse, editing>>
      BY <2>1, <2>2
    <2>3. CASE /\ menu.id \in IF menu.kind = "edge" THEN EdgeIds(content) ELSE content.nodes
               /\ Edits(menu.kind, menu.id) /\ menu.kind \in {"node", "edge"}
      BY <2>1, <2>3 DEF Edits
    <2> QED BY <1>4, <2>2, <2>3 DEF EditLabel, Choice
  <1>5. CASE AddNode
    <2>1. ~loading /\ container = None /\ menu' = None
          /\ UNCHANGED <<selection, connect, mouse, editing, requests>>
      BY <1>5, Waits DEF AddNode
    <2>2. Grows
      <3> DEFINE added == WithNode(content, made + 1)
      <3>1. ASSUME NEW e, content' = WithEdge(added, e) PROVE Grows
        <4>1. added.nodes = content.nodes \cup {made + 1} /\ added.edges = content.edges
          BY DEF WithNode, TypeOK, Content
        <4>2. content'.nodes = added.nodes /\ content'.edges = added.edges \cup {e}
          BY <3>1 DEF WithEdge, WithNode, TypeOK, Content
        <4> QED BY <4>1, <4>2 DEF Grows, EdgeIds
      <3>2. CASE NewIds(1) /\ Changed(added)
        BY <3>2, AddsNodeType, NodeGrows DEF Changed, Becomes
      <3> QED BY <1>5, <3>1, <3>2 DEF AddNode, Becomes
    <2> QED BY <2>1, <2>2 DEF Grows
  <1>6. CASE AskContainer \/ AskInside
    BY <1>6, Waits DEF AskContainer, AskInside, Inside
  <1>7. CASE ChangeNode \/ ResetCurvature \/ Colour \/ Align \/ Distribute
    <2>1. Restyles /\ menu' = None /\ ~loading
      BY <1>7, Waits DEF ChangeNode, ResetCurvature, Colour, Align, Distribute
    <2>2. Grows
      BY <2>1, BecomesGrows DEF Restyles, Changed
    <2> QED BY <2>1, <2>2 DEF Restyles, Grows
  <1> QED BY <1>1, <1>2, <1>3, <1>4, <1>5, <1>6, <1>7 DEF Menu

\* The answers of the service: a diagram that arrives meets nothing that holds the old one.
LEMMA AnswerHere ==
    ASSUME Unhurried, TypeOK, Here, Answer \/ Leave \/ NudgeTimeout
    PROVE  Here'
  <1> USE DEF SelectionHere, GestureHere, RequestHere, Turns, Here, Quiet
  <1>1. CASE ContainerMade
    <2>1. Grows /\ made + 1 \in content'.nodes
      BY <1>1, AddsNodeType, NodeGrows DEF ContainerMade, Changed, Becomes
    <2>2. /\ container # None /\ container'.node = made + 1
          /\ container'.source = container.source
          /\ UNCHANGED <<selection, connect, mouse, menu, editing, loading>>
      BY <1>1 DEF ContainerMade, TypeOK
    <2> QED BY <2>1, <2>2 DEF Grows
  <1>7. CASE InsideMade
    <2>1. Grows
      BY <1>7, BecomesGrows DEF InsideMade, Changed
    <2>2. /\ container # None /\ container'.node = container.node /\ container'.source = None
          /\ UNCHANGED <<selection, connect, mouse, menu, editing, loading>>
      BY <1>7 DEF InsideMade, TypeOK
    <2> QED BY <2>1, <2>2 DEF Grows
  <1>2. CASE ContainerShown
    <2>1. Grows
      BY <1>2, JoinsGrows, StaysGrows DEF ContainerShown
    <2>2. /\ container # None /\ container' = None
          /\ UNCHANGED <<selection, connect, mouse, menu, editing, loading>>
      BY <1>2 DEF ContainerShown
    <2> QED BY <2>1, <2>2 DEF Grows
  <1>3. CASE ContainerFails
    BY <1>3 DEF ContainerFails
  <1>4. CASE Arrive
    BY <1>4 DEF Arrive
  <1>5. CASE Leave
    <2>1. Idle /\ menu = None /\ container = None
      BY <1>5, Waits DEF Leave, Unhurried
    <2> QED BY <1>5, <2>1 DEF Leave, Idle
  <1>6. CASE NudgeTimeout
    BY <1>6 DEF NudgeTimeout
  <1> QED BY <1>1, <1>2, <1>3, <1>4, <1>5, <1>6, <1>7 DEF Answer

\* In the beginning nothing is held.
LEMMA HereInitially == Init => Here
  BY DEF Init, Here, SelectionHere, GestureHere, RequestHere, Turns

\* Every step of an unhurried user keeps what is held on the canvas.
LEMMA HereStep == Unhurried /\ TypeOK /\ Here /\ [Next]_vars => Here'
  <1> SUFFICES ASSUME Unhurried, TypeOK, Here, [Next]_vars PROVE Here' OBVIOUS
  <1>1. CASE UNCHANGED vars
    BY <1>1 DEF vars, Here, SelectionHere, GestureHere, RequestHere, Turns, Quiet
  <1>2. CASE Next
    BY <1>2, CommandsHere, DownHere, MoveHere, UpHere, EditorHere, MenuHere, AnswerHere
       DEF Next
  <1> QED BY <1>1, <1>2

\* Where the user finishes a gesture before the next command, the selection, a
\* drag, an open menu, the editor and a request never refer to what is gone.
THEOREM NothingGoesStale ==
    ASSUME Unhurried
    PROVE  Spec => []NothingStale
  <1>1. Init => TypeOK /\ Here
    BY TypeInitially, HereInitially
  <1>2. (TypeOK /\ Here) /\ [Next]_vars => (TypeOK /\ Here)'
    BY TypeStep, HereStep
  <1> QED BY <1>1, <1>2, HereIsNotStale, PTL DEF Spec

-----------------------------------------------------------------------------
(* No dangling edges *)

AllClosed(s) == \A k \in 1..Len(s) : Closed(s[k])

Tight == /\ Closed(content) /\ AllClosed(past) /\ AllClosed(future)
         /\ edgeDrag # None => Closed(edgeDrag.snapshot)
         /\ dragging # None => Closed(dragging.snapshot)

\* Tight says of each content what NoDanglingEdges says of all.
LEMMA TightIsClosed == ASSUME TypeOK, Tight PROVE NoDanglingEdges
  <1>1. \A c \in Range(past) : Closed(c)
    BY DEF Tight, AllClosed, Range, TypeOK
  <1>2. \A c \in Range(future) : Closed(c)
    BY DEF Tight, AllClosed, Range, TypeOK
  <1> QED BY <1>1, <1>2 DEF NoDanglingEdges, Remembered, Tight

\* A closed content at the end keeps a history closed.
LEMMA AppendClosed ==
    ASSUME NEW s \in Seq(Content), NEW c \in Content, AllClosed(s), Closed(c)
    PROVE  AllClosed(Append(s, c))
  BY DEF AllClosed

\* Forgetting the oldest step does.
LEMMA KeptClosed ==
    ASSUME NEW s \in Seq(Content), AllClosed(s)
    PROVE  AllClosed(Kept(s))
  BY LimitAssumption DEF Kept, AllClosed

\* pushHistory of a closed content keeps both histories closed.
LEMMA PushedClosed ==
    ASSUME past \in Seq(Content), AllClosed(past), NEW s \in Content, Closed(s), Pushed(s)
    PROVE  AllClosed(past') /\ AllClosed(future')
  <1>1. Append(past, s) \in Seq(Content)
    OBVIOUS
  <1>2. AllClosed(Kept(Append(past, s)))
    BY <1>1, AppendClosed, KeptClosed
  <1>3. AllClosed(<<>>)
    BY DEF AllClosed
  <1> QED BY <1>2, <1>3 DEF Pushed

\* A change from one closed content to another keeps everything closed.
LEMMA ChangedClosed ==
    ASSUME TypeOK, Tight, NEW c, Closed(c), Changed(c)
    PROVE  Closed(content') /\ AllClosed(past') /\ AllClosed(future')
  BY PushedClosed DEF Changed, Becomes, TypeOK, Tight

\* Looks open nothing.
LEMMA RestyledClosed ==
    ASSUME TypeOK, Tight
    PROVE  Closed(Restyled)
  BY DEF Restyled, Closed, Tight, TypeOK, Content

\* Another node opens nothing.
LEMMA WithNodeClosed ==
    ASSUME NEW c \in Content, Closed(c), NEW n
    PROVE  Closed(WithNode(c, n)) /\ c.nodes \cup {n} = WithNode(c, n).nodes
  BY DEF WithNode, Closed, Content

\* An edge between nodes that are there opens nothing.
LEMMA WithEdgeClosed ==
    ASSUME NEW c \in Content, Closed(c), NEW n, NEW sp, NEW tp,
           NEW s \in c.nodes, NEW t \in c.nodes
    PROVE  Closed(WithEdge(c, NewEdge(n, s, sp, t, tp)))
  BY DEF WithEdge, NewEdge, Closed, Content

\* Nor does connectPendingTo, if both nodes are there.
LEMMA JoinsClosed ==
    ASSUME TypeOK, Tight, NEW sp, NEW tp,
           NEW s \in content.nodes, NEW t \in content.nodes, Joins(s, sp, t, tp)
    PROVE  Closed(content') /\ AllClosed(past') /\ AllClosed(future')
  BY WithEdgeClosed, ChangedClosed DEF Joins, Tight, TypeOK

\* The copies of the edges run between the copies of the nodes.
LEMMA InsertsClosed ==
    ASSUME TypeOK, Tight, NEW c \in Content, NEW nodes \in SUBSET c.nodes,
           Inserts(nodes, Within(c, nodes))
    PROVE  Closed(content') /\ AllClosed(past') /\ AllClosed(future')
  <1> DEFINE edges == Within(c, nodes)
             copy == Cloned(nodes, edges)
             grown == [content EXCEPT !.nodes = @ \cup copy.nodes, !.edges = @ \cup copy.edges]
             old == nodes \cup {e.id : e \in edges}
             new(n) == made + Cardinality({m \in old : m <= n})
             clone(e) == NewEdge(new(e.id), new(e.source), e.sourcePort,
                                 new(e.target), e.targetPort)
  <1>1. Changed(grown)
    BY Zenon DEF Inserts
  <1>2. copy = [nodes |-> {new(n) : n \in nodes}, edges |-> {clone(e) : e \in edges}]
    BY Zenon DEF Cloned
  <1>3. ASSUME NEW e \in edges
        PROVE  clone(e).source \in copy.nodes /\ clone(e).target \in copy.nodes
    <2>1. e.source \in nodes /\ e.target \in nodes
      BY DEF Within
    <2>2. clone(e).source = new(e.source) /\ clone(e).target = new(e.target)
      <3> HIDE DEF new
      <3> QED BY DEF NewEdge
    <2> HIDE DEF new, clone, copy
    <2> QED BY <1>2, <2>1, <2>2
  <1>4. \A e \in copy.edges : e.source \in copy.nodes /\ e.target \in copy.nodes
    <2> HIDE DEF clone, copy, edges
    <2> QED BY <1>2, <1>3
  <1>5. Closed(grown)
    <2> HIDE DEF copy
    <2> QED BY <1>4 DEF Closed, TypeOK, Content, Tight
  <1> HIDE DEF grown
  <1> QED BY <1>1, <1>5, ChangedClosed

\* Keys and toolbar: deleting nodes takes their edges along.
LEMMA CommandsTight ==
    ASSUME Unhurried, TypeOK, Here, Tight, Keyboard
    PROVE  Tight'
  <1> DEFINE Drags == edgeDrag' \in {edgeDrag, None} /\ dragging' \in {dragging, None}
             Goal == Closed(content') /\ AllClosed(past') /\ AllClosed(future')
  <1>0. ASSUME Goal, Drags PROVE Tight'
    BY <1>0 DEF Tight
  <1>1. CASE Undo
    <2>1. Closed(Last(past)) /\ AllClosed(Front(past))
      BY <1>1 DEF Undo, Last, Front, AllClosed, Tight, TypeOK
    <2>2. AllClosed(Append(future, content))
      BY AppendClosed DEF Tight, TypeOK
    <2> QED BY <1>0, <1>1, <2>1, <2>2 DEF Undo, Reset
  <1>2. CASE Redo
    <2>1. Closed(Last(future)) /\ AllClosed(Front(future))
      BY <1>2 DEF Redo, Last, Front, AllClosed, Tight, TypeOK
    <2>2. AllClosed(Append(past, content))
      BY AppendClosed DEF Tight, TypeOK
    <2> QED BY <1>0, <1>2, <2>1, <2>2 DEF Redo, Reset
  <1>3. CASE SelectAll
    BY <1>3 DEF SelectAll, Tight
  <1>4. CASE Duplicate
    <2>1. Goal
      BY <1>4, InsertsClosed DEF Duplicate, TypeOK
    <2> QED BY <1>0, <1>4, <2>1 DEF Duplicate, Inserts
  <1>5. CASE DeleteSelected
    <2>1. Closed(WithoutSelected)
      BY DEF WithoutSelected, Closed, Tight, TypeOK, Content
    <2>2. Goal
      BY <1>5, <2>1, ChangedClosed DEF DeleteSelected
    <2> QED BY <1>0, <1>5, <2>2 DEF DeleteSelected
  <1>6. CASE Tidy
    <2>1. Goal
      BY <1>6, RestyledClosed, ChangedClosed DEF Tidy
    <2> QED BY <1>0, <1>6, <2>1 DEF Tidy
  <1>7. CASE Nudge
    <2>1. Closed(content')
      BY <1>7, RestyledClosed DEF Nudge, Becomes, Tight
    <2>2. AllClosed(past') /\ AllClosed(future')
      BY <1>7, PushedClosed DEF Nudge, Tight, TypeOK
    <2> QED BY <1>0, <1>7, <2>1, <2>2 DEF Nudge
  <1>8. CASE PlaceRef
    <2>1. Goal
      BY <1>8, WithNodeClosed, ChangedClosed DEF PlaceRef, Tight, TypeOK
    <2> QED BY <1>0, <1>8, <2>1 DEF PlaceRef
  <1>9. CASE ConnectButton
    BY <1>9 DEF ConnectButton, Tight
  <1>10. CASE Escape
    BY <1>10 DEF Escape, Tight
  <1>11. ASSUME NEW c \in Copied, NEW nodes \in SUBSET c.nodes, Paste(c, nodes)
         PROVE  Tight'
    <2>1. Goal
      BY <1>11, CopiedType, InsertsClosed DEF Paste
    <2> QED BY <1>0, <1>11, <2>1 DEF Paste, Inserts
  <1> QED BY <1>1, <1>2, <1>3, <1>4, <1>5, <1>6, <1>7, <1>8, <1>9, <1>10, <1>11 DEF Keyboard

\* Mousedown: snapshots are taken of a closed content; connecting joins nodes that are there.
LEMMA DownTight ==
    ASSUME TypeOK, Here, Tight, Down
    PROVE  Tight'
  <1>1. CASE PressPan
    BY <1>1 DEF PressPan, Tight
  <1>2. CASE PressEdgeHandle
    BY <1>2 DEF PressEdgeHandle, Tight
  <1>3. ASSUME NEW shift \in BOOLEAN, PressEmpty(shift) PROVE Tight'
    BY <1>3 DEF PressEmpty, Tight
  <1>4. ASSUME NEW e \in EdgeIds(content), PressEdge(e) PROVE Tight'
    BY <1>4 DEF PressEdge, Tight
  <1>5. ASSUME NEW kind, NEW n, DoubleClick(kind, n) PROVE Tight'
    BY <1>5 DEF DoubleClick, Edits, Tight
  <1>6. ASSUME NEW n \in content.nodes, ConnectTo(n) PROVE Tight'
    <2>1. connectSource \in content.nodes
      BY <1>6 DEF ConnectTo, Here, SelectionHere
    <2>2. Closed(content') /\ AllClosed(past') /\ AllClosed(future')
      BY <1>6, <2>1, WithEdgeClosed, ChangedClosed DEF ConnectTo, Tight, TypeOK
    <2> QED BY <1>6, <2>2 DEF ConnectTo, Tight
  <1>7. ASSUME NEW n \in content.nodes, ConnectFrom(n) \/ ToggleNode(n) PROVE Tight'
    BY <1>7 DEF ConnectFrom, ToggleNode, Tight
  <1>8. ASSUME NEW n \in content.nodes, PressNode(n) PROVE Tight'
    <2>1. dragging'.snapshot = content /\ UNCHANGED <<document, edgeDrag>>
      BY <1>8 DEF PressNode
    <2> QED BY <2>1 DEF Tight
  <1>9. ASSUME NEW n \in content.nodes, NEW port \in Places(n), PressHandle(n, port)
        PROVE  Tight'
    BY <1>9 DEF PressHandle, Tight
  <1> QED BY <1>1, <1>2, <1>3, <1>4, <1>5, <1>6, <1>7, <1>8, <1>9 DEF Down

\* Mousemove changes looks only.
LEMMA MoveTight ==
    ASSUME TypeOK, Tight, MoveEdge \/ MoveNodes
    PROVE  Tight'
  <1>1. Closed(content') /\ UNCHANGED <<past, future>>
    BY RestyledClosed DEF MoveEdge, MoveNodes, Becomes, Tight
  <1>2. edgeDrag' # None => edgeDrag # None /\ edgeDrag'.snapshot = edgeDrag.snapshot
    BY DEF MoveEdge, MoveNodes, TypeOK
  <1>3. dragging' # None => dragging # None /\ dragging'.snapshot = dragging.snapshot
    BY DEF MoveEdge, MoveNodes, TypeOK
  <1> QED BY <1>1, <1>2, <1>3 DEF Tight

\* Mouseup: by Here the source of the connection is there; snapshots are closed.
LEMMA UpTight ==
    ASSUME TypeOK, Here, Tight, Up
    PROVE  Tight'
  <1>1. CASE ReleasePan \/ ReleaseEmpty
    BY <1>1 DEF ReleasePan, ReleaseEmpty, Tight
  <1>2. CASE ReleaseEdge
    <2>1. AllClosed(past') /\ AllClosed(future')
      BY <1>2, PushedClosed DEF ReleaseEdge, Tight, TypeOK
    <2> QED BY <1>2, <2>1 DEF ReleaseEdge, Tight
  <1>3. CASE ReleaseNodes
    <2>1. AllClosed(past') /\ AllClosed(future')
      BY <1>3, PushedClosed DEF ReleaseNodes, Tight, TypeOK
    <2> QED BY <1>3, <2>1 DEF ReleaseNodes, Tight
  <1>4. ASSUME NEW n \in content.nodes, NEW port \in Places(n), ReleaseOn(n, port)
        PROVE  Tight'
    <2>1. Closed(content') /\ AllClosed(past') /\ AllClosed(future')
      BY <1>4, JoinsClosed DEF ReleaseOn, Here, GestureHere
    <2> QED BY <1>4, <2>1 DEF ReleaseOn, Tight
  <1>5. ASSUME NEW box, ReleaseLasso(box) PROVE Tight'
    BY <1>5 DEF ReleaseLasso, Tight
  <1> QED BY <1>1, <1>2, <1>3, <1>4, <1>5 DEF Up

\* The context menu: by Here the source of a wired node is there.
LEMMA MenuTight ==
    ASSUME TypeOK, Here, Tight, Menu \/ CommitEdit \/ CancelEdit
    PROVE  Tight'
  <1> DEFINE Goal == Closed(content') /\ AllClosed(past') /\ AllClosed(future')
  <1>1. ASSUME NEW n, NodeMenu(n) \/ EdgeMenu(n) \/ EmptyMenu PROVE Tight'
    BY <1>1 DEF NodeMenu, EdgeMenu, EmptyMenu, Opens, Tight
  <1>2. CASE EditLabel \/ AskContainer \/ AskInside \/ CancelEdit
    BY <1>2 DEF EditLabel, AskContainer, AskInside, CancelEdit, Edits, Tight
  <1>3. CASE ChangeNode \/ ResetCurvature \/ Colour \/ Align \/ Distribute
    <2>1. Restyles
      BY <1>3 DEF ChangeNode, ResetCurvature, Colour, Align, Distribute
    <2>2. Goal
      BY <2>1, RestyledClosed, ChangedClosed DEF Restyles
    <2> QED BY <2>1, <2>2 DEF Restyles, Tight
  <1>4. CASE CommitEdit
    <2>1. Goal
      BY <1>4, RestyledClosed, ChangedClosed DEF CommitEdit, Tight
    <2> QED BY <1>4, <2>1 DEF CommitEdit, Tight
  <1>5. CASE AddNode
    <2> DEFINE added == WithNode(content, made + 1)
               wire == NewEdge(made + 2, menu.id, menu.port, made + 1, NoPort)
    <2>1. Closed(added) /\ added.nodes = content.nodes \cup {made + 1}
      BY WithNodeClosed DEF TypeOK, Tight
    <2>2. CASE Changed(added)
      <3>1. Goal
        <4> HIDE DEF added
        <4> QED BY <2>1, <2>2, ChangedClosed
      <3> QED BY <1>5, <3>1 DEF AddNode, Tight
    <2>3. CASE /\ menu.kind = "create" /\ NewIds(2)
               /\ past' = Kept(Append(Kept(Append(past, content)), added)) /\ future' = <<>>
               /\ Becomes(WithEdge(added, wire))
      <3>1. menu # None
        BY <1>5 DEF AddNode, Choice
      <3>2. menu.id \in content.nodes
        BY <2>3, <3>1, LoadedAssumption DEF Here, RequestHere, TypeOK
      <3>3. made + 1 \in Id /\ added \in Content
        BY <2>3, NewIdsType, WithNodeType DEF TypeOK
      <3>4. Closed(WithEdge(added, wire))
        <4> HIDE DEF added
        <4> QED BY <2>1, <3>2, <3>3, WithEdgeClosed
      <3>5. AllClosed(past') /\ AllClosed(future')
        <4>1. Append(past, content) \in Seq(Content) /\ AllClosed(Append(past, content))
          BY AppendClosed DEF TypeOK, Tight
        <4>2. Kept(Append(past, content)) \in Seq(Content) /\ AllClosed(Kept(Append(past, content)))
          BY <4>1, KeptType, KeptClosed
        <4> HIDE DEF added
        <4>3. /\ Append(Kept(Append(past, content)), added) \in Seq(Content)
              /\ AllClosed(Append(Kept(Append(past, content)), added))
          BY <2>1, <3>3, <4>2, AppendClosed
        <4>4. AllClosed(past')
          BY <2>3, <4>3, KeptClosed
        <4>5. AllClosed(future')
          BY <2>3 DEF AllClosed
        <4> QED BY <4>4, <4>5
      <3>6. Closed(content')
        <4> HIDE DEF added, wire
        <4> QED BY <2>3, <3>4 DEF Becomes
      <3>7. UNCHANGED <<edgeDrag, dragging>>
        BY <1>5 DEF AddNode
      <3> QED BY <3>5, <3>6, <3>7 DEF Tight
    <2> QED BY <1>5, <2>2, <2>3 DEF AddNode
  <1> QED BY <1>1, <1>2, <1>3, <1>4, <1>5 DEF Menu

\* The answers of the service: a container is wired to a source that is there.
LEMMA AnswerTight ==
    ASSUME TypeOK, Here, Tight, Answer \/ Leave \/ NudgeTimeout
    PROVE  Tight'
  <1> DEFINE Goal == Closed(content') /\ AllClosed(past') /\ AllClosed(future')
  <1>1. CASE ContainerMade
    <2>1. Goal
      BY <1>1, WithNodeClosed, ChangedClosed DEF ContainerMade, TypeOK, Tight
    <2> QED BY <1>1, <2>1 DEF ContainerMade, Tight
  <1>6. CASE InsideMade
    <2>1. PICK c \in {Restyled, content} : Changed(c)
      BY <1>6 DEF InsideMade
    <2>2. Goal
      BY <2>1, RestyledClosed, ChangedClosed DEF Tight
    <2> QED BY <1>6, <2>2 DEF InsideMade, Tight
  <1>2. CASE ContainerShown
    <2>1. Goal
      <3>1. CASE UNCHANGED document
        BY <3>1 DEF Tight
      <3>2. CASE ~UNCHANGED document
        <4>1. container # None /\ container.node \in content.nodes
              /\ container.source \in content.nodes
          BY <1>2, <3>2 DEF ContainerShown, Here, RequestHere
        <4> QED BY <1>2, <3>2, <4>1, JoinsClosed DEF ContainerShown
      <3> QED BY <3>1, <3>2
    <2> QED BY <1>2, <2>1 DEF ContainerShown, Tight
  <1>3. CASE ContainerFails \/ NudgeTimeout
    BY <1>3 DEF ContainerFails, NudgeTimeout, Tight
  <1>4. CASE Arrive
    BY <1>4, LoadedAssumption DEF Arrive, Tight
  <1>5. CASE Leave
    <2>1. AllClosed(past') /\ AllClosed(future')
      BY <1>5 DEF Leave, AllClosed
    <2> QED BY <1>5, <2>1 DEF Leave, Tight
  <1> QED BY <1>1, <1>2, <1>3, <1>4, <1>5, <1>6 DEF Answer

\* What the service hands out is closed.
LEMMA TightInitially == Init => Tight
  BY LoadedAssumption DEF Init, Tight, AllClosed

\* Every step of an unhurried user keeps it closed.
LEMMA TightStep == Unhurried /\ TypeOK /\ Here /\ Tight /\ [Next]_vars => Tight'
  <1> SUFFICES ASSUME Unhurried, TypeOK, Here, Tight, [Next]_vars PROVE Tight' OBVIOUS
  <1>1. CASE UNCHANGED vars
    BY <1>1 DEF vars, Tight
  <1>2. CASE Next
    BY <1>2, CommandsTight, DownTight, MoveTight, UpTight, MenuTight, AnswerTight DEF Next
  <1> QED BY <1>1, <1>2

\* For the same users, whatever they do and undo, the canvas never shows, and undo
\* never brings back, an edge without its nodes, which the service would refuse.
THEOREM NoEdgeDangles ==
    ASSUME Unhurried
    PROVE  Spec => []NoDanglingEdges
  <1>1. Init => TypeOK /\ Here /\ Tight
    BY TypeInitially, HereInitially, TightInitially
  <1>2. (TypeOK /\ Here /\ Tight) /\ [Next]_vars => (TypeOK /\ Here /\ Tight)'
    BY TypeStep, HereStep, TightStep
  <1> QED BY <1>1, <1>2, TightIsClosed, PTL DEF Spec

-----------------------------------------------------------------------------
(* One kind of selection *)

\* During a lasso no edge is selected.
OneKind == OneKindSelected /\ (lasso # None => selectedEdgeId = None)

\* Where moreover a mouse button is released before the next one goes down, edges
\* and nodes are never selected together, so Delete removes what it seems to.
THEOREM OneKindIsSelected ==
    ASSUME Unhurried, "buttons" \notin Haste
    PROVE  Spec => []OneKindSelected
  <1>1. Init => OneKind
    BY DEF Init, OneKind, OneKindSelected
  <1>2. TypeOK /\ OneKind /\ [Next]_vars => OneKind'
    <2> SUFFICES ASSUME TypeOK, OneKind, [Next]_vars PROVE OneKind'
      OBVIOUS
    <2> USE DEF OneKind, OneKindSelected
    <2>1. ASSUME Press PROVE lasso = None
      BY <2>1 DEF Press, Idle
    <2>2. CASE Keyboard
      <3>1. CASE Undo \/ Redo
        BY <3>1, Waits DEF Undo, Redo, Reset, Idle
      <3>2. CASE SelectAll \/ ConnectButton
        BY <3>2 DEF SelectAll, ConnectButton
      <3>3. CASE Tidy \/ Nudge \/ PlaceRef
        BY <3>3 DEF Tidy, Nudge, PlaceRef
      <3>4. ASSUME NEW nodes, NEW edges, Inserts(nodes, edges) PROVE OneKind'
        BY <3>4 DEF Inserts
      <3>5. CASE Duplicate
        BY <3>4, <3>5 DEF Duplicate
      <3>6. CASE DeleteSelected
        BY <3>6 DEF DeleteSelected
      <3>7. CASE Escape
        BY <3>7 DEF Escape
      <3>8. ASSUME NEW c \in Copied, NEW nodes \in SUBSET c.nodes, Paste(c, nodes)
            PROVE  OneKind'
        BY <3>4, <3>8 DEF Paste
      <3> QED BY <2>2, <3>1, <3>2, <3>3, <3>5, <3>6, <3>7, <3>8 DEF Keyboard
    <2>3. CASE Down
      <3>1. CASE PressPan \/ PressEdgeHandle
        BY <3>1 DEF PressPan, PressEdgeHandle
      <3>2. ASSUME NEW shift \in BOOLEAN, PressEmpty(shift) PROVE OneKind'
        BY <3>2 DEF PressEmpty
      <3>3. ASSUME NEW e, PressEdge(e) PROVE OneKind'
        BY <2>1, <3>3 DEF PressEdge
      <3>4. ASSUME NEW kind \in {"edge", "port", "node"}, NEW n, DoubleClick(kind, n)
            PROVE  OneKind'
        BY <2>1, <3>4 DEF DoubleClick, Edits
      <3>5. ASSUME NEW n, ConnectFrom(n) \/ ConnectTo(n) \/ ToggleNode(n) \/ PressNode(n)
            PROVE  OneKind'
        BY <3>5 DEF ConnectFrom, ConnectTo, ToggleNode, PressNode
      <3>6. ASSUME NEW n, NEW port, PressHandle(n, port) PROVE OneKind'
        BY <3>6 DEF PressHandle
      <3> QED BY <2>3, <3>1, <3>2, <3>3, <3>4, <3>5, <3>6 DEF Down
    <2>4. CASE MoveEdge \/ MoveNodes \/ CommitEdit \/ CancelEdit
      BY <2>4 DEF MoveEdge, MoveNodes, CommitEdit, CancelEdit
    <2>5. CASE Up
      BY <2>5 DEF Up, ReleasePan, ReleaseEmpty, ReleaseEdge, ReleaseNodes, ReleaseOn,
                  ReleaseLasso
    <2>6. CASE Menu
      <3>1. ASSUME NEW n, NodeMenu(n) PROVE OneKind'
        BY <3>1 DEF NodeMenu, Opens
      <3>2. ASSUME NEW e \in EdgeIds(content), EdgeMenu(e) PROVE OneKind'
        <4>1. e # None
          BY LoadedAssumption DEF EdgeIds, TypeOK, Content, Edge
        <4>2. lasso = None
          BY <3>2, <4>1 DEF EdgeMenu, Opens, Unhurried
        <4> QED BY <3>2, <4>2 DEF EdgeMenu, Opens
      <3>3. CASE EmptyMenu
        BY <3>3 DEF EmptyMenu, Opens
      <3>4. CASE EditLabel
        <4>1. lasso = None
          BY <3>4, Waits DEF EditLabel, Idle
        <4> QED BY <3>4, <4>1 DEF EditLabel, Edits, Choice
      <3>5. CASE AddNode \/ AskContainer \/ AskInside
        BY <3>5 DEF AddNode, AskContainer, AskInside
      <3>6. CASE ChangeNode \/ ResetCurvature \/ Colour \/ Align \/ Distribute
        BY <3>6 DEF ChangeNode, ResetCurvature, Colour, Align, Distribute, Restyles
      <3> QED BY <2>6, <3>1, <3>2, <3>3, <3>4, <3>5, <3>6 DEF Menu
    <2>7. CASE Answer \/ Leave \/ NudgeTimeout
      BY <2>7 DEF Answer, ContainerMade, InsideMade, ContainerShown, ContainerFails, Arrive,
                  Leave, NudgeTimeout
    <2>8. CASE UNCHANGED vars
      BY <2>8 DEF vars
    <2> QED BY <2>2, <2>3, <2>4, <2>5, <2>6, <2>7, <2>8 DEF Next
  <1>3. (TypeOK /\ OneKind) /\ [Next]_vars => (TypeOK /\ OneKind)'
    BY <1>2, TypeStep
  <1>4. OneKind => OneKindSelected
    BY DEF OneKind
  <1> QED BY <1>1, <1>3, <1>4, TypeInitially, PTL DEF Spec

-----------------------------------------------------------------------------
(* Undo is faithful                                                        *)
(*                                                                         *)
(* Every step of a user who waits is a step of UndoHistory or changes      *)
(* nothing of it.  A change is one where nothing is being dragged and no   *)
(* burst runs (Turning), so that what is pushed is what was shown; a drag  *)
(* pushes what it started from, which is still what undo would go back to  *)
(* (Snapshots); and neither history grows past its limit by redo (Bounded).*)

\* A node or an edge is being dragged; something else under way that ends in a change.
Drags   == edgeDrag # None \/ dragging # None
Pending == pendingEdge # None \/ editing # None \/ container # None

Turning ==
    /\ Drags => ~Pending
    /\ edgeDrag = None \/ dragging = None
    /\ nudging => ~Drags /\ ~Pending /\ future = <<>>
    /\ loading => ~nudging /\ ~Drags /\ ~Pending /\ past = <<>> /\ future = <<>>

Snapshots ==
    /\ dragging # None /\ ~dragging.moved => dragging.snapshot = content
    /\ edgeDrag # None /\ ~edgeDrag.moved => edgeDrag.snapshot = content

Bounded == Len(past) + Len(future) <= HistoryLimit

UndoInv == Turning /\ Snapshots /\ Bounded

\* The two histories with what is shown between them.
Line(p, s, f) == p \o <<s>> \o Reverse(f)

\* Sequences are equal if their elements are.
LEMMA SameSeq ==
    ASSUME NEW s \in Seq(Content), NEW r \in Seq(Content), Len(s) = Len(r),
           \A k \in 1..Len(s) : s[k] = r[k]
    PROVE  s = r
  BY SeqEqual

\* The length of the line, and what stands where.
Laid(l, p, s, f) ==
    /\ l \in Seq(Content) /\ Len(l) = Len(p) + 1 + Len(f)
    /\ \A k \in 1..Len(p) + 1 + Len(f) :
          l[k] = IF k <= Len(p) THEN p[k]
                 ELSE IF k = Len(p) + 1 THEN s ELSE f[Len(p) + Len(f) + 2 - k]

LEMMA LineFacts ==
    ASSUME NEW p \in Seq(Content), NEW s \in Content, NEW f \in Seq(Content)
    PROVE  Laid(Line(p, s, f), p, s, f)
  <1>1. PICK r : r = Reverse(f)
    OBVIOUS
  <1>2. /\ r \in Seq(Content) /\ Len(r) = Len(f)
        /\ \A k \in 1..Len(f) : r[k] = f[Len(f) - k + 1]
    BY <1>1 DEF Reverse
  <1>3. PICK u : u = <<s>>
    OBVIOUS
  <1>4. u \in Seq(Content) /\ Len(u) = 1 /\ u[1] = s
    BY <1>3
  <1>5. PICK q : q = p \o u
    OBVIOUS
  <1>6. /\ q \in Seq(Content) /\ Len(q) = Len(p) + 1
        /\ \A k \in 1..Len(p) + 1 : q[k] = IF k <= Len(p) THEN p[k] ELSE u[k - Len(p)]
    <2>1. /\ p \o u \in Seq(Content) /\ Len(p \o u) = Len(p) + Len(u)
          /\ \A k \in 1..Len(p) + Len(u) :
                (p \o u)[k] = IF k <= Len(p) THEN p[k] ELSE u[k - Len(p)]
      BY <1>4, ConcatProperties, Zenon
    <2> QED
      BY <1>4, <1>5, <2>1
  <1>7. PICK l : l = q \o r
    OBVIOUS
  <1>8. /\ l \in Seq(Content) /\ Len(l) = Len(p) + 1 + Len(f)
        /\ \A k \in 1..Len(p) + 1 + Len(f) :
              l[k] = IF k <= Len(p) + 1 THEN q[k] ELSE r[k - (Len(p) + 1)]
    <2>0. q \in Seq(Content) /\ r \in Seq(Content)
      BY <1>2, <1>6
    <2>1. /\ q \o r \in Seq(Content) /\ Len(q \o r) = Len(q) + Len(r)
          /\ \A k \in 1..Len(q) + Len(r) :
                (q \o r)[k] = IF k <= Len(q) THEN q[k] ELSE r[k - Len(q)]
      BY <2>0, ConcatProperties, Zenon
    <2> QED
      BY <1>2, <1>6, <1>7, <2>1
  <1>9. Line(p, s, f) = l
    BY <1>1, <1>3, <1>5, <1>7 DEF Line
  <1>10. Len(p) \in Nat /\ Len(f) \in Nat
    OBVIOUS
  <1>11. ASSUME NEW k \in 1..Len(p) + 1 + Len(f)
         PROVE  l[k] = IF k <= Len(p) THEN p[k]
                       ELSE IF k = Len(p) + 1 THEN s ELSE f[Len(p) + Len(f) + 2 - k]
    <2>1. CASE k <= Len(p) + 1
      <3>1. k \in 1..Len(p) + 1
        BY <1>10, <2>1
      <3> QED
        BY <1>4, <1>6, <1>8, <1>10, <2>1, <3>1
    <2>2. CASE k > Len(p) + 1
      <3>1. k - (Len(p) + 1) \in 1..Len(f)
        BY <1>10, <2>2
      <3>2. l[k] = r[k - (Len(p) + 1)]
        BY <1>8, <1>10, <2>2
      <3>3. Len(f) - (k - (Len(p) + 1)) + 1 = Len(p) + Len(f) + 2 - k
        BY <1>10
      <3>4. r[k - (Len(p) + 1)] = f[Len(f) - (k - (Len(p) + 1)) + 1]
        BY <1>2, <3>1
      <3> QED
        BY <1>10, <2>2, <3>2, <3>3, <3>4
    <2> QED
      BY <1>10, <2>1, <2>2
  <1> QED
    BY <1>8, <1>9, <1>11 DEF Laid

\* What is left when the last element is taken.
LEMMA FrontFacts ==
    ASSUME NEW p \in Seq(Content), p # <<>>
    PROVE  /\ Front(p) \in Seq(Content) /\ Len(Front(p)) = Len(p) - 1
           /\ \A k \in 1..Len(p) - 1 : Front(p)[k] = p[k]
           /\ Last(p) = p[Len(p)] /\ Last(p) \in Content
           /\ Append(Front(p), Last(p)) = p
  <1>1. PICK n \in Nat : n = Len(p) - 1
    OBVIOUS
  <1>2. PICK q : q = SubSeq(p, 1, n)
    OBVIOUS
  <1>3. q = Front(p) /\ Last(p) = p[n + 1] /\ Last(p) \in Content /\ Len(p) = n + 1
    BY <1>1, <1>2 DEF Front, Last
  <1>4. q \in Seq(Content)
    BY <1>1, <1>2
  <1>5. Len(q) = n
    BY <1>1, <1>2, SMTT(30)
  <1>6. \A k \in 1..n : q[k] = p[k]
    BY <1>1, <1>2
  <1>7. Append(q, p[n + 1]) = p
    <2>1. PICK e \in Content : e = p[n + 1]
      BY <1>3
    <2>2. PICK a : a = Append(q, e)
      OBVIOUS
    <2>3. a \in Seq(Content) /\ Len(a) = n + 1
      BY <1>4, <1>5, <2>2
    <2>4. ASSUME NEW k \in 1..n + 1 PROVE a[k] = p[k]
      <3>1. CASE k = n + 1
        BY <1>4, <1>5, <2>1, <2>2, <3>1
      <3>2. CASE k \in 1..n
        BY <1>4, <1>5, <1>6, <2>1, <2>2, <3>2
      <3> QED
        BY <3>1, <3>2
    <2>5. a = p
      BY <1>3, <2>3, <2>4, SameSeq
    <2> QED
      BY <2>1, <2>2, <2>5
  <1> QED
    BY <1>1, <1>3, <1>4, <1>5, <1>6, <1>7

\* Undo moves along the line.
LEMMA UndoLine ==
    ASSUME NEW p \in Seq(Content), NEW s \in Content, NEW f \in Seq(Content), p # <<>>
    PROVE  Line(Front(p), Last(p), Append(f, s)) = Line(p, s, f)
  <1>1. PICK q : q = Front(p)
    OBVIOUS
  <1>2. PICK l : l = Last(p)
    OBVIOUS
  <1>3. PICK g : g = Append(f, s)
    OBVIOUS
  <1>4. PICK n \in Nat : n = Len(p) - 1
    OBVIOUS
  <1>5. PICK m \in Nat : m = Len(f)
    OBVIOUS
  <1>6. /\ q \in Seq(Content) /\ Len(q) = n /\ \A k \in 1..n : q[k] = p[k]
        /\ l = p[n + 1] /\ l \in Content
    BY <1>1, <1>2, <1>4, FrontFacts
  <1>7. /\ g \in Seq(Content) /\ Len(g) = m + 1 /\ g[m + 1] = s /\ \A k \in 1..m : g[k] = f[k]
    BY <1>3, <1>5
  <1>8. PICK a : a = Line(q, l, g)
    OBVIOUS
  <1>9. PICK b : b = Line(p, s, f)
    OBVIOUS
  <1>10. Laid(a, q, l, g)
    BY <1>6, <1>7, <1>8, LineFacts
  <1>11. Laid(b, p, s, f)
    BY <1>9, LineFacts
  <1>12. /\ a \in Seq(Content) /\ Len(a) = n + m + 2
         /\ \A k \in 1..n + m + 2 : a[k] = IF k <= n THEN q[k]
                                           ELSE IF k = n + 1 THEN l ELSE g[n + m + 3 - k]
    BY <1>6, <1>7, <1>10 DEF Laid
  <1>13. /\ b \in Seq(Content) /\ Len(b) = n + m + 2
         /\ \A k \in 1..n + m + 2 : b[k] = IF k <= n + 1 THEN p[k]
                                           ELSE IF k = n + 2 THEN s ELSE f[n + m + 3 - k]
    BY <1>4, <1>5, <1>11 DEF Laid
  <1>14. ASSUME NEW k \in 1..n + m + 2 PROVE a[k] = b[k]
    <2>1. CASE k \in 1..n + 1
      <3>1. a[k] = IF k <= n THEN q[k] ELSE l
        BY <1>12, <2>1
      <3>2. b[k] = p[k]
        BY <1>13, <2>1
      <3>3. k \in 1..n \/ k = n + 1
        BY <2>1
      <3> QED
        BY <1>6, <3>1, <3>2, <3>3
    <2>2. CASE k = n + 2
      <3>1. a[k] = g[m + 1]
        BY <1>12, <2>2
      <3>2. b[k] = s
        BY <1>13, <2>2
      <3> QED
        BY <1>7, <3>1, <3>2
    <2>3. CASE k \in n + 3..n + m + 2
      <3>1. PICK j \in 1..m : j = n + m + 3 - k
        BY <2>3
      <3>2. a[k] = g[j]
        BY <1>12, <2>3, <3>1
      <3>3. b[k] = f[j]
        BY <1>13, <2>3, <3>1
      <3> QED
        BY <1>7, <3>2, <3>3
    <2> QED
      BY <2>1, <2>2, <2>3
  <1>15. a = b
    BY <1>12, <1>13, <1>14, SameSeq
  <1> QED
    BY <1>1, <1>2, <1>3, <1>8, <1>9, <1>15

\* So does redo, which is undo backwards.
LEMMA RedoLine ==
    ASSUME NEW p \in Seq(Content), NEW s \in Content, NEW f \in Seq(Content), f # <<>>
    PROVE  Line(Append(p, s), Last(f), Front(f)) = Line(p, s, f)
  <1>1. PICK q : q = Append(p, s)
    OBVIOUS
  <1>2. q \in Seq(Content) /\ q # <<>> /\ Len(q) = Len(p) + 1
    BY <1>1
  <1>3. Last(q) = s
    BY <1>1 DEF Last
  <1>4. PICK r : r = Front(q)
    OBVIOUS
  <1>5. r = p
    <2>1. r \in Seq(Content) /\ Len(r) = Len(p) /\ \A k \in 1..Len(p) : r[k] = q[k]
      <3>1. Len(q) - 1 = Len(p)
        BY <1>2
      <3> QED
        BY <1>2, <1>4, <3>1, FrontFacts
    <2>2. \A k \in 1..Len(p) : q[k] = p[k]
      BY <1>1
    <2> QED
      BY <2>1, <2>2, SameSeq
  <1>6. PICK l \in Content : l = Last(f)
    BY FrontFacts
  <1>7. PICK g \in Seq(Content) : g = Front(f)
    BY FrontFacts
  <1>8. Append(g, l) = f
    BY <1>6, <1>7, FrontFacts
  <1>9. Line(Front(q), Last(q), Append(g, l)) = Line(q, l, g)
    BY <1>2, <1>6, <1>7, UndoLine
  <1> QED
    BY <1>1, <1>3, <1>4, <1>5, <1>6, <1>7, <1>8, <1>9

\* The part of the line that a change keeps.
LEMMA LineBefore ==
    ASSUME NEW p \in Seq(Content), NEW s \in Content, NEW f \in Seq(Content)
    PROVE  SubSeq(Line(p, s, f), 1, Len(p) + 1) = Append(p, s)
  <1>1. PICK n \in Nat : n = Len(p) + 1
    OBVIOUS
  <1>2. PICK l : l = Line(p, s, f)
    OBVIOUS
  <1>3. Laid(l, p, s, f)
    BY <1>2, LineFacts
  <1>4. /\ l \in Seq(Content) /\ Len(l) >= n /\ l[n] = s /\ \A k \in 1..n - 1 : l[k] = p[k]
    BY <1>1, <1>3 DEF Laid
  <1>5. PICK a : a = SubSeq(l, 1, n)
    OBVIOUS
  <1>6. PICK b : b = Append(p, s)
    OBVIOUS
  <1>7. b \in Seq(Content) /\ Len(b) = n /\ b[n] = s /\ \A k \in 1..n - 1 : b[k] = p[k]
    BY <1>1, <1>6
  <1>8. a \in Seq(Content) /\ \A k \in 1..n : a[k] = l[k]
    BY <1>4, <1>5
  <1>9. Len(a) = n
    BY <1>4, <1>5, SMTT(30)
  <1>10. a = b
    BY <1>4, <1>7, <1>8, <1>9, SameSeq
  <1> QED
    BY <1>1, <1>2, <1>5, <1>6, <1>10

\* The line after a change, which nothing stands behind.
LEMMA LineEnds ==
    ASSUME NEW p \in Seq(Content), NEW s \in Content
    PROVE  Line(p, s, <<>>) = Append(p, s)
  <1>1. PICK a : a = Line(p, s, <<>>)
    OBVIOUS
  <1>2. PICK b : b = Append(p, s)
    OBVIOUS
  <1>3. PICK e \in Seq(Content) : e = <<>>
    BY EmptySeq, Zenon
  <1>4. Len(e) = 0
    BY <1>3
  <1>5. Laid(a, p, s, e)
    BY <1>1, <1>3, LineFacts
  <1>6. a \in Seq(Content) /\ Len(a) = Len(p) + 1 /\ \A k \in 1..Len(p) + 1 :
            a[k] = IF k <= Len(p) THEN p[k] ELSE s
    BY <1>4, <1>5 DEF Laid
  <1>7. b \in Seq(Content) /\ Len(b) = Len(p) + 1 /\ \A k \in 1..Len(p) + 1 :
            b[k] = IF k <= Len(p) THEN p[k] ELSE s
    BY <1>2
  <1>8. a = b
    BY <1>6, <1>7, SameSeq
  <1> QED
    BY <1>1, <1>2, <1>8

-----------------------------------------------------------------------------
(* What is forgotten *)

\* pushHistory forgets as the line does.
LEMMA KeptEnds ==
    ASSUME NEW q \in Seq(Content), NEW s \in Content, Len(q) <= HistoryLimit + 1
    PROVE  History!Kept(Append(q, s)) = Append(Kept(q), s)
  <1>1. PICK h \in Nat : h = HistoryLimit
    BY LimitAssumption
  <1>2. PICK a : a = Append(q, s)
    OBVIOUS
  <1>3. a \in Seq(Content) /\ Len(a) = Len(q) + 1 /\ a[Len(q) + 1] = s
        /\ \A k \in 1..Len(q) : a[k] = q[k]
    BY <1>2
  <1>4. CASE Len(q) <= h
    BY <1>1, <1>2, <1>3, <1>4 DEF Kept, History!Kept
  <1>5. CASE Len(q) = h + 1
    <2>1. PICK b : b = Tail(q)
      OBVIOUS
    <2>2. b \in Seq(Content) /\ Len(b) = h /\ \A k \in 1..h : b[k] = q[k + 1]
      BY <1>1, <1>5, <2>1
    <2>3. PICK c : c = Append(b, s)
      OBVIOUS
    <2>4. c \in Seq(Content) /\ Len(c) = h + 1 /\ c[h + 1] = s /\ \A k \in 1..h : c[k] = b[k]
      BY <1>1, <2>2, <2>3
    <2>5. PICK d : d = SubSeq(a, 2, h + 2)
      OBVIOUS
    <2>6. d \in Seq(Content) /\ \A k \in 1..h + 1 : d[k] = a[k + 1]
      BY <1>1, <1>3, <1>5, <2>5
    <2>7. Len(d) = h + 1
      BY <1>1, <1>3, <1>5, <2>5, SMTT(30)
    <2>8. ASSUME NEW k \in 1..h + 1 PROVE c[k] = d[k]
      <3>1. CASE k = h + 1
        BY <1>1, <1>3, <1>5, <2>4, <2>6, <3>1
      <3>2. CASE k \in 1..h
        BY <1>1, <1>3, <1>5, <2>2, <2>4, <2>6, <3>2
      <3> QED
        BY <1>1, <3>1, <3>2
    <2>9. c = d
      BY <2>4, <2>6, <2>7, <2>8, SameSeq
    <2>10. Kept(q) = b
      BY <1>1, <1>5, <2>1 DEF Kept
    <2>11. History!Kept(a) = d
      <3>1. Len(a) = h + 2 /\ Len(a) - (HistoryLimit + 1) + 1 = 2
        BY <1>1, <1>3, <1>5
      <3> QED
        BY <1>1, <2>5, <3>1 DEF History!Kept, History!Latest
    <2> QED
      BY <1>2, <2>3, <2>9, <2>10, <2>11
  <1> QED
    BY <1>1, <1>4, <1>5

\* The ends of a line that was changed once, or twice.
LEMMA LatestOne ==
    ASSUME NEW q \in Seq(Content), NEW c \in Content, NEW r \in Seq(Content)
    PROVE  r \o History!Latest(Append(q, c), 1) = Append(r, c)
  <1>1. PICK n \in Nat : n = Len(q) + 1
    OBVIOUS
  <1>2. PICK a : a = Append(q, c)
    OBVIOUS
  <1>3. a \in Seq(Content) /\ Len(a) = n /\ a[n] = c
    BY <1>1, <1>2
  <1>4. SubSeq(a, n, n) = <<c>>
    <2>1. PICK l : l = SubSeq(a, n, n)
      OBVIOUS
    <2>2. l \in Seq(Content) /\ Len(l) = 1 /\ l[1] = c
      BY <1>1, <1>3, <2>1
    <2>3. PICK w : w = <<c>>
      OBVIOUS
    <2>4. w \in Seq(Content) /\ Len(w) = 1 /\ w[1] = c
      BY <2>3
    <2>5. l = w
      BY <2>2, <2>4, SameSeq
    <2> QED
      BY <2>1, <2>3, <2>5
  <1>5. History!Latest(a, 1) = SubSeq(a, n, n)
    BY <1>3 DEF History!Latest
  <1>6. r \o <<c>> = Append(r, c)
    BY AppendIsConcat
  <1> QED
    BY <1>2, <1>4, <1>5, <1>6

LEMMA LatestTwo ==
    ASSUME NEW q \in Seq(Content), NEW x \in Content, NEW c \in Content, NEW r \in Seq(Content),
           q # <<>>, Last(q) = x
    PROVE  r \o History!Latest(Append(q, c), 2) = Append(Append(r, x), c)
  <1>1. PICK n \in Nat : n = Len(q) + 1
    OBVIOUS
  <1>2. PICK a : a = Append(q, c)
    OBVIOUS
  <1>3. a \in Seq(Content) /\ Len(a) = n /\ n > 1 /\ a[n] = c /\ a[n - 1] = x
    BY <1>1, <1>2 DEF Last
  <1>4. PICK l : l = SubSeq(a, n - 1, n)
    OBVIOUS
  <1>5. l \in Seq(Content) /\ Len(l) = 2 /\ l[1] = x /\ l[2] = c
    BY <1>3, <1>4
  <1>6. History!Latest(a, 2) = l
    BY <1>3, <1>4 DEF History!Latest
  <1>7. PICK u : u = r \o l
    OBVIOUS
  <1>8. PICK v : v = Append(Append(r, x), c)
    OBVIOUS
  <1>9. /\ u \in Seq(Content) /\ Len(u) = Len(r) + Len(l)
        /\ \A k \in 1..Len(r) + Len(l) : u[k] = IF k <= Len(r) THEN r[k] ELSE l[k - Len(r)]
    BY <1>5, <1>7, ConcatProperties
  <1>10. PICK m \in Nat : m = Len(r)
    OBVIOUS
  <1>11. /\ u \in Seq(Content) /\ Len(u) = m + 2 /\ u[m + 1] = x /\ u[m + 2] = c
         /\ \A k \in 1..m : u[k] = r[k]
    <2>1. m + 1 \in 1..Len(r) + Len(l) /\ m + 2 \in 1..Len(r) + Len(l)
      BY <1>5, <1>10
    <2>2. u[m + 1] = l[1]
      BY <1>9, <1>10, <2>1
    <2>3. u[m + 2] = l[2]
      BY <1>9, <1>10, <2>1
    <2>4. \A k \in 1..m : u[k] = r[k]
      BY <1>5, <1>9, <1>10
    <2>5. Len(u) = m + 2
      BY <1>5, <1>9, <1>10
    <2> QED
      BY <1>5, <1>9, <2>2, <2>3, <2>4, <2>5
  <1>12. PICK w : w = Append(r, x)
    OBVIOUS
  <1>13. /\ w \in Seq(Content) /\ Len(w) = m + 1 /\ w[m + 1] = x
         /\ \A k \in 1..m : w[k] = r[k]
    BY <1>10, <1>12
  <1>14. /\ v \in Seq(Content) /\ Len(v) = m + 2 /\ v[m + 1] = x /\ v[m + 2] = c
         /\ \A k \in 1..m : v[k] = r[k]
    BY <1>8, <1>12, <1>13
  <1>15. u = v
    BY <1>11, <1>14, SameSeq
  <1> QED
    BY <1>2, <1>6, <1>7, <1>8, <1>15

\* Pushing twice forgets as the line does that grew by two.
LEMMA KeptTwice ==
    ASSUME NEW q \in Seq(Content), NEW x \in Content, NEW c \in Content,
           Len(q) <= HistoryLimit + 1
    PROVE  History!Kept(Append(Append(q, x), c)) = Append(Kept(Append(Kept(q), x)), c)
  <1>1. PICK h \in Nat \ {0} : h = HistoryLimit
    BY LimitAssumption
  <1>2. PICK a : a = Append(q, x)
    OBVIOUS
  <1>3. a \in Seq(Content) /\ Len(a) = Len(q) + 1 /\ a[Len(q) + 1] = x
        /\ \A k \in 1..Len(q) : a[k] = q[k]
    BY <1>2
  <1>4. CASE Len(q) <= h
    <2>1. Kept(q) = q
      BY <1>1, <1>4 DEF Kept
    <2>2. Len(a) <= HistoryLimit + 1
      BY <1>1, <1>3, <1>4
    <2> QED
      BY <1>2, <1>3, <2>1, <2>2, KeptEnds
  <1>5. CASE Len(q) = h + 1
    <2>1. PICK b : b = Tail(q)
      OBVIOUS
    <2>2. b \in Seq(Content) /\ Len(b) = h /\ \A k \in 1..h : b[k] = q[k + 1]
      BY <1>1, <1>5, <2>1
    <2>3. PICK r : r = Append(b, x)
      OBVIOUS
    <2>4. /\ r \in Seq(Content) /\ Len(r) = h + 1 /\ r[h + 1] = x
          /\ \A k \in 1..h : r[k] = b[k]
      BY <1>1, <2>2, <2>3
    <2>5. PICK d : d = Append(r, c)
      OBVIOUS
    <2>6. /\ d \in Seq(Content) /\ Len(d) = h + 2 /\ d[h + 2] = c
          /\ \A k \in 1..h + 1 : d[k] = r[k]
      BY <1>1, <2>4, <2>5
    <2>7. PICK e : e = Append(a, c)
      OBVIOUS
    <2>8. /\ e \in Seq(Content) /\ Len(e) = h + 3 /\ e[h + 3] = c
          /\ \A k \in 1..h + 2 : e[k] = a[k]
      BY <1>1, <1>3, <1>5, <2>7
    <2>9. PICK u : u = SubSeq(d, 2, h + 2)
      OBVIOUS
    <2>10. PICK v : v = SubSeq(e, 3, h + 3)
      OBVIOUS
    <2>11. u \in Seq(Content) /\ \A k \in 1..h + 1 : u[k] = d[k + 1]
      BY <1>1, <2>6, <2>9
    <2>12. v \in Seq(Content) /\ \A k \in 1..h + 1 : v[k] = e[k + 2]
      BY <1>1, <2>8, <2>10
    <2>13. Len(u) = h + 1 /\ Len(v) = h + 1
      BY <1>1, <2>6, <2>8, <2>9, <2>10, SMTT(30)
    <2>14. ASSUME NEW k \in 1..h + 1 PROVE u[k] = v[k]
      <3>1. CASE k = h + 1
        BY <1>1, <2>6, <2>8, <2>11, <2>12, <3>1
      <3>2. CASE k = h
        <4>1. u[k] = r[h + 1]
          BY <1>1, <2>6, <2>11, <3>2
        <4>2. v[k] = a[h + 2]
          BY <1>1, <2>8, <2>12, <3>2
        <4> QED
          BY <1>1, <1>3, <1>5, <2>4, <4>1, <4>2
      <3>3. CASE k \in 1..h - 1
        <4>1. u[k] = d[k + 1] /\ d[k + 1] = r[k + 1] /\ r[k + 1] = b[k + 1]
          BY <1>1, <2>4, <2>6, <2>11, <3>3
        <4>2. b[k + 1] = q[k + 2]
          BY <1>1, <2>2, <3>3
        <4>3. v[k] = e[k + 2] /\ e[k + 2] = a[k + 2]
          BY <1>1, <2>8, <2>12, <3>3
        <4>4. a[k + 2] = q[k + 2]
          BY <1>1, <1>3, <1>5, <3>3
        <4> QED
          BY <4>1, <4>2, <4>3, <4>4
      <3> QED
        BY <1>1, <3>1, <3>2, <3>3
    <2>15. u = v
      BY <2>11, <2>12, <2>13, <2>14, SameSeq
    <2>16. History!Kept(d) = u
      <3>1. Len(d) - (HistoryLimit + 1) + 1 = 2 /\ Len(d) > HistoryLimit + 1
        BY <1>1, <2>6
      <3> QED
        BY <1>1, <2>6, <2>9, <3>1 DEF History!Kept, History!Latest
    <2>17. History!Kept(e) = v
      <3>1. Len(e) - (HistoryLimit + 1) + 1 = 3 /\ Len(e) > HistoryLimit + 1
        BY <1>1, <2>8
      <3> QED
        BY <1>1, <2>8, <2>10, <3>1 DEF History!Kept, History!Latest
    <2>18. History!Kept(d) = Append(Kept(r), c)
      BY <1>1, <2>4, <2>5, KeptEnds
    <2>19. Kept(q) = b
      BY <1>1, <1>5, <2>1 DEF Kept
    <2> QED
      BY <1>2, <2>3, <2>7, <2>15, <2>16, <2>17, <2>18, <2>19
  <1> QED
    BY <1>1, <1>4, <1>5

-----------------------------------------------------------------------------
(* Steps of the canvas as steps of UndoHistory *)

\* What undo takes for shown is a content.
LEMMA ShownType == /\ TypeOK => Shown \in Content
                   /\ TypeOK' => Shown' \in Content
  BY DEF TypeOK, Shown, Dragged

\* What a step may be to the history.
Walks == [History!Next]_(History!vars)

\* Nothing that undo knows of changes.
LEMMA StillWalks ==
    ASSUME UNCHANGED <<past, future, nudging>>, Shown' = Shown
    PROVE  Walks
  BY DEF Walks, History!vars

\* What was shown is pushed: by a change, or by the first nudge of a burst.
LEMMA PushWalks ==
    ASSUME TypeOK, TypeOK', Bounded, ~nudging, Pushed(Shown)
    PROVE  Walks /\ Bounded'
  <1>1. past \in Seq(Content) /\ future \in Seq(Content) /\ Shown \in Content
    BY ShownType DEF TypeOK
  <1>2. PICK c \in Content : c = Shown'
    BY ShownType
  <1>3. PICK q : q = Append(past, Shown)
    OBVIOUS
  <1>4. q \in Seq(Content) /\ Len(q) = Len(past) + 1 /\ Len(past) \in Nat /\ Len(future) \in Nat
    BY <1>1, <1>3
  <1>5. Len(q) <= HistoryLimit + 1
    BY <1>4, LimitAssumption DEF Bounded
  <1>6. past' = Kept(q) /\ future' = <<>>
    BY <1>3 DEF Pushed
  <1>7. past' \in Seq(Content) /\ Len(past') <= HistoryLimit /\ Len(past') \in Nat
    BY <1>4, <1>5, <1>6, KeptType, LimitAssumption DEF Kept
  <1>8. Bounded'
    BY <1>6, <1>7, LimitAssumption DEF Bounded
  <1>9. PICK l : l = Append(past', c)
    OBVIOUS
  <1>10. Line(past, Shown, future)' = l
    BY <1>2, <1>6, <1>7, <1>9, LineEnds DEF Line
  <1>11. l = History!Kept(Append(q, c))
    BY <1>4, <1>5, <1>6, <1>9, KeptEnds
  <1>12. SubSeq(Line(past, Shown, future), 1, Len(past) + 1) = q
    BY <1>1, <1>3, LineBefore
  <1>13. Len(l) = Len(past') + 1 /\ l[Len(past') + 1] = c
    BY <1>7, <1>9
  <1>14. CASE ~nudging'
    <2>1. q \o History!Latest(l, 1) = Append(q, c)
      BY <1>4, <1>7, <1>9, LatestOne
    <2>2. History!Before = q
      BY <1>12 DEF History!Before, Line
    <2>3. l = History!Kept(History!Before \o History!Latest(l, 1))
      BY <1>11, <2>1, <2>2
    <2>4. 1 <= Len(past') + 1 /\ Len(past') + 1 = Len(l)
      BY <1>7, <1>13
    <2>5. (past \o <<Shown>> \o Reverse(future))' = l
      BY <1>10 DEF Line
    <2>6. History!Change(1)
      BY <1>14, <2>3, <2>4, <2>5 DEF History!Change
    <2> QED
      BY <1>8, <2>6 DEF Walks, History!Next
  <1>15. CASE nudging'
    <2>1. History!Nudge
      BY <1>10, <1>11, <1>12, <1>13, <1>15 DEF History!Nudge, History!Before, Line
    <2> QED
      BY <1>8, <2>1 DEF Walks, History!Next
  <1> QED
    BY <1>14, <1>15

\* A node that comes wired is pushed between two contents.
LEMMA PushTwiceWalks ==
    ASSUME TypeOK, TypeOK', Bounded, ~nudging, ~nudging', NEW x \in Content,
           past' = Kept(Append(Kept(Append(past, Shown)), x)), future' = <<>>
    PROVE  Walks /\ Bounded'
  <1>1. past \in Seq(Content) /\ future \in Seq(Content) /\ Shown \in Content
    BY ShownType DEF TypeOK
  <1>2. PICK c \in Content : c = Shown'
    BY ShownType
  <1>3. PICK q : q = Append(past, Shown)
    OBVIOUS
  <1>4. q \in Seq(Content) /\ Len(q) = Len(past) + 1 /\ Len(past) \in Nat /\ Len(future) \in Nat
    BY <1>1, <1>3
  <1>5. Len(q) <= HistoryLimit + 1
    BY <1>4, LimitAssumption DEF Bounded
  <1>6. Kept(q) \in Seq(Content) /\ Len(Kept(q)) <= HistoryLimit
    BY <1>4, <1>5, KeptType, LimitAssumption DEF Kept
  <1>7. PICK r : r = Append(Kept(q), x)
    OBVIOUS
  <1>8. /\ r \in Seq(Content) /\ Len(r) = Len(Kept(q)) + 1 /\ Len(r) <= HistoryLimit + 1
        /\ r[Len(r)] = x
    BY <1>6, <1>7, LimitAssumption
  <1>9. past' = Kept(r) /\ future' = <<>>
    BY <1>3, <1>7
  <1>10. /\ past' \in Seq(Content) /\ Len(past') <= HistoryLimit /\ Len(past') \in Nat \ {0}
         /\ past'[Len(past')] = x
    <2>1. PICK p : p = Kept(r)
      OBVIOUS
    <2>2. PICK n \in Nat : n = Len(r)
      BY <1>8
    <2>3. n >= 1 /\ r # <<>>
      BY <1>6, <1>8, <2>2
    <2>4. CASE n <= HistoryLimit
      <3>1. p = r
        BY <2>1, <2>2, <2>4, LimitAssumption DEF Kept
      <3>2. p \in Seq(Content) /\ Len(p) = n /\ p[n] = x
        BY <1>8, <2>2, <3>1
      <3> QED
        BY <1>9, <2>1, <2>2, <2>3, <2>4, <3>2, LimitAssumption
    <2>5. CASE n = HistoryLimit + 1
      <3>1. p = Tail(r)
        BY <2>1, <2>2, <2>5, LimitAssumption DEF Kept
      <3>2. p \in Seq(Content) /\ Len(p) = n - 1 /\ \A k \in 1..n - 1 : p[k] = r[k + 1]
        BY <1>8, <2>2, <2>3, <3>1
      <3>3. n - 1 \in 1..n - 1
        BY <2>2, <2>5, LimitAssumption
      <3>4. p[n - 1] = x
        BY <1>8, <2>2, <3>2, <3>3
      <3> QED
        BY <1>9, <2>1, <2>5, <3>2, <3>3, <3>4, LimitAssumption
    <2> QED
      BY <1>8, <2>2, <2>4, <2>5, LimitAssumption
  <1>11. Bounded'
    BY <1>9, <1>10, LimitAssumption DEF Bounded
  <1>12. PICK l : l = Append(past', c)
    OBVIOUS
  <1>13. Line(past, Shown, future)' = l
    BY <1>2, <1>9, <1>10, <1>12, LineEnds DEF Line
  <1>14. l = History!Kept(Append(Append(q, x), c))
    BY <1>4, <1>5, <1>7, <1>9, <1>12, KeptTwice
  <1>15. SubSeq(Line(past, Shown, future), 1, Len(past) + 1) = q
    BY <1>1, <1>3, LineBefore
  <1>16. Len(l) = Len(past') + 1
    BY <1>10, <1>12
  <1>17. q \o History!Latest(l, 2) = Append(Append(q, x), c)
    <2>1. PICK p : p = past'
      OBVIOUS
    <2>2. p \in Seq(Content) /\ p # <<>> /\ Last(p) = x
      BY <1>10, <2>1 DEF Last
    <2>3. q \o History!Latest(Append(p, c), 2) = Append(Append(q, x), c)
      BY <1>4, <2>2, LatestTwo
    <2> QED
      BY <1>12, <2>1, <2>3
  <1>18. History!Change(2)
    <2>1. History!Before = q
      BY <1>15 DEF History!Before, Line
    <2>2. l = History!Kept(History!Before \o History!Latest(l, 2))
      BY <1>14, <1>17, <2>1
    <2>3. 2 <= Len(past') + 1 /\ Len(past') + 1 = Len(l)
      BY <1>10, <1>16
    <2>4. (past \o <<Shown>> \o Reverse(future))' = l
      BY <1>13 DEF Line
    <2> QED
      BY <2>2, <2>3, <2>4 DEF History!Change
  <1> QED
    BY <1>11, <1>18 DEF Walks, History!Next

\* Undo and redo move the cursor.
LEMMA UndoWalks ==
    ASSUME TypeOK, Bounded, ~nudging, UNCHANGED nudging, Shown = content, Shown' = content',
           past # <<>>, future' = Append(future, content), content' = Last(past),
           past' = Front(past)
    PROVE  Walks /\ Bounded'
  <1>1. past \in Seq(Content) /\ future \in Seq(Content) /\ content \in Content
    BY DEF TypeOK
  <1>2. Line(past, Shown, future)' = Line(past, Shown, future)
    BY <1>1, UndoLine DEF Line
  <1>3. Len(past') = Len(past) - 1 /\ Len(past) \in Nat \ {0}
    BY <1>1, FrontFacts
  <1>4. Len(future') = Len(future) + 1 /\ Len(future) \in Nat
    BY <1>1
  <1>5. Bounded'
    BY <1>3, <1>4, LimitAssumption DEF Bounded
  <1>6. History!Undo
    BY <1>2, <1>3 DEF History!Undo, Line
  <1> QED
    BY <1>5, <1>6 DEF Walks, History!Next

LEMMA RedoWalks ==
    ASSUME TypeOK, Bounded, ~nudging, UNCHANGED nudging, Shown = content, Shown' = content',
           future # <<>>, past' = Append(past, content), content' = Last(future),
           future' = Front(future)
    PROVE  Walks /\ Bounded'
  <1>1. past \in Seq(Content) /\ future \in Seq(Content) /\ content \in Content
    BY DEF TypeOK
  <1>2. Line(past, Shown, future)' = Line(past, Shown, future)
    BY <1>1, RedoLine DEF Line
  <1>3. Len(future') = Len(future) - 1 /\ Len(future) \in Nat \ {0}
    BY <1>1, FrontFacts
  <1>4. Len(past') = Len(past) + 1 /\ Len(past) \in Nat
    BY <1>1
  <1>5. Bounded'
    BY <1>3, <1>4, LimitAssumption DEF Bounded
  <1>6. PICK l \in Seq(Content) : l = Line(past, Shown, future)
    BY <1>1, LineFacts DEF Laid
  <1>7. Len(l) = Len(past) + 1 + Len(future)
    BY <1>1, <1>6, LineFacts DEF Laid
  <1>8. Len(past) + 1 < Len(l)
    BY <1>3, <1>4, <1>7
  <1>9. History!Redo
    BY <1>2, <1>4, <1>6, <1>8 DEF History!Redo, Line
  <1> QED
    BY <1>5, <1>9 DEF Walks, History!Next

\* Another nudge of a burst replaces the end of the line.
LEMMA NudgeWalks ==
    ASSUME TypeOK, TypeOK', nudging, UNCHANGED <<past, future, nudging>>, future = <<>>
    PROVE  Walks
  <1>1. past \in Seq(Content) /\ Shown \in Content
    BY ShownType DEF TypeOK
  <1>2. PICK c \in Content : c = Shown'
    BY ShownType
  <1>3. PICK n \in Nat : n = Len(past) + 1
    BY <1>1
  <1>4. PICK l : l = Append(past, Shown)
    OBVIOUS
  <1>5. PICK m : m = Append(past, c)
    OBVIOUS
  <1>6. l \in Seq(Content) /\ Len(l) = n /\ \A k \in 1..n - 1 : l[k] = past[k]
    BY <1>1, <1>3, <1>4
  <1>7. m \in Seq(Content) /\ Len(m) = n /\ m[n] = c /\ \A k \in 1..n - 1 : m[k] = past[k]
    BY <1>1, <1>3, <1>5
  <1>8. m = [l EXCEPT ![n] = m[n]]
    <2>1. PICK e : e = [l EXCEPT ![n] = c]
      OBVIOUS
    <2>2. n \in 1..Len(l)
      BY <1>3, <1>6
    <2>3. /\ e \in Seq(Content) /\ Len(e) = n
          /\ \A k \in 1..n : e[k] = IF k = n THEN c ELSE l[k]
      BY <1>6, <2>1, <2>2, ExceptSeq
    <2>4. ASSUME NEW k \in 1..n PROVE e[k] = m[k]
      BY <1>6, <1>7, <2>3
    <2>5. e = m
      BY <1>7, <2>3, <2>4, SameSeq
    <2> QED
      BY <1>7, <2>1, <2>5
  <1>9. Line(past, Shown, future) = l
    BY <1>1, <1>4, LineEnds
  <1>10. Line(past, Shown, future)' = m
    BY <1>1, <1>2, <1>5, LineEnds DEF Line
  <1>11. past \o <<Shown>> \o Reverse(future) = l /\ (past \o <<Shown>> \o Reverse(future))' = m
    BY <1>9, <1>10 DEF Line
  <1>12. History!NudgeOn
    BY <1>3, <1>6, <1>8, <1>11 DEF History!NudgeOn
  <1> QED
    BY <1>12 DEF Walks, History!Next

\* A diagram that is opened has no history.
LEMMA OpenWalks ==
    ASSUME TypeOK', past' = <<>>, future' = <<>>, UNCHANGED nudging
    PROVE  Walks /\ Bounded'
  <1>1. PICK c \in Content : c = Shown'
    BY ShownType
  <1>2. PICK e \in Seq(Content) : e = <<>>
    BY EmptySeq, Zenon
  <1>3. Len(e) = 0
    BY <1>2
  <1>4. Line(past, Shown, future)' = Append(e, c)
    BY <1>1, <1>2, LineEnds DEF Line
  <1>5. Len(Append(e, c)) = 1
    BY <1>3
  <1>6. History!Open
    BY <1>2, <1>3, <1>4, <1>5 DEF History!Open, Line
  <1>7. Bounded'
    BY <1>2, <1>3, LimitAssumption DEF Bounded
  <1> QED
    BY <1>6, <1>7 DEF Walks, History!Next

-----------------------------------------------------------------------------
(* The steps of a user who waits *)

Faithful == UndoInv' /\ Walks

\* A user who waits finds nothing under way when he begins.
LEMMA WaitsForAll ==
    ASSUME Haste = {}
    PROVE  /\ Key => ~Drags /\ ~Pending /\ ~loading
           /\ Press => ~Drags /\ ~Pending /\ ~loading /\ ~nudging
           /\ \A kinds : Choice(kinds) => ~Drags /\ container = None /\ ~loading /\ ~nudging
           /\ \A kinds : Command(kinds) => ~Drags /\ ~loading /\ ~nudging
           /\ Paused => ~nudging
           /\ Settled => ~loading /\ container = None
  BY DEF Key, Press, Choice, Command, Idle, Settled, Paused, Drags, Pending

\* A change where nothing is being dragged and no burst runs.
LEMMA ChangeFaithful ==
    ASSUME TypeOK, TypeOK', UndoInv, Pushed(content), ~Drags, ~Drags',
           ~nudging, ~nudging', ~loading'
    PROVE  Faithful
  <1>1. Shown = content
    BY DEF Shown, Dragged, Drags
  <1>2. Walks /\ Bounded'
    BY <1>1, PushWalks DEF UndoInv
  <1>3. Turning' /\ Snapshots'
    BY DEF Turning, Snapshots, Drags
  <1> QED
    BY <1>2, <1>3 DEF Faithful, UndoInv

\* A step that leaves the content, the histories and the drags alone.
LEMMA StillFaithful ==
    ASSUME UndoInv, UNCHANGED <<document, nudging, edgeDrag, dragging>>,
           loading' => loading,
           Pending' => Pending \/ (~Drags /\ ~nudging /\ ~loading)
    PROVE  Faithful
  <1>1. Shown' = Shown
    BY DEF Shown, Dragged, document
  <1>2. Walks
    BY <1>1, StillWalks DEF document
  <1>3. Turning'
    BY DEF UndoInv, Turning, Drags, document
  <1>4. Snapshots' /\ Bounded'
    BY DEF UndoInv, Snapshots, Bounded, document
  <1> QED
    BY <1>2, <1>3, <1>4 DEF Faithful, UndoInv

\* A connection is made, or there is one.
LEMMA JoinsFaithful ==
    ASSUME TypeOK, TypeOK', UndoInv, NEW a, NEW b, NEW c, NEW d, Joins(a, b, c, d),
           ~Drags, ~nudging, ~loading, UNCHANGED <<edgeDrag, dragging, nudging, loading>>
    PROVE  Faithful
  <1>1. CASE UNCHANGED document
    BY <1>1, StillFaithful
  <1>2. CASE Pushed(content)
    BY <1>2, ChangeFaithful DEF Drags
  <1> QED
    BY <1>1, <1>2 DEF Joins, Changed

\* Undo and redo leave nothing under way.
LEMMA BackFaithful ==
    ASSUME Haste = {}, TypeOK, UndoInv, Undo \/ Redo
    PROVE  Faithful
  <1>1. ~Drags /\ ~loading /\ ~nudging /\ UNCHANGED <<edgeDrag, nudging, loading>> /\ dragging' = None
    BY WaitsForAll DEF Undo, Redo, Reset, requests
  <1>2. Shown = content /\ Shown' = content' /\ Turning' /\ Snapshots'
    BY <1>1 DEF Shown, Dragged, Drags, Turning, Snapshots
  <1>3. Bounded
    BY DEF UndoInv
  <1>4. CASE Undo
    <2>1. Walks /\ Bounded'
      BY <1>1, <1>2, <1>3, <1>4, UndoWalks DEF Undo
    <2> QED
      BY <1>2, <2>1 DEF Faithful, UndoInv
  <1>5. CASE Redo
    <2>1. Walks /\ Bounded'
      BY <1>1, <1>2, <1>3, <1>5, RedoWalks DEF Redo
    <2> QED
      BY <1>2, <2>1 DEF Faithful, UndoInv
  <1> QED
    BY <1>4, <1>5

\* The arrow keys: the first of a burst pushes, the others change what is shown.
LEMMA NudgeFaithful ==
    ASSUME Haste = {}, TypeOK, TypeOK', UndoInv, Nudge
    PROVE  Faithful
  <1>1. ~Drags /\ ~Pending /\ ~loading /\ nudging'
        /\ UNCHANGED <<edgeDrag, dragging, pendingEdge, editing, container, loading>>
    BY WaitsForAll DEF Nudge, mouse, requests
  <1>2. Shown = content /\ ~Drags' /\ ~Pending' /\ Snapshots'
    BY <1>1 DEF Shown, Dragged, Drags, Pending, Snapshots
  <1>3. CASE ~nudging
    <2>1. Pushed(Shown)
      BY <1>2, <1>3 DEF Nudge
    <2>2. Walks /\ Bounded'
      BY <1>3, <2>1, PushWalks DEF UndoInv
    <2>3. Turning'
      <3>1. future' = <<>> /\ ~loading'
        BY <1>1, <2>1 DEF Pushed
      <3>2. edgeDrag' = None
        BY <1>2 DEF Drags
      <3> QED
        BY <1>2, <3>1, <3>2 DEF Turning
    <2> QED
      BY <1>2, <2>2, <2>3 DEF Faithful, UndoInv
  <1>4. CASE nudging
    <2>1. UNCHANGED <<past, future, nudging>> /\ future = <<>>
      BY <1>1, <1>4 DEF Nudge, UndoInv, Turning, TypeOK
    <2>2. Walks
      BY <1>4, <2>1, NudgeWalks
    <2>3. Turning' /\ Bounded'
      BY <1>1, <1>2, <2>1 DEF UndoInv, Turning, Bounded
    <2> QED
      BY <1>2, <2>2, <2>3 DEF Faithful, UndoInv
  <1> QED
    BY <1>3, <1>4

\* Keys and toolbar.
LEMMA CommandsFaithful ==
    ASSUME Haste = {}, TypeOK, TypeOK', UndoInv, Keyboard
    PROVE  Faithful
  <1> DEFINE Frame == UNCHANGED <<edgeDrag, dragging, nudging, loading>>
  <1>1. CASE Undo \/ Redo
    BY <1>1, BackFaithful
  <1>2. CASE SelectAll \/ ConnectButton
    <2>1. UNCHANGED <<document, nudging, mouse, editing, requests>>
      BY <1>2 DEF SelectAll, ConnectButton
    <2>2. UNCHANGED <<edgeDrag, dragging, loading, pendingEdge, container>>
      BY <2>1 DEF mouse, requests
    <2> QED
      BY <2>1, <2>2, StillFaithful DEF Pending
  <1>3. ASSUME NEW kinds, Command(kinds), Pushed(content), UNCHANGED <<nudging, mouse, requests>>
        PROVE  Faithful
    <2>1. Frame
      BY <1>3 DEF mouse, requests
    <2> QED
      BY <1>3, <2>1, WaitsForAll, ChangeFaithful DEF Drags
  <1>4. CASE Duplicate
    BY <1>3, <1>4 DEF Duplicate, Inserts, Changed
  <1>5. CASE DeleteSelected \/ Tidy
    BY <1>3, <1>5 DEF DeleteSelected, Tidy, Changed
  <1>6. CASE Nudge
    BY <1>6, NudgeFaithful
  <1>7. CASE PlaceRef
    <2>1. Frame
      BY <1>7 DEF PlaceRef, mouse, requests
    <2> QED
      BY <1>7, <2>1, WaitsForAll, ChangeFaithful DEF PlaceRef, Changed, Drags
  <1>8. CASE Escape
    <2>1. UNCHANGED <<document, nudging, edgeDrag, dragging, editing, requests>>
      BY <1>8 DEF Escape
    <2>2. pendingEdge' \in {pendingEdge, None}
      BY <1>8 DEF Escape
    <2>3. UNCHANGED <<loading, container>>
      BY <2>1 DEF requests
    <2> QED
      BY <2>1, <2>2, <2>3, StillFaithful DEF Pending
  <1>9. ASSUME NEW c \in Copied, NEW nodes \in SUBSET c.nodes, Paste(c, nodes)
        PROVE  Faithful
    BY <1>3, <1>9 DEF Paste, Inserts, Changed
  <1> QED
    BY <1>1, <1>2, <1>4, <1>5, <1>6, <1>7, <1>8, <1>9 DEF Keyboard

\* The button goes down.
LEMMA DownFaithful ==
    ASSUME Haste = {}, TypeOK, TypeOK', UndoInv, Down
    PROVE  Faithful
  <1> DEFINE Frame == UNCHANGED <<nudging, loading, container>>
  <1>1. ASSUME Press PROVE ~Drags /\ ~Pending /\ ~loading /\ ~nudging /\ Frame
    BY <1>1, WaitsForAll DEF Press, requests
  \* Nothing but an edge, a lasso, a selection or a label begins.
  <1>2. ASSUME Press, UNCHANGED <<document, edgeDrag, dragging>> PROVE Faithful
    BY <1>1, <1>2, StillFaithful
  <1>3. CASE PressPan
    BY <1>2, <1>3 DEF PressPan
  <1>4. ASSUME NEW shift \in BOOLEAN, PressEmpty(shift) PROVE Faithful
    BY <1>2, <1>4 DEF PressEmpty
  <1>5. ASSUME NEW e, PressEdge(e) PROVE Faithful
    BY <1>2, <1>5 DEF PressEdge, mouse
  <1>6. ASSUME NEW n, ConnectFrom(n) \/ ToggleNode(n) PROVE Faithful
    BY <1>2, <1>6 DEF ConnectFrom, ToggleNode, mouse
  <1>7. ASSUME NEW n, NEW port, PressHandle(n, port) PROVE Faithful
    BY <1>2, <1>7 DEF PressHandle
  <1>8. ASSUME NEW kind, NEW n, DoubleClick(kind, n) PROVE Faithful
    <2>1. Press /\ dragging' = None /\ UNCHANGED <<document, edgeDrag>>
      BY <1>8 DEF DoubleClick, Edits
    <2>2. dragging = None
      BY <1>1, <2>1 DEF Drags
    <2> QED
      BY <1>2, <2>1, <2>2
  <1>9. ASSUME NEW n, ConnectTo(n) PROVE Faithful
    <2>1. Press /\ UNCHANGED <<edgeDrag, dragging>>
      BY <1>9 DEF ConnectTo, mouse
    <2>2. CASE UNCHANGED document
      BY <1>2, <2>1, <2>2
    <2>3. CASE Pushed(content)
      BY <1>1, <2>1, <2>3, ChangeFaithful DEF Drags
    <2> QED
      BY <1>9, <2>2, <2>3 DEF ConnectTo, Changed
  \* A drag begins with what is shown.
  <1>10. ASSUME Press, UNCHANGED <<document, pendingEdge, editing>>,
                \/ UNCHANGED edgeDrag /\ dragging'.snapshot = content /\ dragging'.moved = FALSE
                \/ UNCHANGED dragging /\ edgeDrag'.snapshot = content /\ edgeDrag'.moved = FALSE
         PROVE  Faithful
    <2>1. edgeDrag = None /\ dragging = None /\ ~Pending /\ ~loading /\ ~nudging /\ Frame
      BY <1>1, <1>10 DEF Drags
    <2>2. Shown = content /\ Shown' = content
      BY <1>10, <2>1 DEF Shown, Dragged, document
    <2>3. Walks
      BY <1>10, <2>1, <2>2, StillWalks DEF document
    <2>4. ~Pending' /\ (edgeDrag' = None \/ dragging' = None)
      BY <1>10, <2>1 DEF Pending
    <2>5. Turning'
      BY <2>1, <2>4 DEF Turning
    <2>6. Snapshots' /\ Bounded'
      BY <1>10, <2>1 DEF Snapshots, UndoInv, Bounded, document
    <2> QED
      BY <2>3, <2>5, <2>6 DEF Faithful, UndoInv
  <1>11. CASE PressEdgeHandle
    BY <1>10, <1>11 DEF PressEdgeHandle
  <1>12. ASSUME NEW n, PressNode(n) PROVE Faithful
    BY <1>10, <1>12 DEF PressNode
  <1> QED
    BY <1>3, <1>4, <1>5, <1>6, <1>7, <1>8, <1>9, <1>11, <1>12 DEF Down

\* Dragging: undo goes on to know what the drag started from.
LEMMA MoveFaithful ==
    ASSUME TypeOK, UndoInv, MoveEdge \/ MoveNodes
    PROVE  Faithful
  <1>1. UNCHANGED <<past, future, nudging, pendingEdge, editing, container, loading>>
    BY DEF MoveEdge, MoveNodes, requests
  <1>2. Drags /\ ~Pending /\ ~nudging /\ ~loading
    BY DEF MoveEdge, MoveNodes, UndoInv, Turning, Drags
  <1>3. ~Pending' /\ ~nudging' /\ ~loading' /\ Bounded'
    BY <1>1, <1>2 DEF Pending, UndoInv, Bounded
  <1>4. CASE MoveEdge
    <2>1. edgeDrag # None /\ dragging = None /\ dragging' = None
      BY <1>4 DEF MoveEdge, UndoInv, Turning
    <2>2. /\ edgeDrag' = [edgeDrag EXCEPT !.moved = TRUE]
          /\ edgeDrag \in [edge: Id, moved: BOOLEAN, snapshot: Content]
      BY <1>4, <2>1 DEF MoveEdge, TypeOK
    <2>3. /\ edgeDrag'.moved /\ edgeDrag'.snapshot = edgeDrag.snapshot
          /\ edgeDrag' \in [edge: Id, moved: BOOLEAN, snapshot: Content]
      BY <2>2
    <2>4. edgeDrag' # None
      BY <2>3, NullAssumption
    <2>5. Shown = edgeDrag.snapshot
      BY <2>1 DEF Shown, Dragged, UndoInv, Snapshots
    <2>6. Shown' = edgeDrag.snapshot
      BY <2>1, <2>3, <2>4 DEF Shown, Dragged
    <2>7. Walks
      BY <1>1, <2>5, <2>6, StillWalks
    <2>8. Turning' /\ Snapshots'
      BY <1>3, <2>1, <2>3 DEF Turning, Snapshots
    <2> QED
      BY <1>3, <2>7, <2>8 DEF Faithful, UndoInv
  <1>5. CASE MoveNodes
    <2>1. dragging # None /\ edgeDrag = None /\ edgeDrag' = None
      BY <1>5 DEF MoveNodes
    <2>2. /\ dragging' = [dragging EXCEPT !.moved = TRUE]
          /\ dragging \in [ids: SUBSET Id, moved: BOOLEAN, snapshot: Content]
      BY <1>5, <2>1 DEF MoveNodes, TypeOK
    <2>3. /\ dragging'.moved /\ dragging'.snapshot = dragging.snapshot
          /\ dragging' \in [ids: SUBSET Id, moved: BOOLEAN, snapshot: Content]
      BY <2>2
    <2>4. dragging' # None
      BY <2>3, NullAssumption
    <2>5. Shown = dragging.snapshot
      BY <2>1 DEF Shown, Dragged, UndoInv, Snapshots
    <2>6. Shown' = dragging.snapshot
      BY <2>1, <2>3, <2>4 DEF Shown, Dragged
    <2>7. Walks
      BY <1>1, <2>5, <2>6, StillWalks
    <2>8. Turning' /\ Snapshots'
      BY <1>3, <2>1, <2>3 DEF Turning, Snapshots
    <2> QED
      BY <1>3, <2>7, <2>8 DEF Faithful, UndoInv
  <1> QED
    BY <1>4, <1>5

\* The button goes up: a drag that moved something is pushed.
LEMMA UpFaithful ==
    ASSUME TypeOK, TypeOK', UndoInv, Up
    PROVE  Faithful
  <1>1. CASE ReleasePan \/ ReleaseEmpty \/ \E box \in SUBSET content.nodes : ReleaseLasso(box)
    <2>1. UNCHANGED <<document, nudging, edgeDrag, dragging, editing, requests>>
      BY <1>1 DEF ReleasePan, ReleaseEmpty, ReleaseLasso
    <2>2. pendingEdge' \in {pendingEdge, None}
      BY <1>1 DEF ReleasePan, ReleaseEmpty, ReleaseLasso
    <2>3. UNCHANGED <<loading, container>>
      BY <2>1 DEF requests
    <2> QED
      BY <2>1, <2>2, <2>3, StillFaithful DEF Pending
  <1>2. ASSUME NEW n, NEW port, ReleaseOn(n, port) PROVE Faithful
    <2>1. ~Drags /\ ~nudging /\ ~loading
      BY <1>2 DEF ReleaseOn, UndoInv, Turning, Pending
    <2>2. UNCHANGED <<edgeDrag, dragging, nudging, loading>>
      BY <1>2 DEF ReleaseOn, requests
    <2> QED
      BY <1>2, <2>1, <2>2, JoinsFaithful DEF ReleaseOn
  \* The drag ends: what undo takes for shown is pushed, or still shown.
  <1>3. ASSUME Drags, ~Drags', UNCHANGED <<content, nudging, pendingEdge, editing, requests>>,
               \/ Pushed(Shown)
               \/ UNCHANGED <<past, future>> /\ Shown = content
        PROVE  Faithful
    <2>1. ~Pending /\ ~nudging /\ ~loading
      BY <1>3 DEF UndoInv, Turning
    <2>2. ~Pending' /\ ~nudging' /\ ~loading'
      BY <1>3, <2>1 DEF Pending, requests
    <2>3. Shown' = content
      BY <1>3 DEF Shown, Dragged, Drags
    <2>4. Turning' /\ Snapshots'
      BY <1>3, <2>2 DEF Turning, Snapshots, Drags
    <2>5. Walks /\ Bounded'
      <3>1. CASE Pushed(Shown)
        BY <2>1, <3>1, PushWalks DEF UndoInv
      <3>2. CASE UNCHANGED <<past, future>> /\ Shown = content
        BY <1>3, <2>3, <3>2, StillWalks DEF UndoInv, Bounded
      <3> QED
        BY <1>3, <3>1, <3>2
    <2> QED
      BY <2>4, <2>5 DEF Faithful, UndoInv
  <1>4. CASE ReleaseEdge
    <2>1. edgeDrag # None /\ dragging = None /\ edgeDrag' = None /\ dragging' = None
      BY <1>4 DEF ReleaseEdge, UndoInv, Turning
    <2>2. Shown = IF edgeDrag.moved THEN edgeDrag.snapshot ELSE content
      BY <2>1 DEF Shown, Dragged
    <2>3. \/ Pushed(Shown)
          \/ UNCHANGED <<past, future>> /\ Shown = content
      BY <1>4, <2>2 DEF ReleaseEdge
    <2> QED
      BY <1>3, <1>4, <2>1, <2>3 DEF ReleaseEdge, Drags
  <1>5. CASE ReleaseNodes
    <2>1. dragging # None /\ edgeDrag = None /\ edgeDrag' = None /\ dragging' = None
      BY <1>5 DEF ReleaseNodes
    <2>2. Shown = IF dragging.moved THEN dragging.snapshot ELSE content
      BY <2>1 DEF Shown, Dragged
    <2>3. \/ Pushed(Shown)
          \/ UNCHANGED <<past, future>> /\ Shown = content
      BY <1>5, <2>2 DEF ReleaseNodes
    <2> QED
      BY <1>3, <1>5, <2>1, <2>3 DEF ReleaseNodes, Drags
  <1> QED
    BY <1>1, <1>2, <1>4, <1>5 DEF Up

\* The inline editor: it is open only when nothing is being dragged.
LEMMA EditorFaithful ==
    ASSUME TypeOK, TypeOK', UndoInv, CommitEdit \/ CancelEdit
    PROVE  Faithful
  <1>1. ~Drags /\ ~nudging /\ ~loading
    BY DEF CommitEdit, CancelEdit, UndoInv, Turning, Pending
  <1>2. UNCHANGED <<edgeDrag, dragging, nudging, loading>>
    BY DEF CommitEdit, CancelEdit, mouse, requests
  <1>3. CASE UNCHANGED document
    BY <1>1, <1>2, <1>3, StillFaithful
  <1>4. CASE Pushed(content)
    BY <1>1, <1>2, <1>4, ChangeFaithful DEF Drags
  <1> QED
    BY <1>3, <1>4 DEF CommitEdit, CancelEdit, Changed

\* The context menu.
LEMMA MenuFaithful ==
    ASSUME Haste = {}, TypeOK, TypeOK', UndoInv, Menu
    PROVE  Faithful
  <1>1. ASSUME NEW kind, NEW n, Opens(kind, n) PROVE Faithful
    <2>1. UNCHANGED <<document, nudging, mouse, editing, requests>>
      BY <1>1 DEF Opens
    <2>2. UNCHANGED <<edgeDrag, dragging, pendingEdge, loading, container>>
      BY <2>1 DEF mouse, requests
    <2> QED
      BY <2>1, <2>2, StillFaithful DEF Pending
  <1>2. ASSUME NEW kinds, Choice(kinds) PROVE ~Drags /\ container = None /\ ~loading /\ ~nudging
    BY <1>2, WaitsForAll
  <1>3. ASSUME NEW kinds, Choice(kinds), UNCHANGED <<document, nudging, edgeDrag, loading>>,
               dragging' \in {dragging, None}
        PROVE  Faithful
    <2>1. dragging' = dragging
      BY <1>2, <1>3 DEF Drags
    <2> QED
      BY <1>2, <1>3, <2>1, StillFaithful
  <1>4. ASSUME NEW kinds, Choice(kinds), Pushed(content), UNCHANGED <<nudging, mouse, requests>>
        PROVE  Faithful
    <2>1. UNCHANGED <<edgeDrag, dragging, loading>>
      BY <1>4 DEF mouse, requests
    <2> QED
      BY <1>2, <1>4, <2>1, ChangeFaithful DEF Drags
  <1>5. CASE EditLabel
    BY <1>3, <1>5 DEF EditLabel, Edits, mouse, requests
  <1>6. CASE AskContainer \/ AskInside
    BY <1>3, <1>6 DEF AskContainer, AskInside, mouse
  <1>7. CASE ChangeNode \/ ResetCurvature \/ Colour \/ Align \/ Distribute
    BY <1>4, <1>7 DEF ChangeNode, ResetCurvature, Colour, Align, Distribute, Restyles, Changed
  <1>8. CASE AddNode
    <2>1. Choice({"empty", "create"}) /\ UNCHANGED <<nudging, mouse, requests>>
      BY <1>8 DEF AddNode
    <2>2. CASE Pushed(content)
      BY <1>4, <2>1, <2>2
    <2>3. CASE /\ NewIds(2) /\ future' = <<>>
               /\ past' = Kept(Append(Kept(Append(past, content)), WithNode(content, made + 1)))
      <3>1. PICK x \in Content : x = WithNode(content, made + 1)
        BY <2>3, NewIdsType, WithNodeType DEF TypeOK
      <3>2. UNCHANGED <<edgeDrag, dragging, loading>> /\ ~Drags /\ ~loading /\ ~nudging /\ ~nudging'
        BY <1>2, <2>1 DEF mouse, requests
      <3>3. Shown = content
        BY <3>2 DEF Shown, Dragged, Drags
      <3>4. Walks /\ Bounded'
        BY <2>3, <3>1, <3>2, <3>3, PushTwiceWalks DEF UndoInv
      <3>5. Turning' /\ Snapshots'
        BY <3>2 DEF Turning, Snapshots, Drags
      <3> QED
        BY <3>4, <3>5 DEF Faithful, UndoInv
    <2> QED
      BY <1>8, <2>2, <2>3 DEF AddNode, Changed
  <1> QED
    BY <1>1, <1>5, <1>6, <1>7, <1>8 DEF Menu, NodeMenu, EdgeMenu, EmptyMenu

\* Answers of the service, another diagram, and the end of a burst.
LEMMA AnswerFaithful ==
    ASSUME Haste = {}, TypeOK, TypeOK', UndoInv, Leave \/ Answer \/ NudgeTimeout
    PROVE  Faithful
  <1>1. CASE ContainerMade \/ InsideMade \/ ContainerShown \/ ContainerFails
    <2>1. ~Drags /\ ~nudging /\ ~loading
      BY <1>1 DEF ContainerMade, InsideMade, ContainerShown, ContainerFails, UndoInv, Turning, Pending
    <2>2. UNCHANGED <<edgeDrag, dragging, nudging, loading>>
      BY <1>1 DEF ContainerMade, InsideMade, ContainerShown, ContainerFails, mouse
    <2>3. CASE UNCHANGED document
      BY <2>1, <2>2, <2>3, StillFaithful
    <2>4. CASE Pushed(content)
      BY <2>1, <2>2, <2>4, ChangeFaithful DEF Drags
    <2>5. CASE Joins(container.source, container.port, container.node, NoPort)
      BY <2>1, <2>2, <2>5, JoinsFaithful
    <2> QED
      BY <1>1, <2>3, <2>4, <2>5
         DEF ContainerMade, InsideMade, ContainerShown, ContainerFails, Changed
  <1>2. CASE Leave
    <2>1. /\ dragging' = None /\ edgeDrag' = None /\ ~nudging' /\ UNCHANGED nudging
          /\ pendingEdge' = None /\ editing' = None /\ container' = None
          /\ past' = <<>> /\ future' = <<>>
      BY <1>2, WaitsForAll DEF Leave, Idle
    <2>2. Walks /\ Bounded'
      BY <2>1, OpenWalks
    <2>3. Turning' /\ Snapshots'
      BY <2>1 DEF Turning, Snapshots, Drags, Pending
    <2> QED
      BY <2>2, <2>3 DEF Faithful, UndoInv
  <1>3. CASE Arrive
    <2>1. /\ ~Drags /\ ~nudging /\ past = <<>> /\ future = <<>>
          /\ UNCHANGED <<past, future, nudging, edgeDrag, dragging>> /\ ~loading'
      BY <1>3 DEF Arrive, UndoInv, Turning, mouse
    <2>2. Walks /\ Bounded'
      BY <2>1, OpenWalks
    <2>3. Turning' /\ Snapshots'
      BY <2>1 DEF Turning, Snapshots, Drags
    <2> QED
      BY <2>2, <2>3 DEF Faithful, UndoInv
  <1>4. CASE NudgeTimeout
    <2>1. /\ UNCHANGED <<content, past, future, edgeDrag, dragging, pendingEdge, editing,
                         container, loading>>
          /\ nudging /\ ~nudging'
      BY <1>4 DEF NudgeTimeout, document, mouse, requests
    <2>2. Shown' = Shown
      BY <2>1 DEF Shown, Dragged
    <2>3. History!BurstEnds
      BY <2>1, <2>2 DEF History!BurstEnds
    <2>4. Turning'
      BY <2>1 DEF UndoInv, Turning, Drags, Pending
    <2>5. Snapshots' /\ Bounded'
      BY <2>1 DEF UndoInv, Snapshots, Bounded
    <2> QED
      BY <2>3, <2>4, <2>5 DEF Faithful, UndoInv, Walks, History!Next
  <1> QED
    BY <1>1, <1>2, <1>3, <1>4 DEF Answer

\* A diagram is opened with nothing to undo.
LEMMA FaithfulInitially == Init => UndoInv /\ History!Init
  <1> SUFFICES ASSUME Init PROVE UndoInv /\ History!Init
    OBVIOUS
  <1>1. PICK e \in Seq(Content) : e = <<>>
    BY EmptySeq, Zenon
  <1>2. Len(e) = 0 /\ past = e /\ future = e
    BY <1>1 DEF Init
  <1>3. Shown \in Content
    BY TypeInitially, ShownType
  <1>4. Line(past, Shown, future) = Append(e, Shown)
    BY <1>1, <1>2, <1>3, LineEnds
  <1>5. Len(Append(e, Shown)) = 1
    BY <1>2, <1>3
  <1>6. Len(past \o <<Shown>> \o Reverse(future)) = 1
    BY <1>4, <1>5 DEF Line
  <1>7. History!Init
    BY <1>2, <1>6 DEF History!Init, Init
  <1>8. UndoInv
    BY <1>2, LimitAssumption DEF UndoInv, Turning, Snapshots, Bounded, Drags, Pending, Init
  <1> QED
    BY <1>7, <1>8

\* Every step of a user who waits is one of UndoHistory, or none.
LEMMA FaithfulStep ==
    Haste = {} /\ TypeOK /\ UndoInv /\ [Next]_vars => Faithful
  <1> SUFFICES ASSUME Haste = {}, TypeOK, UndoInv, [Next]_vars PROVE Faithful
    OBVIOUS
  <1>1. TypeOK'
    BY TypeStep
  <1>2. CASE Down
    BY <1>1, <1>2, DownFaithful
  <1>3. CASE CommitEdit \/ CancelEdit
    BY <1>1, <1>3, EditorFaithful
  <1>4. CASE Keyboard
    BY <1>1, <1>4, CommandsFaithful
  <1>5. CASE MoveEdge \/ MoveNodes
    BY <1>5, MoveFaithful
  <1>6. CASE Up
    BY <1>1, <1>6, UpFaithful
  <1>7. CASE Menu
    BY <1>1, <1>7, MenuFaithful
  <1>8. CASE Leave \/ Answer \/ NudgeTimeout
    BY <1>1, <1>8, AnswerFaithful
  <1>9. CASE UNCHANGED vars
    <2>1. UNCHANGED <<content, past, future, nudging, edgeDrag, dragging, pendingEdge, editing,
                      container, loading>>
      BY <1>9 DEF vars
    <2> QED
      BY <2>1, StillFaithful DEF document, Pending
  <1> QED
    BY <1>2, <1>3, <1>4, <1>5, <1>6, <1>7, <1>8, <1>9 DEF Next

\* For a user who waits, undo and redo walk along the contents the diagram has
\* had, whatever gestures made them, and forget only the oldest (pushHistory,
\* undo, redo; the drags that push their snapshot on mouseup, the nudges that
\* are one step): the canvas implements UndoHistory.
THEOREM UndoIsRespected ==
    ASSUME Haste = {}
    PROVE  Spec => UndoIsFaithful
  <1>1. Init => TypeOK /\ UndoInv /\ History!Init
    BY TypeInitially, FaithfulInitially
  <1>2. TypeOK /\ UndoInv /\ [Next]_vars => (TypeOK /\ UndoInv)' /\ [History!Next]_(History!vars)
    BY TypeStep, FaithfulStep DEF Faithful, Walks
  <1> QED
    BY <1>1, <1>2, PTL DEF Spec, UndoIsFaithful, History!Spec
=============================================================================
