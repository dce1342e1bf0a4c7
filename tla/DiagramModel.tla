---------------------------- MODULE DiagramModel ----------------------------
(***************************************************************************)
(* The diagram domain: what a diagram is, and what each call of the        *)
(* diagrams.Service interface decides and writes when it is looked at in   *)
(* isolation (internal/diagrams/service.go, model.go).  The module has no  *)
(* state: AtomicDiagrams runs these calls in one step, DiagramService runs *)
(* them as the code does, in several.                                      *)
(*                                                                         *)
(* Data that no property tells apart is abstracted: a node is a member of  *)
(* Node, an edge a pair of nodes, positions are "tidy" (computed columns)  *)
(* or not, and every length limit is the one flag "fits".                  *)
(***************************************************************************)
EXTENDS Integers

CONSTANTS
    Id,         \* diagram ids (uuids)
    Node,       \* node ids
    Name,       \* usable diagram names
    Blank,      \* a name that TrimSpace leaves empty
    TooLong,    \* a name longer than MaxNameLen
    NoDiagram   \* stands for "no such file"

NoTag == -1     \* the empty If-Match header
Tag   == Nat \cup {NoTag}
Edge  == Node \X Node
KnownStyle == {"", "organic", "synthetic"}
Style == KnownStyle \cup {"unknown"}     \* a PUT stores any string
NameArgument == Name \cup {Blank, TooLong}

\* The part of a diagram that a PUT replaces as a whole.
\* links: which nodes are containers, and of which subdiagram.
Canvas == [nodes: SUBSET Node, edges: SUBSET Edge, links: SUBSET (Node \X Id),
           style: Style, tidy: BOOLEAN, fits: BOOLEAN]

Diagram == [name: Name, canvas: Canvas, component: BOOLEAN,
            created: Nat, updated: Nat]

ASSUME IdAssumption == Id # {}
ASSUME NoDiagramAssumption == NoDiagram \notin Diagram
ASSUME NameAssumption == {Blank, TooLong} \cap Name = {}

EmptyCanvas == [nodes |-> {}, edges |-> {}, links |-> {}, style |-> "",
                tidy |-> FALSE, fits |-> TRUE]

-----------------------------------------------------------------------------
(* Edges *)

Attached(c) == {e \in c.edges : e[1] \in c.nodes /\ e[2] \in c.nodes}
Dangling(c) == c.edges \ Attached(c)

Prune(d) == [d EXCEPT !.canvas.edges = Attached(d.canvas)]

\* Mutant: only the source of an edge is looked up.
ValidSourceOnly(c) == c.fits /\ \A e \in c.edges : e[1] \in c.nodes

Valid(c) == c.fits /\ Dangling(c) = {}

(* AutoLayout pushes each edge's target one column right of its source,    *)
(* starting from the nodes with no incoming edge, until nothing moves.     *)
(* On a cycle reachable from such a root something always moves.           *)
Roots(c) == {n \in c.nodes : /\ \E e \in c.edges : e[1] = n
                             /\ \A e \in c.edges : e[2] # n}

Reached(c) ==
    {n \in c.nodes :
        \A S \in SUBSET c.nodes :
            (Roots(c) \subseteq S /\ \A e \in c.edges : e[1] \in S => e[2] \in S)
                => n \in S}

LayoutDiverges(c) ==
    \E S \in SUBSET Reached(c) :
        S # {} /\ \A n \in S : \E m \in S : <<m, n>> \in c.edges

-----------------------------------------------------------------------------
(* Calls of the Service interface.  A Create carries the uuid it will draw. *)

CallsOver(canvases, tags) ==
         [op: {"Get", "AutoLayout", "Delete"}, id: Id]
    \cup [op: {"Create"}, id: Id, name: NameArgument, component: BOOLEAN]
    \cup [op: {"Update"}, id: Id, name: NameArgument, canvas: canvases,
          ifMatch: tags]
    \cup [op: {"Rename"}, id: Id, name: NameArgument]
    \cup [op: {"SetComponent"}, id: Id, component: BOOLEAN]
    \cup [op: {"SetEdgeStyle"}, id: Id, style: Style]

Call == CallsOver(Canvas, Tag)

BadStyle(c) == c.op = "SetEdgeStyle" /\ c.style \notin KnownStyle

\* Mutant: Rename does not look at the name.
BadNameCreateOnly(c) == c.op = "Create" /\ c.name \in {Blank, TooLong}

BadName(c) == c.op \in {"Create", "Rename"} /\ c.name \in {Blank, TooLong}

Normal(style) == IF style = "organic" THEN "" ELSE style

\* Mutant: If-Match is never compared.
StaleNever(c, d) == FALSE

Stale(c, d) ==
    c.op = "Update" /\ c.ifMatch # NoTag /\ c.ifMatch # d.updated

NothingToWrite(c, d) ==
    \/ c.op = "Get"
    \/ c.op = "SetComponent" /\ d.component = c.component
    \/ c.op = "SetEdgeStyle" /\ d.canvas.style = Normal(c.style)
    \/ c.op = "AutoLayout" /\ d.canvas.nodes = {}

\* What the call works on when the repository returned d: Service.Get heals it.
Fetched(c, d) ==
    IF c.op \in {"Get", "AutoLayout"} /\ d # NoDiagram THEN Prune(d) ELSE d

\* The early returns of a call in the order of the code, or "save".
Verdict(c, d) ==
    IF BadStyle(c) \/ BadName(c) THEN "invalid"
    ELSE IF c.op \in {"Create", "Delete"} THEN "save"
    ELSE IF d = NoDiagram THEN "notFound"
    ELSE IF Stale(c, d) THEN "conflict"
    ELSE IF c.op = "Update" /\ (c.name = TooLong \/ ~Valid(c.canvas))
      THEN "invalid"
    ELSE IF NothingToWrite(c, d) THEN "ok"
    ELSE IF c.op = "AutoLayout" /\ LayoutDiverges(d.canvas) THEN "diverges"
    ELSE "save"

Created(c, now) ==
    [name |-> c.name, canvas |-> EmptyCanvas, component |-> c.component,
     created |-> now, updated |-> now]

\* Mutant: Update does not carry the server-managed fields over.
UpdatedForgetful(c, d) ==
    [d EXCEPT !.name = IF c.name = Blank THEN @ ELSE c.name,
              !.canvas = c.canvas, !.component = FALSE]

Updated(c, d) ==
    [d EXCEPT !.name = IF c.name = Blank THEN @ ELSE c.name,
              !.canvas = c.canvas]

\* Mutant: SetComponent does not move UpdatedAt.
WrittenSameTag(c, d, now) ==
    CASE c.op = "Create"       -> Created(c, now)
      [] c.op = "Delete"       -> NoDiagram
      [] c.op = "Update"       -> [Updated(c, d) EXCEPT !.updated = now]
      [] c.op = "Rename"       -> [d EXCEPT !.name = c.name, !.updated = now]
      [] c.op = "SetComponent" -> [d EXCEPT !.component = c.component]
      [] c.op = "SetEdgeStyle" -> [d EXCEPT !.canvas.style = Normal(c.style),
                                            !.updated = now]
      [] c.op = "AutoLayout"   -> [d EXCEPT !.canvas.tidy = TRUE,
                                            !.updated = now]

\* The diagram a call leaves in the store, given what it fetched.
Written(c, d, now) ==
    CASE c.op = "Create"       -> Created(c, now)
      [] c.op = "Delete"       -> NoDiagram
      [] c.op = "Update"       -> [Updated(c, d) EXCEPT !.updated = now]
      [] c.op = "Rename"       -> [d EXCEPT !.name = c.name, !.updated = now]
      [] c.op = "SetComponent" -> [d EXCEPT !.component = c.component,
                                            !.updated = now]
      [] c.op = "SetEdgeStyle" -> [d EXCEPT !.canvas.style = Normal(c.style),
                                            !.updated = now]
      [] c.op = "AutoLayout"   -> [d EXCEPT !.canvas.tidy = TRUE,
                                            !.updated = now]

Reply == [status: {"ok", "notFound", "conflict", "invalid", "internal"},
          diagram: Diagram \cup {NoDiagram}]

NoReply == [status |-> "internal", diagram |-> NoDiagram]
=============================================================================
