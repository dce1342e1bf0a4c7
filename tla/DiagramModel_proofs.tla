------------------------- MODULE DiagramModel_proofs -------------------------
(* Lemmas about the operators of DiagramModel. *)
EXTENDS DiagramModel, TLAPS

\* Every call has an operation and an id, and the arguments of that operation.
LEMMA CallFields ==
    ASSUME NEW c \in Call
    PROVE  /\ c.op \in {"Get", "AutoLayout", "Delete", "Create", "Update",
                        "Rename", "SetComponent", "SetEdgeStyle"}
           /\ c.id \in Id
           /\ c.op \in {"Create", "Update", "Rename"} => c.name \in NameArgument
           /\ c.op \in {"Create", "SetComponent"} => c.component \in BOOLEAN
           /\ c.op = "Update" => c.canvas \in Canvas /\ c.ifMatch \in Tag
           /\ c.op = "SetEdgeStyle" => c.style \in Style
  BY DEF Call, CallsOver

\* The calls over some canvases and tags are calls.
LEMMA CallsOverMonotone ==
    ASSUME NEW canvases, canvases \subseteq Canvas, NEW tags, tags \subseteq Tag
    PROVE  CallsOver(canvases, tags) \subseteq Call
  BY DEF Call, CallsOver

\* Healing a diagram keeps it a diagram, drops only dangling edges, and healing
\* it again changes nothing.
LEMMA PruneHeals ==
    ASSUME NEW d \in Diagram
    PROVE  /\ Prune(d) \in Diagram
           /\ Prune(d).updated = d.updated
           /\ Prune(d).created = d.created
           /\ Prune(d).component = d.component
           /\ Dangling(Prune(d).canvas) = {}
           /\ Prune(Prune(d)) = Prune(d)
  <1>1. Attached(d.canvas) \subseteq d.canvas.edges
    BY DEF Attached
  <1>2. Prune(d) \in Diagram
    BY <1>1 DEF Prune, Diagram, Canvas
  <1>3. /\ Prune(d).canvas.nodes = d.canvas.nodes
        /\ Prune(d).canvas.edges = Attached(d.canvas)
    BY DEF Prune, Diagram, Canvas
  <1>4. Attached(Prune(d).canvas) = Attached(d.canvas)
    BY <1>3 DEF Attached
  <1>5. Prune(Prune(d)) = Prune(d)
    BY <1>3, <1>4 DEF Prune, Diagram, Canvas
  <1>6. Dangling(Prune(d).canvas) = {}
    BY <1>3, <1>4 DEF Dangling
  <1> QED
    BY <1>2, <1>5, <1>6 DEF Prune, Diagram

\* What a call works on is missing exactly when the file is.
LEMMA FetchedType ==
    ASSUME NEW c, NEW d \in Diagram \cup {NoDiagram}
    PROVE  /\ Fetched(c, d) \in Diagram \cup {NoDiagram}
           /\ Fetched(c, d) = NoDiagram <=> d = NoDiagram
           /\ d # NoDiagram => /\ Fetched(c, d) \in Diagram
                               /\ Fetched(c, d).updated = d.updated
                               /\ Fetched(c, d).created = d.created
                               /\ Fetched(c, d).component = d.component
                               /\ Prune(Fetched(c, d)) = Prune(d)
  BY PruneHeals, NoDiagramAssumption DEF Fetched

\* The verdict is one of the statuses of a reply, or one of two ways to go on.
LEMMA VerdictType ==
    ASSUME NEW c, NEW d
    PROVE  Verdict(c, d) \in {"invalid", "save", "notFound", "conflict", "ok", "diverges"}
  BY DEF Verdict

\* A call that may save leaves a well-formed diagram, stamped with the time, and
\* changes the creation time of none and the library role of few.
LEMMA WrittenType ==
    ASSUME NEW c \in Call, NEW d \in Diagram \cup {NoDiagram}, NEW now \in Nat,
           Verdict(c, d) = "save", c.op # "Get"
    PROVE  /\ Written(c, d, now) \in Diagram \cup {NoDiagram}
           /\ c.op = "Delete" => Written(c, d, now) = NoDiagram
           /\ c.op # "Delete" => /\ Written(c, d, now) \in Diagram
                                 /\ Written(c, d, now).updated = now
           /\ c.op \notin {"Create", "Delete"} =>
                /\ d \in Diagram
                /\ Written(c, d, now).created = d.created
                /\ c.op # "SetComponent" => Written(c, d, now).component = d.component
  <1> USE CallFields
  <1>1. CASE c.op = "Create"
    <2>1. c.name \in Name
      BY <1>1 DEF Verdict, BadName, NameArgument
    <2>2. EmptyCanvas \in Canvas
      BY DEF EmptyCanvas, Canvas, Style, KnownStyle
    <2> QED
      BY <1>1, <2>1, <2>2 DEF Written, Created, Diagram
  <1>2. CASE c.op = "Delete"
    BY <1>2 DEF Written
  <1>3. CASE c.op \notin {"Create", "Delete"}
    <2>1. d \in Diagram
      BY <1>3 DEF Verdict
    <2>2. CASE c.op = "Update"
      <3>1. c.name \in Name \/ c.name = Blank
        BY <2>2 DEF Verdict, NameArgument
      <3> QED
        BY <2>1, <2>2, <3>1 DEF Written, Updated, Diagram
    <2>3. CASE c.op = "Rename"
      <3>1. c.name \in Name
        BY <2>3 DEF Verdict, BadName, NameArgument
      <3> QED
        BY <2>1, <2>3, <3>1 DEF Written, Diagram
    <2>4. CASE c.op = "SetComponent"
      BY <2>1, <2>4 DEF Written, Diagram
    <2>5. CASE c.op = "SetEdgeStyle"
      <3>1. Normal(c.style) \in Style
        BY <2>5 DEF Normal, Style, KnownStyle
      <3> QED
        BY <2>1, <2>5, <3>1 DEF Written, Diagram, Canvas
    <2>6. CASE c.op = "AutoLayout"
      BY <2>1, <2>6 DEF Written, Diagram, Canvas
    <2> QED
      BY <1>3, <2>2, <2>3, <2>4, <2>5, <2>6
  <1> QED
    BY <1>1, <1>2, <1>3

\* No call leaves a dangling edge that the diagram it read did not have.
LEMMA WrittenEdges ==
    ASSUME NEW c \in Call, NEW d \in Diagram \cup {NoDiagram}, NEW now \in Nat,
           Verdict(c, d) = "save", c.op \notin {"Get", "Delete"}
    PROVE  Dangling(Written(c, d, now).canvas) \subseteq
               IF c.op = "Create" THEN {} ELSE Dangling(d.canvas)
  <1> USE CallFields
  <1>1. CASE c.op = "Create"
    BY <1>1 DEF Written, Created, EmptyCanvas, Dangling
  <1>2. CASE c.op # "Create"
    <2>1. d \in Diagram
      BY <1>2 DEF Verdict
    <2>2. CASE c.op = "Update"
      <3>1. Dangling(c.canvas) = {}
        BY <2>2 DEF Verdict, Valid
      <3>2. Written(c, d, now).canvas = c.canvas
        BY <2>1, <2>2 DEF Written, Updated, Diagram
      <3> QED
        BY <3>1, <3>2
    <2>3. CASE c.op \in {"Rename", "SetComponent"}
      <3>1. Written(c, d, now).canvas = d.canvas
        BY <2>1, <2>3 DEF Written, Diagram
      <3> QED
        BY <1>2, <3>1
    <2>4. CASE c.op \in {"SetEdgeStyle", "AutoLayout"}
      <3>1. /\ Written(c, d, now).canvas.nodes = d.canvas.nodes
            /\ Written(c, d, now).canvas.edges = d.canvas.edges
        BY <2>1, <2>4 DEF Written, Diagram, Canvas
      <3> QED
        BY <1>2, <3>1 DEF Dangling, Attached
    <2> QED
      BY <1>2, <2>2, <2>3, <2>4
  <1> QED
    BY <1>1, <1>2

\* Reading never shows a dangling edge that is not in the file.
LEMMA FetchedEdges ==
    ASSUME NEW c, NEW d \in Diagram
    PROVE  Dangling(Fetched(c, d).canvas) \subseteq Dangling(d.canvas)
  BY PruneHeals, NoDiagramAssumption DEF Fetched
=============================================================================
