---------------------------- MODULE LayoutLevels ----------------------------
(***************************************************************************)
(* The column assignment of AutoLayout (internal/diagrams/layout.go) and   *)
(* of "Tidy up" (app.js:2838-2857), loop by loop: the roots are seeded at  *)
(* column 0, each edge pushes its target at least one column right of its  *)
(* source, nodes the pushing never reaches fall back to column 0.  The     *)
(* order in which nodes and edges are listed in the diagram is left open.  *)
(***************************************************************************)
EXTENDS DiagramModel, Sequences, FiniteSets

CONSTANTS
    Drawn,      \* the diagrams that are laid out
    MaxLevel    \* bound: columns counted on a layout that never ends

ASSUME DrawnAssumption == Drawn \subseteq Canvas
ASSUME LevelAssumption == MaxLevel \in Nat

VARIABLES
    canvas,         \* the diagram, which the loops only read
    level, queue,   \* as in the code
    next, todo,     \* level[id] + 1 and the targets left, for the id popped last
    pc

vars == <<canvas, level, queue, next, todo, pc>>

Unleveled == -1

\* Mutant: an edge is taken without looking its ends up.
TargetsUnchecked(c, id) == {e[2] : e \in {f \in c.edges : f[1] = id}}

Targets(c, id) == {e[2] : e \in {f \in Attached(c) : f[1] = id}}
Queued == {queue[k] : k \in 1..Len(queue)}
Connected(c) == {n \in c.nodes : \E e \in Attached(c) : n \in {e[1], e[2]}}

Init ==
    /\ canvas \in Drawn
    /\ level = [n \in Node |-> Unleveled]
    /\ queue = <<>>
    /\ next = 0 /\ todo = {}
    /\ pc = "seed"

\* Roots: connected nodes without an incoming edge.
Seed(n) ==
    /\ pc = "seed"
    /\ n \in Roots([canvas EXCEPT !.edges = Attached(canvas)])
    /\ level[n] = Unleveled
    /\ level' = [level EXCEPT ![n] = 0]
    /\ queue' = Append(queue, n)
    /\ UNCHANGED <<canvas, next, todo, pc>>

Seeded ==
    /\ pc = "seed"
    /\ \A n \in Roots([canvas EXCEPT !.edges = Attached(canvas)]) : level[n] # Unleveled
    /\ pc' = "loop"
    /\ UNCHANGED <<canvas, level, queue, next, todo>>

\* Mutant: the id that was popped stays in the queue.
PopNothing ==
    /\ pc = "loop" /\ todo = {} /\ queue # <<>>
    /\ next' = level[Head(queue)] + 1
    /\ todo' = Targets(canvas, Head(queue))
    /\ UNCHANGED <<canvas, level, queue, pc>>

\* for len(queue) > 0
Pop ==
    /\ pc = "loop" /\ todo = {} /\ queue # <<>>
    /\ next' = level[Head(queue)] + 1
    /\ todo' = Targets(canvas, Head(queue))
    /\ queue' = Tail(queue)
    /\ UNCHANGED <<canvas, level, pc>>

\* Mutant: a target that is already in a column is not queued again.
PushOnce(tgt) ==
    /\ pc = "loop" /\ tgt \in todo /\ next <= MaxLevel
    /\ todo' = todo \ {tgt}
    /\ level' = IF level[tgt] < next THEN [level EXCEPT ![tgt] = next] ELSE level
    /\ queue' = IF level[tgt] = Unleveled THEN Append(queue, tgt) ELSE queue
    /\ UNCHANGED <<canvas, next, pc>>

\* Mutant: the first column a node gets is final.
PushFirst(tgt) ==
    /\ pc = "loop" /\ tgt \in todo /\ next <= MaxLevel
    /\ todo' = todo \ {tgt}
    /\ \/ /\ level[tgt] = Unleveled
          /\ level' = [level EXCEPT ![tgt] = next]
          /\ queue' = Append(queue, tgt)
       \/ level[tgt] # Unleveled /\ UNCHANGED <<level, queue>>
    /\ UNCHANGED <<canvas, next, pc>>

\* for _, tgt := range outAdj[id]; "not ok" counts as smaller than any column.
Push(tgt) ==
    /\ pc = "loop" /\ tgt \in todo /\ next <= MaxLevel
    /\ todo' = todo \ {tgt}
    /\ \/ /\ level[tgt] < next
          /\ level' = [level EXCEPT ![tgt] = next]
          /\ queue' = Append(queue, tgt)
       \/ level[tgt] >= next /\ UNCHANGED <<level, queue>>
    /\ UNCHANGED <<canvas, next, pc>>

\* The queue is empty; connected nodes without a column fall back to column 0.
Fallback ==
    /\ pc = "loop" /\ todo = {} /\ queue = <<>>
    /\ level' = [n \in Node |-> IF n \in Connected(canvas) /\ level[n] = Unleveled
                                  THEN 0 ELSE level[n]]
    /\ pc' = "done"
    /\ UNCHANGED <<canvas, queue, next, todo>>

Next == \/ \E n \in Node : Seed(n) \/ Push(n)
        \/ Seeded \/ Pop \/ Fallback

Spec == Init /\ [][Next]_vars
FairSpec == Spec /\ WF_vars(Next)

-----------------------------------------------------------------------------
(* Properties *)

Wired == [canvas EXCEPT !.edges = Attached(canvas)]

\* Every variable has its type.
TypeOK ==
    /\ canvas \in Canvas
    /\ level \in [Node -> Nat \cup {Unleveled}]
    /\ queue \in Seq(Node)
    /\ next \in Nat /\ todo \in SUBSET canvas.nodes
    /\ pc \in {"seed", "loop", "done"}

\* When the columns are assigned, every edge out of a node that hangs on a root
\* goes at least one column to the right (layout.go:119-121).
EdgesPointRight ==
    pc = "done" =>
        \A e \in Attached(canvas) : e[1] \in Reached(Wired) => level[e[2]] >= level[e[1]] + 1

Walk(n, k) ==
    \E p \in [0..k -> canvas.nodes] :
        /\ p[0] \in Roots(Wired) /\ p[k] = n
        /\ \A j \in 1..k : <<p[j - 1], p[j]>> \in canvas.edges

\* A node's column is the length of the longest path to it from a root
\* (app.js:2810, layout.go:119): there is a walk of that length and none that is
\* longer.  The range holds every path: without a node visited twice, it has fewer
\* edges than there are nodes.  (With one, it goes around a cycle: CycleNeverEnds.)
ColumnIsLongestPath ==
    pc = "done" => \A n \in Reached(Wired) :
        /\ Walk(n, level[n])
        /\ \A k \in (level[n] + 1)..(Cardinality(canvas.nodes) - 1) : ~Walk(n, k)

\* On a cycle that hangs on a root the loop never ends: the service's verdict
\* "diverges" (DiagramModel) is what the code does.
CycleNeverEnds == LayoutDiverges(Wired) => pc # "done"

\* On every other diagram it ends.
LayoutEnds == ~LayoutDiverges(Wired) ~> pc = "done"
=============================================================================
