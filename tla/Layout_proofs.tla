--------------------------- MODULE Layout_proofs ---------------------------
(***************************************************************************)
(* Proofs about the layout, for every diagram, of any size, and for boxes  *)
(* and labels of any measures.  When the column loops end, every edge that *)
(* hangs on a root points right; hence on a cycle that hangs on a root     *)
(* they never end.  Each column is the length of a longest path.  In the   *)
(* finished layout nothing overlaps.                                       *)
(*                                                                         *)
(* The inductive invariant of the loops is the usual one of a worklist: a  *)
(* node that has a column and is not in the queue has pushed all its       *)
(* targets, those in "todo" excepted, which are about to be pushed.  That  *)
(* columns are no longer than paths is a second invariant, Walked.  The    *)
(* positions are then a matter of sums: a cursor that moves by at least    *)
(* the size of each box never turns back.                                  *)
(***************************************************************************)
EXTENDS LayoutPlacement, FiniteSetTheorems, WellFoundedInduction, TLAPS

In(q) == {q[k] : k \in 1..Len(q)}

Settled(m) == \A n \in Targets(canvas, m) :
                 \/ level[n] >= level[m] + 1
                 \/ n \in todo /\ next >= level[m] + 1

Worklist ==
    /\ todo \subseteq canvas.nodes
    /\ pc = "seed" => /\ todo = {}
                      /\ \A n \in Node : level[n] # Unleveled => n \in In(queue)
    /\ pc = "loop" => /\ \A n \in Roots(Wired) : level[n] # Unleveled
                      /\ \A m \in Node : level[m] # Unleveled => m \in In(queue) \/ Settled(m)

LInv == TypeOK /\ Worklist /\ EdgesPointRight

-----------------------------------------------------------------------------
\* Appending adds one element, removing the head loses at most that element.
LEMMA QueueElements ==
    ASSUME NEW q \in Seq(Node)
    PROVE  /\ In(q) \subseteq Node
           /\ \A n \in Node : In(Append(q, n)) = In(q) \cup {n}
           /\ q # <<>> => /\ Head(q) \in Node
                          /\ Tail(q) \in Seq(Node)
                          /\ In(q) \subseteq In(Tail(q)) \cup {Head(q)}
           /\ q = <<>> => In(q) = {}
  <1>1. In(q) \subseteq Node /\ (q = <<>> => In(q) = {})
    BY DEF In
  <1>2. ASSUME NEW n \in Node PROVE In(Append(q, n)) = In(q) \cup {n}
    <2>1. Len(Append(q, n)) = Len(q) + 1 /\ Append(q, n)[Len(q) + 1] = n
      OBVIOUS
    <2>2. \A k \in 1..Len(q) : Append(q, n)[k] = q[k]
      OBVIOUS
    <2>3. 1..(Len(q) + 1) = 1..Len(q) \cup {Len(q) + 1}
      OBVIOUS
    <2> QED
      BY <2>1, <2>2, <2>3 DEF In
  <1>3. ASSUME q # <<>>
        PROVE  /\ Head(q) \in Node /\ Tail(q) \in Seq(Node)
               /\ In(q) \subseteq In(Tail(q)) \cup {Head(q)}
    <2>1. Head(q) = q[1] /\ Head(q) \in Node /\ Tail(q) \in Seq(Node)
      BY <1>3
    <2>2. ASSUME NEW k \in 1..Len(q), k # 1
          PROVE  k - 1 \in 1..Len(Tail(q)) /\ Tail(q)[k - 1] = q[k]
      BY <1>3, <2>2
    <2> QED
      BY <2>1, <2>2 DEF In
  <1> QED
    BY <1>1, <1>2, <1>3

\* Targets and roots are nodes of the diagram.
LEMMA GraphTypes ==
    ASSUME canvas \in Canvas
    PROVE  /\ canvas.nodes \subseteq Node
           /\ Wired.nodes = canvas.nodes /\ Wired.edges = Attached(canvas)
           /\ Attached(canvas) \subseteq Edge
           /\ \A e \in Attached(canvas) : /\ e[1] \in canvas.nodes
                                          /\ e[2] \in Targets(canvas, e[1])
           /\ \A n : Targets(canvas, n) \subseteq canvas.nodes
           /\ Roots(Wired) \subseteq canvas.nodes
  <1>1. Wired.nodes = canvas.nodes /\ Wired.edges = Attached(canvas)
    BY DEF Wired, Canvas
  <1>2. canvas.nodes \subseteq Node /\ canvas.edges \subseteq Edge
    BY DEF Canvas
  <1> QED
    BY <1>1, <1>2 DEF Attached, Targets, Roots

\* If the roots have columns and nothing is left to push, every node that hangs
\* on a root has a column.
LEMMA ReachedIsLeveled ==
    ASSUME canvas \in Canvas, level \in [Node -> Nat \cup {Unleveled}],
           \A n \in Roots(Wired) : level[n] # Unleveled,
           \A e \in Attached(canvas) :
               level[e[1]] # Unleveled => level[e[2]] >= level[e[1]] + 1
    PROVE  \A n \in Reached(Wired) : n \in Node /\ level[n] \in Nat
  <1> DEFINE S == {n \in canvas.nodes : level[n] # Unleveled}
  <1>1. Roots(Wired) \subseteq S
    BY GraphTypes
  <1>2. ASSUME NEW e \in Wired.edges, e[1] \in S PROVE e[2] \in S
    <2>1. e[1] \in Node /\ e[2] \in canvas.nodes /\ e[2] \in Node
      BY GraphTypes
    <2>2. level[e[2]] >= level[e[1]] + 1 /\ level[e[1]] \in Nat
      BY <1>2, <2>1, GraphTypes
    <2> QED
      BY <2>1, <2>2 DEF Unleveled
  <1>3. Reached(Wired) \subseteq S
    BY <1>1, <1>2, GraphTypes DEF Reached
  <1> QED
    BY <1>3, GraphTypes

-----------------------------------------------------------------------------
\* The invariant holds when AutoLayout starts.
LEMMA InitInvariant == Init => LInv
  BY DrawnAssumption DEF Init, LInv, TypeOK, Worklist, EdgesPointRight, Unleveled

\* Every iteration of a loop keeps the invariant.
LEMMA StepInvariant == LInv /\ [Next]_vars => LInv'
  <1> SUFFICES ASSUME LInv, [Next]_vars PROVE LInv'
    OBVIOUS
  <1> USE DEF LInv
  <1>0. /\ TypeOK /\ Worklist /\ canvas \in Canvas
        /\ level \in [Node -> Nat \cup {Unleveled}] /\ queue \in Seq(Node)
        /\ next \in Nat
    BY DEF TypeOK
  <1>1. ASSUME NEW n \in Node, Seed(n) PROVE LInv'
    <2>1. TypeOK'
      BY <1>0, <1>1 DEF Seed, TypeOK, Unleveled
    <2>2. In(queue') = In(queue) \cup {n}
      BY <1>0, <1>1, QueueElements DEF Seed
    <2>3. Worklist'
      BY <1>0, <1>1, <2>2 DEF Seed, Worklist
    <2> QED
      BY <1>1, <2>1, <2>3 DEF Seed, EdgesPointRight
  <1>2. CASE Seeded
    <2>1. TypeOK'
      BY <1>0, <1>2 DEF Seeded, TypeOK
    <2>2. Worklist'
      BY <1>0, <1>2 DEF Seeded, Worklist, Wired
    <2> QED
      BY <1>2, <2>1, <2>2 DEF Seeded, EdgesPointRight
  <1>3. CASE Pop
    <2> DEFINE id == Head(queue)
    <2>1. /\ id \in Node /\ queue' \in Seq(Node)
          /\ In(queue) \subseteq In(queue') \cup {id}
      BY <1>0, <1>3, QueueElements DEF Pop
    <2>2. next' \in Nat
      BY <1>0, <1>3, <2>1 DEF Pop, Unleveled
    <2>3. todo' = Targets(canvas, id) /\ todo' \subseteq canvas.nodes /\ todo' \subseteq Node
      BY <1>0, <1>3, GraphTypes DEF Pop
    <2>4. TypeOK'
      BY <1>0, <1>3, <2>1, <2>2, <2>3 DEF Pop, TypeOK
    <2>5. ASSUME NEW m \in Node, level'[m] # Unleveled
          PROVE  m \in In(queue') \/ Settled(m)'
      <3>1. CASE m = id
        <4>1. next' = level[m] + 1
          BY <1>3, <3>1 DEF Pop
        <4>2. level[m] + 1 \in Nat
          BY <1>0, <4>1, <2>2
        <4> QED
          BY <1>3, <3>1, <2>3, <4>1, <4>2 DEF Pop, Settled
      <3>2. CASE m # id
        <4>1. m \in In(queue) \/ Settled(m)
          BY <1>3, <2>5 DEF Pop, Worklist
        <4>2. Settled(m) => Settled(m)'
          BY <1>3 DEF Pop, Settled
        <4> QED
          BY <3>2, <4>1, <4>2, <2>1
      <3> QED
        BY <3>1, <3>2
    <2>6. Worklist'
      BY <1>3, <2>3, <2>5 DEF Pop, Worklist, Wired
    <2> QED
      BY <1>3, <2>4, <2>6 DEF Pop, EdgesPointRight
  <1>4. ASSUME NEW tgt \in Node, Push(tgt) PROVE LInv'
    <2>0. level' \in [Node -> Nat \cup {Unleveled}] /\ queue' \in Seq(Node)
      <3>1. CASE level[tgt] < next
        BY <1>0, <1>4, <3>1 DEF Push
      <3>2. CASE ~(level[tgt] < next)
        BY <1>0, <1>4, <3>2 DEF Push, Unleveled
      <3> QED
        BY <3>1, <3>2
    <2>1. TypeOK'
      BY <1>0, <1>4, <2>0 DEF Push, TypeOK
    <2>2. /\ \A n \in Node : level'[n] >= level[n] /\ level[n] \in Int /\ level'[n] \in Int
          /\ level'[tgt] >= next
          /\ \A n \in Node : n # tgt => level'[n] = level[n]
      BY <1>0, <1>4 DEF Push, Unleveled
    <2>3. /\ In(queue) \subseteq In(queue')
          /\ level'[tgt] # level[tgt] => tgt \in In(queue')
      <3>1. In(Append(queue, tgt)) = In(queue) \cup {tgt}
        BY <1>0, QueueElements
      <3>2. \/ queue' = Append(queue, tgt)
            \/ queue' = queue /\ level' = level
        BY <1>4 DEF Push
      <3> QED
        BY <3>1, <3>2
    <2>4. ASSUME NEW m \in Node, level'[m] # Unleveled
          PROVE  m \in In(queue') \/ Settled(m)'
      <3>1. CASE m \in In(queue) \/ level'[m] # level[m]
        BY <2>2, <2>3, <3>1
      <3>2. CASE m \notin In(queue) /\ level'[m] = level[m]
        <4>1. Settled(m)
          BY <1>4, <2>4, <3>2 DEF Push, Worklist
        <4>2. ASSUME NEW n \in Targets(canvas, m)
              PROVE  level'[n] >= level'[m] + 1 \/ (n \in todo' /\ next' >= level'[m] + 1)
          <5>1. n \in Node
            BY <1>0, GraphTypes
          <5>2. level[n] >= level[m] + 1 \/ (n \in todo /\ next >= level[m] + 1)
            BY <4>1 DEF Settled
          <5>3. next' = next /\ (n # tgt /\ n \in todo => n \in todo')
            BY <1>4 DEF Push
          <5> QED
            BY <1>0, <5>1, <5>2, <5>3, <2>2, <3>2
        <4> QED
          BY <1>4, <4>2 DEF Push, Settled
      <3> QED
        BY <3>1, <3>2
    <2>5. \A n \in Roots(Wired) : level'[n] # Unleveled
      <3>1. \A n \in Roots(Wired) : n \in Node /\ level[n] # Unleveled
        BY <1>0, <1>4, GraphTypes DEF Push, Worklist
      <3> QED
        BY <1>0, <3>1, <2>2 DEF Unleveled
    <2>6. Worklist'
      BY <1>4, <2>4, <2>5 DEF Push, Worklist, Wired
    <2> QED
      BY <1>4, <2>1, <2>6 DEF Push, EdgesPointRight
  <1>5. CASE Fallback
    <2>1. In(queue) = {}
      BY <1>0, <1>5, QueueElements DEF Fallback
    <2>2. ASSUME NEW e \in Attached(canvas), level[e[1]] # Unleveled
          PROVE  level[e[2]] >= level[e[1]] + 1
      <3>1. e[1] \in Node /\ e[2] \in Targets(canvas, e[1])
        BY <1>0, GraphTypes
      <3>2. Settled(e[1])
        BY <1>5, <2>1, <2>2, <3>1 DEF Fallback, Worklist
      <3> QED
        BY <1>5, <3>1, <3>2 DEF Fallback, Settled
    <2>3. \A n \in Reached(Wired) : n \in Node /\ level[n] \in Nat
      <3>1. \A n \in Roots(Wired) : level[n] # Unleveled
        BY <1>5 DEF Fallback, Worklist
      <3> QED
        BY <1>0, <2>2, <3>1, ReachedIsLeveled
    <2>4. \A n \in Node : level[n] # Unleveled => level'[n] = level[n]
      BY <1>5 DEF Fallback
    <2>5. TypeOK'
      BY <1>0, <1>5 DEF Fallback, TypeOK
    <2>6. Worklist'
      BY <1>0, <1>5 DEF Fallback, Worklist
    <2>7. ASSUME NEW e \in Attached(canvas), e[1] \in Reached(Wired)
          PROVE  level'[e[2]] >= level'[e[1]] + 1
      <3>1. e[1] \in Node /\ e[2] \in Node
        BY <1>0, GraphTypes
      <3>2. level[e[1]] \in Nat /\ level[e[2]] >= level[e[1]] + 1
        BY <2>2, <2>3, <2>7 DEF Unleveled
      <3>3. level[e[1]] # Unleveled /\ level[e[2]] # Unleveled
        BY <1>0, <3>1, <3>2 DEF Unleveled
      <3> QED
        BY <2>4, <3>1, <3>2, <3>3
    <2> QED
      BY <1>5, <2>5, <2>6, <2>7 DEF Fallback, EdgesPointRight, Wired
  <1>6. CASE UNCHANGED vars
    BY <1>0, <1>6 DEF vars, TypeOK, Worklist, Settled, EdgesPointRight, Wired
  <1> QED
    BY <1>1, <1>2, <1>3, <1>4, <1>5, <1>6 DEF Next

LEMMA Invariance == Spec => []LInv
  BY InitInvariant, StepInvariant, PTL DEF Spec

-----------------------------------------------------------------------------
\* A nonempty set of naturals has a least element.
LEMMA LeastNatural ==
    ASSUME NEW T, T \subseteq Nat, T # {}
    PROVE  \E k \in T : \A j \in T : k <= j
  <1>1. PICK k \in T : \A j \in T : ~(<<j, k>> \in OpToRel(<, Nat))
    BY NatLessThanWellFounded, WFMin
  <1>2. \A j \in T : ~(j < k)
    BY <1>1 DEF OpToRel
  <1> QED
    BY <1>2

\* If every edge that hangs on a root points right, no cycle hangs on a root.
LEMMA PointingRightHasNoCycle ==
    ASSUME canvas \in Canvas, level \in [Node -> Nat \cup {Unleveled}],
           \A e \in Attached(canvas) :
               e[1] \in Reached(Wired) => level[e[2]] >= level[e[1]] + 1
    PROVE  ~LayoutDiverges(Wired)
  <1> SUFFICES ASSUME NEW S \in SUBSET Reached(Wired), S # {},
                      \A n \in S : \E m \in S : <<m, n>> \in Wired.edges
               PROVE  FALSE
    BY DEF LayoutDiverges
  <1> DEFINE T == {level[n] + 1 : n \in S}
  <1>0. \A n \in S : n \in Node /\ level[n] + 1 \in Nat /\ level[n] \in Int
    BY GraphTypes DEF Reached, Unleveled
  <1>1. T \subseteq Nat /\ T # {}
    BY <1>0
  <1>2. PICK k \in T : \A j \in T : k <= j
    BY <1>1, LeastNatural
  <1>3. PICK n \in S : level[n] + 1 = k
    OBVIOUS
  <1>4. PICK m \in S : <<m, n>> \in Attached(canvas)
    BY GraphTypes
  <1>5. level[n] >= level[m] + 1
    <2> DEFINE e == <<m, n>>
    <2>1. e \in Attached(canvas) /\ e[1] = m /\ e[2] = n /\ e[1] \in Reached(Wired)
      BY <1>4
    <2> QED
      BY <2>1
  <1>6. k <= level[m] + 1
    BY <1>2
  <1> QED
    BY <1>0, <1>3, <1>5, <1>6

\* The loops only ever hold nodes and columns (layout.go:122-150).
THEOREM LayoutTypeCorrect == Spec => []TypeOK
  BY Invariance, PTL DEF LInv

\* Whatever the diagram: when AutoLayout has assigned columns, no edge out of a
\* node that hangs on a root stays in its column or points left.
THEOREM EdgesDoPointRight == Spec => []EdgesPointRight
  BY Invariance, PTL DEF LInv

\* On a cycle that hangs on a root AutoLayout never ends, however large the
\* diagram: the case the service model calls "diverges".
THEOREM LayoutNeverEndsOnCycles == Spec => []CycleNeverEnds
  <1>1. LInv => CycleNeverEnds
    BY PointingRightHasNoCycle DEF LInv, TypeOK, EdgesPointRight, CycleNeverEnds
  <1> QED
    BY <1>1, Invariance, PTL

-----------------------------------------------------------------------------
(* Columns are longest paths                                               *)
(*                                                                         *)
(* Where a node stands there is a walk of that length from a root, for     *)
(* every node that has a column and for those about to be pushed into one. *)
(* No walk is longer, because every edge on it points right.               *)

Walked ==
    /\ \A n \in In(queue) : level[n] # Unleveled
    /\ \A n \in todo : Walk(n, next)
    /\ pc # "done" => \A n \in Node : level[n] # Unleveled => Walk(n, level[n])
    /\ pc = "done" =>
          /\ \A n \in Reached(Wired) : level[n] \in Nat /\ Walk(n, level[n])
          /\ \A n \in Connected(canvas) : /\ level[n] \in Nat
                                          /\ level[n] # 0 => Walk(n, level[n])

\* A walk goes on along an edge.
LEMMA WalkGoesOn ==
    ASSUME canvas \in Canvas, NEW k \in Nat, NEW m, Walk(m, k), NEW n \in Targets(canvas, m)
    PROVE  Walk(n, k + 1)
  <1>1. PICK p \in [0..k -> canvas.nodes] :
           /\ p[0] \in Roots(Wired) /\ p[k] = m
           /\ \A j \in 1..k : <<p[j - 1], p[j]>> \in canvas.edges
    BY DEF Walk
  <1>2. n \in canvas.nodes /\ <<m, n>> \in canvas.edges
    BY DEF Targets, Attached, Canvas, Edge
  <1>3. PICK q : q = [j \in 0..(k + 1) |-> IF j = k + 1 THEN n ELSE p[j]]
    OBVIOUS
  <1>4. q \in [0..(k + 1) -> canvas.nodes] /\ q[k + 1] = n /\ \A j \in 0..k : q[j] = p[j]
    BY <1>1, <1>2, <1>3
  <1>5. ASSUME NEW j \in 1..(k + 1) PROVE <<q[j - 1], q[j]>> \in canvas.edges
    <2>1. CASE j = k + 1
      BY <1>1, <1>2, <1>4, <2>1
    <2>2. CASE j \in 1..k
      BY <1>1, <1>4, <2>2
    <2> QED
      BY <2>1, <2>2
  <1>6. q[0] \in Roots(Wired)
    BY <1>1, <1>4
  <1> QED
    BY <1>4, <1>5, <1>6 DEF Walk

\* At a root a walk begins.
LEMMA WalkBegins ==
    ASSUME canvas \in Canvas, NEW n \in Roots(Wired)
    PROVE  Walk(n, 0)
  <1>1. PICK p : p = [j \in 0..0 |-> n]
    OBVIOUS
  <1>2. p \in [0..0 -> canvas.nodes] /\ p[0] = n
    BY <1>1, GraphTypes
  <1> QED
    BY <1>2 DEF Walk

\* Walks are along the diagram, which the loops only read.
LEMMA WalksStay ==
    ASSUME UNCHANGED canvas
    PROVE  /\ \A n, k : Walk(n, k) => Walk(n, k)'
           /\ Reached(Wired)' = Reached(Wired) /\ Connected(canvas)' = Connected(canvas)
  BY DEF Walk, Wired

\* What is left of the queue was in it.
LEMMA TailElements ==
    ASSUME NEW q \in Seq(Node), q # <<>>
    PROVE  In(Tail(q)) \subseteq In(q) /\ Head(q) \in In(q)
  <1>1. ASSUME NEW k \in 1..Len(Tail(q)) PROVE Tail(q)[k] = q[k + 1] /\ k + 1 \in 1..Len(q)
    OBVIOUS
  <1>2. Head(q) = q[1] /\ 1 \in 1..Len(q)
    OBVIOUS
  <1> QED
    BY <1>1, <1>2 DEF In

\* Every iteration keeps it.
LEMMA WalkedStep == LInv /\ Walked /\ [Next]_vars => Walked'
  <1> SUFFICES ASSUME LInv, Walked, [Next]_vars PROVE Walked'
    OBVIOUS
  <1>0. /\ canvas \in Canvas /\ level \in [Node -> Nat \cup {Unleveled}]
        /\ queue \in Seq(Node) /\ next \in Nat /\ todo \subseteq Node
        /\ Unleveled \notin Nat
    BY GraphTypes DEF LInv, TypeOK, Unleveled
  <1>a. UNCHANGED canvas
    BY DEF Next, Seed, Push, Seeded, Pop, Fallback, vars
  <1>b. /\ \A n, k : Walk(n, k) => Walk(n, k)'
        /\ Reached(Wired)' = Reached(Wired) /\ Connected(canvas)' = Connected(canvas)
    BY <1>a, WalksStay
  <1>1. ASSUME NEW n \in Node, Seed(n) PROVE Walked'
    <2>1. In(queue') = In(queue) \cup {n} /\ level' = [level EXCEPT ![n] = 0]
      BY <1>0, <1>1, QueueElements DEF Seed
    <2>2. Walk(n, 0)
      <3>1. n \in Roots(Wired)
        BY <1>1 DEF Seed, Wired
      <3> QED
        BY <1>0, <3>1, WalkBegins
    <2>3. \A m \in In(queue') : m \in Node /\ level'[m] # Unleveled
      BY <1>0, <2>1, QueueElements DEF Walked
    <2>4. pc' = "seed" /\ UNCHANGED <<next, todo>>
      BY <1>1 DEF Seed
    <2>5. ASSUME NEW m \in Node, level'[m] # Unleveled PROVE Walk(m, level[m])'
      <3>1. Walk(m, level'[m])
        BY <1>0, <1>1, <2>1, <2>2, <2>5 DEF Walked, Seed
      <3> QED
        BY <1>b, <3>1
    <2> QED
      BY <1>b, <2>3, <2>4, <2>5 DEF Walked
  <1>2. CASE Seeded
    BY <1>b, <1>2 DEF Walked, Seeded
  <1>3. CASE Pop
    <2>1. /\ Head(queue) \in Node /\ level[Head(queue)] # Unleveled
          /\ In(queue') \subseteq In(queue) /\ pc = "loop"
      BY <1>0, <1>3, QueueElements, TailElements DEF Pop, Walked
    <2>2. Walk(Head(queue), level[Head(queue)]) /\ level[Head(queue)] \in Nat
      BY <1>0, <2>1 DEF Walked
    <2>3. \A n \in todo' : Walk(n, next')
      BY <1>0, <1>3, <2>2, WalkGoesOn DEF Pop
    <2> QED
      BY <1>b, <1>3, <2>1, <2>3 DEF Walked, Pop
  <1>4. ASSUME NEW tgt \in Node, Push(tgt) PROVE Walked'
    <2>1. /\ tgt \in todo /\ UNCHANGED <<next, pc>> /\ pc = "loop" /\ todo' \subseteq todo
      BY <1>4 DEF Push
    <2>2. CASE UNCHANGED <<level, queue>>
      BY <1>b, <2>1, <2>2 DEF Walked
    <2>3. CASE level' = [level EXCEPT ![tgt] = next] /\ queue' = Append(queue, tgt)
      <3>1. In(queue') = In(queue) \cup {tgt} /\ In(queue) \subseteq Node
        BY <1>0, <2>3, QueueElements
      <3>2. \A m \in In(queue') : level'[m] # Unleveled
        BY <1>0, <2>3, <3>1 DEF Walked
      <3>3. ASSUME NEW m \in Node, level'[m] # Unleveled PROVE Walk(m, level[m])'
        <4>1. Walk(m, level'[m])
          BY <1>0, <2>1, <2>3, <3>3 DEF Walked
        <4> QED
          BY <1>b, <4>1
      <3> QED
        BY <1>b, <2>1, <3>2, <3>3 DEF Walked
    <2> QED
      BY <1>4, <2>2, <2>3 DEF Push
  <1>5. CASE Fallback
    <2>1. In(queue) = {} /\ UNCHANGED <<queue, todo, next>> /\ todo = {} /\ pc = "loop" /\ pc' = "done"
      BY <1>0, <1>5, QueueElements DEF Fallback
    <2>2. ASSUME NEW e \in Attached(canvas), level[e[1]] # Unleveled
          PROVE  level[e[2]] >= level[e[1]] + 1
      <3>1. e[1] \in Node /\ e[2] \in Targets(canvas, e[1])
        BY <1>0, GraphTypes
      <3>2. Settled(e[1])
        BY <2>1, <2>2, <3>1 DEF LInv, Worklist
      <3> QED
        BY <2>1, <3>1, <3>2 DEF Settled
    <2>3. \A n \in Reached(Wired) : n \in Node /\ level[n] \in Nat
      <3>1. \A n \in Roots(Wired) : level[n] # Unleveled
        BY <2>1 DEF LInv, Worklist
      <3> QED
        BY <1>0, <2>2, <3>1, ReachedIsLeveled
    <2>4. \A n \in Node : level'[n] = IF n \in Connected(canvas) /\ level[n] = Unleveled
                                        THEN 0 ELSE level[n]
      BY <1>5 DEF Fallback
    <2>5. ASSUME NEW n \in Reached(Wired) PROVE level'[n] \in Nat /\ Walk(n, level[n])'
      <3>1. level'[n] = level[n] /\ Walk(n, level[n]) /\ level[n] \in Nat
        BY <1>0, <2>1, <2>3, <2>4 DEF Walked
      <3>2. Walk(n, level'[n])
        BY <3>1
      <3> QED
        BY <1>b, <3>1, <3>2
    <2>6. ASSUME NEW n \in Connected(canvas)
          PROVE  level'[n] \in Nat /\ (level'[n] # 0 => Walk(n, level[n])')
      <3>1. n \in Node
        BY <1>0, GraphTypes DEF Connected
      <3>2. CASE level[n] = Unleveled
        BY <2>4, <3>1, <3>2
      <3>3. CASE level[n] # Unleveled
        <4>1. level'[n] = level[n] /\ Walk(n, level[n]) /\ level[n] \in Nat
          BY <1>0, <2>1, <2>4, <3>1, <3>3 DEF Walked
        <4>2. Walk(n, level'[n])
          BY <4>1
        <4> QED
          BY <1>b, <4>1, <4>2
      <3> QED
        BY <3>2, <3>3
    <2> QED
      BY <1>b, <2>1, <2>5, <2>6 DEF Walked, In
  <1>6. CASE UNCHANGED vars
    BY <1>b, <1>6 DEF vars, Walked
  <1> QED
    BY <1>1, <1>2, <1>3, <1>4, <1>5, <1>6 DEF Next

LEMMA WalkedInvariance == Spec => [](LInv /\ Walked)
  <1>1. Init => Walked
    BY DEF Init, Walked, In, Unleveled
  <1> QED
    BY <1>1, InitInvariant, StepInvariant, WalkedStep, PTL DEF Spec


\* What hangs on a root, and what an edge leads to from there.
LEMMA ReachedGoesOn ==
    ASSUME canvas \in Canvas
    PROVE  /\ Roots(Wired) \subseteq Reached(Wired) /\ Reached(Wired) \subseteq canvas.nodes
           /\ \A e \in Attached(canvas) : e[1] \in Reached(Wired) => e[2] \in Reached(Wired)
  <1>1. /\ Wired.nodes = canvas.nodes /\ Wired.edges = Attached(canvas)
        /\ Roots(Wired) \subseteq canvas.nodes
        /\ \A e \in Attached(canvas) : e[2] \in canvas.nodes
    BY GraphTypes DEF Attached
  <1>2. Reached(Wired) =
           {n \in canvas.nodes :
               \A S \in SUBSET canvas.nodes :
                   (Roots(Wired) \subseteq S /\ \A e \in Attached(canvas) : e[1] \in S => e[2] \in S)
                       => n \in S}
    BY <1>1 DEF Reached
  <1> QED
    BY <1>1, <1>2

\* Every node of a walk stands at least as far right as the walk has come, and
\* at least as far left of its end as there is still to go.
LEMMA WalksPointRight ==
    ASSUME canvas \in Canvas, EdgesPointRight, pc = "done",
           \A n \in Reached(Wired) : level[n] \in Nat,
           NEW k \in Nat, NEW p \in [0..k -> canvas.nodes], p[0] \in Roots(Wired),
           \A j \in 1..k : <<p[j - 1], p[j]>> \in canvas.edges
    PROVE  \A j \in 0..k : /\ level[p[j]] \in Nat /\ level[p[j]] >= j
                           /\ level[p[j]] + (k - j) <= level[p[k]]
  <1>1. ASSUME NEW j \in 1..k
        PROVE  /\ <<p[j - 1], p[j]>> \in Attached(canvas)
               /\ p[j - 1] \in Reached(Wired) =>
                      p[j] \in Reached(Wired) /\ level[p[j]] >= level[p[j - 1]] + 1
    <2>1. PICK a \in canvas.nodes : a = p[j - 1]
      OBVIOUS
    <2>2. PICK b \in canvas.nodes : b = p[j]
      OBVIOUS
    <2>3. PICK e : e = <<a, b>>
      OBVIOUS
    <2>4. e \in Attached(canvas) /\ e[1] = a /\ e[2] = b
      BY <2>1, <2>2, <2>3 DEF Attached
    <2>5. a \in Reached(Wired) => b \in Reached(Wired) /\ level[b] >= level[a] + 1
      BY <2>4, ReachedGoesOn DEF EdgesPointRight
    <2> QED
      BY <2>1, <2>2, <2>3, <2>4, <2>5
  <1>2. ASSUME NEW j \in 0..k PROVE p[j] \in Reached(Wired) /\ level[p[j]] >= j
    <2> DEFINE T == {i \in 0..k : ~(p[i] \in Reached(Wired) /\ level[p[i]] >= i)}
    <2> SUFFICES ASSUME T # {} PROVE FALSE
      OBVIOUS
    <2>0. T \subseteq Nat
      OBVIOUS
    <2>1. PICK i \in T : \A h \in T : i <= h
      BY <2>0, LeastNatural
    <2>2. CASE i = 0
      <3>1. p[0] \in Reached(Wired)
        BY ReachedGoesOn
      <3> QED
        BY <2>2, <3>1
    <2>3. CASE i \in 1..k
      <3>1. i - 1 \in 0..k /\ i - 1 \notin T
        BY <2>1, <2>3
      <3>2. p[i - 1] \in Reached(Wired) /\ level[p[i - 1]] >= i - 1
        BY <3>1
      <3>3. p[i] \in Reached(Wired) /\ level[p[i]] >= level[p[i - 1]] + 1
        BY <1>1, <2>3, <3>2
      <3>4. level[p[i]] \in Nat /\ level[p[i - 1]] \in Nat
        BY <3>2, <3>3
      <3> QED
        BY <2>3, <3>2, <3>3, <3>4
    <2> QED
      BY <2>2, <2>3
  <1>3. \A j \in 0..k : level[p[j]] \in Nat
    BY <1>2
  <1>4. ASSUME NEW j \in 0..k PROVE level[p[j]] + (k - j) <= level[p[k]]
    <2> DEFINE T == {d \in 0..k : ~(level[p[k - d]] + d <= level[p[k]])}
    <2>0. ASSUME T # {} PROVE FALSE
      <3>0. T \subseteq Nat
        OBVIOUS
      <3>1. PICK d \in T : \A h \in T : d <= h
        BY <2>0, <3>0, LeastNatural
      <3>2. d # 0
        BY <1>3, <3>1
      <3>3. PICK i \in 1..k : i = k - (d - 1)
        BY <3>1, <3>2
      <3>4. d - 1 \in 0..k /\ d - 1 \notin T
        BY <3>1, <3>2
      <3>5. level[p[i]] + (d - 1) <= level[p[k]]
        BY <3>3, <3>4
      <3>6. level[p[i]] >= level[p[i - 1]] + 1
        <4>1. i - 1 \in 0..k
          OBVIOUS
        <4>2. p[i - 1] \in Reached(Wired)
          BY <1>2, <4>1
        <4> QED
          BY <1>1, <4>2
      <3>7. level[p[i]] \in Nat /\ level[p[i - 1]] \in Nat /\ level[p[k]] \in Nat
        BY <1>3
      <3>8. ~(level[p[i - 1]] + d <= level[p[k]])
        <4>1. k - d = i - 1
          BY <3>1, <3>3
        <4> QED
          BY <3>1, <4>1
      <3> QED
        BY <3>1, <3>5, <3>6, <3>7, <3>8
    <2>1. k - j \in 0..k /\ k - j \notin T
      BY <2>0
    <2>2. k - (k - j) = j
      OBVIOUS
    <2> QED
      BY <2>1, <2>2
  <1> QED
    BY <1>2, <1>3, <1>4

\* The same without a bound on the walks.
NoWalkIsLonger ==
    pc = "done" => \A n \in Reached(Wired) :
        \A k \in Nat : Walk(n, k) => k <= level[n]

\* For every diagram: when AutoLayout has assigned columns, the column of a node
\* that hangs on a root is the length of the longest path to it, so no column is
\* skipped and none is too far left (app.js:2810, layout.go:119); no walk of any
\* length leads further.
THEOREM ColumnsAreLongestPaths == Spec => [](ColumnIsLongestPath /\ NoWalkIsLonger)
  <1>1. LInv /\ Walked => ColumnIsLongestPath /\ NoWalkIsLonger
    <2> SUFFICES ASSUME LInv, Walked, pc = "done", NEW n \in Reached(Wired)
                 PROVE  /\ Walk(n, level[n]) /\ level[n] \in Nat
                        /\ \A k \in Nat : Walk(n, k) => k <= level[n]
      <3>1. ASSUME NEW m \in Reached(Wired), level[m] \in Nat,
                   \A k \in Nat : Walk(m, k) => k <= level[m]
            PROVE  \A k \in (level[m] + 1)..(Cardinality(canvas.nodes) - 1) : ~Walk(m, k)
        <4> TAKE k \in (level[m] + 1)..(Cardinality(canvas.nodes) - 1)
        <4>1. k \in Nat /\ ~(k <= level[m])
          BY <3>1
        <4> QED
          BY <3>1, <4>1
      <3> QED
        BY <3>1 DEF ColumnIsLongestPath, NoWalkIsLonger
    <2>1. canvas \in Canvas /\ EdgesPointRight /\ \A m \in Reached(Wired) : level[m] \in Nat
      BY DEF LInv, TypeOK, Walked
    <2>2. ASSUME NEW k \in Nat, Walk(n, k) PROVE k <= level[n]
      <3>1. PICK p \in [0..k -> canvas.nodes] :
               /\ p[0] \in Roots(Wired) /\ p[k] = n
               /\ \A j \in 1..k : <<p[j - 1], p[j]>> \in canvas.edges
        BY <2>2 DEF Walk
      <3>2. level[p[k]] >= k /\ level[n] \in Nat
        BY <2>1, <3>1, WalksPointRight
      <3> QED
        BY <3>1, <3>2
    <2>3. Walk(n, level[n])
      BY DEF Walked
    <2> QED
      BY <2>1, <2>2, <2>3
  <1> QED
    BY <1>1, WalkedInvariance, PTL

-----------------------------------------------------------------------------
(* The greatest of finitely many numbers, and sums                         *)

\* Finitely many numbers have a greatest.
LEMMA MaxFacts ==
    ASSUME NEW S \in SUBSET Int, IsFiniteSet(S), S # {}
    PROVE  Max(S) \in S /\ \A y \in S : y <= Max(S)
  <1> DEFINE Topped(U) == U = {} \/ \E x \in U : \A y \in U : y <= x
             T == {n \in Nat : \E U \in SUBSET S : Cardinality(U) = n /\ ~Topped(U)}
  <1>1. ASSUME T # {} PROVE FALSE
    <2>0. T \subseteq Nat
      OBVIOUS
    <2>1. PICK n \in T : \A m \in T : n <= m
      BY <1>1, <2>0, LeastNatural
    <2>2. PICK U \in SUBSET S : Cardinality(U) = n /\ ~Topped(U)
      BY <2>1
    <2>3. PICK x \in U : TRUE
      BY <2>2
    <2>4. PICK V : V = U \ {x}
      OBVIOUS
    <2>5. IsFiniteSet(U)
      BY FS_Subset
    <2>6. Cardinality(V) = n - 1 /\ n - 1 \in Nat
      <3>1. IsFiniteSet(V) /\ Cardinality(V) = Cardinality(U) - 1
        BY <2>3, <2>4, <2>5, FS_RemoveElement
      <3>2. Cardinality(V) \in Nat
        BY <3>1, FS_CardinalityType
      <3> QED
        BY <2>2, <3>1, <3>2
    <2>7. Topped(V)
      <3>1. n - 1 \notin T
        BY <2>1, <2>6
      <3>2. V \in SUBSET S
        BY <2>4
      <3> QED
        BY <2>6, <3>1, <3>2
    <2>8. CASE V = {}
      <3>1. \A y \in U : y <= x
        BY <2>3, <2>4, <2>8
      <3> QED
        BY <2>2, <2>3, <3>1
    <2>9. CASE \E z \in V : \A y \in V : y <= z
      <3>1. PICK z \in V : \A y \in V : y <= z
        BY <2>9
      <3>2. x \in Int /\ z \in Int /\ z \in U /\ U \subseteq Int
        BY <2>3, <2>4
      <3>3. \A y \in U : y = x \/ y <= z
        BY <2>4, <3>1
      <3>4. CASE x <= z
        <4>1. \A y \in U : y <= z
          BY <3>3, <3>4
        <4> QED
          BY <2>2, <3>2, <4>1
      <3>5. CASE ~(x <= z)
        <4>1. \A y \in U : y <= x
          BY <3>2, <3>3, <3>5
        <4> QED
          BY <2>2, <2>3, <4>1
      <3> QED
        BY <3>4, <3>5
    <2> QED
      BY <2>7, <2>8, <2>9
  <1>2. Cardinality(S) \in Nat
    BY FS_CardinalityType
  <1>3. Topped(S)
    BY <1>1, <1>2
  <1>4. \E x \in S : \A y \in S : x >= y
    BY <1>3
  <1>5. Max(S) \in S /\ \A y \in S : Max(S) >= y
    BY <1>4 DEF Max
  <1>6. Max(S) \in Int
    BY <1>5
  <1> QED
    BY <1>5, <1>6

\* The cursor as far as n boxes.
Moves(f, n, taken) ==
    f = [k \in 0..n |-> IF k = 0 THEN 0 ELSE f[k - 1] + taken[k]]

\* It can be moved behind any number of boxes, in one way only.
LEMMA CursorExists ==
    ASSUME NEW taken
    PROVE  /\ \A n \in Nat : \E f : Moves(f, n, taken)
           /\ \A n \in Nat, m \in Nat : \A f, g :
                 Moves(f, n, taken) /\ Moves(g, m, taken) =>
                     \A k \in Nat : k <= n /\ k <= m => f[k] = g[k]
  <1>1. ASSUME NEW n \in Nat PROVE \E f : Moves(f, n, taken)
    <2> DEFINE T == {i \in Nat : ~\E f : Moves(f, i, taken)}
    <2>1. ASSUME T # {} PROVE FALSE
      <3>0. T \subseteq Nat
        OBVIOUS
      <3>1. PICK i \in T : \A j \in T : i <= j
        BY <2>1, <3>0, LeastNatural
      <3>2. CASE i = 0
        <4>1. PICK f : f = [k \in 0..0 |-> 0]
          OBVIOUS
        <4>2. f = [k \in 0..0 |-> IF k = 0 THEN 0 ELSE f[k - 1] + taken[k]]
          BY <4>1
        <4> QED
          BY <3>1, <3>2, <4>2 DEF Moves
      <3>3. CASE i # 0
        <4>1. i - 1 \in Nat /\ i - 1 \notin T
          BY <3>1, <3>3
        <4>2. PICK g : Moves(g, i - 1, taken)
          BY <4>1
        <4>3. PICK f : f = [k \in 0..i |-> IF k = i THEN g[i - 1] + taken[i] ELSE g[k]]
          OBVIOUS
        <4>4. \A k \in 0..i : f[k] = IF k = i THEN g[i - 1] + taken[i] ELSE g[k]
          BY <4>3
        <4>5. \A k \in 0..i - 1 : g[k] = IF k = 0 THEN 0 ELSE g[k - 1] + taken[k]
          BY <4>2 DEF Moves
        <4>6. ASSUME NEW k \in 0..i PROVE f[k] = IF k = 0 THEN 0 ELSE f[k - 1] + taken[k]
          <5>1. CASE k = i
            BY <3>3, <4>1, <4>4, <5>1
          <5>2. CASE k \in 1..i - 1
            BY <4>4, <4>5, <5>2
          <5>3. CASE k = 0
            BY <3>3, <4>1, <4>4, <4>5, <5>3
          <5> QED
            BY <5>1, <5>2, <5>3
        <4>7. Moves(f, i, taken)
          BY <4>3, <4>6 DEF Moves
        <4> QED
          BY <3>1, <4>7
      <3> QED
        BY <3>2, <3>3
    <2> QED
      BY <2>1
  <1>2. ASSUME NEW n \in Nat, NEW m \in Nat, NEW f, NEW g, Moves(f, n, taken), Moves(g, m, taken)
        PROVE  \A k \in Nat : k <= n /\ k <= m => f[k] = g[k]
    <2> DEFINE T == {i \in Nat : i <= n /\ i <= m /\ f[i] # g[i]}
    <2>0. /\ \A k \in 0..n : f[k] = IF k = 0 THEN 0 ELSE f[k - 1] + taken[k]
          /\ \A k \in 0..m : g[k] = IF k = 0 THEN 0 ELSE g[k - 1] + taken[k]
      BY <1>2 DEF Moves
    <2>1. ASSUME T # {} PROVE FALSE
      <3>0. T \subseteq Nat
        OBVIOUS
      <3>1. PICK i \in T : \A j \in T : i <= j
        BY <2>1, <3>0, LeastNatural
      <3>2. CASE i = 0
        BY <2>0, <3>1, <3>2
      <3>3. CASE i # 0
        <4>1. i - 1 \in Nat /\ i - 1 \notin T
          BY <3>1, <3>3
        <4>2. f[i - 1] = g[i - 1]
          BY <3>1, <4>1
        <4> QED
          BY <2>0, <3>1, <3>3, <4>2
      <3> QED
        BY <3>2, <3>3
    <2> QED
      BY <2>1
  <1> QED
    BY <1>1, <1>2

\* What it does behind each box.
LEMMA CursorFacts ==
    ASSUME NEW taken
    PROVE  /\ Cursor(taken)[0] = 0
           /\ \A k \in Nat : Cursor(taken)[k + 1] = Cursor(taken)[k] + taken[k + 1]
  <1> DEFINE upto(n) == CHOOSE f : Moves(f, n, taken)
  <1>1. PICK at : at = [n \in Nat |-> upto(n)[n]]
    OBVIOUS
  <1>2. \A n \in Nat : Moves(upto(n), n, taken)
    BY CursorExists
  <1>3. ASSUME NEW n \in Nat PROVE at[n] = IF n = 0 THEN 0 ELSE at[n - 1] + taken[n]
    <2>1. at[n] = upto(n)[n]
      BY <1>1
    <2>2. \A k \in 0..n : upto(n)[k] = IF k = 0 THEN 0 ELSE upto(n)[k - 1] + taken[k]
      BY <1>2 DEF Moves
    <2>3. CASE n = 0
      BY <2>1, <2>2, <2>3
    <2>4. CASE n # 0
      <3>1. n - 1 \in Nat /\ n - 1 <= n
        BY <2>4
      <3>2. upto(n)[n - 1] = upto(n - 1)[n - 1]
        <4>1. PICK f : f = upto(n)
          OBVIOUS
        <4>2. PICK g : g = upto(n - 1)
          OBVIOUS
        <4>3. Moves(f, n, taken) /\ Moves(g, n - 1, taken)
          BY <1>2, <3>1, <4>1, <4>2
        <4>4. f[n - 1] = g[n - 1]
          BY <3>1, <4>3, CursorExists
        <4> QED
          BY <4>1, <4>2, <4>4
      <3>3. at[n - 1] = upto(n - 1)[n - 1]
        BY <1>1, <3>1
      <3> QED
        BY <2>1, <2>2, <2>4, <3>2, <3>3
    <2> QED
      BY <2>3, <2>4
  <1>4. at = [n \in Nat |-> IF n = 0 THEN 0 ELSE at[n - 1] + taken[n]]
    BY <1>1, <1>3
  <1>5. \E f : f = [n \in Nat |-> IF n = 0 THEN 0 ELSE f[n - 1] + taken[n]]
    BY <1>4
  <1>6. PICK c : c = Cursor(taken)
    OBVIOUS
  <1>7. c = [n \in Nat |-> IF n = 0 THEN 0 ELSE c[n - 1] + taken[n]]
    BY <1>5, <1>6 DEF Cursor
  <1>8. \A n \in Nat : c[n] = IF n = 0 THEN 0 ELSE c[n - 1] + taken[n]
    BY <1>7
  <1> QED
    BY <1>6, <1>8

\* It only ever moves on.
LEMMA CursorMovesOn ==
    ASSUME NEW n \in Nat, NEW taken, \A k \in 1..n : taken[k] \in Nat
    PROVE  /\ \A k \in 0..n : Cursor(taken)[k] \in Nat
           /\ \A j \in 0..n, k \in 0..n :
                 j < k => Cursor(taken)[j] + taken[j + 1] <= Cursor(taken)[k]
  <1>1. PICK c : c = Cursor(taken)
    OBVIOUS
  <1>2. c[0] = 0 /\ \A k \in Nat : c[k + 1] = c[k] + taken[k + 1]
    BY <1>1, CursorFacts
  <1>3. ASSUME NEW k \in 1..n PROVE c[k] = c[k - 1] + taken[k]
    <2>1. k - 1 \in Nat /\ (k - 1) + 1 = k
      OBVIOUS
    <2> QED
      BY <1>2, <2>1
  <1>4. ASSUME NEW j \in 0..n, NEW k \in 0..n, j <= k, c[j] \in Nat
        PROVE  c[k] \in Nat /\ c[j] <= c[k]
    <2> DEFINE T == {i \in j..n : ~(c[i] \in Nat /\ c[j] <= c[i])}
    <2>0. T \subseteq Nat
      OBVIOUS
    <2>1. ASSUME T # {} PROVE FALSE
      <3>1. PICK i \in T : \A h \in T : i <= h
        BY <2>0, <2>1, LeastNatural
      <3>2. i # j
        BY <1>4, <3>1
      <3>3. i - 1 \in j..n /\ i - 1 \notin T /\ i \in 1..n
        BY <3>1, <3>2
      <3>4. c[i - 1] \in Nat /\ c[j] <= c[i - 1]
        BY <3>3
      <3>5. c[i] = c[i - 1] + taken[i] /\ taken[i] \in Nat
        BY <1>3, <3>3
      <3> QED
        BY <1>4, <3>1, <3>4, <3>5
    <2>2. k \in j..n /\ k \notin T
      BY <1>4, <2>1
    <2> QED
      BY <2>2
  <1>5. \A k \in 0..n : c[k] \in Nat
    BY <1>2, <1>4
  <1>6. ASSUME NEW j \in 0..n, NEW k \in 0..n, j < k PROVE c[j] + taken[j + 1] <= c[k]
    <2>1. j + 1 \in 1..n /\ (j + 1) - 1 = j /\ j + 1 <= k
      BY <1>6
    <2>2. c[j + 1] = c[j] + taken[j + 1]
      BY <1>3, <2>1
    <2>3. c[j + 1] <= c[k]
      BY <1>4, <1>5, <2>1
    <2> QED
      BY <2>2, <2>3
  <1> QED
    BY <1>1, <1>5, <1>6

\* Finitely many things have finitely many sizes.
LEMMA FiniteSizes ==
    ASSUME NEW S, IsFiniteSet(S), NEW f
    PROVE  IsFiniteSet({f[x] : x \in S})
  <1>1. PICK T : T = {f[x] : x \in S}
    OBVIOUS
  <1>2. PICK g : g = [x \in S |-> f[x]]
    OBVIOUS
  <1>3. g \in Surjection(S, T)
    BY <1>1, <1>2 DEF Surjection
  <1> QED
    BY <1>1, <1>3, FS_Surjection

-----------------------------------------------------------------------------
(* Where the boxes are                                                     *)

Assigned == LInv /\ Walked /\ canvas \in Drawn /\ pc = "done"

\* The columns reach from 0 to the last without a gap.
LEMMA ColumnsFilled ==
    ASSUME Assigned
    PROVE  /\ IsFiniteSet(canvas.nodes) /\ Connected(canvas) \subseteq canvas.nodes
           /\ canvas.nodes \subseteq Node
           /\ LastColumn \in Nat /\ \A n \in Connected(canvas) : level[n] \in 0..LastColumn
           /\ Connected(canvas) # {} => \A l \in 0..LastColumn : Members(l) # {}
  <1>1. /\ canvas \in Canvas /\ canvas.nodes \subseteq Node /\ IsFiniteSet(canvas.nodes)
        /\ Connected(canvas) \subseteq canvas.nodes
    BY FiniteAssumption, GraphTypes DEF Assigned, LInv, TypeOK, Connected
  <1>2. \A n \in Connected(canvas) : level[n] \in Nat /\ (level[n] # 0 => Walk(n, level[n]))
    BY DEF Assigned, Walked
  <1>3. PICK S : S = {level[n] : n \in Connected(canvas)} \cup {0}
    OBVIOUS
  <1>4. S \in SUBSET Int /\ S # {} /\ IsFiniteSet(S)
    <2>1. IsFiniteSet(Connected(canvas))
      BY <1>1, FS_Subset
    <2>2. IsFiniteSet({level[n] : n \in Connected(canvas)})
      BY <2>1, FiniteSizes
    <2> QED
      BY <1>2, <1>3, <2>2, FS_AddElement
  <1>5. LastColumn = Max(S) /\ Max(S) \in S /\ \A y \in S : y <= Max(S)
    BY <1>3, <1>4, MaxFacts DEF LastColumn
  <1>6. LastColumn \in Nat /\ \A n \in Connected(canvas) : level[n] \in 0..LastColumn
    BY <1>2, <1>3, <1>5
  <1>7. ASSUME NEW n \in Connected(canvas), NEW l \in 0..LastColumn PROVE Members(l) # {}
    <2>1. CASE LastColumn = 0
      <3>1. n \in Members(l)
        BY <1>6, <1>7, <2>1 DEF Members
      <3> QED
        BY <3>1
    <2>2. CASE LastColumn # 0
      <3>1. PICK m \in Connected(canvas) : level[m] = LastColumn
        BY <1>3, <1>5, <2>2
      <3>2. PICK k \in Nat : k = LastColumn
        BY <1>6
      <3>3. Walk(m, k)
        BY <1>2, <2>2, <3>1, <3>2
      <3>4. PICK p \in [0..k -> canvas.nodes] :
               /\ p[0] \in Roots(Wired) /\ p[k] = m
               /\ \A j \in 1..k : <<p[j - 1], p[j]>> \in canvas.edges
        BY <3>3 DEF Walk
      <3>5. EdgesPointRight /\ \A r \in Reached(Wired) : level[r] \in Nat
        BY DEF Assigned, LInv, Walked
      <3>6. \A j \in 0..k : /\ level[p[j]] \in Nat /\ level[p[j]] >= j
                            /\ level[p[j]] + (k - j) <= level[p[k]]
        BY <1>1, <3>4, <3>5, WalksPointRight DEF Assigned
      <3>7. l \in 0..k /\ level[p[l]] = l
        BY <1>6, <3>1, <3>2, <3>4, <3>6
      <3>8. p[l] \in Connected(canvas)
        <4>1. CASE l = k
          BY <3>4, <4>1
        <4>2. CASE l # k
          <5>1. l + 1 \in 1..k /\ (l + 1) - 1 = l
            BY <3>7, <4>2
          <5>2. PICK e : e = <<p[l], p[l + 1]>>
            OBVIOUS
          <5>3. e \in canvas.edges
            BY <3>4, <5>1, <5>2
          <5>4. e[1] = p[l] /\ e[1] \in canvas.nodes /\ e[2] \in canvas.nodes
            BY <3>4, <3>7, <5>1, <5>2
          <5> QED
            BY <5>3, <5>4 DEF Connected, Attached
        <4> QED
          BY <4>1, <4>2
      <3> QED
        BY <3>7, <3>8 DEF Members
    <2> QED
      BY <2>1, <2>2
  <1> QED
    BY <1>1, <1>6, <1>7

\* A column is as wide as its widest box, a gap has room for every label.
LEMMA ColumnSizes ==
    ASSUME Assigned, Connected(canvas) # {}, NEW l \in 0..LastColumn
    PROVE  /\ ColumnWidth(l) \in Nat /\ \A n \in Members(l) : Width[n] <= ColumnWidth(l)
           /\ Gap(l) \in Nat /\ GapX <= Gap(l)
           /\ \A e \in Attached(canvas) :
                 level[e[1]] = l /\ level[e[2]] = l + 1 => LabelWidth[e] <= Gap(l)
  <1>1. /\ IsFiniteSet(canvas.nodes) /\ canvas.nodes \subseteq Node /\ Members(l) # {}
        /\ Members(l) \subseteq canvas.nodes
    BY ColumnsFilled DEF Members
  <1>2. PICK S : S = {Width[n] : n \in Members(l)}
    OBVIOUS
  <1>3. S \subseteq Nat /\ S # {} /\ IsFiniteSet(S)
    BY <1>1, <1>2, FS_Subset, FiniteSizes, MeasureAssumption
  <1>4. Max(S) \in S /\ \A y \in S : y <= Max(S)
    BY <1>3, MaxFacts
  <1>5. PICK F : F = {f \in Attached(canvas) : level[f[1]] = l /\ level[f[2]] = l + 1}
    OBVIOUS
  <1>6. IsFiniteSet(F) /\ F \subseteq Edge
    <2>1. IsFiniteSet(canvas.nodes \X canvas.nodes)
      BY <1>1, FS_Product
    <2>2. Attached(canvas) \subseteq Edge
      BY GraphTypes DEF Assigned, LInv, TypeOK
    <2>3. Attached(canvas) \subseteq canvas.nodes \X canvas.nodes
      BY <2>2 DEF Attached, Edge
    <2> QED
      BY <1>5, <2>1, <2>2, <2>3, FS_Subset
  <1>7. PICK G : G = {LabelWidth[e] : e \in F} \cup {GapX}
    OBVIOUS
  <1>8. G \subseteq Nat /\ IsFiniteSet(G) /\ G # {}
    <2>1. IsFiniteSet({LabelWidth[e] : e \in F})
      BY <1>6, FiniteSizes
    <2>2. {LabelWidth[e] : e \in F} \subseteq Nat /\ GapX \in Nat
      BY <1>6, MeasureAssumption
    <2> QED
      BY <1>7, <2>1, <2>2, FS_AddElement
  <1>9. Max(G) \in G /\ \A y \in G : y <= Max(G)
    BY <1>8, MaxFacts
  <1>10. ColumnWidth(l) = Max(S)
    BY <1>2 DEF ColumnWidth
  <1>11. Gap(l) = Max(G)
    <2>1. G = {GapX} \cup {LabelWidth[e] : e \in F}
      BY <1>7
    <2> QED
      BY <1>5, <2>1 DEF Gap
  <1> QED
    BY <1>2, <1>3, <1>4, <1>5, <1>7, <1>8, <1>9, <1>10, <1>11

\* Between two columns there is the first one's width and gap.
LEMMA ColumnsApart ==
    ASSUME Assigned, Connected(canvas) # {}
    PROVE  /\ \A l \in 0..LastColumn : Left[l] \in Nat
           /\ \A l \in 0..LastColumn, m \in 0..LastColumn :
                 l < m => Left[l] + (ColumnWidth(l) + Gap(l)) <= Left[m]
  <1>1. PICK n \in Nat : n = LastColumn
    BY ColumnsFilled
  <1>2. PICK taken : taken = [k \in 1..n |-> ColumnWidth(k - 1) + Gap(k - 1)]
    OBVIOUS
  <1>3. ASSUME NEW k \in 1..n PROVE taken[k] = ColumnWidth(k - 1) + Gap(k - 1) /\ taken[k] \in Nat
    <2>1. k - 1 \in 0..LastColumn
      BY <1>1
    <2>2. ColumnWidth(k - 1) \in Nat /\ Gap(k - 1) \in Nat
      BY <2>1, ColumnSizes
    <2> QED
      BY <1>2, <2>2
  <1>4. PICK c : c = Cursor(taken)
    OBVIOUS
  <1>5. Left = c
    BY <1>1, <1>2, <1>4 DEF Left
  <1>6. /\ \A k \in 0..n : c[k] \in Nat
        /\ \A j \in 0..n, k \in 0..n : j < k => c[j] + taken[j + 1] <= c[k]
    BY <1>3, <1>4, CursorMovesOn
  <1>7. ASSUME NEW l \in 0..n, NEW m \in 0..n, l < m
        PROVE  c[l] + (ColumnWidth(l) + Gap(l)) <= c[m]
    <2>1. l + 1 \in 1..n /\ (l + 1) - 1 = l
      BY <1>7
    <2>2. taken[l + 1] = ColumnWidth(l) + Gap(l)
      BY <1>3, <2>1
    <2> QED
      BY <1>6, <1>7, <2>2
  <1> QED
    BY <1>1, <1>5, <1>6, <1>7

\* In a listing of nodes every node has its place.
LEMMA OrderFacts ==
    ASSUME NEW S \in SUBSET Node, IsFiniteSet(S), NEW s \in Orders(S)
    PROVE  /\ Len(s) \in Nat /\ DOMAIN s = 1..Len(s) /\ \A k \in 1..Len(s) : s[k] \in S
           /\ \A n \in S : \E k \in 1..Len(s) : s[k] = n
  <1>1. PICK c \in Nat : c = Cardinality(S)
    BY FS_CardinalityType
  <1>2. s \in [1..c -> S] /\ \A n \in S : \E k \in 1..c : s[k] = n
    BY <1>1 DEF Orders, Bijection, Injection, Surjection
  <1>3. s \in Seq(S) /\ Len(s) = c
    BY <1>2
  <1> QED
    BY <1>2, <1>3

\* Down a column, and along the row, every box stands behind the one before.
LEMMA BoxesStack ==
    ASSUME NEW S \in SUBSET Node, IsFiniteSet(S), NEW s \in Orders(S), NEW size \in [Node -> Nat],
           NEW gap \in Nat, NEW taken, taken = [k \in 1..Len(s) |-> size[s[k]] + gap]
    PROVE  /\ \A k \in 0..Len(s) : Cursor(taken)[k] \in Nat
           /\ \A j \in 1..Len(s), k \in 1..Len(s) :
                 j < k => Cursor(taken)[j - 1] + size[s[j]] + gap <= Cursor(taken)[k - 1]
  <1>1. PICK n \in Nat : n = Len(s)
    BY OrderFacts
  <1>2. \A k \in 1..n : s[k] \in Node
    BY <1>1, OrderFacts
  <1>3. ASSUME NEW k \in 1..n
        PROVE  taken[k] = size[s[k]] + gap /\ size[s[k]] \in Nat /\ taken[k] \in Nat
    <2>1. PICK b : b = s[k]
      OBVIOUS
    <2>2. size[b] \in Nat
      BY <1>2, <2>1
    <2>3. taken[k] = size[b] + gap
      BY <1>1, <2>1
    <2> QED
      BY <2>1, <2>2, <2>3
  <1>4. PICK c : c = Cursor(taken)
    OBVIOUS
  <1>5. /\ \A k \in 0..n : c[k] \in Nat
        /\ \A j \in 0..n, k \in 0..n : j < k => c[j] + taken[j + 1] <= c[k]
    <2>1. \A k \in 1..n : taken[k] \in Nat
      BY <1>3
    <2> QED
      BY <1>4, <2>1, CursorMovesOn
  <1>6. ASSUME NEW j \in 1..n, NEW k \in 1..n, j < k
        PROVE  c[j - 1] + size[s[j]] + gap <= c[k - 1]
    <2>1. j - 1 \in 0..n /\ k - 1 \in 0..n /\ j - 1 < k - 1 /\ (j - 1) + 1 = j
      BY <1>6
    <2>2. c[j - 1] + taken[j] <= c[k - 1]
      <3>1. c[j - 1] + taken[(j - 1) + 1] <= c[k - 1]
        BY <1>5, <2>1
      <3> QED
        BY <2>1, <3>1
    <2>3. taken[j] = size[s[j]] + gap /\ size[s[j]] \in Nat
      BY <1>3
    <2>4. c[j - 1] \in Nat /\ c[k - 1] \in Nat
      BY <1>5, <2>1
    <2> QED
      BY <2>2, <2>3, <2>4
  <1> QED
    BY <1>1, <1>4, <1>5, <1>6

\* Where a node stands in its column.
LEMMA PlaceInColumn ==
    ASSUME Assigned, cols \in Columns, NEW n \in Connected(canvas)
    PROVE  /\ level[n] \in 0..LastColumn /\ n \in Members(level[n]) /\ n \in Node
           /\ cols[level[n]] \in Orders(Members(level[n]))
           /\ IsFiniteSet(Members(level[n])) /\ Members(level[n]) \subseteq Node
           /\ Rank(n) \in 1..Len(cols[level[n]]) /\ cols[level[n]][Rank(n)] = n
           /\ Len(cols[level[n]]) \in Nat
  <1>1. /\ level[n] \in 0..LastColumn /\ IsFiniteSet(canvas.nodes) /\ n \in Node
        /\ Connected(canvas) \subseteq canvas.nodes /\ canvas.nodes \subseteq Node
    BY ColumnsFilled
  <1>2. PICK S : S = Members(level[n])
    OBVIOUS
  <1>3. n \in S /\ S \subseteq canvas.nodes /\ IsFiniteSet(S) /\ S \subseteq Node
    BY <1>1, <1>2, FS_Subset DEF Members
  <1>4. PICK s : s = cols[level[n]]
    OBVIOUS
  <1>5. s \in Orders(S)
    BY <1>1, <1>2, <1>4 DEF Columns
  <1>6. Len(s) \in Nat /\ DOMAIN s = 1..Len(s) /\ \E k \in 1..Len(s) : s[k] = n
    BY <1>3, <1>5, OrderFacts
  <1>7. Rank(n) \in 1..Len(s) /\ s[Rank(n)] = n
    BY <1>4, <1>6 DEF Rank
  <1> QED
    BY <1>1, <1>2, <1>3, <1>4, <1>5, <1>6, <1>7

\* Where it is put.
LEMMA InColumnType ==
    ASSUME Assigned, cols \in Columns, NEW n \in Connected(canvas)
    PROVE  /\ InColumn(n)[1] = 2 * Left[level[n]] + ColumnWidth(level[n]) - Width[n]
           /\ InColumn(n)[2] = 2 * Down(cols[level[n]])[Rank(n) - 1]
                               - (Down(cols[level[n]])[Len(cols[level[n]])] - GapY)
           /\ Down(cols[level[n]])[Rank(n) - 1] \in Nat
           /\ Down(cols[level[n]])[Len(cols[level[n]])] \in Nat
           /\ Left[level[n]] \in Nat /\ ColumnWidth(level[n]) \in Nat
           /\ Width[n] \in Nat /\ Height[n] \in Nat /\ Width[n] <= ColumnWidth(level[n])
           /\ InColumn(n)[1] \in Int /\ InColumn(n)[2] \in Int
  <1>1. /\ level[n] \in 0..LastColumn /\ n \in Members(level[n]) /\ n \in Node
        /\ Rank(n) \in 1..Len(cols[level[n]]) /\ Len(cols[level[n]]) \in Nat
    BY PlaceInColumn
  <1>2. /\ Left[level[n]] \in Nat /\ ColumnWidth(level[n]) \in Nat
        /\ Width[n] <= ColumnWidth(level[n])
    BY <1>1, ColumnsApart, ColumnSizes
  <1>3. Width[n] \in Nat /\ Height[n] \in Nat /\ Height \in [Node -> Nat] /\ GapY \in Nat
    BY <1>1, MeasureAssumption
  <1>4. /\ Down(cols[level[n]])[Rank(n) - 1] \in Nat
        /\ Down(cols[level[n]])[Len(cols[level[n]])] \in Nat
    <2>1. PICK s : s = cols[level[n]]
      OBVIOUS
    <2>2. PICK taken : taken = [k \in 1..Len(s) |-> Height[s[k]] + GapY]
      OBVIOUS
    <2>3. PICK S : S = Members(level[n])
      OBVIOUS
    <2>4. S \in SUBSET Node /\ IsFiniteSet(S) /\ s \in Orders(S)
      BY <2>1, <2>3, PlaceInColumn
    <2>5. \A k \in 0..Len(s) : Cursor(taken)[k] \in Nat
      BY <1>3, <2>2, <2>4, BoxesStack
    <2>6. Down(s) = Cursor(taken)
      BY <2>2 DEF Down
    <2>7. PICK r : r = Rank(n)
      OBVIOUS
    <2>8. r - 1 \in 0..Len(s) /\ Len(s) \in 0..Len(s)
      BY <1>1, <2>1, <2>7
    <2> QED
      BY <2>1, <2>5, <2>6, <2>7, <2>8
  <1>5. InColumn(n) = <<2 * Left[level[n]] + ColumnWidth(level[n]) - Width[n],
                        2 * Down(cols[level[n]])[Rank(n) - 1]
                        - (Down(cols[level[n]])[Len(cols[level[n]])] - GapY)>>
    BY DEF InColumn
  <1>6. PICK a : a = Down(cols[level[n]])[Rank(n) - 1]
    OBVIOUS
  <1>7. PICK b : b = Down(cols[level[n]])[Len(cols[level[n]])]
    OBVIOUS
  <1>8. PICK x : x = 2 * Left[level[n]] + ColumnWidth(level[n]) - Width[n]
    OBVIOUS
  <1>9. x \in Int
    BY <1>2, <1>3, <1>8
  <1>10. InColumn(n)[1] = x /\ InColumn(n)[2] = 2 * a - (b - GapY)
    BY <1>5, <1>6, <1>7, <1>8
  <1>11. InColumn(n)[2] \in Int
    BY <1>3, <1>4, <1>6, <1>7, <1>10
  <1> QED
    BY <1>2, <1>3, <1>4, <1>6, <1>7, <1>8, <1>9, <1>10, <1>11

\* Boxes in one column, in two, and in the row.
LEMMA ColumnStacks ==
    ASSUME Assigned, cols \in Columns, NEW n \in Connected(canvas), NEW m \in Connected(canvas),
           level[n] = level[m], Rank(n) < Rank(m)
    PROVE  InColumn(n)[2] + 2 * (Height[n] + GapY) <= InColumn(m)[2]
  <1>1. PICK s : s = cols[level[n]]
    OBVIOUS
  <1>2. PICK taken : taken = [k \in 1..Len(s) |-> Height[s[k]] + GapY]
    OBVIOUS
  <1>3. Height \in [Node -> Nat] /\ GapY \in Nat
    BY MeasureAssumption
  <1>4. /\ Rank(n) \in 1..Len(s) /\ Rank(m) \in 1..Len(s) /\ s[Rank(n)] = n
    BY <1>1, PlaceInColumn
  <1>5. Cursor(taken)[Rank(n) - 1] + Height[n] + GapY <= Cursor(taken)[Rank(m) - 1]
    <2>1. PICK S : S = Members(level[n])
      OBVIOUS
    <2>2. S \in SUBSET Node /\ IsFiniteSet(S) /\ s \in Orders(S)
      BY <1>1, <2>1, PlaceInColumn
    <2>3. \A j \in 1..Len(s), k \in 1..Len(s) :
             j < k => Cursor(taken)[j - 1] + Height[s[j]] + GapY <= Cursor(taken)[k - 1]
      BY <1>2, <1>3, <2>2, BoxesStack
    <2> QED
      BY <1>4, <2>3
  <1>6. Down(s) = Cursor(taken)
    BY <1>2 DEF Down
  <1>7. PICK a : a = Down(s)[Rank(n) - 1]
    OBVIOUS
  <1>8. PICK b : b = Down(s)[Rank(m) - 1]
    OBVIOUS
  <1>9. PICK d : d = Down(s)[Len(s)]
    OBVIOUS
  <1>10. /\ InColumn(n)[2] = 2 * a - (d - GapY) /\ a \in Nat /\ d \in Nat
         /\ Height[n] \in Nat
    BY <1>1, <1>7, <1>9, InColumnType
  <1>11. InColumn(m)[2] = 2 * b - (d - GapY) /\ b \in Nat
    BY <1>1, <1>8, <1>9, InColumnType
  <1>12. a + Height[n] + GapY <= b
    BY <1>5, <1>6, <1>7, <1>8
  <1> QED
    BY <1>3, <1>10, <1>11, <1>12

LEMMA ColumnsStandApart ==
    ASSUME Assigned, cols \in Columns, NEW n \in Connected(canvas), NEW m \in Connected(canvas),
           level[n] < level[m]
    PROVE  InColumn(n)[1] + 2 * (Width[n] + GapX) <= InColumn(m)[1]
  <1>1. level[n] \in 0..LastColumn /\ level[m] \in 0..LastColumn
    BY PlaceInColumn
  <1>2. Left[level[n]] + (ColumnWidth(level[n]) + Gap(level[n])) <= Left[level[m]]
    BY <1>1, ColumnsApart
  <1>3. Gap(level[n]) \in Nat /\ GapX <= Gap(level[n]) /\ GapX \in Nat
    BY <1>1, ColumnSizes, MeasureAssumption
  <1>4. PICK u : u = Left[level[n]]
    OBVIOUS
  <1>5. PICK v : v = Left[level[m]]
    OBVIOUS
  <1>6. PICK w : w = ColumnWidth(level[n])
    OBVIOUS
  <1>7. PICK x : x = ColumnWidth(level[m])
    OBVIOUS
  <1>8. /\ InColumn(n)[1] = 2 * u + w - Width[n] /\ u \in Nat /\ w \in Nat
        /\ Width[n] \in Nat /\ Width[n] <= w
    BY <1>4, <1>6, InColumnType
  <1>9. /\ InColumn(m)[1] = 2 * v + x - Width[m] /\ v \in Nat /\ x \in Nat
        /\ Width[m] \in Nat /\ Width[m] <= x
    BY <1>5, <1>7, InColumnType
  <1>10. u + (w + GapX) <= v
    BY <1>2, <1>3, <1>4, <1>5, <1>6, <1>8, <1>9
  <1> QED
    BY <1>3, <1>8, <1>9, <1>10

LEMMA LabelsFit ==
    ASSUME Assigned, cols \in Columns, NEW e \in Attached(canvas), level[e[2]] = level[e[1]] + 1
    PROVE  InColumn(e[2])[1] - InColumn(e[1])[1] >= 2 * (Width[e[1]] + LabelWidth[e])
  <1>1. e[1] \in Connected(canvas) /\ e[2] \in Connected(canvas)
    BY DEF Connected, Attached
  <1>2. e \in Edge
    BY GraphTypes DEF Assigned, LInv, TypeOK
  <1>3. PICK l \in 0..LastColumn : l = level[e[1]]
    BY <1>1, PlaceInColumn
  <1>4. l + 1 \in 0..LastColumn /\ level[e[2]] = l + 1
    BY <1>1, <1>3, PlaceInColumn
  <1>5. Left[l] + (ColumnWidth(l) + Gap(l)) <= Left[l + 1]
    BY <1>1, <1>3, <1>4, ColumnsApart
  <1>6. Gap(l) \in Nat /\ LabelWidth[e] <= Gap(l) /\ LabelWidth[e] \in Nat
    <2>1. LabelWidth[e] <= Gap(l) /\ Gap(l) \in Nat
      BY <1>1, <1>3, <1>4, ColumnSizes
    <2> QED
      BY <1>2, <2>1, MeasureAssumption
  <1>7. /\ InColumn(e[1])[1] = 2 * Left[l] + ColumnWidth(l) - Width[e[1]]
        /\ Left[l] \in Nat /\ ColumnWidth(l) \in Nat
        /\ Width[e[1]] \in Nat /\ Width[e[1]] <= ColumnWidth(l)
    BY <1>1, <1>3, InColumnType
  <1>8. /\ InColumn(e[2])[1] = 2 * Left[l + 1] + ColumnWidth(l + 1) - Width[e[2]]
        /\ Left[l + 1] \in Nat /\ ColumnWidth(l + 1) \in Nat
        /\ Width[e[2]] \in Nat /\ Width[e[2]] <= ColumnWidth(l + 1)
    BY <1>1, <1>4, InColumnType
  <1> QED
    BY <1>5, <1>6, <1>7, <1>8

\* Boxes of one column, and of two, are apart.
LEMMA ColumnsApartBoxes ==
    ASSUME Assigned, cols \in Columns, NEW n \in Connected(canvas), NEW m \in Connected(canvas),
           n # m
    PROVE  Apart(InColumn(n), Width[n], Height[n], InColumn(m), Width[m], Height[m])
  <1>1. level[n] \in Nat /\ level[m] \in Nat
    BY PlaceInColumn, ColumnsFilled
  <1>2. CASE level[n] < level[m]
    BY <1>2, ColumnsStandApart DEF Apart
  <1>3. CASE level[m] < level[n]
    BY <1>3, ColumnsStandApart DEF Apart
  <1>4. CASE level[n] = level[m]
    <2>1. PICK s : s = cols[level[n]]
      OBVIOUS
    <2>2. PICK i : i = Rank(n)
      OBVIOUS
    <2>3. PICK j : j = Rank(m)
      OBVIOUS
    <2>4. i \in 1..Len(s) /\ s[i] = n /\ Len(s) \in Nat
      BY <2>1, <2>2, PlaceInColumn
    <2>5. j \in 1..Len(s) /\ s[j] = m
      BY <1>4, <2>1, <2>3, PlaceInColumn
    <2>6. i < j \/ j < i
      BY <1>4, <2>4, <2>5
    <2>7. CASE i < j
      <3>1. InColumn(n)[2] + 2 * (Height[n] + GapY) <= InColumn(m)[2]
        BY <1>4, <2>2, <2>3, <2>7, ColumnStacks
      <3> QED
        BY <3>1 DEF Apart
    <2>8. CASE j < i
      <3>1. InColumn(m)[2] + 2 * (Height[m] + GapY) <= InColumn(n)[2]
        BY <1>4, <2>2, <2>3, <2>8, ColumnStacks
      <3> QED
        BY <3>1 DEF Apart
    <2> QED
      BY <2>6, <2>7, <2>8
  <1> QED
    BY <1>1, <1>2, <1>3, <1>4

\* The row of orphans runs below every column.
RowTop == IF Connected(canvas) = {} THEN 0
          ELSE Max({Bottom(m) : m \in Connected(canvas)}) + 4 * GapY

LEMMA RowIsBelow ==
    ASSUME Assigned, cols \in Columns
    PROVE  /\ RowTop \in Int
           /\ \A m \in Connected(canvas) : InColumn(m)[2] + 2 * (Height[m] + GapY) <= RowTop
  <1>1. GapY \in Nat
    BY MeasureAssumption
  <1>2. CASE Connected(canvas) = {}
    BY <1>2 DEF RowTop
  <1>3. CASE Connected(canvas) # {}
    <2>1. PICK f : f = [m \in Connected(canvas) |-> Bottom(m)]
      OBVIOUS
    <2>2. PICK B : B = {f[m] : m \in Connected(canvas)}
      OBVIOUS
    <2>3. B = {Bottom(m) : m \in Connected(canvas)}
      BY <2>1, <2>2
    <2>4. \A m \in Connected(canvas) : /\ Bottom(m) = InColumn(m)[2] + 2 * Height[m]
                                       /\ InColumn(m)[2] \in Int /\ Height[m] \in Nat
      BY InColumnType DEF Bottom
    <2>5. IsFiniteSet(B)
      <3>1. IsFiniteSet(Connected(canvas))
        BY ColumnsFilled, FS_Subset
      <3> QED
        BY <2>2, <3>1, FiniteSizes
    <2>6. \A m \in Connected(canvas) : Bottom(m) \in Int
      BY <2>4
    <2>7. B \in SUBSET Int /\ B # {}
      BY <1>3, <2>3, <2>6
    <2>8. PICK b : b = Max(B)
      OBVIOUS
    <2>9. b \in Int /\ \A y \in B : y <= b
      BY <2>5, <2>7, <2>8, MaxFacts
    <2>10. RowTop = b + 4 * GapY
      BY <1>3, <2>3, <2>8 DEF RowTop
    <2>11. ASSUME NEW m \in Connected(canvas)
           PROVE  InColumn(m)[2] + 2 * (Height[m] + GapY) <= RowTop
      <3>1. InColumn(m)[2] + 2 * Height[m] <= b
        BY <2>3, <2>4, <2>9
      <3> QED
        BY <1>1, <2>4, <2>9, <2>10, <3>1
    <2> QED
      BY <1>1, <2>9, <2>10, <2>11
  <1> QED
    BY <1>2, <1>3

\* What the second half of the layout leaves behind.
Placed(row) == [n \in canvas.nodes |->
                   IF n \in Connected(canvas) THEN InColumn(n)
                   ELSE InRow(row, CHOOSE k \in DOMAIN row : row[k] = n)]

Laid ==
    position # <<>> =>
        /\ pc = "done" /\ cols \in Columns /\ turns = <<>>
        /\ \E row \in Orders(Orphans) : position = Placed(row)

\* Where every node is: in its column, or at its place in the row.
LEMMA Positions ==
    ASSUME Assigned, Laid, position # <<>>
    PROVE  /\ canvas.nodes # {} /\ canvas.nodes \subseteq Node
           /\ \A n \in Connected(canvas) : position[n] = InColumn(n)
           /\ \E row \in Orders(Orphans) : \A n \in Orphans :
                 \E k \in 1..Len(row) : row[k] = n /\ position[n] = InRow(row, k)
  <1>1. PICK row \in Orders(Orphans) : position = Placed(row)
    BY DEF Laid
  <1>2. /\ IsFiniteSet(canvas.nodes) /\ Connected(canvas) \subseteq canvas.nodes
        /\ canvas.nodes \subseteq Node
    BY ColumnsFilled
  <1>3. canvas.nodes # {}
    BY <1>1 DEF Placed
  <1>4. \A n \in Connected(canvas) : position[n] = InColumn(n)
    BY <1>1, <1>2 DEF Placed
  <1>5. ASSUME NEW n \in Orphans
        PROVE  \E k \in 1..Len(row) : row[k] = n /\ position[n] = InRow(row, k)
    <2>1. Orphans \in SUBSET Node /\ IsFiniteSet(Orphans)
      BY <1>2, FS_Subset DEF Orphans
    <2>2. DOMAIN row = 1..Len(row) /\ \E k \in 1..Len(row) : row[k] = n
      BY <2>1, OrderFacts
    <2>3. PICK k : k = CHOOSE i \in DOMAIN row : row[i] = n
      OBVIOUS
    <2>4. k \in 1..Len(row) /\ row[k] = n
      BY <2>2, <2>3
    <2>5. n \in canvas.nodes /\ n \notin Connected(canvas)
      BY DEF Orphans
    <2>6. position[n] = InRow(row, k)
      BY <1>1, <2>3, <2>5 DEF Placed
    <2> QED
      BY <2>4, <2>6
  <1> QED
    BY <1>2, <1>3, <1>4, <1>5

\* The boxes of the row stand one behind the other.
LEMMA RowStacks ==
    ASSUME Assigned, NEW row \in Orders(Orphans)
    PROVE  /\ \A k \in 1..Len(row) : /\ InRow(row, k)[2] = RowTop /\ InRow(row, k)[1] \in Int
                                     /\ Width[row[k]] \in Nat /\ Height[row[k]] \in Nat
           /\ \A j \in 1..Len(row), k \in 1..Len(row) :
                 j < k => InRow(row, j)[1] + 2 * (Width[row[j]] + GapX) <= InRow(row, k)[1]
  <1>1. PICK taken : taken = [k \in 1..Len(row) |-> Width[row[k]] + GapX]
    OBVIOUS
  <1>2. PICK S : S = Orphans
    OBVIOUS
  <1>3. S \in SUBSET Node /\ IsFiniteSet(S)
    BY <1>2, ColumnsFilled, FS_Subset DEF Orphans
  <1>4. Width \in [Node -> Nat] /\ Height \in [Node -> Nat] /\ GapX \in Nat
    BY MeasureAssumption
  <1>5. PICK n \in Nat : n = Len(row)
    BY <1>2, <1>3, OrderFacts
  <1>6. PICK c : c = Cursor(taken)
    OBVIOUS
  <1>7. /\ \A k \in 0..n : c[k] \in Nat
        /\ \A j \in 1..n, k \in 1..n : j < k => c[j - 1] + Width[row[j]] + GapX <= c[k - 1]
    BY <1>1, <1>2, <1>3, <1>4, <1>5, <1>6, BoxesStack
  <1>8. ASSUME NEW k \in 1..n
        PROVE  /\ InRow(row, k)[1] = 2 * c[k - 1] /\ c[k - 1] \in Nat
               /\ InRow(row, k)[2] = RowTop /\ Width[row[k]] \in Nat /\ Height[row[k]] \in Nat
    <2>1. PICK b : b = row[k]
      OBVIOUS
    <2>2. b \in Node
      BY <1>2, <1>3, <1>5, <2>1, OrderFacts
    <2>3. k - 1 \in 0..n
      OBVIOUS
    <2>4. InRow(row, k) = <<2 * c[k - 1], RowTop>>
      BY <1>1, <1>6 DEF InRow, RowTop
    <2> QED
      BY <1>4, <1>7, <2>1, <2>2, <2>3, <2>4
  <1>9. ASSUME NEW j \in 1..n, NEW k \in 1..n, j < k
        PROVE  InRow(row, j)[1] + 2 * (Width[row[j]] + GapX) <= InRow(row, k)[1]
    <2>1. PICK x : x = c[j - 1]
      OBVIOUS
    <2>2. PICK y : y = c[k - 1]
      OBVIOUS
    <2>3. x + Width[row[j]] + GapX <= y
      BY <1>7, <1>9, <2>1, <2>2
    <2>4. InRow(row, j)[1] = 2 * x /\ x \in Nat /\ Width[row[j]] \in Nat
      BY <1>8, <2>1
    <2>5. InRow(row, k)[1] = 2 * y /\ y \in Nat
      BY <1>8, <2>2
    <2> QED
      BY <1>4, <2>3, <2>4, <2>5
  <1>10. \A k \in 1..n : InRow(row, k)[1] \in Int
    BY <1>8
  <1> QED
    BY <1>5, <1>8, <1>9, <1>10

\* Any two boxes are apart.
LEMMA BoxesApart ==
    ASSUME Assigned, Laid, position # <<>>, NEW n \in canvas.nodes, NEW m \in canvas.nodes, n # m
    PROVE  Apart(position[n], Width[n], Height[n], position[m], Width[m], Height[m])
  <1>1. PICK row \in Orders(Orphans) : \A o \in Orphans :
           \E k \in 1..Len(row) : row[k] = o /\ position[o] = InRow(row, k)
    BY Positions
  <1>2. /\ \A o \in Connected(canvas) : position[o] = InColumn(o)
        /\ \A o \in canvas.nodes : o \in Connected(canvas) \/ o \in Orphans
    BY Positions DEF Orphans
  <1>3. cols \in Columns /\ GapY \in Nat
    BY MeasureAssumption DEF Laid
  <1>4. ASSUME NEW a \in Connected(canvas), NEW b \in Orphans
        PROVE  position[a][2] + 2 * (Height[a] + GapY) <= position[b][2]
    <2>1. position[b][2] = RowTop
      BY <1>1, RowStacks
    <2> QED
      BY <1>2, <1>3, <2>1, RowIsBelow
  <1>5. CASE n \in Connected(canvas) /\ m \in Connected(canvas)
    <2>1. position[n] = InColumn(n) /\ position[m] = InColumn(m)
      BY <1>2, <1>5
    <2> QED
      BY <1>3, <1>5, <2>1, ColumnsApartBoxes
  <1>6. CASE n \in Connected(canvas) /\ m \in Orphans
    BY <1>4, <1>6 DEF Apart
  <1>7. CASE n \in Orphans /\ m \in Connected(canvas)
    BY <1>4, <1>7 DEF Apart
  <1>8. CASE n \in Orphans /\ m \in Orphans
    <2>1. PICK i \in 1..Len(row) : row[i] = n /\ position[n] = InRow(row, i)
      BY <1>1, <1>8
    <2>2. PICK j \in 1..Len(row) : row[j] = m /\ position[m] = InRow(row, j)
      BY <1>1, <1>8
    <2>3. i < j \/ j < i
      BY <2>1, <2>2
    <2>4. CASE i < j
      <3>1. position[n][1] + 2 * (Width[n] + GapX) <= position[m][1]
        BY <2>1, <2>2, <2>4, RowStacks
      <3> QED
        BY <3>1 DEF Apart
    <2>5. CASE j < i
      <3>1. position[m][1] + 2 * (Width[m] + GapX) <= position[n][1]
        BY <2>1, <2>2, <2>5, RowStacks
      <3> QED
        BY <3>1 DEF Apart
    <2> QED
      BY <2>3, <2>4, <2>5
  <1> QED
    BY <1>2, <1>5, <1>6, <1>7, <1>8

\* Where a node is put right of everything, it is clear of every box.
LEMMA AddedIsClear ==
    ASSUME Assigned, Laid, position # <<>>, NEW n \in canvas.nodes
    PROVE  position[n][1] + 2 * (Width[n] + GapX) <= AutoPlace[1]
  <1>1. PICK row \in Orders(Orphans) : \A o \in Orphans :
           \E k \in 1..Len(row) : row[k] = o /\ position[o] = InRow(row, k)
    BY Positions
  <1>2. cols \in Columns /\ GapX \in Nat /\ Width \in [Node -> Nat]
    BY MeasureAssumption DEF Laid
  <1>3. canvas.nodes # {} /\ canvas.nodes \subseteq Node /\ IsFiniteSet(canvas.nodes)
    BY Positions, ColumnsFilled
  <1>4. ASSUME NEW o \in canvas.nodes PROVE position[o][1] \in Int /\ Width[o] \in Nat
    <2>1. Width[o] \in Nat
      BY <1>2, <1>3
    <2>2. CASE o \in Connected(canvas)
      <3>1. position[o] = InColumn(o)
        BY <2>2, Positions
      <3>2. InColumn(o)[1] \in Int
        BY <1>2, <2>2, InColumnType
      <3> QED
        BY <2>1, <3>1, <3>2
    <2>3. CASE o \notin Connected(canvas)
      <3>1. o \in Orphans
        BY <2>3 DEF Orphans
      <3>2. PICK k \in 1..Len(row) : position[o] = InRow(row, k)
        BY <1>1, <3>1
      <3>3. InRow(row, k)[1] \in Int
        BY RowStacks
      <3> QED
        BY <2>1, <3>2, <3>3
    <2> QED
      BY <2>2, <2>3
  <1>5. PICK f : f = [o \in canvas.nodes |-> position[o][1] + 2 * Width[o]]
    OBVIOUS
  <1>6. \A o \in canvas.nodes : f[o] = position[o][1] + 2 * Width[o] /\ f[o] \in Int
    BY <1>4, <1>5
  <1>7. PICK B : B = {f[o] : o \in canvas.nodes}
    OBVIOUS
  <1>8. B = {position[o][1] + 2 * Width[o] : o \in canvas.nodes}
    BY <1>6, <1>7
  <1>9. B \in SUBSET Int /\ B # {} /\ IsFiniteSet(B)
    <2>1. IsFiniteSet(B)
      BY <1>3, <1>7, FiniteSizes
    <2> QED
      BY <1>3, <1>6, <1>7, <2>1
  <1>10. PICK b : b = Max(B)
    OBVIOUS
  <1>11. b \in Int /\ \A y \in B : y <= b
    BY <1>9, <1>10, MaxFacts
  <1>12. AutoPlace[1] = b + 2 * GapX
    BY <1>8, <1>10 DEF AutoPlace
  <1>13. position[n][1] + 2 * Width[n] <= b
    BY <1>6, <1>7, <1>11
  <1> QED
    BY <1>2, <1>4, <1>11, <1>12, <1>13

\* So nothing overlaps.
LEMMA LaidIsApart ==
    ASSUME LInv, Walked, canvas \in Drawn, Laid
    PROVE  NothingOverlaps
  <1> SUFFICES ASSUME position # <<>> PROVE NothingOverlaps
    BY DEF NothingOverlaps
  <1>1. Assigned /\ cols \in Columns
    BY DEF Assigned, Laid
  <1>2. ASSUME NEW n \in canvas.nodes, NEW m \in canvas.nodes, n # m
        PROVE  Apart(position[n], Width[n], Height[n], position[m], Width[m], Height[m])
    BY <1>1, <1>2, BoxesApart
  <1>3. ASSUME NEW e \in Attached(canvas), level[e[2]] = level[e[1]] + 1
        PROVE  position[e[2]][1] - position[e[1]][1] >= 2 * (Width[e[1]] + LabelWidth[e])
    <2>1. e[1] \in Connected(canvas) /\ e[2] \in Connected(canvas)
      BY DEF Connected, Attached
    <2>2. position[e[1]] = InColumn(e[1]) /\ position[e[2]] = InColumn(e[2])
      BY <1>1, <2>1, Positions
    <2> QED
      BY <1>1, <1>3, <2>2, LabelsFit
  <1>4. ASSUME NEW n \in canvas.nodes, NEW m \in Node
        PROVE  Apart(position[n], Width[n], Height[n], AutoPlace, Width[m], Height[m])
    BY <1>1, AddedIsClear DEF Apart
  <1> QED
    BY <1>2, <1>3, <1>4 DEF NothingOverlaps

-----------------------------------------------------------------------------
(* The layout as a whole                                                   *)

\* What the second half keeps true.
Arranged ==
    /\ canvas \in Drawn
    /\ cols # <<>> => pc = "done" /\ cols \in Columns
    /\ Laid

\* It reads what the first half has left and changes nothing of it.
LEMMA PlacementStays ==
    ASSUME UNCHANGED vars
    PROVE  /\ Columns' = Columns /\ LastColumn' = LastColumn /\ Orphans' = Orphans
           /\ Connected(canvas)' = Connected(canvas)
           /\ \A l : Members(l)' = Members(l)
           /\ UNCHANGED cols => \A row : Placed(row)' = Placed(row)
  <1>1. Connected(canvas)' = Connected(canvas) /\ Orphans' = Orphans
    BY DEF vars, Connected, Attached, Orphans
  <1>2. \A l : Members(l)' = Members(l)
    BY <1>1 DEF vars, Members
  <1>3. LastColumn' = LastColumn
    BY DEF vars, LastColumn, Connected, Attached, Max
  <1>4. Columns' = Columns
    BY <1>2, <1>3 DEF Columns
  <1>5. Left' = Left
    BY DEF vars, Left, LastColumn, Cursor, ColumnWidth, Gap, Members, Connected, Attached, Max
  <1>6. \A l : ColumnWidth(l)' = ColumnWidth(l)
    BY DEF vars, ColumnWidth, Members, Connected, Attached, Max
  <1>7. ASSUME UNCHANGED cols
        PROVE  \A row : Placed(row)' = Placed(row)
    <2>1. ASSUME NEW n PROVE InColumn(n)' = InColumn(n)
      <3>1. Rank(n)' = Rank(n)
        BY <1>7 DEF vars, Rank
      <3> QED
        BY <1>5, <1>6, <1>7, <3>1 DEF vars, InColumn, Down
    <2>2. ASSUME NEW row, NEW k PROVE InRow(row, k)' = InRow(row, k)
      <3>1. \A n : Bottom(n)' = Bottom(n)
        BY <2>1 DEF Bottom
      <3>2. {Bottom(m) : m \in Connected(canvas)}' = {Bottom(m) : m \in Connected(canvas)}
        BY <1>1, <3>1
      <3>3. Max({Bottom(m) : m \in Connected(canvas)})'
              = Max({Bottom(m) : m \in Connected(canvas)})
        BY <3>2
      <3>4. (Connected(canvas) = {})' = (Connected(canvas) = {})
        BY <1>1
      <3> QED
        BY <3>3, <3>4 DEF InRow
    <2>3. canvas' = canvas
      BY DEF vars
    <2> QED
      BY <1>1, <2>1, <2>2, <2>3 DEF Placed
  <1> QED
    BY <1>1, <1>2, <1>3, <1>4, <1>7

\* The second half leaves the columns as the first half has assigned them, so
\* what is proved of the first half holds while the second runs.
THEOREM PlacementKeepsLevels == PlacementSpec => Spec
  <1>1. PlacementInit => Init
    BY DEF PlacementInit
  <1>2. [PlacementNext]_<<vars, placement>> => [Next]_vars
    BY DEF PlacementNext, Group, Reorder, Place
  <1> QED
    BY <1>1, <1>2, PTL DEF PlacementSpec, Spec

\* Every step of both halves keeps the arrangement.
LEMMA ArrangedStep ==
    ASSUME LInv, Walked, Arranged, [PlacementNext]_<<vars, placement>>
    PROVE  Arranged'
  <1>1. position # <<>> => cols # <<>> /\ turns = <<>>
    <2>1. ASSUME position # <<>> PROVE cols # <<>>
      <3>1. Assigned /\ cols \in Columns
        BY <2>1 DEF Assigned, Arranged, Laid
      <3>2. 0 \in DOMAIN cols
        BY <3>1, ColumnsFilled DEF Columns
      <3> QED
        BY <3>2
    <2> QED
      BY <2>1 DEF Arranged, Laid
  <1>2. ASSUME UNCHANGED <<vars, cols, turns, position>> PROVE Arranged'
    <2>1. UNCHANGED vars /\ UNCHANGED cols
      BY <1>2
    <2>2. (canvas \in Drawn)' /\ (cols # <<>> => pc = "done" /\ cols \in Columns)'
      BY <1>2, <2>1, PlacementStays DEF vars, Arranged
    <2>3. Laid'
      <3>1. CASE position = <<>>
        BY <1>2, <3>1 DEF Laid
      <3>2. CASE position # <<>>
        <4>1. PICK row \in Orders(Orphans) : position = Placed(row)
          BY <3>2 DEF Arranged, Laid
        <4>2. row \in Orders(Orphans)' /\ position' = Placed(row)'
          BY <1>2, <2>1, <4>1, PlacementStays
        <4>3. (pc = "done")' /\ turns' = <<>> /\ (cols \in Columns)'
          BY <1>2, <2>1, <3>2, PlacementStays DEF vars, Arranged, Laid
        <4> QED
          BY <4>2, <4>3 DEF Laid
      <3> QED
        BY <3>1, <3>2
    <2> QED
      BY <2>2, <2>3 DEF Arranged
  <1>3. ASSUME Next, UNCHANGED placement PROVE Arranged'
    <2>1. pc # "done" /\ UNCHANGED canvas
      BY <1>3 DEF Next, Seed, Push, Seeded, Pop, Fallback
    <2>2. cols = <<>> /\ position = <<>>
      BY <2>1 DEF Arranged, Laid
    <2>3. cols' = <<>> /\ position' = <<>>
      BY <1>3, <2>2 DEF placement
    <2> QED
      BY <2>1, <2>3 DEF Arranged, Laid
  <1>4. ASSUME Group PROVE Arranged'
    <2>1. UNCHANGED vars /\ position' = <<>>
      BY <1>1, <1>4 DEF Group
    <2>2. (canvas \in Drawn)' /\ (pc = "done")' /\ (cols \in Columns)'
      BY <1>4, <2>1, PlacementStays DEF vars, Arranged, Group
    <2> QED
      BY <2>1, <2>2 DEF Arranged, Laid
  <1>5. ASSUME Reorder PROVE Arranged'
    <2>1. UNCHANGED vars /\ position' = <<>>
      BY <1>1, <1>5 DEF Reorder
    <2>2. PICK sorted \in Orders(Members(Head(turns).column)) :
             cols' = [cols EXCEPT ![Head(turns).column] = sorted]
      BY <1>5 DEF Reorder
    <2>3. PICK l : l = Head(turns).column
      OBVIOUS
    <2>4. sorted \in Orders(Members(l)) /\ cols' = [cols EXCEPT ![l] = sorted]
      BY <2>2, <2>3
    <2>5. cols # <<>> => pc = "done" /\ cols' \in Columns
      <3>1. ASSUME cols \in Columns PROVE cols' \in Columns
        <4>1. CASE l \in 0..LastColumn
          BY <2>4, <3>1, <4>1 DEF Columns
        <4>2. CASE l \notin 0..LastColumn
          <5>1. cols' = cols
            BY <2>4, <3>1, <4>2 DEF Columns
          <5> QED
            BY <3>1, <5>1
        <4> QED
          BY <4>1, <4>2
      <3> QED
        BY <3>1 DEF Arranged
    <2>6. cols = <<>> => cols' = <<>>
      BY <2>4
    <2>7. (canvas \in Drawn)' /\ (cols # <<>> => pc = "done" /\ cols \in Columns)'
      BY <2>1, <2>5, <2>6, PlacementStays DEF vars, Arranged
    <2> QED
      BY <2>1, <2>7 DEF Arranged, Laid
  <1>6. ASSUME Place PROVE Arranged'
    <2>1. UNCHANGED vars /\ UNCHANGED cols /\ turns' = <<>> /\ cols # <<>>
      BY <1>6 DEF Place
    <2>2. PICK row \in Orders(Orphans) : position' = Placed(row)
      BY <1>6 DEF Place, Placed
    <2>3. (canvas \in Drawn)' /\ (pc = "done")' /\ (cols \in Columns)'
      BY <2>1, PlacementStays DEF vars, Arranged
    <2>4. row \in Orders(Orphans)' /\ position' = Placed(row)'
      BY <2>1, <2>2, PlacementStays
    <2>5. Laid'
      BY <2>1, <2>3, <2>4 DEF Laid
    <2> QED
      BY <2>3, <2>5 DEF Arranged
  <1> QED
    BY <1>2, <1>3, <1>4, <1>5, <1>6 DEF PlacementNext, placement

\* For every diagram, of any size, and whatever the measures of its boxes and
\* labels: in the finished layout no box touches another, the labels between
\* neighbouring columns have room (layout.go:218-219), and where add_node or
\* create_subdiagram puts the next node (layout.go:288) it is clear of all of them.
THEOREM BoxesNeverOverlap == PlacementSpec => []NothingOverlaps
  <1>1. PlacementInit => Arranged
    BY DEF PlacementInit, Init, Arranged, Laid
  <1>2. LInv /\ Walked /\ Arranged /\ [PlacementNext]_<<vars, placement>> => Arranged'
    BY ArrangedStep
  <1>3. LInv /\ Walked /\ Arranged => NothingOverlaps
    BY LaidIsApart DEF Arranged
  <1>4. PlacementSpec => [](LInv /\ Walked)
    BY PlacementKeepsLevels, WalkedInvariance, PTL
  <1> QED
    BY <1>1, <1>2, <1>3, <1>4, PTL DEF PlacementSpec
=============================================================================
