-------------------------- MODULE LayoutPlacement --------------------------
(***************************************************************************)
(* The second half of "Tidy up" (app.js:2862-2950) and of AutoLayout       *)
(* (layout.go:153-290), behind the columns of LayoutLevels: the nodes are  *)
(* grouped by column, reordered against crossings, and given their         *)
(* positions; nodes without edges stand in a row below.  Coordinates are   *)
(* counted in half pixels, because the code centres by halving.  The order *)
(* in which the diagram lists its nodes is left open, as in LayoutLevels.  *)
(***************************************************************************)
EXTENDS LayoutLevels, SequencesExt

CONSTANTS
    Width, Height,  \* of a node's box (nodeSize, estimateNodeSize)
    LabelWidth,     \* of an edge's label with its margin, 0 without a label
    GapX, GapY      \* between columns, between boxes in a column

ASSUME FiniteAssumption == \A c \in Drawn : IsFiniteSet(c.nodes)
ASSUME MeasureAssumption ==
    /\ {Width, Height} \subseteq [Node -> Nat \ {0}]
    /\ LabelWidth \in [Edge -> Nat] /\ {GapX, GapY} \subseteq Nat \ {0}

VARIABLES
    cols, turns,    \* the columns, and the reorderings they have still to take
    position        \* of each node's upper left corner, <<>> before the layout

placement == <<cols, turns, position>>

-----------------------------------------------------------------------------
(* Columns and their order *)

\* The ways to list some nodes.
Orders(nodes) == Bijection(1..Cardinality(nodes), nodes)

Members(l) == {n \in Connected(canvas) : level[n] = l}
LastColumn == Max({level[n] : n \in Connected(canvas)} \cup {0})

\* Each column lists its members.
Columns == {c \in [0..LastColumn -> UNION {Orders(Members(l)) : l \in 0..LastColumn}] :
               \A l \in 0..LastColumn : c[l] \in Orders(Members(l))}

Rank(n) == CHOOSE k \in DOMAIN cols[level[n]] : cols[level[n]][k] = n

\* inAdj.  Edges are a set, so parallel ones count once; the code counts each, which
\* shifts a median and thereby the order in a column, but nothing stated here.
Sources(n) == {m \in canvas.nodes : <<m, n>> \in canvas.edges}

\* Four sweeps: right over incoming edges, left over outgoing ones, and again.
Sweeps(last) ==
    LET right == [k \in 1..last |-> [column |-> k, useIn |-> TRUE]]
        left == [k \in 1..last |-> [column |-> last - k, useIn |-> FALSE]]
    IN right \o left \o right \o left

\* The columns stand; an empty diagram is not laid out.
Group == /\ pc = "done" /\ cols = <<>> /\ canvas.nodes # {}
         /\ cols' \in Columns
         /\ turns' = Sweeps(LastColumn)
         /\ UNCHANGED <<vars, position>>

\* Twice the median of the neighbours' ranks; without neighbours the own rank.
Key(n, neighbours) ==
    LET ranks == SetToSortSeq(neighbours, LAMBDA a, b : Rank(a) < Rank(b))
        m == Len(ranks)
    IN IF m = 0 THEN 2 * Rank(n)
       ELSE Rank(ranks[(m + 1) \div 2]) + Rank(ranks[m \div 2 + 1])

\* A stable sort of one column by the medians of its nodes.
Reorder ==
    /\ turns # <<>>
    /\ LET l == Head(turns).column
           key(n) == Key(n, IF Head(turns).useIn THEN Sources(n) ELSE Targets(canvas, n))
           before(a, b) == key(a) < key(b) \/ (key(a) = key(b) /\ Rank(a) < Rank(b))
       IN \E sorted \in Orders(Members(l)) :
             /\ \A i, j \in DOMAIN sorted : i < j => before(sorted[i], sorted[j])
             /\ cols' = [cols EXCEPT ![l] = sorted]
    /\ turns' = Tail(turns)
    /\ UNCHANGED <<vars, position>>

-----------------------------------------------------------------------------
(* Positions *)

ColumnWidth(l) == Max({Width[n] : n \in Members(l)})

\* Mutant: the label widens the gap behind its target's column.
GapBehindTarget(l) ==
    Max({GapX} \cup {LabelWidth[e] : e \in {f \in Attached(canvas) :
                         level[f[2]] = l /\ level[f[1]] = l - 1}})

\* Between column l and the next: the widest label that crosses there has room.
Gap(l) ==
    Max({GapX} \cup {LabelWidth[e] : e \in {f \in Attached(canvas) :
                         level[f[1]] = l /\ level[f[2]] = l + 1}})

\* How far the cursor has moved behind k boxes, given what each takes.
Cursor(taken) == LET at[k \in Nat] == IF k = 0 THEN 0 ELSE at[k - 1] + taken[k]
                 IN at

Left == Cursor([k \in 1..LastColumn |-> ColumnWidth(k - 1) + Gap(k - 1)])

\* Down a column; the last box has no gap behind it.
Down(col) == Cursor([k \in 1..Len(col) |-> Height[col[k]] + GapY])

InColumn(n) ==
    LET col == cols[level[n]]
    IN <<2 * Left[level[n]] + ColumnWidth(level[n]) - Width[n],
         2 * Down(col)[Rank(n) - 1] - (Down(col)[Len(col)] - GapY)>>

Bottom(n) == InColumn(n)[2] + 2 * Height[n]

\* Nodes without edges: a row below the columns.
Orphans == canvas.nodes \ Connected(canvas)

InRow(row, k) ==
    <<2 * Cursor([j \in 1..Len(row) |-> Width[row[j]] + GapX])[k - 1],
      IF Connected(canvas) = {} THEN 0
      ELSE Max({Bottom(m) : m \in Connected(canvas)}) + 4 * GapY>>

Place == /\ cols # <<>> /\ turns = <<>> /\ position = <<>>
         /\ \E row \in Orders(Orphans) :
               position' = [n \in canvas.nodes |->
                   IF n \in Connected(canvas) THEN InColumn(n)
                   ELSE InRow(row, CHOOSE k \in DOMAIN row : row[k] = n)]
         /\ UNCHANGED <<vars, cols, turns>>

\* Where add_node and create_subdiagram put a node: right of everything.
AutoPlace ==
    LET right == {position[n][1] + 2 * Width[n] : n \in canvas.nodes}
        top == {position[n][2] : n \in canvas.nodes}
        bottom == {position[n][2] + 2 * Height[n] : n \in canvas.nodes}
    IN <<Max(right) + 2 * GapX, (Min(top) + Max(bottom)) \div 2>>

-----------------------------------------------------------------------------

PlacementInit == Init /\ cols = <<>> /\ turns = <<>> /\ position = <<>>

PlacementNext == (Next /\ UNCHANGED placement) \/ Group \/ Reorder \/ Place

PlacementSpec == /\ PlacementInit /\ [][PlacementNext]_<<vars, placement>>
                 /\ WF_<<vars, placement>>(PlacementNext)

-----------------------------------------------------------------------------
(* Properties *)

Apart(p, w, h, q, v, g) ==
    \/ p[1] + 2 * (w + GapX) <= q[1] \/ q[1] + 2 * (v + GapX) <= p[1]
    \/ p[2] + 2 * (h + GapY) <= q[2] \/ q[2] + 2 * (g + GapY) <= p[2]

\* In the finished layout no box touches another, a label on an edge to the next
\* column fits between the two boxes (layout.go:218-219), and a node that is
\* added then stands clear of all of them (layout.go:288).
NothingOverlaps ==
    position # <<>> =>
        /\ \A n, m \in canvas.nodes :
              n # m => Apart(position[n], Width[n], Height[n],
                             position[m], Width[m], Height[m])
        /\ \A e \in Attached(canvas) :
              level[e[2]] = level[e[1]] + 1 =>
                  position[e[2]][1] - position[e[1]][1] >= 2 * (Width[e[1]] + LabelWidth[e])
        /\ \A n \in canvas.nodes, m \in Node :
              Apart(position[n], Width[n], Height[n], AutoPlace, Width[m], Height[m])
=============================================================================
