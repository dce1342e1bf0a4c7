---------------------------- MODULE UndoHistory ----------------------------
(***************************************************************************)
(* What undo and redo promise (README.md:119; tests/history-chain.spec.ts, *)
(* tests/nudge.spec.ts): the contents a diagram has had since it was       *)
(* opened stand in one line, undo and redo walk along it, a new change     *)
(* cuts off what was undone, and the oldest contents are forgotten.  A     *)
(* burst of nudges is one change.                                          *)
(***************************************************************************)
EXTENDS Integers, Sequences

CONSTANT HistoryLimit   \* steps that can be undone

VARIABLES
    timeline,   \* the contents, oldest first
    cursor,     \* the one that is shown
    burst       \* whether a burst of nudges is going on

vars == <<timeline, cursor, burst>>

Latest(s, n) == SubSeq(s, Len(s) - n + 1, Len(s))
Kept(s) == IF Len(s) > HistoryLimit + 1 THEN Latest(s, HistoryLimit + 1) ELSE s
Before == SubSeq(timeline, 1, cursor)

Init == Len(timeline) = 1 /\ cursor = 1 /\ burst = FALSE

\* One gesture makes n changes: creating a node that is wired at once is two.
Change(n) ==
    /\ ~burst /\ ~burst'
    /\ n <= cursor' /\ cursor' = Len(timeline')
    /\ timeline' = Kept(Before \o Latest(timeline', n))

\* The first nudge of a burst is a change ...
Nudge == /\ ~burst /\ burst'
         /\ cursor' = Len(timeline')
         /\ timeline' = Kept(Append(Before, timeline'[cursor']))

\* ... and the others belong to it.
NudgeOn == /\ burst /\ cursor = Len(timeline)
           /\ timeline' = [timeline EXCEPT ![cursor] = timeline'[cursor]]
           /\ UNCHANGED <<cursor, burst>>

BurstEnds == burst /\ ~burst' /\ UNCHANGED <<timeline, cursor>>

Undo == ~burst /\ cursor > 1 /\ cursor' = cursor - 1 /\ UNCHANGED <<timeline, burst>>
Redo == ~burst /\ cursor < Len(timeline) /\ cursor' = cursor + 1 /\ UNCHANGED <<timeline, burst>>

\* A diagram is opened: nothing that was done before can be undone in it.
Open == Len(timeline') = 1 /\ cursor' = 1 /\ UNCHANGED burst

Next == Undo \/ Redo \/ Nudge \/ NudgeOn \/ BurstEnds \/ Open \/ \E n \in {1, 2} : Change(n)

Spec == Init /\ [][Next]_vars
=============================================================================
