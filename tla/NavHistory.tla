----------------------------- MODULE NavHistory -----------------------------
(***************************************************************************)
(* Navigation in one tab of the editor: the breadcrumb of the diagrams a   *)
(* user has drilled through, the Back/Forward history of the application,  *)
(* and the history of the browser.  All three are changed around           *)
(* loadDiagram, which waits for the save it flushes and for the diagram it *)
(* opens; gestures, failures and conflicts fall in between.                *)
(*                                                                         *)
(* A slot of open is one running call of loadDiagram or of the debounced   *)
(* save.  A conflict in the save makes it load the shown diagram first     *)
(* (handleConflict), a call inside the call: a slot holds a stack of calls.*)
(* Names are left out of the entries; what a diagram contains is free, so  *)
(* every path of the sidebar's tree may be there.                          *)
(***************************************************************************)
EXTENDS Integers, Sequences, FiniteSets

CONSTANTS
    Id,             \* diagram ids
    None,           \* no diagram; as an address, a page that names none
    MaxOpen,        \* bound: calls running at once
    MaxTrail,       \* bound: length of the breadcrumb a gesture builds
    MaxGestures,    \* bound: gestures in one behaviour
    MaxTrouble      \* bound: lost answers, conflicts and outside deletions

ASSUME NoneAssumption == None \notin Id
ASSUME BoundAssumption == {MaxOpen, MaxTrail, MaxGestures, MaxTrouble} \subseteq Nat \ {0}

VARIABLES
    stored, fresh,      \* the service: ids stored, ids not yet used
    diagram, dirty,     \* the diagram on screen; saveTimer is set
    breadcrumb, title,  \* the drill-down trail; the trail as last rendered
    navStack, navIndex, navigatingHistory,
    urls, at,           \* the browser's history and the place in it
    open,               \* running calls
    gestures, trouble,  \* counters of the bounds
    crossed, astray     \* history: see below

page    == <<diagram, dirty, breadcrumb, title>>
nav     == <<navStack, navIndex, navigatingHistory>>
browser == <<urls, at>>
server  == <<stored, fresh>>
vars    == <<stored, fresh, diagram, dirty, breadcrumb, title, navStack, navIndex,
             navigatingHistory, urls, at, open, gestures, trouble, crossed, astray>>

\* crossed: a call started while another one was running (a user in a hurry, a save).
\* astray: the last call left the page on a place the history does not know:
\* it failed and was no drill-in, crumb or sidebar click (these put the trail back),
\* but a Back, Forward, popstate, start, createSubdiagram, or the opening of a new or
\* of the root diagram; or it was a Back whose flush conflicted.

Slot  == 1..MaxOpen
Entry == [id: Id, crumbs: Seq(Id)]
Free  == [by |-> "none"]
Frame == [id: Id \cup {None}, keep: BOOLEAN, url: {"push", "replace", "stay"},
          stage: {"wait", "flush", "get"}]
Caller == {"nav", "enter", "crumb", "side", "create", "root", "pop", "boot", "made", "timer"}
Idle  == \A s \in Slot : open[s] = Free

Call(id, keep, url) == [id |-> id, keep |-> keep, url |-> url, stage |-> "flush"]
Top(s)    == Head(open[s].calls)
Below(s)  == Tail(open[s].calls)

-----------------------------------------------------------------------------
(* loadDiagram, from one await to the next. *)

\* From the call to its first request: the flushed save if an edit waits for it,
\* else the diagram, and then the trail is cleared unless the caller keeps it.
Go(s, by, calls, trail, back) ==
    LET c == Head(calls)
        flush == dirty /\ diagram # None
    IN  /\ open' = [open EXCEPT ![s] = [by |-> by, back |-> back,
             calls |-> <<[c EXCEPT !.stage = IF flush THEN "flush" ELSE "get"]>> \o Tail(calls)]]
        /\ breadcrumb' = IF flush \/ c.keep THEN trail ELSE <<>>
        /\ dirty' = FALSE

\* The entry of the same diagram is refreshed, any other one cuts off what Forward
\* would have reached.
PushEntry(id) ==
    LET entry == [id |-> id, crumbs |-> breadcrumb]
        same  == navIndex > 0 /\ navStack[navIndex].id = id
    IN  IF same
        THEN navStack' = [navStack EXCEPT ![navIndex] = entry] /\ UNCHANGED navIndex
        ELSE /\ navStack' = Append(SubSeq(navStack, 1, navIndex), entry)
             /\ navIndex' = navIndex + 1

\* Mutant: a move through the history is recorded like any other.
RecordAlways(id) == PushEntry(id)

\* Mutant: opening the same diagram again stacks a second entry.
RecordTwice(id) ==
    \/ navigatingHistory /\ UNCHANGED <<navStack, navIndex>>
    \/ /\ ~navigatingHistory
       /\ navStack' = Append(SubSeq(navStack, 1, navIndex), [id |-> id, crumbs |-> breadcrumb])
       /\ navIndex' = navIndex + 1

\* Mutant: the index is one short of the new entry.
RecordShort(id) ==
    \/ navigatingHistory /\ UNCHANGED <<navStack, navIndex>>
    \/ /\ ~navigatingHistory
       /\ navStack' = Append(SubSeq(navStack, 1, navIndex), [id |-> id, crumbs |-> breadcrumb])
       /\ UNCHANGED navIndex

\* recordNav: nothing during a move through the history.
Record(id) ==
    \/ navigatingHistory /\ UNCHANGED <<navStack, navIndex>>
    \/ ~navigatingHistory /\ PushEntry(id)

\* Mutant: a move through the history leaves the address of the page alone.
AddressOnPush(id, url) ==
    IF url # "push" THEN UNCHANGED browser
    ELSE urls' = Append(SubSeq(urls, 1, at), id) /\ at' = at + 1

Address(id, url) ==
    CASE url = "stay"    -> UNCHANGED browser
      [] url = "replace" -> urls' = [urls EXCEPT ![at] = id] /\ UNCHANGED at
      [] url = "push"    -> urls' = Append(SubSeq(urls, 1, at), id) /\ at' = at + 1

\* The answer arrived: everything the rest of loadDiagram does.
Show(c) ==
    /\ diagram' = c.id /\ title' = breadcrumb
    /\ Record(c.id)
    /\ Address(c.id, c.url)

\* Mutant: the flag falls only when the diagram could be loaded.
ReleaseOnSuccess(by, ok) ==
    navigatingHistory' = (navigatingHistory /\ ~(by = "nav" /\ ok))

\* gotoNav's finally.
Release(by, ok) == navigatingHistory' = (navigatingHistory /\ by # "nav")

\* The outermost call succeeded; a save alone or a reload leaves the address alone.
Done(s) ==
    /\ open' = [open EXCEPT ![s] = Free]
    /\ Release(open[s].by, TRUE)
    /\ astray' = CASE open[s].by = "nav" -> breadcrumb # navStack[navIndex].crumbs
                   [] open[s].by = "made" -> TRUE      \* the address stays behind
                   [] open[s].by = "timer" -> astray
                   [] OTHER -> FALSE

-----------------------------------------------------------------------------
(* Answers. *)

\* The flushed save is done, refused, lost, or overwritten later at the user's
\* wish: loadDiagram goes on.  A debounced save ends here.
Flushed(s) ==
    LET c == Top(s) IN
    /\ open[s] # Free /\ c.stage = "flush"
    /\ IF c.id = None
       THEN Done(s) /\ UNCHANGED breadcrumb
       ELSE /\ open' = [open EXCEPT ![s].calls[1].stage = "get"]
            /\ breadcrumb' = IF c.keep THEN breadcrumb ELSE <<>>
            /\ UNCHANGED <<navigatingHistory, astray>>
    /\ UNCHANGED <<server, diagram, dirty, title, navStack, navIndex, browser,
                   gestures, trouble, crossed>>

\* The flushed save is refused (412) and the user chooses to reload: the shown
\* diagram is loaded first, without keepBreadcrumb.
Conflict(s) ==
    /\ open[s] # Free /\ Top(s).stage = "flush" /\ diagram # None
    /\ trouble < MaxTrouble /\ trouble' = trouble + 1
    /\ Go(s, open[s].by, <<Call(diagram, FALSE, "stay")>> \o open[s].calls, breadcrumb, open[s].back)
    /\ astray' = (astray \/ open[s].by # "timer")
    /\ UNCHANGED <<server, diagram, title, nav, browser, gestures, crossed>>

\* The diagram arrives.  Inside another call, that call goes on past its flush.
Arrives(s) ==
    LET c == Top(s)
        under == Head(Below(s))
    IN
    /\ open[s] # Free /\ c.stage = "get" /\ c.id \in stored
    /\ Show(c)
    /\ IF Below(s) = <<>> \/ under.id = None
       THEN Done(s) /\ UNCHANGED breadcrumb
       ELSE /\ open' = [open EXCEPT ![s].calls = <<[under EXCEPT !.stage = "get"]>> \o Tail(Below(s))]
            /\ breadcrumb' = IF under.keep THEN breadcrumb ELSE <<>>
            /\ UNCHANGED <<navigatingHistory, astray>>
    /\ UNCHANGED <<server, dirty, gestures, trouble, crossed>>

\* Mutant: a diagram that cannot be entered stays on the trail.
RestoredLess(s) == IF open[s].by \in {"crumb", "side"} THEN open[s].back ELSE breadcrumb

\* What the callers put back: enterSubdiagram pops, the crumb and the sidebar
\* restore the trail they replaced, the others leave it as it is.
Restored(s) ==
    CASE open[s].by = "enter" -> SubSeq(breadcrumb, 1, Len(breadcrumb) - 1)
      [] open[s].by \in {"crumb", "side"} -> open[s].back
      [] OTHER -> breadcrumb

\* The request fails: no such diagram, or the answer is lost.  Every call of the
\* slot is given up.  At the start the next candidate is tried, then a new diagram.
Fails(s) ==
    LET c == Top(s)
        left == open[s].back
    IN
    /\ open[s] # Free /\ c.stage = "get"
    /\ \/ c.id \notin stored /\ UNCHANGED trouble
       \/ c.id \in stored /\ trouble < MaxTrouble /\ trouble' = trouble + 1
    /\ \/ /\ open[s].by = "boot" /\ left # <<>>
          /\ Go(s, "boot", <<Call(Head(left), FALSE, IF urls[1] = Head(left) THEN "stay" ELSE "push")>>,
                breadcrumb, Tail(left))
          /\ UNCHANGED <<server, navigatingHistory, astray>>
       \/ /\ open[s].by = "boot" /\ left = <<>>
          /\ \E d \in fresh :
               /\ Go(s, "made", <<Call(d, FALSE, "stay")>>, breadcrumb, <<>>)
               /\ stored' = stored \cup {d} /\ fresh' = fresh \ {d}
          /\ UNCHANGED <<navigatingHistory, astray>>
       \/ /\ open[s].by # "boot" \/ (fresh = {} /\ left = <<>>)
          /\ open' = [open EXCEPT ![s] = Free]
          /\ breadcrumb' = Restored(s)
          /\ Release(open[s].by, FALSE)
          /\ astray' = (astray \/ open[s].by \notin {"enter", "crumb", "side"})
          /\ UNCHANGED <<server, dirty>>
    /\ UNCHANGED <<diagram, title, navStack, navIndex, browser, gestures, crossed>>

\* The second half of the gestures that first ask the service: created or deleted,
\* and the sidebar fetched, the diagram is opened from whatever is then shown.
Proceeds(s) ==
    /\ open[s] # Free /\ Top(s).stage = "wait"
    /\ Go(s, open[s].by, open[s].calls,
          IF open[s].by = "create" THEN Append(breadcrumb, diagram) ELSE breadcrumb, <<>>)
    /\ UNCHANGED <<server, diagram, title, nav, browser, gestures, trouble, crossed, astray>>

-----------------------------------------------------------------------------
(* Gestures. *)

Gesture(s) ==
    /\ open[s] = Free /\ gestures < MaxGestures /\ gestures' = gestures + 1
    /\ crossed' = (crossed \/ ~Idle)
    /\ UNCHANGED <<diagram, title, trouble, astray>>

Waits(s, by, id, keep) ==
    open' = [open EXCEPT ![s] = [by |-> by, back |-> <<>>,
                 calls |-> <<[Call(id, keep, "push") EXCEPT !.stage = "wait"]>>]]

GotoNav(s, i) ==
    /\ navIndex' = i /\ navigatingHistory' = TRUE
    /\ Go(s, "nav", <<Call(navStack[i].id, TRUE, "replace")>>, navStack[i].crumbs, <<>>)

Back(s) ==
    /\ Gesture(s) /\ navIndex > 1
    /\ GotoNav(s, navIndex - 1)
    /\ UNCHANGED <<server, navStack, browser>>

Forward(s) ==
    /\ Gesture(s) /\ navIndex < Len(navStack)
    /\ GotoNav(s, navIndex + 1)
    /\ UNCHANGED <<server, navStack, browser>>

\* enterSubdiagram: the shown diagram joins the trail before the load starts.
Enter(s) ==
    /\ Gesture(s) /\ diagram # None /\ Len(breadcrumb) < MaxTrail
    /\ \E sub \in Id \ fresh :
         Go(s, "enter", <<Call(sub, TRUE, "push")>>, Append(breadcrumb, diagram), <<>>)
    /\ UNCHANGED <<server, nav, browser>>

\* A click on a rendered crumb: the trail is cut at its first occurrence, if any.
Crumb(s) ==
    /\ Gesture(s)
    /\ \E k \in 1..Len(title) :
         LET found == {j \in 1..Len(breadcrumb) : breadcrumb[j] = title[k]}
             trail == IF found = {} THEN breadcrumb
                      ELSE SubSeq(breadcrumb, 1, (CHOOSE j \in found : \A i \in found : j <= i) - 1)
         IN  Go(s, "crumb", <<Call(title[k], TRUE, "push")>>, trail, breadcrumb)
    /\ UNCHANGED <<server, nav, browser>>

Trail == UNION {[1..n -> Id \ fresh] : n \in 0..MaxTrail}

\* A click in the sidebar adopts the path of the tree as the trail.
Side(s) ==
    /\ Gesture(s)
    /\ \E id \in Id \ fresh, trail \in Trail :
         /\ <<trail, id>> # <<title, diagram>>
         /\ Go(s, "side", <<Call(id, TRUE, "push")>>, trail, breadcrumb)
    /\ UNCHANGED <<server, nav, browser>>

\* createSubdiagram links the new diagram in the shown one, which is then saved.
CreateSubdiagram(s) ==
    /\ Gesture(s) /\ diagram # None /\ Len(breadcrumb) < MaxTrail
    /\ \E d \in fresh : /\ Waits(s, "create", d, TRUE)
                        /\ stored' = stored \cup {d} /\ fresh' = fresh \ {d}
    /\ dirty' = TRUE
    /\ UNCHANGED <<breadcrumb, nav, browser>>

\* New diagram and import.
New(s) ==
    /\ Gesture(s)
    /\ \E d \in fresh : /\ Waits(s, "root", d, FALSE)
                        /\ stored' = stored \cup {d} /\ fresh' = fresh \ {d}
    /\ UNCHANGED <<dirty, breadcrumb, nav, browser>>

\* Deleting the shown diagram opens another one, or a new one if it was the last.
Delete(s) ==
    /\ Gesture(s) /\ diagram \in stored
    /\ \/ \E next \in stored \ {diagram} :
            /\ Waits(s, "root", next, FALSE)
            /\ stored' = stored \ {diagram} /\ UNCHANGED fresh
       \/ /\ stored = {diagram}
          /\ \E d \in fresh : /\ Waits(s, "root", d, FALSE)
                              /\ stored' = {d} /\ fresh' = fresh \ {d}
    /\ UNCHANGED <<dirty, breadcrumb, nav, browser>>

\* The browser's own Back and Forward: popstate loads what the address names,
\* unless it is shown already or the address names none.
PopState(s) ==
    /\ Gesture(s)
    /\ at' \in {at - 1, at + 1} \cap 1..Len(urls)
    /\ \/ /\ urls[at'] \in {None, diagram}
          /\ UNCHANGED <<open, dirty, breadcrumb>>
       \/ /\ urls[at'] \notin {None, diagram}
          /\ Go(s, "pop", <<Call(urls[at'], FALSE, "stay")>>, breadcrumb, <<>>)
    /\ UNCHANGED <<server, nav, urls>>

Edit ==
    /\ diagram # None /\ ~dirty /\ dirty' = TRUE
    /\ gestures < MaxGestures /\ gestures' = gestures + 1
    /\ UNCHANGED <<server, diagram, breadcrumb, title, nav, browser, open,
                   trouble, crossed, astray>>

\* The debounced save fires.
Save(s) ==
    /\ dirty /\ open[s] = Free
    /\ Go(s, "timer", <<Call(None, TRUE, "stay")>>, breadcrumb, <<>>)
    /\ crossed' = (crossed \/ ~Idle)
    /\ UNCHANGED <<server, diagram, title, nav, browser, gestures, trouble, astray>>

\* Another tab or session deletes a diagram.
Elsewhere ==
    /\ trouble < MaxTrouble /\ trouble' = trouble + 1
    /\ \E d \in stored : stored' = stored \ {d}
    /\ UNCHANGED <<fresh, page, nav, browser, open, gestures, crossed, astray>>

-----------------------------------------------------------------------------
\* init: the sidebar lists the stored diagrams, and perhaps some that are gone; the
\* one the address names is tried first, then the others as listed.
Init ==
    /\ fresh \in SUBSET Id /\ stored \in SUBSET (Id \ fresh)
    /\ diagram = None /\ dirty = FALSE /\ breadcrumb = <<>> /\ title = <<>>
    /\ navStack = <<>> /\ navIndex = 0 /\ navigatingHistory = FALSE
    /\ \E target \in {None} \cup (Id \ fresh),
          listed \in {l \in SUBSET (Id \ fresh) : stored \subseteq l /\ l # {} /\ IsFiniteSet(l)} :
         \E order \in [1..Cardinality(listed) -> listed] :
           /\ \A d \in listed : \E i \in DOMAIN order : order[i] = d
           /\ target \in listed => order[1] = target
           /\ urls = <<target>> /\ at = 1
           /\ open = [s \in Slot |-> IF s # 1 THEN Free ELSE
                [by |-> "boot", back |-> Tail(order),
                 calls |-> <<[Call(order[1], FALSE, IF target = order[1] THEN "stay" ELSE "push")
                              EXCEPT !.stage = "get"]>>]]
    /\ gestures = 0 /\ trouble = 0 /\ crossed = FALSE /\ astray = FALSE

Answer(s) == Flushed(s) \/ Arrives(s) \/ Fails(s) \/ Proceeds(s)

Next ==
    \/ \E s \in Slot : \/ Answer(s) \/ Conflict(s) \/ Save(s)
                       \/ Back(s) \/ Forward(s) \/ Enter(s) \/ Crumb(s) \/ Side(s)
                       \/ CreateSubdiagram(s) \/ New(s) \/ Delete(s) \/ PopState(s)
    \/ Edit \/ Elsewhere

Spec == Init /\ [][Next]_vars

\* Requests are answered and callbacks run; users and others need not act.
FairSpec == Spec /\ \A s \in Slot : WF_vars(Answer(s))

-----------------------------------------------------------------------------
TypeOK ==
    /\ stored \subseteq Id /\ fresh \subseteq Id
    /\ diagram \in Id \cup {None} /\ dirty \in BOOLEAN
    /\ breadcrumb \in Seq(Id) /\ title \in Seq(Id)
    /\ navStack \in Seq(Entry) /\ navIndex \in 0..Len(navStack)
    /\ (navIndex = 0) = (navStack = <<>>)
    /\ navigatingHistory \in BOOLEAN
    /\ urls \in Seq(Id \cup {None}) /\ at \in 1..Len(urls)
    /\ \A s \in Slot : open[s] # Free =>
         /\ open[s].by \in Caller /\ open[s].back \in Seq(Id)
         /\ open[s].calls \in Seq(Frame) /\ open[s].calls # <<>>
    /\ gestures \in 0..MaxGestures /\ trouble \in 0..MaxTrouble
    /\ crossed \in BOOLEAN /\ astray \in BOOLEAN

\* However calls overtake each other, no two neighbouring entries of the history
\* are the same diagram: Back always leads somewhere else (app.js:420-421).
NoRepeats ==
    \A i \in 1..Len(navStack) - 1 : navStack[i].id # navStack[i + 1].id

\* The history is not rewritten by moving through it, not even when the save that
\* Back flushes conflicts and the diagram it leaves is loaded again on the way:
\* Forward leads back to where the user was (app.js:411-412).
MovesKeepHistory == [][navigatingHistory /\ ~crossed => UNCHANGED navStack]_vars

\* As long as calls do not cross, the user stands, at rest, on the current entry of the
\* history: its diagram is on screen, its trail is the breadcrumb, rendered and in
\* memory, whichever way he came, also after opens that failed (app.js:408-412, 946).
EntryIsShown ==
    (Idle /\ ~crossed /\ ~astray /\ diagram # None) =>
        /\ navIndex > 0
        /\ navStack[navIndex] = [id |-> diagram, crumbs |-> breadcrumb]
        /\ title = breadcrumb

\* ... and the address of the page names the diagram on screen, so that reloading
\* the page or following a link leads to it.
AddressIsShown ==
    (Idle /\ ~crossed /\ ~astray /\ diagram # None) => urls[at] \in {None, diagram}

\* Whatever fails, a move through the history ends and later navigation is recorded
\* again: the flag never stays up (app.js:442-444).
MovesEnd == navigatingHistory ~> ~navigatingHistory
=============================================================================
