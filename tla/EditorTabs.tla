----------------------------- MODULE EditorTabs -----------------------------
(***************************************************************************)
(* The browser editor (cmd/diagramer/web/app.js) in several tabs over the  *)
(* HTTP API.  A tab shows one diagram, collects the user's edits and saves *)
(* them with a debounced PUT under the ETag it holds.  JavaScript runs one *)
(* callback at a time, so a step of a tab is the code between two awaits;  *)
(* a Task is an async function suspended in a request.  Requests travel    *)
(* independently: they are served and answered in any order.  The service  *)
(* is taken at its specification (module AtomicDiagrams): a request takes  *)
(* effect in one step.                                                     *)
(*                                                                         *)
(* The content of a diagram is the set of marks edits have put into it; a  *)
(* mark records the tab and the diagram its user meant.                    *)
(***************************************************************************)
EXTENDS Integers, Sequences

CONSTANTS
    Tab,            \* browser tabs
    Id,             \* diagram ids
    Gone,           \* no such diagram (never created, or deleted)
    Gestures,       \* what users do
    Patient,        \* whether a user waits for running requests before acting
    HistoryLimit,   \* undo steps kept (HISTORY_LIMIT)
    MaxRequests,    \* bound: requests of a tab in flight
    MaxGestures,    \* bound: gestures in one behaviour
    MaxFailures     \* bound: requests or answers lost

Gesture == {"edit", "undo", "redo", "place", "open", "rename", "convert", "delete",
            "new", "container", "port"}

ASSUME TabAssumption == Tab # {} /\ Gestures \subseteq Gesture /\ Patient \in BOOLEAN
ASSUME LimitAssumption == {HistoryLimit, MaxRequests, MaxGestures} \subseteq Nat \ {0}
ASSUME FailureAssumption == MaxFailures \in Nat

VARIABLES
    stored, clock,          \* the service: Id -> the version stored, last tag
    diagram, currentEtag,   \* per tab: the open diagram as shown, its ETag
    saveTimer, past, future,\* per tab: debounced save pending, undo and redo
    task,                   \* per tab: async functions waiting for an answer
    acts, failures,         \* counters of the bounds
    sent,                   \* history: marks put on the wire
    undone,                 \* history, per tab: marks its user took back
    waived                  \* history, per tab: diagrams its user lets it overwrite

server == <<stored, clock>>
page   == <<diagram, currentEtag, saveTimer, past, future>>
bounds == <<acts, failures>>
ghosts == <<sent, undone, waived>>
vars   == <<stored, clock, diagram, currentEtag, saveTimer, past, future, task,
            acts, failures, sent, undone, waived>>

Mark    == Tab \X Id \X (1..MaxGestures)
Body    == SUBSET Mark
NoTag   == -1                                   \* no If-Match header
Tag     == Nat \cup {NoTag}
Slot    == 1..MaxRequests
Version == [body: Body, tag: Nat, by: Tab \cup {Gone}]
NoTask  == [use |-> "none"]
Task    == [use: {"save", "load", "rename", "convert", "delete", "new", "container", "port"},
            op: {"PUT", "GET", "PATCH", "DELETE", "LIST", "POST"},
            id: Id, body: Body, tag: Tag,
            after: Seq(Id),      \* loadDiagram calls that wait for this save
            answer: {"none", "ok", "conflict", "notFound", "failed"}]

Exists == {i \in Id : stored[i] # Gone}

\* Every tab has booted into some diagram of the store (init).
Init ==
    /\ stored \in {v \in [Id -> {[body |-> {}, tag |-> 0, by |-> Gone], Gone}] :
                        \E i \in Id : v[i] # Gone}
    /\ clock = 0
    /\ diagram \in [Tab -> [id: Exists, body: {{}}]]
    /\ currentEtag = [t \in Tab |-> 0]
    /\ saveTimer = [t \in Tab |-> FALSE]
    /\ past = [t \in Tab |-> <<>>]
    /\ future = [t \in Tab |-> <<>>]
    /\ task = [t \in Tab |-> [s \in Slot |-> NoTask]]
    /\ acts = 0 /\ failures = 0
    /\ sent = {}
    /\ undone = [t \in Tab |-> {}]
    /\ waived = [t \in Tab |-> {}]

-----------------------------------------------------------------------------
(* Requests *)

Free(t, s) == /\ task[t][s] = NoTask
              /\ \A z \in Slot : z < s => task[t][z] # NoTask

Idle(t) == \A s \in Slot : task[t][s] = NoTask

Become(t, s, r) == task' = [task EXCEPT ![t][s] = r]
End(t, s)       == Become(t, s, NoTask)

Request(use, op, i) ==
    [use |-> use, op |-> op, id |-> i, body |-> {}, tag |-> NoTag,
     after |-> <<>>, answer |-> "none"]

\* Mutant: the save that leaving flushes goes to the diagram opened next.
SavingElsewhere(t, body, after) ==
    [Request("save", "PUT", IF after = <<>> THEN diagram[t].id ELSE Head(after)) EXCEPT
        !.body = body, !.tag = currentEtag[t], !.after = after]

\* doSave: the open diagram as it is now, under the tag held now.
Saving(t, body, after) ==
    [Request("save", "PUT", diagram[t].id) EXCEPT
        !.body = body, !.tag = currentEtag[t], !.after = after]

\* loadDiagram behind its flushSave: transient state is reset, then the GET.
\* Without a load to go on with, the async function ends.
Fetch(t, s, ids) ==
    IF ids = <<>>
      THEN End(t, s) /\ UNCHANGED <<past, future>>
      ELSE /\ past' = [past EXCEPT ![t] = <<>>]
           /\ future' = [future EXCEPT ![t] = <<>>]
           /\ Become(t, s, [Request("load", "GET", Head(ids)) EXCEPT !.after = Tail(ids)])

\* Mutant: loadDiagram forgets to flush.
LoadWithoutFlush(t, s, i, rest) ==
    Fetch(t, s, <<i>> \o rest) /\ UNCHANGED <<saveTimer, sent>>

\* loadDiagram: flushSave sends a pending save first and waits for it.
Load(t, s, i, rest) ==
    \/ /\ saveTimer[t]
       /\ saveTimer' = [saveTimer EXCEPT ![t] = FALSE]
       /\ sent' = sent \cup diagram[t].body
       /\ Become(t, s, Saving(t, diagram[t].body, <<i>> \o rest))
       /\ UNCHANGED <<past, future>>
    \/ /\ ~saveTimer[t]
       /\ Fetch(t, s, <<i>> \o rest)
       /\ UNCHANGED <<saveTimer, sent>>

-----------------------------------------------------------------------------
(* Gestures of the user *)

May(t, g) ==
    /\ g \in Gestures
    /\ acts < MaxGestures /\ acts' = acts + 1
    /\ Patient => Idle(t)
    /\ UNCHANGED failures

\* Mutant: the undo history is not cut.
TrimNever(h) == h

Trim(h) == IF Len(h) > HistoryLimit THEN Tail(h) ELSE h

\* pushHistory(), then the change.
Change(t, m) ==
    /\ past' = [past EXCEPT ![t] = Trim(Append(@, diagram[t].body))]
    /\ future' = [future EXCEPT ![t] = <<>>]
    /\ diagram' = [diagram EXCEPT ![t].body = @ \cup {m}]

NewMark(t, i) == <<t, i, acts + 1>>

Edit(t) ==
    /\ May(t, "edit")
    /\ Change(t, NewMark(t, diagram[t].id))
    /\ saveTimer' = [saveTimer EXCEPT ![t] = TRUE]
    /\ UNCHANGED <<server, currentEtag, task, sent, undone, waived>>

\* undo and redo: one stack to the other, then save().
Swap(t, from, to) ==
    /\ from[t] # <<>>
    /\ diagram' = [diagram EXCEPT ![t].body = from[t][Len(from[t])]]
    /\ from' = [from EXCEPT ![t] = SubSeq(@, 1, Len(@) - 1)]
    /\ to' = [to EXCEPT ![t] = Append(@, diagram[t].body)]
    /\ saveTimer' = [saveTimer EXCEPT ![t] = TRUE]
    /\ undone' = [undone EXCEPT ![t] = (@ \cup diagram[t].body) \ diagram'[t].body]
    /\ UNCHANGED <<server, currentEtag, task, sent, waived>>

Undo(t) == May(t, "undo") /\ Swap(t, past, future)
Redo(t) == May(t, "redo") /\ Swap(t, future, past)

\* addContainerRef: an edit that is flushed at once.
PlaceRef(t, s) ==
    /\ May(t, "place") /\ Free(t, s)
    /\ Change(t, NewMark(t, diagram[t].id))
    /\ saveTimer' = [saveTimer EXCEPT ![t] = FALSE]
    /\ sent' = sent \cup diagram'[t].body
    /\ Become(t, s, Saving(t, diagram'[t].body, <<>>))
    /\ UNCHANGED <<server, currentEtag, undone, waived>>

\* A click in the sidebar or on a crumb, entering a subdiagram, Back, Forward.
Open(t, s, i) ==
    /\ May(t, "open") /\ Free(t, s)
    /\ Load(t, s, i, <<>>)
    /\ UNCHANGED <<server, diagram, currentEtag, undone, waived>>

\* Gestures that start with a request of their own.
Ask(t, s, g, r) ==
    /\ May(t, g) /\ Free(t, s)
    /\ Become(t, s, r)
    /\ UNCHANGED <<server, page, sent, undone, waived>>

Rename(t, s, i)    == Ask(t, s, "rename", Request("rename", "PATCH", i))
Convert(t, s, i)   == Ask(t, s, "convert", Request("convert", "PATCH", i))
Delete(t, s, i)    == Ask(t, s, "delete", Request("delete", "DELETE", i))
NewDiagram(t, s)   == Ask(t, s, "new", Request("new", "POST", diagram[t].id))

\* addContainer and addPortToContainer: the mark goes where the user meant it.
AddContainer(t, s) ==
    Ask(t, s, "container", [Request("container", "POST", diagram[t].id) EXCEPT
                                !.body = {NewMark(t, diagram[t].id)}])
AddPort(t, s, i) ==
    Ask(t, s, "port", [Request("port", "GET", i) EXCEPT !.body = {NewMark(t, i)}])

\* The debounce timer of save() runs out: doSave.
TimerFires(t, s) ==
    /\ saveTimer[t] /\ Free(t, s)
    /\ saveTimer' = [saveTimer EXCEPT ![t] = FALSE]
    /\ sent' = sent \cup diagram[t].body
    /\ Become(t, s, Saving(t, diagram[t].body, <<>>))
    /\ UNCHANGED <<server, diagram, currentEtag, past, future, bounds, undone, waived>>
-----------------------------------------------------------------------------
(* The service answers *)

\* The answer reaches the tab, or is lost on its way.
Reply(t, s, r) ==
    /\ \/ Become(t, s, r) /\ UNCHANGED failures
       \/ /\ failures < MaxFailures /\ failures' = failures + 1
          /\ Become(t, s, [r EXCEPT !.answer = "failed"])
    /\ UNCHANGED <<page, acts, ghosts>>

Refuse(t, s, answer) ==
    Reply(t, s, [task[t][s] EXCEPT !.answer = answer]) /\ UNCHANGED server

\* A new version of diagram i, under a new tag.
Store(t, i, body) ==
    /\ stored' = [stored EXCEPT ![i] = [body |-> body, tag |-> clock + 1, by |-> t]]
    /\ clock' = clock + 1

Asks(t, s, op) == task[t][s] # NoTask /\ task[t][s].answer = "none" /\ task[t][s].op = op

ServeGet(t, s) ==
    LET r == task[t][s] IN
    /\ Asks(t, s, "GET")
    /\ \/ r.id \notin Exists /\ Refuse(t, s, "notFound")
       \/ /\ r.id \in Exists
          /\ Reply(t, s, [r EXCEPT !.answer = "ok", !.tag = stored[r.id].tag,
                                   !.body = @ \cup stored[r.id].body])
          /\ UNCHANGED server

\* Mutant: the handler does not pass the If-Match header on.
StaleIgnored(r) == FALSE

Stale(r) == r.tag # NoTag /\ r.tag # stored[r.id].tag

ServePut(t, s) ==
    LET r == task[t][s] IN
    /\ Asks(t, s, "PUT")
    /\ \/ r.id \notin Exists /\ Refuse(t, s, "notFound")
       \/ r.id \in Exists /\ Stale(r) /\ Refuse(t, s, "conflict")
       \/ /\ r.id \in Exists /\ ~Stale(r)
          /\ Store(t, r.id, r.body)
          /\ Reply(t, s, [r EXCEPT !.answer = "ok", !.tag = clock'])

\* Rename or SetComponent: no condition, a new tag unless the role is already right.
ServePatch(t, s) ==
    LET r == task[t][s] IN
    /\ Asks(t, s, "PATCH")
    /\ \/ r.id \notin Exists /\ Refuse(t, s, "notFound")
       \/ /\ r.id \in Exists
          /\ Store(t, r.id, stored[r.id].body)
          /\ Reply(t, s, [r EXCEPT !.answer = "ok", !.tag = clock'])
       \/ /\ r.id \in Exists /\ r.use = "convert"
          /\ Reply(t, s, [r EXCEPT !.answer = "ok", !.tag = stored[r.id].tag])
          /\ UNCHANGED server

ServeDelete(t, s) ==
    /\ Asks(t, s, "DELETE")
    /\ stored' = [stored EXCEPT ![task[t][s].id] = Gone]
    /\ Reply(t, s, [task[t][s] EXCEPT !.answer = "ok"])
    /\ UNCHANGED clock

\* The first diagram of the list: index.json is sorted by UpdatedAt, latest first.
ServeList(t, s) ==
    /\ Asks(t, s, "LIST")
    /\ \/ Exists = {} /\ Refuse(t, s, "notFound")
       \/ \E i \in Exists :
            /\ \A j \in Exists : stored[j].tag <= stored[i].tag
            /\ Reply(t, s, [task[t][s] EXCEPT !.answer = "ok", !.id = i])
            /\ UNCHANGED server

\* A fresh uuid: one that nothing stored, requested or shown knows.
Unused == {i \in Id \ Exists :
             \A t \in Tab : /\ diagram[t].id # i
                           /\ \A s \in Slot : task[t][s] # NoTask =>
                                 task[t][s].id # i /\ \A k \in DOMAIN task[t][s].after :
                                                        task[t][s].after[k] # i}

ServePost(t, s) ==
    LET r == task[t][s] IN
    /\ Asks(t, s, "POST")
    /\ \E i \in Unused :
          /\ Store(t, i, {})
          /\ Reply(t, s, [r EXCEPT !.answer = "ok",
                                   !.id = IF r.use = "new" THEN i ELSE @])

\* The request never arrives, or the service cannot serve it.
Drop(t, s) ==
    /\ task[t][s] # NoTask /\ task[t][s].answer = "none"
    /\ failures < MaxFailures /\ failures' = failures + 1
    /\ Become(t, s, [task[t][s] EXCEPT !.answer = "failed"])
    /\ UNCHANGED <<server, page, acts, ghosts>>

\* Bound: a POST that finds no uuid left in Id fails.
OutOfIds(t, s) == Asks(t, s, "POST") /\ Unused = {} /\ Refuse(t, s, "failed")

Serve(t, s) == \/ ServeGet(t, s) \/ ServePut(t, s) \/ ServePatch(t, s)
               \/ ServeDelete(t, s) \/ ServeList(t, s) \/ ServePost(t, s)
               \/ OutOfIds(t, s)

-----------------------------------------------------------------------------
(* The tab goes on with an answer *)

Answered(t, s, use, answers) ==
    /\ task[t][s] # NoTask
    /\ task[t][s].use = use /\ task[t][s].answer \in answers

\* The new tag is kept if the tab still shows the diagram it belongs to.
TakeTag(t, r) == currentEtag' = [currentEtag EXCEPT ![t] = IF diagram[t].id = r.id
                                                             THEN r.tag ELSE @]

Saved(t, s) ==
    /\ Answered(t, s, "save", {"ok"})
    /\ TakeTag(t, task[t][s])
    /\ Fetch(t, s, task[t][s].after)
    /\ UNCHANGED <<server, diagram, saveTimer, bounds, ghosts>>

\* "save failed" is shown; a load that waits goes on.
SaveFailed(t, s) ==
    /\ Answered(t, s, "save", {"notFound", "failed"})
    /\ Fetch(t, s, task[t][s].after)
    /\ UNCHANGED <<server, diagram, currentEtag, saveTimer, bounds, ghosts>>

\* Mutant: a refused save is sent again as it was.
ReloadByRetry(t, s) ==
    /\ Answered(t, s, "save", {"conflict"})
    /\ Become(t, s, [task[t][s] EXCEPT !.answer = "none"])
    /\ UNCHANGED <<server, page, bounds, ghosts>>

\* handleConflict, OK: reload whatever is open now.
Reload(t, s) ==
    /\ Answered(t, s, "save", {"conflict"})
    /\ Load(t, s, diagram[t].id, task[t][s].after)
    /\ UNCHANGED <<server, diagram, currentEtag, bounds, undone, waived>>

\* handleConflict, Cancel: the tag of whatever is open now is dropped.
KeepEditing(t, s) ==
    /\ Answered(t, s, "save", {"conflict"})
    /\ currentEtag' = [currentEtag EXCEPT ![t] = NoTag]
    /\ waived' = [waived EXCEPT ![t] = @ \cup {diagram[t].id}]
    /\ Fetch(t, s, task[t][s].after)
    /\ UNCHANGED <<server, diagram, saveTimer, bounds, sent, undone>>

\* Mutant: a reload of the open diagram renews the tag, not what is shown.
LoadedTagOnly(t, s) ==
    LET r == task[t][s] IN
    /\ Answered(t, s, "load", {"ok"})
    /\ diagram' = IF diagram[t].id = r.id THEN diagram
                  ELSE [diagram EXCEPT ![t] = [id |-> r.id, body |-> r.body]]
    /\ currentEtag' = [currentEtag EXCEPT ![t] = r.tag]
    /\ Fetch(t, s, r.after)
    /\ UNCHANGED <<server, saveTimer, bounds, ghosts>>

\* loadDiagram behind its GET.
Loaded(t, s) ==
    LET r == task[t][s] IN
    /\ Answered(t, s, "load", {"ok"})
    /\ diagram' = [diagram EXCEPT ![t] = [id |-> r.id, body |-> r.body]]
    /\ currentEtag' = [currentEtag EXCEPT ![t] = r.tag]
    /\ Fetch(t, s, r.after)
    /\ UNCHANGED <<server, saveTimer, bounds, ghosts>>

\* startRename takes over the tag of its PATCH.
Renamed(t, s) ==
    /\ Answered(t, s, "rename", {"ok"})
    /\ TakeTag(t, task[t][s])
    /\ End(t, s)
    /\ UNCHANGED <<server, diagram, saveTimer, past, future, bounds, ghosts>>

\* deleteDiagramById: a tab that showed the diagram looks for another one.
Deleted(t, s) ==
    LET r == task[t][s] IN
    /\ Answered(t, s, "delete", {"ok", "notFound"})
    /\ \/ r.op = "DELETE" /\ diagram[t].id # r.id /\ End(t, s) /\ UNCHANGED <<page, sent>>
       \/ /\ r.op = "DELETE" /\ diagram[t].id = r.id
          /\ Become(t, s, Request("delete", "LIST", r.id))
          /\ UNCHANGED <<page, sent>>
       \/ /\ r.op = "LIST" /\ r.answer = "notFound"
          /\ Become(t, s, Request("new", "POST", r.id))
          /\ UNCHANGED <<page, sent>>
       \/ /\ r.op = "LIST" /\ r.answer = "ok"
          /\ Load(t, s, r.id, <<>>)
          /\ UNCHANGED <<diagram, currentEtag>>
    /\ UNCHANGED <<server, bounds, undone, waived>>

Created(t, s) ==
    /\ Answered(t, s, "new", {"ok"})
    /\ Load(t, s, task[t][s].id, <<>>)
    /\ UNCHANGED <<server, diagram, currentEtag, bounds, undone, waived>>

\* addContainer behind its POST: the node goes into the diagram open now.
ContainerMade(t, s) ==
    /\ Answered(t, s, "container", {"ok"})
    /\ \E m \in task[t][s].body : Change(t, m)
    /\ saveTimer' = [saveTimer EXCEPT ![t] = TRUE]
    /\ End(t, s)
    /\ UNCHANGED <<server, currentEtag, bounds, ghosts>>

\* addPortToContainer: what the GET brought, with the port, in a PUT without If-Match.
PortFetched(t, s) ==
    LET r == task[t][s] IN
    /\ Answered(t, s, "port", {"ok"}) /\ r.op = "GET"
    /\ Become(t, s, [Request("port", "PUT", r.id) EXCEPT !.body = r.body])
    /\ sent' = sent \cup r.body
    /\ UNCHANGED <<server, page, bounds, undone, waived>>

\* The async function ends here and changes nothing; a failed load also drops
\* the loads that waited for it.
GiveUp(t, s) ==
    /\ \/ Answered(t, s, "convert", {"ok"})
       \/ Answered(t, s, "port", {"ok"}) /\ task[t][s].op = "PUT"
       \/ \E use \in {"load", "rename", "convert", "new", "container", "port"} :
               Answered(t, s, use, {"notFound", "failed"})
       \/ Answered(t, s, "delete", {"failed"})
    /\ End(t, s)
    /\ UNCHANGED <<server, page, bounds, ghosts>>

Take(t, s) == \/ Saved(t, s) \/ SaveFailed(t, s) \/ Reload(t, s) \/ KeepEditing(t, s)
              \/ Loaded(t, s) \/ Renamed(t, s) \/ Deleted(t, s) \/ Created(t, s)
              \/ ContainerMade(t, s) \/ PortFetched(t, s) \/ GiveUp(t, s)

Act(t) == \/ Edit(t) \/ Undo(t) \/ Redo(t)
          \/ \E s \in Slot :
                \/ PlaceRef(t, s) \/ NewDiagram(t, s) \/ AddContainer(t, s)
                \/ \E i \in Exists : \/ Open(t, s, i) \/ Rename(t, s, i) \/ Convert(t, s, i)
                                     \/ Delete(t, s, i) \/ AddPort(t, s, i)

Next == \E t \in Tab :
            \/ Act(t)
            \/ \E s \in Slot : TimerFires(t, s) \/ Serve(t, s) \/ Drop(t, s) \/ Take(t, s)

Spec == Init /\ [][Next]_vars

\* The browser runs every callback that is due, and the service serves every request.
FairSpec == Spec /\ \A t \in Tab, s \in Slot :
                       WF_vars(TimerFires(t, s)) /\ WF_vars(Serve(t, s)) /\ WF_vars(Take(t, s))

-----------------------------------------------------------------------------
(* Properties *)

\* Every variable has its type.
TypeOK ==
    /\ stored \in [Id -> Version \cup {Gone}] /\ clock \in Nat
    /\ diagram \in [Tab -> [id: Id, body: Body]]
    /\ currentEtag \in [Tab -> Tag]
    /\ saveTimer \in [Tab -> BOOLEAN]
    /\ past \in [Tab -> Seq(Body)] /\ future \in [Tab -> Seq(Body)]
    /\ \A t \in Tab : Len(past[t]) <= HistoryLimit \* pushHistory and redo
    /\ task \in [Tab -> [Slot -> Task \cup {NoTask}]]
    /\ acts \in 0..MaxGestures /\ failures \in 0..MaxFailures
    /\ sent \in Body /\ undone \in [Tab -> Body]
    /\ waived \in [Tab -> SUBSET Id]

\* A PUT of t for i is what changes the store in this step.
Overwrites(t, i) ==
    \E s \in Slot : /\ task[t][s] # NoTask /\ task'[t][s] # task[t][s]
                    /\ task[t][s].op = "PUT" /\ task[t][s].id = i

\* No edit that reached the store is silently overwritten: it disappears only in the
\* save of a user who undid it, or who was told of a conflict and chose to overwrite
\* what he had on the screen (docs/architecture.md:157-158).
NoSilentOverwrite ==
    [][\A i \in Id : (stored[i] # Gone /\ stored'[i] # Gone) =>
        \A m \in stored[i].body \ stored'[i].body :
            \E t \in Tab : Overwrites(t, i) /\ (m \in undone[t] \/ i \in waived[t])]_vars

\* What a tab holds the current ETag of is what it shows, but for what its user has
\* taken back: the tag may stand for "the user has seen this", also while saves and
\* reloads of the diagram are under way.
TagMeansSeen ==
    \A t \in Tab :
        LET i == diagram[t].id IN
        stored[i] # Gone /\ currentEtag[t] = stored[i].tag
            => stored[i].body \subseteq diagram[t].body \cup undone[t]

\* An edit only ever lands in the diagram its user made it in, on the screen, in
\* the undo history and in the store.
EditsStayInTheirDiagram ==
    /\ \A i \in Exists : \A m \in stored[i].body : m[2] = i
    /\ \A t \in Tab : \A m \in diagram[t].body : m[2] = diagram[t].id

\* The screen never moves on to another diagram before what is on it was sent to
\* the service: "so we don't lose the last edit when navigating away" (app.js:704).
SentBeforeLeaving ==
    [][\A t \in Tab : diagram'[t].id # diagram[t].id
                        => diagram[t].body \subseteq sent]_vars

\* "This diagram was changed elsewhere": a conflict is only reported if the last
\* one to write the diagram was another tab or session (app.js:737-741).
ConflictMeansSomeoneElse ==
    [][\A t \in Tab, s \in Slot :
        (task'[t][s] # NoTask /\ task'[t][s] # task[t][s] /\ task'[t][s].answer = "conflict")
            => stored[task'[t][s].id].by # t]_vars

\* Every tab comes to rest: saves, reloads after conflicts and the loads behind
\* them do not set each other off for ever.
TabsComeToRest == \A t \in Tab : ~Idle(t) ~> Idle(t) /\ ~saveTimer[t]
=============================================================================
