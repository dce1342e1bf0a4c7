# diagramer: formal models, model checking and proofs

diagramer is a diagram editor in one Go binary: a browser page
(`cmd/diagramer/web/app.js`) over a REST API, an MCP server for AI clients, a
few shell commands, and a directory of JSON files.  There is no database, no
session and no login; several tabs, several AI clients and several processes
may work on the same diagrams at once.  What makes that work is a mutex in the
domain service, an ETag per diagram, a mutex in the MCP server, and atomic file
replacement.  This directory holds TLA+ models of those mechanisms, the runs of
the model checker TLC on small instances, and proofs checked by TLAPS for all
instances.  `PROJECT.json` maps every definition to the lines it stands for,
lists the runs, the mutants that show each property can fail, the findings and
the hazards.

Paths below are relative to the repository.

    tlc -workers 2 -config MCDiagramService.cfg MCDiagramService
    tlapm DiagramService_proofs.tla

## Inventory

| component | state | operations | who calls it |
|---|---|---|---|
| Domain service, `internal/diagrams/service.go`, `model.go` | `writeMu`; no diagram in memory | Get, List, Create, Update (with If-Match), Rename, SetComponent, SetEdgeStyle, AutoLayout, Delete | HTTP, MCP and CLI, each in its process |
| Layout, `internal/diagrams/layout.go` | local: levels, queue, columns, positions | AutoLayout, AutoPlace | service (AutoLayout), MCP (AutoPlace); `app.js` 2807-2957 has its own copy of the first ("Tidy up") |
| File repository, `internal/storage/jsonfile.go` | `data/diagrams/<id>.json`, `data/index.json`, `*.tmp`; `mu` | Get, List, Save, Delete, index rebuild, start | service |
| MCP server, `internal/mcp/server.go` | its own `writeMu` | 15 tools, JSON-RPC over stdio, parallel calls | AI clients; runs instead of HTTP (`-mcp`), so in a process of its own |
| HTTP API, `internal/server` | none | list, create, get, put, patch, delete | the page, scripts |
| Editor, saving and loading, `app.js` 510-1007, 1569-1651, 2579-2803 | `diagram`, `currentEtag`, `saveTimer`, `past`, `future` | debounced PUT, conflict dialogue, load, undo, gestures with requests of their own | user, timers, answers |
| Editor, navigation, `app.js` 386-458, 541-570, 756-790, 902-950, 2593-2803 | `breadcrumb`, `navStack`, `navIndex`, `navigatingHistory`, the browser's history | drill in, crumbs, sidebar, Back/Forward, popstate, start of the page | user, browser |
| Editor, canvas, `app.js` 386-404, 486-512, 954-999, 1569-2178, 2287-2406, 2439-2560, 2807-3305 | nodes, edges, `past`, `future`, selection, connect mode, the gesture under way (pending edge, lasso, drags), menu, inline editor, nudge timer | keys, toolbar, mousedown, mousemove, mouseup, blur, context menu | user, two timers, the answers of `loadDiagram`, `addContainer` and `createSubdiagram` |
| Editor, drawing and geometry | none of its own | SVG, hit testing, snapping, minimap, export | render() |
| Command line, `cmd/diagramer/cli.go`, `main.go` | none | list, get, import, layout, edge-style, the servers | shell; every command is a process |

How they interact.  The page calls the API with `fetch`; answers come back in
any order and JavaScript runs other callbacks in between.  The handlers call the
service, which holds `writeMu` around get-decide-save.  The repository has a
mutex of its own, but a second process (`-mcp` beside the web server, or a
command) shares only the files.  The MCP server holds a second mutex around the
pairs Get + Update it makes of the service.

What is hard, and the properties that make each part correct:

* service: two writers on one version; a delete between read and save; tags
  that must stand for content.  No lost update, no revived diagram, a tag names
  one content, every call looks like one step, every call returns.
* layout: a worklist without a bound.  Edges point right, columns are longest
  paths, the loop ends exactly if no cycle hangs on a root, and boxes and labels
  have room.
* repository: crashes and failures between file operations, two processes.
  Files are whole, what was acknowledged stays, the index follows the files.
* MCP: parallel tools, two mutexes.  No tool drops what another one added, no
  tool hangs.
* saving and loading: saves, loads, dialogues and timers that overtake each
  other.  Nobody overwrites unseen what another one saved, nothing on the
  screen is left unsent, an edit stays in its diagram, conflicts come to rest.
* navigation: three histories changed around asynchronous loads that may fail,
  or load something else first.  They agree at rest, moving does not rewrite
  them, a move ends.
* canvas: a dozen variables that hold node ids between two events, while keys,
  undo and a diagram on its way may take the nodes away.  What is shown can be
  saved, nothing refers to what is gone, Delete removes what looks selected, and
  undo walks along the contents there were.

The hazards, each at its line, are the `hazards` of `PROJECT.json`.

## Modules

| module | models | by |
|---|---|---|
| `DiagramModel` | the data: a diagram as nodes, edges, links, name, role and tag; validation, pruning, what each call writes | operators |
| `AtomicDiagrams` | what the service promises: every call takes effect in one step between call and return | abstract specification |
| `DiagramService` | `service.go`: per goroutine the places call, lock, read, save, done | `ServiceIsAtomic` instantiates `AtomicDiagrams` |
| `DiagramModel_proofs`, `DiagramService_proofs` | | proofs |
| `LayoutLevels` | the column loop of `layout.go:119-152` (`app.js:2838-2857`) | |
| `LayoutPlacement` | what follows it: crossing reduction and positions (`layout.go:153-290`, `app.js:2859-2955`); `AutoPlace` | EXTENDS `LayoutLevels` |
| `Layout_proofs` | | proofs about both |
| `JSONFileRepo`, `JSONFileRepo_proofs` | `jsonfile.go`: per process the place between two file operations | proofs |
| `McpServer`, `McpServer_proofs` | the tool handlers: a handler is one of the service's callers | EXTENDS `DiagramService`; the proofs extend `DiagramService_proofs` |
| `EditorTabs`, `EditorTabs_proofs` | tabs, their requests in flight, the service as the atomic store | proofs |
| `NavHistory`, `NavHistory_proofs` | one tab's navigation, calls of `loadDiagram` in flight | proofs |
| `UndoHistory` | what undo and redo promise: the contents there were stand in one line | abstract specification |
| `EditorCanvas` | the canvas of one tab, an action per event handler | `UndoIsFaithful` instantiates `UndoHistory` |
| `EditorCanvas_proofs` | | proofs |
| `MC*` | values for the constants | |

Correspondence.

**DiagramService.** `disk` is what the repository returns per id; `clock` is
`s.now()`; `writeMu` names its holder.  `Begin` enters a method; `Lock` is
`writeMu.Lock()` with the checks that follow it at once; `Read` is `repo.Get`
and the decision on its result (not found, conflict, nothing to write, invalid,
diverging layout, save), with `pruneDanglingEdges` where the code calls it;
`Save` is `now()`, `repo.Save` and the deferred unlock; `SaveButNotIndexed` and
`Fail` are a save that reports an error after, or before, the file was replaced.
What a call writes is `Written` in `DiagramModel`.  A name is ordinary, blank or
too long; a canvas is nodes, edges, links and the bits `tidy` and `fits`.

**LayoutLevels.** `Seed`, `Pop`, `Push`, `Fallback` are the three loops; the
orders in which nodes and edges are listed are left open, so each run of the
code on each listing is a behaviour.

**LayoutPlacement.** `Group` forms the columns, each `Reorder` sorts one of them
by the medians of its neighbours' ranks, in the order of the four sweeps, and
`Place` assigns all positions.  Coordinates are counted in half pixels, since the
code centres by halving.  The order in which the diagram lists its nodes is left
open, so a column begins as any listing of its members (`Columns`) and the row
below is any listing of the `Orphans`.  Every running sum of the code, `cursorX`, `cursorY` and
the orphans' `x`, is a `Cursor`, a recursive function of the number of boxes it
has passed.  The sizes of boxes and labels, which the code estimates from text, are
constants.  Edges are a set: parallel ones, which the code counts one by one
(`layout.go:112-113`), shift a median and so the order in a column, and nothing the
properties are about.  `AutoPlace` is an operator (a node for the MCP server's `add_node`).

**JSONFileRepo.** `os.WriteFile` is three steps (`Open` truncates, `Fill`
writes, `Rename`), and a file that was renamed while open is still written
through its descriptor (`fd`).  `ReadIndex` and `Amended` are upsert and remove;
a torn index is rebuilt from the files.  `Crash` stops a process anywhere,
perhaps in half a write; `Fail` fails any operation; `Damage` is an index
destroyed from outside (external).  A version number stands for a file's content.

**McpServer.** `LockServer`, `TakeDiagram`, the tool's change
(`Edited`; an `update_node` that is `NotGiven` a `subdiagram_id` leaves the links alone),
`SendUpdate` and `Done` around the steps of the service.  A tool that makes one call
(rename, delete, style, layout) holds no lock of its own, as in the code.

**EditorTabs.** A task is an async function suspended in a request: `Serve*`
is the server's step, `Take` everything the function does from the answer to
its next `await`.  `Load` is `loadDiagram` up to its first request, `Fetch` its
part behind the flushed save, `Loaded` the rest.  Content is the set of marks
(tab, diagram the user meant, number) that edits have put in; that is all the
properties compare.  `undone` and `waived` are history: per tab the marks its user
took back by undo, and the diagrams whose tag he dropped by Cancel.  Several requests of one tab are in flight, answered in any
order, and `MaxFailures` of them are lost on either way.

**NavHistory.** A slot of `open` is a running `loadDiagram` with its caller; a
conflict in its flush pushes the reload on a stack of calls in the slot.  `Go`
is a call up to its first request, `Flushed`, `Arrives`, `Fails`, `Conflict` the
ways it goes on; the callers' `catch` and `finally` are `Restored` and
`Release`.  `title` is the trail as last rendered (crumbs are clicked there),
`urls` and `at` the browser's history.  `init()` is a call with a list of
candidates.  Names and the tree's contents are left out: every path may be in
the sidebar, every diagram may be referenced, also deleted ones.  A trail is a
value here; the code extends its array in place, which shows only if a crumb
that is no longer on the trail is clicked while a drill-down is running.

**EditorCanvas.** An action is a handler, from the event to its return, with the
branch its guards choose: mousedown (`Press*`, `DoubleClick`, `Connect*`,
`ToggleNode`), mousemove (`MoveEdge`, `MoveNodes`), mouseup (`Release*`), keydown
and toolbar (`Undo` to `Escape`), the context menu (`NodeMenu`, `EdgeMenu`,
`EmptyMenu` and the items), the inline editor (`CommitEdit`, `CancelEdit`; a
press takes the focus away first, so `blurred` makes the commit the next step).
`loadDiagram` is `Leave` (what it resets, and what it does not) and `Arrive`; the
save it flushes before changes nothing here, so whatever comes while it runs comes
before `Leave`.  `addContainer` is `AskContainer`, `ContainerMade`, `ContainerShown`;
`createSubdiagram` is `AskInside`, `InsideMade` (its step of the history),
`ContainerShown` and the `Leave` that follows; either may end in `ContainerFails`.  Everything
about a node or an edge that no handler decides by (place, label, colour, kind)
is one number per content, its `look`, new with every change; so two contents are
equal exactly if undo must not tell them apart.  Ids are numbers, and what is
pasted gets the next ones (`Cloned`); a node in `Container` shows ports an edge may be
fixed to (`Places`).  The menu of "+ Add" and of the empty canvas are one
(`"empty"`), the one of a dropped connection is `"create"`.  `Haste` says what a
user does not wait for; where it is empty, a gesture is finished before the next
one begins, and so on as the module's head lists.

## Runs

All times are a minute or two on two cores.  Every property of a passing run
has a mutant: a plausible bug in the mapped code that makes TLC refute it.

| run | instance | shows |
|---|---|---|
| `service` | 2 goroutines, 3 mutating calls, any number of reads, 1 diagram possibly hand-edited (a dangling edge), failing I/O | `WriterHasLatest`, `TagIdentifiesVersion`, `ConditionalPutReplacesItsVersion`, `VersionsAdvance`, `DeletedStaysDeleted`, `NoNewDanglingEdge`, `ServiceIsAtomic`, `EveryCallReturns` |
| `layout_hangs` (violation) | the same with a cycle behind a root | `EveryCallReturns` fails: AutoLayout loops for ever and every later write waits for `writeMu` |
| `layout_levels` | all graphs on 4 nodes without self-loops, up to renaming, all on 3 with self-loops and dangling edges; all listings; boxes of four sizes, labels narrower and wider than the gap | `EdgesPointRight`, `ColumnIsLongestPath`, `CycleNeverEnds`, `LayoutEnds`, `NothingOverlaps` |
| `repo` | 2 processes, 2 diagrams, 3 saves or deletes, 2 faults | `FilesAreWhole`, `AcknowledgedIsDurable`, `IndexMatchesFiles`, `RebuildIsComplete` |
| `mcp` | 2 handlers, every tool on a diagram with a link and an edge, failing I/O | `ToolsKeepContent`, `EveryToolReturns` |
| `mcp_rename` (violation) | add_node beside rename_diagram | the rename is undone |
| `editor` | 2 tabs, 2 diagrams, 3 gestures, 1 lost request, users who wait | `NoSilentOverwrite`, `TagMeansSeen`, `EditsStayInTheirDiagram`, `SentBeforeLeaving` |
| `editor_rest` | 2 tabs, 1 diagram, users who do not wait | `TabsComeToRest` |
| `editor_self_conflict` (violation) | 1 tab | a tab conflicts with itself |
| `navigation` | 1 tab, 2 calls at once, 2 diagrams, 3 gestures, 1 mishap | `NoRepeats`, `EntryIsShown`, `AddressIsShown`, `MovesKeepHistory`, `MovesEnd` |
| `canvas` | 1 tab, two nodes and an edge or one node with a loop, 3 changes, 2 undo steps, users who wait | `NoDanglingEdges`, `NothingStale`, `OneKindSelected`, `UndoIsFaithful` |
| `canvas_dangling` (violation) | the same with keys pressed in mid-gesture | an edge without its node is shown, and kept |

Why the bounds are enough.  A lost update needs two writers and one diagram; a
third mutating call lets a delete or a create fall between them.  Tags only
matter as equal or different, and the clock advances with every save.  In the
layout, four nodes hold every shape the loop tells apart: a node reached by
paths of different length, a cycle behind a root, beside one, without one; which
node has which size is the theorems' business, and so are more nodes.  Two processes and two faults meet every pair
of file operations, with a fault in the recovery of the other; three saves let
an acknowledged version be followed by a failed one and a repair.  Two tools are
every pair of arguments and orders.  Three gestures are one to make an edit, one
to leave and one of another tab; in `navigation`, drill in, edit and Back with a
conflict in the flush.  In `canvas` three changes over two undo steps are one
more than the history holds, and let a paste or a deletion stand between a
change that is undone and one that cuts the redo off; after the last change no
gesture begins (its only end would be cut off by the bound), but all keys, menus
and answers go on.  Five ids are the diagram's three and two new ones: a wired
node, or one pasted node and an edge.  An edge fixed to a port, a lasso over
several nodes and three nodes to distribute all occur.  `MaxLevel` only cuts the counting on a layout that never
ends.  In `editor_rest` the gestures end, so coming to rest is not trivial: what
has to end is the chain of conflicts, reloads and flushes.

Deadlock is checked in `service`, `repo` and `mcp`, where reads are always
possible unless somebody hangs; it is off where gestures are counted and a
behaviour may simply be over (`editor*`, `navigation`, `canvas*`), where the loop ends
(`layout_levels`) and where everybody is supposed to hang (`layout_hangs`).

Restrictions that matter.

* `editor` is about users who act when no request is running (`Patient`).
  Without it `NoSilentOverwrite`, `EditsStayInTheirDiagram` and
  `SentBeforeLeaving` fail; see the consequences below.
* `editor` leaves out `rename`, which adopts a tag of content the tab has not
  seen, and `port`, whose PUT has no If-Match: `NoSilentOverwrite` fails at once
  with either, `TagMeansSeen` with `rename` (`editor_rest` has both).  The theorems have the same
  hypotheses.
* `IndexMatchesFiles` and `RebuildIsComplete` speak of histories in which
  methods of two processes did not overlap; `FilesAreWhole` and
  `AcknowledgedIsDurable` leave out diagrams that two processes saved at once.
  Everything else of those behaviours is in the run.
* `EntryIsShown`, `AddressIsShown` and `MovesKeepHistory` speak of calls that
  did not cross, and the first two not of a place after a failed Back, Forward,
  popstate or createSubdiagram (`astray`).  `NoRepeats` and `MovesEnd` hold without exception.
* `canvas` is about users who wait (`Haste = {}`).  `NoDanglingEdges` and
  `NothingStale` need it for `"keys"` and `"loading"` only, `OneKindSelected` for
  `"buttons"` as well, `UndoIsFaithful` also for `"typing"` and `"burst"` (all four
  are proved under these hypotheses, see below).  What happens otherwise is listed below.

### Fairness

`DiagramService`: a goroutine that can run does run (weak fairness of its step);
`sync.Mutex` hands itself to a waiter after 1 ms, so a caller that finds it free
again and again gets it (strong fairness of `Lock`).  No fairness of the caller:
nobody need call.  `McpServer` assumes the same of both mutexes.  `EditorTabs`:
the debounce timer fires, every request is served and every answer is taken
(`fetch` settles, callbacks run); users need do nothing.  `NavHistory`: a call
that waits for an answer gets one.  `LayoutLevels`: the loop runs.

## Theorems

Proved by TLAPS for all values of the constants (`theorems` in `PROJECT.json`).
Assumptions: only the named ones beside the constants, that the sentinels are
not values (`None` is neither an id nor a drag), that what clients send and what is on disk are canvases, that there
is at least one id, and, for the positions, that a diagram that is laid out has finitely
many nodes and that boxes and gaps have a positive size.

*Service.*  `Inv` is inductive: `TypeOK`; `LockInv` (the holder of `writeMu` is
the caller between lock and answer); `PlaceInv` (what the place says of the call
and of the verdict on `base`); `FreshInv` (a pending Create owns its uuid, no
other Create has it, nothing is stored under it); `ClockInv` (no tag is from the
future); `WriterHasLatest`; `TagIdentifiesVersion`.  `WriterHasLatest` alone is not
inductive: another caller's save would break it, and only `LockInv` says there is
none; a Create without the lock would, and only `FreshInv` says it writes
elsewhere.  From `Inv` follow `TypeCorrect`, `WritersHaveLatest`, `TagsIdentifyVersions`
and the action properties `ConditionalPuts`, `VersionsDoAdvance`, `DeletionIsFinal`,
`NoDanglingEdgesAppear`, each by cases on the step that changes `disk`.
`ServiceImplementsAtomic` is the refinement: the initial states map, a step maps
to `Invoke`, to an effect, to `Respond` or to a stutter.  A save is an effect on
the latest version because of `WriterHasLatest`.

*Layout.*  The worklist invariant: once seeded, whoever has a column is queued, or is
being pushed from (`todo`), or all its targets are to the right of it.  At the end the
queue is empty, so everything reached points right (`EdgesDoPointRight`).  If a
cycle hangs on a root and the loop ended, columns would rise all the way around it
(`LayoutNeverEndsOnCycles`): on every diagram, of
any size, with such a cycle AutoLayout does not return.  `Walked` adds that wherever
a node stands, or is about to be pushed, there is a walk of that length from a root;
no walk of any length is longer (`NoWalkIsLonger`), since every edge of it points right,
which gives `ColumnsAreLongestPaths`.  TLC compares with the walks of fewer edges
than there are nodes (`ColumnIsLongestPath`), which every path is among; the
theorem states both.  The positions follow from there.  A longest path touches
every column on its way, so no column up to the last is empty (`ColumnsFilled`) and
its width is a width.  A `Cursor` moves on by at least what each box takes
(`CursorMovesOn`), which separates two boxes of a column, two columns and
two orphans; the row lies below the lowest box and `AutoPlace` right of the
rightmost.  `Arranged` carries this through the steps of the second half: the
columns stay listings of their members however they are reordered, and what is
placed is placed from them (`BoxesNeverOverlap`).  `PlacementKeepsLevels` says that
the second half implements the first, so all of the loops' theorems hold of the whole.
Inductions, on the length of a walk, along a cursor, on the size of a set whose maximum is
taken, are by a least counterexample (`LeastNatural`), since the library's
induction theorems are out of the provers' reach.

*Canvas.*  `CanvasTypeCorrect` holds for every user.  The others are about users who
finish a gesture before the next command and wait for what is loading
(`Unhurried`; labels, mouse buttons and arrow keys may be hurried).  `Here` says for
each holder of an id, that is the selection, the gestures, the menu, the editor
and the container request, that the node or edge is on the canvas, and for two
holders, what they exclude (a node's menu and the editor, a diagram on its way
and everything else): `NothingStale` alone would not survive the Delete of a
menu.  `Tight` says that the content, every step of both histories and the
snapshots of the two drags are closed: a snapshot is pushed only when the mouse
is released, so the histories alone are not inductive.  `Here` carries `Tight`,
because a new edge starts from what a gesture or a menu holds
(`NothingGoesStale`, `NoEdgeDangles`).  `OneKindIsSelected` needs besides that no edge
is selected while a lasso is drawn, which a second mouse button breaks.

*Undo.*  `UndoIsRespected` is the refinement: for users who wait for everything
(`Haste = {}`), every handler of the canvas is a step of `UndoHistory` or changes
nothing of it, for every number of changes and every history limit.
`UndoHistory`'s line is the past, what undo takes for shown, and the future
backwards.  One half of the proof is about sequences and knows no handler: undo
and redo leave the line as it is (`UndoLine`, `RedoLine`), and what `pushHistory`
forgets is what the line forgets, also when one gesture pushes twice
(`KeptEnds`, `KeptTwice`).  From it come the lemmas `...Walks`, one per kind of step.  The
other half is `UndoInv`, which says when they apply.  `Turning`: what ends in a
change (a connection, a label, a container on its way), a drag, a burst of arrow
keys and a load exclude each other, so that what is pushed is what was shown.
`Snapshots`: what a drag has moved nothing of yet is still its snapshot, so that
`Shown` does not jump at the first mouse move.  `Bounded`: the two histories
together are no longer than the limit, or redo would push the line over it,
which nothing in `redo` forbids (`app.js:992-999`).

*Repository.*  For any number of processes, diagrams, saves and faults.  The heart
is `TmpInv`: on a path nobody contends for, the temporary file a process is about
to rename is the one it opened and filled, at every place in between; an open
descriptor that outlives a rename (`fd`) is what makes it false for the others.
`WholeInv` then says that the files are whole, and `DurableInv` that a diagram's file is
what was last acknowledged, or what a call that is past its rename was asked for,
unless an interrupted one left it `unsettled`.  For
the index, `ListedInv` says which ids may be missing from it or too many in it,
and `PendingInv` that an index being written is the one read before, amended;
with two processes inside a method at once that is lost, so both hold while
none have `overlapped`.  `FilesAreWhole`, `AcknowledgedIsDurable` and
`IndexMatchesFiles` are not inductive without them: each says nothing about the
bytes in the temporary file.

*MCP.*  The proof that the service keeps `Inv` is made for any step of a caller
(`Serves` in `DiagramService_proofs`), so it holds under the tool handlers too, which
send only canvases they edited.  `MCPInv` adds per handler `At`: it is between its
lock and its unlock exactly if it holds the server's mutex, its place says what
it has called, and what it has read is still what the store holds, unless the
diagram was deleted since.  The last part is inductive because whatever else writes (rename,
style and layout go past the server's mutex) changes name, places
or looks, which `SameContent` does not compare.  `ContentIsKept` follows, and that all
the safety properties of the service hold with handlers as its callers.

*Saving and loading.*  For any number of tabs, diagrams, requests in flight,
gestures and failures; `Types` for every user, the rest for users who wait (`Patient`).
`PatientInv` says that a tab has at most two functions running (`Two`), one of
which saves or loads and neither of which has a load waiting (`Cross`); what each
answer is about (`TaskOk`: a load waiting behind a save means that no timer runs, a
fetched diagram that is not the one shown means an empty undo history); and that
marks are where they were meant to be (`On`), on the screen, in both histories, in the
requests and in the store.  `EditsStayInTheirDiagram` alone would not survive the
answer of a load or an undo.  `SentBeforeLeaving` needs that marks that are not sent
have a timer, and that no timer runs while a load of another diagram does.
`TagInv` is about what a tag stands for, where nobody renames (a rename adopts
a tag for what the tab has not loaded).  A tag that is not current never is again
(`Forward`), so a save under it is `Doomed`.  A tag that is current
`Covers` the screen, the body of a save under way or the answer of a load.  Between
two requests of one tab it says the order does not matter: a save beside a
load of the diagram is doomed, and of a save and a load both answered the
load's tag is current if the save's is (`SeenPair`); and that new edits may only be
sent under a tag that is about to be refused while a reload is on its way
(`Source`).  `TagMeansSeen` is one conjunct, and `NoSilentOverwrite` follows where no
port is added.

*Navigation.*  For any diagrams, numbers of calls and gestures.  `Typed` says how a
running call is built: only a debounced save has nothing to load, reloads after conflicts stand
on top of the call whose flush they interrupt.  `NoRepeats` holds without restriction:
`recordNav` compares with the current entry, and cutting off what is forward
keeps neighbours.  `EntryIsShown` and `AddressIsShown` are about a tab at rest; `Flying`
is what carries them through the calls in between: a move flies to the
current entry, a reload fetches what is shown, a call that may put the trail
back would put back the current entry's.  As long as no call was started while
another ran there is one at a time (`OneCall`); that is the induction's use of
`crossed`.  `MovesKeepHistory` follows.

Only model-checked: liveness (`EveryCallReturns`, `EveryToolReturns`,
`LayoutEnds`, `TabsComeToRest`, `MovesEnd`), which is beyond TLAPS.  Every safety
property of a passing run is a theorem.  The properties that the violation runs refute are
refuted, not proved.

## Findings

Runs that end in a violation, each against a line of the repository's own text:

1. `layout_hangs`, `layout.go:131`: a cycle behind a root hangs AutoLayout with
   `writeMu` held; all writes of the process hang with it.
2. `mcp_rename`, `server.go:284`: a rename beside an editing tool is undone.
3. `editor_self_conflict`, `app.js:724`: a slow save makes the next one of the
   same tab conflict.
4. `canvas_dangling`, `app.js:2338`: Delete while a connection is being drawn, or
   Delete or Ctrl+Z while the menu of a dropped one is open, takes away the node it
   starts from; the edge is made all the same.  (Ctrl+Z in the middle of the drawing
   is harmless: `undo` clears `pendingEdge`, `app.js:978`.)  The service refuses the
   edge and every later save of the diagram.  `service.go:108-110`, about edges
   without nodes in stored files, says "The HTTP PUT path already prevents them, so they
   only arise in hand-edited or imported ./data files": the file stays clean,
   the page does not.

Consequences the models show and no run states, because the code promises
nothing there or a restriction above leaves them out:

* two processes that save the same diagram share `<id>.json.tmp`; the diagram may
  end torn (`README.md:211`, "Writes are atomic.");
* two processes that rewrite the index at once lose an entry;
* a crash between file and index leaves a diagram that is never listed again,
  since only an index that does not parse is rebuilt (`jsonfile.go:77`);
* `create_subdiagram` and a PATCH with both fields are two calls of the service:
  if the second fails, the first one stays (`server.go:446`, `handlers.go:145`);
* "Tidy up" hangs the page on the diagrams on which AutoLayout hangs the server
  (`app.js:2838`);
* a rename adopts a tag of content the tab has not seen, and its next save
  overwrites it (`app.js:2782`); adding a port overwrites what was saved between
  its GET and its PUT (`app.js:866`);
* an edit made while the next diagram is being fetched is dropped (`app.js:773`);
* Cancel in the conflict dialogue of a flush does not stop the load that flushed,
  so the edits it kept are left (`app.js:757`);
* the answer of a save that arrives after leaving and coming back hands the tab a
  tag for content it no longer shows (`app.js:725`);
* Cancel in a conflict dialogue drops the tag of whatever diagram is open by then
  (`app.js:737-753`): if the user has moved on, the next save of the new diagram
  overwrites another tab's edit, although nobody was asked about that diagram;
* the undo history is cleared before the fetch: an edit made in between is
  undone into the next diagram (`app.js:769`);
* a conflict in a drilled-into diagram reloads it without `keepBreadcrumb` and
  the trail is lost (`app.js:748`), also in the middle of a Back whose entry has
  one, although "Each entry snapshots the breadcrumb so the containment path is
  restored too" (`app.js:410-411`);
* a failed Back or Forward keeps the new index and trail over the old diagram
  (`app.js:432-446`), unlike the crumb and the sidebar, which restore them; a
  failed createSubdiagram leaves the diagram on its own trail (`app.js:927`), and a
  failed popstate the address of a diagram that is not shown (`app.js:2801`);
* two quick Backs answered in the wrong order cut off Forward, because the first
  to finish lowers the flag for both (`app.js:443`);
* the conflict of a background save answered after a navigation started reloads
  whatever is shown then, and may pull the user back (`app.js:747`);
* a press that starts a drag commits the label being edited: it is pushed between the
  drag's snapshot and the drag, and the undo of the drag takes the label back
  (`app.js:2397`);
* a second mouse button during a drag replaces its snapshot or starts a lasso
  beside it, and an edge may end up selected together with nodes (`app.js:2017`);
* undo within 600 ms of an arrow key leaves the timer running: the next nudge is
  not pushed (`app.js:2520`);
* `loadDiagram` resets neither a curvature drag nor the nudge timer nor the menu
  (`app.js:756-772`): they act on the next diagram.

## Not modelled

List and Get of the repository beside their effects; JSON-RPC framing; static
files; the CLI's parsing and output, and its import (Create, then Update); a PATCH
with both fields, which the editor never sends; a clock that stands still; the
measuring of text; hit testing (any node, port or lasso content may be hit),
snapping, zoom, SVG, minimap, export; the caches the page draws from (the sidebar's
list, a container's ports), whose answers may arrive in the wrong order
(`app.js:573`, `app.js:802`), and which folders of the sidebar are open;
end-to-end tests and the README's renderer.
`DiagramService` takes the repository at its word (one read or write of a diagram
is one step); `EditorTabs` takes the service at `AtomicDiagrams`, which
`ServiceImplementsAtomic` backs for one process.

## Plan

Written so far, in this order: the service with its abstract specification and
proofs, the layout loop and its proofs, the repository, the MCP server, the
editor's saving and loading, navigation, the canvas with its undo history and
proofs, the placement of the layout.

Next modules:

1. `HttpApi`: the routes on top of `DiagramService` as `McpServer` is, a PATCH with
   both fields as two calls; CLI import as Create and Update, with a failure in
   between.
2. `DiagramService` with a clock that may stand still or go back, and what
   `TagIdentifiesVersion` is worth then.

Next abstract specifications: a repository that is a map with acknowledged
writes, implemented by `JSONFileRepo` for one process; `EditorTabs`' server as
an instance of `AtomicDiagrams`.

Next theorems: the repository as a map, once its abstract specification is
written.  That the layout ends on every other diagram (`LayoutEnds`, the converse
of `LayoutNeverEndsOnCycles`) stays with TLC: it is liveness.
