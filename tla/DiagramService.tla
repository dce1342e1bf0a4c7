--------------------------- MODULE DiagramService ---------------------------
(***************************************************************************)
(* The diagrams.Service of one process (internal/diagrams/service.go) as   *)
(* concurrent goroutines see it.  Every goroutine that is in a call is a   *)
(* Caller.  A mutating call takes writeMu, reads the diagram, decides, and *)
(* saves it; other goroutines run between any two of these steps.  Reads   *)
(* do not take writeMu.  Each call of the repository is one step, because  *)
(* JSONFileRepo holds its own mutex for the length of a call (module       *)
(* JSONFileRepo looks inside it).                                          *)
(***************************************************************************)
EXTENDS DiagramModel, FiniteSets

CONSTANTS
    Caller,      \* goroutines that call the service
    Nobody,      \* writeMu is free
    Sent,        \* the canvases clients send
    OnDisk,      \* the canvases ./data may hold when the process starts
    MaxWrites,   \* bound: mutating calls started in one behaviour
    IoErrors     \* whether file operations may fail

ASSUME CallerAssumption == Nobody \notin Caller
ASSUME SentAssumption == Sent \subseteq Canvas /\ OnDisk \subseteq Canvas
ASSUME BoundAssumption == MaxWrites \in Nat /\ IoErrors \in BOOLEAN

VARIABLES
    disk,        \* Id -> the diagram file, or NoDiagram
    clock,       \* the last reading of s.now()
    drawn,       \* the uuids that exist, or were handed to a Create
    started,     \* how many mutating calls have started (the bound)
    writeMu,     \* the holder of service.writeMu
    pc, call, base, reply   \* per caller: place in the code, arguments,
                            \* what repo.Get returned, what it was answered

shared == <<disk, clock, drawn, started, writeMu>>
vars   == <<disk, clock, drawn, started, writeMu, pc, call, base, reply>>

Place == {"idle", "lock", "get", "read", "save", "diverged", "done"}
NoCall == [op |-> "Get", id |-> CHOOSE i \in Id : TRUE]

Init ==
    /\ disk \in [Id -> [name: Name, canvas: OnDisk, component: {FALSE},
                        created: {0}, updated: {0}] \cup {NoDiagram}]
    /\ drawn = {i \in Id : disk[i] # NoDiagram}
    /\ clock = 0
    /\ started = 0
    /\ writeMu = Nobody
    /\ pc = [w \in Caller |-> "idle"]
    /\ call = [w \in Caller |-> NoCall]
    /\ base = [w \in Caller |-> NoDiagram]
    /\ reply = [w \in Caller |-> NoReply]

-----------------------------------------------------------------------------
Goto(w, place) == pc' = [pc EXCEPT ![w] = place]

Answer(w, status, d) ==
    /\ Goto(w, "done")
    /\ base' = [base EXCEPT ![w] = NoDiagram]
    /\ reply' = [reply EXCEPT ![w] = [status |-> status, diagram |-> d]]

Unlock(w) == writeMu' = IF writeMu = w THEN Nobody ELSE writeMu

\* A caller enters a method of the service.
Begin(w, c) ==
    /\ pc[w] = "idle"
    /\ c.op = "Create" => c.id \notin drawn
    /\ c.op # "Get" => started < MaxWrites
    /\ call' = [call EXCEPT ![w] = c]
    /\ drawn' = IF c.op = "Create" THEN drawn \cup {c.id} ELSE drawn
    /\ started' = IF c.op = "Get" THEN started ELSE started + 1
    /\ IF BadStyle(c)
         THEN Answer(w, "invalid", NoDiagram)
         ELSE /\ Goto(w, IF c.op = "Get" THEN "get" ELSE "lock")
              /\ UNCHANGED <<base, reply>>
    /\ UNCHANGED <<disk, clock, writeMu>>

Get(w) ==
    /\ pc[w] = "get"
    /\ LET d == Fetched(call[w], disk[call[w].id])
       IN  Answer(w, Verdict(call[w], d), d)
    /\ UNCHANGED <<shared, call>>

\* Mutant: the method forgets s.writeMu.Lock().
LockNotTaken(w) ==
    /\ pc[w] = "lock"
    /\ IF BadName(call[w])
         THEN Answer(w, "invalid", NoDiagram) /\ UNCHANGED writeMu
         ELSE /\ UNCHANGED <<base, reply, writeMu>>
              /\ Goto(w, IF call[w].op \in {"Create", "Delete"} THEN "save" ELSE "read")
    /\ UNCHANGED <<disk, clock, drawn, started, call>>

\* s.writeMu.Lock(); Create and Rename look at the name once they hold it.
Lock(w) ==
    /\ pc[w] = "lock"
    /\ writeMu = Nobody
    /\ IF BadName(call[w])
         THEN Answer(w, "invalid", NoDiagram) /\ UNCHANGED writeMu
         ELSE /\ writeMu' = w
              /\ Goto(w, IF call[w].op \in {"Create", "Delete"} THEN "save" ELSE "read")
              /\ UNCHANGED <<base, reply>>
    /\ UNCHANGED <<disk, clock, drawn, started, call>>

\* Mutant: an early return without the deferred Unlock.
ReadLeaksLock(w) ==
    /\ pc[w] = "read"
    /\ LET d       == Fetched(call[w], disk[call[w].id])
           verdict == Verdict(call[w], d)
       IN  \/ /\ verdict \notin {"save", "diverges"}
              /\ Answer(w, verdict, IF verdict = "ok" THEN d ELSE NoDiagram)
              /\ UNCHANGED writeMu
           \/ /\ verdict \in {"save", "diverges"}
              /\ base' = [base EXCEPT ![w] = d]
              /\ Goto(w, IF verdict = "save" THEN "save" ELSE "diverged")
              /\ UNCHANGED <<reply, writeMu>>
    /\ UNCHANGED <<disk, clock, drawn, started, call>>

\* repo.Get inside a mutating call, and the decision taken on its result.
\* A layout that diverges never comes back, and keeps writeMu.
Read(w) ==
    /\ pc[w] = "read"
    /\ LET d       == Fetched(call[w], disk[call[w].id])
           verdict == Verdict(call[w], d)
       IN  \/ /\ verdict \notin {"save", "diverges"}
              /\ Answer(w, verdict, IF verdict = "ok" THEN d ELSE NoDiagram)
              /\ Unlock(w)
           \/ /\ verdict \in {"save", "diverges"}
              /\ base' = [base EXCEPT ![w] = d]
              /\ Goto(w, IF verdict = "save" THEN "save" ELSE "diverged")
              /\ UNCHANGED <<reply, writeMu>>
    /\ UNCHANGED <<disk, clock, drawn, started, call>>

\* s.now(), then repo.Save or repo.Delete, then the deferred Unlock.
Write(w, status) ==
    LET c == call[w]
        d == Written(c, base[w], clock + 1)
    IN  /\ pc[w] = "save"
        /\ disk' = [disk EXCEPT ![c.id] = d]
        /\ clock' = IF c.op = "Delete" THEN clock ELSE clock + 1
        /\ Answer(w, status, IF status = "ok" THEN d ELSE NoDiagram)
        /\ Unlock(w)
        /\ UNCHANGED <<drawn, started, call>>

Save(w) == Write(w, "ok")

\* The diagram file was replaced (or removed), updating index.json failed.
SaveButNotIndexed(w) == IoErrors /\ Write(w, "internal")

\* A file operation failed before it changed anything.
Fail(w) ==
    /\ IoErrors
    /\ pc[w] \in {"get", "read", "save"}
    /\ Answer(w, "internal", NoDiagram)
    /\ Unlock(w)
    /\ UNCHANGED <<disk, clock, drawn, started, call>>

\* The caller takes the result.
Return(w) ==
    /\ pc[w] = "done"
    /\ Goto(w, "idle")
    /\ call' = [call EXCEPT ![w] = NoCall]
    /\ reply' = [reply EXCEPT ![w] = NoReply]
    /\ UNCHANGED <<shared, base>>

Step(w) == Get(w) \/ Lock(w) \/ Read(w) \/ Save(w) \/ SaveButNotIndexed(w) \/ Fail(w)

Next == \E w \in Caller :
            \/ \E c \in CallsOver(Sent, {NoTag} \cup 0..clock) : Begin(w, c)
            \/ Step(w)
            \/ Return(w)

\* Go schedules every runnable goroutine, and a sync.Mutex is starvation-free.
Fairness == \A w \in Caller : /\ WF_vars(Get(w) \/ Read(w) \/ Save(w))
                              /\ SF_vars(Lock(w))

Spec == Init /\ [][Next]_vars
FairSpec == Spec /\ Fairness

-----------------------------------------------------------------------------
(* Properties *)

\* Every variable has its type: in particular no draft, reply or file is ever
\* half of a diagram.
TypeOK ==
    /\ disk \in [Id -> Diagram \cup {NoDiagram}]
    /\ clock \in Nat /\ started \in Nat
    /\ drawn \in SUBSET Id
    /\ writeMu \in Caller \cup {Nobody}
    /\ pc \in [Caller -> Place]
    /\ call \in [Caller -> Call]
    /\ base \in [Caller -> Diagram \cup {NoDiagram}]
    /\ reply \in [Caller -> Reply]

Rewriting(w) == pc[w] = "save" /\ call[w].op \notin {"Create", "Delete"}

\* A call that is about to save still works on the latest version: between its
\* repo.Get and its repo.Save nobody has saved, renamed or deleted the diagram
\* (the lost update and the revived diagram of the writeMu comment,
\* service.go:78-82).
WriterHasLatest ==
    \A w \in Caller : Rewriting(w) =>
        /\ base[w] # NoDiagram
        /\ base[w] = Fetched(call[w], disk[call[w].id])

\* A PUT with an If-Match only ever replaces the version that carries that tag:
\* whatever another tab saved in between is never overwritten (service.go:59-61,
\* 181-183).
ConditionalPutReplacesItsVersion ==
    [][\A i \in Id, w \in Caller :
        (/\ disk'[i] # disk[i] /\ pc[w] = "save" /\ pc'[w] = "done"
         /\ call[w].op = "Update" /\ call[w].id = i /\ call[w].ifMatch # NoTag)
        => disk[i] # NoDiagram /\ disk[i].updated = call[w].ifMatch]_vars

\* While the tag a client was given is the current one, the diagram in the store
\* is the one it was given, up to the healing of dangling edges on read: a tag is
\* never reused for other content (ETag, service.go:37-41).
TagIdentifiesVersion ==
    \A w \in Caller :
        LET d == reply[w].diagram
            s == disk[call[w].id]
        IN  (pc[w] = "done" /\ d # NoDiagram /\ s # NoDiagram /\ s.updated = d.updated)
            => Prune(s) = Prune(d)

\* Successive versions of a diagram have increasing tags and keep their creation
\* time, and its role as a library component changes only through SetComponent
\* (service.go:184-187).
VersionsAdvance ==
    [][\A i \in Id :
        (disk[i] # NoDiagram /\ disk'[i] # NoDiagram /\ disk'[i] # disk[i]) =>
            /\ disk'[i].updated > disk[i].updated
            /\ disk'[i].created = disk[i].created
            /\ disk'[i].component # disk[i].component =>
                \E w \in Caller : pc[w] = "save" /\ call[w].op = "SetComponent"]_vars

\* A deleted diagram stays deleted: no update, rename or layout that was under way
\* brings the file back; a file appears only under a fresh uuid.
DeletedStaysDeleted ==
    [][\A i \in Id : (disk[i] = NoDiagram /\ disk'[i] # NoDiagram) =>
        \E w \in Caller : pc[w] = "save" /\ call[w].op = "Create" /\ call[w].id = i]_vars

\* No write leaves an edge without its end that was not dangling before: only
\* hand-edited files hold such edges (service.go:106-112).
NoNewDanglingEdge ==
    [][\A i \in Id : disk'[i] # NoDiagram =>
        Dangling(disk'[i].canvas) \subseteq
            (IF disk[i] = NoDiagram THEN {} ELSE Dangling(disk[i].canvas))]_vars

\* Every call that starts returns.
EveryCallReturns == \A w \in Caller : pc[w] # "idle" ~> pc[w] = "done"

-----------------------------------------------------------------------------
\* What a client of the service can see of its call.
Phase(place) == IF place \in {"idle", "done"} THEN place ELSE "pending"

Atomic == INSTANCE AtomicDiagrams WITH phase <- [w \in Caller |-> Phase(pc[w])]

\* The service behaves as if every call took effect in one step on the latest
\* version (the reason for writeMu, service.go:78-86).
ServiceIsAtomic == Atomic!Spec
=============================================================================
