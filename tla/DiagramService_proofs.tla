------------------------ MODULE DiagramService_proofs ------------------------
(***************************************************************************)
(* Proofs about DiagramService for every number of callers, diagrams and   *)
(* writes.  The inductive invariant Inv says who holds writeMu, what every *)
(* place in the code implies about the call, that a pending Create owns    *)
(* its uuid, and that the call about to save still has the latest version. *)
(***************************************************************************)
EXTENDS DiagramService, DiagramModel_proofs

Holding == {"read", "save", "diverged"}

\* writeMu is held exactly from Lock to the answer.
LockInv == \A w \in Caller : pc[w] \in Holding <=> writeMu = w

\* What the place in the code says about the call made.
PlaceInv == \A w \in Caller :
    /\ pc[w] = "get" => call[w].op = "Get"
    /\ pc[w] \in {"lock"} \cup Holding => call[w].op # "Get" /\ ~BadStyle(call[w])
    /\ pc[w] = "read" => call[w].op \notin {"Create", "Delete"}
    /\ pc[w] = "save" => Verdict(call[w], base[w]) = "save"

\* A Create that has not saved yet owns its uuid.
Creating(w) == pc[w] \in {"lock", "save"} /\ call[w].op = "Create"

FreshInv ==
    /\ \A i \in Id : disk[i] # NoDiagram => i \in drawn
    /\ \A w \in Caller : Creating(w) =>
          call[w].id \in drawn /\ disk[call[w].id] = NoDiagram
    /\ \A v, w \in Caller :
          Creating(v) /\ Creating(w) /\ v # w => call[v].id # call[w].id

\* No diagram, stored or answered, carries a tag from the future.
ClockInv ==
    /\ \A i \in Id : disk[i] # NoDiagram => disk[i].updated <= clock
    /\ \A w \in Caller : pc[w] = "done" /\ reply[w].diagram # NoDiagram =>
          reply[w].diagram.updated <= clock

Inv == /\ TypeOK /\ LockInv /\ PlaceInv /\ FreshInv /\ ClockInv
       /\ WriterHasLatest /\ TagIdentifiesVersion

\* A step of the service, whatever its clients send.
Serves == \E w \in Caller : (\E c \in Call : Begin(w, c)) \/ Step(w) \/ Return(w)

-----------------------------------------------------------------------------
\* The initial states satisfy the invariant.
LEMMA InitInv == Init => Inv
  <1> SUFFICES ASSUME Init PROVE Inv
    OBVIOUS
  <1>1. NoCall \in Call
    <2>1. (CHOOSE i \in Id : TRUE) \in Id
      BY IdAssumption
    <2> QED
      BY <2>1 DEF NoCall, Call, CallsOver
  <1>2. TypeOK
    <2>1. [name: Name, canvas: OnDisk, component: {FALSE}, created: {0}, updated: {0}]
            \subseteq Diagram
      <3> SUFFICES ASSUME NEW d \in [name: Name, canvas: OnDisk, component: {FALSE},
                                     created: {0}, updated: {0}]
                   PROVE  d \in Diagram
        OBVIOUS
      <3>1. OnDisk \subseteq Canvas /\ {FALSE} \subseteq BOOLEAN /\ {0} \subseteq Nat
        BY SentAssumption
      <3> HIDE DEF Canvas
      <3>2. /\ d = [name |-> d.name, canvas |-> d.canvas, component |-> d.component,
                    created |-> d.created, updated |-> d.updated]
            /\ d.name \in Name /\ d.canvas \in Canvas /\ d.component \in BOOLEAN
            /\ d.created \in Nat /\ d.updated \in Nat
        BY <3>1
      <3> QED
        BY <3>2 DEF Diagram
    <2>2. disk \in [Id -> Diagram \cup {NoDiagram}]
      BY <2>1 DEF Init
    <2> QED
      BY <1>1, <2>2 DEF Init, TypeOK, Place, Reply, NoReply
  <1>3. LockInv /\ PlaceInv /\ WriterHasLatest /\ TagIdentifiesVersion
    BY CallerAssumption
    DEF Init, LockInv, PlaceInv, WriterHasLatest, TagIdentifiesVersion, Rewriting, Holding
  <1>4. FreshInv
    BY DEF Init, FreshInv, Creating
  <1>5. ClockInv
    <2>1. \A i \in Id : disk[i] # NoDiagram => disk[i].updated = 0
      BY DEF Init
    <2> QED
      BY <2>1 DEF Init, ClockInv
  <1> QED
    BY <1>2, <1>3, <1>4, <1>5 DEF Inv

\* A method call enters the service.
LEMMA BeginInv ==
    ASSUME Inv, NEW w \in Caller, NEW c \in Call, Begin(w, c)
    PROVE  Inv'
  <1> USE DEF Inv
  <1>1. c.op # "Create" \/ c.id \notin drawn
    BY DEF Begin
  <1>2. TypeOK'
    <2>1. drawn' \in SUBSET Id /\ started' \in Nat
      BY CallFields DEF TypeOK, Begin
    <2>2. pc' \in [Caller -> Place]
      BY DEF TypeOK, Begin, Answer, Goto, Place
    <2>3. base' \in [Caller -> Diagram \cup {NoDiagram}] /\ reply' \in [Caller -> Reply]
      <3>1. CASE BadStyle(c)
        <4>1. [status |-> "invalid", diagram |-> NoDiagram] \in Reply
          BY DEF Reply
        <4>2. /\ base' = [base EXCEPT ![w] = NoDiagram]
              /\ reply' = [reply EXCEPT ![w] = [status |-> "invalid", diagram |-> NoDiagram]]
          BY <3>1 DEF Begin, Answer
        <4> QED
          BY <4>1, <4>2 DEF TypeOK
      <3>2. CASE ~BadStyle(c)
        BY <3>2 DEF TypeOK, Begin
      <3> QED
        BY <3>1, <3>2
    <2> QED
      BY <2>1, <2>2, <2>3 DEF TypeOK, Begin
  <1>3. \A v \in Caller : v # w => /\ pc'[v] = pc[v] /\ call'[v] = call[v]
                                   /\ base'[v] = base[v] /\ reply'[v] = reply[v]
    BY DEF TypeOK, Begin, Answer, Goto
  <1>4. /\ pc[w] = "idle" /\ call'[w] = c
        /\ UNCHANGED <<disk, clock, writeMu>>
        /\ \/ /\ pc'[w] = "done" /\ reply'[w].diagram = NoDiagram
           \/ /\ pc'[w] = "get" /\ c.op = "Get" /\ ~BadStyle(c)
           \/ /\ pc'[w] = "lock" /\ c.op # "Get" /\ ~BadStyle(c)
    BY DEF TypeOK, Begin, Answer, Goto
  <1>5. LockInv'
    BY <1>3, <1>4 DEF LockInv, Holding
  <1>6. PlaceInv'
    BY <1>3, <1>4 DEF PlaceInv, Holding
  <1>7. drawn' = IF c.op = "Create" THEN drawn \cup {c.id} ELSE drawn
    BY DEF Begin
  <1>8. FreshInv'
    <2>1. \A v \in Caller : v # w => (Creating(v)' <=> Creating(v))
      BY <1>3 DEF Creating
    <2>2. Creating(w)' => c.op = "Create" /\ c.id \notin drawn /\ disk[c.id] = NoDiagram
      BY <1>1, <1>4, CallFields DEF Creating, FreshInv
    <2> QED
      BY <1>3, <1>4, <1>7, <2>1, <2>2, CallFields DEF FreshInv
  <1>9. ClockInv'
    BY <1>3, <1>4 DEF ClockInv
  <1>10. WriterHasLatest'
    BY <1>3, <1>4 DEF WriterHasLatest, Rewriting
  <1>11. TagIdentifiesVersion'
    BY <1>3, <1>4 DEF TagIdentifiesVersion
  <1> QED
    BY <1>2, <1>5, <1>6, <1>8, <1>9, <1>10, <1>11

\* An answer that is given without writing: the call leaves the lock if it had it.
LEMMA AnswerInv ==
    ASSUME Inv, NEW w \in Caller, pc[w] \in {"get", "lock", "read", "save"},
           NEW status \in {"ok", "notFound", "conflict", "invalid", "internal"},
           NEW d \in Diagram \cup {NoDiagram}, Answer(w, status, d), Unlock(w),
           d # NoDiagram => /\ disk[call[w].id] # NoDiagram
                            /\ d.updated = disk[call[w].id].updated
                            /\ Prune(d) = Prune(disk[call[w].id]),
           UNCHANGED <<disk, clock, drawn, started, call>>
    PROVE  Inv'
  <1> USE DEF Inv
  <1>1. TypeOK'
    BY DEF TypeOK, Answer, Goto, Unlock, Place, Reply
  <1>2. /\ \A v \in Caller : v # w => /\ pc'[v] = pc[v] /\ base'[v] = base[v]
                                      /\ reply'[v] = reply[v]
        /\ pc'[w] = "done" /\ reply'[w].diagram = d
    BY DEF TypeOK, Answer, Goto
  <1>3. LockInv'
    BY <1>2, CallerAssumption DEF LockInv, Holding, Unlock, TypeOK
  <1>4. PlaceInv' /\ FreshInv' /\ WriterHasLatest'
    BY <1>2 DEF PlaceInv, FreshInv, Creating, WriterHasLatest, Rewriting, Holding
  <1>5. call[w].id \in Id
    BY CallFields DEF TypeOK
  <1>6. ClockInv'
    BY <1>2, <1>5 DEF ClockInv
  <1>7. TagIdentifiesVersion'
    BY <1>2 DEF TagIdentifiesVersion
  <1> QED
    BY <1>1, <1>3, <1>4, <1>6, <1>7

LEMMA GetInv ==
    ASSUME Inv, NEW w \in Caller, Get(w)
    PROVE  Inv'
  <1> USE DEF Inv
  <1> DEFINE s == disk[call[w].id]
             d == Fetched(call[w], s)
  <1>1. s \in Diagram \cup {NoDiagram}
    BY CallFields DEF TypeOK
  <1>2. call[w].op = "Get"
    BY DEF Get, PlaceInv
  <1>3. Verdict(call[w], d) \in {"ok", "notFound", "conflict", "invalid", "internal"}
    BY <1>2 DEF Verdict, NothingToWrite
  <1>4. Unlock(w)
    BY DEF Get, Unlock, LockInv, Holding, shared
  <1>5. d # NoDiagram => s # NoDiagram /\ d.updated = s.updated /\ Prune(d) = Prune(s)
    BY <1>1, FetchedType
  <1>6. Answer(w, Verdict(call[w], d), d) /\ d \in Diagram \cup {NoDiagram}
    BY <1>1, FetchedType DEF Get
  <1> HIDE DEF d, s
  <1>7. d # NoDiagram => /\ disk[call[w].id] # NoDiagram
                         /\ d.updated = disk[call[w].id].updated
                         /\ Prune(d) = Prune(disk[call[w].id])
    BY <1>5 DEF s
  <1> QED
    BY <1>3, <1>4, <1>6, <1>7, AnswerInv DEF Get, shared

LEMMA LockStepInv ==
    ASSUME Inv, NEW w \in Caller, Lock(w)
    PROVE  Inv'
  <1> USE DEF Inv
  <1>1. CASE BadName(call[w])
    <2>1. Unlock(w)
      BY <1>1, CallerAssumption DEF Lock, Unlock
    <2> QED
      BY <1>1, <2>1, AnswerInv DEF Lock
  <1>2. CASE ~BadName(call[w])
    <2>1. /\ pc[w] = "lock" /\ writeMu = Nobody /\ writeMu' = w
          /\ pc' = [pc EXCEPT ![w] =
                IF call[w].op \in {"Create", "Delete"} THEN "save" ELSE "read"]
          /\ UNCHANGED <<base, reply, disk, clock, drawn, started, call>>
      BY <1>2 DEF Lock, Goto
    <2>2. TypeOK'
      BY <2>1 DEF TypeOK, Place
    <2>3. /\ \A v \in Caller : v # w => pc'[v] = pc[v]
          /\ pc'[w] = "save" \/ pc'[w] = "read"
          /\ pc'[w] = "save" <=> call[w].op \in {"Create", "Delete"}
      BY <2>1 DEF TypeOK
    <2>4. LockInv'
      BY <2>1, <2>3, CallerAssumption DEF LockInv, Holding
    <2>5. PlaceInv'
      <3>1. call[w].op \in {"Create", "Delete"} => Verdict(call[w], base[w]) = "save"
        BY <1>2, <2>1 DEF PlaceInv, Verdict
      <3> QED
        BY <2>1, <2>3, <3>1 DEF PlaceInv, Holding
    <2>6. FreshInv'
      BY <2>1, <2>3 DEF FreshInv, Creating
    <2>7. ClockInv' /\ TagIdentifiesVersion'
      BY <2>1, <2>3 DEF ClockInv, TagIdentifiesVersion
    <2>8. WriterHasLatest'
      BY <2>1, <2>3 DEF WriterHasLatest, Rewriting
    <2> QED
      BY <2>2, <2>4, <2>5, <2>6, <2>7, <2>8
  <1> QED
    BY <1>1, <1>2

LEMMA ReadInv ==
    ASSUME Inv, NEW w \in Caller, Read(w)
    PROVE  Inv'
  <1> USE DEF Inv
  <1> DEFINE s == disk[call[w].id]
             d == Fetched(call[w], s)
             verdict == Verdict(call[w], d)
  <1>1. s \in Diagram \cup {NoDiagram}
    BY CallFields DEF TypeOK
  <1>2. /\ d \in Diagram \cup {NoDiagram}
        /\ d # NoDiagram => s # NoDiagram /\ d.updated = s.updated /\ Prune(d) = Prune(s)
    BY <1>1, FetchedType
  <1>3. CASE verdict \notin {"save", "diverges"}
    <2> DEFINE a == IF verdict = "ok" THEN d ELSE NoDiagram
    <2>1. verdict \in {"ok", "notFound", "conflict", "invalid", "internal"}
      BY <1>3, VerdictType
    <2>2. Answer(w, verdict, a) /\ Unlock(w)
      BY <1>3 DEF Read
    <2>3. /\ a \in Diagram \cup {NoDiagram}
          /\ a # NoDiagram => /\ disk[call[w].id] # NoDiagram
                              /\ a.updated = disk[call[w].id].updated
                              /\ Prune(a) = Prune(disk[call[w].id])
      BY <1>2
    <2> HIDE DEF a, verdict
    <2> QED
      BY <2>1, <2>2, <2>3, AnswerInv DEF Read
  <1>4. CASE verdict \in {"save", "diverges"}
    <2>1. /\ pc[w] = "read"
          /\ base' = [base EXCEPT ![w] = d]
          /\ pc' = [pc EXCEPT ![w] = IF verdict = "save" THEN "save" ELSE "diverged"]
          /\ UNCHANGED <<reply, writeMu, disk, clock, drawn, started, call>>
      BY <1>4 DEF Read, Goto
    <2>2. /\ \A v \in Caller : v # w => pc'[v] = pc[v] /\ base'[v] = base[v]
          /\ pc'[w] \in {"save", "diverged"}
          /\ pc'[w] = "save" => verdict = "save"
          /\ base'[w] = d
      BY <2>1 DEF TypeOK
    <2>3. call[w].op \notin {"Create", "Delete", "Get"}
      BY <2>1 DEF PlaceInv, Holding
    <2>4. d # NoDiagram
      BY <1>4, <2>3 DEF Verdict
    <2>5. TypeOK'
      BY <1>2, <2>1 DEF TypeOK, Place
    <2>6. LockInv'
      BY <2>1, <2>2 DEF LockInv, Holding
    <2>7. PlaceInv'
      BY <2>1, <2>2, <2>3 DEF PlaceInv, Holding
    <2>8. FreshInv'
      BY <2>1, <2>2, <2>3 DEF FreshInv, Creating
    <2>9. ClockInv' /\ TagIdentifiesVersion'
      BY <2>1, <2>2 DEF ClockInv, TagIdentifiesVersion
    <2>10. WriterHasLatest'
      BY <2>1, <2>2, <2>4 DEF WriterHasLatest, Rewriting
    <2> QED
      BY <2>5, <2>6, <2>7, <2>8, <2>9, <2>10
  <1> QED
    BY <1>3, <1>4

LEMMA ReturnInv ==
    ASSUME Inv, NEW w \in Caller, Return(w)
    PROVE  Inv'
  <1> USE DEF Inv
  <1>1. NoCall \in Call
    <2>1. (CHOOSE i \in Id : TRUE) \in Id
      BY IdAssumption
    <2> QED
      BY <2>1 DEF NoCall, Call, CallsOver
  <1>2. /\ pc[w] = "done" /\ pc'[w] = "idle"
        /\ \A v \in Caller : v # w => /\ pc'[v] = pc[v] /\ call'[v] = call[v]
                                      /\ reply'[v] = reply[v]
        /\ UNCHANGED <<disk, clock, drawn, started, writeMu, base>>
    BY DEF TypeOK, Return, Goto, shared
  <1>3. TypeOK'
    BY <1>1, <1>2 DEF TypeOK, Return, Goto, Place, Reply, NoReply
  <1>4. LockInv' /\ PlaceInv' /\ FreshInv'
    BY <1>2 DEF LockInv, PlaceInv, FreshInv, Creating, Holding
  <1>5. ClockInv' /\ WriterHasLatest' /\ TagIdentifiesVersion'
    BY <1>2 DEF ClockInv, WriterHasLatest, Rewriting, TagIdentifiesVersion
  <1> QED
    BY <1>3, <1>4, <1>5

\* What a Save, complete or not, does to the store: exactly one diagram changes,
\* by the rule of the call, applied to the version the store still holds.
LEMMA WriteStep ==
    ASSUME Inv, NEW w \in Caller, NEW status, Write(w, status)
    PROVE  LET c == call[w]
               new == Written(c, base[w], clock + 1)
           IN  /\ c \in Call /\ c.id \in Id /\ c.op # "Get"
               /\ Verdict(c, base[w]) = "save"
               /\ disk' = [disk EXCEPT ![c.id] = new]
               /\ \A i \in Id : i # c.id => disk'[i] = disk[i]
               /\ disk'[c.id] = new
               /\ new \in Diagram \cup {NoDiagram}
               /\ c.op = "Delete" => new = NoDiagram /\ clock' = clock
               /\ c.op # "Delete" => new \in Diagram /\ new.updated = clock + 1
                                     /\ clock' = clock + 1
               /\ c.op = "Create" => disk[c.id] = NoDiagram
               /\ Rewriting(w) =>
                    /\ disk[c.id] # NoDiagram
                    /\ base[w] = Fetched(c, disk[c.id])
                    /\ new.created = disk[c.id].created
                    /\ c.op # "SetComponent" => new.component = disk[c.id].component
  <1> USE DEF Inv
  <1> DEFINE c == call[w]
             new == Written(c, base[w], clock + 1)
  <1>1. c \in Call /\ c.id \in Id /\ c.op # "Get" /\ Verdict(c, base[w]) = "save"
    BY CallFields DEF Write, TypeOK, PlaceInv, Holding
  <1>2. base[w] \in Diagram \cup {NoDiagram} /\ clock + 1 \in Nat
    BY DEF TypeOK
  <1>3. /\ new \in Diagram \cup {NoDiagram}
        /\ c.op = "Delete" => new = NoDiagram
        /\ c.op # "Delete" => new \in Diagram /\ new.updated = clock + 1
        /\ c.op \notin {"Create", "Delete"} =>
              /\ base[w] \in Diagram
              /\ new.created = base[w].created
              /\ c.op # "SetComponent" => new.component = base[w].component
    BY <1>1, <1>2, WrittenType
  <1>4. disk' = [disk EXCEPT ![c.id] = new]
    BY DEF Write
  <1>5. clock' = IF c.op = "Delete" THEN clock ELSE clock + 1
    BY DEF Write
  <1>6. c.op = "Create" => disk[c.id] = NoDiagram
    BY DEF Write, FreshInv, Creating
  <1>7. Rewriting(w) => disk[c.id] # NoDiagram /\ base[w] = Fetched(c, disk[c.id])
    <2>1. Rewriting(w) => base[w] # NoDiagram /\ base[w] = Fetched(c, disk[c.id])
      BY DEF WriterHasLatest
    <2>2. disk[c.id] \in Diagram \cup {NoDiagram}
      BY <1>1 DEF TypeOK
    <2> QED
      BY <2>1, <2>2, FetchedType
  <1>8. Rewriting(w) => /\ base[w].created = disk[c.id].created
                        /\ base[w].component = disk[c.id].component
    BY <1>1, <1>7, FetchedType DEF TypeOK
  <1> HIDE DEF new
  <1>9. /\ disk'[c.id] = new
        /\ \A i \in Id : i # c.id => disk'[i] = disk[i]
    BY <1>1, <1>4 DEF TypeOK
  <1> QED
    BY <1>1, <1>3, <1>4, <1>5, <1>6, <1>7, <1>8, <1>9 DEF Rewriting, new

LEMMA WriteInv ==
    ASSUME Inv, NEW w \in Caller, NEW status \in {"ok", "internal"}, Write(w, status)
    PROVE  Inv'
  <1> USE DEF Inv
  <1> DEFINE c == call[w]
             new == Written(c, base[w], clock + 1)
             d == IF status = "ok" THEN new ELSE NoDiagram
  <1>1. /\ c \in Call /\ c.id \in Id /\ c.op # "Get"
        /\ disk' = [disk EXCEPT ![c.id] = new]
        /\ \A i \in Id : i # c.id => disk'[i] = disk[i]
        /\ disk'[c.id] = new
        /\ new \in Diagram \cup {NoDiagram}
        /\ c.op = "Delete" => new = NoDiagram /\ clock' = clock
        /\ c.op # "Delete" => new \in Diagram /\ new.updated = clock + 1 /\ clock' = clock + 1
        /\ Rewriting(w) => disk[c.id] # NoDiagram
    BY WriteStep
  <1>2. /\ pc[w] = "save"
        /\ Answer(w, status, d)
        /\ Unlock(w)
        /\ UNCHANGED <<drawn, started, call>>
    BY DEF Write
  <1> HIDE DEF new
  <1>3. /\ \A v \in Caller : v # w => /\ pc'[v] = pc[v] /\ base'[v] = base[v]
                                      /\ reply'[v] = reply[v]
        /\ pc'[w] = "done" /\ reply'[w].diagram = d
    BY <1>2 DEF TypeOK, Answer, Goto
  <1>4. clock' \in Nat /\ clock <= clock'
    BY <1>1 DEF TypeOK
  <1>5. TypeOK'
    <2>1. d \in Diagram \cup {NoDiagram}
      BY <1>1
    <2> HIDE DEF d
    <2>2. disk' \in [Id -> Diagram \cup {NoDiagram}]
      BY <1>1 DEF TypeOK
    <2>3. reply' \in [Caller -> Reply]
      BY <1>2, <2>1 DEF TypeOK, Answer, Reply
    <2> QED
      BY <1>2, <1>4, <2>2, <2>3 DEF TypeOK, Answer, Goto, Unlock, Place
  <1>6. writeMu = w /\ writeMu' = Nobody
    BY <1>2 DEF LockInv, Holding, Unlock
  <1>7. \A v \in Caller : v # w => pc[v] \notin Holding
    BY <1>6 DEF LockInv
  <1>8. LockInv'
    BY <1>3, <1>6, <1>7, CallerAssumption DEF LockInv, Holding
  <1>9. PlaceInv'
    BY <1>2, <1>3 DEF PlaceInv, Holding
  <1>10. WriterHasLatest'
    BY <1>3, <1>7 DEF WriterHasLatest, Rewriting, Holding
  <1>11. FreshInv'
    <2>1. disk[c.id] # NoDiagram \/ new = NoDiagram \/ (c.op = "Create" /\ Creating(w))
      BY <1>1, <1>2 DEF Rewriting, Creating
    <2>2. \A i \in Id : disk'[i] # NoDiagram => i \in drawn
      BY <1>1, <2>1 DEF FreshInv
    <2>3. \A v \in Caller : v # w /\ Creating(v) /\ call[v].id = c.id => new = NoDiagram
      BY <1>1, <2>1 DEF FreshInv
    <2>4. \A v \in Caller : Creating(v)' => v # w /\ Creating(v)
      BY <1>2, <1>3 DEF Creating
    <2>5. \A v \in Caller : call[v].id \in Id
      BY CallFields DEF TypeOK
    <2>6. \A v \in Caller : Creating(v) => call[v].id \in drawn /\ disk[call[v].id] = NoDiagram
      BY DEF FreshInv
    <2>7. \A u, v \in Caller : Creating(u) /\ Creating(v) /\ u # v => call[u].id # call[v].id
      BY DEF FreshInv
    <2>8. \A v \in Caller : Creating(v)' => call'[v].id \in drawn' /\ disk'[call'[v].id] = NoDiagram
      BY <1>1, <1>2, <2>3, <2>4, <2>5, <2>6
    <2>9. \A u, v \in Caller : Creating(u)' /\ Creating(v)' /\ u # v => call'[u].id # call'[v].id
      BY <1>2, <2>4, <2>7
    <2> QED
      BY <1>2, <2>2, <2>8, <2>9 DEF FreshInv
  <1>12. ClockInv'
    <2>1. \A i \in Id : disk'[i] # NoDiagram => disk'[i].updated <= clock'
      <3> SUFFICES ASSUME NEW i \in Id, disk'[i] # NoDiagram
                   PROVE  disk'[i].updated <= clock'
        OBVIOUS
      <3>1. CASE i = c.id
        BY <1>1, <1>4, <3>1
      <3>2. CASE i # c.id
        <4>1. disk'[i] = disk[i] /\ disk[i] \in Diagram /\ disk[i].updated <= clock
          BY <1>1, <3>2 DEF ClockInv, TypeOK
        <4> QED
          BY <1>4, <4>1 DEF Diagram, TypeOK
      <3> QED
        BY <3>1, <3>2
    <2>2. \A v \in Caller : pc'[v] = "done" /\ reply'[v].diagram # NoDiagram =>
              reply'[v].diagram.updated <= clock'
      <3> SUFFICES ASSUME NEW v \in Caller, pc'[v] = "done", reply'[v].diagram # NoDiagram
                   PROVE  reply'[v].diagram.updated <= clock'
        OBVIOUS
      <3>1. CASE v = w
        BY <1>1, <1>3, <1>4, <3>1
      <3>2. CASE v # w
        <4>1. /\ reply'[v].diagram = reply[v].diagram
              /\ reply[v].diagram \in Diagram
              /\ reply[v].diagram.updated <= clock
          BY <1>3, <3>2 DEF ClockInv, TypeOK, Reply
        <4> QED
          BY <1>4, <4>1 DEF Diagram, TypeOK
      <3> QED
        BY <3>1, <3>2
    <2> QED
      BY <2>1, <2>2 DEF ClockInv
  <1>13. TagIdentifiesVersion'
    <2> SUFFICES ASSUME NEW v \in Caller, pc'[v] = "done", reply'[v].diagram # NoDiagram,
                        disk'[call'[v].id] # NoDiagram,
                        disk'[call'[v].id].updated = reply'[v].diagram.updated
                 PROVE  Prune(disk'[call'[v].id]) = Prune(reply'[v].diagram)
      BY DEF TagIdentifiesVersion
    <2>1. CASE v = w
      BY <1>1, <1>2, <1>3, <2>1
    <2>2. CASE v # w /\ call[v].id # c.id
      <3>1. call[v].id \in Id
        BY CallFields DEF TypeOK
      <3> QED
        BY <1>1, <1>2, <1>3, <2>2, <3>1 DEF TagIdentifiesVersion
    <2>3. CASE v # w /\ call[v].id = c.id
      <3>1. /\ reply[v].diagram \in Diagram
            /\ reply[v].diagram.updated <= clock
            /\ reply'[v].diagram = reply[v].diagram
        BY <1>3, <2>3 DEF ClockInv, TypeOK, Reply
      <3>2. new # NoDiagram /\ new.updated = clock + 1
        BY <1>1, <1>2, <2>3
      <3>3. disk'[call'[v].id] = new
        BY <1>1, <1>2, <2>3
      <3> QED
        BY <3>1, <3>2, <3>3 DEF Diagram, TypeOK
    <2> QED
      BY <2>1, <2>2, <2>3
  <1> QED
    BY <1>5, <1>8, <1>9, <1>10, <1>11, <1>12, <1>13

-----------------------------------------------------------------------------
(* The steps together. *)

\* Whatever clients send, the invariant is kept.
LEMMA ServesInv == Inv /\ [Serves]_vars => Inv'
  <1> SUFFICES ASSUME Inv, [Serves]_vars PROVE Inv'
    OBVIOUS
  <1>1. CASE UNCHANGED vars
    BY <1>1 DEF Inv, vars, TypeOK, LockInv, PlaceInv, FreshInv, ClockInv, Creating,
                WriterHasLatest, Rewriting, TagIdentifiesVersion
  <1>2. ASSUME NEW w \in Caller, NEW c \in Call, Begin(w, c)
        PROVE  Inv'
    BY <1>2, BeginInv
  <1>3. ASSUME NEW w \in Caller, Get(w) PROVE Inv'
    BY <1>3, GetInv
  <1>4. ASSUME NEW w \in Caller, Lock(w) PROVE Inv'
    BY <1>4, LockStepInv
  <1>5. ASSUME NEW w \in Caller, Read(w) PROVE Inv'
    BY <1>5, ReadInv
  <1>6. ASSUME NEW w \in Caller, Save(w) \/ SaveButNotIndexed(w) PROVE Inv'
    BY <1>6, WriteInv DEF Save, SaveButNotIndexed
  <1>7. ASSUME NEW w \in Caller, Fail(w) PROVE Inv'
    BY <1>7, AnswerInv DEF Fail
  <1>8. ASSUME NEW w \in Caller, Return(w) PROVE Inv'
    BY <1>8, ReturnInv
  <1> QED
    BY <1>1, <1>2, <1>3, <1>4, <1>5, <1>6, <1>7, <1>8 DEF Serves, Step

\* The canvases and tags that clients are given to send make calls.
LEMMA NextServes == Inv /\ [Next]_vars => [Serves]_vars
  <1> SUFFICES ASSUME Inv, Next PROVE Serves
    OBVIOUS
  <1>1. {NoTag} \cup 0..clock \subseteq Tag
    BY DEF Inv, TypeOK, Tag
  <1>2. CallsOver(Sent, {NoTag} \cup 0..clock) \subseteq Call
    BY <1>1, SentAssumption, CallsOverMonotone
  <1> QED
    BY <1>2 DEF Next, Serves

\* ... those of the specification in particular.
LEMMA NextInv == Inv /\ [Next]_vars => Inv'
  BY ServesInv, NextServes

\* Inv holds in every reachable state.
THEOREM Invariance == Spec => []Inv
  BY InitInv, NextInv, PTL DEF Spec

\* Every variable keeps its type (service.go: no reply, draft or file is ever half
\* of a diagram).
THEOREM TypeCorrect == Spec => []TypeOK
  BY Invariance, PTL DEF Inv

\* Whoever is about to save a diagram has read its latest version: writeMu makes
\* read-modify-write atomic (service.go:78-86).
THEOREM WritersHaveLatest == Spec => []WriterHasLatest
  BY Invariance, PTL DEF Inv

\* A tag names one version of the content for as long as it is current (ETag,
\* service.go:37-41).
THEOREM TagsIdentifyVersions == Spec => []TagIdentifiesVersion
  BY Invariance, PTL DEF Inv

\* Only Save and SaveButNotIndexed change the store.
LEMMA StoreStep ==
    ASSUME [Serves]_vars, disk' # disk
    PROVE  \E w \in Caller, status \in {"ok", "internal"} : Write(w, status)
  BY DEF Serves, Step, Begin, Get, Lock, Read, Save, SaveButNotIndexed, Fail, Return,
         shared, vars

\* A changed diagram was changed by the Write of a call about that diagram.
LEMMA ChangedDiagram ==
    ASSUME Inv, [Serves]_vars, NEW i \in Id, disk'[i] # disk[i]
    PROVE  \E w \in Caller :
             LET c == call[w]
                 new == Written(c, base[w], clock + 1)
             IN  /\ c.id = i /\ disk'[i] = new /\ pc[w] = "save"
                 /\ \A v \in Caller : v # w => pc'[v] = pc[v]
                 /\ c \in Call /\ c.op # "Get" /\ Verdict(c, base[w]) = "save"
                 /\ c.op = "Delete" => new = NoDiagram
                 /\ c.op # "Delete" => new \in Diagram /\ new.updated = clock + 1
                 /\ c.op = "Create" => disk[i] = NoDiagram
                 /\ Rewriting(w) =>
                      /\ disk[i] # NoDiagram
                      /\ base[w] = Fetched(c, disk[i])
                      /\ new.created = disk[i].created
                      /\ c.op # "SetComponent" => new.component = disk[i].component
  <1>1. PICK w \in Caller, status \in {"ok", "internal"} : Write(w, status)
    BY StoreStep
  <1>2. call[w].id = i
    BY <1>1, WriteStep
  <1>3. pc[w] = "save" /\ \A v \in Caller : v # w => pc'[v] = pc[v]
    BY <1>1 DEF Write, Answer, Goto, Inv, TypeOK
  <1> QED
    BY <1>1, <1>2, <1>3, WriteStep

\* A conditional PUT that writes replaces the version with its tag.
LEMMA ConditionalPutStep ==
    Inv /\ [Serves]_vars => \A i \in Id, w \in Caller :
        (/\ disk'[i] # disk[i] /\ pc[w] = "save" /\ pc'[w] = "done"
         /\ call[w].op = "Update" /\ call[w].id = i /\ call[w].ifMatch # NoTag)
        => disk[i] # NoDiagram /\ disk[i].updated = call[w].ifMatch
  <1> SUFFICES ASSUME Inv, [Serves]_vars, NEW i \in Id, NEW w \in Caller,
                      disk'[i] # disk[i], pc[w] = "save", pc'[w] = "done",
                      call[w].op = "Update", call[w].ifMatch # NoTag
               PROVE  disk[i] # NoDiagram /\ disk[i].updated = call[w].ifMatch
    OBVIOUS
  <1>1. PICK v \in Caller :
           LET c == call[v]
           IN  /\ c.id = i /\ pc[v] = "save" /\ Verdict(c, base[v]) = "save"
               /\ \A u \in Caller : u # v => pc'[u] = pc[u]
               /\ Rewriting(v) => disk[i] # NoDiagram /\ base[v] = Fetched(c, disk[i])
    BY ChangedDiagram
  <1>2. v = w
    BY <1>1
  <1>3. disk[i] # NoDiagram /\ base[w] = disk[i]
    BY <1>1, <1>2 DEF Rewriting, Fetched
  <1>4. ~Stale(call[w], base[w])
    BY <1>1, <1>2 DEF Verdict
  <1> QED
    BY <1>3, <1>4 DEF Stale

\* The If-Match promise of Update (service.go:59-61).
THEOREM ConditionalPuts == Spec => ConditionalPutReplacesItsVersion
  BY Invariance, NextServes, ConditionalPutStep, PTL DEF Spec, ConditionalPutReplacesItsVersion

\* A write moves the tag on and leaves what the server manages alone.
LEMMA VersionStep ==
    Inv /\ [Serves]_vars => \A i \in Id :
          (disk[i] # NoDiagram /\ disk'[i] # NoDiagram /\ disk'[i] # disk[i]) =>
            /\ disk'[i].updated > disk[i].updated
            /\ disk'[i].created = disk[i].created
            /\ disk'[i].component # disk[i].component =>
                \E w \in Caller : pc[w] = "save" /\ call[w].op = "SetComponent"
  <1> SUFFICES ASSUME Inv, [Serves]_vars, NEW i \in Id,
                      disk[i] # NoDiagram, disk'[i] # NoDiagram, disk'[i] # disk[i]
               PROVE  /\ disk'[i].updated > disk[i].updated
                      /\ disk'[i].created = disk[i].created
                      /\ disk'[i].component # disk[i].component =>
                          \E w \in Caller : pc[w] = "save" /\ call[w].op = "SetComponent"
    OBVIOUS
  <1>1. PICK w \in Caller :
           LET c == call[w]
               new == Written(c, base[w], clock + 1)
           IN  /\ disk'[i] = new /\ pc[w] = "save"
               /\ c.op = "Delete" => new = NoDiagram
               /\ c.op # "Delete" => new.updated = clock + 1
               /\ c.op = "Create" => disk[i] = NoDiagram
               /\ Rewriting(w) =>
                    /\ new.created = disk[i].created
                    /\ c.op # "SetComponent" => new.component = disk[i].component
    BY ChangedDiagram
  <1>2. Rewriting(w)
    BY <1>1 DEF Rewriting
  <1>3. disk[i] \in Diagram /\ disk[i].updated <= clock /\ clock \in Nat
    BY DEF Inv, TypeOK, ClockInv
  <1>4. disk'[i].updated = clock + 1
    BY <1>1, <1>2 DEF Rewriting
  <1>5. disk[i].updated \in Nat
    BY <1>3 DEF Diagram
  <1>6. disk'[i].updated > disk[i].updated
    BY <1>3, <1>4, <1>5
  <1> QED
    BY <1>1, <1>2, <1>6

\* Tags increase; creation time and library role survive (service.go:184-187).
THEOREM VersionsDoAdvance == Spec => VersionsAdvance
  BY Invariance, NextServes, VersionStep, PTL DEF Spec, VersionsAdvance

\* Only a Create makes a file appear.
LEMMA DeletionStep ==
    Inv /\ [Serves]_vars => \A i \in Id : (disk[i] = NoDiagram /\ disk'[i] # NoDiagram) =>
          \E w \in Caller : pc[w] = "save" /\ call[w].op = "Create" /\ call[w].id = i
  <1> SUFFICES ASSUME Inv, [Serves]_vars, NEW i \in Id,
                      disk[i] = NoDiagram, disk'[i] # NoDiagram
               PROVE  \E w \in Caller :
                        pc[w] = "save" /\ call[w].op = "Create" /\ call[w].id = i
    OBVIOUS
  <1>1. PICK w \in Caller :
           /\ call[w].id = i /\ pc[w] = "save"
           /\ disk'[i] = Written(call[w], base[w], clock + 1)
           /\ call[w].op = "Delete" => Written(call[w], base[w], clock + 1) = NoDiagram
           /\ Rewriting(w) => disk[i] # NoDiagram
    BY ChangedDiagram
  <1> QED
    BY <1>1 DEF Rewriting

\* A deleted diagram is never brought back.
THEOREM DeletionIsFinal == Spec => DeletedStaysDeleted
  BY Invariance, NextServes, DeletionStep, PTL DEF Spec, DeletedStaysDeleted

\* A write leaves no edge dangling that was not.
LEMMA DanglingStep ==
    Inv /\ [Serves]_vars => \A i \in Id : disk'[i] # NoDiagram =>
          Dangling(disk'[i].canvas) \subseteq
            (IF disk[i] = NoDiagram THEN {} ELSE Dangling(disk[i].canvas))
  <1> SUFFICES ASSUME Inv, [Serves]_vars, NEW i \in Id,
                      disk'[i] # NoDiagram, disk'[i] # disk[i]
               PROVE  Dangling(disk'[i].canvas) \subseteq
                        (IF disk[i] = NoDiagram THEN {} ELSE Dangling(disk[i].canvas))
    OBVIOUS
  <1>1. PICK w \in Caller :
           LET c == call[w]
               new == Written(c, base[w], clock + 1)
           IN  /\ disk'[i] = new /\ pc[w] = "save"
               /\ c \in Call /\ c.op # "Get" /\ Verdict(c, base[w]) = "save"
               /\ c.op = "Delete" => new = NoDiagram
               /\ c.op = "Create" => disk[i] = NoDiagram
               /\ Rewriting(w) => disk[i] # NoDiagram /\ base[w] = Fetched(c, disk[i])
    BY ChangedDiagram
  <1>2. base[w] \in Diagram \cup {NoDiagram} /\ clock + 1 \in Nat
    BY DEF Inv, TypeOK
  <1>3. call[w].op \notin {"Get", "Delete"}
    BY <1>1
  <1>4. Dangling(disk'[i].canvas) \subseteq
            IF call[w].op = "Create" THEN {} ELSE Dangling(base[w].canvas)
    BY <1>1, <1>2, <1>3, WrittenEdges
  <1>5. CASE call[w].op = "Create"
    BY <1>1, <1>4, <1>5
  <1>6. CASE call[w].op # "Create"
    <2>1. disk[i] # NoDiagram /\ base[w] = Fetched(call[w], disk[i])
      BY <1>1, <1>3, <1>6 DEF Rewriting
    <2>2. disk[i] \in Diagram
      BY <2>1 DEF Inv, TypeOK
    <2>3. Dangling(base[w].canvas) \subseteq Dangling(disk[i].canvas)
      BY <2>1, <2>2, FetchedEdges
    <2> QED
      BY <1>4, <1>6, <2>1, <2>3
  <1> QED
    BY <1>5, <1>6

\* Dangling edges come only from hand-edited files (service.go:106-112).
THEOREM NoDanglingEdgesAppear == Spec => NoNewDanglingEdge
  BY Invariance, NextServes, DanglingStep, PTL DEF Spec, NoNewDanglingEdge

-----------------------------------------------------------------------------
(* Every call behaves as if it took effect at one instant: a mutating call  *)
(* at its Save (or at the read that refuses it), a Get when it reads.       *)

\* The abstract module uses the same model of diagrams and calls.
LEMMA SameModel ==
    /\ Atomic!NoReply = NoReply /\ Atomic!NoCall = NoCall /\ Atomic!NoTag = NoTag
    /\ \A s, t : Atomic!CallsOver(s, t) = CallsOver(s, t)
    /\ \A c : Atomic!BadStyle(c) = BadStyle(c)
    /\ \A c, d : Atomic!Fetched(c, d) = Fetched(c, d)
    /\ \A c, d : Atomic!Verdict(c, d) = Verdict(c, d)
    /\ \A c, d, t : Atomic!Written(c, d, t) = Written(c, d, t)
  <1>1. Atomic!NoReply = NoReply /\ Atomic!NoCall = NoCall /\ Atomic!NoTag = NoTag
    BY DEF Atomic!NoReply, NoReply, Atomic!NoCall, NoCall, Atomic!NoTag, NoTag
  <1>2. /\ Atomic!KnownStyle = KnownStyle /\ Atomic!Style = Style
        /\ Atomic!NameArgument = NameArgument /\ Atomic!EmptyCanvas = EmptyCanvas
    BY DEF Atomic!KnownStyle, KnownStyle, Atomic!Style, Style, Atomic!NameArgument,
           NameArgument, Atomic!EmptyCanvas, EmptyCanvas
  <1>3. \A s, t : Atomic!CallsOver(s, t) = CallsOver(s, t)
    BY <1>2 DEF Atomic!CallsOver, CallsOver
  <1>4. /\ \A c : Atomic!BadStyle(c) = BadStyle(c)
        /\ \A c : Atomic!BadName(c) = BadName(c)
    BY <1>2 DEF Atomic!BadStyle, BadStyle, Atomic!BadName, BadName
  <1>5. \A c : Atomic!Attached(c) = Attached(c)
    BY DEF Atomic!Attached, Attached
  <1>6. \A d : Atomic!Prune(d) = Prune(d)
    BY <1>5 DEF Atomic!Prune, Prune
  <1>7. \A c, d : Atomic!Fetched(c, d) = Fetched(c, d)
    BY <1>6 DEF Atomic!Fetched, Fetched
  <1>8. \A c : Atomic!Valid(c) = Valid(c)
    BY <1>5 DEF Atomic!Valid, Valid, Atomic!Dangling, Dangling
  <1>9. \A x : Atomic!Normal(x) = Normal(x)
    BY DEF Atomic!Normal, Normal
  <1>10. \A c, d : Atomic!Stale(c, d) = Stale(c, d)
    BY <1>1 DEF Atomic!Stale, Stale
  <1>11. \A c, d : Atomic!NothingToWrite(c, d) = NothingToWrite(c, d)
    BY <1>9 DEF Atomic!NothingToWrite, NothingToWrite
  <1>12. \A c : Atomic!LayoutDiverges(c) = LayoutDiverges(c)
    <2>1. \A c : Atomic!Roots(c) = Roots(c)
      BY DEF Atomic!Roots, Roots
    <2>2. \A c : Atomic!Reached(c) = Reached(c)
      BY <2>1 DEF Atomic!Reached, Reached
    <2> QED
      BY <2>2 DEF Atomic!LayoutDiverges, LayoutDiverges
  <1>13. \A c, d : Atomic!Verdict(c, d) = Verdict(c, d)
    BY <1>4, <1>8, <1>10, <1>11, <1>12 DEF Atomic!Verdict, Verdict
  <1>14. \A c, d : Atomic!Updated(c, d) = Updated(c, d)
    BY DEF Atomic!Updated, Updated
  <1>15. \A c, t : Atomic!Created(c, t) = Created(c, t)
    BY <1>2 DEF Atomic!Created, Created
  <1>16. \A c, d, t : Atomic!Written(c, d, t) = Written(c, d, t)
    BY <1>9, <1>14, <1>15 DEF Atomic!Written, Written
  <1> QED
    BY <1>1, <1>3, <1>4, <1>7, <1>13, <1>16

LEMMA InitRefines == Init => Atomic!Init
  BY SameModel DEF Init, Atomic!Init, Phase

LEMMA StepRefines == Inv /\ [Next]_vars => [Atomic!Next]_(Atomic!vars)
  <1> SUFFICES ASSUME Inv, [Next]_vars PROVE [Atomic!Next]_(Atomic!vars)
    OBVIOUS
  <1> DEFINE phase == [w \in Caller |-> Phase(pc[w])]
  <1> USE DEF Inv
  <1>1. CASE UNCHANGED vars
    BY <1>1 DEF vars, Atomic!vars
  <1>2. ASSUME NEW w \in Caller, NEW c \in CallsOver(Sent, {NoTag} \cup 0..clock), Begin(w, c)
        PROVE  Atomic!Next
    <2>1. phase[w] = "idle"
      BY <1>2 DEF Begin, Phase
    <2>2. \/ phase' = [phase EXCEPT ![w] = "pending"] /\ UNCHANGED reply
          \/ BadStyle(c) /\ Atomic!Answer(w, "invalid", NoDiagram)
      BY <1>2 DEF Begin, Goto, Answer, Atomic!Answer, Phase, TypeOK
    <2>3. Atomic!Invoke(w, c)
      BY <1>2, <2>1, <2>2, SameModel DEF Begin, Atomic!Invoke
    <2> QED
      BY <1>2, <2>3, SameModel DEF Atomic!Next
  <1>3. ASSUME NEW w \in Caller, NEW status, NEW d, Answer(w, status, d)
        PROVE  Atomic!Answer(w, status, d)
    BY <1>3 DEF Answer, Goto, Atomic!Answer, Phase, TypeOK
  <1>4. ASSUME NEW w \in Caller, pc[w] \in {"get", "lock", "read", "save", "diverged"}
        PROVE  phase[w] = "pending"
    BY <1>4 DEF Phase
  <1>5. ASSUME NEW w \in Caller, Get(w)
        PROVE  Atomic!Next
    <2> DEFINE d == Fetched(call[w], disk[call[w].id])
    <2>1. Verdict(call[w], d) \in {"notFound", "ok"} /\ (Verdict(call[w], d) = "notFound" => d = NoDiagram)
      BY <1>5 DEF Get, PlaceInv, Verdict, NothingToWrite, BadStyle, BadName, Stale
    <2>2. Atomic!AnswerOnly(w)
      BY <1>3, <1>4, <1>5, <2>1, SameModel DEF Get, Atomic!AnswerOnly, shared
    <2> QED
      BY <2>2 DEF Atomic!Next
  <1>6. ASSUME NEW w \in Caller, Lock(w)
        PROVE  Atomic!Next \/ UNCHANGED Atomic!vars
    <2>1. CASE BadName(call[w])
      <3>1. \A d : Verdict(call[w], d) = "invalid"
        BY <2>1 DEF Verdict
      <3>2. Atomic!AnswerOnly(w)
        BY <1>3, <1>4, <1>6, <2>1, <3>1, SameModel DEF Lock, Atomic!AnswerOnly
      <3> QED
        BY <3>2 DEF Atomic!Next
    <2>2. CASE ~BadName(call[w])
      <3>1. phase' = phase
        BY <1>6, <2>2 DEF Lock, Goto, Phase, TypeOK
      <3> QED
        BY <1>6, <2>2, <3>1 DEF Lock, Atomic!vars
    <2> QED
      BY <2>1, <2>2
  <1>7. ASSUME NEW w \in Caller, Read(w)
        PROVE  Atomic!Next \/ UNCHANGED Atomic!vars
    <2> DEFINE d == Fetched(call[w], disk[call[w].id])
               verdict == Verdict(call[w], d)
    <2>1. CASE verdict \notin {"save", "diverges"}
      <3>1. Answer(w, verdict, IF verdict = "ok" THEN d ELSE NoDiagram)
        BY <1>7, <2>1 DEF Read
      <3>2. Atomic!AnswerOnly(w)
        BY <1>3, <1>4, <1>7, <2>1, <3>1, SameModel DEF Read, Atomic!AnswerOnly
      <3> QED
        BY <3>2 DEF Atomic!Next
    <2>2. CASE verdict \in {"save", "diverges"}
      <3>1. phase' = phase
        BY <1>7, <2>2 DEF Read, Goto, Phase, TypeOK
      <3> QED
        BY <1>7, <2>2, <3>1 DEF Read, Atomic!vars
    <2> QED
      BY <2>1, <2>2
  <1>8. ASSUME NEW w \in Caller, NEW status \in {"ok", "internal"}, Write(w, status),
               status = "ok" \/ IoErrors
        PROVE  Atomic!Next
    <2> DEFINE c == call[w]
               d == Fetched(c, disk[c.id])
    <2>1. /\ disk' = [disk EXCEPT ![c.id] = Written(c, base[w], clock + 1)]
          /\ Verdict(c, base[w]) = "save"
          /\ Rewriting(w) => base[w] = d
          /\ pc[w] = "save"
      BY <1>8, WriteStep DEF Write
    <2>2. /\ Verdict(c, d) = "save"
          /\ Written(c, base[w], clock + 1) = Written(c, d, clock + 1)
      <3>1. CASE Rewriting(w)
        BY <2>1, <3>1
      <3>2. CASE ~Rewriting(w)
        <4>1. c.op \in {"Create", "Delete"}
          BY <2>1, <3>2 DEF Rewriting
        <4> QED
          BY <2>1, <4>1 DEF Verdict, Written
      <3> QED
        BY <3>1, <3>2
    <2>3. Atomic!Answer(w, status, IF status = "ok" THEN Written(c, d, clock + 1) ELSE NoDiagram)
      BY <1>3, <1>8, <2>2 DEF Write
    <2>4. Atomic!Effect(w)
      BY <1>4, <1>8, <2>1, <2>2, <2>3, SameModel DEF Write, Atomic!Effect
    <2> QED
      BY <2>4 DEF Atomic!Next
  <1>9. ASSUME NEW w \in Caller, Fail(w)
        PROVE  Atomic!Next
    <2>1. Atomic!Refuse(w)
      BY <1>3, <1>4, <1>9 DEF Fail, Atomic!Refuse
    <2> QED
      BY <2>1 DEF Atomic!Next
  <1>10. ASSUME NEW w \in Caller, Return(w)
         PROVE  Atomic!Next
    <2>1. phase[w] = "done" /\ phase' = [phase EXCEPT ![w] = "idle"]
      BY <1>10 DEF Return, Goto, Phase, TypeOK
    <2>2. Atomic!Respond(w)
      BY <1>10, <2>1, SameModel DEF Return, Atomic!Respond, shared
    <2> QED
      BY <2>2 DEF Atomic!Next
  <1> QED
    BY <1>1, <1>2, <1>5, <1>6, <1>7, <1>8, <1>9, <1>10
    DEF Next, Step, Save, SaveButNotIndexed

\* The service implements the abstract store in which calls are indivisible.
THEOREM ServiceImplementsAtomic == Spec => ServiceIsAtomic
  BY Invariance, InitRefines, StepRefines, PTL DEF Spec, Atomic!Spec, ServiceIsAtomic
=============================================================================
