--------------------------- MODULE AtomicDiagrams ---------------------------
(***************************************************************************)
(* What diagrams.Service promises: a store of versioned diagrams on which  *)
(* every call takes effect in one indivisible step between its invocation  *)
(* and its answer.  There are no locks and no reads here; a call looks at  *)
(* the store, is refused or changes it, and is answered, all at once.      *)
(* DiagramService is shown to implement this module.                       *)
(***************************************************************************)
EXTENDS DiagramModel

CONSTANTS Caller, Sent, OnDisk, MaxWrites, IoErrors

VARIABLES disk, clock, drawn, started, phase, call, reply

vars == <<disk, clock, drawn, started, phase, call, reply>>

NoCall == [op |-> "Get", id |-> CHOOSE i \in Id : TRUE]

Init ==
    /\ disk \in [Id -> [name: Name, canvas: OnDisk, component: {FALSE},
                        created: {0}, updated: {0}] \cup {NoDiagram}]
    /\ drawn = {i \in Id : disk[i] # NoDiagram}
    /\ clock = 0
    /\ started = 0
    /\ phase = [w \in Caller |-> "idle"]
    /\ call = [w \in Caller |-> NoCall]
    /\ reply = [w \in Caller |-> NoReply]

Answer(w, status, d) ==
    /\ phase' = [phase EXCEPT ![w] = "done"]
    /\ reply' = [reply EXCEPT ![w] = [status |-> status, diagram |-> d]]

Invoke(w, c) ==
    /\ phase[w] = "idle"
    /\ c.op = "Create" => c.id \notin drawn
    /\ c.op # "Get" => started < MaxWrites
    /\ call' = [call EXCEPT ![w] = c]
    /\ drawn' = IF c.op = "Create" THEN drawn \cup {c.id} ELSE drawn
    /\ started' = IF c.op = "Get" THEN started ELSE started + 1
    /\ \/ phase' = [phase EXCEPT ![w] = "pending"] /\ UNCHANGED reply
       \/ BadStyle(c) /\ Answer(w, "invalid", NoDiagram)
    /\ UNCHANGED <<disk, clock>>

\* The call is refused, or has nothing to write.
AnswerOnly(w) ==
    /\ phase[w] = "pending"
    /\ LET d       == Fetched(call[w], disk[call[w].id])
           verdict == Verdict(call[w], d)
       IN  /\ verdict \notin {"save", "diverges"}
           /\ Answer(w, verdict, IF verdict = "ok" THEN d ELSE NoDiagram)
    /\ UNCHANGED <<disk, clock, drawn, started, call>>

\* The call changes its diagram, judged and computed on the current version.
Effect(w) ==
    LET c == call[w]
        d == Fetched(c, disk[c.id])
        new == Written(c, d, clock + 1)
    IN  /\ phase[w] = "pending"
        /\ Verdict(c, d) = "save"
        /\ disk' = [disk EXCEPT ![c.id] = new]
        /\ clock' = IF c.op = "Delete" THEN clock ELSE clock + 1
        /\ \/ Answer(w, "ok", new)
           \/ IoErrors /\ Answer(w, "internal", NoDiagram)
        /\ UNCHANGED <<drawn, started, call>>

\* An I/O error before anything was changed.
Refuse(w) ==
    /\ IoErrors
    /\ phase[w] = "pending"
    /\ Answer(w, "internal", NoDiagram)
    /\ UNCHANGED <<disk, clock, drawn, started, call>>

Respond(w) ==
    /\ phase[w] = "done"
    /\ phase' = [phase EXCEPT ![w] = "idle"]
    /\ call' = [call EXCEPT ![w] = NoCall]
    /\ reply' = [reply EXCEPT ![w] = NoReply]
    /\ UNCHANGED <<disk, clock, drawn, started>>

Next == \E w \in Caller :
            \/ \E c \in CallsOver(Sent, {NoTag} \cup 0..clock) : Invoke(w, c)
            \/ AnswerOnly(w)
            \/ Effect(w)
            \/ Refuse(w)
            \/ Respond(w)

Spec == Init /\ [][Next]_vars
=============================================================================
