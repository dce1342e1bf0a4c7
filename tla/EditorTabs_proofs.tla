-------------------------- MODULE EditorTabs_proofs --------------------------
(***************************************************************************)
(* Proofs about EditorTabs, in three layers.  Typed holds for every user.  *)
(* PatientInv says, for users who wait for running requests, what may be   *)
(* in flight together and whose marks it carries.  TagInv says what the    *)
(* tags that are held and sent stand for.                                  *)
(***************************************************************************)
EXTENDS EditorTabs, SequenceTheorems, TLAPS

Goes == {"save", "load"}

\* What an async function asks for.
Kinds == {<<"save", "PUT">>, <<"load", "GET">>, <<"rename", "PATCH">>, <<"convert", "PATCH">>,
          <<"delete", "DELETE">>, <<"delete", "LIST">>, <<"new", "POST">>,
          <<"container", "POST">>, <<"port", "GET">>, <<"port", "PUT">>}

Proper(r) ==
    /\ r \in Task
    /\ <<r.use, r.op>> \in Kinds
    /\ r.use \in {"rename", "port"} => r.use \in Gestures
    /\ r.op = "DELETE" => r.answer # "notFound"
    /\ r.use \in Goes /\ r.answer = "ok" => r.tag \in Nat

Live(t) == {s \in Slot : task[t][s] # NoTask}

\* The undo and the redo steps together are never more than HISTORY_LIMIT.
Histories == \A t \in Tab : Len(past[t]) + Len(future[t]) <= HistoryLimit

Tasks == \A t \in Tab : \A s \in Live(t) : Proper(task[t][s])

Typed == TypeOK /\ Histories /\ Tasks

-----------------------------------------------------------------------------
(* Tasks *)

LEMMA NoTaskIsNone == NoTask \notin Task /\ NoTask.use = "none"
  BY DEF NoTask, Task

\* A slot that gets another task, or none.
LEMMA BecomeDoes ==
    ASSUME Typed, NEW t \in Tab, NEW s \in Slot, NEW r, Become(t, s, r)
    PROVE  /\ task'[t][s] = r
           /\ \A z \in Slot \ {s} : task'[t][z] = task[t][z]
           /\ \A u \in Tab \ {t} : task'[u] = task[u]
  BY DEF Become, Typed, TypeOK

\* The tasks stay proper if the new one is.
LEMMA BecomeTyped ==
    ASSUME Typed, NEW t \in Tab, NEW s \in Slot, NEW r, Become(t, s, r),
           r = NoTask \/ Proper(r)
    PROVE  /\ task' \in [Tab -> [Slot -> Task \cup {NoTask}]]
           /\ Tasks'
  <1>1. r \in Task \cup {NoTask}
    BY DEF Proper
  <1>2. task' \in [Tab -> [Slot -> Task \cup {NoTask}]]
    BY <1>1 DEF Become, Typed, TypeOK
  <1>3. /\ task'[t][s] = r
        /\ \A z \in Slot \ {s} : task'[t][z] = task[t][z]
        /\ \A u \in Tab \ {t} : task'[u] = task[u]
    BY BecomeDoes
  <1>4. ASSUME NEW u \in Tab, NEW z \in Slot, task'[u][z] # NoTask PROVE Proper(task'[u][z])
    BY <1>3, <1>4 DEF Typed, Tasks, Live
  <1>5. Tasks'
    BY <1>4 DEF Tasks, Live, Proper
  <1> QED
    BY <1>2, <1>5

\* A new request is a task.
LEMMA RequestTyped ==
    ASSUME NEW use, NEW op, <<use, op>> \in Kinds, NEW i \in Id,
           use \in {"rename", "port"} => use \in Gestures
    PROVE  /\ Request(use, op, i) = [use |-> use, op |-> op, id |-> i, body |-> {}, tag |-> NoTag,
                                     after |-> <<>>, answer |-> "none"]
           /\ Proper(Request(use, op, i))
  <1> DEFINE r == Request(use, op, i)
  <1>1. /\ use \in {"save", "load", "rename", "convert", "delete", "new", "container", "port"}
        /\ op \in {"PUT", "GET", "PATCH", "DELETE", "LIST", "POST"}
    BY DEF Kinds
  <1>2. {} \in Body /\ NoTag \in Tag /\ <<>> \in Seq(Id)
    BY DEF Body, Tag
  <1>3. r = [use |-> use, op |-> op, id |-> i, body |-> {}, tag |-> NoTag,
             after |-> <<>>, answer |-> "none"]
    BY DEF Request
  <1>4. r \in Task
    BY <1>1, <1>2, <1>3 DEF Task
  <1>5. /\ <<r.use, r.op>> \in Kinds /\ r.answer = "none"
        /\ r.use \in {"rename", "port"} => r.use \in Gestures
    BY <1>3
  <1> QED
    BY <1>3, <1>4, <1>5 DEF Proper

\* ... with another body too.
LEMMA CarryingTyped ==
    ASSUME NEW use, NEW op, <<use, op>> \in Kinds, NEW i \in Id, NEW body \in Body,
           use \in {"rename", "port"} => use \in Gestures
    PROVE  /\ [Request(use, op, i) EXCEPT !.body = body] =
                 [use |-> use, op |-> op, id |-> i, body |-> body, tag |-> NoTag,
                  after |-> <<>>, answer |-> "none"]
           /\ Proper([Request(use, op, i) EXCEPT !.body = body])
  <1> DEFINE r == [Request(use, op, i) EXCEPT !.body = body]
  <1>1. /\ use \in {"save", "load", "rename", "convert", "delete", "new", "container", "port"}
        /\ op \in {"PUT", "GET", "PATCH", "DELETE", "LIST", "POST"}
    BY DEF Kinds
  <1>2. NoTag \in Tag /\ <<>> \in Seq(Id)
    BY DEF Tag
  <1>3. r = [use |-> use, op |-> op, id |-> i, body |-> body, tag |-> NoTag,
             after |-> <<>>, answer |-> "none"]
    BY DEF Request
  <1> HIDE DEF r
  <1>4. r \in Task
    BY <1>1, <1>2, <1>3 DEF Task
  <1>5. /\ <<r.use, r.op>> \in Kinds /\ r.answer = "none"
        /\ r.use \in {"rename", "port"} => r.use \in Gestures
    BY <1>3
  <1>6. Proper(r)
    BY <1>4, <1>5 DEF Proper
  <1> QED
    BY <1>3, <1>6 DEF r

\* A save is a task.
LEMMA SavingTyped ==
    ASSUME Typed, NEW t \in Tab, NEW body \in Body, NEW after \in Seq(Id)
    PROVE  /\ Saving(t, body, after) =
                 [use |-> "save", op |-> "PUT", id |-> diagram[t].id, body |-> body,
                  tag |-> currentEtag[t], after |-> after, answer |-> "none"]
           /\ Proper(Saving(t, body, after))
  <1> DEFINE r == Saving(t, body, after)
  <1>1. diagram[t].id \in Id /\ currentEtag[t] \in Tag
    BY DEF Typed, TypeOK
  <1> DEFINE i == diagram[t].id
             g == currentEtag[t]
  <1>a. r = [Request("save", "PUT", i) EXCEPT !.body = body, !.tag = g, !.after = after]
    BY DEF Saving
  <1> HIDE DEF i, g
  <1> DEFINE Of(b, x, rest) == [use |-> "save", op |-> "PUT", id |-> i, body |-> b, tag |-> x,
                                after |-> rest, answer |-> "none"]
  <1>1a. Request("save", "PUT", i) = Of({}, NoTag, <<>>)
    BY DEF Request
  <1>1b. /\ [Of({}, NoTag, <<>>) EXCEPT !.body = body] = Of(body, NoTag, <<>>)
        /\ [Of(body, NoTag, <<>>) EXCEPT !.tag = g] = Of(body, g, <<>>)
        /\ [Of(body, g, <<>>) EXCEPT !.after = after] = Of(body, g, after)
    OBVIOUS
  <1> HIDE DEF Of
  <1>1c. [Of({}, NoTag, <<>>) EXCEPT !.body = body, !.tag = g, !.after = after]
          = [[[Of({}, NoTag, <<>>) EXCEPT !.body = body] EXCEPT !.tag = g] EXCEPT !.after = after]
    OBVIOUS
  <1>b. [Request("save", "PUT", i) EXCEPT !.body = body, !.tag = g, !.after = after] =
           [use |-> "save", op |-> "PUT", id |-> i, body |-> body, tag |-> g,
            after |-> after, answer |-> "none"]
    BY <1>1a, <1>1b, <1>1c DEF Of
  <1>2. r = [use |-> "save", op |-> "PUT", id |-> diagram[t].id, body |-> body,
             tag |-> currentEtag[t], after |-> after, answer |-> "none"]
    BY <1>a, <1>b DEF i, g
  <1> HIDE DEF r
  <1>3. r \in Task
    BY <1>1, <1>2 DEF Task
  <1>4. <<r.use, r.op>> \in Kinds /\ r.answer = "none" /\ r.use = "save" /\ r.op = "PUT"
    BY <1>2 DEF Kinds
  <1>5. Proper(r)
    BY <1>3, <1>4 DEF Proper
  <1> QED
    BY <1>2, <1>5 DEF r

\* The first id of a list of loads, and the others.
LEMMA HeadTail ==
    ASSUME NEW ids \in Seq(Id), ids # <<>>
    PROVE  Head(ids) \in Id /\ Tail(ids) \in Seq(Id)
  BY HeadTailProperties

\* A load in the front.
LEMMA Prepended ==
    ASSUME NEW i \in Id, NEW rest \in Seq(Id)
    PROVE  /\ <<i>> \o rest \in Seq(Id) /\ <<i>> \o rest # <<>>
           /\ Head(<<i>> \o rest) = i /\ Tail(<<i>> \o rest) = rest
  <1>1. <<i>> \in Seq(Id) /\ Len(<<i>>) = 1
    OBVIOUS
  <1>2. /\ <<i>> \o rest \in Seq(Id)
        /\ <<i>> \o rest # <<>>
    BY <1>1, ConcatProperties, ConcatEqualIffEmpty
  <1>3. Head(<<i>> \o rest) = i
    OBVIOUS
  <1>4. Tail(<<i>> \o rest) = rest
    OBVIOUS
  <1> QED
    BY <1>2, <1>3, <1>4

\* A load with others behind it.
LEMMA WaitingFor ==
    ASSUME NEW i, NEW rest
    PROVE  [Request("load", "GET", i) EXCEPT !.after = rest] =
             [use |-> "load", op |-> "GET", id |-> i, body |-> {},
              tag |-> NoTag, after |-> rest, answer |-> "none"]
  <1> DEFINE Of(b, x) == [use |-> "load", op |-> "GET", id |-> i, body |-> b, tag |-> NoTag,
                          after |-> x, answer |-> "none"]
  <1>1. Request("load", "GET", i) = Of({}, <<>>)
    BY DEF Request
  <1>2. ASSUME NEW b, NEW x PROVE [Of(b, x) EXCEPT !.after = rest] = Of(b, rest)
    OBVIOUS
  <1> HIDE DEF Of
  <1>3. [Of({}, <<>>) EXCEPT !.after = rest] = Of({}, rest)
    BY <1>2
  <1> QED
    BY <1>1, <1>3 DEF Of

\* What Fetch leaves: the next load, or the end of the function.
LEMMA FetchDoes ==
    ASSUME Typed, NEW t \in Tab, NEW s \in Slot, NEW ids \in Seq(Id), Fetch(t, s, ids)
    PROVE  \/ /\ ids = <<>> /\ Become(t, s, NoTask) /\ UNCHANGED <<past, future>>
           \/ /\ ids # <<>>
              /\ past' = [past EXCEPT ![t] = <<>>] /\ future' = [future EXCEPT ![t] = <<>>]
              /\ \E r : /\ Become(t, s, r) /\ Proper(r)
                        /\ r = [use |-> "load", op |-> "GET", id |-> Head(ids), body |-> {},
                                tag |-> NoTag, after |-> Tail(ids), answer |-> "none"]
  <1>1. CASE ids = <<>>
    BY <1>1 DEF Fetch, End
  <1>2. CASE ids # <<>>
    <2> DEFINE r == [Request("load", "GET", Head(ids)) EXCEPT !.after = Tail(ids)]
    <2>1. Head(ids) \in Id /\ Tail(ids) \in Seq(Id)
      BY <1>2, HeadTail
    <2>2. /\ past' = [past EXCEPT ![t] = <<>>] /\ future' = [future EXCEPT ![t] = <<>>]
          /\ Become(t, s, r)
      BY <1>2 DEF Fetch
    <2> DEFINE i == Head(ids)
               rest == Tail(ids)
    <2> HIDE DEF i, rest
    <2>a. [Request("load", "GET", i) EXCEPT !.after = rest] =
             [use |-> "load", op |-> "GET", id |-> i, body |-> {},
              tag |-> NoTag, after |-> rest, answer |-> "none"]
      BY WaitingFor
    <2>3. r = [use |-> "load", op |-> "GET", id |-> Head(ids), body |-> {},
               tag |-> NoTag, after |-> Tail(ids), answer |-> "none"]
      BY <2>a DEF i, rest
    <2> HIDE DEF r
    <2>4. r \in Task
      <3>1. {} \in Body /\ NoTag \in Tag
        BY DEF Body, Tag
      <3> QED
        BY <2>1, <2>3, <3>1 DEF Task
    <2>5. <<r.use, r.op>> \in Kinds /\ r.answer = "none" /\ r.use = "load" /\ r.op = "GET"
      BY <2>3 DEF Kinds
    <2>6. Proper(r)
      BY <2>4, <2>5 DEF Proper
    <2> QED
      BY <1>2, <2>2, <2>3, <2>6
  <1> QED
    BY <1>1, <1>2


\* What the fields of a task are.
LEMMA Fields ==
    ASSUME Typed, NEW t \in Tab, NEW s \in Slot, task[t][s] # NoTask
    PROVE  /\ Proper(task[t][s])
           /\ task[t][s] \in Task
           /\ task[t][s].id \in Id /\ task[t][s].body \in Body /\ task[t][s].tag \in Tag
           /\ task[t][s].after \in Seq(Id)
  <1>1. Proper(task[t][s])
    BY DEF Typed, Tasks, Live
  <1>2. task[t][s] \in Task
    BY <1>1 DEF Proper
  <1> QED
    BY <1>1, <1>2 DEF Task

\* Task r with answer a, and with id i, tag g and body b.
Ans(r, a, i, g, b) == [use |-> r.use, op |-> r.op, id |-> i, body |-> b, tag |-> g,
                       after |-> r.after, answer |-> a]

\* The answers of the service, written out.
LEMMA AnswerIs ==
    ASSUME NEW r \in Task
    PROVE  /\ \A a : [r EXCEPT !.answer = a] = Ans(r, a, r.id, r.tag, r.body)
           /\ \A a, g : [r EXCEPT !.answer = a, !.tag = g] = Ans(r, a, r.id, g, r.body)
           /\ \A a, g, b : [r EXCEPT !.answer = a, !.tag = g, !.body = b] = Ans(r, a, r.id, g, b)
           /\ \A a, i : [r EXCEPT !.answer = a, !.id = i] = Ans(r, a, i, r.tag, r.body)
  <1> DEFINE Of(a, i, g, b) == Ans(r, a, i, g, b)
  <1>1. r = Of(r.answer, r.id, r.tag, r.body)
    BY DEF Task, Ans
  <1>a. \A a, i, g, b, x : [Of(a, i, g, b) EXCEPT !.answer = x] = Of(x, i, g, b)
    BY DEF Ans
  <1>i. \A a, i, g, b, x : [Of(a, i, g, b) EXCEPT !.id = x] = Of(a, x, g, b)
    BY DEF Ans
  <1>g. \A a, i, g, b, x : [Of(a, i, g, b) EXCEPT !.tag = x] = Of(a, i, x, b)
    BY DEF Ans
  <1>b. \A a, i, g, b, x : [Of(a, i, g, b) EXCEPT !.body = x] = Of(a, i, g, x)
    BY DEF Ans
  <1> HIDE DEF Of
  <1>3. ASSUME NEW a PROVE [r EXCEPT !.answer = a] = Of(a, r.id, r.tag, r.body)
    <2>1. [Of(r.answer, r.id, r.tag, r.body) EXCEPT !.answer = a] = Of(a, r.id, r.tag, r.body)
      BY <1>a
    <2> QED
      BY <1>1, <2>1
  <1>4. ASSUME NEW a, NEW g PROVE [r EXCEPT !.answer = a, !.tag = g] = Of(a, r.id, g, r.body)
    <2>1. [r EXCEPT !.answer = a, !.tag = g] = [[r EXCEPT !.answer = a] EXCEPT !.tag = g]
      OBVIOUS
    <2>2. [Of(a, r.id, r.tag, r.body) EXCEPT !.tag = g] = Of(a, r.id, g, r.body)
      BY <1>g
    <2> QED
      BY <1>3, <2>1, <2>2
  <1>5. ASSUME NEW a, NEW g, NEW b
        PROVE  [r EXCEPT !.answer = a, !.tag = g, !.body = b] = Of(a, r.id, g, b)
    <2>1. [r EXCEPT !.answer = a, !.tag = g, !.body = b]
            = [[r EXCEPT !.answer = a, !.tag = g] EXCEPT !.body = b]
      OBVIOUS
    <2>2. [Of(a, r.id, g, r.body) EXCEPT !.body = b] = Of(a, r.id, g, b)
      BY <1>b
    <2> QED
      BY <1>4, <2>1, <2>2
  <1>6. ASSUME NEW a, NEW i PROVE [r EXCEPT !.answer = a, !.id = i] = Of(a, i, r.tag, r.body)
    <2>1. [r EXCEPT !.answer = a, !.id = i] = [[r EXCEPT !.answer = a] EXCEPT !.id = i]
      OBVIOUS
    <2>2. [Of(a, r.id, r.tag, r.body) EXCEPT !.id = i] = Of(a, i, r.tag, r.body)
      BY <1>i
    <2> QED
      BY <1>3, <2>1, <2>2
  <1> QED
    BY <1>3, <1>4, <1>5, <1>6 DEF Of

\* An answer is proper if its parts are.
LEMMA AnswerProper ==
    ASSUME NEW r, Proper(r), NEW a \in {"none", "ok", "conflict", "notFound", "failed"},
           NEW i \in Id, NEW g \in Tag, NEW b \in Body,
           r.op = "DELETE" => a # "notFound",
           r.use \in Goes /\ a = "ok" => g \in Nat
    PROVE  Proper(Ans(r, a, i, g, b))
  <1> DEFINE q == Ans(r, a, i, g, b)
  <1>1. q = [use |-> r.use, op |-> r.op, id |-> i, body |-> b, tag |-> g,
             after |-> r.after, answer |-> a]
    BY DEF Ans
  <1> HIDE DEF q
  <1>2. /\ r.use \in {"save", "load", "rename", "convert", "delete", "new", "container", "port"}
        /\ r.op \in {"PUT", "GET", "PATCH", "DELETE", "LIST", "POST"}
        /\ r.after \in Seq(Id)
    BY DEF Proper, Task
  <1>3. q \in Task
    BY <1>1, <1>2 DEF Task
  <1>4. q.use = r.use /\ q.op = r.op /\ q.answer = a /\ q.tag = g
    BY <1>1
  <1>5. Proper(q)
    BY <1>3, <1>4 DEF Proper
  <1> QED
    BY <1>5 DEF q

\* What a reply leaves: the answer, or the failure that hides it.
LEMMA ReplyDoes ==
    ASSUME Typed, NEW t \in Tab, NEW s \in Slot, task[t][s] # NoTask,
           NEW a \in {"none", "ok", "conflict", "notFound", "failed"},
           NEW i \in Id, NEW g \in Tag, NEW b \in Body,
           task[t][s].op = "DELETE" => a # "notFound",
           task[t][s].use \in Goes /\ a = "ok" => g \in Nat,
           Reply(t, s, Ans(task[t][s], a, i, g, b))
    PROVE  /\ \E x \in {a, "failed"} : /\ Become(t, s, Ans(task[t][s], x, i, g, b))
                                       /\ Proper(Ans(task[t][s], x, i, g, b))
           /\ failures' \in 0..MaxFailures
           /\ UNCHANGED <<page, acts, ghosts>>
  <1> DEFINE r == task[t][s]
             q == Ans(r, a, i, g, b)
             lost == Ans(r, "failed", i, g, b)
  <1>1. Proper(r)
    BY Fields
  <1>2. Proper(q) /\ Proper(lost)
    <2> HIDE DEF r
    <2>1. r.op = "DELETE" => a # "notFound"
      BY DEF r
    <2>2. r.use \in Goes /\ a = "ok" => g \in Nat
      BY DEF r
    <2>3. Proper(q)
      BY <1>1, <2>1, <2>2, AnswerProper
    <2>4. Proper(lost)
      BY <1>1, AnswerProper
    <2> QED
      BY <2>3, <2>4
  <1>3. [q EXCEPT !.answer = "failed"] = lost
    BY DEF Ans
  <1>4. CASE Become(t, s, q) /\ UNCHANGED failures
    BY <1>2, <1>4 DEF Reply, Typed, TypeOK
  <1>5. CASE /\ failures < MaxFailures /\ failures' = failures + 1
             /\ Become(t, s, [q EXCEPT !.answer = "failed"])
    <2>1. failures' \in 0..MaxFailures
      BY <1>5, FailureAssumption DEF Typed, TypeOK
    <2>2. Become(t, s, lost)
      BY <1>3, <1>5
    <2> QED
      BY <1>2, <2>1, <2>2 DEF Reply
  <1> QED
    BY <1>4, <1>5 DEF Reply

-----------------------------------------------------------------------------
(* The service, one effect at a time: task r of tab t gets answer x, with id i, *)
(* tag g and body b.                                                        *)

Refused(r, x, i, g, b) ==
    /\ i = r.id /\ g = r.tag /\ b = r.body
    /\ x = "conflict" => r.op = "PUT" /\ r.id \in Exists /\ Stale(r)
    /\ x = "notFound" => IF r.op = "LIST" THEN Exists = {} ELSE r.id \notin Exists
    /\ r.op = "DELETE" => x = "failed"
    /\ x \in {"conflict", "notFound", "failed"}
    /\ UNCHANGED server

Read(r, x, i, g, b) ==
    /\ r.op = "GET" /\ r.id \in Exists
    /\ i = r.id /\ g = stored[r.id].tag /\ b = r.body \cup stored[r.id].body
    /\ x \in {"ok", "failed"}
    /\ UNCHANGED server

Put(t, r, x, i, g, b) ==
    /\ r.op = "PUT" /\ r.id \in Exists /\ ~Stale(r)
    /\ i = r.id /\ g = clock' /\ b = r.body
    /\ x \in {"ok", "failed"}
    /\ Store(t, r.id, r.body)

Patched(t, r, x, i, g, b) ==
    /\ r.op = "PATCH" /\ r.id \in Exists
    /\ i = r.id /\ b = r.body
    /\ x \in {"ok", "failed"}
    /\ \/ Store(t, r.id, stored[r.id].body) /\ g = clock'
       \/ r.use = "convert" /\ UNCHANGED server /\ g = stored[r.id].tag

Removed(r, x, i, g, b) ==
    /\ r.op = "DELETE"
    /\ i = r.id /\ g = r.tag /\ b = r.body
    /\ x \in {"ok", "failed"}
    /\ stored' = [stored EXCEPT ![r.id] = Gone] /\ UNCHANGED clock

Found(r, x, i, g, b) ==
    /\ r.op = "LIST"
    /\ i \in Exists /\ g = r.tag /\ b = r.body
    /\ x \in {"ok", "failed"}
    /\ UNCHANGED server

Posted(t, r, x, i, g, b) ==
    /\ r.op = "POST"
    /\ g = r.tag /\ b = r.body
    /\ x \in {"ok", "failed"}
    /\ \E j \in Unused : Store(t, j, {}) /\ i = IF r.use = "new" THEN j ELSE r.id

Effect(t, r, x, i, g, b) ==
    \/ Refused(r, x, i, g, b) \/ Read(r, x, i, g, b) \/ Put(t, r, x, i, g, b)
    \/ Patched(t, r, x, i, g, b) \/ Removed(r, x, i, g, b) \/ Found(r, x, i, g, b)
    \/ Posted(t, r, x, i, g, b)

\* What a reply to r with these parts comes to.
Outcome(t, s, r) ==
    \E x, i, g, b : /\ Become(t, s, Ans(r, x, i, g, b)) /\ Proper(Ans(r, x, i, g, b))
                    /\ x # "none"
                    /\ Effect(t, r, x, i, g, b)

\* The versions of the service.
LEMMA Versions ==
    ASSUME Typed, NEW i \in Exists
    PROVE  /\ i \in Id /\ stored[i] \in Version
           /\ stored[i].body \in Body /\ stored[i].tag \in Nat
  <1>1. i \in Id /\ stored[i] \in Version
    BY DEF Typed, TypeOK, Exists
  <1> QED
    BY <1>1 DEF Version

\* Storing a version keeps the types.
LEMMA StoreTyped ==
    ASSUME Typed, NEW t \in Tab, NEW i \in Id, NEW body \in Body, Store(t, i, body)
    PROVE  /\ stored' \in [Id -> Version \cup {Gone}] /\ clock' \in Nat /\ clock' = clock + 1
           /\ clock' \in Tag
  <1>1. clock \in Nat /\ clock + 1 \in Nat
    BY DEF Typed, TypeOK
  <1>2. [body |-> body, tag |-> clock + 1, by |-> t] \in Version
    BY <1>1 DEF Version
  <1> QED
    BY <1>1, <1>2 DEF Store, Typed, TypeOK, Tag

\* A refusal.
LEMMA RefuseDoes ==
    ASSUME Typed, NEW t \in Tab, NEW s \in Slot, task[t][s] # NoTask, task[t][s].answer = "none",
           NEW a \in {"conflict", "notFound", "failed"}, Refuse(t, s, a),
           Refused(task[t][s], a, task[t][s].id, task[t][s].tag, task[t][s].body)
    PROVE  /\ Outcome(t, s, task[t][s])
           /\ failures' \in 0..MaxFailures
           /\ UNCHANGED <<page, acts, ghosts>>
  <1> DEFINE r == task[t][s]
             i == r.id
             g == r.tag
             b == r.body
  <1>1. Proper(r) /\ r \in Task /\ i \in Id /\ b \in Body /\ g \in Tag
    BY Fields
  <1>2. Reply(t, s, Ans(r, a, i, g, b)) /\ UNCHANGED server
    BY <1>1, AnswerIs DEF Refuse
  <1>3. r.op = "DELETE" => a = "failed"
    BY DEF Refused
  <1> HIDE DEF i, g, b
  <1>4. r.op = "DELETE" => a # "notFound"
    BY <1>3
  <1>5. r.use \in Goes /\ a = "ok" => g \in Nat
    OBVIOUS
  <1>6. /\ \E x \in {a, "failed"} : Become(t, s, Ans(r, x, i, g, b)) /\ Proper(Ans(r, x, i, g, b))
        /\ failures' \in 0..MaxFailures
        /\ UNCHANGED <<page, acts, ghosts>>
    BY <1>1, <1>2, <1>4, <1>5, ReplyDoes
  <1>7. PICK x \in {a, "failed"} : Become(t, s, Ans(r, x, i, g, b)) /\ Proper(Ans(r, x, i, g, b))
    BY <1>6
  <1>8. Refused(r, x, i, g, b)
    BY <1>2 DEF Refused, i, g, b
  <1>9. x # "none"
    OBVIOUS
  <1>10. Outcome(t, s, r)
    BY <1>7, <1>8, <1>9 DEF Outcome, Effect
  <1> QED
    BY <1>6, <1>10

\* Another reply.
LEMMA AnswerDoes ==
    ASSUME Typed, NEW t \in Tab, NEW s \in Slot, task[t][s] # NoTask, task[t][s].answer = "none",
           NEW i \in Id, NEW g \in Tag, NEW b \in Body,
           task[t][s].use \in Goes => g \in Nat,
           Reply(t, s, Ans(task[t][s], "ok", i, g, b)),
           \A x \in {"ok", "failed"} : Effect(t, task[t][s], x, i, g, b)
    PROVE  /\ Outcome(t, s, task[t][s])
           /\ failures' \in 0..MaxFailures
           /\ UNCHANGED <<page, acts, ghosts>>
  <1> DEFINE r == task[t][s]
             a == "ok"
  <1>1. /\ \E x \in {a, "failed"} : Become(t, s, Ans(r, x, i, g, b)) /\ Proper(Ans(r, x, i, g, b))
        /\ failures' \in 0..MaxFailures
        /\ UNCHANGED <<page, acts, ghosts>>
    <2>1. r.op = "DELETE" => a # "notFound"
      OBVIOUS
    <2>2. r.use \in Goes /\ a = "ok" => g \in Nat
      OBVIOUS
    <2>3. a \in {"none", "ok", "conflict", "notFound", "failed"}
      OBVIOUS
    <2>4. Reply(t, s, Ans(task[t][s], a, i, g, b))
      OBVIOUS
    <2> HIDE DEF a
    <2> QED
      BY <2>1, <2>2, <2>3, <2>4, ReplyDoes
  <1>2. PICK x \in {a, "failed"} : Become(t, s, Ans(r, x, i, g, b)) /\ Proper(Ans(r, x, i, g, b))
    BY <1>1
  <1>3. x # "none" /\ Effect(t, r, x, i, g, b)
    OBVIOUS
  <1>4. Outcome(t, s, r)
    BY <1>2, <1>3 DEF Outcome
  <1> QED
    BY <1>1, <1>4

\* Every reply is one of these effects.
LEMMA Serving ==
    ASSUME Typed, NEW t \in Tab, NEW s \in Slot, Serve(t, s) \/ Drop(t, s)
    PROVE  /\ task[t][s] # NoTask /\ task[t][s].answer = "none"
           /\ Outcome(t, s, task[t][s])
           /\ failures' \in 0..MaxFailures
           /\ UNCHANGED <<page, acts, ghosts>>
  <1> DEFINE r == task[t][s]
  <1>1. r # NoTask /\ r.answer = "none"
    BY DEF Serve, Drop, ServeGet, ServePut, ServePatch, ServeDelete, ServeList, ServePost,
           OutOfIds, Asks
  <1>2. /\ Proper(r) /\ r \in Task /\ r.id \in Id /\ r.body \in Body /\ r.tag \in Tag
    BY <1>1, Fields
  <1> DEFINE Goal == /\ Outcome(t, s, r)
                     /\ failures' \in 0..MaxFailures
                     /\ UNCHANGED <<page, acts, ghosts>>
  <1> SUFFICES Goal
    BY <1>1
  <1> HIDE DEF Goal
  <1>3. ASSUME NEW a \in {"conflict", "notFound", "failed"}, Refuse(t, s, a),
               a = "conflict" => r.op = "PUT" /\ r.id \in Exists /\ Stale(r),
               a = "notFound" => IF r.op = "LIST" THEN Exists = {} ELSE r.id \notin Exists,
               r.op = "DELETE" => a = "failed"
        PROVE  Goal
    <2>1. Refused(r, a, r.id, r.tag, r.body)
      BY <1>3 DEF Refused, Refuse
    <2> QED
      BY <1>1, <1>3, <2>1, RefuseDoes DEF Goal
  <1>4. ASSUME NEW i \in Id, NEW g \in Tag, NEW b \in Body, r.use \in Goes => g \in Nat,
               Reply(t, s, Ans(r, "ok", i, g, b)),
               \A x \in {"ok", "failed"} : Effect(t, r, x, i, g, b)
        PROVE  Goal
    BY <1>1, <1>4, AnswerDoes DEF Goal
  <1>5. CASE ServeGet(t, s)
    <2>1. CASE r.id \notin Exists /\ Refuse(t, s, "notFound")
      BY <1>3, <1>5, <2>1 DEF ServeGet, Asks
    <2>2. CASE r.id \in Exists
      <3> DEFINE i == r.id
                 g == stored[i].tag
                 b == r.body \cup stored[i].body
      <3>1. i \in Id /\ g \in Nat /\ g \in Tag /\ b \in Body
        BY <1>2, <2>2, Versions DEF Body, Tag
      <3>2. Reply(t, s, Ans(r, "ok", i, g, b)) /\ UNCHANGED server
        <4>1. /\ Reply(t, s, [r EXCEPT !.answer = "ok", !.tag = g, !.body = b])
              /\ UNCHANGED server
          BY <1>5, <2>2 DEF ServeGet
        <4> HIDE DEF b, g
        <4>2. [r EXCEPT !.answer = "ok", !.tag = g, !.body = b] = Ans(r, "ok", r.id, g, b)
          <5>1. r \in Task
            BY <1>2
          <5> HIDE DEF r
          <5>2. \A x, y, z : [r EXCEPT !.answer = x, !.tag = y, !.body = z]
                               = Ans(r, x, r.id, y, z)
            BY <5>1, AnswerIs
          <5> QED
            BY <5>2
        <4> QED
          BY <4>1, <4>2
      <3>3. r.op = "GET"
        BY <1>5 DEF ServeGet, Asks
      <3>4. \A x \in {"ok", "failed"} : Effect(t, r, x, i, g, b)
        BY <2>2, <3>2, <3>3 DEF Effect, Read
      <3> HIDE DEF i, g, b
      <3> QED
        BY <1>4, <3>1, <3>2, <3>4
    <2> QED
      BY <1>5, <2>1, <2>2 DEF ServeGet
  <1>6. CASE ServePut(t, s)
    <2>1. CASE r.id \notin Exists /\ Refuse(t, s, "notFound")
      BY <1>3, <1>6, <2>1 DEF ServePut, Asks
    <2>2. CASE r.id \in Exists /\ Stale(r) /\ Refuse(t, s, "conflict")
      BY <1>3, <1>6, <2>2 DEF ServePut, Asks
    <2>3. CASE r.id \in Exists /\ ~Stale(r) /\ Store(t, r.id, r.body)
               /\ Reply(t, s, [r EXCEPT !.answer = "ok", !.tag = clock'])
      <3> DEFINE i == r.id
                 g == clock'
                 b == r.body
      <3>1. i \in Id /\ g \in Nat /\ g \in Tag /\ b \in Body
        BY <1>2, <2>3, StoreTyped
      <3>2. Reply(t, s, Ans(r, "ok", i, g, b))
        BY <1>2, <2>3, AnswerIs
      <3>3. r.op = "PUT"
        BY <1>6 DEF ServePut, Asks
      <3>4. \A x \in {"ok", "failed"} : Effect(t, r, x, i, g, b)
        BY <2>3, <3>3 DEF Effect, Put
      <3> HIDE DEF i, g, b
      <3> QED
        BY <1>4, <3>1, <3>2, <3>4
    <2> QED
      BY <1>6, <2>1, <2>2, <2>3 DEF ServePut
  <1>7. CASE ServePatch(t, s)
    <2>0. r.op = "PATCH"
      BY <1>7 DEF ServePatch, Asks
    <2>1. CASE r.id \notin Exists /\ Refuse(t, s, "notFound")
      BY <1>3, <2>0, <2>1
    <2>2. CASE r.id \in Exists /\ Store(t, r.id, stored[r.id].body)
               /\ Reply(t, s, [r EXCEPT !.answer = "ok", !.tag = clock'])
      <3> DEFINE i == r.id
                 g == clock'
                 b == r.body
      <3>0. stored[r.id].body \in Body
        BY <2>2, Versions
      <3>1. i \in Id /\ g \in Nat /\ g \in Tag /\ b \in Body
        BY <1>2, <2>2, <3>0, StoreTyped
      <3>2. Reply(t, s, Ans(r, "ok", i, g, b))
        BY <1>2, <2>2, AnswerIs
      <3>4. \A x \in {"ok", "failed"} : Effect(t, r, x, i, g, b)
        BY <2>0, <2>2 DEF Effect, Patched
      <3> HIDE DEF i, g, b
      <3> QED
        BY <1>4, <3>1, <3>2, <3>4
    <2>3. CASE r.id \in Exists /\ r.use = "convert" /\ UNCHANGED server
               /\ Reply(t, s, [r EXCEPT !.answer = "ok", !.tag = stored[r.id].tag])
      <3> DEFINE i == r.id
                 g == stored[i].tag
                 b == r.body
      <3>1. i \in Id /\ g \in Nat /\ g \in Tag /\ b \in Body
        BY <1>2, <2>3, Versions DEF Tag
      <3>2. Reply(t, s, Ans(r, "ok", i, g, b))
        BY <1>2, <2>3, AnswerIs
      <3>4. \A x \in {"ok", "failed"} : Effect(t, r, x, i, g, b)
        BY <2>0, <2>3 DEF Effect, Patched
      <3> HIDE DEF i, g, b
      <3> QED
        BY <1>4, <3>1, <3>2, <3>4
    <2> QED
      BY <1>7, <2>1, <2>2, <2>3 DEF ServePatch
  <1>8. CASE ServeDelete(t, s)
    <2> DEFINE i == r.id
               g == r.tag
               b == r.body
    <2>1. r.op = "DELETE" /\ r.use \notin Goes
      BY <1>2, <1>8 DEF ServeDelete, Asks, Proper, Kinds, Goes
    <2>2. Reply(t, s, Ans(r, "ok", i, g, b))
      BY <1>2, <1>8, AnswerIs DEF ServeDelete
    <2>3. \A x \in {"ok", "failed"} : Effect(t, r, x, i, g, b)
      BY <1>8, <2>1 DEF Effect, Removed, ServeDelete
    <2>4. i \in Id /\ g \in Tag /\ b \in Body
      BY <1>2
    <2> HIDE DEF i, g, b
    <2> QED
      BY <1>4, <2>1, <2>2, <2>3, <2>4
  <1>9. CASE ServeList(t, s)
    <2>0. r.op = "LIST" /\ r.use \notin Goes
      BY <1>2, <1>9 DEF ServeList, Asks, Proper, Kinds, Goes
    <2>1. CASE Exists = {} /\ Refuse(t, s, "notFound")
      BY <1>3, <2>0, <2>1
    <2>2. CASE \E i \in Exists : /\ Reply(t, s, [r EXCEPT !.answer = "ok", !.id = i])
                                 /\ UNCHANGED server
      <3>1. PICK i \in Exists : /\ Reply(t, s, [r EXCEPT !.answer = "ok", !.id = i])
                                /\ UNCHANGED server
        BY <2>2
      <3> DEFINE g == r.tag
                 b == r.body
      <3>2. Reply(t, s, Ans(r, "ok", i, g, b))
        BY <1>2, <3>1, AnswerIs
      <3>3. \A x \in {"ok", "failed"} : Effect(t, r, x, i, g, b)
        BY <2>0, <3>1 DEF Effect, Found
      <3>4. i \in Id /\ g \in Tag /\ b \in Body
        BY <1>2 DEF Exists
      <3> HIDE DEF g, b
      <3> QED
        BY <1>4, <2>0, <3>2, <3>3, <3>4
    <2> QED
      BY <1>9, <2>1, <2>2 DEF ServeList
  <1>10. CASE ServePost(t, s)
    <2>0. r.op = "POST" /\ r.use \notin Goes
      BY <1>2, <1>10 DEF ServePost, Asks, Proper, Kinds, Goes
    <2>1. PICK j \in Unused : /\ Store(t, j, {})
                              /\ Reply(t, s, [r EXCEPT !.answer = "ok",
                                                       !.id = IF r.use = "new" THEN j ELSE @])
      BY <1>10 DEF ServePost
    <2> DEFINE i == IF r.use = "new" THEN j ELSE r.id
               g == r.tag
               b == r.body
    <2>2. [r EXCEPT !.answer = "ok", !.id = IF r.use = "new" THEN j ELSE @]
            = [r EXCEPT !.answer = "ok", !.id = i]
      OBVIOUS
    <2>3. \A x \in {"ok", "failed"} : Effect(t, r, x, i, g, b)
      BY <2>0, <2>1 DEF Effect, Posted
    <2>4. i \in Id /\ g \in Tag /\ b \in Body
      BY <1>2 DEF Unused
    <2> HIDE DEF i, g, b
    <2>5. Reply(t, s, Ans(r, "ok", i, g, b))
      <3>1. [r EXCEPT !.answer = "ok", !.id = i] = Ans(r, "ok", i, r.tag, r.body)
        BY <1>2, AnswerIs
      <3> QED
        BY <2>1, <2>2, <3>1 DEF g, b
    <2> QED
      BY <1>4, <2>0, <2>3, <2>4, <2>5
  <1>11. CASE OutOfIds(t, s)
    BY <1>3, <1>11 DEF OutOfIds, Asks
  <1>12. CASE Drop(t, s)
    <2> DEFINE i == r.id
               g == r.tag
               b == r.body
    <2>1. [r EXCEPT !.answer = "failed"] = Ans(r, "failed", i, g, b)
      BY <1>2, AnswerIs
    <2>2. Become(t, s, Ans(r, "failed", i, g, b)) /\ UNCHANGED server
      BY <1>12, <2>1 DEF Drop
    <2>3. Proper(Ans(r, "failed", i, g, b))
      <3> HIDE DEF r
      <3>1. i \in Id /\ g \in Tag /\ b \in Body
        BY <1>2
      <3>2. "failed" \in {"none", "ok", "conflict", "notFound", "failed"}
        OBVIOUS
      <3>3. (r.op = "DELETE" => "failed" # "notFound")
            /\ (r.use \in Goes /\ "failed" = "ok" => g \in Nat)
        OBVIOUS
      <3> HIDE DEF i, g, b
      <3> QED
        BY <1>2, <3>1, <3>2, <3>3, AnswerProper
    <2>4. Refused(r, "failed", i, g, b)
      BY <2>2 DEF Refused
    <2>5. Outcome(t, s, r)
      BY <2>2, <2>3, <2>4 DEF Outcome, Effect
    <2>6. failures' \in 0..MaxFailures
      BY <1>12, FailureAssumption DEF Drop, Typed, TypeOK
    <2> QED
      BY <1>12, <2>5, <2>6 DEF Goal, Drop
  <1> QED
    BY <1>5, <1>6, <1>7, <1>8, <1>9, <1>10, <1>11, <1>12 DEF Serve

-----------------------------------------------------------------------------
(* Types *)

PageTyped ==
    /\ diagram \in [Tab -> [id: Id, body: Body]]
    /\ currentEtag \in [Tab -> Tag]
    /\ saveTimer \in [Tab -> BOOLEAN]

PastTyped ==
    /\ past \in [Tab -> Seq(Body)] /\ future \in [Tab -> Seq(Body)]
    /\ \A t \in Tab : Len(past[t]) <= HistoryLimit
    /\ Histories

TasksTyped ==
    /\ task \in [Tab -> [Slot -> Task \cup {NoTask}]]
    /\ Tasks

ServerTyped == stored \in [Id -> Version \cup {Gone}] /\ clock \in Nat

GhostTyped == /\ sent \in Body /\ undone \in [Tab -> Body]
              /\ waived \in [Tab -> SUBSET Id]

CountTyped == acts \in 0..MaxGestures /\ failures \in 0..MaxFailures

\* The parts of the type invariant.
LEMMA Parts ==
    /\ Typed <=> PageTyped /\ PastTyped /\ TasksTyped /\ ServerTyped /\ GhostTyped /\ CountTyped
    /\ Typed' <=> /\ PageTyped' /\ PastTyped' /\ TasksTyped' /\ ServerTyped' /\ GhostTyped'
                  /\ CountTyped'
  BY DEF Typed, TypeOK, PageTyped, PastTyped, TasksTyped, ServerTyped, GhostTyped, CountTyped

\* Parts that a step leaves alone.
LEMMA Untouched ==
    ASSUME Typed
    PROVE  /\ UNCHANGED <<diagram, currentEtag, saveTimer>> => PageTyped'
           /\ UNCHANGED <<past, future>> => PastTyped'
           /\ UNCHANGED task => TasksTyped'
           /\ UNCHANGED server => ServerTyped'
           /\ UNCHANGED ghosts => GhostTyped'
           /\ UNCHANGED bounds => CountTyped'
  BY Parts DEF PageTyped, PastTyped, TasksTyped, ServerTyped, GhostTyped, CountTyped, Histories,
     Tasks, Live, server, ghosts, bounds

\* A gesture is counted.
LEMMA MayTyped ==
    ASSUME Typed, NEW t \in Tab, NEW g, May(t, g)
    PROVE  /\ CountTyped' /\ g \in Gestures
           /\ \A i \in Id : NewMark(t, i) \in Mark
           /\ Patient => \A s \in Slot : task[t][s] = NoTask
  BY LimitAssumption DEF May, Typed, TypeOK, CountTyped, NewMark, Mark, Idle

\* The effect of a request on the service.
LEMMA EffectTyped ==
    ASSUME Typed, NEW t \in Tab, NEW s \in Slot, task[t][s] # NoTask,
           NEW x, NEW i, NEW g, NEW b, Effect(t, task[t][s], x, i, g, b)
    PROVE  ServerTyped'
  <1> DEFINE r == task[t][s]
  <1>1. r.id \in Id /\ r.body \in Body
    BY Fields
  <1>2. ASSUME NEW j \in Id, NEW body \in Body, Store(t, j, body) PROVE ServerTyped'
    BY <1>2, StoreTyped DEF ServerTyped
  <1>3. ASSUME UNCHANGED server PROVE ServerTyped'
    BY <1>3, Untouched
  <1>4. CASE Refused(r, x, i, g, b)
    BY <1>3, <1>4 DEF Refused
  <1>5. CASE Read(r, x, i, g, b)
    BY <1>3, <1>5 DEF Read
  <1>6. CASE Put(t, r, x, i, g, b)
    BY <1>1, <1>2, <1>6 DEF Put
  <1>7. CASE Patched(t, r, x, i, g, b)
    <2>1. stored[r.id].body \in Body
      BY <1>7, Versions DEF Patched
    <2> QED
      BY <1>1, <1>2, <1>3, <1>7, <2>1 DEF Patched
  <1>8. CASE Removed(r, x, i, g, b)
    BY <1>1, <1>8 DEF Removed, ServerTyped, Typed, TypeOK
  <1>9. CASE Found(r, x, i, g, b)
    BY <1>3, <1>9 DEF Found
  <1>10. CASE Posted(t, r, x, i, g, b)
    <2>1. PICK j \in Unused : Store(t, j, {})
      BY <1>10 DEF Posted
    <2>2. j \in Id /\ {} \in Body
      BY DEF Unused, Body
    <2> QED
      BY <1>2, <2>1, <2>2
  <1> QED
    BY <1>4, <1>5, <1>6, <1>7, <1>8, <1>9, <1>10 DEF Effect

\* A reply keeps the types.
LEMMA ServeTyped ==
    ASSUME Typed, NEW t \in Tab, NEW s \in Slot, Serve(t, s) \/ Drop(t, s)
    PROVE  Typed'
  <1>1. /\ task[t][s] # NoTask
        /\ Outcome(t, s, task[t][s])
        /\ failures' \in 0..MaxFailures
        /\ UNCHANGED <<page, acts, ghosts>>
    BY Serving
  <1>2. PICK x, i, g, b : /\ Become(t, s, Ans(task[t][s], x, i, g, b))
                          /\ Proper(Ans(task[t][s], x, i, g, b))
                          /\ Effect(t, task[t][s], x, i, g, b)
    BY <1>1 DEF Outcome
  <1>3. TasksTyped'
    BY <1>2, BecomeTyped DEF TasksTyped
  <1>4. ServerTyped'
    BY <1>1, <1>2, EffectTyped
  <1>5. CountTyped'
    BY <1>1 DEF CountTyped, Typed, TypeOK
  <1>6. PageTyped' /\ PastTyped' /\ GhostTyped'
    BY <1>1, Untouched DEF page
  <1> QED
    BY <1>3, <1>4, <1>5, <1>6, Parts

\* Both histories of a tab are replaced.
LEMMA Replaced ==
    ASSUME Typed, NEW t \in Tab, NEW p \in Seq(Body), NEW f \in Seq(Body),
           Len(p) + Len(f) <= HistoryLimit,
           past' = [past EXCEPT ![t] = p], future' = [future EXCEPT ![t] = f]
    PROVE  PastTyped'
  <1>1. past' \in [Tab -> Seq(Body)] /\ future' \in [Tab -> Seq(Body)]
    BY DEF Typed, TypeOK
  <1>2. ASSUME NEW u \in Tab
        PROVE  Len(past'[u]) <= HistoryLimit /\ Len(past'[u]) + Len(future'[u]) <= HistoryLimit
    <2>1. CASE u = t
      <3>1. past'[u] = p /\ future'[u] = f
        BY <2>1 DEF Typed, TypeOK
      <3> DEFINE x == Len(p)
                 y == Len(f)
      <3>2. x \in Nat /\ y \in Nat /\ HistoryLimit \in Nat /\ x + y <= HistoryLimit
        BY LimitAssumption
      <3> HIDE DEF x, y
      <3>3. x <= HistoryLimit
        BY <3>2
      <3> QED
        BY <3>1, <3>2, <3>3 DEF x, y
    <2>2. CASE u # t
      BY <2>2 DEF Typed, TypeOK, Histories
    <2> QED
      BY <2>1, <2>2
  <1> QED
    BY <1>1, <1>2 DEF PastTyped, Histories

\* A save, or a load, is begun.
LEMMA FetchTyped ==
    ASSUME Typed, NEW t \in Tab, NEW s \in Slot, NEW ids \in Seq(Id), Fetch(t, s, ids)
    PROVE  TasksTyped' /\ PastTyped'
  <1>1. CASE ids = <<>> /\ Become(t, s, NoTask) /\ UNCHANGED <<past, future>>
    BY <1>1, BecomeTyped, Untouched DEF TasksTyped
  <1>2. CASE /\ past' = [past EXCEPT ![t] = <<>>] /\ future' = [future EXCEPT ![t] = <<>>]
             /\ \E r : Become(t, s, r) /\ Proper(r)
    <2>1. TasksTyped'
      BY <1>2, BecomeTyped DEF TasksTyped
    <2> DEFINE none == <<>>
    <2>2. none \in Seq(Body) /\ Len(none) + Len(none) <= HistoryLimit
      BY LimitAssumption
    <2>3. past' = [past EXCEPT ![t] = none] /\ future' = [future EXCEPT ![t] = none]
      BY <1>2
    <2> HIDE DEF none
    <2>4. PastTyped'
      BY <2>2, <2>3, Replaced
    <2> QED
      BY <2>1, <2>4
  <1> QED
    BY <1>1, <1>2, FetchDoes

LEMMA LoadTyped ==
    ASSUME Typed, NEW t \in Tab, NEW s \in Slot, NEW i \in Id, NEW rest \in Seq(Id),
           Load(t, s, i, rest)
    PROVE  /\ TasksTyped' /\ PastTyped'
           /\ saveTimer' \in [Tab -> BOOLEAN]
           /\ sent' \in Body
  <1>1. diagram[t].body \in Body /\ saveTimer \in [Tab -> BOOLEAN] /\ sent \in Body
    BY DEF Typed, TypeOK
  <1>2. <<i>> \o rest \in Seq(Id)
    BY Prepended
  <1>3. CASE /\ saveTimer' = [saveTimer EXCEPT ![t] = FALSE]
             /\ sent' = sent \cup diagram[t].body
             /\ Become(t, s, Saving(t, diagram[t].body, <<i>> \o rest))
             /\ UNCHANGED <<past, future>>
    <2>1. Proper(Saving(t, diagram[t].body, <<i>> \o rest))
      <3> DEFINE b == diagram[t].body
                 ids == <<i>> \o rest
      <3>1. b \in Body /\ ids \in Seq(Id)
        BY <1>1, <1>2
      <3> HIDE DEF b, ids
      <3>2. Proper(Saving(t, b, ids))
        BY <3>1, SavingTyped
      <3> QED
        BY <3>2 DEF b, ids
    <2>2. TasksTyped'
      BY <1>3, <2>1, BecomeTyped DEF TasksTyped
    <2>3. sent' \in Body
      BY <1>1, <1>3 DEF Body
    <2> QED
      BY <1>1, <1>3, <2>2, <2>3, Untouched
  <1>4. CASE Fetch(t, s, <<i>> \o rest) /\ UNCHANGED <<saveTimer, sent>>
    BY <1>1, <1>2, <1>4, FetchTyped
  <1> QED
    BY <1>3, <1>4 DEF Load


\* A change of the open diagram, on top of the undo history.
LEMMA ChangeTyped ==
    ASSUME Typed, NEW t \in Tab, NEW m \in Mark, Change(t, m)
    PROVE  /\ PastTyped'
           /\ diagram' \in [Tab -> [id: Id, body: Body]]
           /\ diagram'[t] = [id |-> diagram[t].id, body |-> diagram[t].body \cup {m}]
           /\ \A u \in Tab \ {t} : diagram'[u] = diagram[u]
  <1> DEFINE b == diagram[t].body
             h == past[t]
             k == Append(h, b)
  <1>1. diagram[t] \in [id: Id, body: Body] /\ b \in Body /\ h \in Seq(Body)
    BY DEF Typed, TypeOK
  <1>2. /\ diagram' \in [Tab -> [id: Id, body: Body]]
        /\ diagram'[t] = [id |-> diagram[t].id, body |-> b \cup {m}]
        /\ \A u \in Tab \ {t} : diagram'[u] = diagram[u]
    <2>1. b \cup {m} \in Body
      BY <1>1 DEF Body
    <2>2. [diagram[t] EXCEPT !.body = b \cup {m}] = [id |-> diagram[t].id, body |-> b \cup {m}]
      <3>1. ASSUME NEW d \in [id: Id, body: Body], NEW x
            PROVE  [d EXCEPT !.body = x] = [id |-> d.id, body |-> x]
        <4>1. d = [id |-> d.id, body |-> d.body]
          OBVIOUS
        <4>2. [[id |-> d.id, body |-> d.body] EXCEPT !.body = x] = [id |-> d.id, body |-> x]
          OBVIOUS
        <4> QED
          BY <4>1, <4>2
      <3> DEFINE x == b \cup {m}
      <3> HIDE DEF x
      <3>2. [diagram[t] EXCEPT !.body = x] = [id |-> diagram[t].id, body |-> x]
        BY <1>1, <3>1
      <3> QED
        BY <3>2 DEF x
    <2>3. [diagram[t] EXCEPT !.body = b \cup {m}] \in [id: Id, body: Body]
      BY <1>1, <2>1, <2>2
    <2>4. diagram' = [diagram EXCEPT ![t] = [diagram[t] EXCEPT !.body = b \cup {m}]]
      BY DEF Change
    <2> QED
      BY <2>2, <2>3, <2>4 DEF Typed, TypeOK
  <1>3. Len(h) <= HistoryLimit /\ Len(h) \in Nat /\ HistoryLimit \in Nat \ {0}
    BY <1>1, LimitAssumption DEF Typed, TypeOK
  <1>4. k \in Seq(Body) /\ Len(k) = Len(h) + 1
    BY <1>1
  <1>5. Trim(k) \in Seq(Body) /\ Len(Trim(k)) <= HistoryLimit
    <2> HIDE DEF k
    <2>1. CASE Len(k) > HistoryLimit
      <3>1. Trim(k) = Tail(k) /\ k # <<>>
        BY <1>3, <1>4, <2>1 DEF Trim
      <3>2. Tail(k) \in Seq(Body) /\ Len(Tail(k)) = Len(k) - 1
        BY <1>4, <3>1, HeadTailProperties
      <3> QED
        BY <1>3, <1>4, <3>1, <3>2
    <2>2. CASE ~(Len(k) > HistoryLimit)
      <3>1. Trim(k) = k /\ Len(k) \in Nat
        BY <1>4, <2>2 DEF Trim
      <3> QED
        BY <1>3, <1>4, <2>2, <3>1
    <2> QED
      BY <2>1, <2>2
  <1> HIDE DEF b, h, k
  <1>6. past' = [past EXCEPT ![t] = Trim(k)] /\ future' = [future EXCEPT ![t] = <<>>]
    BY DEF Change, k, h, b
  <1> DEFINE none == <<>>
             p == Trim(k)
  <1>7. none \in Seq(Body) /\ p \in Seq(Body) /\ Len(p) + Len(none) <= HistoryLimit
    <2>1. Len(none) = 0 /\ Len(p) \in Nat
      BY <1>5
    <2> QED
      BY <1>3, <1>5, <2>1
  <1>8. past' = [past EXCEPT ![t] = p] /\ future' = [future EXCEPT ![t] = none]
    BY <1>6
  <1> HIDE DEF none, p
  <1>9. PastTyped'
    BY <1>7, <1>8, Replaced
  <1> QED
    BY <1>2, <1>9 DEF b

\* Undo and Redo: the last of one history is shown, what was shown ends the other.
LEMMA SwapTyped ==
    ASSUME NEW h \in Seq(Body), NEW k \in Seq(Body), NEW b \in Body, h # <<>>,
           Len(h) + Len(k) <= HistoryLimit
    PROVE  /\ SubSeq(h, 1, Len(h) - 1) \in Seq(Body) /\ Append(k, b) \in Seq(Body)
           /\ Len(SubSeq(h, 1, Len(h) - 1)) + Len(Append(k, b)) <= HistoryLimit
           /\ Len(Append(k, b)) + Len(SubSeq(h, 1, Len(h) - 1)) <= HistoryLimit
           /\ h[Len(h)] \in Body
  <1> DEFINE n == Len(h)
             l == Len(k)
             p == SubSeq(h, 1, n - 1)
             q == Append(k, b)
  <1>1. n \in Nat /\ n > 0 /\ h \in [1..n -> Body]
    BY EmptySeq
  <1>2. h[n] \in Body
    <2> HIDE DEF n
    <2>1. n \in 1..n
      BY <1>1
    <2> QED
      BY <1>1, <2>1
  <1>3. p \in Seq(Body) /\ Len(p) = n - 1
    BY <1>1, SubSeqProperties
  <1>4. q \in Seq(Body) /\ Len(q) = l + 1
    OBVIOUS
  <1>5. n + l <= HistoryLimit /\ l \in Nat /\ HistoryLimit \in Nat
    BY LimitAssumption
  <1> HIDE DEF n, l, p, q
  <1>6. (n - 1) + (l + 1) <= HistoryLimit /\ (l + 1) + (n - 1) <= HistoryLimit
    BY <1>1, <1>5
  <1>7. Len(p) + Len(q) <= HistoryLimit /\ Len(q) + Len(p) <= HistoryLimit
    BY <1>3, <1>4, <1>6
  <1> QED
    BY <1>2, <1>3, <1>4, <1>7 DEF n, p, q

\* A gesture that only asks.
LEMMA AskTyped ==
    ASSUME Typed, NEW t \in Tab, NEW s \in Slot, NEW g, NEW r, Ask(t, s, g, r), Proper(r)
    PROVE  Typed'
  <1>1. TasksTyped'
    BY BecomeTyped DEF Ask, TasksTyped
  <1>2. CountTyped'
    BY MayTyped DEF Ask
  <1>3. PageTyped' /\ PastTyped' /\ ServerTyped' /\ GhostTyped'
    BY Untouched DEF Ask, page, ghosts
  <1> QED
    BY <1>1, <1>2, <1>3, Parts

\* What the gestures that only ask ask for.
LEMMA AsksProper ==
    ASSUME Typed, NEW t \in Tab, NEW s \in Slot, NEW i \in Id
    PROVE  /\ Rename(t, s, i) => Proper(Request("rename", "PATCH", i))
           /\ Proper(Request("convert", "PATCH", i)) /\ Proper(Request("delete", "DELETE", i))
           /\ Proper(Request("delete", "LIST", i)) /\ Proper(Request("new", "POST", i))
           /\ AddContainer(t, s) => Proper([Request("container", "POST", diagram[t].id) EXCEPT
                                                !.body = {NewMark(t, diagram[t].id)}])
           /\ AddPort(t, s, i) => Proper([Request("port", "GET", i) EXCEPT
                                              !.body = {NewMark(t, i)}])
  <1>1. /\ Proper(Request("convert", "PATCH", i)) /\ Proper(Request("delete", "DELETE", i))
        /\ Proper(Request("delete", "LIST", i)) /\ Proper(Request("new", "POST", i))
    <2>1. ASSUME NEW use, NEW op, <<use, op>> \in Kinds, use \notin {"rename", "port"}
          PROVE  Proper(Request(use, op, i))
      BY <2>1, RequestTyped
    <2>2. /\ {<<"convert", "PATCH">>, <<"delete", "DELETE">>, <<"delete", "LIST">>,
             <<"new", "POST">>} \subseteq Kinds
          /\ "convert" \notin {"rename", "port"} /\ "delete" \notin {"rename", "port"}
          /\ "new" \notin {"rename", "port"}
      BY DEF Kinds
    <2>3. Proper(Request("convert", "PATCH", i))
      BY <2>1, <2>2
    <2>4. Proper(Request("delete", "DELETE", i))
      BY <2>1, <2>2
    <2>5. Proper(Request("delete", "LIST", i))
      BY <2>1, <2>2
    <2>6. Proper(Request("new", "POST", i))
      BY <2>1, <2>2
    <2> QED
      BY <2>3, <2>4, <2>5, <2>6
  <1>2. ASSUME Rename(t, s, i) PROVE Proper(Request("rename", "PATCH", i))
    <2>1. "rename" \in Gestures
      BY <1>2, MayTyped DEF Rename, Ask
    <2>2. <<"rename", "PATCH">> \in Kinds /\ "rename" \in {"rename", "port"}
      BY DEF Kinds
    <2>3. ASSUME NEW use, NEW op, <<use, op>> \in Kinds, use \in Gestures
          PROVE  Proper(Request(use, op, i))
      BY <2>3, RequestTyped
    <2> QED
      BY <2>1, <2>2, <2>3
  <1>3. diagram[t].id \in Id
    BY DEF Typed, TypeOK
  <1>4. ASSUME AddContainer(t, s)
        PROVE  Proper([Request("container", "POST", diagram[t].id) EXCEPT
                           !.body = {NewMark(t, diagram[t].id)}])
    <2> DEFINE j == diagram[t].id
               b == {NewMark(t, diagram[t].id)}
    <2>1. j \in Id /\ b \in Body
      BY <1>3, <1>4, MayTyped DEF AddContainer, Ask, Body
    <2> HIDE DEF j, b
    <2>2. <<"container", "POST">> \in Kinds /\ "container" \notin {"rename", "port"}
      BY DEF Kinds
    <2>3. Proper([Request("container", "POST", j) EXCEPT !.body = b])
      BY <2>1, <2>2, CarryingTyped
    <2> QED
      BY <2>3 DEF j, b
  <1>5. ASSUME AddPort(t, s, i)
        PROVE  Proper([Request("port", "GET", i) EXCEPT !.body = {NewMark(t, i)}])
    <2> DEFINE b == {NewMark(t, i)}
    <2>1. b \in Body /\ "port" \in Gestures
      BY <1>5, MayTyped DEF AddPort, Ask, Body
    <2> HIDE DEF b
    <2>2. <<"port", "GET">> \in Kinds
      BY DEF Kinds
    <2>3. Proper([Request("port", "GET", i) EXCEPT !.body = b])
      BY <2>1, <2>2, CarryingTyped
    <2> QED
      BY <2>3 DEF b
  <1> QED
    BY <1>1, <1>2, <1>4, <1>5

\* The gestures keep the types.
LEMMA ActTyped ==
    ASSUME Typed, NEW t \in Tab, Act(t)
    PROVE  Typed'
  <1>1. diagram[t].id \in Id /\ diagram[t].body \in Body /\ Exists \subseteq Id
    BY DEF Typed, TypeOK, Exists
  <1>2. CASE Edit(t)
    <2>1. NewMark(t, diagram[t].id) \in Mark /\ CountTyped'
      BY <1>1, <1>2, MayTyped DEF Edit
    <2>2. PastTyped' /\ diagram' \in [Tab -> [id: Id, body: Body]]
      <3> DEFINE m == NewMark(t, diagram[t].id)
      <3>1. m \in Mark /\ Change(t, m)
        BY <1>2, <2>1 DEF Edit
      <3> HIDE DEF m
      <3> QED
        BY <3>1, ChangeTyped
    <2>3. PageTyped'
      BY <1>2, <2>2 DEF PageTyped, Edit, Typed, TypeOK
    <2>4. TasksTyped' /\ ServerTyped' /\ GhostTyped'
      BY <1>2, Untouched DEF Edit, ghosts
    <2> QED
      BY <2>1, <2>2, <2>3, <2>4, Parts
  <1>3. ASSUME NEW b \in Body, diagram' = [diagram EXCEPT ![t].body = b],
               saveTimer' = [saveTimer EXCEPT ![t] = TRUE],
               undone' = [undone EXCEPT ![t] = (@ \cup diagram[t].body) \ diagram'[t].body],
               UNCHANGED <<server, currentEtag, task, sent, waived>>,
               CountTyped', PastTyped'
        PROVE  Typed'
    <2>1. diagram' \in [Tab -> [id: Id, body: Body]]
      BY <1>3 DEF Typed, TypeOK
    <2>2. PageTyped'
      BY <1>3, <2>1 DEF PageTyped, Typed, TypeOK
    <2>3. (undone[t] \cup diagram[t].body) \ diagram'[t].body \in Body
      BY <1>1 DEF Typed, TypeOK, Body
    <2>4. GhostTyped'
      BY <1>3, <2>3 DEF GhostTyped, Typed, TypeOK
    <2>5. TasksTyped' /\ ServerTyped'
      BY <1>3, Untouched
    <2> QED
      BY <1>3, <2>2, <2>4, <2>5, Parts
  <1> DEFINE b == diagram[t].body
             h == past[t]
             k == future[t]
  <1>a. h \in Seq(Body) /\ k \in Seq(Body) /\ Len(h) + Len(k) <= HistoryLimit
    BY DEF Typed, TypeOK, Histories
  <1>b. Len(k) + Len(h) <= HistoryLimit
    <2> DEFINE x == Len(h)
               y == Len(k)
    <2>1. x \in Nat /\ y \in Nat
      BY <1>a
    <2>2. x + y <= HistoryLimit
      BY <1>a
    <2> HIDE DEF x, y
    <2>3. y + x <= HistoryLimit
      BY <2>1, <2>2
    <2> QED
      BY <2>3 DEF x, y
  <1>4. CASE Undo(t)
    <2> DEFINE p == SubSeq(h, 1, Len(h) - 1)
               f == Append(k, b)
               c == h[Len(h)]
    <2>1. /\ past' = [past EXCEPT ![t] = p] /\ future' = [future EXCEPT ![t] = f]
          /\ h # <<>> /\ diagram' = [diagram EXCEPT ![t].body = c]
      BY <1>4 DEF Undo, Swap
    <2>2. p \in Seq(Body) /\ f \in Seq(Body) /\ Len(p) + Len(f) <= HistoryLimit /\ c \in Body
      <3> HIDE DEF h, k, b
      <3> QED
        BY <1>1, <1>a, <2>1, SwapTyped DEF b
    <2> HIDE DEF p, f, c
    <2>3. PastTyped'
      BY <2>1, <2>2, Replaced
    <2>4. CountTyped' /\ Swap(t, past, future)
      BY <1>4, MayTyped DEF Undo
    <2> QED
      BY <1>3, <2>1, <2>2, <2>3, <2>4 DEF Swap
  <1>5. CASE Redo(t)
    <2> DEFINE f == SubSeq(k, 1, Len(k) - 1)
               p == Append(h, b)
               c == k[Len(k)]
    <2>1. /\ past' = [past EXCEPT ![t] = p] /\ future' = [future EXCEPT ![t] = f]
          /\ k # <<>> /\ diagram' = [diagram EXCEPT ![t].body = c]
      BY <1>5 DEF Redo, Swap
    <2>2. p \in Seq(Body) /\ f \in Seq(Body) /\ Len(p) + Len(f) <= HistoryLimit /\ c \in Body
      <3> HIDE DEF h, k, b
      <3> QED
        BY <1>1, <1>a, <1>b, <2>1, SwapTyped DEF b
    <2> HIDE DEF p, f, c
    <2>3. PastTyped'
      BY <2>1, <2>2, Replaced
    <2>4. CountTyped' /\ Swap(t, future, past)
      BY <1>5, MayTyped DEF Redo
    <2> QED
      BY <1>3, <2>1, <2>2, <2>3, <2>4 DEF Swap
  <1>6. ASSUME NEW s \in Slot, PlaceRef(t, s) PROVE Typed'
    <2>1. NewMark(t, diagram[t].id) \in Mark /\ CountTyped'
      BY <1>1, <1>6, MayTyped DEF PlaceRef
    <2>2. /\ PastTyped' /\ diagram' \in [Tab -> [id: Id, body: Body]]
      <3> DEFINE m == NewMark(t, diagram[t].id)
      <3>1. m \in Mark /\ Change(t, m)
        BY <1>6, <2>1 DEF PlaceRef
      <3> HIDE DEF m
      <3> QED
        BY <3>1, ChangeTyped
    <2> DEFINE w == diagram'[t].body
               none == <<>>
    <2>3. w \in Body /\ Become(t, s, Saving(t, w, none)) /\ none \in Seq(Id)
      BY <1>6, <2>2 DEF PlaceRef
    <2>4. sent' = sent \cup w
      BY <1>6 DEF PlaceRef
    <2> HIDE DEF w, none
    <2>5. Proper(Saving(t, w, none))
      BY <2>3, SavingTyped
    <2>6. TasksTyped'
      BY <2>3, <2>5, BecomeTyped DEF TasksTyped
    <2>7. PageTyped'
      BY <1>6, <2>2 DEF PageTyped, PlaceRef, Typed, TypeOK
    <2>8. GhostTyped'
      BY <1>6, <2>3, <2>4 DEF GhostTyped, PlaceRef, Typed, TypeOK, Body
    <2>9. ServerTyped'
      BY <1>6, Untouched DEF PlaceRef
    <2> QED
      BY <2>1, <2>2, <2>6, <2>7, <2>8, <2>9, Parts
  <1>7. ASSUME NEW s \in Slot, NEW i \in Exists, Open(t, s, i) PROVE Typed'
    <2>1. Load(t, s, i, <<>>) /\ i \in Id /\ <<>> \in Seq(Id)
      BY <1>1, <1>7 DEF Open
    <2>2. TasksTyped' /\ PastTyped' /\ saveTimer' \in [Tab -> BOOLEAN] /\ sent' \in Body
      BY <2>1, LoadTyped
    <2>3. PageTyped' /\ GhostTyped'
      BY <1>7, <2>2 DEF Open, PageTyped, GhostTyped, Typed, TypeOK
    <2>4. CountTyped' /\ ServerTyped'
      BY <1>7, MayTyped, Untouched DEF Open
    <2> QED
      BY <2>2, <2>3, <2>4, Parts
  <1>8. ASSUME NEW s \in Slot, NewDiagram(t, s) PROVE Typed'
    BY <1>1, <1>8, AsksProper, AskTyped DEF NewDiagram
  <1>9. ASSUME NEW s \in Slot, AddContainer(t, s) PROVE Typed'
    BY <1>1, <1>9, AsksProper, AskTyped DEF AddContainer
  <1>10. ASSUME NEW s \in Slot, NEW i \in Exists,
                Rename(t, s, i) \/ Convert(t, s, i) \/ Delete(t, s, i) \/ AddPort(t, s, i)
         PROVE  Typed'
    <2>1. i \in Id
      BY <1>1
    <2>2. CASE Rename(t, s, i)
      BY <2>1, <2>2, AsksProper, AskTyped DEF Rename
    <2>3. CASE Convert(t, s, i)
      BY <2>1, <2>3, AsksProper, AskTyped DEF Convert
    <2>4. CASE Delete(t, s, i)
      BY <2>1, <2>4, AsksProper, AskTyped DEF Delete
    <2>5. CASE AddPort(t, s, i)
      BY <2>1, <2>5, AsksProper, AskTyped DEF AddPort
    <2> QED
      BY <1>10, <2>2, <2>3, <2>4, <2>5
  <1> QED
    BY <1>2, <1>4, <1>5, <1>6, <1>7, <1>8, <1>9, <1>10 DEF Act


\* The timer keeps the types.
LEMMA TimerTyped ==
    ASSUME Typed, NEW t \in Tab, NEW s \in Slot, TimerFires(t, s)
    PROVE  Typed'
  <1> DEFINE b == diagram[t].body
             none == <<>>
  <1>1. b \in Body /\ none \in Seq(Id) /\ Become(t, s, Saving(t, b, none)) /\ sent' = sent \cup b
    BY DEF TimerFires, Typed, TypeOK
  <1> HIDE DEF b, none
  <1>2. Proper(Saving(t, b, none))
    BY <1>1, SavingTyped
  <1>3. TasksTyped'
    BY <1>1, <1>2, BecomeTyped DEF TasksTyped
  <1>4. PageTyped'
    BY DEF TimerFires, PageTyped, Typed, TypeOK
  <1>5. GhostTyped'
    BY <1>1 DEF TimerFires, GhostTyped, Typed, TypeOK, Body
  <1>6. PastTyped' /\ ServerTyped' /\ CountTyped'
    BY Untouched DEF TimerFires
  <1> QED
    BY <1>3, <1>4, <1>5, <1>6, Parts

\* The tabs go on with an answer, and the types stay.
LEMMA TakeTyped ==
    ASSUME Typed, NEW t \in Tab, NEW s \in Slot, Take(t, s)
    PROVE  Typed'
  <1> DEFINE r == task[t][s]
  <1>1. r # NoTask
    BY DEF Take, Saved, SaveFailed, Reload, KeepEditing, Loaded, Renamed, Deleted, Created,
           ContainerMade, PortFetched, GiveUp, Answered
  <1>2. /\ Proper(r) /\ r.id \in Id /\ r.body \in Body /\ r.tag \in Tag /\ r.after \in Seq(Id)
    BY <1>1, Fields
  <1>3. diagram[t].id \in Id /\ diagram[t].body \in Body
    BY DEF Typed, TypeOK
  <1>4. ASSUME Fetch(t, s, r.after), PageTyped', GhostTyped', UNCHANGED <<server, bounds>>
        PROVE  Typed'
    <2>1. TasksTyped' /\ PastTyped'
      BY <1>2, <1>4, FetchTyped
    <2> QED
      BY <1>4, <2>1, Untouched, Parts
  <1>5. ASSUME NEW i \in Id, NEW rest \in Seq(Id), Load(t, s, i, rest),
               UNCHANGED <<server, diagram, currentEtag, bounds, undone, waived>>
        PROVE  Typed'
    <2>1. TasksTyped' /\ PastTyped' /\ saveTimer' \in [Tab -> BOOLEAN] /\ sent' \in Body
      BY <1>5, LoadTyped
    <2>2. PageTyped' /\ GhostTyped'
      BY <1>5, <2>1 DEF PageTyped, GhostTyped, Typed, TypeOK
    <2> QED
      BY <1>5, <2>1, <2>2, Untouched, Parts
  <1>6. ASSUME NEW q, q = NoTask \/ Proper(q), Become(t, s, q),
               UNCHANGED <<server, page, bounds, ghosts>>
        PROVE  Typed'
    <2>1. TasksTyped'
      BY <1>6, BecomeTyped DEF TasksTyped
    <2>2. PageTyped' /\ PastTyped' /\ ServerTyped' /\ GhostTyped' /\ CountTyped'
      BY <1>6, Untouched DEF page
    <2> QED
      BY <2>1, <2>2, Parts
  <1>7. CASE Saved(t, s)
    <2>1. Fetch(t, s, r.after) /\ UNCHANGED <<server, diagram, saveTimer, bounds, ghosts>>
      BY <1>7 DEF Saved
    <2>2. PageTyped'
      BY <1>2, <1>7, <2>1 DEF Saved, TakeTag, PageTyped, Typed, TypeOK
    <2> QED
      BY <1>4, <2>1, <2>2, Untouched
  <1>8. CASE SaveFailed(t, s)
    <2>1. /\ Fetch(t, s, r.after)
          /\ UNCHANGED <<server, diagram, currentEtag, saveTimer, bounds, ghosts>>
      BY <1>8 DEF SaveFailed
    <2> QED
      BY <1>4, <2>1, Untouched
  <1>9. CASE Reload(t, s)
    BY <1>2, <1>3, <1>5, <1>9 DEF Reload
  <1>10. CASE KeepEditing(t, s)
    <2>1. /\ Fetch(t, s, r.after)
          /\ UNCHANGED <<server, diagram, saveTimer, bounds, sent, undone>>
      BY <1>10 DEF KeepEditing
    <2>2. PageTyped'
      BY <1>10, <2>1 DEF KeepEditing, PageTyped, Typed, TypeOK, Tag
    <2>3. GhostTyped'
      BY <1>3, <1>10, <2>1 DEF KeepEditing, GhostTyped, Typed, TypeOK
    <2> QED
      BY <1>4, <2>1, <2>2, <2>3
  <1>11. CASE Loaded(t, s)
    <2>1. Fetch(t, s, r.after) /\ UNCHANGED <<server, saveTimer, bounds, ghosts>>
      BY <1>11 DEF Loaded
    <2>2. PageTyped'
      BY <1>2, <1>11, <2>1 DEF Loaded, PageTyped, Typed, TypeOK
    <2> QED
      BY <1>4, <2>1, <2>2, Untouched
  <1>12. CASE Renamed(t, s)
    <2>1. /\ Become(t, s, NoTask)
          /\ UNCHANGED <<server, diagram, saveTimer, past, future, bounds, ghosts>>
      BY <1>12 DEF Renamed, End
    <2>2. PageTyped'
      BY <1>2, <1>12, <2>1 DEF Renamed, TakeTag, PageTyped, Typed, TypeOK
    <2>3. TasksTyped'
      BY <2>1, BecomeTyped DEF TasksTyped
    <2> QED
      BY <2>1, <2>2, <2>3, Untouched, Parts
  <1>13. CASE Deleted(t, s)
    <2>0. UNCHANGED <<server, bounds, undone, waived>>
      BY <1>13 DEF Deleted
    <2>1. CASE End(t, s) /\ UNCHANGED <<page, sent>>
      BY <1>6, <2>0, <2>1 DEF End, ghosts
    <2>2. CASE Become(t, s, Request("delete", "LIST", r.id)) /\ UNCHANGED <<page, sent>>
      BY <1>2, <1>6, <2>0, <2>2, AsksProper DEF ghosts
    <2>3. CASE Become(t, s, Request("new", "POST", r.id)) /\ UNCHANGED <<page, sent>>
      BY <1>2, <1>6, <2>0, <2>3, AsksProper DEF ghosts
    <2>4. CASE Load(t, s, r.id, <<>>) /\ UNCHANGED <<diagram, currentEtag>>
      <3>1. <<>> \in Seq(Id)
        OBVIOUS
      <3> QED
        BY <1>2, <1>5, <2>0, <2>4, <3>1
    <2> QED
      BY <1>13, <2>1, <2>2, <2>3, <2>4 DEF Deleted
  <1>14. CASE Created(t, s)
    <2>1. <<>> \in Seq(Id)
      OBVIOUS
    <2> QED
      BY <1>2, <1>5, <1>14, <2>1 DEF Created
  <1>15. CASE ContainerMade(t, s)
    <2>1. PICK m \in r.body : Change(t, m)
      BY <1>15 DEF ContainerMade
    <2>2. m \in Mark
      BY <1>2, <2>1 DEF Body
    <2>3. PastTyped' /\ diagram' \in [Tab -> [id: Id, body: Body]]
      BY <2>1, <2>2, ChangeTyped
    <2>4. PageTyped'
      BY <1>15, <2>3 DEF ContainerMade, PageTyped, Typed, TypeOK
    <2>5. TasksTyped'
      BY <1>15, BecomeTyped DEF TasksTyped, ContainerMade, End
    <2> QED
      BY <1>15, <2>3, <2>4, <2>5, Untouched, Parts DEF ContainerMade
  <1>16. CASE PortFetched(t, s)
    <2> DEFINE i == r.id
               b == r.body
               q == [Request("port", "PUT", i) EXCEPT !.body = b]
    <2>1. Become(t, s, q) /\ sent' = sent \cup b
      BY <1>16 DEF PortFetched
    <2>2. i \in Id /\ b \in Body /\ <<"port", "PUT">> \in Kinds /\ "port" \in Gestures
      BY <1>2, <1>16 DEF Kinds, Proper, PortFetched, Answered
    <2>3. Proper(q)
      <3> HIDE DEF i, b
      <3> QED
        BY <2>2, CarryingTyped
    <2> HIDE DEF q
    <2>4. TasksTyped'
      BY <2>1, <2>3, BecomeTyped DEF TasksTyped
    <2>5. GhostTyped'
      BY <1>16, <2>1, <2>2 DEF PortFetched, GhostTyped, Typed, TypeOK, Body
    <2>6. PageTyped' /\ PastTyped' /\ ServerTyped' /\ CountTyped'
      BY <1>16, Untouched DEF PortFetched, page
    <2> QED
      BY <2>4, <2>5, <2>6, Parts
  <1>17. CASE GiveUp(t, s)
    BY <1>6, <1>17 DEF GiveUp, End
  <1> QED
    BY <1>7, <1>8, <1>9, <1>10, <1>11, <1>12, <1>13, <1>14, <1>15, <1>16, <1>17 DEF Take

LEMMA InitTyped == Init => Typed
  <1> SUFFICES ASSUME Init PROVE Typed
    OBVIOUS
  <1>1. {} \in Body /\ <<>> \in Seq(Body) /\ Len(<<>>) = 0 /\ 0 \in Tag
    BY DEF Body, Tag
  <1>2. ServerTyped
    <2>1. [body |-> {}, tag |-> 0, by |-> Gone] \in Version
      BY <1>1 DEF Version
    <2> QED
      BY <2>1 DEF Init, ServerTyped
  <1>3. PageTyped
    <2>1. Exists \subseteq Id
      BY DEF Exists
    <2> QED
      BY <1>1, <2>1 DEF Init, PageTyped
  <1>4. PastTyped
    <2>1. HistoryLimit \in Nat
      BY LimitAssumption
    <2> QED
      BY <1>1, <2>1 DEF Init, PastTyped, Histories
  <1>5. TasksTyped
    BY DEF Init, TasksTyped, Tasks, Live
  <1>6. GhostTyped
    BY <1>1 DEF Init, GhostTyped
  <1>7. CountTyped
    BY LimitAssumption, FailureAssumption DEF Init, CountTyped
  <1> QED
    BY <1>2, <1>3, <1>4, <1>5, <1>6, <1>7, Parts

LEMMA NextTyped == Typed /\ [Next]_vars => Typed'
  <1> SUFFICES ASSUME Typed, [Next]_vars PROVE Typed'
    OBVIOUS
  <1>1. CASE UNCHANGED vars
    BY <1>1, Untouched, Parts DEF vars, server, ghosts, bounds
  <1>2. ASSUME NEW t \in Tab,
               \/ Act(t)
               \/ \E s \in Slot : TimerFires(t, s) \/ Serve(t, s) \/ Drop(t, s) \/ Take(t, s)
        PROVE  Typed'
    BY <1>2, ActTyped, TimerTyped, ServeTyped, TakeTyped
  <1> QED
    BY <1>1, <1>2 DEF Next

\* Every variable always has its type, and the undo and redo steps kept are never more
\* than HISTORY_LIMIT together, whatever the users do (app.js:404-451).
THEOREM Types == Spec => []TypeOK
  <1>1. Typed => TypeOK
    BY DEF Typed
  <1> QED
    BY InitTyped, NextTyped, <1>1, PTL DEF Spec

-----------------------------------------------------------------------------
(* Patient users                                                           *)
(*                                                                         *)
(* A user who waits for what runs before he acts leaves a tab with one     *)
(* gesture's function at most, and saves and loads next to it.  What each  *)
(* of them may then assume of the tab is the inductive invariant.          *)

\* Every mark of the body is meant for diagram i.
On(body, i) == \A m \in body : m[2] = i

\* What task r of tab t is about, in this state of the tab and the store.
TaskOk(t, r) ==
    /\ r.after # <<>> => r.use \in Goes /\ ~saveTimer[t]
    /\ r.use \in Goes /\ r.id # diagram[t].id => ~saveTimer[t]
    /\ r.use = "container" => r.id = diagram[t].id
    /\ r.use = "new" /\ r.answer = "ok" => r.id # diagram[t].id
    /\ r.op = "DELETE" /\ r.answer = "ok" => r.id \notin Exists
    /\ r.op = "LIST" /\ r.answer = "ok" => r.id # diagram[t].id
    /\ r.op = "LIST" /\ r.answer # "ok" => diagram[t].id \notin Exists
    /\ r.use = "load" /\ r.id # diagram[t].id => past[t] = <<>> /\ future[t] = <<>>
    /\ r.use \in {"save", "load", "container", "port"} => On(r.body, r.id)
    /\ r.use \in Goes \/ r.op = "PUT" => r.body \subseteq sent

\* Two tasks of a tab at once.
Cross(t) ==
    \A s, z \in Live(t) : s # z =>
        /\ ~saveTimer[t]
        /\ task[t][s].after = <<>>
        /\ task[t][s].use \in Goes \/ task[t][z].use \in Goes
        /\ task[t][s].use \in Goes /\ task[t][s].id # diagram[t].id => task[t][z].use \in Goes

\* ... and never three.
Two(t) == \A s1, s2, s3 \in Live(t) : s1 = s2 \/ s1 = s3 \/ s2 = s3

PageOk(t) ==
    /\ On(diagram[t].body, diagram[t].id)
    /\ \A k \in DOMAIN past[t] : On(past[t][k], diagram[t].id)
    /\ \A k \in DOMAIN future[t] : On(future[t][k], diagram[t].id)
    /\ ~saveTimer[t] => diagram[t].body \subseteq sent

TabInv(t) == /\ \A s \in Live(t) : TaskOk(t, task[t][s])
             /\ Cross(t) /\ Two(t) /\ PageOk(t)

StoreOk == \A i \in Exists : On(stored[i].body, i) /\ stored[i].body \subseteq sent

PatientInv == Typed /\ StoreOk /\ \A t \in Tab : TabInv(t)

\* What every step leaves of the server and the history: marks once sent stay sent, and
\* an id that comes into use was known nowhere.
Onward == sent \subseteq sent' /\ Exists' \subseteq Exists \cup Unused

\* A task that a step does not touch.
LEMMA Steady ==
    ASSUME Typed, NEW t \in Tab, NEW s \in Slot, task[t][s] # NoTask, NEW r, r = task[t][s],
           TaskOk(t, r), Onward,
           diagram'[t].id = diagram[t].id,
           saveTimer'[t] => saveTimer[t],
           past'[t] \in {past[t], <<>>}, future'[t] \in {future[t], <<>>}
    PROVE  TaskOk(t, r)'
  <1>1. r.id \notin Exists => r.id \notin Exists'
    BY DEF Onward, Unused
  <1>2. diagram[t].id \notin Exists => diagram[t].id \notin Exists'
    BY DEF Onward, Unused
  <1> QED
    BY <1>1, <1>2 DEF TaskOk, Onward, On

\* A tab that a step does not touch.
LEMMA Bystander ==
    ASSUME Typed, NEW t \in Tab, TabInv(t), Onward,
           task'[t] = task[t], diagram'[t] = diagram[t], saveTimer'[t] = saveTimer[t],
           past'[t] = past[t], future'[t] = future[t]
    PROVE  TabInv(t)'
  <1>1. Live(t)' = Live(t)
    BY DEF Live
  <1>2. ASSUME NEW s \in Live(t) PROVE TaskOk(t, task[t][s])'
    <2>1. PICK r : r = task[t][s]
      OBVIOUS
    <2>2. s \in Slot /\ r # NoTask /\ TaskOk(t, r)
      BY <1>2, <2>1 DEF Live, TabInv
    <2>3. TaskOk(t, r)'
      BY <2>1, <2>2, Steady
    <2>4. task'[t][s] = r
      BY <2>1
    <2> QED
      BY <2>3, <2>4
  <1>3. Cross(t)' /\ Two(t)'
    BY <1>1 DEF TabInv, Cross, Two
  <1>4. PageOk(t)'
    BY DEF TabInv, PageOk, On, Onward
  <1> QED
    BY <1>1, <1>2, <1>3, <1>4 DEF TabInv

\* How a function may go on, seen from the tab's other one.
Follows(t, r, q) ==
    /\ r.use \in Goes => q.use \in Goes
    /\ q.after # <<>> => r.after # <<>> \/ saveTimer[t]
    /\ q.use \in Goes /\ q.id # diagram[t].id =>
          r.after # <<>> \/ r.use \notin Goes \/ r.id # diagram[t].id

\* A function goes on or ends while its tab shows what it showed.
LEMMA GoesOn ==
    ASSUME Typed, NEW t \in Tab, NEW s \in Slot, TabInv(t), Onward,
           NEW r, r = task[t][s], r # NoTask,
           NEW q, Become(t, s, q),
           diagram'[t] = diagram[t],
           saveTimer'[t] => saveTimer[t],
           saveTimer[t] /\ ~saveTimer'[t] => diagram[t].body \subseteq sent',
           past'[t] \in {past[t], <<>>}, future'[t] \in {future[t], <<>>},
           q = NoTask \/ (TaskOk(t, q)' /\ Follows(t, r, q))
    PROVE  TabInv(t)'
  <1>1. /\ task'[t][s] = q
        /\ \A z \in Slot \ {s} : task'[t][z] = task[t][z]
    BY BecomeDoes
  <1>2. \A z \in Live(t)' : (z = s /\ q # NoTask) \/ (z \in Live(t) /\ z # s)
    BY <1>1 DEF Live
  <1>3. s \in Live(t) /\ Live(t)' \subseteq Live(t)
    BY <1>1, <1>2 DEF Live
  <1>4. ASSUME NEW z \in Live(t)' PROVE TaskOk(t, task[t][z])'
    <2>1. CASE z = s /\ q # NoTask
      BY <1>1, <2>1
    <2>2. CASE z \in Live(t) /\ z # s
      <3>1. PICK p : p = task[t][z]
        OBVIOUS
      <3>2. z \in Slot /\ p # NoTask /\ TaskOk(t, p)
        BY <2>2, <3>1 DEF Live, TabInv
      <3>3. TaskOk(t, p)'
        BY <3>1, <3>2, Steady
      <3>4. task'[t][z] = p
        BY <1>1, <2>2, <3>1, <3>2
      <3> QED
        BY <3>3, <3>4
    <2> QED
      BY <1>2, <2>1, <2>2
  <1>5. Two(t)'
    BY <1>3 DEF TabInv, Two
  <1>6. Cross(t)'
    <2> SUFFICES ASSUME NEW x \in Live(t)', NEW z \in Live(t)', x # z
                 PROVE  /\ ~saveTimer'[t]
                        /\ task'[t][x].after = <<>>
                        /\ task'[t][x].use \in Goes \/ task'[t][z].use \in Goes
                        /\ task'[t][x].use \in Goes /\ task'[t][x].id # diagram'[t].id
                              => task'[t][z].use \in Goes
      BY DEF Cross
    <2>1. x \in Live(t) /\ z \in Live(t)
      BY <1>3
    <2>2. /\ ~saveTimer[t]
          /\ task[t][x].after = <<>> /\ task[t][z].after = <<>>
          /\ task[t][x].use \in Goes \/ task[t][z].use \in Goes
          /\ task[t][x].use \in Goes /\ task[t][x].id # diagram[t].id => task[t][z].use \in Goes
      BY <2>1 DEF TabInv, Cross
    <2>3. CASE x = s
      <3>1. task'[t][x] = q /\ q # NoTask /\ task'[t][z] = task[t][z] /\ task[t][x] = r
        BY <1>1, <1>2, <2>1, <2>3 DEF Live
      <3>2. Follows(t, r, q)
        BY <3>1
      <3> QED
        BY <2>2, <3>1, <3>2 DEF Follows
    <2>4. CASE z = s
      <3>1. task'[t][z] = q /\ q # NoTask /\ task'[t][x] = task[t][x] /\ task[t][z] = r
        BY <1>1, <1>2, <2>1, <2>4 DEF Live
      <3>2. Follows(t, r, q)
        BY <3>1
      <3> QED
        BY <2>2, <3>1, <3>2 DEF Follows
    <2>5. CASE x # s /\ z # s
      <3>1. task'[t][z] = task[t][z] /\ task'[t][x] = task[t][x]
        BY <1>1, <2>1, <2>5 DEF Live
      <3> QED
        BY <2>2, <3>1
    <2> QED
      BY <2>3, <2>4, <2>5
  <1>7. PageOk(t)'
    <2>1. PageOk(t)
      BY DEF TabInv
    <2>2. ASSUME NEW k \in DOMAIN past'[t] PROVE On(past'[t][k], diagram[t].id)
      BY <2>1 DEF PageOk
    <2>3. ASSUME NEW k \in DOMAIN future'[t] PROVE On(future'[t][k], diagram[t].id)
      BY <2>1 DEF PageOk
    <2>4. ~saveTimer'[t] => diagram[t].body \subseteq sent'
      BY <2>1 DEF PageOk, Onward
    <2> QED
      BY <2>1, <2>2, <2>3, <2>4 DEF PageOk, On
  <1> QED
    BY <1>4, <1>5, <1>6, <1>7 DEF TabInv

\* The load that waited for a save or for another load.
LEMMA FetchTask ==
    ASSUME Typed, NEW t \in Tab, NEW s \in Slot, NEW ids \in Seq(Id), ids # <<>>,
           Fetch(t, s, ids), ~saveTimer'[t]
    PROVE  \E q : /\ Become(t, s, q) /\ TaskOk(t, q)'
                  /\ q.use = "load" /\ q.id = Head(ids) /\ q.after = Tail(ids)
                  /\ past'[t] = <<>> /\ future'[t] = <<>>
  <1>1. PICK q : /\ Become(t, s, q)
                 /\ q = [use |-> "load", op |-> "GET", id |-> Head(ids), body |-> {},
                         tag |-> NoTag, after |-> Tail(ids), answer |-> "none"]
    BY FetchDoes
  <1>2. past' = [past EXCEPT ![t] = <<>>] /\ future' = [future EXCEPT ![t] = <<>>]
    BY DEF Fetch
  <1>3. past'[t] = <<>> /\ future'[t] = <<>>
    BY <1>2 DEF Typed, TypeOK
  <1>4. /\ q.use = "load" /\ q.op = "GET" /\ q.id = Head(ids) /\ q.body = {}
        /\ q.after = Tail(ids) /\ q.answer = "none"
    BY <1>1
  <1>5. TaskOk(t, q)'
    BY <1>3, <1>4 DEF TaskOk, On, Goes
  <1> QED
    BY <1>1, <1>3, <1>4, <1>5

\* The task that loadDiagram leaves, before its first answer.
LEMMA LoadTask ==
    ASSUME Typed, NEW t \in Tab, NEW s \in Slot, NEW i \in Id, NEW rest \in Seq(Id),
           PageOk(t), Load(t, s, i, rest), diagram'[t] = diagram[t], UNCHANGED stored
    PROVE  /\ \E q : /\ Become(t, s, q) /\ TaskOk(t, q)' /\ q.use \in Goes
                     /\ q.after # <<>> => saveTimer[t] \/ q.after = rest
                     /\ q.id = diagram[t].id \/ q.id = i
           /\ Onward
           /\ ~saveTimer'[t] /\ (saveTimer[t] => diagram[t].body \subseteq sent')
           /\ past'[t] \in {past[t], <<>>} /\ future'[t] \in {future[t], <<>>}
  <1> DEFINE ids == <<i>> \o rest
  <1>1. ids \in Seq(Id) /\ ids # <<>> /\ Head(ids) = i /\ Tail(ids) = rest
    BY Prepended
  <1>2. Exists' = Exists
    BY DEF Exists
  <1>3. CASE saveTimer[t]
    <2> DEFINE b == diagram[t].body
    <2>1. /\ saveTimer' = [saveTimer EXCEPT ![t] = FALSE]
          /\ sent' = sent \cup b
          /\ Become(t, s, Saving(t, b, ids))
          /\ UNCHANGED <<past, future>>
      BY <1>3 DEF Load
    <2>2. b \in Body
      BY DEF Typed, TypeOK
    <2> HIDE DEF ids
    <2>3. PICK q : q = Saving(t, b, ids)
      OBVIOUS
    <2>4. Saving(t, b, ids) =
                 [use |-> "save", op |-> "PUT", id |-> diagram[t].id, body |-> b,
                  tag |-> currentEtag[t], after |-> ids, answer |-> "none"]
      <3> HIDE DEF b
      <3> QED
        BY <1>1, <2>2, SavingTyped
    <2>5. /\ q.use = "save" /\ q.op = "PUT" /\ q.id = diagram[t].id /\ q.body = b
          /\ q.answer = "none"
      BY <2>3, <2>4
    <2>6. ~saveTimer'[t]
      BY <2>1 DEF Typed, TypeOK
    <2>7. On(b, diagram'[t].id)
      BY DEF PageOk
    <2>8. TaskOk(t, q)'
      BY <2>1, <2>5, <2>6, <2>7 DEF TaskOk, Goes, On
    <2> QED
      BY <1>2, <1>3, <2>1, <2>3, <2>5, <2>6, <2>8 DEF Goes, Onward
  <1>4. CASE ~saveTimer[t]
    <2>1. Fetch(t, s, ids) /\ UNCHANGED <<saveTimer, sent>>
      BY <1>4 DEF Load
    <2>2. ~saveTimer'[t]
      BY <1>4, <2>1
    <2> HIDE DEF ids
    <2>3. PICK q : /\ Become(t, s, q) /\ TaskOk(t, q)'
                   /\ q.use = "load" /\ q.id = Head(ids) /\ q.after = Tail(ids)
                   /\ past'[t] = <<>> /\ future'[t] = <<>>
      BY <1>1, <2>1, <2>2, FetchTask
    <2> QED
      BY <1>1, <1>2, <1>4, <2>1, <2>2, <2>3 DEF Goes, Onward
  <1> QED
    BY <1>3, <1>4

\* A tab whose user acts: nothing else runs.
LEMMA Begins ==
    ASSUME Typed, NEW t \in Tab, Live(t) = {}, PageOk(t)',
           \/ task' = task
           \/ \E s \in Slot : \E q : Become(t, s, q) /\ TaskOk(t, q)'
    PROVE  TabInv(t)'
  <1>1. CASE task' = task
    <2>1. Live(t)' = {}
      BY <1>1 DEF Live
    <2> QED
      BY <2>1 DEF TabInv, Cross, Two
  <1>2. ASSUME NEW s \in Slot, NEW q, Become(t, s, q), TaskOk(t, q)' PROVE TabInv(t)'
    <2>1. /\ task'[t][s] = q
          /\ \A z \in Slot \ {s} : task'[t][z] = task[t][z]
      BY <1>2, BecomeDoes
    <2>2. \A z \in Live(t)' : z = s
      BY <2>1 DEF Live
    <2>3. Cross(t)' /\ Two(t)'
      BY <2>2 DEF Cross, Two
    <2>4. \A z \in Live(t)' : TaskOk(t, task[t][z])'
      BY <1>2, <2>1, <2>2
    <2> QED
      BY <2>3, <2>4 DEF TabInv
  <1> QED
    BY <1>1, <1>2

\* A step of tab t leaves the other tabs alone.
Local(t) ==
    \A u \in Tab \ {t} :
        /\ task'[u] = task[u] /\ diagram'[u] = diagram[u] /\ currentEtag'[u] = currentEtag[u]
        /\ saveTimer'[u] = saveTimer[u] /\ past'[u] = past[u] /\ future'[u] = future[u]
        /\ undone'[u] = undone[u] /\ waived'[u] = waived[u]

LEMMA FetchLocal ==
    ASSUME Typed, NEW t \in Tab, NEW s \in Slot, NEW ids, Fetch(t, s, ids)
    PROVE  \A u \in Tab \ {t} : task'[u] = task[u] /\ past'[u] = past[u] /\ future'[u] = future[u]
  <1>1. CASE ids = <<>>
    BY <1>1 DEF Fetch, End, Become, Typed, TypeOK
  <1>2. CASE ids # <<>>
    BY <1>2 DEF Fetch, Become, Typed, TypeOK
  <1> QED
    BY <1>1, <1>2

LEMMA LoadLocal ==
    ASSUME Typed, NEW t \in Tab, NEW s \in Slot, NEW i, NEW rest, Load(t, s, i, rest)
    PROVE  \A u \in Tab \ {t} : /\ task'[u] = task[u] /\ past'[u] = past[u]
                                /\ future'[u] = future[u] /\ saveTimer'[u] = saveTimer[u]
  <1>1. CASE saveTimer[t]
    BY <1>1 DEF Load, Become, Typed, TypeOK
  <1>2. CASE ~saveTimer[t]
    <2>1. Fetch(t, s, <<i>> \o rest) /\ UNCHANGED saveTimer
      BY <1>2 DEF Load
    <2> QED
      BY <2>1, FetchLocal
  <1> QED
    BY <1>1, <1>2

LEMMA ActLocal ==
    ASSUME Typed, NEW t \in Tab, Act(t)
    PROVE  Local(t)
  <1>1. CASE Edit(t)
    BY <1>1 DEF Edit, Change, Local, Typed, TypeOK
  <1>2. CASE Undo(t)
    BY <1>2 DEF Undo, Swap, Local, Typed, TypeOK
  <1>3. CASE Redo(t)
    BY <1>3 DEF Redo, Swap, Local, Typed, TypeOK
  <1>4. ASSUME NEW s \in Slot, PlaceRef(t, s) PROVE Local(t)
    BY <1>4 DEF PlaceRef, Change, Become, Local, Typed, TypeOK
  <1>5. ASSUME NEW s \in Slot, NEW i, Open(t, s, i) PROVE Local(t)
    BY <1>5, LoadLocal DEF Open, Local
  <1>6. ASSUME NEW s \in Slot, NEW g, NEW r, Ask(t, s, g, r) PROVE Local(t)
    BY <1>6, BecomeDoes DEF Ask, page, Local
  <1> QED
    BY <1>1, <1>2, <1>3, <1>4, <1>5, <1>6
       DEF Act, NewDiagram, AddContainer, Rename, Convert, Delete, AddPort

LEMMA TimerLocal ==
    ASSUME Typed, NEW t \in Tab, NEW s \in Slot, TimerFires(t, s)
    PROVE  Local(t)
  BY DEF TimerFires, Become, Local, Typed, TypeOK

LEMMA ServeLocal ==
    ASSUME Typed, NEW t \in Tab, NEW s \in Slot, Serve(t, s) \/ Drop(t, s)
    PROVE  Local(t)
  <1>1. Outcome(t, s, task[t][s]) /\ UNCHANGED <<page, acts, ghosts>>
    BY Serving
  <1>2. PICK q : Become(t, s, q)
    BY <1>1 DEF Outcome
  <1> QED
    BY <1>1, <1>2, BecomeDoes DEF Local, page, ghosts

LEMMA TakeLocal ==
    ASSUME Typed, NEW t \in Tab, NEW s \in Slot, Take(t, s)
    PROVE  Local(t)
  <1>1. CASE Saved(t, s)
    BY <1>1, FetchLocal DEF Saved, TakeTag, Local, Typed, TypeOK, ghosts
  <1>2. CASE SaveFailed(t, s)
    BY <1>2, FetchLocal DEF SaveFailed, Local, ghosts
  <1>3. CASE Reload(t, s)
    BY <1>3, LoadLocal DEF Reload, Local
  <1>4. CASE KeepEditing(t, s)
    BY <1>4, FetchLocal DEF KeepEditing, Local, Typed, TypeOK
  <1>5. CASE Loaded(t, s)
    BY <1>5, FetchLocal DEF Loaded, Local, Typed, TypeOK, ghosts
  <1>6. CASE Renamed(t, s)
    BY <1>6, BecomeDoes DEF Renamed, End, TakeTag, Local, Typed, TypeOK, ghosts
  <1>7. CASE Deleted(t, s)
    <2>1. ASSUME NEW q, Become(t, s, q), UNCHANGED page, UNCHANGED <<undone, waived>>
          PROVE  Local(t)
      BY <2>1, BecomeDoes DEF Local, page
    <2>2. ASSUME NEW i, Load(t, s, i, <<>>),
                 UNCHANGED <<diagram, currentEtag>>, UNCHANGED <<undone, waived>>
          PROVE  Local(t)
      BY <2>2, LoadLocal DEF Local
    <2> QED
      BY <1>7, <2>1, <2>2 DEF Deleted, End
  <1>8. CASE Created(t, s)
    BY <1>8, LoadLocal DEF Created, Local
  <1>9. CASE ContainerMade(t, s)
    BY <1>9 DEF ContainerMade, Change, End, Become, Local, Typed, TypeOK, ghosts
  <1>10. CASE PortFetched(t, s)
    BY <1>10, BecomeDoes DEF PortFetched, Local, page
  <1>11. CASE GiveUp(t, s)
    BY <1>11, BecomeDoes DEF GiveUp, End, Local, page, ghosts
  <1> QED
    BY <1>1, <1>2, <1>3, <1>4, <1>5, <1>6, <1>7, <1>8, <1>9, <1>10, <1>11 DEF Take

\* What the histories hold after a step of one of them.
LEMMA Entries ==
    ASSUME NEW h \in Seq(Body), NEW b \in Body
    PROVE  /\ \A k \in DOMAIN Append(h, b) :
                 Append(h, b)[k] = b \/ \E j \in DOMAIN h : Append(h, b)[k] = h[j]
           /\ \A k \in DOMAIN Trim(Append(h, b)) :
                 Trim(Append(h, b))[k] = b \/ \E j \in DOMAIN h : Trim(Append(h, b))[k] = h[j]
           /\ h # <<>> => /\ Len(h) \in DOMAIN h
                          /\ \A k \in DOMAIN SubSeq(h, 1, Len(h) - 1) :
                                k \in DOMAIN h /\ SubSeq(h, 1, Len(h) - 1)[k] = h[k]
  <1> DEFINE a == Append(h, b)
             n == Len(h)
  <1>1. /\ n \in Nat /\ DOMAIN h = 1..n
        /\ a \in Seq(Body) /\ Len(a) = n + 1 /\ DOMAIN a = 1..(n + 1)
        /\ a[n + 1] = b /\ \A j \in 1..n : a[j] = h[j]
    OBVIOUS
  <1>2. h # <<>> => n > 0
    BY EmptySeq
  <1>3. h # <<>> => /\ DOMAIN SubSeq(h, 1, n - 1) = 1..(n - 1)
                    /\ \A k \in 1..(n - 1) : SubSeq(h, 1, n - 1)[k] = h[k]
    <2> SUFFICES ASSUME h # <<>>
                 PROVE  /\ DOMAIN SubSeq(h, 1, n - 1) = 1..(n - 1)
                        /\ \A k \in 1..(n - 1) : SubSeq(h, 1, n - 1)[k] = h[k]
      OBVIOUS
    <2>1. n > 0
      BY <1>2
    <2>2. /\ Len(SubSeq(h, 1, n - 1)) = n - 1 /\ SubSeq(h, 1, n - 1) \in Seq(Body)
          /\ \A k \in 1..(n - 1) : SubSeq(h, 1, n - 1)[k] = h[k]
      BY <1>1, <2>1, SubSeqProperties
    <2> QED
      BY <2>2
  <1>4. /\ Tail(a) \in Seq(Body) /\ DOMAIN Tail(a) = 1..n
        /\ \A j \in 1..n : Tail(a)[j] = a[j + 1]
    <2> HIDE DEF n
    <2>1. a # <<>>
      BY <1>1, EmptySeq
    <2>2. /\ Tail(a) \in Seq(Body) /\ Len(Tail(a)) = Len(a) - 1
          /\ \A j \in 1..Len(Tail(a)) : Tail(a)[j] = a[j + 1]
      <3> HIDE DEF a
      <3> QED
        BY <1>1, <2>1, HeadTailProperties
    <2>3. Len(Tail(a)) = n
      BY <1>1, <2>2
    <2>4. DOMAIN Tail(a) = 1..Len(Tail(a))
      BY <2>2
    <2> QED
      BY <2>2, <2>3, <2>4
  <1> HIDE DEF a, n
  <1>5. ASSUME NEW k \in DOMAIN a PROVE a[k] = b \/ \E j \in DOMAIN h : a[k] = h[j]
    <2>1. k \in 1..n \/ k = n + 1
      BY <1>1, <1>5
    <2> QED
      BY <1>1, <2>1
  <1>6. ASSUME NEW k \in DOMAIN Tail(a)
        PROVE  Tail(a)[k] = b \/ \E j \in DOMAIN h : Tail(a)[k] = h[j]
    <2>1. k \in 1..n /\ k + 1 \in DOMAIN a /\ Tail(a)[k] = a[k + 1]
      BY <1>1, <1>4, <1>6
    <2> QED
      BY <1>5, <2>1
  <1>7. Trim(a) = a \/ Trim(a) = Tail(a)
    BY DEF Trim
  <1>8. h # <<>> => /\ n \in DOMAIN h
                    /\ \A k \in DOMAIN SubSeq(h, 1, n - 1) :
                          k \in DOMAIN h /\ SubSeq(h, 1, n - 1)[k] = h[k]
    BY <1>1, <1>2, <1>3
  <1>9. \A k \in DOMAIN Trim(a) : Trim(a)[k] = b \/ \E j \in DOMAIN h : Trim(a)[k] = h[j]
    BY <1>5, <1>6, <1>7
  <1> QED
    BY <1>5, <1>8, <1>9 DEF a, n

\* A change that is meant for the diagram it is made in.
LEMMA ChangeLands ==
    ASSUME Typed, NEW t \in Tab, NEW m \in Mark, m[2] = diagram[t].id, Change(t, m), PageOk(t)
    PROVE  /\ diagram'[t] = [id |-> diagram[t].id, body |-> diagram[t].body \cup {m}]
           /\ On(diagram'[t].body, diagram'[t].id)
           /\ \A k \in DOMAIN past'[t] : On(past'[t][k], diagram'[t].id)
           /\ future'[t] = <<>>
  <1> DEFINE h == past[t]
             b == diagram[t].body
             p == Trim(Append(h, b))
  <1>1. diagram'[t] = [id |-> diagram[t].id, body |-> b \cup {m}]
    BY ChangeTyped
  <1>2. h \in Seq(Body) /\ b \in Body
    BY DEF Typed, TypeOK
  <1>3. past'[t] = p /\ future'[t] = <<>>
    BY DEF Change, Typed, TypeOK
  <1>4. On(b, diagram[t].id) /\ \A j \in DOMAIN h : On(h[j], diagram[t].id)
    BY DEF PageOk
  <1> HIDE DEF h
  <1>5. \A k \in DOMAIN p : p[k] = b \/ \E j \in DOMAIN h : p[k] = h[j]
    <2> HIDE DEF b
    <2> QED
      BY <1>2, Entries
  <1>6. \A k \in DOMAIN p : On(p[k], diagram[t].id)
    BY <1>4, <1>5
  <1>7. On(diagram'[t].body, diagram'[t].id)
    BY <1>1, <1>4 DEF On
  <1> QED
    BY <1>1, <1>3, <1>6, <1>7

\* What a step leaves, for the tab that takes it and for the store.
Keeps(t) == TabInv(t)' /\ StoreOk' /\ Onward

\* The store stays as it was.
LEMMA SameStore ==
    ASSUME StoreOk, UNCHANGED stored, sent \subseteq sent'
    PROVE  StoreOk' /\ Onward
  BY DEF StoreOk, Onward, Exists, On

LEMMA ActKeeps ==
    ASSUME PatientInv, Patient, NEW t \in Tab, Act(t)
    PROVE  Keeps(t) /\ diagram'[t].id = diagram[t].id
  <1>1. Typed /\ StoreOk /\ TabInv(t) /\ PageOk(t)
    BY DEF PatientInv, TabInv
  <1>2. diagram[t].id \in Id /\ diagram[t] \in [id: Id, body: Body]
    BY <1>1 DEF Typed, TypeOK
  <1>3. \A i : NewMark(t, i)[2] = i
    BY DEF NewMark
  <1>4. ASSUME NEW g, May(t, g) PROVE Live(t) = {} /\ \A i \in Id : NewMark(t, i) \in Mark
    BY <1>1, <1>4, MayTyped DEF Live
  <1>5. CASE Edit(t)
    <2> DEFINE m == NewMark(t, diagram[t].id)
    <2>1. /\ Change(t, m) /\ m \in Mark /\ m[2] = diagram[t].id /\ Live(t) = {}
          /\ UNCHANGED <<server, task, sent>> /\ saveTimer' = [saveTimer EXCEPT ![t] = TRUE]
      BY <1>2, <1>3, <1>4, <1>5 DEF Edit
    <2> HIDE DEF m
    <2>2. /\ diagram'[t] = [id |-> diagram[t].id, body |-> diagram[t].body \cup {m}]
          /\ On(diagram'[t].body, diagram'[t].id)
          /\ \A k \in DOMAIN past'[t] : On(past'[t][k], diagram'[t].id)
          /\ future'[t] = <<>>
      BY <1>1, <2>1, ChangeLands
    <2>3. saveTimer'[t]
      BY <1>1, <2>1 DEF Typed, TypeOK
    <2>4. PageOk(t)'
      BY <2>2, <2>3 DEF PageOk, On
    <2>5. TabInv(t)'
      BY <1>1, <2>1, <2>4, Begins
    <2> QED
      BY <1>1, <2>1, <2>2, <2>5, SameStore DEF Keeps, server
  <1>6. ASSUME NEW h \in Seq(Body), NEW k \in Seq(Body), h # <<>>,
               \A j \in DOMAIN h : On(h[j], diagram[t].id),
               \A j \in DOMAIN k : On(k[j], diagram[t].id),
               diagram' = [diagram EXCEPT ![t].body = h[Len(h)]],
               saveTimer' = [saveTimer EXCEPT ![t] = TRUE],
               {past'[t], future'[t]} = {SubSeq(h, 1, Len(h) - 1), Append(k, diagram[t].body)},
               Live(t) = {}, UNCHANGED <<server, task, sent>>
        PROVE  Keeps(t) /\ diagram'[t].id = diagram[t].id
    <2> DEFINE b == diagram[t].body
               c == h[Len(h)]
               p == SubSeq(h, 1, Len(h) - 1)
               f == Append(k, b)
    <2>1. b \in Body /\ On(b, diagram[t].id)
      BY <1>1, <1>2 DEF PageOk
    <2>2. /\ \A j \in DOMAIN p : j \in DOMAIN h /\ p[j] = h[j]
          /\ Len(h) \in DOMAIN h
      BY <1>6, <2>1, Entries
    <2>3. \A j \in DOMAIN f : f[j] = b \/ \E x \in DOMAIN k : f[j] = k[x]
      <3> HIDE DEF b
      <3> QED
        BY <1>6, <2>1, Entries
    <2>4. On(c, diagram[t].id)
      BY <1>6, <2>2
    <2>5. diagram'[t].id = diagram[t].id /\ diagram'[t].body = c /\ saveTimer'[t]
      BY <1>1, <1>2, <1>6 DEF Typed, TypeOK
    <2>6. \A j \in DOMAIN p : On(p[j], diagram[t].id)
      BY <1>6, <2>2
    <2>7. \A j \in DOMAIN f : On(f[j], diagram[t].id)
      BY <1>6, <2>1, <2>3
    <2>8. {past'[t], future'[t]} = {p, f}
      BY <1>6
    <2> HIDE DEF b, c, p, f
    <2>9. past'[t] \in {p, f} /\ future'[t] \in {p, f}
      BY <2>8
    <2>10. PageOk(t)'
      BY <2>4, <2>5, <2>6, <2>7, <2>9 DEF PageOk, On
    <2>11. TabInv(t)'
      BY <1>1, <1>6, <2>10, Begins
    <2> QED
      BY <1>1, <1>6, <2>5, <2>11, SameStore DEF Keeps, server
  <1>7. /\ past[t] \in Seq(Body) /\ \A j \in DOMAIN past[t] : On(past[t][j], diagram[t].id)
        /\ future[t] \in Seq(Body) /\ \A j \in DOMAIN future[t] : On(future[t][j], diagram[t].id)
    BY <1>1 DEF Typed, TypeOK, PageOk
  <1>8. CASE Undo(t)
    <2> DEFINE h == past[t]
               k == future[t]
    <2>1. /\ h # <<>> /\ diagram' = [diagram EXCEPT ![t].body = h[Len(h)]]
          /\ saveTimer' = [saveTimer EXCEPT ![t] = TRUE]
          /\ past'[t] = SubSeq(h, 1, Len(h) - 1) /\ future'[t] = Append(k, diagram[t].body)
          /\ UNCHANGED <<server, task, sent>>
      BY <1>1, <1>8 DEF Undo, Swap, Typed, TypeOK
    <2>2. Live(t) = {}
      BY <1>4, <1>8 DEF Undo
    <2>3. {past'[t], future'[t]} = {SubSeq(h, 1, Len(h) - 1), Append(k, diagram[t].body)}
      BY <2>1
    <2> HIDE DEF h, k
    <2> QED
      BY <1>6, <1>7, <2>1, <2>2, <2>3 DEF h, k
  <1>9. CASE Redo(t)
    <2> DEFINE k == past[t]
               h == future[t]
    <2>1. /\ h # <<>> /\ diagram' = [diagram EXCEPT ![t].body = h[Len(h)]]
          /\ saveTimer' = [saveTimer EXCEPT ![t] = TRUE]
          /\ future'[t] = SubSeq(h, 1, Len(h) - 1) /\ past'[t] = Append(k, diagram[t].body)
          /\ UNCHANGED <<server, task, sent>>
      BY <1>1, <1>9 DEF Redo, Swap, Typed, TypeOK
    <2>2. Live(t) = {}
      BY <1>4, <1>9 DEF Redo
    <2>3. {past'[t], future'[t]} = {SubSeq(h, 1, Len(h) - 1), Append(k, diagram[t].body)}
      BY <2>1
    <2> HIDE DEF h, k
    <2> QED
      BY <1>6, <1>7, <2>1, <2>2, <2>3 DEF h, k
  <1>10. ASSUME NEW s \in Slot, PlaceRef(t, s)
         PROVE  Keeps(t) /\ diagram'[t].id = diagram[t].id
    <2> DEFINE m == NewMark(t, diagram[t].id)
               b == diagram'[t].body
               none == <<>>
    <2>1. /\ Change(t, m) /\ m \in Mark /\ m[2] = diagram[t].id /\ Live(t) = {}
          /\ UNCHANGED server /\ saveTimer' = [saveTimer EXCEPT ![t] = FALSE]
          /\ sent' = sent \cup b
          /\ Become(t, s, Saving(t, b, none))
      BY <1>2, <1>3, <1>4, <1>10 DEF PlaceRef
    <2> HIDE DEF m
    <2>2. /\ diagram'[t] = [id |-> diagram[t].id, body |-> diagram[t].body \cup {m}]
          /\ On(diagram'[t].body, diagram'[t].id)
          /\ \A k \in DOMAIN past'[t] : On(past'[t][k], diagram'[t].id)
          /\ future'[t] = <<>>
      BY <1>1, <2>1, ChangeLands
    <2>3. b \in Body
      BY <1>2, <2>1, <2>2 DEF Body
    <2>4. diagram'[t].id = diagram[t].id /\ On(b, diagram[t].id)
      BY <2>2
    <2>5. ~saveTimer'[t]
      BY <1>1, <2>1 DEF Typed, TypeOK
    <2>6. PageOk(t)'
      BY <2>1, <2>2, <2>5 DEF PageOk, On
    <2> HIDE DEF b, none
    <2>7. PICK q : q = Saving(t, b, none)
      OBVIOUS
    <2>8. Saving(t, b, none) =
                 [use |-> "save", op |-> "PUT", id |-> diagram[t].id, body |-> b,
                  tag |-> currentEtag[t], after |-> none, answer |-> "none"]
      <3>1. none \in Seq(Id)
        BY DEF none
      <3> QED
        BY <1>1, <2>3, <3>1, SavingTyped
    <2>9. /\ q.use = "save" /\ q.op = "PUT" /\ q.id = diagram[t].id /\ q.body = b
          /\ q.after = none /\ q.answer = "none"
      BY <2>7, <2>8
    <2>10. TaskOk(t, q)'
      BY <2>1, <2>4, <2>5, <2>9 DEF TaskOk, Goes, On, none
    <2>11. TabInv(t)'
      BY <1>1, <2>1, <2>6, <2>7, <2>10, Begins
    <2> QED
      BY <1>1, <2>1, <2>4, <2>11, SameStore DEF Keeps, server
  <1>11. ASSUME NEW s \in Slot, NEW i \in Exists, Open(t, s, i)
         PROVE  Keeps(t) /\ diagram'[t].id = diagram[t].id
    <2>1. Load(t, s, i, <<>>) /\ UNCHANGED <<server, diagram>> /\ Live(t) = {} /\ i \in Id
      BY <1>4, <1>11 DEF Open, Exists
    <2>2. <<>> \in Seq(Id)
      OBVIOUS
    <2>3. /\ \E q : Become(t, s, q) /\ TaskOk(t, q)'
          /\ Onward
          /\ ~saveTimer'[t] /\ (saveTimer[t] => diagram[t].body \subseteq sent')
          /\ past'[t] \in {past[t], <<>>} /\ future'[t] \in {future[t], <<>>}
      BY <1>1, <2>1, <2>2, LoadTask DEF server
    <2>4. PageOk(t)'
      BY <1>1, <2>1, <2>3 DEF PageOk, On, Onward
    <2>5. TabInv(t)'
      BY <1>1, <2>1, <2>3, <2>4, Begins
    <2> QED
      BY <1>1, <2>1, <2>3, <2>5, SameStore DEF Keeps, Onward, server
  <1>12. ASSUME NEW s \in Slot, NEW g, NEW q, Ask(t, s, g, q),
                TaskOk(t, q)
         PROVE  Keeps(t) /\ diagram'[t].id = diagram[t].id
    <2>1. /\ Become(t, s, q) /\ Live(t) = {} /\ UNCHANGED <<server, page, sent>>
      BY <1>4, <1>12 DEF Ask
    <2>2. TaskOk(t, q)' /\ PageOk(t)'
      BY <1>1, <1>12, <2>1 DEF TaskOk, PageOk, page, server, On, Exists
    <2>3. TabInv(t)'
      BY <1>1, <2>1, <2>2, Begins
    <2> QED
      BY <1>1, <2>1, <2>3, SameStore DEF Keeps, page, server
  <1>13. ASSUME NEW q, q.after = <<>>, q.use \notin Goes, q.op \notin {"LIST", "PUT"},
                q.answer = "none", q.use \in {"container", "port"} => On(q.body, q.id),
                q.use = "container" => q.id = diagram[t].id
         PROVE  TaskOk(t, q)
    BY <1>13 DEF TaskOk, Goes
  <1>14. ASSUME NEW s \in Slot, NewDiagram(t, s)
         PROVE  Keeps(t) /\ diagram'[t].id = diagram[t].id
    <2>1. PICK q : q = Request("new", "POST", diagram[t].id)
      OBVIOUS
    <2>2. TaskOk(t, q)
      BY <1>13, <2>1 DEF Request, Goes
    <2> QED
      BY <1>12, <1>14, <2>1, <2>2 DEF NewDiagram
  <1>15. ASSUME NEW s \in Slot, AddContainer(t, s)
         PROVE  Keeps(t) /\ diagram'[t].id = diagram[t].id
    <2> DEFINE i == diagram[t].id
               b == {NewMark(t, diagram[t].id)}
    <2>1. PICK q : q = [Request("container", "POST", i) EXCEPT !.body = b]
      OBVIOUS
    <2>2. On(b, i)
      BY <1>3 DEF On
    <2>3. q = [use |-> "container", op |-> "POST", id |-> i, body |-> b, tag |-> NoTag,
               after |-> <<>>, answer |-> "none"]
      <3> HIDE DEF i, b
      <3> QED
        BY <2>1 DEF Request
    <2>4. TaskOk(t, q)
      <3> HIDE DEF b
      <3> QED
        BY <1>13, <2>2, <2>3 DEF Goes
    <2> QED
      BY <1>12, <1>15, <2>1, <2>4 DEF AddContainer
  <1>16. ASSUME NEW s \in Slot, NEW i \in Exists,
                Rename(t, s, i) \/ Convert(t, s, i) \/ Delete(t, s, i) \/ AddPort(t, s, i)
         PROVE  Keeps(t) /\ diagram'[t].id = diagram[t].id
    <2>1. CASE Rename(t, s, i)
      <3>1. PICK q : q = Request("rename", "PATCH", i)
        OBVIOUS
      <3>2. TaskOk(t, q)
        BY <1>13, <3>1 DEF Request, Goes
      <3> QED
        BY <1>12, <2>1, <3>1, <3>2 DEF Rename
    <2>2. CASE Convert(t, s, i)
      <3>1. PICK q : q = Request("convert", "PATCH", i)
        OBVIOUS
      <3>2. TaskOk(t, q)
        BY <1>13, <3>1 DEF Request, Goes
      <3> QED
        BY <1>12, <2>2, <3>1, <3>2 DEF Convert
    <2>3. CASE Delete(t, s, i)
      <3>1. PICK q : q = Request("delete", "DELETE", i)
        OBVIOUS
      <3>2. TaskOk(t, q)
        BY <1>13, <3>1 DEF Request, Goes
      <3> QED
        BY <1>12, <2>3, <3>1, <3>2 DEF Delete
    <2>4. CASE AddPort(t, s, i)
      <3> DEFINE b == {NewMark(t, i)}
      <3>1. PICK q : q = [Request("port", "GET", i) EXCEPT !.body = b]
        OBVIOUS
      <3>2. On(b, i)
        BY <1>3 DEF On
      <3>3. q = [use |-> "port", op |-> "GET", id |-> i, body |-> b, tag |-> NoTag,
                 after |-> <<>>, answer |-> "none"]
        <4> HIDE DEF b
        <4> QED
          BY <3>1 DEF Request
      <3>4. TaskOk(t, q)
        <4> HIDE DEF b
        <4> QED
          BY <1>13, <3>2, <3>3 DEF Goes
      <3> QED
        BY <1>12, <2>4, <3>1, <3>4 DEF AddPort
    <2> QED
      BY <1>16, <2>1, <2>2, <2>3, <2>4
  <1> QED
    BY <1>5, <1>8, <1>9, <1>10, <1>11, <1>14, <1>15, <1>16 DEF Act

LEMMA TimerKeeps ==
    ASSUME PatientInv, NEW t \in Tab, NEW s \in Slot, TimerFires(t, s)
    PROVE  Keeps(t) /\ diagram'[t].id = diagram[t].id
  <1>1. Typed /\ StoreOk /\ TabInv(t) /\ PageOk(t) /\ Cross(t) /\ Two(t)
    BY DEF PatientInv, TabInv
  <1> DEFINE b == diagram[t].body
             none == <<>>
  <1>2. /\ saveTimer[t] /\ task[t][s] = NoTask
        /\ saveTimer' = [saveTimer EXCEPT ![t] = FALSE]
        /\ sent' = sent \cup b
        /\ Become(t, s, Saving(t, b, none))
        /\ UNCHANGED <<server, diagram, past, future>>
    BY DEF TimerFires, Free
  <1>3. b \in Body /\ none \in Seq(Id) /\ ~saveTimer'[t]
    BY <1>1, <1>2 DEF Typed, TypeOK
  <1>4. On(b, diagram[t].id) /\ b \subseteq sent'
    BY <1>1, <1>2 DEF PageOk
  <1> HIDE DEF none
  <1>5. PICK q : q = Saving(t, b, none)
    OBVIOUS
  <1>6. Saving(t, b, none) =
               [use |-> "save", op |-> "PUT", id |-> diagram[t].id, body |-> b,
                tag |-> currentEtag[t], after |-> none, answer |-> "none"]
    <2> HIDE DEF b
    <2> QED
      BY <1>1, <1>3, SavingTyped
  <1>7. /\ q.use = "save" /\ q.op = "PUT" /\ q.id = diagram[t].id /\ q.body = b
        /\ q.after = none /\ q.answer = "none"
    BY <1>5, <1>6
  <1>8. TaskOk(t, q)'
    BY <1>2, <1>4, <1>7 DEF TaskOk, Goes, On, none
  <1>9. StoreOk' /\ Onward
    BY <1>1, <1>2, SameStore DEF server
  <1>10. /\ task'[t][s] = q
         /\ \A z \in Slot \ {s} : task'[t][z] = task[t][z]
    BY <1>1, <1>2, <1>5, BecomeDoes
  <1>11. \A z \in Live(t)' : z = s \/ (z \in Live(t) /\ z # s)
    BY <1>10 DEF Live
  <1>12. ASSUME NEW z \in Live(t) PROVE /\ z \in Slot /\ z # s
                                        /\ TaskOk(t, task[t][z])'
                                        /\ TaskOk(t, task[t][z])
    <2>1. z \in Slot /\ z # s
      BY <1>2, <1>12 DEF Live
    <2>2. PICK r : r = task[t][z]
      OBVIOUS
    <2>3. r # NoTask /\ TaskOk(t, r)
      BY <1>1, <1>12, <2>2 DEF Live, TabInv
    <2>4. TaskOk(t, r)'
      BY <1>1, <1>2, <1>3, <1>9, <2>1, <2>2, <2>3, Steady
    <2>5. task'[t][z] = r
      BY <1>10, <2>1, <2>2
    <2> QED
      BY <2>1, <2>2, <2>3, <2>4, <2>5
  <1>13. \A x, z \in Live(t) : x = z
    BY <1>1, <1>2 DEF Cross
  <1>14. Two(t)'
    BY <1>11, <1>13 DEF Two
  <1>15. Cross(t)'
    <2> SUFFICES ASSUME NEW x \in Live(t)', NEW z \in Live(t)', x # z
                 PROVE  /\ ~saveTimer'[t]
                        /\ task'[t][x].after = <<>>
                        /\ task'[t][x].use \in Goes \/ task'[t][z].use \in Goes
                        /\ task'[t][x].use \in Goes /\ task'[t][x].id # diagram'[t].id
                              => task'[t][z].use \in Goes
      BY DEF Cross
    <2>1. CASE x = s /\ z \in Live(t) /\ z # s
      BY <1>2, <1>3, <1>7, <1>10, <2>1 DEF Goes, none
    <2>2. CASE z = s /\ x \in Live(t) /\ x # s
      <3>1. task[t][x].after = <<>> /\ task'[t][x] = task[t][x]
        BY <1>2, <1>10, <1>12, <2>2 DEF TaskOk
      <3> QED
        BY <1>3, <1>7, <1>10, <2>2, <3>1 DEF Goes
    <2> QED
      BY <1>11, <1>13, <2>1, <2>2
  <1>16. PageOk(t)'
    BY <1>1, <1>2, <1>4 DEF PageOk, On
  <1>17. \A z \in Live(t)' : TaskOk(t, task[t][z])'
    BY <1>8, <1>10, <1>11, <1>12
  <1> QED
    BY <1>2, <1>9, <1>14, <1>15, <1>16, <1>17 DEF Keeps, TabInv

\* What an effect does to the store.
LEMMA EffectKeeps ==
    ASSUME Typed, StoreOk, NEW t \in Tab, NEW s \in Slot, NEW r, r = task[t][s], r # NoTask,
           TaskOk(t, r), sent' = sent,
           NEW x, NEW i, NEW g, NEW b, Effect(t, r, x, i, g, b)
    PROVE  StoreOk' /\ Onward
  <1>1. /\ r.id \in Id /\ r.body \in Body /\ Proper(r)
    BY Fields
  <1>2. r.op = "PUT" => On(r.body, r.id) /\ r.body \subseteq sent
    BY <1>1 DEF TaskOk, Proper, Kinds
  <1>3. ASSUME NEW j \in Id, NEW body \in Body, Store(t, j, body), On(body, j),
               body \subseteq sent, j \in Exists \cup Unused
        PROVE  StoreOk' /\ Onward
    <2>1. /\ stored'[j] = [body |-> body, tag |-> clock + 1, by |-> t]
          /\ \A k \in Id \ {j} : stored'[k] = stored[k]
      BY <1>3 DEF Store, Typed, TypeOK
    <2>2. Exists' \subseteq Exists \cup {j}
      BY <2>1 DEF Exists
    <2>3. ASSUME NEW k \in Exists' PROVE On(stored'[k].body, k) /\ stored'[k].body \subseteq sent
      <3>1. CASE k = j
        BY <1>3, <2>1, <3>1
      <3>2. CASE k # j
        BY <2>1, <2>3, <3>2 DEF StoreOk, Exists
      <3> QED
        BY <3>1, <3>2
    <2> QED
      BY <1>3, <2>2, <2>3 DEF StoreOk, Onward, On
  <1>4. ASSUME UNCHANGED server PROVE StoreOk' /\ Onward
    BY <1>4, SameStore DEF server
  <1>5. CASE Refused(r, x, i, g, b) \/ Read(r, x, i, g, b) \/ Found(r, x, i, g, b)
    BY <1>4, <1>5 DEF Refused, Read, Found
  <1>6. CASE Put(t, r, x, i, g, b)
    BY <1>1, <1>2, <1>3, <1>6 DEF Put
  <1>7. CASE Patched(t, r, x, i, g, b)
    <2>1. r.id \in Exists
      BY <1>7 DEF Patched
    <2> DEFINE j == r.id
               body == stored[j].body
    <2>2. j \in Id /\ body \in Body /\ On(body, j) /\ body \subseteq sent
      BY <1>1, <2>1, Versions DEF StoreOk
    <2>3. Store(t, j, body) \/ UNCHANGED server
      BY <1>7 DEF Patched
    <2> HIDE DEF j, body
    <2>4. j \in Exists
      BY <2>1 DEF j
    <2> QED
      BY <1>3, <1>4, <2>2, <2>3, <2>4
  <1>8. CASE Removed(r, x, i, g, b)
    <2>1. /\ stored'[r.id] = Gone /\ \A k \in Id \ {r.id} : stored'[k] = stored[k]
      BY <1>1, <1>8 DEF Removed, Typed, TypeOK
    <2>2. Exists' \subseteq Exists
      BY <2>1 DEF Exists
    <2>3. \A k \in Exists' : stored'[k] = stored[k]
      BY <2>1 DEF Exists
    <2> QED
      BY <2>2, <2>3 DEF StoreOk, Onward, On
  <1>9. CASE Posted(t, r, x, i, g, b)
    <2>1. PICK j \in Unused : Store(t, j, {})
      BY <1>9 DEF Posted
    <2>2. j \in Id /\ {} \in Body /\ On({}, j) /\ {} \subseteq sent
      BY DEF Unused, Body, On
    <2> QED
      BY <1>3, <2>1, <2>2
  <1> QED
    BY <1>5, <1>6, <1>7, <1>8, <1>9 DEF Effect

\* The fields of an answer.
LEMMA AnsFields ==
    ASSUME NEW r, NEW x, NEW i, NEW g, NEW b, NEW q, q = Ans(r, x, i, g, b)
    PROVE  /\ q.use = r.use /\ q.op = r.op /\ q.id = i /\ q.body = b /\ q.tag = g
           /\ q.after = r.after /\ q.answer = x
  BY DEF Ans

LEMMA ServeKeeps ==
    ASSUME PatientInv, NEW t \in Tab, NEW s \in Slot, Serve(t, s) \/ Drop(t, s)
    PROVE  Keeps(t) /\ diagram'[t].id = diagram[t].id
  <1>1. Typed /\ StoreOk /\ TabInv(t)
    BY DEF PatientInv
  <1>2. PICK r : r = task[t][s]
    OBVIOUS
  <1>3. /\ r # NoTask /\ r.answer = "none" /\ Outcome(t, s, r)
        /\ UNCHANGED <<page, acts, ghosts>>
    BY <1>1, <1>2, Serving
  <1>4. PICK x, i, g, b : /\ Become(t, s, Ans(r, x, i, g, b)) /\ x # "none"
                          /\ Effect(t, r, x, i, g, b)
    BY <1>3 DEF Outcome
  <1>5. PICK q : q = Ans(r, x, i, g, b)
    OBVIOUS
  <1>6. /\ q.use = r.use /\ q.op = r.op /\ q.id = i /\ q.body = b /\ q.tag = g
        /\ q.after = r.after /\ q.answer = x
    BY <1>5, AnsFields
  <1>7. /\ TaskOk(t, r) /\ Proper(r)
        /\ diagram' = diagram /\ saveTimer' = saveTimer /\ past' = past /\ future' = future
        /\ sent' = sent
    BY <1>1, <1>2, <1>3, Fields DEF TabInv, Live, page, ghosts
  <1>8. StoreOk' /\ Onward
    BY <1>1, <1>2, <1>3, <1>4, <1>7, EffectKeeps
  <1>9. <<r.use, r.op>> \in Kinds
    BY <1>7 DEF Proper
  <1>10. r.use \in {"save", "load", "container", "port"} => i = r.id /\ On(b, i)
    <2>1. ASSUME r.op = "GET", r.id \in Exists, b = r.body \cup stored[r.id].body, On(r.body, r.id)
          PROVE  On(b, r.id)
      BY <1>1, <2>1 DEF StoreOk, On
    <2>2. r.use \in {"save", "load", "container", "port"} => On(r.body, r.id)
      BY <1>7 DEF TaskOk
    <2> QED
      BY <1>4, <1>9, <2>1, <2>2
         DEF Effect, Refused, Read, Put, Patched, Removed, Found, Posted, Kinds
  <1>11. r.use \in Goes \/ r.op = "PUT" => b \subseteq sent
    <2>1. r.id \in Exists => stored[r.id].body \subseteq sent
      BY <1>1 DEF StoreOk
    <2>2. r.use \in Goes \/ r.op = "PUT" => r.body \subseteq sent
      BY <1>7 DEF TaskOk
    <2> QED
      BY <1>4, <2>1, <2>2 DEF Effect, Refused, Read, Put, Patched, Removed, Found, Posted
  <1>12. r.use = "new" /\ x = "ok" => i # diagram[t].id
    BY <1>4, <1>9 DEF Effect, Refused, Read, Put, Patched, Removed, Found, Posted, Kinds, Unused
  <1>13. r.op = "DELETE" /\ x = "ok" => i \notin Exists'
    <2> SUFFICES ASSUME r.op = "DELETE", x = "ok" PROVE i \notin Exists'
      OBVIOUS
    <2>1. Removed(r, x, i, g, b)
      BY <1>4 DEF Effect, Refused, Read, Put, Patched, Removed, Found, Posted
    <2>2. stored'[i] = Gone
      BY <1>1, <1>2, <1>3, <2>1, Fields DEF Removed, Typed, TypeOK
    <2> QED
      BY <2>2 DEF Exists
  <1>14. r.op = "LIST" => /\ x = "ok" => i # diagram[t].id
                          /\ diagram[t].id \notin Exists'
    <2> SUFFICES ASSUME r.op = "LIST"
                 PROVE  (x = "ok" => i # diagram[t].id) /\ diagram[t].id \notin Exists'
      OBVIOUS
    <2>1. diagram[t].id \notin Exists
      BY <1>3, <1>7 DEF TaskOk
    <2>2. diagram[t].id \notin Exists'
      BY <1>8, <2>1 DEF Onward, Unused
    <2>3. x = "ok" => Found(r, x, i, g, b)
      BY <1>4 DEF Effect, Refused, Read, Put, Patched, Removed, Found, Posted
    <2> QED
      BY <2>1, <2>2, <2>3 DEF Found
  <1>15. TaskOk(t, q)'
    BY <1>6, <1>7, <1>10, <1>11, <1>12, <1>13, <1>14 DEF TaskOk, Goes
  <1>16. Follows(t, r, q)
    BY <1>6, <1>10 DEF Follows, Goes
  <1>17. TabInv(t)'
    BY <1>1, <1>2, <1>3, <1>4, <1>5, <1>7, <1>8, <1>15, <1>16, GoesOn
  <1> QED
    BY <1>7, <1>8, <1>17 DEF Keeps

\* The tab shows the diagram that came, and its other function is a save or a load too.
LEMMA LoadedKeeps ==
    ASSUME PatientInv, NEW t \in Tab, NEW s \in Slot, Loaded(t, s)
    PROVE  /\ Keeps(t)
           /\ diagram'[t].id # diagram[t].id => diagram[t].body \subseteq sent
  <1>1. Typed /\ StoreOk /\ TabInv(t) /\ PageOk(t) /\ Cross(t) /\ Two(t)
    BY DEF PatientInv, TabInv
  <1>2. PICK r : r = task[t][s]
    OBVIOUS
  <1>3. /\ r # NoTask /\ r.use = "load" /\ r.answer = "ok"
        /\ diagram' = [diagram EXCEPT ![t] = [id |-> r.id, body |-> r.body]]
        /\ Fetch(t, s, r.after)
        /\ UNCHANGED <<server, saveTimer, ghosts>>
    BY <1>2 DEF Loaded, Answered
  <1>4. TaskOk(t, r) /\ r.after \in Seq(Id)
    BY <1>1, <1>2, <1>3, Fields DEF TabInv, Live
  <1>5. /\ diagram'[t].id = r.id /\ diagram'[t].body = r.body
        /\ On(r.body, r.id) /\ r.body \subseteq sent
        /\ sent' = sent /\ saveTimer' = saveTimer /\ Exists' = Exists
    BY <1>1, <1>3, <1>4 DEF TaskOk, Goes, Typed, TypeOK, ghosts, server, Exists
  <1>6. /\ past'[t] \in {past[t], <<>>} /\ future'[t] \in {future[t], <<>>}
        /\ r.id # diagram[t].id => past'[t] = <<>> /\ future'[t] = <<>>
    <2>1. /\ past'[t] \in {past[t], <<>>} /\ future'[t] \in {future[t], <<>>}
      BY <1>1, <1>3 DEF Fetch, End, Typed, TypeOK
    <2>2. r.id # diagram[t].id => past[t] = <<>> /\ future[t] = <<>>
      BY <1>3, <1>4 DEF TaskOk
    <2> QED
      BY <2>1, <2>2
  <1>7. StoreOk' /\ Onward
    BY <1>1, <1>3, <1>5, SameStore DEF server
  <1>8. PageOk(t)'
    <2>1. ASSUME NEW k \in DOMAIN past'[t] PROVE On(past'[t][k], r.id)
      BY <1>1, <1>6 DEF PageOk
    <2>2. ASSUME NEW k \in DOMAIN future'[t] PROVE On(future'[t][k], r.id)
      BY <1>1, <1>6 DEF PageOk
    <2> QED
      BY <1>5, <2>1, <2>2 DEF PageOk, On
  <1>9. \E q : /\ Become(t, s, q)
               /\ \/ q = NoTask
                  \/ /\ TaskOk(t, q)' /\ q.use = "load" /\ r.after # <<>>
    <2>1. CASE r.after = <<>>
      BY <1>3, <2>1 DEF Fetch, End
    <2>2. CASE r.after # <<>>
      <3>1. ~saveTimer'[t]
        BY <1>4, <1>5, <2>2 DEF TaskOk
      <3> QED
        BY <1>1, <1>3, <1>4, <2>2, <3>1, FetchTask
    <2> QED
      BY <2>1, <2>2
  <1>10. PICK q : /\ Become(t, s, q)
                  /\ \/ q = NoTask
                     \/ /\ TaskOk(t, q)' /\ q.use = "load" /\ r.after # <<>>
    BY <1>9
  <1>11. /\ task'[t][s] = q
         /\ \A z \in Slot \ {s} : task'[t][z] = task[t][z]
    BY <1>1, <1>10, BecomeDoes
  <1>12. \A z \in Live(t)' : (z = s /\ q # NoTask) \/ (z \in Live(t) /\ z # s)
    BY <1>11 DEF Live
  <1>13. s \in Live(t) /\ Live(t)' \subseteq Live(t)
    BY <1>2, <1>3, <1>12 DEF Live
  <1>14. ASSUME NEW z \in Live(t), z # s
         PROVE  /\ ~saveTimer[t] /\ r.after = <<>>
                /\ task[t][z].after = <<>>
                /\ r.id # diagram[t].id => task[t][z].use \in Goes
                /\ task[t][z] # NoTask /\ z \in Slot /\ TaskOk(t, task[t][z])
    BY <1>1, <1>2, <1>3, <1>13, <1>14 DEF Cross, Goes, TabInv, Live
  <1>15. ASSUME NEW z \in Live(t), z # s PROVE TaskOk(t, task[t][z])'
    <2>1. PICK p : p = task[t][z]
      OBVIOUS
    <2>2. /\ p # NoTask /\ z \in Slot /\ TaskOk(t, p) /\ ~saveTimer[t]
          /\ r.id # diagram[t].id => p.use \in Goes
      BY <1>14, <1>15, <2>1
    <2>3. task'[t][z] = p
      BY <1>11, <1>15, <2>1, <2>2
    <2>4. CASE r.id = diagram[t].id
      <3>1. TaskOk(t, p)'
        BY <1>1, <1>5, <1>6, <1>7, <2>1, <2>2, <2>4, Steady
      <3> QED
        BY <2>3, <3>1
    <2>5. CASE r.id # diagram[t].id
      <3>1. Proper(p)
        BY <1>1, <2>1, <2>2, Fields
      <3>2. p.use \in Goes /\ p.op \notin {"LIST", "DELETE"}
        BY <2>2, <2>5, <3>1 DEF Proper, Kinds, Goes
      <3>3. TaskOk(t, p)'
        BY <1>5, <1>6, <2>2, <2>5, <3>2 DEF TaskOk, Goes
      <3> QED
        BY <2>3, <3>3
    <2> QED
      BY <2>4, <2>5
  <1>16. \A z \in Live(t)' : TaskOk(t, task[t][z])'
    BY <1>10, <1>11, <1>12, <1>15
  <1>17. Two(t)'
    BY <1>1, <1>13 DEF Two
  <1>18. Cross(t)'
    <2> SUFFICES ASSUME NEW x \in Live(t)', NEW z \in Live(t)', x # z
                 PROVE  /\ ~saveTimer'[t]
                        /\ task'[t][x].after = <<>>
                        /\ task'[t][x].use \in Goes \/ task'[t][z].use \in Goes
                        /\ task'[t][x].use \in Goes /\ task'[t][x].id # diagram'[t].id
                              => task'[t][z].use \in Goes
      BY DEF Cross
    <2>1. x \in Live(t) /\ z \in Live(t) /\ x \in Slot /\ z \in Slot
      BY <1>13 DEF Live
    <2>2. CASE x = s \/ z = s
      <3>1. q = NoTask
        BY <1>10, <1>14, <2>1, <2>2
      <3> QED
        BY <1>11, <2>1, <2>2, <3>1 DEF Live
    <2>3. CASE x # s /\ z # s
      BY <1>1, <1>13, <2>1, <2>3 DEF Two
    <2> QED
      BY <2>2, <2>3
  <1>19. diagram'[t].id # diagram[t].id => diagram[t].body \subseteq sent
    BY <1>1, <1>3, <1>4, <1>5 DEF TaskOk, PageOk, Goes
  <1> QED
    BY <1>7, <1>8, <1>16, <1>17, <1>18, <1>19 DEF Keeps, TabInv

\* addContainer puts its node on the screen: nothing but saves can be under way.
LEMMA ContainerKeeps ==
    ASSUME PatientInv, NEW t \in Tab, NEW s \in Slot, ContainerMade(t, s)
    PROVE  Keeps(t) /\ diagram'[t].id = diagram[t].id
  <1>1. Typed /\ StoreOk /\ TabInv(t) /\ PageOk(t) /\ Cross(t) /\ Two(t)
    BY DEF PatientInv, TabInv
  <1>2. PICK r : r = task[t][s]
    OBVIOUS
  <1>3. /\ r # NoTask /\ r.use = "container"
        /\ Become(t, s, NoTask) /\ saveTimer' = [saveTimer EXCEPT ![t] = TRUE]
        /\ UNCHANGED <<server, ghosts>>
    BY <1>2 DEF ContainerMade, Answered, End
  <1>4. PICK m \in r.body : Change(t, m)
    BY <1>2 DEF ContainerMade
  <1>5. TaskOk(t, r) /\ r.body \in Body
    BY <1>1, <1>2, <1>3, Fields DEF TabInv, Live
  <1>6. m \in Mark /\ m[2] = diagram[t].id
    BY <1>3, <1>4, <1>5 DEF TaskOk, On, Body
  <1>7. /\ diagram'[t] = [id |-> diagram[t].id, body |-> diagram[t].body \cup {m}]
        /\ On(diagram'[t].body, diagram'[t].id)
        /\ \A k \in DOMAIN past'[t] : On(past'[t][k], diagram'[t].id)
        /\ future'[t] = <<>>
    BY <1>1, <1>4, <1>6, ChangeLands
  <1>8. diagram'[t].id = diagram[t].id /\ saveTimer'[t] /\ sent' = sent /\ Exists' = Exists
    BY <1>1, <1>3, <1>7 DEF Typed, TypeOK, ghosts, server, Exists
  <1>9. PageOk(t)'
    BY <1>7, <1>8 DEF PageOk, On
  <1>10. StoreOk' /\ Onward
    BY <1>1, <1>3, <1>8, SameStore DEF server
  <1>11. /\ task'[t][s] = NoTask
         /\ \A z \in Slot \ {s} : task'[t][z] = task[t][z]
    BY <1>1, <1>3, BecomeDoes
  <1>12. s \in Live(t) /\ \A z \in Live(t)' : z \in Live(t) /\ z # s
    BY <1>2, <1>3, <1>11 DEF Live
  <1>13. \A x, z \in Live(t)' : x = z
    BY <1>1, <1>12 DEF Two
  <1>14. ASSUME NEW z \in Live(t)' PROVE TaskOk(t, task[t][z])'
    <2>1. PICK p : p = task[t][z]
      OBVIOUS
    <2>2. /\ z \in Slot /\ z # s /\ p # NoTask /\ TaskOk(t, p)
      BY <1>1, <1>12, <1>14, <2>1 DEF TabInv, Live
    <2>3. /\ p.after = <<>> /\ p.use \in Goes
          /\ p.use \in Goes /\ p.id # diagram[t].id => r.use \in Goes
      BY <1>1, <1>2, <1>3, <1>12, <1>14, <2>1 DEF Cross, Goes
    <2>4. p.id = diagram[t].id /\ Proper(p)
      BY <1>1, <1>3, <2>1, <2>2, <2>3, Fields DEF Goes
    <2>5. TaskOk(t, p)'
      BY <1>8, <2>2, <2>3, <2>4 DEF TaskOk, Goes, Proper, Kinds
    <2>6. task'[t][z] = p
      BY <1>11, <2>1, <2>2
    <2> QED
      BY <2>5, <2>6
  <1>15. Two(t)' /\ Cross(t)'
    BY <1>13 DEF Two, Cross
  <1> QED
    BY <1>8, <1>9, <1>10, <1>14, <1>15 DEF Keeps, TabInv

LEMMA TakeKeeps ==
    ASSUME PatientInv, NEW t \in Tab, NEW s \in Slot, Take(t, s)
    PROVE  /\ Keeps(t)
           /\ diagram'[t].id # diagram[t].id => diagram[t].body \subseteq sent
  <1>1. Typed /\ StoreOk /\ TabInv(t) /\ PageOk(t)
    BY DEF PatientInv, TabInv
  <1>2. PICK r : r = task[t][s]
    OBVIOUS
  <1>3. r # NoTask
    BY <1>2 DEF Take, Saved, SaveFailed, Reload, KeepEditing, Loaded, Renamed, Deleted, Created,
           ContainerMade, PortFetched, GiveUp, Answered
  <1>4. /\ TaskOk(t, r) /\ Proper(r) /\ r.id \in Id /\ r.after \in Seq(Id)
        /\ diagram[t].id \in Id /\ s \in Live(t)
    BY <1>1, <1>2, <1>3, Fields DEF TabInv, Live, Typed, TypeOK
  \* A function goes on with q on the same page.
  <1>5. ASSUME NEW q, Become(t, s, q), q = NoTask \/ (TaskOk(t, q)' /\ Follows(t, r, q)),
               UNCHANGED <<server, diagram, saveTimer>>, sent \subseteq sent',
               past'[t] \in {past[t], <<>>}, future'[t] \in {future[t], <<>>}
        PROVE  Keeps(t) /\ diagram'[t].id = diagram[t].id
    <2>1. StoreOk' /\ Onward
      BY <1>1, <1>5, SameStore DEF server
    <2>2. diagram'[t] = diagram[t] /\ (saveTimer'[t] => saveTimer[t])
          /\ (saveTimer[t] => saveTimer'[t])
      BY <1>5
    <2>3. TabInv(t)'
      BY <1>1, <1>2, <1>3, <1>5, <2>1, <2>2, GoesOn
    <2> QED
      BY <2>1, <2>2, <2>3 DEF Keeps
  <1>6. ASSUME Fetch(t, s, r.after), UNCHANGED <<server, diagram, saveTimer>>, sent' = sent
        PROVE  Keeps(t) /\ diagram'[t].id = diagram[t].id
    <2>1. CASE r.after = <<>>
      BY <1>5, <1>6, <2>1 DEF Fetch, End
    <2>2. CASE r.after # <<>>
      <3>1. ~saveTimer'[t]
        BY <1>4, <1>6, <2>2 DEF TaskOk
      <3>2. PICK q : /\ Become(t, s, q) /\ TaskOk(t, q)' /\ q.use = "load"
                     /\ past'[t] = <<>> /\ future'[t] = <<>>
        BY <1>1, <1>4, <1>6, <2>2, <3>1, FetchTask
      <3>3. Follows(t, r, q)
        BY <2>2, <3>2 DEF Follows, Goes
      <3> QED
        BY <1>5, <1>6, <3>2, <3>3
    <2> QED
      BY <2>1, <2>2
  <1>7. ASSUME NEW i \in Id, NEW rest \in Seq(Id), Load(t, s, i, rest),
               UNCHANGED <<server, diagram>>,
               rest = <<>> \/ rest = r.after, r.use \in Goes => i = diagram[t].id
        PROVE  Keeps(t) /\ diagram'[t].id = diagram[t].id
    <2>1. /\ \E q : /\ Become(t, s, q) /\ TaskOk(t, q)' /\ q.use \in Goes
                    /\ q.after # <<>> => saveTimer[t] \/ q.after = rest
                    /\ q.id = diagram[t].id \/ q.id = i
          /\ Onward
          /\ ~saveTimer'[t] /\ (saveTimer[t] => diagram[t].body \subseteq sent')
          /\ past'[t] \in {past[t], <<>>} /\ future'[t] \in {future[t], <<>>}
      BY <1>1, <1>7, LoadTask DEF server
    <2>2. PICK q : /\ Become(t, s, q) /\ TaskOk(t, q)' /\ q.use \in Goes
                   /\ q.after # <<>> => saveTimer[t] \/ q.after = rest
                   /\ q.id = diagram[t].id \/ q.id = i
      BY <2>1
    <2>3. Follows(t, r, q)
      BY <1>7, <2>2 DEF Follows
    <2>4. diagram'[t] = diagram[t]
      BY <1>7
    <2>5. TabInv(t)'
      BY <1>1, <1>2, <1>3, <2>1, <2>2, <2>3, <2>4, GoesOn
    <2>6. StoreOk'
      BY <1>1, <1>7, <2>1, SameStore DEF server, Onward
    <2> QED
      BY <2>1, <2>4, <2>5, <2>6 DEF Keeps
  <1>8. CASE Saved(t, s)
    BY <1>2, <1>6, <1>8 DEF Saved, ghosts
  <1>9. CASE SaveFailed(t, s)
    BY <1>2, <1>6, <1>9 DEF SaveFailed, ghosts
  <1>10. CASE Reload(t, s)
    BY <1>2, <1>4, <1>7, <1>10 DEF Reload
  <1>11. CASE KeepEditing(t, s)
    BY <1>2, <1>6, <1>11 DEF KeepEditing
  <1>12. CASE Loaded(t, s)
    BY <1>12, LoadedKeeps
  <1>13. CASE Renamed(t, s)
    BY <1>2, <1>5, <1>13 DEF Renamed, End, ghosts
  <1>14. CASE Deleted(t, s)
    <2>1. /\ r.use = "delete" /\ r.answer \in {"ok", "notFound"}
          /\ UNCHANGED <<server>>
      BY <1>2, <1>14 DEF Deleted, Answered
    <2>2. r.op = "DELETE" => r.answer = "ok"
      BY <1>4, <2>1 DEF Proper
    <2>3. CASE End(t, s) /\ UNCHANGED <<page, sent>>
      BY <1>5, <2>1, <2>3 DEF End, page
    <2>4. CASE /\ r.op = "DELETE" /\ diagram[t].id = r.id
               /\ Become(t, s, Request("delete", "LIST", r.id))
               /\ UNCHANGED <<page, sent>>
      <3>1. PICK q : q = Request("delete", "LIST", r.id)
        OBVIOUS
      <3>2. /\ q.use = "delete" /\ q.op = "LIST" /\ q.answer = "none" /\ q.after = <<>>
        BY <3>1 DEF Request
      <3>3. diagram[t].id \notin Exists
        BY <1>4, <2>2, <2>4 DEF TaskOk
      <3>4. diagram'[t].id \notin Exists'
        BY <2>1, <2>4, <3>3 DEF server, page, Exists
      <3>5. TaskOk(t, q)'
        BY <3>2, <3>4 DEF TaskOk, Goes
      <3>6. Follows(t, r, q)
        BY <2>1, <3>2 DEF Follows, Goes
      <3> QED
        BY <1>5, <2>1, <2>4, <3>1, <3>5, <3>6 DEF page
    <2>5. CASE /\ r.op = "LIST" /\ r.answer = "notFound"
               /\ Become(t, s, Request("new", "POST", r.id))
               /\ UNCHANGED <<page, sent>>
      <3>1. PICK q : q = Request("new", "POST", r.id)
        OBVIOUS
      <3>2. /\ q.use = "new" /\ q.op = "POST" /\ q.answer = "none" /\ q.after = <<>>
        BY <3>1 DEF Request
      <3>3. TaskOk(t, q)'
        BY <3>2 DEF TaskOk, Goes
      <3>4. Follows(t, r, q)
        BY <2>1, <3>2 DEF Follows, Goes
      <3> QED
        BY <1>5, <2>1, <2>5, <3>1, <3>3, <3>4 DEF page
    <2>6. CASE /\ r.op = "LIST" /\ r.answer = "ok"
               /\ Load(t, s, r.id, <<>>)
               /\ UNCHANGED <<diagram, currentEtag>>
      <3>1. <<>> \in Seq(Id) /\ r.use \notin Goes
        BY <2>1 DEF Goes
      <3> QED
        BY <1>4, <1>7, <2>1, <2>6, <3>1
    <2> QED
      BY <1>2, <1>14, <2>3, <2>4, <2>5, <2>6 DEF Deleted
  <1>15. CASE Created(t, s)
    <2>1. r.use = "new" /\ Load(t, s, r.id, <<>>) /\ UNCHANGED <<server, diagram>>
      BY <1>2, <1>15 DEF Created, Answered
    <2>2. <<>> \in Seq(Id) /\ r.use \notin Goes
      BY <2>1 DEF Goes
    <2> QED
      BY <1>4, <1>7, <2>1, <2>2
  <1>16. CASE ContainerMade(t, s)
    BY <1>16, ContainerKeeps
  <1>17. CASE PortFetched(t, s)
    <2>1. /\ r.use = "port" /\ r.op = "GET" /\ sent' = sent \cup r.body
          /\ Become(t, s, [Request("port", "PUT", r.id) EXCEPT !.body = r.body])
          /\ UNCHANGED <<server, page>>
      BY <1>2, <1>17 DEF PortFetched, Answered
    <2> DEFINE i == r.id
               b == r.body
    <2>2. PICK q : q = [Request("port", "PUT", i) EXCEPT !.body = b]
      OBVIOUS
    <2>3. q = [use |-> "port", op |-> "PUT", id |-> i, body |-> b, tag |-> NoTag,
               after |-> <<>>, answer |-> "none"]
      <3> HIDE DEF i, b
      <3> QED
        BY <2>2 DEF Request
    <2>4. /\ q.use = "port" /\ q.op = "PUT" /\ q.id = r.id /\ q.body = r.body /\ q.after = <<>>
          /\ q.answer = "none"
      BY <2>3
    <2>5. On(r.body, r.id)
      BY <1>4, <2>1 DEF TaskOk
    <2>6. TaskOk(t, q)'
      BY <2>1, <2>4, <2>5 DEF TaskOk, Goes
    <2>7. Follows(t, r, q)
      BY <2>1, <2>4 DEF Follows, Goes
    <2> QED
      BY <1>5, <2>1, <2>2, <2>6, <2>7 DEF page
  <1>18. CASE GiveUp(t, s)
    BY <1>5, <1>18 DEF GiveUp, End, page, ghosts
  <1> QED
    BY <1>8, <1>9, <1>10, <1>11, <1>12, <1>13, <1>14, <1>15, <1>16, <1>17, <1>18 DEF Take

LEMMA InitPatient == Init => PatientInv
  <1> SUFFICES ASSUME Init PROVE PatientInv
    OBVIOUS
  <1>1. Typed
    BY InitTyped
  <1>2. StoreOk
    <2>1. ASSUME NEW i \in Exists PROVE stored[i].body = {}
      BY <2>1 DEF Init, Exists
    <2> QED
      BY <2>1 DEF StoreOk, On
  <1>3. ASSUME NEW t \in Tab PROVE TabInv(t)
    <2>1. Live(t) = {}
      BY DEF Init, Live
    <2>2. diagram[t].body = {} /\ past[t] = <<>> /\ future[t] = <<>>
      BY <1>3 DEF Init
    <2> QED
      BY <2>1, <2>2 DEF TabInv, Cross, Two, PageOk, On
  <1> QED
    BY <1>1, <1>2, <1>3 DEF PatientInv

\* A step of one tab, or of the service for it.
StepOf(t) ==
    \/ Act(t)
    \/ \E s \in Slot : TimerFires(t, s) \/ Serve(t, s) \/ Drop(t, s) \/ Take(t, s)

LEMMA StepKeeps ==
    ASSUME PatientInv, Patient, NEW t \in Tab, StepOf(t)
    PROVE  /\ PatientInv' /\ Onward /\ Local(t)
           /\ diagram'[t].id # diagram[t].id => diagram[t].body \subseteq sent
  <1>1. Typed /\ Typed'
    BY ActTyped, TimerTyped, ServeTyped, TakeTyped DEF PatientInv, StepOf
  <1>2. /\ Keeps(t)
        /\ diagram'[t].id # diagram[t].id => diagram[t].body \subseteq sent
    BY ActKeeps, TimerKeeps, ServeKeeps, TakeKeeps DEF StepOf
  <1>3. Local(t)
    BY <1>1, ActLocal, TimerLocal, ServeLocal, TakeLocal DEF StepOf
  <1>4. ASSUME NEW u \in Tab PROVE TabInv(u)'
    <2>1. CASE u = t
      BY <1>2, <2>1 DEF Keeps
    <2>2. CASE u # t
      BY <1>1, <1>2, <1>3, <2>2, Bystander DEF Keeps, Local, PatientInv
    <2> QED
      BY <2>1, <2>2
  <1> QED
    BY <1>1, <1>2, <1>3, <1>4 DEF PatientInv, Keeps

LEMMA StutterKeeps ==
    ASSUME PatientInv, UNCHANGED vars
    PROVE  PatientInv'
  <1>1. Typed'
    BY Untouched, Parts DEF PatientInv, vars, server, ghosts, bounds
  <1>2. StoreOk' /\ Onward
    BY SameStore DEF PatientInv, vars
  <1>3. ASSUME NEW t \in Tab PROVE TabInv(t)'
    BY <1>2, Bystander DEF PatientInv, vars
  <1> QED
    BY <1>1, <1>2, <1>3 DEF PatientInv

\* The inductive invariant of tabs whose users wait for running requests.
THEOREM PatientTabs ==
    ASSUME Patient
    PROVE  Spec => []PatientInv
  <1>1. PatientInv /\ [Next]_vars => PatientInv'
    BY StepKeeps, StutterKeeps DEF Next, StepOf
  <1> QED
    BY InitPatient, <1>1, PTL DEF Spec

\* A patient user's edit only ever lands in the diagram he made it in, on the screen, in
\* the undo history and in the store, for any number of tabs, diagrams and requests.
THEOREM EditsStay ==
    ASSUME Patient
    PROVE  Spec => []EditsStayInTheirDiagram
  <1>1. PatientInv => EditsStayInTheirDiagram
    BY DEF PatientInv, StoreOk, TabInv, PageOk, On, EditsStayInTheirDiagram
  <1> QED
    BY <1>1, PatientTabs, PTL

\* A patient user's edits are on the wire before another diagram comes to the screen
\* (flushSave, app.js:704).
THEOREM FlushedBeforeLeaving ==
    ASSUME Patient
    PROVE  Spec => SentBeforeLeaving
  <1> DEFINE Leaves == \A t \in Tab : diagram'[t].id # diagram[t].id
                                        => diagram[t].body \subseteq sent
  <1>1. PatientInv /\ [Next]_vars => [Leaves]_vars
    <2> SUFFICES ASSUME PatientInv, Next PROVE Leaves
      OBVIOUS
    <2>1. PICK t \in Tab : StepOf(t)
      BY DEF Next, StepOf
    <2> QED
      BY <2>1, StepKeeps DEF Local
  <1>2. Spec => [][Leaves]_vars
    BY <1>1, PatientTabs, PTL DEF Spec
  <1> QED
    BY <1>2 DEF SentBeforeLeaving

-----------------------------------------------------------------------------
(* What a tag stands for                                                   *)
(*                                                                         *)
(* A tag that is not of the stored version is never of it again: Forward.  *)
(* So a save under such a tag is doomed, and while one is, or a reload is   *)
(* under way, what is on the screen may fall behind the tag the tab holds. *)

\* g is the tag of the stored version of i.
Current(i, g) == stored[i] # Gone /\ stored[i].tag = g

\* A save of i under g will be refused.
Doomed(i, g) == g # NoTag /\ ~Current(i, g)

\* If g is current, what is stored is in b, but for what the user of t took back.
Covers(t, i, g, b) == Current(i, g) => stored[i].body \subseteq b \cup undone[t]

\* Something that will put an edit on the screen, or send one, under the tag held now.
Source(t) == saveTimer[t] \/ \E s \in Live(t) : task[t][s].use = "container"

\* No tag is newer than the clock.
Clocked ==
    /\ \A i \in Exists : stored[i].tag <= clock
    /\ \A t \in Tab : currentEtag[t] <= clock
    /\ \A t \in Tab : \A s \in Live(t) : task[t][s].tag <= clock

SeenPage(t) ==
    /\ Covers(t, diagram[t].id, currentEtag[t], diagram[t].body)
    /\ currentEtag[t] = NoTag => diagram[t].id \in waived[t]

SeenTask(t, r) ==
    /\ r.use = "load" /\ r.answer = "ok" => Covers(t, r.id, r.tag, r.body)
    /\ r.use = "save" /\ r.answer = "ok" /\ r.id = diagram[t].id
          => Covers(t, r.id, r.tag, diagram[t].body)
    /\ r.use = "save" /\ r.answer = "none" =>
          /\ Covers(t, r.id, r.tag, r.body)
          /\ r.tag = NoTag => r.id \in waived[t]
          /\ r.id = diagram[t].id =>
                Doomed(r.id, r.tag) \/ r.body \subseteq diagram[t].body \cup undone[t]
          /\ Source(t) => r.tag = currentEtag[t]
    /\ r.use = "load" /\ Source(t) => Doomed(diagram[t].id, currentEtag[t])
    /\ r.use = "save" /\ r.answer = "conflict" /\ Source(t)
          => Doomed(diagram[t].id, currentEtag[t])

SeenPair(t, a, b) ==
    /\ a.use = "load" /\ b.use = "save" /\ b.answer = "none" /\ a.id = b.id
          => Doomed(b.id, b.tag)
    /\ a.use = "load" /\ a.answer = "ok" /\ b.use = "save" /\ b.answer = "ok" /\ a.id = b.id
          => (Current(b.id, b.tag) => Current(b.id, a.tag))
    /\ a.use = "save" /\ b.use = "save" => a.id = diagram[t].id
    /\ a.use = "save" /\ b.use = "save" /\ a.answer = "conflict" /\ b.answer = "none"
          => Doomed(b.id, b.tag)
    /\ a.use = "save" /\ b.use = "save" /\ a.answer = "none" /\ b.answer = "none"
          => a.tag = b.tag

SeenInv(t) ==
    /\ SeenPage(t)
    /\ \A s \in Live(t) : SeenTask(t, task[t][s])
    /\ \A s, z \in Live(t) : s # z => SeenPair(t, task[t][s], task[t][z])

TagInv == PatientInv /\ Clocked /\ \A t \in Tab : SeenInv(t)

\* What every step leaves of the tags handed out so far.
Forward ==
    /\ clock <= clock'
    /\ \A i \in Id, g \in Tag :
          g <= clock /\ Current(i, g)' => Current(i, g) /\ stored'[i] = stored[i]

\* ... so what is doomed stays doomed, and what is covered stays covered.
LEMMA DoomStays ==
    ASSUME Typed, Forward, NEW i \in Id, NEW g \in Tag, g <= clock, Doomed(i, g)
    PROVE  Doomed(i, g)'
  BY DEF Doomed, Forward

LEMMA CoverStays ==
    ASSUME Typed, Forward, NEW i \in Id, NEW g \in Tag, g <= clock,
           NEW t \in Tab, NEW b, NEW c,
           Covers(t, i, g, b), b \cup undone[t] \subseteq c \cup undone'[t]
    PROVE  Covers(t, i, g, c)'
  BY DEF Covers, Forward

\* The store as it was.
LEMMA SameClock ==
    ASSUME Typed, UNCHANGED server
    PROVE  Forward /\ Exists' = Exists /\ clock \in Nat
  BY DEF Forward, server, Current, Exists, Typed, TypeOK

\* A tab's tasks are not under newer tags than the clock shows.
LEMMA TagsClocked ==
    ASSUME TagInv, NEW t \in Tab
    PROVE  /\ currentEtag[t] \in Tag /\ currentEtag[t] <= clock
           /\ diagram[t].id \in Id /\ diagram[t].body \in Body
           /\ \A s \in Slot : task[t][s] # NoTask =>
                 /\ task[t][s].tag \in Tag /\ task[t][s].tag <= clock
                 /\ task[t][s].id \in Id /\ task[t][s].body \in Body
                 /\ Proper(task[t][s])
  <1>1. Typed
    BY DEF TagInv, PatientInv
  <1> QED
    BY <1>1, Fields DEF TagInv, Clocked, Live, Typed, TypeOK

\* A task that a step does not touch.
LEMMA SeenSteady ==
    ASSUME TagInv, NEW t \in Tab, NEW s \in Slot, task[t][s] # NoTask, NEW r, r = task[t][s],
           SeenTask(t, r), Forward,
           diagram'[t].id = diagram[t].id, diagram[t].body \subseteq diagram'[t].body,
           undone'[t] = undone[t], waived[t] \subseteq waived'[t],
           \/ ~Source(t)'
           \/ currentEtag'[t] = currentEtag[t] /\ (Source(t)' => Source(t))
    PROVE  SeenTask(t, r)'
  <1>0. Typed
    BY DEF TagInv, PatientInv
  <1>1. /\ r.tag \in Tag /\ r.tag <= clock /\ r.id \in Id
        /\ currentEtag[t] \in Tag /\ currentEtag[t] <= clock /\ diagram[t].id \in Id
    BY TagsClocked
  <1>2. PICK i, g, d, d2 : /\ i = diagram[t].id /\ g = currentEtag[t]
                           /\ d = diagram[t].body /\ d2 = diagram'[t].body
    OBVIOUS
  <1>3. Doomed(r.id, r.tag) => Doomed(r.id, r.tag)'
    BY <1>0, <1>1, DoomStays
  <1>4. Doomed(i, g) => Doomed(i, g)'
    BY <1>0, <1>1, <1>2, DoomStays
  <1>5. ASSUME NEW b, NEW c, Covers(t, r.id, r.tag, b), b \subseteq c
        PROVE  Covers(t, r.id, r.tag, c)'
    <2>1. b \cup undone[t] \subseteq c \cup undone'[t]
      BY <1>5
    <2> QED
      BY <1>0, <1>1, <1>5, <2>1, CoverStays
  <1>6. /\ Covers(t, r.id, r.tag, r.body) => Covers(t, r.id, r.tag, r.body)'
        /\ Covers(t, r.id, r.tag, d) => Covers(t, r.id, r.tag, d2)'
    BY <1>2, <1>5
  <1>7. /\ diagram'[t].id = i /\ diagram'[t].body = d2
        /\ Source(t)' => currentEtag'[t] = g /\ Source(t)
    BY <1>2
  <1>8. r.use = "load" /\ r.answer = "ok" => Covers(t, r.id, r.tag, r.body)'
    BY <1>6 DEF SeenTask
  <1>9. r.use = "save" /\ r.answer = "ok" /\ r.id = i => Covers(t, r.id, r.tag, d2)'
    BY <1>2, <1>6 DEF SeenTask
  <1>10. r.use = "save" /\ r.answer = "none" =>
            /\ Covers(t, r.id, r.tag, r.body)'
            /\ r.tag = NoTag => r.id \in waived'[t]
            /\ r.id = i => Doomed(r.id, r.tag)' \/ r.body \subseteq d2 \cup undone'[t]
            /\ Source(t)' => r.tag = currentEtag'[t]
    BY <1>2, <1>3, <1>6 DEF SeenTask
  <1>11. /\ r.use = "load" /\ Source(t)' => Doomed(i, g)'
         /\ r.use = "save" /\ r.answer = "conflict" /\ Source(t)' => Doomed(i, g)'
    BY <1>2, <1>4, <1>7 DEF SeenTask
  <1> QED
    BY <1>7, <1>8, <1>9, <1>10, <1>11 DEF SeenTask

\* Two tasks that a step does not touch.
LEMMA PairSteady ==
    ASSUME TagInv, NEW t \in Tab, NEW s \in Slot, NEW z \in Slot, NEW a, NEW b,
           a = task[t][s], b = task[t][z], a # NoTask, b # NoTask,
           SeenPair(t, a, b), Forward, diagram'[t].id = diagram[t].id
    PROVE  SeenPair(t, a, b)'
  <1>0. Typed
    BY DEF TagInv, PatientInv
  <1>1. /\ a.tag \in Tag /\ a.tag <= clock /\ a.id \in Id
        /\ b.tag \in Tag /\ b.tag <= clock /\ b.id \in Id
    BY TagsClocked
  <1>2. Doomed(b.id, b.tag) => Doomed(b.id, b.tag)'
    BY <1>0, <1>1, DoomStays
  <1>3. (Current(b.id, b.tag) => Current(b.id, a.tag))
           => (Current(b.id, b.tag)' => Current(b.id, a.tag)')
    <2>1. Current(b.id, b.tag)' => Current(b.id, b.tag) /\ stored'[b.id] = stored[b.id]
      BY <1>1 DEF Forward
    <2> QED
      BY <2>1 DEF Current
  <1> QED
    BY <1>2, <1>3 DEF SeenPair

\* What the page shows stays what its tag stands for.
LEMMA PageStays ==
    ASSUME TagInv, NEW t \in Tab, Forward,
           diagram'[t].id = diagram[t].id, currentEtag'[t] = currentEtag[t],
           diagram[t].body \cup undone[t] \subseteq diagram'[t].body \cup undone'[t],
           waived[t] \subseteq waived'[t]
    PROVE  SeenPage(t)'
  <1>1. PICK i, g, d, d2 : /\ i = diagram[t].id /\ g = currentEtag[t]
                           /\ d = diagram[t].body /\ d2 = diagram'[t].body
    OBVIOUS
  <1>2. Typed /\ SeenPage(t)
    BY DEF TagInv, PatientInv, SeenInv
  <1>3. g \in Tag /\ g <= clock /\ i \in Id
    BY <1>1, TagsClocked
  <1>4. Covers(t, i, g, d)
    BY <1>1, <1>2 DEF SeenPage
  <1>5. Covers(t, i, g, d2)'
    BY <1>1, <1>2, <1>3, <1>4, CoverStays
  <1>6. g = NoTag => i \in waived'[t]
    BY <1>1, <1>2 DEF SeenPage
  <1>7. diagram'[t].id = i /\ currentEtag'[t] = g /\ diagram'[t].body = d2
    BY <1>1
  <1> QED
    BY <1>5, <1>6, <1>7 DEF SeenPage

\* A tab that a step does not touch.
LEMMA SeenBystander ==
    ASSUME TagInv, NEW t \in Tab, Forward,
           task'[t] = task[t], diagram'[t] = diagram[t], currentEtag'[t] = currentEtag[t],
           saveTimer'[t] = saveTimer[t], undone'[t] = undone[t], waived'[t] = waived[t]
    PROVE  SeenInv(t)'
  <1>1. Live(t)' = Live(t)
    BY DEF Live
  <1>2. Source(t)' => Source(t)
    BY <1>1 DEF Source
  <1>3. SeenPage(t)'
    BY PageStays
  <1>4. ASSUME NEW s \in Live(t) PROVE SeenTask(t, task[t][s])'
    <2>1. PICK r : r = task[t][s]
      OBVIOUS
    <2>2. s \in Slot /\ r # NoTask /\ SeenTask(t, r)
      BY <1>4, <2>1 DEF Live, TagInv, SeenInv
    <2>3. SeenTask(t, r)'
      BY <1>2, <2>1, <2>2, SeenSteady
    <2> QED
      BY <2>1, <2>3
  <1>5. ASSUME NEW s \in Live(t), NEW z \in Live(t), s # z
        PROVE  SeenPair(t, task[t][s], task[t][z])'
    <2>1. PICK a, b : a = task[t][s] /\ b = task[t][z]
      OBVIOUS
    <2>2. s \in Slot /\ z \in Slot /\ a # NoTask /\ b # NoTask /\ SeenPair(t, a, b)
      BY <1>5, <2>1 DEF Live, TagInv, SeenInv
    <2>3. SeenPair(t, a, b)'
      BY <2>1, <2>2, PairSteady
    <2> QED
      BY <2>1, <2>3
  <1> QED
    BY <1>1, <1>3, <1>4, <1>5 DEF SeenInv

\* A function of the tab goes on as q, or ends.
LEMMA SeenGoesOn ==
    ASSUME TagInv, NEW t \in Tab, NEW s \in Slot, NEW q, Become(t, s, q), Two(t)',
           q # NoTask \/ s \in Live(t),
           SeenPage(t)',
           \A z \in Live(t) \ {s} : \A p : p = task[t][z] =>
               /\ SeenTask(t, p)'
               /\ q # NoTask => SeenPair(t, q, p)' /\ SeenPair(t, p, q)',
           q # NoTask => SeenTask(t, q)'
    PROVE  SeenInv(t)'
  <1>1. /\ task'[t][s] = q
        /\ \A z \in Slot \ {s} : task'[t][z] = task[t][z]
    BY BecomeDoes DEF TagInv, PatientInv
  <1>2. \A z \in Live(t)' : (z = s /\ q # NoTask) \/ (z \in Live(t) /\ z # s)
    BY <1>1 DEF Live
  <1>3. \A x, z \in Live(t)' : x = z \/ x = s \/ z = s
    <2>1. CASE q # NoTask
      <3>1. s \in Live(t)'
        BY <1>1, <2>1 DEF Live
      <3> QED
        BY <3>1 DEF Two
    <2>2. CASE q = NoTask
      <3>1. s \in Live(t) /\ Live(t)' \subseteq Live(t) \ {s}
        BY <1>2, <2>2
      <3> QED
        BY <3>1 DEF TagInv, PatientInv, TabInv, Two
    <2> QED
      BY <2>1, <2>2
  <1>4. ASSUME NEW z \in Live(t), z # s, NEW p, p = task[t][z]
        PROVE  /\ task'[t][z] = p
               /\ SeenTask(t, p)'
               /\ q # NoTask => SeenPair(t, q, p)' /\ SeenPair(t, p, q)'
    BY <1>1, <1>4 DEF Live
  <1>5. ASSUME NEW z \in Live(t)' PROVE SeenTask(t, task[t][z])'
    <2>1. CASE z = s /\ q # NoTask
      BY <1>1, <2>1
    <2>2. CASE z \in Live(t) /\ z # s
      <3>1. PICK p : p = task[t][z]
        OBVIOUS
      <3> QED
        BY <1>4, <2>2, <3>1
    <2> QED
      BY <1>2, <2>1, <2>2
  <1>6. ASSUME NEW x \in Live(t)', NEW z \in Live(t)', x # z
        PROVE  SeenPair(t, task[t][x], task[t][z])'
    <2>1. CASE x = s
      <3>1. z \in Live(t) /\ z # s /\ q # NoTask /\ task'[t][x] = q
        BY <1>1, <1>2, <1>6, <2>1
      <3>2. PICK p : p = task[t][z]
        OBVIOUS
      <3> QED
        BY <1>4, <3>1, <3>2
    <2>2. CASE z = s
      <3>1. x \in Live(t) /\ x # s /\ q # NoTask /\ task'[t][z] = q
        BY <1>1, <1>2, <1>6, <2>2
      <3>2. PICK p : p = task[t][x]
        OBVIOUS
      <3> QED
        BY <1>4, <3>1, <3>2
    <2> QED
      BY <1>3, <1>6, <2>1, <2>2
  <1> QED
    BY <1>5, <1>6 DEF SeenInv

\* The clock after a step of one tab.
LEMMA ClockGoesOn ==
    ASSUME TagInv, Typed', NEW t \in Tab, Local(t), clock <= clock',
           \/ task' = task
           \/ \E s \in Slot : \E q : Become(t, s, q) /\ (q # NoTask => q.tag <= clock'),
           currentEtag'[t] <= clock',
           \A i \in Exists' : stored'[i].tag <= clock'
    PROVE  Clocked'
  <1>1. Typed /\ clock \in Nat /\ clock' \in Nat
    BY DEF TagInv, PatientInv, Typed, TypeOK
  <1>2. ASSUME NEW u \in Tab PROVE currentEtag'[u] <= clock'
    <2>1. CASE u = t
      BY <2>1
    <2>2. CASE u # t
      <3>1. currentEtag'[u] = currentEtag[u]
        BY <2>2 DEF Local
      <3>2. currentEtag[u] \in Int /\ currentEtag[u] <= clock
        BY TagsClocked DEF Tag, NoTag
      <3> QED
        BY <1>1, <3>1, <3>2
    <2> QED
      BY <2>1, <2>2
  <1>3. ASSUME NEW u \in Tab, NEW z \in Live(u)' PROVE task'[u][z].tag <= clock'
    <2>1. ASSUME task[u][z] = task'[u][z] PROVE task'[u][z].tag <= clock'
      <3>1. PICK p : p = task[u][z]
        OBVIOUS
      <3>2. z \in Slot /\ p # NoTask
        BY <1>3, <2>1, <3>1 DEF Live
      <3>3. p.tag \in Int /\ p.tag <= clock
        BY <3>1, <3>2, TagsClocked DEF Tag, NoTag
      <3>4. p.tag <= clock'
        BY <1>1, <3>3
      <3> QED
        BY <2>1, <3>1, <3>4
    <2>2. CASE u # t \/ task' = task
      BY <2>1, <2>2 DEF Local
    <2>3. ASSUME u = t, NEW s \in Slot, NEW q, Become(t, s, q), q # NoTask => q.tag <= clock'
          PROVE  task'[u][z].tag <= clock'
      <3>1. /\ task'[t][s] = q
            /\ \A y \in Slot \ {s} : task'[t][y] = task[t][y]
        BY <1>1, <2>3, BecomeDoes
      <3> QED
        BY <1>3, <2>1, <2>3, <3>1 DEF Live
    <2> QED
      BY <2>2, <2>3
  <1> QED
    BY <1>2, <1>3 DEF Clocked

\* Two of a tab's saves and loads at once are alone: nothing new is on its way then.
LEMMA TwoGoers ==
    ASSUME PatientInv, NEW t \in Tab, NEW s \in Live(t), NEW z \in Live(t), s # z,
           task[t][s].use \in Goes, task[t][z].use \in Goes
    PROVE  ~Source(t)
  BY DEF PatientInv, TabInv, Cross, Two, Source, Goes

\* While something is, a save or a load is about the diagram shown.
LEMMA SourceHere ==
    ASSUME PatientInv, NEW t \in Tab, NEW s \in Live(t), task[t][s].use \in Goes, Source(t)
    PROVE  task[t][s].id = diagram[t].id
  <1>1. PICK r : r = task[t][s]
    OBVIOUS
  <1>2. TaskOk(t, r) /\ Cross(t)
    BY <1>1 DEF PatientInv, TabInv
  <1>3. CASE saveTimer[t]
    BY <1>1, <1>2, <1>3 DEF TaskOk
  <1>4. ASSUME NEW z \in Live(t), task[t][z].use = "container" PROVE r.id = diagram[t].id
    BY <1>1, <1>2, <1>4 DEF Cross, Goes
  <1> QED
    BY <1>1, <1>3, <1>4 DEF Source

\* A task that is neither a save nor a load.
LEMMA SeenOther ==
    ASSUME NEW t \in Tab, NEW r, r.use \notin Goes
    PROVE  SeenTask(t, r)' /\ \A p : SeenPair(t, r, p)' /\ SeenPair(t, p, r)'
  BY DEF SeenTask, SeenPair, Goes

\* A new save of what is shown under the tag held.
LEMMA SeenSaving ==
    ASSUME NEW t \in Tab, NEW q, q.use = "save", q.answer = "none",
           q.id = diagram'[t].id, q.body = diagram'[t].body, q.tag = currentEtag'[t],
           SeenPage(t)'
    PROVE  SeenTask(t, q)'
  BY DEF SeenTask, SeenPage, Covers, Current

\* What loadDiagram leaves before its first answer: the save it flushes or the load.
LEMMA LoadDoes ==
    ASSUME Typed, NEW t \in Tab, NEW s \in Slot, NEW i \in Id, NEW rest \in Seq(Id),
           Load(t, s, i, rest), diagram'[t] = diagram[t], currentEtag'[t] = currentEtag[t]
    PROVE  /\ ~saveTimer'[t]
           /\ \E q : /\ Become(t, s, q) /\ q # NoTask
                     /\ q.answer = "none" /\ q.tag <= currentEtag[t]
                     /\ \/ /\ saveTimer[t]
                           /\ q.use = "save" /\ q.id = diagram'[t].id /\ q.body = diagram'[t].body
                           /\ q.tag = currentEtag'[t]
                        \/ /\ ~saveTimer[t]
                           /\ q.use = "load" /\ q.id = i
  <1> DEFINE ids == <<i>> \o rest
  <1>1. ids \in Seq(Id) /\ ids # <<>> /\ Head(ids) = i /\ Tail(ids) = rest
    BY Prepended
  <1>2. NoTask.use = "none"
    BY NoTaskIsNone
  <1>3. currentEtag[t] \in Tag
    BY DEF Typed, TypeOK
  <1>4. NoTag <= currentEtag[t] /\ currentEtag[t] <= currentEtag[t]
    BY <1>3 DEF Tag, NoTag
  <1> HIDE DEF ids
  <1>5. CASE saveTimer[t]
    <2> DEFINE b == diagram[t].body
    <2>1. /\ saveTimer' = [saveTimer EXCEPT ![t] = FALSE]
          /\ Become(t, s, Saving(t, b, ids))
      BY <1>5 DEF Load, ids
    <2>2. b \in Body /\ ~saveTimer'[t]
      BY <2>1 DEF Typed, TypeOK
    <2>3. PICK q : q = Saving(t, b, ids)
      OBVIOUS
    <2>4. Saving(t, b, ids) =
                 [use |-> "save", op |-> "PUT", id |-> diagram[t].id, body |-> b,
                  tag |-> currentEtag[t], after |-> ids, answer |-> "none"]
      <3> HIDE DEF b
      <3> QED
        BY <1>1, <2>2, SavingTyped
    <2>5. /\ q.use = "save" /\ q.id = diagram[t].id /\ q.body = b
          /\ q.answer = "none" /\ q.tag = currentEtag[t]
      BY <2>3, <2>4
    <2> QED
      BY <1>2, <1>4, <1>5, <2>1, <2>2, <2>3, <2>5
  <1>6. CASE ~saveTimer[t]
    <2>1. Fetch(t, s, ids) /\ UNCHANGED saveTimer
      BY <1>6 DEF Load, ids
    <2>2. PICK q : /\ Become(t, s, q)
                   /\ q = [use |-> "load", op |-> "GET", id |-> Head(ids), body |-> {},
                           tag |-> NoTag, after |-> Tail(ids), answer |-> "none"]
      BY <1>1, <2>1, FetchDoes
    <2>3. q.use = "load" /\ q.id = i /\ q.answer = "none" /\ q.tag = NoTag
      BY <1>1, <2>2
    <2> QED
      BY <1>2, <1>4, <1>6, <2>1, <2>2, <2>3
  <1> QED
    BY <1>5, <1>6

\* What a step must leave of what tags stand for.
Sees(t) == Forward /\ Clocked' /\ SeenInv(t)'

\* A step that leaves the store, and the tag and the diagram of the page, alone.
LEMMA SameSees ==
    ASSUME TagInv, PatientInv', NEW t \in Tab, Local(t), UNCHANGED server,
           task' = task \/ \E s \in Slot : \E q : Become(t, s, q) /\ (q # NoTask => q.tag <= clock),
           currentEtag'[t] <= clock,
           SeenInv(t)'
    PROVE  Sees(t)
  <1>1. Typed /\ Typed'
    BY DEF TagInv, PatientInv
  <1>2. Forward /\ Exists' = Exists /\ clock \in Nat /\ clock' = clock /\ stored' = stored
    BY <1>1, SameClock DEF server
  <1>3. \A i \in Exists' : stored'[i].tag <= clock'
    BY <1>2 DEF TagInv, Clocked
  <1>4. Clocked'
    BY <1>1, <1>2, <1>3, ClockGoesOn
  <1> QED
    BY <1>2, <1>4 DEF Sees

\* A patient user's gesture finds nothing under way.
LEMMA SeenBegins ==
    ASSUME TagInv, NEW t \in Tab, Live(t) = {}, SeenPage(t)',
           \/ task' = task
           \/ \E s \in Slot : \E q : Become(t, s, q) /\ q # NoTask /\ SeenTask(t, q)'
    PROVE  SeenInv(t)'
  <1>1. CASE task' = task
    <2>1. Live(t)' = {}
      BY <1>1 DEF Live
    <2> QED
      BY <2>1 DEF SeenInv
  <1>2. ASSUME NEW s \in Slot, NEW q, Become(t, s, q), q # NoTask, SeenTask(t, q)'
        PROVE  SeenInv(t)'
    <2>1. /\ task'[t][s] = q
          /\ \A z \in Slot \ {s} : task'[t][z] = task[t][z]
      BY <1>2, BecomeDoes DEF TagInv, PatientInv
    <2>2. \A z \in Live(t)' : z = s
      BY <2>1 DEF Live
    <2>3. \A z \in Live(t)' : SeenTask(t, task[t][z])'
      BY <1>2, <2>1, <2>2
    <2> QED
      BY <2>2, <2>3 DEF SeenInv
  <1> QED
    BY <1>1, <1>2

\* A new load of a tab in which nothing else is under way.
LEMMA SeenLoading ==
    ASSUME NEW t \in Tab, NEW q, q.use = "load", q.answer = "none",
           Source(t)' => Doomed(diagram[t].id, currentEtag[t])'
    PROVE  SeenTask(t, q)'
  BY DEF SeenTask

LEMMA ActSees ==
    ASSUME TagInv, Patient, PatientInv', NEW t \in Tab, Act(t)
    PROVE  Sees(t)
  <1>1. Typed /\ Local(t) /\ clock \in Nat
    BY ActLocal DEF TagInv, PatientInv, Typed, TypeOK
  <1>2. /\ diagram[t] \in [id: Id, body: Body] /\ diagram[t].body \in Body
        /\ currentEtag[t] \in Int /\ currentEtag[t] <= clock
    BY <1>1, TagsClocked DEF Typed, TypeOK, Tag, NoTag
  <1>3. ASSUME NEW g, May(t, g) PROVE Live(t) = {} /\ \A i \in Id : NewMark(t, i) \in Mark
    BY <1>1, <1>3, MayTyped DEF Live
  <1>4. ASSUME NEW m, Change(t, m)
        PROVE  diagram'[t].id = diagram[t].id /\ diagram'[t].body = diagram[t].body \cup {m}
    BY <1>1, <1>2, <1>4 DEF Change, Typed, TypeOK
  <1>5. ASSUME NEW g, May(t, g), UNCHANGED <<server, currentEtag, task>>, SeenPage(t)'
        PROVE  Sees(t)
    <2>1. SeenInv(t)'
      BY <1>3, <1>5, SeenBegins
    <2> QED
      BY <1>1, <1>2, <1>5, <2>1, SameSees
  <1>6. ASSUME NEW g, May(t, g), UNCHANGED <<server, currentEtag>>, SeenPage(t)',
               NEW s \in Slot, NEW q, Become(t, s, q), q # NoTask, SeenTask(t, q)',
               q.tag <= clock
        PROVE  Sees(t)
    <2>1. SeenInv(t)'
      BY <1>3, <1>6, SeenBegins
    <2> QED
      BY <1>1, <1>2, <1>6, <2>1, SameSees
  <1>7. CASE Edit(t)
    <2>1. /\ May(t, "edit") /\ UNCHANGED <<server, currentEtag, task, undone, waived>>
          /\ Change(t, NewMark(t, diagram[t].id))
      BY <1>7 DEF Edit
    <2>2. SeenPage(t)'
      BY <1>1, <1>4, <2>1, SameClock, PageStays
    <2> QED
      BY <1>5, <2>1, <2>2
  <1>8. ASSUME NEW g, May(t, g), NEW b,
               diagram' = [diagram EXCEPT ![t].body = b],
               undone' = [undone EXCEPT ![t] = (@ \cup diagram[t].body) \ diagram'[t].body],
               UNCHANGED <<server, currentEtag, task, waived>>
        PROVE  Sees(t)
    <2>1. /\ diagram'[t].id = diagram[t].id
          /\ undone'[t] = (undone[t] \cup diagram[t].body) \ diagram'[t].body
      BY <1>1, <1>2, <1>8 DEF Typed, TypeOK
    <2>2. diagram[t].body \cup undone[t] \subseteq diagram'[t].body \cup undone'[t]
      BY <2>1
    <2>3. SeenPage(t)'
      BY <1>1, <1>8, <2>1, <2>2, SameClock, PageStays
    <2> QED
      BY <1>5, <1>8, <2>3
  <1>9. CASE Undo(t)
    BY <1>8, <1>9 DEF Undo, Swap
  <1>10. CASE Redo(t)
    BY <1>8, <1>10 DEF Redo, Swap
  <1>11. ASSUME NEW s \in Slot, PlaceRef(t, s) PROVE Sees(t)
    <2> DEFINE b == diagram'[t].body
               none == <<>>
               m == NewMark(t, diagram[t].id)
    <2>1. /\ May(t, "place") /\ UNCHANGED <<server, currentEtag, undone, waived>>
          /\ Change(t, m) /\ m \in Mark
          /\ Become(t, s, Saving(t, b, none))
      BY <1>2, <1>3, <1>11 DEF PlaceRef
    <2> HIDE DEF m
    <2>2. diagram'[t].id = diagram[t].id /\ b = diagram[t].body \cup {m}
      BY <1>4, <2>1
    <2>3. SeenPage(t)'
      BY <1>1, <2>1, <2>2, SameClock, PageStays
    <2>4. b \in Body /\ none \in Seq(Id)
      BY <1>2, <2>1, <2>2 DEF Body
    <2>5. PICK q : q = Saving(t, b, none)
      OBVIOUS
    <2>6. Saving(t, b, none) =
                 [use |-> "save", op |-> "PUT", id |-> diagram[t].id, body |-> b,
                  tag |-> currentEtag[t], after |-> none, answer |-> "none"]
      <3> HIDE DEF b, none
      <3> QED
        BY <1>1, <2>4, SavingTyped
    <2>7. /\ q.use = "save" /\ q.id = diagram[t].id /\ q.body = b
          /\ q.answer = "none" /\ q.tag = currentEtag[t]
      BY <2>5, <2>6
    <2>8. SeenTask(t, q)'
      <3>1. q.id = diagram'[t].id /\ q.tag = currentEtag'[t]
        BY <2>1, <2>2, <2>7
      <3> QED
        BY <2>3, <2>7, <3>1, SeenSaving
    <2>9. q # NoTask
      BY <2>7, NoTaskIsNone
    <2> QED
      BY <1>2, <1>6, <2>1, <2>3, <2>5, <2>7, <2>8, <2>9
  <1>12. ASSUME NEW s \in Slot, NEW i \in Exists, Open(t, s, i) PROVE Sees(t)
    <2>1. /\ May(t, "open") /\ UNCHANGED <<server, diagram, currentEtag, undone, waived>>
          /\ Load(t, s, i, <<>>) /\ i \in Id /\ <<>> \in Seq(Id)
      BY <1>12 DEF Open, Exists
    <2>2. SeenPage(t)'
      BY <1>1, <2>1, SameClock, PageStays
    <2>3. ~saveTimer'[t]
      BY <1>1, <2>1, LoadDoes
    <2>4. PICK q : /\ Become(t, s, q) /\ q # NoTask
                   /\ q.answer = "none" /\ q.tag <= currentEtag[t]
                   /\ \/ /\ saveTimer[t]
                         /\ q.use = "save" /\ q.id = diagram'[t].id /\ q.body = diagram'[t].body
                         /\ q.tag = currentEtag'[t]
                      \/ /\ ~saveTimer[t]
                         /\ q.use = "load" /\ q.id = i
      <3> DEFINE none == <<>>
      <3>1. Load(t, s, i, none) /\ none \in Seq(Id)
        BY <2>1
      <3>2. i \in Id /\ diagram'[t] = diagram[t] /\ currentEtag'[t] = currentEtag[t]
        BY <2>1
      <3> HIDE DEF none
      <3> QED
        BY <1>1, <3>1, <3>2, LoadDoes
    <2>5. SeenTask(t, q)'
      <3>1. CASE q.use = "save"
        BY <2>2, <2>4, <3>1, SeenSaving
      <3>2. CASE q.use = "load"
        <4>1. Live(t)' \subseteq {s} /\ task'[t][s] = q
          BY <1>1, <1>3, <2>1, <2>4, BecomeDoes DEF Live
        <4>2. ~Source(t)'
          BY <2>3, <3>2, <4>1 DEF Source
        <4> QED
          BY <2>4, <3>2, <4>2, SeenLoading
      <3> QED
        BY <2>4, <3>1, <3>2
    <2>6. Typed'
      BY DEF PatientInv
    <2>7. q.tag \in Int
      <3>1. task'[t][s] = q
        BY <1>1, <2>4, BecomeDoes
      <3>2. q \in Task
        BY <2>4, <2>6, <3>1 DEF Typed, TypeOK
      <3> QED
        BY <3>2 DEF Task, Tag, NoTag
    <2>8. q.tag <= clock
      BY <1>1, <1>2, <2>4, <2>7
    <2> QED
      BY <1>6, <2>1, <2>2, <2>4, <2>5, <2>8
  <1>13. ASSUME NEW s \in Slot, NEW g, NEW r, Ask(t, s, g, r), r.use \notin Goes \cup {"none"},
                r.tag = NoTag
         PROVE  Sees(t)
    <2>1. /\ May(t, g) /\ Become(t, s, r)
          /\ UNCHANGED <<server, diagram, currentEtag, undone, waived>>
      BY <1>13 DEF Ask, page
    <2>2. SeenPage(t)'
      BY <1>1, <2>1, SameClock, PageStays
    <2>3. SeenTask(t, r)' /\ r # NoTask /\ r.tag <= clock
      BY <1>1, <1>13, SeenOther, NoTaskIsNone DEF NoTag
    <2> QED
      BY <1>6, <2>1, <2>2, <2>3
  <1>14. ASSUME NEW s \in Slot, NEW g, NEW use, NEW op, NEW i, Ask(t, s, g, Request(use, op, i)),
                use \notin Goes \cup {"none"}
         PROVE  Sees(t)
    <2>1. PICK r : r = Request(use, op, i)
      OBVIOUS
    <2>2. r.use = use /\ r.tag = NoTag
      BY <2>1 DEF Request
    <2> QED
      BY <1>13, <1>14, <2>1, <2>2
  <1>15. ASSUME NEW s \in Slot, NEW g, NEW use, NEW op, NEW i, NEW b,
                Ask(t, s, g, [Request(use, op, i) EXCEPT !.body = b]),
                use \notin Goes \cup {"none"}
         PROVE  Sees(t)
    <2>1. PICK r : r = [Request(use, op, i) EXCEPT !.body = b]
      OBVIOUS
    <2>2. r.use = use /\ r.tag = NoTag
      BY <2>1 DEF Request
    <2> QED
      BY <1>13, <1>15, <2>1, <2>2
  <1>16. ASSUME NEW s \in Slot
         PROVE  /\ NewDiagram(t, s) => Sees(t)
                /\ AddContainer(t, s) => Sees(t)
    BY <1>14, <1>15 DEF NewDiagram, AddContainer, Goes
  <1>17. ASSUME NEW s \in Slot, NEW i
         PROVE  /\ Rename(t, s, i) => Sees(t)
                /\ Convert(t, s, i) => Sees(t)
                /\ Delete(t, s, i) => Sees(t)
                /\ AddPort(t, s, i) => Sees(t)
    BY <1>14, <1>15 DEF Rename, Convert, Delete, AddPort, Goes
  <1>18. CASE \E s \in Slot : PlaceRef(t, s) \/ NewDiagram(t, s) \/ AddContainer(t, s)
    BY <1>11, <1>16, <1>18
  <1>19. CASE \E s \in Slot : \E i \in Exists : Open(t, s, i)
    BY <1>12, <1>19
  <1>20. CASE \E s \in Slot : \E i \in Exists :
                 Rename(t, s, i) \/ Convert(t, s, i) \/ Delete(t, s, i) \/ AddPort(t, s, i)
    BY <1>17, <1>20
  <1> QED
    BY <1>7, <1>9, <1>10, <1>18, <1>19, <1>20 DEF Act

\* The debounced save starts while what is open is still under way: what may go with it
\* is a load or a refused save, which dooms the tag, or a save under the same tag.
LEMMA TimerSees ==
    ASSUME TagInv, PatientInv', NEW t \in Tab, NEW s \in Slot, TimerFires(t, s)
    PROVE  Sees(t)
  <1>1. Typed /\ TabInv(t) /\ Local(t) /\ clock \in Nat /\ Two(t)'
    BY TimerLocal DEF TagInv, PatientInv, TabInv, Typed, TypeOK
  <1> DEFINE b == diagram[t].body
             none == <<>>
  <1>2. /\ saveTimer[t] /\ Source(t) /\ task[t][s] = NoTask
        /\ Become(t, s, Saving(t, b, none))
        /\ UNCHANGED <<server, diagram, currentEtag, undone, waived>>
    BY DEF TimerFires, Free, Source
  <1>3. b \in Body /\ none \in Seq(Id) /\ currentEtag[t] \in Int /\ currentEtag[t] <= clock
    BY <1>1, TagsClocked DEF Tag, NoTag
  <1>4. PICK q : q = Saving(t, b, none)
    OBVIOUS
  <1>5. Saving(t, b, none) =
               [use |-> "save", op |-> "PUT", id |-> diagram[t].id, body |-> b,
                tag |-> currentEtag[t], after |-> none, answer |-> "none"]
    <2> HIDE DEF b, none
    <2> QED
      BY <1>1, <1>3, SavingTyped
  <1>6. /\ q.use = "save" /\ q.id = diagram[t].id /\ q.body = b
        /\ q.answer = "none" /\ q.tag = currentEtag[t] /\ q # NoTask
    BY <1>4, <1>5, NoTaskIsNone
  <1>7. Forward /\ SeenPage(t)'
    BY <1>1, <1>2, SameClock, PageStays
  <1>8. SeenTask(t, q)'
    <2>1. q.id = diagram'[t].id /\ q.tag = currentEtag'[t] /\ q.body = diagram'[t].body
      BY <1>2, <1>6
    <2> QED
      BY <1>6, <1>7, <2>1, SeenSaving
  <1>9. ASSUME NEW z \in Live(t) \ {s}, NEW p, p = task[t][z]
        PROVE  /\ SeenTask(t, p)'
               /\ SeenPair(t, q, p)' /\ SeenPair(t, p, q)'
    <2>1. z \in Slot /\ p # NoTask /\ SeenTask(t, p) /\ TaskOk(t, p)
      BY <1>1, <1>9 DEF Live, TagInv, SeenInv, TabInv
    <2>2. SeenTask(t, p)'
      BY <1>2, <1>7, <1>9, <2>1, SeenSteady
    <2>3. p.use \in Goes => p.id = diagram[t].id
      BY <1>2, <2>1 DEF TaskOk
    <2>4. PICK i, g : i = diagram[t].id /\ g = currentEtag[t]
      OBVIOUS
    <2>5. i \in Id /\ g \in Tag /\ g <= clock
      BY <2>4, TagsClocked
    <2>6. Doomed(i, g) => Doomed(i, g)'
      BY <1>1, <1>7, <2>5, DoomStays
    <2>7. /\ p.use = "load" => Doomed(i, g)'
          /\ p.use = "save" /\ p.answer = "conflict" => Doomed(i, g)'
          /\ p.use = "save" /\ p.answer = "none" => p.tag = g
      BY <1>2, <2>1, <2>4, <2>6 DEF SeenTask
    <2>8. diagram'[t].id = i /\ q.id = i /\ q.tag = g
      BY <1>2, <1>6, <2>4
    <2>9. SeenPair(t, p, q)'
      BY <1>6, <2>3, <2>4, <2>7, <2>8 DEF SeenPair, Goes
    <2>10. SeenPair(t, q, p)'
      BY <1>6, <2>7, <2>8 DEF SeenPair
    <2> QED
      BY <2>2, <2>9, <2>10
  <1>10. SeenInv(t)'
    BY <1>1, <1>2, <1>4, <1>6, <1>7, <1>8, <1>9, SeenGoesOn
  <1> QED
    BY <1>1, <1>2, <1>3, <1>4, <1>6, <1>10, SameSees

\* What an effect does to the tags: a new version has a new one.
LEMMA EffectForward ==
    ASSUME Typed, Clocked, NEW t \in Tab, NEW s \in Slot, NEW r, r = task[t][s], r # NoTask,
           r.tag <= clock,
           NEW x, NEW i, NEW g, NEW b, Effect(t, r, x, i, g, b)
    PROVE  /\ Forward /\ g <= clock'
           /\ \A j \in Exists' : stored'[j].tag <= clock'
  <1>1. /\ r.id \in Id /\ r.body \in Body /\ r.tag \in Int /\ clock \in Nat
    BY Fields DEF Tag, NoTag, Typed, TypeOK
  <1> DEFINE Goal == Forward /\ clock' \in Nat /\ clock <= clock'
                     /\ \A j \in Exists' : stored'[j].tag <= clock'
  <1>2. ASSUME NEW j \in Id, NEW body \in Body, Store(t, j, body) PROVE Goal /\ clock' = clock + 1
    <2>1. /\ stored'[j] = [body |-> body, tag |-> clock + 1, by |-> t]
          /\ \A k \in Id \ {j} : stored'[k] = stored[k]
          /\ clock' = clock + 1
      BY <1>2 DEF Store, Typed, TypeOK
    <2>2. clock' \in Nat /\ clock <= clock' /\ stored'[j].tag = clock'
      BY <1>1, <2>1
    <2>3. ASSUME NEW k \in Id, NEW h \in Tag, h <= clock, Current(k, h)'
          PROVE  Current(k, h) /\ stored'[k] = stored[k]
      <3>1. CASE k = j
        <4>1. h = clock + 1
          BY <2>1, <2>3, <3>1 DEF Current
        <4> QED
          BY <1>1, <2>3, <4>1
      <3>2. CASE k # j
        BY <2>1, <2>3, <3>2 DEF Current
      <3> QED
        BY <3>1, <3>2
    <2>4. Forward
      BY <2>2, <2>3 DEF Forward
    <2>5. ASSUME NEW k \in Exists' PROVE stored'[k].tag <= clock'
      <3>1. CASE k = j
        BY <2>2, <3>1
      <3>2. CASE k # j
        <4>1. stored'[k] = stored[k] /\ k \in Exists
          BY <2>1, <2>5, <3>2 DEF Exists
        <4>2. stored[k].tag <= clock /\ stored[k].tag \in Nat
          BY <4>1, Versions DEF Clocked
        <4> QED
          BY <1>1, <2>2, <4>1, <4>2
      <3> QED
        BY <3>1, <3>2
    <2> QED
      BY <2>1, <2>2, <2>4, <2>5
  <1>3. ASSUME UNCHANGED server PROVE Goal /\ clock' = clock
    <2>1. Forward /\ Exists' = Exists
      BY <1>3, SameClock
    <2> QED
      BY <1>1, <1>3, <2>1 DEF server, Clocked
  <1>4. CASE Refused(r, x, i, g, b)
    BY <1>1, <1>3, <1>4 DEF Refused
  <1>5. CASE Read(r, x, i, g, b)
    <2>1. g <= clock /\ UNCHANGED server
      BY <1>5 DEF Read, Clocked
    <2> QED
      BY <1>3, <2>1
  <1>6. CASE Put(t, r, x, i, g, b)
    <2>1. Goal /\ clock' = clock + 1 /\ g = clock'
      BY <1>1, <1>2, <1>6 DEF Put
    <2> QED
      BY <1>1, <2>1
  <1>7. CASE Patched(t, r, x, i, g, b)
    <2> DEFINE j == r.id
               body == stored[j].body
    <2>1. j \in Exists
      BY <1>7 DEF Patched
    <2>2. j \in Id /\ body \in Body /\ stored[j].tag <= clock
      BY <1>1, <2>1, Versions DEF Clocked
    <2>3. \/ Store(t, j, body) /\ g = clock'
          \/ UNCHANGED server /\ g = stored[j].tag
      BY <1>7 DEF Patched
    <2> HIDE DEF j, body
    <2>4. CASE Store(t, j, body) /\ g = clock'
      <3>1. Goal /\ clock' = clock + 1
        BY <1>2, <2>2, <2>4
      <3> QED
        BY <1>1, <2>4, <3>1
    <2>5. CASE UNCHANGED server /\ g = stored[j].tag
      BY <1>3, <2>2, <2>5
    <2> QED
      BY <2>3, <2>4, <2>5
  <1>8. CASE Removed(r, x, i, g, b)
    <2>1. /\ stored'[r.id] = Gone /\ \A k \in Id \ {r.id} : stored'[k] = stored[k]
          /\ clock' = clock /\ g = r.tag
      BY <1>1, <1>8 DEF Removed, Typed, TypeOK
    <2>2. Forward
      BY <1>1, <2>1 DEF Forward, Current
    <2>3. \A k \in Exists' : k \in Exists /\ stored'[k] = stored[k]
      BY <2>1 DEF Exists
    <2> QED
      BY <1>1, <2>1, <2>2, <2>3 DEF Clocked
  <1>9. CASE Found(r, x, i, g, b)
    BY <1>1, <1>3, <1>9 DEF Found
  <1>10. CASE Posted(t, r, x, i, g, b)
    <2>1. PICK j \in Unused : Store(t, j, {})
      BY <1>10 DEF Posted
    <2>2. j \in Id /\ {} \in Body /\ g = r.tag
      BY <1>10 DEF Unused, Body, Posted
    <2>3. Goal /\ clock' = clock + 1
      BY <1>2, <2>1, <2>2
    <2>4. g <= clock'
      BY <1>1, <2>2, <2>3
    <2> QED
      BY <2>3, <2>4
  <1> QED
    BY <1>4, <1>5, <1>6, <1>7, <1>8, <1>9, <1>10 DEF Effect

\* A save is answered: the version it replaced was the one under its tag, or it is refused
\* because its tag is doomed.
LEMMA ServeSees ==
    ASSUME TagInv, PatientInv', NEW t \in Tab, NEW s \in Slot, Serve(t, s) \/ Drop(t, s)
    PROVE  Sees(t)
  <1>1. Typed /\ Typed' /\ TabInv(t) /\ Clocked /\ Local(t) /\ clock \in Nat /\ Two(t)'
    BY ServeLocal DEF TagInv, PatientInv, TabInv, Typed, TypeOK
  <1>2. PICK r : r = task[t][s]
    OBVIOUS
  <1>3. /\ r # NoTask /\ r.answer = "none" /\ Outcome(t, s, r)
        /\ UNCHANGED <<page, acts, ghosts>>
    BY <1>1, <1>2, Serving
  <1>4. PICK x, i, g, b : /\ Become(t, s, Ans(r, x, i, g, b)) /\ x # "none"
                          /\ Effect(t, r, x, i, g, b)
    BY <1>3 DEF Outcome
  <1>5. PICK q : q = Ans(r, x, i, g, b)
    OBVIOUS
  <1>6. /\ q.use = r.use /\ q.op = r.op /\ q.id = i /\ q.body = b /\ q.tag = g
        /\ q.after = r.after /\ q.answer = x
    BY <1>5, AnsFields
  <1>7. /\ diagram' = diagram /\ currentEtag' = currentEtag /\ saveTimer' = saveTimer
        /\ undone' = undone /\ waived' = waived
    BY <1>3 DEF page, ghosts
  <1>8. /\ s \in Live(t) /\ TaskOk(t, r) /\ SeenTask(t, r) /\ Proper(r)
        /\ r.id \in Id /\ r.body \in Body /\ r.tag \in Tag /\ r.tag <= clock
    BY <1>1, <1>2, <1>3, TagsClocked DEF TabInv, Live, TagInv, SeenInv
  <1>9. /\ Forward /\ g <= clock'
        /\ \A j \in Exists' : stored'[j].tag <= clock'
    BY <1>1, <1>2, <1>3, <1>4, <1>8, EffectForward
  <1>10. q # NoTask /\ <<r.use, r.op>> \in Kinds
    <2>1. <<r.use, r.op>> \in Kinds
      BY <1>8 DEF Proper
    <2>2. r.use # "none"
      BY <2>1 DEF Kinds
    <2> QED
      BY <1>6, <2>1, <2>2, NoTaskIsNone
  <1>11. /\ task'[t][s] = q
         /\ \A z \in Slot \ {s} : task'[t][z] = task[t][z]
    BY <1>1, <1>4, <1>5, BecomeDoes
  <1>12. Source(t)' => Source(t)
    <2>1. \A z \in Live(t)' : z \in Live(t) /\ task'[t][z].use = task[t][z].use
      BY <1>2, <1>6, <1>8, <1>11 DEF Live
    <2> QED
      BY <1>7, <2>1 DEF Source
  <1>13. SeenPage(t)'
    BY <1>7, <1>9, PageStays
  <1>14. PICK d, e : d = diagram[t].id /\ e = currentEtag[t]
    OBVIOUS
  <1>15. d \in Id /\ e \in Tag /\ e <= clock
    BY <1>14, TagsClocked
  <1>16. Doomed(d, e) => Doomed(d, e)'
    BY <1>1, <1>9, <1>15, DoomStays
  \* What the service does for a load and for a save.
  <1>17. r.use = "load" => i = r.id /\ x # "conflict"
    BY <1>4, <1>10 DEF Effect, Refused, Read, Put, Patched, Removed, Found, Posted, Kinds
  <1>18. r.use = "load" /\ x = "ok"
            => /\ i \in Exists /\ stored' = stored
               /\ g = stored[i].tag /\ stored[i].body \subseteq b
    BY <1>4, <1>10
       DEF Effect, Refused, Read, Put, Patched, Removed, Found, Posted, Kinds, server
  <1>19. r.use = "save" => i = r.id
    BY <1>4, <1>10 DEF Effect, Refused, Read, Put, Patched, Removed, Found, Posted, Kinds
  <1>20. r.use = "save" /\ x = "ok" => r.id \in Exists /\ ~Stale(r) /\ Store(t, i, r.body)
    BY <1>4, <1>10 DEF Effect, Refused, Read, Put, Patched, Removed, Found, Posted, Kinds
  <1>21. r.use = "save" /\ x = "ok" => ~Doomed(r.id, r.tag) /\ stored'[i].body = r.body
    <2> SUFFICES ASSUME r.use = "save", x = "ok"
                 PROVE  ~Doomed(r.id, r.tag) /\ stored'[i].body = r.body
      OBVIOUS
    <2>1. ~Doomed(r.id, r.tag)
      BY <1>20 DEF Doomed, Current, Stale, Exists
    <2>2. stored'[i] = [body |-> r.body, tag |-> clock + 1, by |-> t]
      BY <1>1, <1>8, <1>19, <1>20 DEF Store, Typed, TypeOK
    <2> QED
      BY <2>1, <2>2
  <1>22. r.use = "save" /\ x = "conflict" => Doomed(r.id, r.tag)'
    <2> SUFFICES ASSUME r.use = "save", x = "conflict" PROVE Doomed(r.id, r.tag)'
      OBVIOUS
    <2>1. r.id \in Exists /\ Stale(r)
      BY <1>4 DEF Effect, Refused, Read, Put, Patched, Removed, Found, Posted
    <2>2. Doomed(r.id, r.tag)
      BY <2>1 DEF Doomed, Current, Stale
    <2> QED
      BY <1>1, <1>8, <1>9, <2>2, DoomStays
  <1>23. SeenTask(t, q)'
    <2>1. q.use = "load" /\ q.answer = "ok" => Covers(t, q.id, q.tag, q.body)'
      BY <1>6, <1>18 DEF Covers
    <2>2. q.use = "save" /\ q.answer = "ok" /\ q.id = diagram'[t].id
             => Covers(t, q.id, q.tag, diagram[t].body)'
      <3> SUFFICES ASSUME q.use = "save", q.answer = "ok", q.id = diagram'[t].id
                   PROVE  Covers(t, q.id, q.tag, diagram[t].body)'
        OBVIOUS
      <3>1. r.body \subseteq diagram[t].body \cup undone[t]
        BY <1>3, <1>6, <1>7, <1>8, <1>19, <1>21 DEF SeenTask
      <3> QED
        BY <1>6, <1>7, <1>21, <3>1 DEF Covers
    <2>3. q.use = "load" /\ Source(t)' => Doomed(d, e)'
      BY <1>6, <1>8, <1>12, <1>14, <1>16 DEF SeenTask
    <2>4. q.use = "save" /\ q.answer = "conflict" /\ Source(t)' => Doomed(d, e)'
      <3> SUFFICES ASSUME q.use = "save", q.answer = "conflict", Source(t)'
                   PROVE  Doomed(d, e)'
        OBVIOUS
      <3>1. r.tag = e
        BY <1>3, <1>6, <1>8, <1>12, <1>14 DEF SeenTask
      <3>2. r.id = d
        BY <1>2, <1>6, <1>8, <1>12, <1>14, SourceHere DEF Goes, TagInv
      <3> QED
        BY <1>6, <1>22, <3>1, <3>2
    <2>5. diagram'[t].id = d /\ currentEtag'[t] = e /\ q.answer # "none"
      BY <1>4, <1>6, <1>7, <1>14
    <2> QED
      BY <2>1, <2>2, <2>3, <2>4, <2>5 DEF SeenTask
  <1>24. ASSUME NEW z \in Live(t) \ {s}, NEW p, p = task[t][z]
         PROVE  /\ SeenTask(t, p)'
                /\ SeenPair(t, q, p)' /\ SeenPair(t, p, q)'
    <2>1. /\ z \in Slot /\ p # NoTask /\ SeenTask(t, p)
          /\ SeenPair(t, r, p) /\ SeenPair(t, p, r)
      BY <1>2, <1>8, <1>24 DEF Live, TagInv, SeenInv
    <2>2. SeenTask(t, p)'
      BY <1>7, <1>9, <1>12, <1>24, <2>1, SeenSteady
    <2>3. p.id \in Id /\ p.tag \in Tag /\ p.tag <= clock
      BY <1>24, <2>1, TagsClocked
    <2>4. Doomed(p.id, p.tag) => Doomed(p.id, p.tag)'
      BY <1>1, <1>9, <2>3, DoomStays
    <2>5. SeenPair(t, q, p)'
      <3>1. q.use = "load" /\ p.use = "save" /\ p.answer = "none" /\ q.id = p.id
               => Doomed(p.id, p.tag)'
        BY <1>6, <1>17, <2>1, <2>4 DEF SeenPair
      <3>2. q.use = "load" /\ q.answer = "ok" /\ p.use = "save" /\ p.answer = "ok" /\ q.id = p.id
               => Current(p.id, q.tag)'
        BY <1>6, <1>18 DEF Current, Exists
      <3>3. q.use = "save" /\ p.use = "save" => q.id = diagram'[t].id
        BY <1>6, <1>7, <1>19, <2>1 DEF SeenPair
      <3>4. q.use = "save" /\ p.use = "save" /\ q.answer = "conflict" /\ p.answer = "none"
               => Doomed(p.id, p.tag)'
        <4> SUFFICES ASSUME q.use = "save", p.use = "save", q.answer = "conflict",
                            p.answer = "none"
                     PROVE  Doomed(p.id, p.tag)'
          OBVIOUS
        <4>1. r.id = diagram[t].id /\ p.id = diagram[t].id /\ r.tag = p.tag
          BY <1>3, <1>6, <2>1 DEF SeenPair
        <4> QED
          BY <1>6, <1>22, <4>1
      <3>5. q.answer # "none"
        BY <1>4, <1>6
      <3> QED
        BY <3>1, <3>2, <3>3, <3>4, <3>5 DEF SeenPair
    <2>6. SeenPair(t, p, q)'
      <3>1. q.answer # "none"
        BY <1>4, <1>6
      <3>2. ~(p.use = "load" /\ p.answer = "ok" /\ q.use = "save" /\ q.answer = "ok" /\ p.id = q.id)
        BY <1>3, <1>6, <1>19, <1>21, <2>1 DEF SeenPair
      <3>3. p.use = "save" /\ q.use = "save" => p.id = diagram'[t].id
        BY <1>6, <1>7, <2>1 DEF SeenPair
      <3> QED
        BY <3>1, <3>2, <3>3 DEF SeenPair
    <2> QED
      BY <2>2, <2>5, <2>6
  <1>25. SeenInv(t)'
    BY <1>1, <1>4, <1>5, <1>10, <1>13, <1>23, <1>24, SeenGoesOn
  <1>26. Clocked'
    <2>1. clock <= clock' /\ clock' \in Nat
      BY <1>1, <1>9 DEF Forward, Typed, TypeOK
    <2>2. currentEtag'[t] <= clock'
      <3>1. e \in Int /\ currentEtag'[t] = e
        BY <1>7, <1>14, <1>15 DEF Tag, NoTag
      <3> QED
        BY <1>1, <1>15, <2>1, <3>1
    <2>3. q.tag <= clock'
      BY <1>6, <1>9
    <2>4. \E y \in Slot : \E p : Become(t, y, p) /\ (p # NoTask => p.tag <= clock')
      BY <1>4, <1>5, <2>3
    <2> QED
      BY <1>1, <1>9, <2>1, <2>2, <2>4, ClockGoesOn
  <1> QED
    BY <1>9, <1>25, <1>26 DEF Sees

\* A function goes on as q, and what it leaves on the page is seen: the tab's other
\* task is one it cannot meet, or stays as it was.
LEMMA OthersSee ==
    ASSUME TagInv, NEW t \in Tab, NEW s \in Live(t), NEW r, r = task[t][s],
           NEW q, Become(t, s, q), Forward,
           diagram'[t].id = diagram[t].id, diagram[t].body \subseteq diagram'[t].body,
           undone'[t] = undone[t], waived[t] \subseteq waived'[t],
           q # NoTask /\ q.use = "container" => r.use = "container",
           saveTimer'[t] => saveTimer[t] \/ r.use = "container",
           currentEtag'[t] = currentEtag[t] \/ r.use \in Goes
    PROVE  \A z \in Live(t) \ {s} : \A p : p = task[t][z] => SeenTask(t, p)'
  <1> SUFFICES ASSUME NEW z \in Live(t) \ {s}, NEW p, p = task[t][z] PROVE SeenTask(t, p)'
    OBVIOUS
  <1>1. Typed
    BY DEF TagInv, PatientInv
  <1>2. /\ task'[t][s] = q
        /\ \A y \in Slot \ {s} : task'[t][y] = task[t][y]
    BY <1>1, BecomeDoes DEF Live
  <1>3. z \in Slot /\ s \in Slot /\ p # NoTask /\ r # NoTask /\ SeenTask(t, p)
    BY DEF Live, TagInv, SeenInv
  <1>4. Source(t)' => Source(t)
    <2>1. \A y \in Live(t)' : y = s \/ (y \in Live(t) /\ task'[t][y] = task[t][y])
      BY <1>2 DEF Live
    <2>2. r.use = "container" => Source(t)
      BY DEF Source
    <2>3. ASSUME NEW y \in Live(t)', task'[t][y].use = "container" PROVE Source(t)
      <3>1. CASE y = s
        BY <1>2, <2>2, <2>3, <3>1 DEF Live
      <3>2. CASE y \in Live(t) /\ task'[t][y] = task[t][y]
        BY <2>3, <3>2 DEF Source
      <3> QED
        BY <2>1, <3>1, <3>2
    <2>4. saveTimer[t] => Source(t)
      BY DEF Source
    <2> QED
      BY <2>2, <2>3, <2>4 DEF Source
  <1>5. CASE p.use \notin Goes
    BY <1>5, SeenOther
  <1>6. CASE p.use \in Goes /\ r.use \in Goes
    <2>1. ~Source(t)'
      BY <1>4, <1>6, TwoGoers DEF TagInv
    <2> QED
      BY <1>3, <2>1, SeenSteady
  <1>7. CASE currentEtag'[t] = currentEtag[t]
    BY <1>3, <1>4, <1>7, SeenSteady
  <1> QED
    BY <1>5, <1>6, <1>7

\* It ends, or goes on with something that is neither a save nor a load.
LEMMA SeenEnds ==
    ASSUME TagInv, PatientInv', NEW t \in Tab, NEW s \in Live(t), NEW r, r = task[t][s],
           NEW q, Become(t, s, q), q = NoTask \/ q.use \notin Goes,
           SeenPage(t)',
           \A z \in Live(t) \ {s} : \A p : p = task[t][z] => SeenTask(t, p)'
    PROVE  SeenInv(t)'
  <1>1. Two(t)' /\ s \in Slot
    BY DEF PatientInv, TabInv, Live
  <1>2. q # NoTask => SeenTask(t, q)' /\ \A p : SeenPair(t, q, p)' /\ SeenPair(t, p, q)'
    BY SeenOther
  <1> QED
    BY <1>1, <1>2, SeenGoesOn

\* A load follows in the place of the function: it was alone.
LEMMA SeenFollows ==
    ASSUME TagInv, PatientInv', NEW t \in Tab, NEW s \in Live(t), NEW r, r = task[t][s],
           r.use \in Goes, Fetch(t, s, r.after),
           UNCHANGED saveTimer, SeenPage(t)',
           \A z \in Live(t) \ {s} : \A p : p = task[t][z] => SeenTask(t, p)'
    PROVE  /\ SeenInv(t)'
           /\ \E q : Become(t, s, q) /\ (q # NoTask => q.tag = NoTag)
  <1>1. Typed /\ TabInv(t) /\ s \in Slot /\ r # NoTask /\ Two(t)'
    BY DEF TagInv, PatientInv, TabInv, Live
  <1>2. r.after \in Seq(Id) /\ TaskOk(t, r)
    BY <1>1, Fields DEF TabInv
  <1>3. CASE r.after = <<>>
    <2> DEFINE q == NoTask
    <2>1. Become(t, s, q)
      BY <1>3 DEF Fetch, End
    <2>2. SeenInv(t)'
      BY <2>1, SeenEnds
    <2> QED
      BY <2>1, <2>2
  <1>4. CASE r.after # <<>>
    <2>1. PICK q : /\ Become(t, s, q)
                   /\ q = [use |-> "load", op |-> "GET", id |-> Head(r.after), body |-> {},
                           tag |-> NoTag, after |-> Tail(r.after), answer |-> "none"]
      BY <1>1, <1>2, <1>4, FetchDoes
    <2>2. q.use = "load" /\ q.answer = "none" /\ q.tag = NoTag
      BY <2>1
    <2>3. Live(t) \ {s} = {} /\ ~saveTimer'[t]
      BY <1>1, <1>2, <1>4 DEF TabInv, Cross, TaskOk
    <2>4. Live(t)' \subseteq {s} /\ task'[t][s] = q
      BY <1>1, <2>1, <2>3, BecomeDoes DEF Live
    <2>5. ~Source(t)'
      BY <2>2, <2>3, <2>4 DEF Source
    <2>6. SeenTask(t, q)'
      BY <2>2, <2>5, SeenLoading
    <2>7. SeenInv(t)'
      BY <1>1, <2>1, <2>3, <2>6, SeenGoesOn
    <2> QED
      BY <2>1, <2>2, <2>7
  <1> QED
    BY <1>3, <1>4

\* loadDiagram is called in the place of the function.
LEMMA SeenLoad ==
    ASSUME TagInv, PatientInv', NEW t \in Tab, NEW s \in Live(t), NEW r, r = task[t][s],
           NEW i \in Id, NEW rest \in Seq(Id), Load(t, s, i, rest),
           UNCHANGED <<server, diagram, currentEtag, undone, waived>>, Local(t),
           r.use # "container",
           Source(t) /\ ~saveTimer[t] => Doomed(diagram[t].id, currentEtag[t]),
           \A z \in Live(t) \ {s} : \A p : p = task[t][z] =>
               (p.use = "save" /\ p.id = i /\ p.answer = "none" => Doomed(p.id, p.tag))
    PROVE  Sees(t)
  <1>1. Typed /\ TabInv(t) /\ s \in Slot /\ r # NoTask /\ Two(t)' /\ clock \in Nat
    BY DEF TagInv, PatientInv, TabInv, Live, Typed, TypeOK
  <1>2. /\ diagram'[t] = diagram[t] /\ currentEtag'[t] = currentEtag[t]
        /\ undone'[t] = undone[t] /\ waived'[t] = waived[t]
    OBVIOUS
  <1>3. ~saveTimer'[t]
    BY <1>1, <1>2, LoadDoes
  <1>4. PICK q : /\ Become(t, s, q) /\ q # NoTask
                 /\ q.answer = "none" /\ q.tag <= currentEtag[t]
                 /\ \/ /\ saveTimer[t]
                       /\ q.use = "save" /\ q.id = diagram'[t].id /\ q.body = diagram'[t].body
                       /\ q.tag = currentEtag'[t]
                    \/ /\ ~saveTimer[t]
                       /\ q.use = "load" /\ q.id = i
    BY <1>1, <1>2, LoadDoes
  <1>5. Forward /\ SeenPage(t)'
    BY <1>1, <1>2, SameClock, PageStays
  <1>6. q.use # "container"
    BY <1>4
  <1>7. \A z \in Live(t) \ {s} : \A p : p = task[t][z] => SeenTask(t, p)'
    BY <1>2, <1>3, <1>4, <1>5, <1>6, OthersSee
  <1>8. SeenInv(t)'
    <2>1. CASE saveTimer[t]
      <3>1. Live(t) \ {s} = {}
        BY <1>1, <2>1 DEF TabInv, Cross
      <3>2. SeenTask(t, q)'
        BY <1>4, <1>5, <2>1, SeenSaving
      <3> QED
        BY <1>1, <1>4, <1>5, <3>1, <3>2, SeenGoesOn
    <2>2. CASE ~saveTimer[t]
      <3>1. q.use = "load" /\ q.id = i /\ q.answer = "none"
        BY <1>4, <2>2
      <3>2. PICK d, e : d = diagram[t].id /\ e = currentEtag[t]
        OBVIOUS
      <3>3. d \in Id /\ e \in Tag /\ e <= clock
        BY <3>2, TagsClocked
      <3>4. Source(t)' => Source(t)
        <4>1. /\ task'[t][s] = q
              /\ \A y \in Slot \ {s} : task'[t][y] = task[t][y]
          BY <1>1, <1>4, BecomeDoes
        <4>2. \A y \in Live(t)' : y = s \/ (y \in Live(t) /\ task'[t][y] = task[t][y])
          BY <4>1 DEF Live
        <4> QED
          BY <1>3, <1>6, <4>1, <4>2 DEF Source
      <3>5. Source(t)' => Doomed(d, e)'
        BY <1>1, <1>5, <2>2, <3>2, <3>3, <3>4, DoomStays
      <3>6. SeenTask(t, q)'
        BY <1>2, <3>1, <3>2, <3>5, SeenLoading
      <3>7. ASSUME NEW z \in Live(t) \ {s}, NEW p, p = task[t][z]
            PROVE  SeenPair(t, q, p)' /\ SeenPair(t, p, q)'
        <4>1. z \in Slot /\ p # NoTask
          BY <3>7 DEF Live
        <4>2. p.id \in Id /\ p.tag \in Tag /\ p.tag <= clock
          BY <3>7, <4>1, TagsClocked
        <4>3. p.use = "save" /\ p.id = i /\ p.answer = "none" => Doomed(p.id, p.tag)'
          BY <1>1, <1>5, <3>7, <4>2, DoomStays
        <4> QED
          BY <3>1, <4>3 DEF SeenPair
      <3> QED
        BY <1>1, <1>4, <1>5, <1>7, <3>6, <3>7, SeenGoesOn
    <2> QED
      BY <2>1, <2>2
  <1>9. q.tag <= clock /\ currentEtag'[t] <= clock
    <2>1. currentEtag[t] \in Int /\ currentEtag[t] <= clock
      BY TagsClocked DEF Tag, NoTag
    <2>2. q.tag \in Int
      <3>1. task'[t][s] = q
        BY <1>1, <1>4, BecomeDoes
      <3>2. Typed'
        BY DEF PatientInv
      <3>3. q \in Task
        BY <1>1, <1>4, <3>1, <3>2 DEF Typed, TypeOK
      <3> QED
        BY <3>3 DEF Task, Tag, NoTag
    <2> QED
      BY <1>1, <1>2, <1>4, <2>1, <2>2
  <1> QED
    BY <1>1, <1>4, <1>8, <1>9, SameSees

\* The screen shows what came, under the tag it came with.  A save that is still under way
\* is doomed, or went before what came.
LEMMA LoadedSees ==
    ASSUME TagInv, PatientInv', NEW t \in Tab, NEW s \in Live(t), Local(t), Loaded(t, s)
    PROVE  Sees(t)
  <1>1. Typed /\ TabInv(t) /\ s \in Slot /\ clock \in Nat
    BY DEF TagInv, PatientInv, Live, Typed, TypeOK
  <1>2. PICK r : r = task[t][s]
    OBVIOUS
  <1>3. /\ r # NoTask /\ r.use = "load" /\ r.answer = "ok"
        /\ diagram' = [diagram EXCEPT ![t] = [id |-> r.id, body |-> r.body]]
        /\ currentEtag' = [currentEtag EXCEPT ![t] = r.tag]
        /\ Fetch(t, s, r.after)
        /\ UNCHANGED <<server, saveTimer, ghosts>>
    BY <1>2 DEF Loaded, Answered
  <1>4. /\ diagram'[t].id = r.id /\ diagram'[t].body = r.body /\ currentEtag'[t] = r.tag
        /\ undone'[t] = undone[t] /\ waived'[t] = waived[t]
    BY <1>1, <1>3 DEF Typed, TypeOK, ghosts
  <1>5. /\ SeenTask(t, r) /\ r.id \in Id /\ r.tag \in Nat /\ r.tag <= clock
    BY <1>1, <1>2, <1>3, TagsClocked DEF TagInv, SeenInv, Proper, Goes
  <1>6. Forward /\ stored' = stored
    BY <1>1, <1>3, SameClock DEF server
  <1>7. Covers(t, r.id, r.tag, r.body)
    BY <1>3, <1>5 DEF SeenTask
  <1>8. SeenPage(t)'
    BY <1>4, <1>5, <1>6, <1>7 DEF SeenPage, Covers, Current, NoTag
  <1>9. ASSUME NEW z \in Live(t) \ {s}, NEW p, p = task[t][z] PROVE SeenTask(t, p)'
    <2>1. /\ z \in Slot /\ p # NoTask /\ SeenTask(t, p) /\ SeenPair(t, r, p)
      BY <1>2, <1>9 DEF Live, TagInv, SeenInv
    <2>2. CASE p.use \notin Goes
      BY <2>2, SeenOther
    <2>3. CASE p.use \in Goes
      <3>1. ~Source(t)
        BY <1>2, <1>3, <1>9, <2>3, TwoGoers DEF TagInv, Goes
      <3>2. Live(t)' \subseteq Live(t) /\ \A y \in Live(t)' : y # s => task'[t][y] = task[t][y]
        <4>1. \E q : Become(t, s, q)
          BY <1>3 DEF Fetch, End
        <4>2. PICK q : Become(t, s, q)
          BY <4>1
        <4>3. \A y \in Slot \ {s} : task'[t][y] = task[t][y]
          BY <1>1, <4>2, BecomeDoes
        <4> QED
          BY <4>3 DEF Live
      <3>3. task'[t][s].use # "container"
        <4>1. CASE r.after = <<>>
          BY <1>1, <1>3, <4>1, BecomeDoes, NoTaskIsNone DEF Fetch, End
        <4>2. CASE r.after # <<>>
          <5>1. r.after \in Seq(Id)
            BY <1>1, <1>2, <1>3, Fields
          <5>2. PICK q : /\ Become(t, s, q)
                         /\ q = [use |-> "load", op |-> "GET", id |-> Head(r.after), body |-> {},
                                 tag |-> NoTag, after |-> Tail(r.after), answer |-> "none"]
            BY <1>1, <1>3, <4>2, <5>1, FetchDoes
          <5>3. q.use = "load"
            BY <5>2
          <5> QED
            BY <1>1, <5>2, <5>3, BecomeDoes
        <4> QED
          BY <4>1, <4>2
      <3>4. ~Source(t)'
        BY <1>3, <3>1, <3>2, <3>3 DEF Source
      <3>5. p.id \in Id /\ p.tag \in Tag /\ p.tag <= clock
        BY <1>9, <2>1, TagsClocked
      <3>6. Doomed(p.id, p.tag) => Doomed(p.id, p.tag)'
        BY <1>1, <1>6, <3>5, DoomStays
      <3>7. \A b : Covers(t, p.id, p.tag, b) => Covers(t, p.id, p.tag, b)'
        BY <1>4, <1>6 DEF Covers, Current
      <3>8. p.use = "save" /\ p.answer = "ok" /\ p.id = r.id
               => Covers(t, p.id, p.tag, r.body)
        BY <1>3, <1>7, <2>1 DEF SeenPair, Covers
      <3>9. p.use = "save" /\ p.answer = "none" =>
              /\ Covers(t, p.id, p.tag, p.body)'
              /\ p.tag = NoTag => p.id \in waived'[t]
              /\ p.id = r.id => Doomed(p.id, p.tag)'
        BY <1>3, <1>4, <2>1, <3>6, <3>7 DEF SeenTask, SeenPair
      <3>10. p.use = "load" /\ p.answer = "ok" => Covers(t, p.id, p.tag, p.body)'
        BY <2>1, <3>7 DEF SeenTask
      <3> QED
        BY <1>4, <3>4, <3>7, <3>8, <3>9, <3>10 DEF SeenTask
    <2> QED
      BY <2>2, <2>3
  <1>10. /\ SeenInv(t)'
         /\ \E q : Become(t, s, q) /\ (q # NoTask => q.tag = NoTag)
    BY <1>2, <1>3, <1>8, <1>9, SeenFollows DEF Goes
  <1>11. \E y \in Slot : \E q : Become(t, y, q) /\ (q # NoTask => q.tag <= clock)
    BY <1>1, <1>10 DEF NoTag
  <1> QED
    BY <1>1, <1>3, <1>4, <1>5, <1>10, <1>11, SameSees

LEMMA TakeSees ==
    ASSUME TagInv, PatientInv', "rename" \notin Gestures,
           NEW t \in Tab, NEW s \in Slot, Take(t, s)
    PROVE  Sees(t)
  <1>1. Typed /\ TabInv(t) /\ Local(t) /\ clock \in Nat /\ Cross(t)
    BY TakeLocal DEF TagInv, PatientInv, TabInv, Typed, TypeOK
  <1>2. PICK r : r = task[t][s]
    OBVIOUS
  <1>3. r # NoTask
    BY <1>2 DEF Take, Saved, SaveFailed, Reload, KeepEditing, Loaded, Renamed, Deleted, Created,
           ContainerMade, PortFetched, GiveUp, Answered
  <1>4. /\ TaskOk(t, r) /\ Proper(r) /\ r.id \in Id /\ r.after \in Seq(Id) /\ r.body \in Body
        /\ s \in Live(t) /\ SeenTask(t, r) /\ SeenPage(t)
        /\ r.tag \in Tag /\ r.tag <= clock
    BY <1>1, <1>2, <1>3, Fields, TagsClocked DEF TabInv, Live, TagInv, SeenInv
  <1>5. /\ diagram[t] \in [id: Id, body: Body] /\ currentEtag[t] \in Int /\ currentEtag[t] <= clock
    BY <1>1, TagsClocked DEF Typed, TypeOK, Tag, NoTag
  <1>6. NoTag <= clock /\ r.tag \in Int
    BY <1>1, <1>4 DEF NoTag, Tag
  \* A function ends, or goes on with q, on the same page.
  <1>7. ASSUME NEW q, Become(t, s, q),
               q = NoTask \/ (q.use \notin Goes \cup {"container"} /\ q.tag = NoTag),
               UNCHANGED <<server, diagram, currentEtag, saveTimer, undone, waived>>
        PROVE  Sees(t)
    <2>1. Forward /\ SeenPage(t)'
      BY <1>1, <1>7, SameClock, PageStays
    <2>2. \A z \in Live(t) \ {s} : \A p : p = task[t][z] => SeenTask(t, p)'
      BY <1>2, <1>4, <1>7, <2>1, OthersSee
    <2>3. SeenInv(t)'
      BY <1>2, <1>4, <1>7, <2>1, <2>2, SeenEnds
    <2>4. \E y \in Slot : \E p : Become(t, y, p) /\ (p # NoTask => p.tag <= clock)
      BY <1>6, <1>7
    <2> QED
      BY <1>1, <1>5, <1>7, <2>3, <2>4, SameSees
  \* A save goes on with the load that waits for it.
  <1>8. ASSUME r.use = "save", Fetch(t, s, r.after),
               UNCHANGED <<server, diagram, saveTimer, undone>>, waived[t] \subseteq waived'[t],
               SeenPage(t)', currentEtag'[t] <= clock
        PROVE  Sees(t)
    <2>1. Forward
      BY <1>1, <1>8, SameClock
    <2>2. PICK q : Become(t, s, q) /\ (q # NoTask => q.use = "load")
      <3>1. CASE r.after = <<>>
        BY <1>8, <3>1 DEF Fetch, End
      <3>2. CASE r.after # <<>>
        <4>1. PICK q : /\ Become(t, s, q)
                       /\ q = [use |-> "load", op |-> "GET", id |-> Head(r.after), body |-> {},
                               tag |-> NoTag, after |-> Tail(r.after), answer |-> "none"]
          BY <1>1, <1>4, <1>8, <3>2, FetchDoes
        <4>2. q.use = "load"
          BY <4>1
        <4> QED
          BY <4>1, <4>2
      <3> QED
        BY <3>1, <3>2
    <2>3. \A z \in Live(t) \ {s} : \A p : p = task[t][z] => SeenTask(t, p)'
      BY <1>2, <1>4, <1>8, <2>1, <2>2, OthersSee DEF Goes
    <2>4. /\ SeenInv(t)'
          /\ \E p : Become(t, s, p) /\ (p # NoTask => p.tag = NoTag)
      BY <1>2, <1>4, <1>8, <2>3, SeenFollows DEF Goes
    <2>5. \E y \in Slot : \E p : Become(t, y, p) /\ (p # NoTask => p.tag <= clock)
      BY <1>6, <2>4
    <2> QED
      BY <1>1, <1>8, <2>4, <2>5, SameSees
  <1>9. CASE Saved(t, s)
    <2>1. /\ r.use = "save" /\ r.answer = "ok" /\ Fetch(t, s, r.after)
          /\ TakeTag(t, r)
          /\ UNCHANGED <<server, diagram, saveTimer, ghosts>>
      BY <1>2, <1>9 DEF Saved, Answered
    <2>2. Forward /\ stored' = stored /\ undone' = undone /\ waived' = waived
      BY <1>1, <2>1, SameClock DEF ghosts, server
    <2>3. currentEtag'[t] = IF diagram[t].id = r.id THEN r.tag ELSE currentEtag[t]
      BY <1>1, <2>1 DEF TakeTag, Typed, TypeOK
    <2>4. SeenPage(t)'
      <3>1. CASE diagram[t].id = r.id
        <4>1. r.tag \in Nat /\ Covers(t, r.id, r.tag, diagram[t].body)
          BY <1>4, <2>1, <3>1 DEF Proper, Goes, SeenTask
        <4> QED
          BY <2>1, <2>2, <2>3, <3>1, <4>1 DEF SeenPage, Covers, Current, NoTag
      <3>2. CASE diagram[t].id # r.id
        BY <2>1, <2>2, <2>3, <3>2, PageStays
      <3> QED
        BY <3>1, <3>2
    <2>5. currentEtag'[t] <= clock
      BY <1>4, <1>5, <2>3
    <2> QED
      BY <1>8, <2>1, <2>2, <2>4, <2>5
  <1>10. CASE SaveFailed(t, s)
    <2>1. /\ r.use = "save" /\ Fetch(t, s, r.after)
          /\ UNCHANGED <<server, diagram, currentEtag, saveTimer, undone, waived>>
      BY <1>2, <1>10 DEF SaveFailed, Answered, ghosts
    <2>2. SeenPage(t)'
      BY <1>1, <2>1, SameClock, PageStays
    <2> QED
      BY <1>5, <1>8, <2>1, <2>2
  <1>11. CASE Reload(t, s)
    <2>1. /\ r.use = "save" /\ r.answer = "conflict"
          /\ Load(t, s, diagram[t].id, r.after)
          /\ UNCHANGED <<server, diagram, currentEtag, undone, waived>>
      BY <1>2, <1>11 DEF Reload, Answered
    <2>2. Source(t) => Doomed(diagram[t].id, currentEtag[t])
      BY <1>4, <2>1 DEF SeenTask
    <2>3. ASSUME NEW z \in Live(t) \ {s}, NEW p, p = task[t][z], p.use = "save",
                 p.answer = "none"
          PROVE  Doomed(p.id, p.tag)
      BY <1>2, <1>4, <2>1, <2>3 DEF TagInv, SeenInv, SeenPair
    <2> DEFINE i == diagram[t].id
               rest == r.after
    <2>4. i \in Id /\ rest \in Seq(Id) /\ Load(t, s, i, rest)
      BY <1>4, <1>5, <2>1
    <2> HIDE DEF i, rest
    <2> QED
      BY <1>1, <1>2, <1>4, <2>1, <2>2, <2>3, <2>4, SeenLoad
  <1>12. CASE KeepEditing(t, s)
    <2>1. /\ r.use = "save" /\ Fetch(t, s, r.after)
          /\ currentEtag' = [currentEtag EXCEPT ![t] = NoTag]
          /\ waived' = [waived EXCEPT ![t] = @ \cup {diagram[t].id}]
          /\ UNCHANGED <<server, diagram, saveTimer, undone>>
      BY <1>2, <1>12 DEF KeepEditing, Answered
    <2>2. currentEtag'[t] = NoTag /\ waived'[t] = waived[t] \cup {diagram[t].id}
      BY <1>1, <2>1 DEF Typed, TypeOK
    <2>3. \A i \in Id : ~Current(i, NoTag)'
      <3>1. ASSUME NEW i \in Id, stored'[i] # Gone PROVE stored'[i].tag # NoTag
        <4>1. i \in Exists /\ stored' = stored
          BY <2>1, <3>1 DEF Exists, server
        <4> QED
          BY <1>1, <4>1, Versions DEF NoTag
      <3> QED
        BY <3>1 DEF Current
    <2>4. SeenPage(t)'
      BY <1>5, <2>1, <2>2, <2>3 DEF SeenPage, Covers
    <2> QED
      BY <1>6, <1>8, <2>1, <2>2, <2>4
  <1>13. CASE Loaded(t, s)
    BY <1>1, <1>4, <1>13, LoadedSees
  <1>14. CASE Renamed(t, s)
    BY <1>2, <1>4, <1>14 DEF Renamed, Answered, Proper
  \* Another diagram is loaded behind a gesture's own request.
  <1>15. ASSUME r.use \in {"delete", "new"}, r.id # diagram[t].id, Load(t, s, r.id, <<>>),
                UNCHANGED <<server, diagram, currentEtag, undone, waived>>
         PROVE  Sees(t)
    <2>1. ASSUME NEW z \in Live(t) \ {s}, NEW p, p = task[t][z]
          PROVE  p.use \in Goes /\ p.id = diagram[t].id
      BY <1>1, <1>2, <1>4, <1>15, <2>1 DEF Cross, Goes
    <2>2. ~saveTimer[t] => ~Source(t)
      BY <1>2, <1>15, <2>1 DEF Source, Goes
    <2> DEFINE i == r.id
               rest == <<>>
    <2>3. i \in Id /\ rest \in Seq(Id) /\ Load(t, s, i, rest) /\ i # diagram[t].id
      BY <1>4, <1>15
    <2> HIDE DEF i, rest
    <2>4. r.use # "container"
      BY <1>15
    <2> QED
      BY <1>1, <1>2, <1>4, <1>15, <2>1, <2>2, <2>3, <2>4, SeenLoad
  <1>16. CASE Deleted(t, s)
    <2>1. r.use = "delete" /\ UNCHANGED <<server, undone, waived>>
      BY <1>2, <1>16 DEF Deleted, Answered
    <2>2. CASE End(t, s) /\ UNCHANGED <<page, sent>>
      BY <1>7, <2>1, <2>2 DEF End, page
    <2>3. ASSUME NEW use, NEW op, NEW i, Become(t, s, Request(use, op, i)), UNCHANGED page,
                 use \notin Goes \cup {"container"}
          PROVE  Sees(t)
      <3>1. PICK q : q = Request(use, op, i)
        OBVIOUS
      <3>2. q.use = use /\ q.tag = NoTag
        BY <3>1 DEF Request
      <3> QED
        BY <1>7, <2>1, <2>3, <3>1, <3>2 DEF page
    <2>4. CASE Become(t, s, Request("delete", "LIST", r.id)) /\ UNCHANGED <<page, sent>>
      BY <2>3, <2>4 DEF Goes
    <2>5. CASE Become(t, s, Request("new", "POST", r.id)) /\ UNCHANGED <<page, sent>>
      BY <2>3, <2>5 DEF Goes
    <2>6. CASE /\ r.op = "LIST" /\ r.answer = "ok" /\ Load(t, s, r.id, <<>>)
               /\ UNCHANGED <<diagram, currentEtag>>
      <3>1. r.id # diagram[t].id
        BY <1>4, <2>6 DEF TaskOk
      <3> QED
        BY <1>15, <2>1, <2>6, <3>1
    <2> QED
      BY <1>2, <1>16, <2>2, <2>4, <2>5, <2>6 DEF Deleted
  <1>17. CASE Created(t, s)
    <2>1. /\ r.use = "new" /\ r.answer = "ok" /\ Load(t, s, r.id, <<>>)
          /\ UNCHANGED <<server, diagram, currentEtag, undone, waived>>
      BY <1>2, <1>17 DEF Created, Answered
    <2>2. r.id # diagram[t].id
      BY <1>4, <2>1 DEF TaskOk
    <2> QED
      BY <1>15, <2>1, <2>2
  <1>18. CASE ContainerMade(t, s)
    <2>1. /\ r.use = "container" /\ Become(t, s, NoTask)
          /\ UNCHANGED <<server, currentEtag, undone, waived>>
      BY <1>2, <1>18 DEF ContainerMade, Answered, End, ghosts
    <2>2. PICK m \in r.body : Change(t, m)
      BY <1>2, <1>18 DEF ContainerMade
    <2>3. diagram'[t].id = diagram[t].id /\ diagram'[t].body = diagram[t].body \cup {m}
      BY <1>1, <1>5, <2>2 DEF Change, Typed, TypeOK
    <2>4. Forward /\ SeenPage(t)'
      BY <1>1, <2>1, <2>3, SameClock, PageStays
    <2> DEFINE q == NoTask
    <2>5. \A z \in Live(t) \ {s} : \A p : p = task[t][z] => SeenTask(t, p)'
      <3>1. /\ diagram[t].body \subseteq diagram'[t].body /\ Become(t, s, q)
            /\ undone'[t] = undone[t] /\ waived[t] \subseteq waived'[t]
            /\ ~(q # NoTask /\ q.use = "container")
            /\ currentEtag'[t] = currentEtag[t]
        BY <2>1, <2>3
      <3> HIDE DEF q
      <3> QED
        BY <1>2, <1>4, <2>1, <2>3, <2>4, <3>1, OthersSee
    <2>6. SeenInv(t)'
      <3>1. Become(t, s, q) /\ q = NoTask
        BY <2>1
      <3> HIDE DEF q
      <3> QED
        BY <1>2, <1>4, <2>4, <2>5, <3>1, SeenEnds
    <2>7. \E y \in Slot : \E p : Become(t, y, p) /\ (p # NoTask => p.tag <= clock)
      BY <2>1
    <2>8. currentEtag'[t] <= clock
      BY <1>5, <2>1
    <2> QED
      BY <1>1, <2>1, <2>6, <2>7, <2>8, SameSees
  <1>19. CASE PortFetched(t, s)
    <2>1. /\ Become(t, s, [Request("port", "PUT", r.id) EXCEPT !.body = r.body])
          /\ UNCHANGED <<server, page, undone, waived>>
      BY <1>2, <1>19 DEF PortFetched
    <2> DEFINE i == r.id
               b == r.body
    <2>2. PICK q : q = [Request("port", "PUT", i) EXCEPT !.body = b]
      OBVIOUS
    <2>3. q.use = "port" /\ q.tag = NoTag
      <3> HIDE DEF i, b
      <3> QED
        BY <2>2 DEF Request
    <2> QED
      BY <1>7, <2>1, <2>2, <2>3 DEF page, Goes
  <1>20. CASE GiveUp(t, s)
    BY <1>7, <1>20 DEF GiveUp, End, page, ghosts
  <1> QED
    BY <1>9, <1>10, <1>11, <1>12, <1>13, <1>14, <1>16, <1>17, <1>18, <1>19, <1>20 DEF Take

LEMMA InitSees == Init => TagInv
  <1> SUFFICES ASSUME Init PROVE TagInv
    OBVIOUS
  <1>1. PatientInv /\ Typed
    BY InitPatient DEF PatientInv
  <1>2. ASSUME NEW i \in Exists PROVE stored[i].body = {} /\ stored[i].tag = 0
    BY <1>2 DEF Init, Exists
  <1>3. ASSUME NEW t \in Tab PROVE Live(t) = {} /\ currentEtag[t] = 0 /\ diagram[t].id \in Exists
    BY <1>3 DEF Init, Live
  <1>4. Clocked
    BY <1>2, <1>3 DEF Init, Clocked
  <1>5. ASSUME NEW t \in Tab PROVE SeenInv(t)
    BY <1>2, <1>3 DEF SeenInv, SeenPage, Covers, Current, Exists, NoTag
  <1> QED
    BY <1>1, <1>4, <1>5 DEF TagInv

LEMMA StepSees ==
    ASSUME TagInv, Patient, "rename" \notin Gestures, NEW t \in Tab, StepOf(t)
    PROVE  TagInv'
  <1>1. PatientInv' /\ Local(t)
    BY StepKeeps DEF TagInv
  <1>2. Sees(t)
    BY <1>1, ActSees, TimerSees, ServeSees, TakeSees DEF StepOf
  <1>3. ASSUME NEW u \in Tab PROVE SeenInv(u)'
    <2>1. CASE u = t
      BY <1>2, <2>1 DEF Sees
    <2>2. CASE u # t
      BY <1>1, <1>2, <2>2, SeenBystander DEF Sees, Local
    <2> QED
      BY <2>1, <2>2
  <1> QED
    BY <1>1, <1>2, <1>3 DEF Sees, TagInv

LEMMA StutterSees ==
    ASSUME TagInv, UNCHANGED vars
    PROVE  TagInv'
  <1>1. PatientInv'
    BY StutterKeeps DEF TagInv
  <1>2. Forward
    BY SameClock DEF TagInv, PatientInv, vars, server
  <1>3. \A t \in Tab : SeenInv(t)'
    BY <1>2, SeenBystander DEF vars
  <1>4. Clocked'
    BY DEF TagInv, Clocked, Exists, Live, vars
  <1> QED
    BY <1>1, <1>3, <1>4 DEF TagInv

\* The inductive invariant about tags, where no rename takes over a tag of content that
\* the tab has not loaded (app.js:2782).
THEOREM TagsStand ==
    ASSUME Patient, "rename" \notin Gestures
    PROVE  Spec => []TagInv
  <1>1. TagInv /\ [Next]_vars => TagInv'
    BY StepSees, StutterSees DEF Next, StepOf
  <1> QED
    BY InitSees, <1>1, PTL DEF Spec

\* What a tab holds the current ETag of is what it shows, but for what its user took back,
\* for any number of tabs, diagrams, requests and failures: the ETag may stand for "the
\* user has seen this" (doSave and loadDiagram, app.js:714-790).
THEOREM TagsMeanSeen ==
    ASSUME Patient, "rename" \notin Gestures
    PROVE  Spec => []TagMeansSeen
  <1>1. TagInv => TagMeansSeen
    BY DEF TagInv, SeenInv, SeenPage, Covers, Current, TagMeansSeen
  <1> QED
    BY <1>1, TagsStand, PTL

\* What a step overwrites, the user of the save has taken back or was told of.
LEMMA NothingUnseen ==
    ASSUME TagInv, "port" \notin Gestures, NEW t \in Tab, StepOf(t),
           NEW i \in Id, stored[i] # Gone, stored'[i] # Gone,
           NEW m \in stored[i].body \ stored'[i].body
    PROVE  Overwrites(t, i) /\ (m \in undone[t] \/ i \in waived[t])
  <1>1. Typed /\ i \in Exists
    BY DEF TagInv, PatientInv, Exists
  <1>2. CASE UNCHANGED stored
    BY <1>2
  <1>3. ASSUME NEW s \in Slot, Serve(t, s) \/ Drop(t, s)
        PROVE  Overwrites(t, i) /\ (m \in undone[t] \/ i \in waived[t])
    <2>1. PICK r : r = task[t][s]
      OBVIOUS
    <2>2. r # NoTask /\ r.answer = "none" /\ Outcome(t, s, r)
      BY <1>1, <1>3, <2>1, Serving
    <2>3. PICK x, j, g, b : /\ Become(t, s, Ans(r, x, j, g, b)) /\ x # "none"
                            /\ Effect(t, r, x, j, g, b)
      BY <2>2 DEF Outcome
    <2>4. /\ Proper(r) /\ r.id \in Id /\ r.body \in Body /\ SeenTask(t, r)
          /\ <<r.use, r.op>> \in Kinds
      BY <1>1, <2>1, <2>2, Fields DEF TagInv, SeenInv, Live, Proper
    <2>5. ASSUME NEW k \in Id, NEW body, Store(t, k, body)
          PROVE  /\ stored'[k].body = body
                 /\ k # i => stored'[i] = stored[i]
      <3>1. /\ stored'[k] = [body |-> body, tag |-> clock + 1, by |-> t]
            /\ k # i => stored'[i] = stored[i]
        BY <1>1, <2>5 DEF Store, Typed, TypeOK
      <3> QED
        BY <3>1
    <2>6. CASE Put(t, r, x, j, g, b)
      <3>1. r.id = i /\ m \notin r.body
        BY <2>4, <2>5, <2>6 DEF Put
      <3>2. r.use = "save"
        BY <2>4, <2>6 DEF Put, Kinds, Proper
      <3>3. r.tag = NoTag \/ Current(i, r.tag)
        BY <1>1, <2>6, <3>1 DEF Put, Stale, Current, Exists
      <3>4. m \in undone[t] \/ i \in waived[t]
        BY <2>2, <2>4, <3>1, <3>2, <3>3 DEF SeenTask, Covers
      <3>5. task'[t][s].answer = x
        BY <1>1, <2>3, BecomeDoes, AnsFields
      <3>6. Overwrites(t, i)
        BY <2>1, <2>2, <2>3, <2>6, <3>1, <3>5 DEF Overwrites, Put
      <3> QED
        BY <3>4, <3>6
    <2>7. CASE Patched(t, r, x, j, g, b)
      BY <2>4, <2>5, <2>7 DEF Patched, server
    <2>8. CASE Removed(r, x, j, g, b)
      BY <1>1, <2>4, <2>8 DEF Removed, Typed, TypeOK
    <2>9. CASE Posted(t, r, x, j, g, b)
      <3>1. PICK k \in Unused : Store(t, k, {})
        BY <2>9 DEF Posted
      <3>2. k \in Id /\ k # i
        BY <1>1 DEF Unused
      <3> QED
        BY <2>5, <3>1, <3>2
    <2>10. CASE Refused(r, x, j, g, b) \/ Read(r, x, j, g, b) \/ Found(r, x, j, g, b)
      BY <1>2, <2>10 DEF Refused, Read, Found, server
    <2> QED
      BY <2>3, <2>6, <2>7, <2>8, <2>9, <2>10 DEF Effect
  <1>4. CASE Act(t)
    <2>1. UNCHANGED server
      BY <1>4 DEF Act, Edit, Undo, Redo, Swap, PlaceRef, Open, Rename, Convert, Delete, NewDiagram,
         AddContainer, AddPort, Ask
    <2> QED
      BY <1>2, <2>1 DEF server
  <1>5. ASSUME NEW s \in Slot, TimerFires(t, s) \/ Take(t, s) PROVE UNCHANGED stored
    BY <1>5 DEF TimerFires, Take, Saved, SaveFailed, Reload, KeepEditing, Loaded, Renamed, Deleted,
       Created, ContainerMade, PortFetched, GiveUp, server
  <1> QED
    BY <1>2, <1>3, <1>4, <1>5 DEF StepOf

\* No edit that reached the store disappears but in the save of a user who undid it or who
\* chose to overwrite it, for any number of tabs (docs/architecture.md:157-158), where no
\* port is added, whose PUT carries no ETag (app.js:866).
THEOREM NothingIsOverwrittenSilently ==
    ASSUME Patient, "rename" \notin Gestures, "port" \notin Gestures
    PROVE  Spec => NoSilentOverwrite
  <1> DEFINE Kept == \A i \in Id : (stored[i] # Gone /\ stored'[i] # Gone) =>
                        \A m \in stored[i].body \ stored'[i].body :
                            \E t \in Tab : Overwrites(t, i) /\ (m \in undone[t] \/ i \in waived[t])
  <1>1. TagInv /\ [Next]_vars => [Kept]_vars
    <2> SUFFICES ASSUME TagInv, Next PROVE Kept
      OBVIOUS
    <2>1. PICK t \in Tab : StepOf(t)
      BY DEF Next, StepOf
    <2> QED
      BY <2>1, NothingUnseen
  <1>2. Spec => [][Kept]_vars
    BY <1>1, TagsStand, PTL DEF Spec
  <1> QED
    BY <1>2 DEF NoSilentOverwrite

=============================================================================
