-------------------------- MODULE NavHistory_proofs --------------------------
(***************************************************************************)
(* Proofs about NavHistory: whatever gestures, answers, failures and       *)
(* conflicts fall in between, the histories stay what the user walked.     *)
(*                                                                         *)
(* Typed says, beside the types, how a running call is made up (Stacked):  *)
(* only the debounced save has nothing to load, and it lies below          *)
(* everything; entering keeps the trail; only who creates asks first.      *)
(* FlightInv carries EntryIsShown and AddressIsShown, which speak of a tab *)
(* at rest, through the calls in between.  As long as no call was started  *)
(* while another ran, one call is in flight at most (OneCall), and Flying  *)
(* says what it knows: a move through the history flies to the current     *)
(* entry; the reloads of conflicts on top of a call fetch the diagram on   *)
(* screen; a call that may fail and put the trail back would put back the  *)
(* one of the current entry; one that leaves the address alone opens what  *)
(* the address names.  When the call ends, that is what AtRest needs.      *)
(*                                                                         *)
(* One lemma per action shows that Inv is kept; GoingAlone, Recording and  *)
(* Addressing say what the helpers of NavHistory do, OutTyped and          *)
(* OutFlight what every call that sets out leaves true.                    *)
(***************************************************************************)
EXTENDS NavHistory, SequenceTheorems, FiniteSetTheorems, WellFoundedInduction,
        NaturalsInduction, TLAPS

Stage == {"wait", "flush", "get"}
Running == [by: Caller, back: Seq(Id), calls: Seq(Frame) \ {<<>>}]

\* The stack with its first call at another stage.
Restage(calls, stage) == <<[Head(calls) EXCEPT !.stage = stage]>> \o Tail(calls)

\* Giving the first call of a stack another stage changes nothing else.
LEMMA Restaged ==
    ASSUME NEW calls \in Seq(Frame) \ {<<>>}, NEW stage \in Stage
    PROVE  /\ Restage(calls, stage) \in Seq(Frame) \ {<<>>}
           /\ Len(Restage(calls, stage)) = Len(calls)
           /\ Restage(calls, stage)[1] = [calls[1] EXCEPT !.stage = stage]
           /\ \A k \in 2..Len(calls) : Restage(calls, stage)[k] = calls[k]
  <1> DEFINE new == Restage(calls, stage)
  <1>1. Len(calls) \in Nat /\ Len(calls) >= 1 /\ Head(calls) = calls[1] /\ Head(calls) \in Frame
    BY HeadTailProperties
  <1>2. Tail(calls) \in Seq(Frame) /\ Len(Tail(calls)) = Len(calls) - 1
        /\ \A k \in 1..Len(Tail(calls)) : Tail(calls)[k] = calls[k + 1]
    BY <1>1, HeadTailProperties
  <1>3. [Head(calls) EXCEPT !.stage = stage] \in Frame
    BY <1>1 DEF Frame, Stage
  <1> DEFINE first == [Head(calls) EXCEPT !.stage = stage]
  <1> HIDE DEF first
  <1>4. <<first>> \in Seq(Frame) /\ Len(<<first>>) = 1 /\ <<first>>[1] = first
    BY <1>3 DEF first
  <1>5. /\ new \in Seq(Frame) /\ Len(new) = Len(calls) /\ new[1] = first
        /\ \A k \in 2..Len(calls) : new[k] = Tail(calls)[k - 1]
    BY <1>1, <1>2, <1>4, ConcatProperties DEF first, Restage
  <1>6. ASSUME NEW k \in 2..Len(calls) PROVE new[k] = calls[k]
    <2>1. k - 1 \in 1..Len(Tail(calls)) /\ (k - 1) + 1 = k
      BY <1>1, <1>2
    <2>2. Tail(calls)[k - 1] = calls[(k - 1) + 1]
      BY <1>2, <2>1
    <2> QED
      BY <1>5, <2>1, <2>2
  <1>7. new # <<>>
    BY <1>1, <1>5
  <1> QED
    BY <1>1, <1>5, <1>6, <1>7 DEF first

\* An entry is recorded, refreshed or, during a move through the history, neither.
LEMMA Recording ==
    ASSUME navStack \in Seq(Entry), navIndex \in 0..Len(navStack),
           (navIndex = 0) <=> (navStack = <<>>), breadcrumb \in Seq(Id),
           NEW id \in Id, Record(id)
    PROVE  /\ navStack' \in Seq(Entry) /\ navIndex' \in 0..Len(navStack')
           /\ (navIndex' = 0) <=> (navStack' = <<>>)
           /\ navigatingHistory => UNCHANGED <<navStack, navIndex>>
           /\ ~navigatingHistory =>
                 /\ navIndex' > 0
                 /\ navStack'[navIndex'] = [id |-> id, crumbs |-> breadcrumb]
           /\ NoRepeats => NoRepeats'
  <1> DEFINE entry == [id |-> id, crumbs |-> breadcrumb]
             same  == navIndex > 0 /\ navStack[navIndex].id = id
  <1>1. entry \in Entry /\ entry.id = id
    BY DEF Entry
  <1>2. CASE navigatingHistory
    BY <1>2 DEF Record, NoRepeats
  <1>3. CASE ~navigatingHistory /\ same
    <2>1. navStack' = [navStack EXCEPT ![navIndex] = entry] /\ navIndex' = navIndex
      BY <1>3 DEF Record, PushEntry
    <2> HIDE DEF entry
    <2>2. /\ navStack' \in Seq(Entry) /\ Len(navStack') = Len(navStack)
          /\ \A i \in 1..Len(navStack) :
                navStack'[i] = IF i = navIndex THEN entry ELSE navStack[i]
      BY <1>1, <1>3, <2>1, ExceptSeq, LenProperties
    <2>3. navIndex \in 1..Len(navStack) /\ Len(navStack) \in Nat
      BY <1>3, LenProperties
    <2>4. navStack' # <<>>
      BY <2>2, <2>3, EmptySeq
    <2>5. \A i \in 1..Len(navStack) : navStack'[i].id = navStack[i].id
      BY <1>1, <1>3, <2>2
    <2>6. NoRepeats => NoRepeats'
      BY <2>2, <2>3, <2>5 DEF NoRepeats
    <2> QED
      BY <1>3, <2>1, <2>2, <2>3, <2>4, <2>6 DEF entry
  <1>4. CASE ~navigatingHistory /\ ~same
    <2> DEFINE kept == SubSeq(navStack, 1, navIndex)
    <2>1. navStack' = Append(kept, entry) /\ navIndex' = navIndex + 1
      BY <1>4 DEF Record, PushEntry
    <2> HIDE DEF entry
    <2>2. /\ kept \in Seq(Entry) /\ Len(kept) = navIndex /\ navIndex \in Nat
          /\ \A i \in 1..navIndex : kept[i] = navStack[i]
      BY LenProperties
    <2> HIDE DEF kept
    <2>3. /\ navStack' \in Seq(Entry) /\ Len(navStack') = navIndex + 1
          /\ \A i \in 1..navIndex : navStack'[i] = navStack[i]
          /\ navStack'[navIndex + 1] = entry /\ navStack' # <<>>
      BY <1>1, <2>1, <2>2, AppendProperties
    <2>4. NoRepeats => NoRepeats'
      <3> SUFFICES ASSUME NoRepeats, NEW i \in 1..navIndex
                   PROVE  navStack'[i].id # navStack'[i + 1].id
        BY <2>2, <2>3 DEF NoRepeats
      <3>1. CASE i = navIndex
        BY <1>1, <1>4, <2>2, <2>3, <3>1
      <3>2. CASE i < navIndex
        BY <2>2, <2>3, <3>2, LenProperties DEF NoRepeats
      <3> QED
        BY <2>2, <3>1, <3>2
    <2> QED
      BY <1>4, <2>1, <2>2, <2>3, <2>4 DEF entry
  <1> QED
    BY <1>2, <1>3, <1>4

\* The address is left, or names the diagram shown.
LEMMA Addressing ==
    ASSUME urls \in Seq(Id \cup {None}), at \in 1..Len(urls), NEW id \in Id,
           NEW url \in {"push", "replace", "stay"}, Address(id, url)
    PROVE  /\ urls' \in Seq(Id \cup {None}) /\ at' \in 1..Len(urls')
           /\ IF url = "stay" THEN urls' = urls /\ at' = at ELSE urls'[at'] = id
  <1>1. Len(urls) \in Nat
    BY LenProperties
  <1>2. CASE url = "stay"
    BY <1>2 DEF Address, browser
  <1>3. CASE url = "replace"
    <2>1. urls' = [urls EXCEPT ![at] = id] /\ at' = at
      BY <1>3 DEF Address
    <2> QED
      BY <1>1, <1>3, <2>1, ExceptSeq
  <1>4. CASE url = "push"
    <2> DEFINE kept == SubSeq(urls, 1, at)
    <2>1. urls' = Append(kept, id) /\ at' = at + 1
      BY <1>4 DEF Address
    <2>2. kept \in Seq(Id \cup {None}) /\ Len(kept) = at
      BY <1>1
    <2> HIDE DEF kept
    <2> QED
      BY <1>1, <1>4, <2>1, <2>2, AppendProperties
  <1> QED
    BY <1>2, <1>3, <1>4

\* A nonempty set of naturals has a least element.
LEMMA LeastNatural ==
    ASSUME NEW T, T \subseteq Nat, T # {}
    PROVE  \E k \in T : \A j \in T : k <= j
  <1>1. PICK k \in T : \A j \in T : ~(<<j, k>> \in OpToRel(<, Nat))
    BY NatLessThanWellFounded, WFMin
  <1>2. \A j \in T : ~(j < k)
    BY <1>1 DEF OpToRel
  <1> QED
    BY <1>2

-----------------------------------------------------------------------------
(* Types *)

\* The last call of a stack is the one the user started.
Bottom(s) == open[s].calls[Len(open[s].calls)]

\* What runs in a slot: only the debounced save has no diagram to open, and below
\* everything; only who creates asks the service first; who enters keeps the trail.
Stacked(by, calls) ==
    /\ \A k \in 1..Len(calls) - 1 : calls[k].id # None
    /\ calls[Len(calls)].id = None <=> by = "timer"
    /\ calls[1].stage = "get" => calls[1].id # None
    /\ calls[1].stage = "wait" => by \in {"create", "root"}
    /\ by = "enter" => calls[Len(calls)].keep

\* A diagram is shown wherever one is entered or made inside another.
Well(s) == open[s] # Free =>
    /\ open[s].by \in {"enter", "create"} => diagram # None
    /\ Stacked(open[s].by, open[s].calls)

OpenOK == open \in [Slot -> Running \cup {Free}]

\* The page, the history of the application, that of the browser, and the rest.
PageOK == /\ diagram \in Id \cup {None} /\ dirty \in BOOLEAN /\ (diagram = None => ~dirty)
          /\ breadcrumb \in Seq(Id) /\ title \in Seq(Id)
NavOK  == /\ navStack \in Seq(Entry) /\ navIndex \in 0..Len(navStack)
          /\ (navIndex = 0) <=> (navStack = <<>>)
          /\ navigatingHistory \in BOOLEAN
UrlsOK == urls \in Seq(Id \cup {None}) /\ at \in 1..Len(urls)
RestOK == /\ stored \subseteq Id /\ fresh \subseteq Id
          /\ gestures \in 0..MaxGestures /\ trouble \in 0..MaxTrouble
          /\ crossed \in BOOLEAN /\ astray \in BOOLEAN

Typed == PageOK /\ NavOK /\ UrlsOK /\ RestOK /\ OpenOK /\ \A s \in Slot : Well(s)

\* A running call is no free slot.
LEMMA RunningFacts ==
    /\ \A r \in Running : r # Free
    /\ OpenOK => \A s \in Slot : open[s] # Free => open[s] \in Running
  <1>1. ASSUME NEW r \in Running PROVE r # Free
    BY DEF Running, Caller, Free
  <1> QED
    BY <1>1 DEF OpenOK

\* The parts make up the types.
LEMMA TypedImpliesTypeOK == Typed => TypeOK
  <1>1. OpenOK => \A s \in Slot : open[s] # Free =>
              /\ open[s].by \in Caller /\ open[s].back \in Seq(Id)
              /\ open[s].calls \in Seq(Frame) /\ open[s].calls # <<>>
    BY RunningFacts DEF Running
  <1> QED
    BY <1>1 DEF Typed, TypeOK, PageOK, NavOK, UrlsOK, RestOK

\* A call of loadDiagram, or the save, sets out in a slot.
LEMMA Going ==
    ASSUME OpenOK, PageOK, NEW s \in Slot, NEW by \in Caller,
           NEW calls \in Seq(Frame) \ {<<>>}, NEW trail \in Seq(Id), NEW back \in Seq(Id),
           Go(s, by, calls, trail, back),
           \A k \in 1..Len(calls) - 1 : calls[k].id # None,
           calls[Len(calls)].id = None <=> by = "timer",
           by = "timer" /\ Len(calls) = 1 => dirty,
           by = "enter" => calls[Len(calls)].keep
    PROVE  /\ OpenOK' /\ open'[s] \in Running
           /\ open'[s].by = by /\ open'[s].back = back
           /\ \A t \in Slot \ {s} : open'[t] = open[t]
           /\ Len(open'[s].calls) = Len(calls)
           /\ \A k \in 1..Len(calls) : /\ open'[s].calls[k].id = calls[k].id
                                       /\ open'[s].calls[k].url = calls[k].url
           /\ Stacked(by, open'[s].calls)
           /\ breadcrumb' \in Seq(Id) /\ (calls[1].keep => breadcrumb' = trail)
           /\ dirty' = FALSE
  <1> DEFINE flush == dirty /\ diagram # None
             stage == IF flush THEN "flush" ELSE "get"
             new   == Restage(calls, stage)
  <1>1. stage \in Stage /\ Len(calls) \in Nat /\ Len(calls) >= 1 /\ calls[1] \in Frame
        /\ Head(calls) = calls[1]
    BY HeadTailProperties DEF Stage
  <1>2. /\ open' = [open EXCEPT ![s] = [by |-> by, back |-> back, calls |-> new]]
        /\ breadcrumb' = IF flush \/ Head(calls).keep THEN trail ELSE <<>>
        /\ dirty' = FALSE
    BY DEF Go, Restage
  <1> HIDE DEF stage
  <1>3. /\ new \in Seq(Frame) \ {<<>>} /\ Len(new) = Len(calls)
        /\ new[1] = [calls[1] EXCEPT !.stage = stage]
        /\ \A k \in 2..Len(calls) : new[k] = calls[k]
    BY <1>1, Restaged
  <1> HIDE DEF new
  <1>4. \A k \in 1..Len(calls) : /\ new[k].id = calls[k].id /\ new[k].url = calls[k].url
                                 /\ new[k].keep = calls[k].keep
    <2>1. /\ new[1].id = calls[1].id /\ new[1].url = calls[1].url
          /\ new[1].keep = calls[1].keep /\ new[1].stage = stage
      BY <1>1, <1>3 DEF Frame
    <2>2. ASSUME NEW k \in 1..Len(calls) PROVE k = 1 \/ k \in 2..Len(calls)
      BY <1>1
    <2> QED
      BY <1>3, <2>1, <2>2
  <1>5. [by |-> by, back |-> back, calls |-> new] \in Running
    BY <1>3 DEF Running
  <1>6. /\ OpenOK' /\ open'[s] = [by |-> by, back |-> back, calls |-> new]
        /\ \A t \in Slot \ {s} : open'[t] = open[t]
    BY <1>2, <1>5 DEF OpenOK
  <1>7. Stacked(by, new)
    <2>1. new[1].stage = stage
      BY <1>1, <1>3 DEF Frame
    <2>2. ASSUME stage = "get" PROVE new[1].id # None
      <3>1. ~dirty
        BY <2>2 DEF stage, PageOK
      <3>2. CASE Len(calls) = 1
        BY <1>1, <1>4, <3>1, <3>2 DEF PageOK
      <3>3. CASE Len(calls) # 1
        <4> DEFINE n == Len(calls)
        <4>0. n \in Nat /\ n >= 1 /\ n # 1
          BY <1>1, <3>3
        <4> HIDE DEF n
        <4>1. 1 \in 1..n - 1 /\ 1 \in 1..n
          BY <4>0
        <4> QED
          BY <1>4, <4>1 DEF n
      <3> QED
        BY <3>2, <3>3
    <2>3. \A k \in 1..Len(new) - 1 : new[k].id # None
      BY <1>1, <1>3, <1>4
    <2>4. new[Len(new)].id = None <=> by = "timer"
      BY <1>1, <1>3, <1>4
    <2>5. by = "enter" => new[Len(new)].keep
      BY <1>1, <1>3, <1>4
    <2>6. stage # "wait"
      BY DEF stage
    <2> QED
      BY <2>1, <2>2, <2>3, <2>4, <2>5, <2>6 DEF Stacked
  <1>8. breadcrumb' \in Seq(Id) /\ (calls[1].keep => breadcrumb' = trail)
    BY <1>1, <1>2 DEF PageOK
  <1> QED
    BY <1>2, <1>3, <1>4, <1>5, <1>6, <1>7, <1>8

\* A single call has set out in slot s.
Out(s, by, id, url, back) ==
    /\ OpenOK' /\ open'[s] \in Running /\ open'[s].by = by /\ open'[s].back = back
    /\ \A t \in Slot \ {s} : open'[t] = open[t]
    /\ Len(open'[s].calls) = 1
    /\ open'[s].calls[1].id = id /\ open'[s].calls[1].url = url
    /\ Stacked(by, open'[s].calls)

\* ... the usual case: a single call.
LEMMA GoingAlone ==
    ASSUME OpenOK, PageOK, NEW s \in Slot, NEW by \in Caller, NEW id \in Id \cup {None},
           NEW keep \in BOOLEAN, NEW url \in {"push", "replace", "stay"},
           NEW trail \in Seq(Id), NEW back \in Seq(Id),
           Go(s, by, <<Call(id, keep, url)>>, trail, back),
           id = None <=> by = "timer", by = "timer" => dirty, by = "enter" => keep
    PROVE  /\ Out(s, by, id, url, back) /\ breadcrumb' \in Seq(Id)
           /\ (keep => breadcrumb' = trail) /\ dirty' = FALSE
  <1> DEFINE c == Call(id, keep, url)
             calls == <<c>>
  <1>1. c \in Frame /\ c.id = id /\ c.keep = keep /\ c.url = url
    BY DEF Call, Frame
  <1> HIDE DEF c
  <1>2. calls \in Seq(Frame) \ {<<>>} /\ Len(calls) = 1 /\ calls[1] = c
    BY <1>1
  <1>3. Go(s, by, calls, trail, back)
    BY DEF c
  <1> HIDE DEF calls
  <1>4. /\ \A k \in 1..Len(calls) - 1 : calls[k].id # None
        /\ calls[Len(calls)].id = None <=> by = "timer"
        /\ by = "enter" => calls[Len(calls)].keep
    BY <1>1, <1>2
  <1>5. /\ OpenOK' /\ open'[s] \in Running
        /\ open'[s].by = by /\ open'[s].back = back
        /\ \A t \in Slot \ {s} : open'[t] = open[t]
        /\ Len(open'[s].calls) = Len(calls)
        /\ \A k \in 1..Len(calls) : /\ open'[s].calls[k].id = calls[k].id
                                    /\ open'[s].calls[k].url = calls[k].url
        /\ Stacked(by, open'[s].calls)
        /\ breadcrumb' \in Seq(Id) /\ (calls[1].keep => breadcrumb' = trail)
        /\ dirty' = FALSE
    BY <1>2, <1>3, <1>4, Going
  <1> QED
    BY <1>1, <1>2, <1>5 DEF Out

-----------------------------------------------------------------------------
(* Where the user stands *)

\* The current entry is the diagram on screen with this trail, also as rendered.
StandsAt(trail) ==
    /\ navIndex > 0 /\ navStack[navIndex] = [id |-> diagram, crumbs |-> trail]
    /\ title = trail

AddressOK == urls[at] \in {None, diagram}

\* Calls that leave the user where he was when they fail, a save that goes on included.
Returns(s) == \/ open[s].by \in {"enter", "crumb", "side"}
              \/ open[s].by = "timer" /\ Len(open[s].calls) = 1

\* What a running call knows of the place it came from, and of what it is about to do.
Flying(s) ==
    /\ navigatingHistory <=> open[s].by = "nav"
    /\ open[s].by = "nav" => navIndex > 0 /\ Bottom(s).id = navStack[navIndex].id
    /\ Len(open[s].calls) > 1 => diagram # None /\ (astray \/ open[s].by = "timer")
    /\ \A k \in 1..Len(open[s].calls) - 1 :
          open[s].calls[k].id = diagram /\ open[s].calls[k].url = "stay"
    /\ Bottom(s).url = "stay" /\ open[s].by \notin {"timer", "made"} =>
          Bottom(s).id = urls[at]
    /\ open[s].by = "boot" => at = 1
    /\ ~astray /\ diagram # None /\ Returns(s) => StandsAt(Restored(s))
    /\ ~astray /\ diagram # None /\ open[s].by \in {"enter", "crumb", "side", "timer"} =>
          AddressOK

\* As long as calls have not crossed, one call is running or the user stands still.
OneCall   == \A s, t \in Slot : open[s] # Free /\ open[t] # Free => s = t
AtRest    == Idle => /\ ~navigatingHistory
                     /\ ~astray /\ diagram # None => StandsAt(breadcrumb) /\ AddressOK
FlightInv == ~crossed => /\ OneCall /\ AtRest
                         /\ \A s \in Slot : open[s] # Free => Flying(s)

\* A step may show a diagram, but takes none off the screen.
LEMMA WellKept ==
    ASSUME NEW s \in Slot, \A t \in Slot : Well(t), Well(s)',
           \A t \in Slot \ {s} : open'[t] = open[t], diagram # None => diagram' # None
    PROVE  \A t \in Slot : Well(t)'
  BY DEF Well

\* A step by one call in its own slot, as long as calls have not crossed.
LEMMA FlightKept ==
    ASSUME FlightInv, NEW s \in Slot, \A t \in Slot \ {s} : open'[t] = open[t],
           ~crossed' => ~crossed /\ (open[s] # Free \/ Idle),
           ~crossed' /\ open'[s] # Free => Flying(s)',
           ~crossed' /\ open'[s] = Free =>
              /\ ~navigatingHistory'
              /\ ~astray' /\ diagram' # None => StandsAt(breadcrumb)' /\ AddressOK'
    PROVE  FlightInv'
  <1> SUFFICES ASSUME ~crossed' PROVE OneCall' /\ AtRest'
                                      /\ \A t \in Slot : open'[t] # Free => Flying(t)'
    BY DEF FlightInv
  <1>1. \A t \in Slot \ {s} : open'[t] = Free
    BY DEF FlightInv, OneCall, Idle
  <1> QED
    BY <1>1 DEF OneCall, AtRest, Idle

\* The types hold when a call has set out.
LEMMA OutTyped ==
    ASSUME Typed, NEW s \in Slot, NEW by, NEW id, NEW url, NEW back,
           Out(s, by, id, url, back), diagram' = diagram,
           by \in {"enter", "create"} => diagram # None,
           PageOK', NavOK', UrlsOK', RestOK'
    PROVE  Typed'
  <1>1. Well(s)'
    BY DEF Out, Well
  <1>2. \A t \in Slot : Well(t)'
    BY <1>1, WellKept DEF Typed, Out
  <1>3. OpenOK'
    BY DEF Out
  <1> QED
    BY <1>2, <1>3 DEF Typed

\* So does what calls know of where they came from.
LEMMA OutFlight ==
    ASSUME FlightInv, NEW s \in Slot, NEW by, NEW id, NEW url, NEW back,
           Out(s, by, id, url, back), UNCHANGED <<diagram, title, astray, navStack>>,
           open[s] = Free, crossed' <=> (crossed \/ ~Idle),
           navigatingHistory' <=> navigatingHistory \/ by = "nav",
           by = "nav" => navIndex' > 0 /\ id = navStack[navIndex'].id,
           url = "stay" /\ by \notin {"timer", "made"} => id = urls'[at'],
           by # "boot",
           by \in {"enter", "crumb", "side", "timer"} =>
              UNCHANGED <<navIndex, urls, at>> /\ Restored(s)' = breadcrumb
    PROVE  FlightInv'
  <1> SUFFICES ASSUME ~crossed' PROVE Flying(s)'
    <2>1. open'[s] # Free
      BY RunningFacts DEF Out
    <2> QED
      BY <2>1, FlightKept DEF Out
  <1>1. /\ open'[s].by = by /\ Len(open'[s].calls) = 1 /\ Bottom(s)' = open'[s].calls[1]
        /\ Bottom(s)'.id = id /\ Bottom(s)'.url = url
    BY DEF Out, Bottom
  <1>2. ~navigatingHistory /\ (~astray /\ diagram # None => StandsAt(breadcrumb) /\ AddressOK)
    BY DEF FlightInv, AtRest
  <1>3. ~astray /\ diagram # None /\ by \in {"enter", "crumb", "side", "timer"} =>
            StandsAt(Restored(s))' /\ AddressOK'
    BY <1>2 DEF StandsAt, AddressOK
  <1> QED
    BY <1>1, <1>2, <1>3 DEF Flying, Returns

Inv == Typed /\ NoRepeats /\ FlightInv

-----------------------------------------------------------------------------
(* Gestures *)

\* What every gesture does.
LEMMA GestureFacts ==
    ASSUME Inv, NEW s \in Slot, Gesture(s)
    PROVE  /\ open[s] = Free /\ gestures' \in 0..MaxGestures
           /\ crossed' <=> (crossed \/ ~Idle)
           /\ crossed' \in BOOLEAN
           /\ UNCHANGED <<diagram, title, trouble, astray>>
  <1>1. MaxGestures \in Nat
    BY BoundAssumption
  <1>2. gestures \in Nat /\ gestures < MaxGestures /\ gestures' = gestures + 1
    BY <1>1 DEF Gesture, Inv, Typed, RestOK
  <1>3. crossed' = (crossed \/ ~Idle) /\ crossed \in BOOLEAN
    BY DEF Gesture, Inv, Typed, RestOK
  <1>4. gestures' \in 0..MaxGestures
    BY <1>1, <1>2
  <1>5. (crossed' <=> (crossed \/ ~Idle)) /\ crossed' \in BOOLEAN
    BY <1>3 DEF Idle
  <1> QED
    BY <1>4, <1>5 DEF Gesture

\* Back and Forward set out with the entry they move to.
LEMMA GotoNavInv ==
    ASSUME Inv, NEW s \in Slot, NEW i \in 1..Len(navStack), Gesture(s), GotoNav(s, i),
           UNCHANGED <<server, navStack, browser>>
    PROVE  Inv'
  <1> USE DEF Inv
  <1>1. /\ open[s] = Free /\ gestures' \in 0..MaxGestures
        /\ crossed' <=> (crossed \/ ~Idle)
        /\ crossed' \in BOOLEAN
        /\ UNCHANGED <<diagram, title, trouble, astray>>
    BY GestureFacts
  <1>2. navStack[i] \in Entry /\ Len(navStack) \in Nat
    BY ElementOfSeq, LenProperties DEF Typed, NavOK
  <1>3. navStack[i].id \in Id /\ navStack[i].crumbs \in Seq(Id)
    BY <1>2 DEF Entry
  <1>4. /\ Out(s, "nav", navStack[i].id, "replace", <<>>)
        /\ breadcrumb' \in Seq(Id) /\ dirty' = FALSE
    <2> DEFINE id == navStack[i].id
    <2>1. /\ "nav" \in Caller /\ id \in Id \cup {None} /\ <<>> \in Seq(Id)
          /\ id = None <=> "nav" = "timer"
          /\ OpenOK /\ PageOK
          /\ Go(s, "nav", <<Call(id, TRUE, "replace")>>, navStack[i].crumbs, <<>>)
      BY <1>3, NoneAssumption DEF Caller, GotoNav, Typed
    <2> HIDE DEF id
    <2>2. Out(s, "nav", id, "replace", <<>>) /\ breadcrumb' \in Seq(Id) /\ dirty' = FALSE
      BY <1>3, <2>1, GoingAlone
    <2> QED
      BY <2>2 DEF id
  <1>5. UNCHANGED <<stored, fresh, navStack, urls, at>> /\ navIndex' = i
        /\ navigatingHistory' = TRUE
    BY DEF GotoNav, server, browser
  <1>6. Typed'
    <2>1. PageOK' /\ UrlsOK' /\ RestOK'
      BY <1>1, <1>4, <1>5 DEF Typed, PageOK, UrlsOK, RestOK
    <2>2. NavOK'
      <3>1. i # 0 /\ i \in 0..Len(navStack) /\ navStack # <<>>
        BY <1>2
      <3> QED
        BY <1>5, <3>1 DEF Typed, NavOK
    <2> QED
      BY <1>1, <1>4, <2>1, <2>2, OutTyped
  <1>7. FlightInv'
    BY <1>1, <1>2, <1>4, <1>5, OutFlight
  <1> QED
    BY <1>5, <1>6, <1>7 DEF NoRepeats

\* The application's Back.
LEMMA BackInv ==
    ASSUME Inv, NEW s \in Slot, Back(s)
    PROVE  Inv'
  BY GotoNavInv DEF Back, Inv, Typed, NavOK

\* The application's Forward.
LEMMA ForwardInv ==
    ASSUME Inv, NEW s \in Slot, Forward(s)
    PROVE  Inv'
  BY GotoNavInv DEF Forward, Inv, Typed, NavOK

\* Entering, a click on a crumb, a click in the sidebar: a call that can be undone.
LEMMA ReturningInv ==
    ASSUME Inv, NEW s \in Slot, Gesture(s), NEW by \in {"enter", "crumb", "side"},
           NEW id \in Id, NEW trail \in Seq(Id), NEW back \in Seq(Id),
           Go(s, by, <<Call(id, TRUE, "push")>>, trail, back),
           by = "enter" => diagram # None /\ SubSeq(trail, 1, Len(trail) - 1) = breadcrumb,
           by # "enter" => back = breadcrumb,
           UNCHANGED <<server, nav, browser>>
    PROVE  Inv'
  <1> USE DEF Inv
  <1>1. /\ open[s] = Free /\ gestures' \in 0..MaxGestures
        /\ crossed' <=> (crossed \/ ~Idle)
        /\ crossed' \in BOOLEAN
        /\ UNCHANGED <<diagram, title, trouble, astray>>
    BY GestureFacts
  <1>2. /\ Out(s, by, id, "push", back) /\ breadcrumb' = trail /\ dirty' = FALSE
    <2>1. /\ by \in Caller /\ id \in Id \cup {None} /\ by # "timer"
          /\ id = None <=> by = "timer"
          /\ OpenOK /\ PageOK
      BY NoneAssumption DEF Caller, Typed
    <2> QED
      BY <2>1, GoingAlone
  <1>3. UNCHANGED <<stored, fresh, navStack, navIndex, navigatingHistory, urls, at>>
    BY DEF server, nav, browser
  <1>4. Typed'
    <2>1. PageOK' /\ NavOK' /\ UrlsOK' /\ RestOK'
      BY <1>1, <1>2, <1>3 DEF Typed, PageOK, NavOK, UrlsOK, RestOK
    <2> QED
      BY <1>1, <1>2, <2>1, OutTyped
  <1>5. Restored(s)' = breadcrumb
    BY <1>2 DEF Restored, Out
  <1>6. FlightInv'
    BY <1>1, <1>2, <1>3, <1>5, OutFlight
  <1> QED
    BY <1>3, <1>4, <1>6 DEF NoRepeats

\* Drilling into a component.
LEMMA EnterInv ==
    ASSUME Inv, NEW s \in Slot, Enter(s)
    PROVE  Inv'
  <1>1. PICK sub \in Id \ fresh :
           Go(s, "enter", <<Call(sub, TRUE, "push")>>, Append(breadcrumb, diagram), <<>>)
    BY DEF Enter
  <1>2. diagram \in Id /\ diagram # None /\ breadcrumb \in Seq(Id) /\ <<>> \in Seq(Id)
    BY DEF Enter, Inv, Typed, PageOK
  <1>3. /\ Append(breadcrumb, diagram) \in Seq(Id)
        /\ SubSeq(Append(breadcrumb, diagram), 1, Len(Append(breadcrumb, diagram)) - 1)
              = breadcrumb
    <2> DEFINE b == Append(breadcrumb, diagram)
    <2>1. /\ b \in Seq(Id) /\ Len(b) = Len(breadcrumb) + 1 /\ Len(breadcrumb) \in Nat
          /\ \A k \in 1..Len(breadcrumb) : b[k] = breadcrumb[k]
      BY <1>2, AppendProperties, LenProperties
    <2> HIDE DEF b
    <2>2. SubSeq(b, 1, Len(b) - 1) = breadcrumb
      BY <1>2, <2>1, SeqEqual
    <2> QED
      BY <2>1, <2>2 DEF b
  <1> QED
    BY <1>1, <1>2, <1>3, ReturningInv DEF Enter

\* A click on a crumb.
LEMMA CrumbInv ==
    ASSUME Inv, NEW s \in Slot, Crumb(s)
    PROVE  Inv'
  <1> DEFINE found(k) == {j \in 1..Len(breadcrumb) : breadcrumb[j] = title[k]}
             first(k) == CHOOSE j \in found(k) : \A i \in found(k) : j <= i
             cut(k)   == IF found(k) = {} THEN breadcrumb
                         ELSE SubSeq(breadcrumb, 1, first(k) - 1)
  <1>1. PICK k \in 1..Len(title) :
           Go(s, "crumb", <<Call(title[k], TRUE, "push")>>, cut(k), breadcrumb)
    BY DEF Crumb
  <1>2. breadcrumb \in Seq(Id) /\ title \in Seq(Id) /\ Len(breadcrumb) \in Nat
    BY LenProperties DEF Inv, Typed, PageOK
  <1>3. title[k] \in Id
    BY <1>2, ElementOfSeq
  <1>4. cut(k) \in Seq(Id)
    <2>1. CASE found(k) # {}
      <3>0. found(k) \subseteq Nat
        BY <1>2
      <3>1. \E j \in found(k) : \A i \in found(k) : j <= i
        BY <2>1, <3>0, LeastNatural
      <3>2. first(k) \in 1..Len(breadcrumb)
        BY <3>1
      <3> HIDE DEF first
      <3>3. SubSeq(breadcrumb, 1, first(k) - 1) \in Seq(Id)
        BY <1>2, <3>2
      <3> QED
        BY <2>1, <3>3
    <2> QED
      BY <1>2, <2>1
  <1> HIDE DEF cut
  <1> QED
    BY <1>1, <1>2, <1>3, <1>4, ReturningInv DEF Crumb

\* A click in the sidebar.
LEMMA SideInv ==
    ASSUME Inv, NEW s \in Slot, Side(s)
    PROVE  Inv'
  <1>1. PICK id \in Id \ fresh, trail \in Trail :
           Go(s, "side", <<Call(id, TRUE, "push")>>, trail, breadcrumb)
    BY DEF Side
  <1>2. trail \in Seq(Id)
    <2>1. PICK n \in 0..MaxTrail : trail \in [1..n -> Id \ fresh]
      BY DEF Trail
    <2>2. n \in Nat /\ trail \in [1..n -> Id]
      BY <2>1, BoundAssumption
    <2> QED
      BY <2>2, SeqDef
  <1>3. breadcrumb \in Seq(Id)
    BY DEF Inv, Typed, PageOK
  <1> QED
    BY <1>1, <1>2, <1>3, ReturningInv DEF Side

\* A gesture that first asks the service.
LEMMA WaitingInv ==
    ASSUME Inv, NEW s \in Slot, Gesture(s), NEW by \in {"create", "root"}, NEW id \in Id,
           NEW keep \in BOOLEAN, Waits(s, by, id, keep),
           by = "create" => diagram # None,
           dirty' \in BOOLEAN, dirty' = dirty \/ diagram # None,
           stored' \subseteq Id, fresh' \subseteq Id,
           UNCHANGED <<breadcrumb, nav, browser>>
    PROVE  Inv'
  <1> USE DEF Inv
  <1>1. /\ open[s] = Free /\ gestures' \in 0..MaxGestures
        /\ crossed' <=> (crossed \/ ~Idle)
        /\ crossed' \in BOOLEAN
        /\ UNCHANGED <<diagram, title, trouble, astray>>
    BY GestureFacts
  <1>2. Out(s, by, id, "push", <<>>)
    <2> DEFINE c == [Call(id, keep, "push") EXCEPT !.stage = "wait"]
    <2>1. c \in Frame /\ c.id = id /\ c.url = "push" /\ c.stage = "wait"
      BY DEF Call, Frame
    <2>2. open' = [open EXCEPT ![s] = [by |-> by, back |-> <<>>, calls |-> <<c>>]]
      BY DEF Waits
    <2> HIDE DEF c
    <2>3. /\ <<c>> \in Seq(Frame) \ {<<>>} /\ Len(<<c>>) = 1 /\ <<c>>[1] = c
          /\ <<>> \in Seq(Id) /\ by \in Caller /\ by # "timer" /\ id # None
      BY <2>1, NoneAssumption DEF Caller
    <2>4. [by |-> by, back |-> <<>>, calls |-> <<c>>] \in Running
      BY <2>3 DEF Running
    <2>5. Stacked(by, <<c>>)
      BY <2>1, <2>3 DEF Stacked
    <2> QED
      BY <2>1, <2>2, <2>3, <2>4, <2>5 DEF Out, Typed, OpenOK
  <1>3. UNCHANGED <<navStack, navIndex, navigatingHistory, urls, at>>
    BY DEF nav, browser
  <1>4. Typed'
    <2>1. PageOK' /\ NavOK' /\ UrlsOK' /\ RestOK'
      BY <1>1, <1>3 DEF Typed, PageOK, NavOK, UrlsOK, RestOK
    <2> QED
      BY <1>1, <1>2, <2>1, OutTyped
  <1>5. FlightInv'
    BY <1>1, <1>2, <1>3, OutFlight
  <1> QED
    BY <1>3, <1>4, <1>5 DEF NoRepeats

\* New subdiagram, new diagram and import, deletion of the shown diagram.
LEMMA AskingInv ==
    ASSUME Inv, NEW s \in Slot, CreateSubdiagram(s) \/ New(s) \/ Delete(s)
    PROVE  Inv'
  <1>1. /\ stored \subseteq Id /\ fresh \subseteq Id /\ dirty \in BOOLEAN
        /\ diagram = None => ~dirty
    BY DEF Inv, Typed, PageOK, RestOK
  <1>2. ASSUME CreateSubdiagram(s) PROVE Inv'
    BY <1>1, <1>2, WaitingInv DEF CreateSubdiagram
  <1>3. ASSUME New(s) PROVE Inv'
    BY <1>1, <1>3, WaitingInv DEF New
  <1>4. ASSUME Delete(s) PROVE Inv'
    BY <1>1, <1>4, WaitingInv DEF Delete
  <1> QED
    BY <1>2, <1>3, <1>4

\* The debounced save sets out.
LEMMA SaveInv ==
    ASSUME Inv, NEW s \in Slot, Save(s)
    PROVE  Inv'
  <1> USE DEF Inv
  <1>1. /\ open[s] = Free /\ dirty
        /\ UNCHANGED <<stored, fresh, diagram, title, navStack, navIndex, navigatingHistory,
                       urls, at, gestures, trouble, astray>>
        /\ Go(s, "timer", <<Call(None, TRUE, "stay")>>, breadcrumb, <<>>)
    BY DEF Save, server, nav, browser
  <1>2. (crossed' <=> (crossed \/ ~Idle)) /\ crossed' \in BOOLEAN
    BY DEF Save, Typed, RestOK, Idle
  <1>3. Out(s, "timer", None, "stay", <<>>) /\ breadcrumb' = breadcrumb /\ dirty' = FALSE
    <2>1. /\ "timer" \in Caller /\ <<>> \in Seq(Id) /\ breadcrumb \in Seq(Id)
          /\ OpenOK /\ PageOK
      BY DEF Caller, Typed, PageOK
    <2> QED
      BY <1>1, <2>1, GoingAlone
  <1>4. Typed'
    <2>1. PageOK' /\ NavOK' /\ UrlsOK' /\ RestOK'
      BY <1>1, <1>2, <1>3 DEF Typed, PageOK, NavOK, UrlsOK, RestOK
    <2> QED
      BY <1>1, <1>3, <2>1, OutTyped
  <1>5. Restored(s)' = breadcrumb
    BY <1>3 DEF Restored, Out
  <1>6. FlightInv'
    BY <1>1, <1>2, <1>3, <1>5, OutFlight
  <1> QED
    BY <1>1, <1>4, <1>6 DEF NoRepeats

\* The browser's Back and Forward.
LEMMA PopStateInv ==
    ASSUME Inv, NEW s \in Slot, PopState(s)
    PROVE  Inv'
  <1> USE DEF Inv
  <1>1. /\ open[s] = Free /\ gestures' \in 0..MaxGestures
        /\ crossed' <=> (crossed \/ ~Idle)
        /\ crossed' \in BOOLEAN
        /\ UNCHANGED <<diagram, title, trouble, astray>>
    BY GestureFacts DEF PopState
  <1>2. /\ UNCHANGED <<stored, fresh, navStack, navIndex, navigatingHistory, urls>>
        /\ at' \in 1..Len(urls)
    BY DEF PopState, server, nav
  <1>3. UrlsOK' /\ NavOK' /\ RestOK'
    BY <1>1, <1>2 DEF Typed, UrlsOK, NavOK, RestOK
  <1>4. CASE urls[at'] \in {None, diagram} /\ UNCHANGED <<open, dirty, breadcrumb>>
    <2>1. Typed'
      BY <1>1, <1>3, <1>4 DEF Typed, PageOK, OpenOK, Well
    <2>2. FlightInv'
      <3> SUFFICES ASSUME ~crossed' PROVE OneCall' /\ AtRest' /\ Idle'
        BY DEF FlightInv, Idle
      <3>1. ~crossed /\ Idle
        BY <1>1
      <3> QED
        BY <1>1, <1>2, <1>4, <3>1
        DEF FlightInv, OneCall, AtRest, StandsAt, AddressOK, Idle
    <2> QED
      BY <1>2, <2>1, <2>2 DEF NoRepeats
  <1>5. CASE /\ urls[at'] \notin {None, diagram}
             /\ Go(s, "pop", <<Call(urls[at'], FALSE, "stay")>>, breadcrumb, <<>>)
    <2> DEFINE id == urls[at']
    <2>1. id \in Id
      BY <1>2, <1>5, ElementOfSeq DEF Typed, UrlsOK
    <2>2. Go(s, "pop", <<Call(id, FALSE, "stay")>>, breadcrumb, <<>>) /\ id = urls'[at']
      BY <1>2, <1>5
    <2> HIDE DEF id
    <2>3. Out(s, "pop", id, "stay", <<>>) /\ breadcrumb' \in Seq(Id) /\ dirty' = FALSE
      <3>1. /\ "pop" \in Caller /\ <<>> \in Seq(Id) /\ breadcrumb \in Seq(Id)
            /\ id \in Id \cup {None} /\ OpenOK /\ PageOK
            /\ id = None <=> "pop" = "timer"
        BY <2>1, NoneAssumption DEF Caller, Typed, PageOK
      <3> QED
        BY <2>2, <3>1, GoingAlone
    <2>4. Typed'
      <3>1. PageOK'
        BY <1>1, <2>3 DEF Typed, PageOK
      <3> QED
        BY <1>1, <1>3, <2>3, <3>1, OutTyped
    <2>5. FlightInv'
      BY <1>1, <1>2, <2>2, <2>3, OutFlight
    <2> QED
      BY <1>2, <2>4, <2>5 DEF NoRepeats
  <1> QED
    BY <1>4, <1>5 DEF PopState

\* An edit, and a deletion by somebody else, move nothing.
LEMMA AsideInv ==
    ASSUME Inv, Edit \/ Elsewhere
    PROVE  Inv'
  <1> USE DEF Inv
  <1>1. /\ UNCHANGED <<diagram, breadcrumb, title, navStack, navIndex, navigatingHistory,
                       urls, at, open, crossed, astray>>
        /\ stored' \subseteq Id /\ fresh' = fresh
        /\ dirty' \in BOOLEAN /\ (dirty' => dirty \/ diagram # None)
    <2>1. stored \subseteq Id /\ dirty \in BOOLEAN
      BY DEF Typed, PageOK, RestOK
    <2>2. CASE Edit
      BY <2>1, <2>2 DEF Edit, server, nav, browser
    <2>3. CASE Elsewhere
      BY <2>1, <2>3 DEF Elsewhere, page, nav, browser
    <2> QED
      BY <2>2, <2>3
  <1>2. gestures' \in 0..MaxGestures /\ trouble' \in 0..MaxTrouble
    <2>1. MaxGestures \in Nat /\ MaxTrouble \in Nat
      BY BoundAssumption
    <2> QED
      BY <2>1 DEF Edit, Elsewhere, Typed, RestOK
  <1>3. Typed'
    BY <1>1, <1>2 DEF Typed, PageOK, NavOK, UrlsOK, RestOK, OpenOK, Well
  <1>4. \A s \in Slot : open[s] # Free => (Flying(s) <=> Flying(s)')
    BY <1>1 DEF Flying, Bottom, Returns, Restored, StandsAt, AddressOK
  <1>5. FlightInv'
    BY <1>1, <1>4 DEF FlightInv, OneCall, AtRest, Idle, StandsAt, AddressOK
  <1> QED
    BY <1>1, <1>3, <1>5 DEF NoRepeats

-----------------------------------------------------------------------------
(* Answers *)

\* What is known of a running slot.
LEMMA Running1 ==
    ASSUME Inv, NEW s \in Slot, open[s] # Free
    PROVE  /\ open[s] \in Running /\ open[s].by \in Caller /\ open[s].back \in Seq(Id)
           /\ open[s].calls \in Seq(Frame) \ {<<>>}
           /\ Len(open[s].calls) \in Nat /\ Len(open[s].calls) >= 1
           /\ Top(s) = open[s].calls[1] /\ Top(s) \in Frame
           /\ Stacked(open[s].by, open[s].calls)
           /\ open[s].by \in {"enter", "create"} => diagram # None
  <1>1. open[s] \in Running
    BY RunningFacts DEF Inv, Typed
  <1>2. open[s].calls \in Seq(Frame) \ {<<>>}
    BY <1>1 DEF Running
  <1>3. /\ Len(open[s].calls) \in Nat /\ Len(open[s].calls) >= 1
        /\ Top(s) = open[s].calls[1] /\ Top(s) \in Frame
    BY <1>2, HeadTailProperties DEF Top
  <1>4. Well(s)
    BY DEF Inv, Typed
  <1> QED
    BY <1>1, <1>2, <1>3, <1>4 DEF Running, Well

\* A call with no diagram to open is the debounced save, and alone.
LEMMA BareSave ==
    ASSUME Inv, NEW s \in Slot, open[s] # Free, Top(s).id = None
    PROVE  Len(open[s].calls) = 1 /\ open[s].by = "timer"
  <1> DEFINE n == Len(open[s].calls)
  <1>1. n \in Nat /\ n >= 1 /\ Top(s) = open[s].calls[1] /\ Stacked(open[s].by, open[s].calls)
    BY Running1
  <1>2. ~(1 \in 1..n - 1)
    BY <1>1 DEF Stacked
  <1> HIDE DEF n
  <1>3. n = 1
    BY <1>1, <1>2
  <1> QED
    BY <1>1, <1>3 DEF Stacked, n

\* As long as nothing has gone astray only a save has a call on top of it.
LEMMA CallAlone ==
    ASSUME Inv, NEW s \in Slot, open[s] # Free, ~crossed, ~astray, open[s].by # "timer"
    PROVE  Len(open[s].calls) = 1
  <1> DEFINE n == Len(open[s].calls)
  <1>1. n \in Nat /\ n >= 1
    BY Running1
  <1>2. ~(n > 1)
    BY DEF Inv, FlightInv, Flying
  <1> HIDE DEF n
  <1>3. n = 1
    BY <1>1, <1>2
  <1> QED
    BY <1>3 DEF n

\* The place a failed or finished call leaves behind is a trail.
LEMMA RestoredTrail ==
    ASSUME Inv, NEW s \in Slot, open[s] # Free
    PROVE  Restored(s) \in Seq(Id)
  <1>1. breadcrumb \in Seq(Id) /\ open[s].back \in Seq(Id) /\ Len(breadcrumb) \in Nat
    BY Running1, LenProperties DEF Inv, Typed, PageOK
  <1>2. SubSeq(breadcrumb, 1, Len(breadcrumb) - 1) \in Seq(Id)
    <2>1. CASE Len(breadcrumb) = 0
      <3>1. SubSeq(breadcrumb, 1, Len(breadcrumb) - 1) = <<>>
        BY <1>1, <2>1
      <3> QED
        BY <3>1
    <2>2. CASE Len(breadcrumb) # 0
      BY <1>1, <2>2
    <2> QED
      BY <2>1, <2>2
  <1> QED
    BY <1>1, <1>2 DEF Restored

\* The save that a call flushed has come to an end.
LEMMA FlushedInv ==
    ASSUME Inv, NEW s \in Slot, Flushed(s)
    PROVE  Inv'
  <1> USE DEF Inv
  <1> DEFINE calls == open[s].calls
             n     == Len(open[s].calls)
  <1>1. /\ open[s] # Free /\ Top(s).stage = "flush"
        /\ UNCHANGED <<stored, fresh, diagram, dirty, title, navStack, navIndex, urls, at,
                       gestures, trouble, crossed>>
    BY DEF Flushed, server, browser
  <1>2. /\ open[s] \in Running /\ open[s].by \in Caller /\ calls \in Seq(Frame) \ {<<>>}
        /\ n \in Nat /\ n >= 1 /\ Top(s) = calls[1] /\ Top(s) \in Frame
        /\ Stacked(open[s].by, calls)
        /\ open[s].by \in {"enter", "create"} => diagram # None
    BY <1>1, Running1
  <1>3. UrlsOK'
    BY <1>1 DEF Typed, UrlsOK
  <1>4. CASE Top(s).id = None /\ Done(s) /\ UNCHANGED breadcrumb
    <2>1. n = 1 /\ open[s].by = "timer"
      BY <1>1, <1>4, BareSave
    <2>2. /\ open' = [open EXCEPT ![s] = Free] /\ astray' = astray
          /\ navigatingHistory' = navigatingHistory
      BY <2>1, <1>4 DEF Done, Release, Typed, NavOK
    <2>3. /\ OpenOK' /\ open'[s] = Free
          /\ \A t \in Slot \ {s} : open'[t] = open[t]
      BY <2>2 DEF Typed, OpenOK
    <2>4. Typed'
      <3>1. PageOK' /\ NavOK' /\ RestOK'
        BY <1>1, <1>4, <2>2 DEF Typed, PageOK, NavOK, RestOK
      <3>2. \A t \in Slot : Well(t)'
        BY <1>1, <2>3 DEF Typed, Well
      <3> QED
        BY <1>3, <2>3, <3>1, <3>2 DEF Typed
    <2>5. FlightInv'
      <3> SUFFICES ASSUME ~crossed
                   PROVE  /\ ~navigatingHistory'
                          /\ ~astray' /\ diagram' # None => StandsAt(breadcrumb)' /\ AddressOK'
        BY <1>1, <2>3, FlightKept
      <3>1. Flying(s) /\ Restored(s) = breadcrumb
        BY <1>1, <2>1 DEF FlightInv, Restored
      <3> QED
        BY <1>1, <1>4, <2>1, <2>2, <3>1 DEF Flying, Returns, StandsAt, AddressOK
    <2> QED
      BY <1>1, <2>4, <2>5 DEF NoRepeats
  <1>5. CASE /\ Top(s).id # None
             /\ open' = [open EXCEPT ![s].calls[1].stage = "get"]
             /\ breadcrumb' = (IF Top(s).keep THEN breadcrumb ELSE <<>>)
             /\ UNCHANGED <<navigatingHistory, astray>>
    <2> DEFINE top == [calls[1] EXCEPT !.stage = "get"]
               new == [calls EXCEPT ![1] = top]
    <2>1. /\ top \in Frame /\ top.id = calls[1].id /\ top.url = calls[1].url
          /\ top.keep = calls[1].keep /\ top.stage = "get"
      BY <1>2 DEF Frame
    <2>2. open' = [open EXCEPT ![s] = [open[s] EXCEPT !.calls = new]]
      BY <1>2, <1>5
    <2> HIDE DEF top
    <2>3. /\ new \in Seq(Frame) /\ Len(new) = n /\ new[1] = top
          /\ \A k \in 2..n : new[k] = calls[k]
      BY <1>2, <2>1, ExceptSeq
    <2> HIDE DEF new
    <2>4. new # <<>>
      BY <1>2, <2>3
    <2>5. [open[s] EXCEPT !.calls = new] \in Running
      BY <1>2, <2>3, <2>4 DEF Running
    <2>6. /\ OpenOK' /\ open'[s] \in Running /\ open'[s].by = open[s].by
          /\ open'[s].back = open[s].back /\ open'[s].calls = new
          /\ \A t \in Slot \ {s} : open'[t] = open[t]
      BY <1>2, <2>2, <2>5 DEF Typed, OpenOK, Running
    <2>7. \A k \in 1..n : /\ new[k].id = calls[k].id /\ new[k].url = calls[k].url
                          /\ new[k].keep = calls[k].keep
      <3>1. \A k \in 1..n : k = 1 \/ k \in 2..n
        BY <1>2
      <3> QED
        BY <2>1, <2>3, <3>1
    <2>8. n \in 1..n /\ \A k \in 1..n - 1 : k \in 1..n
      BY <1>2
    <2>9. Stacked(open[s].by, new)
      BY <1>2, <1>5, <2>1, <2>3, <2>7, <2>8 DEF Stacked
    <2>10. Typed'
      <3>1. PageOK' /\ NavOK' /\ RestOK'
        BY <1>1, <1>5 DEF Typed, PageOK, NavOK, RestOK
      <3>2. Well(s)'
        BY <1>1, <1>2, <2>6, <2>9 DEF Well
      <3>3. \A t \in Slot : Well(t)'
        BY <1>1, <2>6, <3>2, WellKept DEF Typed
      <3> QED
        BY <1>3, <2>6, <3>1, <3>3 DEF Typed
    <2>11. FlightInv'
      <3> SUFFICES ASSUME ~crossed PROVE Flying(s)'
        <4>1. open'[s] # Free
          BY <2>6, RunningFacts
        <4> QED
          BY <1>1, <2>6, <4>1, FlightKept
      <3>1. Flying(s)
        BY <1>1 DEF FlightInv
      <3>2. Bottom(s)'.id = Bottom(s).id /\ Bottom(s)'.url = Bottom(s).url
        BY <2>3, <2>6, <2>7, <2>8 DEF Bottom
      <3>3. Returns(s)' => Returns(s)
        BY <2>3, <2>6 DEF Returns
      <3>4. Returns(s) /\ ~astray => Restored(s)' = Restored(s)
        <4>1. Returns(s) => open[s].by # "timer"
          BY <1>2, <1>5 DEF Returns, Stacked
        <4> SUFFICES ASSUME ~astray, open[s].by = "enter"
                     PROVE  breadcrumb' = breadcrumb
          BY <2>6, <4>1 DEF Restored, Returns
        <4>2. n = 1
          BY <1>1, CallAlone
        <4> QED
          BY <1>2, <1>5, <4>2 DEF Stacked
      <3> QED
        BY <1>1, <1>5, <2>3, <2>6, <2>7, <2>8, <3>1, <3>2, <3>3, <3>4
        DEF Flying, StandsAt, AddressOK
    <2> QED
      BY <1>1, <2>10, <2>11 DEF NoRepeats
  <1> QED
    BY <1>4, <1>5 DEF Flushed

\* The service has answered: what it made is opened.
LEMMA ProceedsInv ==
    ASSUME Inv, NEW s \in Slot, Proceeds(s)
    PROVE  Inv'
  <1> USE DEF Inv
  <1> DEFINE calls == open[s].calls
             n     == Len(open[s].calls)
             by    == open[s].by
             trail == IF by = "create" THEN Append(breadcrumb, diagram) ELSE breadcrumb
  <1>1. /\ open[s] # Free /\ Top(s).stage = "wait"
        /\ Go(s, by, calls, trail, <<>>)
        /\ UNCHANGED <<stored, fresh, diagram, title, navStack, navIndex, navigatingHistory,
                       urls, at, gestures, trouble, crossed, astray>>
    BY DEF Proceeds, server, nav, browser
  <1>2. /\ by \in Caller /\ calls \in Seq(Frame) \ {<<>>}
        /\ n \in Nat /\ n >= 1 /\ Top(s) = calls[1] /\ Top(s) \in Frame
        /\ Stacked(by, calls)
        /\ by \in {"enter", "create"} => diagram # None
    BY <1>1, Running1
  <1>3. by \in {"create", "root"}
    BY <1>1, <1>2 DEF Stacked
  <1>4. trail \in Seq(Id) /\ <<>> \in Seq(Id)
    BY <1>2 DEF Typed, PageOK
  <1> HIDE DEF trail
  <1>5. /\ OpenOK' /\ open'[s] \in Running
        /\ open'[s].by = by /\ open'[s].back = <<>>
        /\ \A t \in Slot \ {s} : open'[t] = open[t]
        /\ Len(open'[s].calls) = n
        /\ \A k \in 1..n : /\ open'[s].calls[k].id = calls[k].id
                           /\ open'[s].calls[k].url = calls[k].url
        /\ Stacked(by, open'[s].calls)
        /\ breadcrumb' \in Seq(Id) /\ dirty' = FALSE
    <2>1. /\ \A k \in 1..Len(calls) - 1 : calls[k].id # None
          /\ calls[Len(calls)].id = None <=> by = "timer"
          /\ by = "timer" /\ Len(calls) = 1 => dirty
          /\ by = "enter" => calls[Len(calls)].keep
      BY <1>2, <1>3 DEF Stacked
    <2>2. OpenOK /\ PageOK
      BY DEF Typed
    <2> DEFINE back == <<>>
    <2>3. /\ by \in Caller /\ calls \in Seq(Frame) \ {<<>>} /\ back \in Seq(Id)
          /\ Go(s, by, calls, trail, back)
      BY <1>1, <1>2, <1>4
    <2> HIDE DEF by, calls, back
    <2>4. /\ OpenOK' /\ open'[s] \in Running
          /\ open'[s].by = by /\ open'[s].back = back
          /\ \A t \in Slot \ {s} : open'[t] = open[t]
          /\ Len(open'[s].calls) = Len(calls)
          /\ \A k \in 1..Len(calls) : /\ open'[s].calls[k].id = calls[k].id
                                       /\ open'[s].calls[k].url = calls[k].url
          /\ Stacked(by, open'[s].calls)
          /\ breadcrumb' \in Seq(Id) /\ (calls[1].keep => breadcrumb' = trail)
          /\ dirty' = FALSE
      BY <1>4, <2>1, <2>2, <2>3, Going
    <2> QED
      BY <2>4 DEF by, calls, back
  <1>6. Typed'
    <2>1. PageOK' /\ NavOK' /\ UrlsOK' /\ RestOK'
      BY <1>1, <1>5 DEF Typed, PageOK, NavOK, UrlsOK, RestOK
    <2>2. Well(s)'
      BY <1>1, <1>2, <1>5 DEF Well
    <2>3. \A t \in Slot : Well(t)'
      BY <1>1, <1>5, <2>2, WellKept DEF Typed
    <2> QED
      BY <1>5, <2>1, <2>3 DEF Typed
  <1>7. FlightInv'
    <2> SUFFICES ASSUME ~crossed PROVE Flying(s)'
      <3>1. open'[s] # Free
        BY <1>5, RunningFacts
      <3> QED
        BY <1>1, <1>5, <3>1, FlightKept
    <2>1. Flying(s)
      BY <1>1 DEF FlightInv
    <2>2. n \in 1..n /\ \A k \in 1..n - 1 : k \in 1..n
      BY <1>2
    <2>3. Bottom(s)'.id = Bottom(s).id /\ Bottom(s)'.url = Bottom(s).url
      BY <1>5, <2>2 DEF Bottom
    <2> QED
      BY <1>1, <1>3, <1>5, <2>1, <2>2, <2>3 DEF Flying, Returns
  <1> QED
    BY <1>1, <1>6, <1>7 DEF NoRepeats

\* The save is refused: the shown diagram is loaded again, on top of the call.
LEMMA ConflictInv ==
    ASSUME Inv, NEW s \in Slot, Conflict(s)
    PROVE  Inv'
  <1> USE DEF Inv
  <1> DEFINE calls == open[s].calls
             n     == Len(open[s].calls)
             by    == open[s].by
             more  == <<Call(diagram, FALSE, "stay")>> \o calls
  <1>1. /\ open[s] # Free /\ diagram # None
        /\ Go(s, by, more, breadcrumb, open[s].back)
        /\ UNCHANGED <<stored, fresh, diagram, title, navStack, navIndex, navigatingHistory,
                       urls, at, gestures, crossed>>
        /\ astray' = (astray \/ by # "timer")
        /\ trouble < MaxTrouble /\ trouble' = trouble + 1
    BY DEF Conflict, server, nav, browser
  <1>2. /\ by \in Caller /\ calls \in Seq(Frame) \ {<<>>} /\ open[s].back \in Seq(Id)
        /\ n \in Nat /\ n >= 1
        /\ Stacked(by, calls)
        /\ by \in {"enter", "create"} => diagram # None
    BY <1>1, Running1
  <1>3. /\ more \in Seq(Frame) \ {<<>>} /\ Len(more) = n + 1
        /\ more[1].id = diagram /\ more[1].url = "stay" /\ diagram \in Id
        /\ \A k \in 2..n + 1 : more[k] = calls[k - 1]
    <2> DEFINE c == Call(diagram, FALSE, "stay")
    <2>1. c \in Frame /\ c.id = diagram /\ c.url = "stay" /\ diagram \in Id
      BY <1>1 DEF Call, Frame, Typed, PageOK
    <2> HIDE DEF c
    <2>2. <<c>> \in Seq(Frame) /\ Len(<<c>>) = 1 /\ <<c>>[1] = c
      BY <2>1
    <2>3. more = <<c>> \o calls
      BY DEF c
    <2> HIDE DEF more
    <2>4. /\ more \in Seq(Frame) /\ Len(more) = n + 1
          /\ more[1] = c
          /\ \A k \in 2..n + 1 : more[k] = calls[k - 1]
      BY <1>2, <2>2, <2>3, ConcatProperties
    <2>5. more # <<>>
      BY <1>2, <2>4
    <2> QED
      BY <2>1, <2>4, <2>5
  <1> HIDE DEF more
  <1>4. /\ \A k \in 1..n : k = 1 \/ (k \in 2..n + 1 /\ k - 1 \in 1..n - 1)
        /\ n + 1 \in 2..n + 1 /\ (n + 1) - 1 = n /\ n + 1 > 1 /\ n + 1 # 1
        /\ 1 \in 1..n + 1
        /\ \A k \in 1..n : k \in 1..n + 1
    BY <1>2
  <1>5. /\ OpenOK' /\ open'[s] \in Running
        /\ open'[s].by = by /\ open'[s].back = open[s].back
        /\ \A t \in Slot \ {s} : open'[t] = open[t]
        /\ Len(open'[s].calls) = n + 1
        /\ \A k \in 1..n + 1 : /\ open'[s].calls[k].id = more[k].id
                               /\ open'[s].calls[k].url = more[k].url
        /\ Stacked(by, open'[s].calls)
        /\ breadcrumb' \in Seq(Id) /\ dirty' = FALSE
    <2>1. \A k \in 1..n : more[k].id # None
      <3>1. \A k \in 1..n - 1 : calls[k].id # None
        BY <1>2 DEF Stacked
      <3> QED
        BY <1>1, <1>3, <1>4, <3>1
    <2>2. more[n + 1] = calls[n]
      BY <1>3, <1>4
    <2>3. /\ \A k \in 1..Len(more) - 1 : more[k].id # None
          /\ more[Len(more)].id = None <=> by = "timer"
          /\ by = "timer" /\ Len(more) = 1 => dirty
          /\ by = "enter" => more[Len(more)].keep
      BY <1>2, <1>3, <1>4, <2>1, <2>2 DEF Stacked
    <2>4. OpenOK /\ PageOK /\ breadcrumb \in Seq(Id)
      BY DEF Typed, PageOK
    <2> DEFINE back == open[s].back
    <2>5. /\ by \in Caller /\ back \in Seq(Id) /\ more \in Seq(Frame) \ {<<>>}
          /\ Go(s, by, more, breadcrumb, back)
      BY <1>1, <1>2, <1>3
    <2> HIDE DEF by, back
    <2>6. /\ OpenOK' /\ open'[s] \in Running
          /\ open'[s].by = by /\ open'[s].back = back
          /\ \A t \in Slot \ {s} : open'[t] = open[t]
          /\ Len(open'[s].calls) = Len(more)
          /\ \A k \in 1..Len(more) : /\ open'[s].calls[k].id = more[k].id
                                      /\ open'[s].calls[k].url = more[k].url
          /\ Stacked(by, open'[s].calls)
          /\ breadcrumb' \in Seq(Id) /\ (more[1].keep => breadcrumb' = breadcrumb)
          /\ dirty' = FALSE
      BY <2>3, <2>4, <2>5, Going
    <2> QED
      BY <1>3, <2>6 DEF by, back
  <1>6. Typed'
    <2>1. trouble' \in 0..MaxTrouble /\ astray' \in BOOLEAN
      <3>1. MaxTrouble \in Nat
        BY BoundAssumption
      <3> QED
        BY <1>1, <3>1 DEF Typed, RestOK
    <2>2. PageOK' /\ NavOK' /\ UrlsOK' /\ RestOK'
      BY <1>1, <1>5, <2>1 DEF Typed, PageOK, NavOK, UrlsOK, RestOK
    <2>3. Well(s)'
      BY <1>1, <1>2, <1>5 DEF Well
    <2>4. \A t \in Slot : Well(t)'
      BY <1>1, <1>5, <2>3, WellKept DEF Typed
    <2> QED
      BY <1>5, <2>2, <2>4 DEF Typed
  <1>7. FlightInv'
    <2> SUFFICES ASSUME ~crossed PROVE Flying(s)'
      <3>1. open'[s] # Free
        BY <1>5, RunningFacts
      <3> QED
        BY <1>1, <1>5, <3>1, FlightKept
    <2>1. Flying(s)
      BY <1>1 DEF FlightInv
    <2>2. Bottom(s)'.id = Bottom(s).id /\ Bottom(s)'.url = Bottom(s).url
      <3>1. more[n + 1] = calls[n] /\ n + 1 \in 1..n + 1
        BY <1>2, <1>3, <1>4
      <3>2. Bottom(s)' = open'[s].calls[n + 1] /\ Bottom(s) = calls[n]
        BY <1>5 DEF Bottom
      <3> QED
        BY <1>5, <3>1, <3>2
    <2>3. \A k \in 1..n : /\ open'[s].calls[k].id = diagram
                          /\ open'[s].calls[k].url = "stay"
      <3>1. \A k \in 1..n - 1 : calls[k].id = diagram /\ calls[k].url = "stay"
        BY <2>1 DEF Flying
      <3> HIDE DEF n
      <3>2. ASSUME NEW k \in 1..n PROVE more[k].id = diagram /\ more[k].url = "stay"
        BY <1>3, <1>4, <3>1
      <3> QED
        BY <1>4, <1>5, <3>2
    <2>4. ~Returns(s)' \/ astray'
      BY <1>1, <1>4, <1>5 DEF Returns
    <2>5. ~astray' => by = "timer" /\ ~astray
      BY <1>1
    <2> QED
      BY <1>1, <1>4, <1>5, <2>1, <2>2, <2>3, <2>4, <2>5 DEF Flying, AddressOK
  <1> QED
    BY <1>1, <1>6, <1>7 DEF NoRepeats

\* What the arrival of a diagram does to the page and to both histories.
LEMMA ShowFacts ==
    ASSUME Inv, NEW s \in Slot, open[s] # Free, Top(s).id # None, Show(Top(s))
    PROVE  /\ diagram' = Top(s).id /\ diagram' \in Id /\ title' = breadcrumb
           /\ navStack' \in Seq(Entry) /\ navIndex' \in 0..Len(navStack')
           /\ (navIndex' = 0) <=> (navStack' = <<>>)
           /\ navigatingHistory => UNCHANGED <<navStack, navIndex>>
           /\ ~navigatingHistory =>
                 /\ navIndex' > 0
                 /\ navStack'[navIndex'] = [id |-> Top(s).id, crumbs |-> breadcrumb]
           /\ NoRepeats'
           /\ UrlsOK'
           /\ IF Top(s).url = "stay" THEN urls' = urls /\ at' = at
                                     ELSE urls'[at'] = Top(s).id
  <1> DEFINE id  == Top(s).id
             url == Top(s).url
  <1>1. /\ id \in Id /\ url \in {"push", "replace", "stay"}
        /\ diagram' = id /\ title' = breadcrumb /\ Record(id) /\ Address(id, url)
    BY Running1 DEF Frame, Show
  <1> HIDE DEF id, url
  <1>2. /\ navStack \in Seq(Entry) /\ navIndex \in 0..Len(navStack)
        /\ (navIndex = 0) <=> (navStack = <<>>)
        /\ breadcrumb \in Seq(Id)
        /\ urls \in Seq(Id \cup {None}) /\ at \in 1..Len(urls) /\ NoRepeats
    BY DEF Inv, Typed, NavOK, PageOK, UrlsOK
  <1>3. /\ navStack' \in Seq(Entry) /\ navIndex' \in 0..Len(navStack')
        /\ (navIndex' = 0) <=> (navStack' = <<>>)
        /\ navigatingHistory => UNCHANGED <<navStack, navIndex>>
        /\ ~navigatingHistory =>
              /\ navIndex' > 0
              /\ navStack'[navIndex'] = [id |-> id, crumbs |-> breadcrumb]
        /\ NoRepeats => NoRepeats'
    BY <1>1, <1>2, Recording
  <1>4. /\ urls' \in Seq(Id \cup {None}) /\ at' \in 1..Len(urls')
        /\ IF url = "stay" THEN urls' = urls /\ at' = at ELSE urls'[at'] = id
    BY <1>1, <1>2, Addressing
  <1> QED
    BY <1>1, <1>2, <1>3, <1>4 DEF UrlsOK, id, url

\* The answer ends the outermost call, or the reload inside a save.
LEMMA ArrivedInv ==
    ASSUME Inv, NEW s \in Slot, open[s] # Free, Top(s).id # None, Show(Top(s)),
           Done(s), UNCHANGED <<breadcrumb, stored, fresh, dirty, gestures, trouble, crossed>>,
           IF open[s].by = "timer" THEN Len(open[s].calls) = 2 ELSE Len(open[s].calls) = 1
    PROVE  Inv'
  <1> USE DEF Inv
  <1> DEFINE by == open[s].by
  <1>1. /\ diagram' = Top(s).id /\ diagram' \in Id /\ title' = breadcrumb
        /\ navStack' \in Seq(Entry) /\ navIndex' \in 0..Len(navStack')
        /\ (navIndex' = 0) <=> (navStack' = <<>>)
        /\ navigatingHistory => UNCHANGED <<navStack, navIndex>>
        /\ ~navigatingHistory =>
              /\ navIndex' > 0
              /\ navStack'[navIndex'] = [id |-> Top(s).id, crumbs |-> breadcrumb]
        /\ NoRepeats'
        /\ UrlsOK'
        /\ IF Top(s).url = "stay" THEN urls' = urls /\ at' = at
                                  ELSE urls'[at'] = Top(s).id
    BY ShowFacts
  <1>2. /\ open' = [open EXCEPT ![s] = Free]
        /\ navigatingHistory' = (navigatingHistory /\ by # "nav")
        /\ by = "nav" => astray' = (breadcrumb # navStack[navIndex].crumbs)
        /\ by = "made" => astray' = TRUE
        /\ by = "timer" => astray' = astray
        /\ by \notin {"nav", "made", "timer"} => astray' = FALSE
    BY DEF Done, Release
  <1>3. /\ OpenOK' /\ open'[s] = Free
        /\ \A t \in Slot \ {s} : open'[t] = open[t]
    BY <1>2 DEF Typed, OpenOK
  <1>4. Typed'
    <2>1. astray' \in BOOLEAN /\ navigatingHistory' \in BOOLEAN
      BY <1>2 DEF Typed, RestOK, NavOK
    <2>2. diagram' # None
      BY <1>1, NoneAssumption
    <2>3. PageOK' /\ NavOK' /\ RestOK'
      BY <1>1, <2>1, <2>2 DEF Typed, PageOK, NavOK, RestOK
    <2>4. Well(s)'
      BY <1>3 DEF Well
    <2>5. \A t \in Slot : Well(t)'
      BY <1>3, <2>2, <2>4, WellKept DEF Typed
    <2> QED
      BY <1>1, <1>3, <2>3, <2>5 DEF Typed
  <1>5. FlightInv'
    <2> SUFFICES ASSUME ~crossed
                 PROVE  /\ ~navigatingHistory'
                        /\ ~astray' /\ diagram' # None => StandsAt(breadcrumb)' /\ AddressOK'
      BY <1>3, FlightKept
    <2>1. Flying(s)
      BY DEF FlightInv
    <2>2. ~navigatingHistory'
      BY <1>2, <2>1 DEF Flying
    <2> SUFFICES ASSUME ~astray' PROVE StandsAt(breadcrumb)' /\ AddressOK'
      BY <2>2
    <2>3. by # "made" /\ Top(s) = open[s].calls[1]
      BY <1>2, Running1
    <2>4. CASE by = "timer"
      <3>1. 1 \in 1..Len(open[s].calls) - 1
        <4>1. Len(open[s].calls) = 2
          BY <2>4
        <4> QED
          BY <4>1
      <3>2. /\ Top(s).id = diagram /\ Top(s).url = "stay" /\ diagram # None
            /\ ~navigatingHistory /\ ~astray
        BY <1>2, <2>1, <2>3, <2>4, <3>1 DEF Flying
      <3>3. AddressOK
        BY <2>1, <2>4, <3>2 DEF Flying
      <3> QED
        BY <1>1, <3>2, <3>3 DEF StandsAt, AddressOK
    <2>5. CASE by # "timer"
      <3>1. Bottom(s) = Top(s)
        BY <2>3, <2>5 DEF Bottom
      <3>2. AddressOK'
        BY <1>1, <2>1, <2>3, <2>5, <3>1 DEF Flying, AddressOK
      <3>3. CASE by = "nav"
        <4>1. /\ navIndex > 0 /\ Top(s).id = navStack[navIndex].id /\ UNCHANGED <<navStack, navIndex>>
              /\ breadcrumb = navStack[navIndex].crumbs
          BY <1>1, <1>2, <2>1, <3>1, <3>3 DEF Flying
        <4>2. navIndex \in 1..Len(navStack)
          BY <4>1, LenProperties DEF Typed, NavOK
        <4>3. navStack[navIndex] \in Entry
          BY <4>2, ElementOfSeq DEF Typed, NavOK
        <4>4. navStack[navIndex] = [id |-> Top(s).id, crumbs |-> breadcrumb]
          BY <4>1, <4>3 DEF Entry
        <4> QED
          BY <1>1, <3>2, <4>1, <4>4 DEF StandsAt
      <3>4. CASE by # "nav"
        <4>1. ~navigatingHistory
          BY <2>1, <3>4 DEF Flying
        <4> QED
          BY <1>1, <3>2, <4>1 DEF StandsAt
      <3> QED
        BY <3>3, <3>4
    <2> QED
      BY <2>4, <2>5
  <1> QED
    BY <1>1, <1>4, <1>5

\* The answer ends a reload inside a call, which goes on past its flush.
LEMMA ReloadedInv ==
    ASSUME Inv, NEW s \in Slot, open[s] # Free, Top(s).id # None, Show(Top(s)),
           UNCHANGED <<navigatingHistory, astray, stored, fresh, dirty, gestures, trouble, crossed>>,
           Len(open[s].calls) > 1, open[s].calls[2].id # None,
           open' = [open EXCEPT ![s].calls = Restage(Below(s), "get")],
           breadcrumb' \in Seq(Id)
    PROVE  Inv'
  <1> USE DEF Inv
  <1> DEFINE by    == open[s].by
             calls == open[s].calls
             n     == Len(open[s].calls)
             new   == Restage(Below(s), "get")
  <1>1. /\ diagram' = Top(s).id /\ diagram' \in Id /\ title' = breadcrumb
        /\ navStack' \in Seq(Entry) /\ navIndex' \in 0..Len(navStack')
        /\ (navIndex' = 0) <=> (navStack' = <<>>)
        /\ navigatingHistory => UNCHANGED <<navStack, navIndex>>
        /\ NoRepeats'
        /\ UrlsOK'
        /\ IF Top(s).url = "stay" THEN urls' = urls /\ at' = at
                                  ELSE urls'[at'] = Top(s).id
    BY ShowFacts
  <1>2. /\ open[s] \in Running /\ by \in Caller /\ calls \in Seq(Frame) \ {<<>>}
        /\ n \in Nat /\ n > 1 /\ Top(s) = calls[1] /\ Stacked(by, calls)
        /\ by \in {"enter", "create"} => diagram # None
    BY Running1
  <1>3. /\ Below(s) \in Seq(Frame) \ {<<>>} /\ Len(Below(s)) = n - 1
        /\ \A k \in 1..n - 1 : Below(s)[k] = calls[k + 1]
    <2>1. /\ Below(s) \in Seq(Frame) /\ Len(Below(s)) = n - 1
          /\ \A k \in 1..n - 1 : Below(s)[k] = calls[k + 1]
      BY <1>2, HeadTailProperties DEF Below
    <2>2. Below(s) # <<>>
      BY <1>2, <2>1
    <2> QED
      BY <2>1, <2>2
  <1>4. /\ new \in Seq(Frame) \ {<<>>} /\ Len(new) = n - 1
        /\ new[1].stage = "get"
        /\ \A k \in 1..n - 1 : /\ new[k].id = calls[k + 1].id /\ new[k].url = calls[k + 1].url
                               /\ new[k].keep = calls[k + 1].keep
    <2> DEFINE b == Below(s)
    <2>1. "get" \in Stage /\ b \in Seq(Frame) \ {<<>>} /\ b[1] \in Frame
      BY <1>2, <1>3, ElementOfSeq DEF Stage
    <2>2. /\ new \in Seq(Frame) \ {<<>>} /\ Len(new) = Len(b)
          /\ new[1] = [b[1] EXCEPT !.stage = "get"]
          /\ \A k \in 2..Len(b) : new[k] = b[k]
      BY <2>1, Restaged
    <2>3. /\ new[1].id = b[1].id /\ new[1].url = b[1].url /\ new[1].keep = b[1].keep
          /\ new[1].stage = "get"
      BY <2>1, <2>2 DEF Frame
    <2>4. \A k \in 1..n - 1 : k = 1 \/ k \in 2..n - 1
      BY <1>2
    <2> HIDE DEF new, b, n
    <2>5. \A k \in 1..n - 1 : /\ new[k].id = b[k].id /\ new[k].url = b[k].url
                              /\ new[k].keep = b[k].keep
      BY <1>3, <2>2, <2>3, <2>4 DEF b
    <2> QED
      BY <1>3, <2>2, <2>3, <2>5 DEF b
  <1> HIDE DEF new
  <1>5. /\ 1 \in 1..n - 1 /\ n - 1 \in 1..n - 1 /\ (n - 1) + 1 = n
        /\ \A k \in 1..(n - 1) - 1 : k \in 1..n - 1 /\ k + 1 \in 1..n - 1
    BY <1>2
  <1>6. /\ OpenOK' /\ open'[s] \in Running /\ open'[s].by = by
        /\ open'[s].calls = new
        /\ \A t \in Slot \ {s} : open'[t] = open[t]
    <2>1. open' = [open EXCEPT ![s] = [open[s] EXCEPT !.calls = new]]
      BY DEF Typed, OpenOK, new
    <2>2. [open[s] EXCEPT !.calls = new] \in Running
      BY <1>2, <1>4 DEF Running
    <2> QED
      BY <1>2, <2>1, <2>2 DEF Typed, OpenOK, Running
  <1>7. Stacked(by, new)
    <2>0. new[n - 1].id = calls[n].id /\ new[n - 1].keep = calls[n].keep
      BY <1>4, <1>5
    <2>1. new[1].id # None
      BY <1>4, <1>5
    <2>2. \A k \in 1..(n - 1) - 1 : new[k].id # None
      <3>1. \A k \in 1..n - 1 : calls[k].id # None
        BY <1>2 DEF Stacked
      <3> QED
        BY <1>4, <1>5, <3>1
    <2>3. new[n - 1].id = None <=> by = "timer"
      BY <1>2, <2>0 DEF Stacked
    <2>4. by = "enter" => new[n - 1].keep
      BY <1>2, <2>0 DEF Stacked
    <2> QED
      BY <1>4, <2>1, <2>2, <2>3, <2>4 DEF Stacked
  <1>8. Typed'
    <2>1. diagram' # None
      BY <1>1, NoneAssumption
    <2>2. PageOK' /\ NavOK' /\ RestOK'
      BY <1>1, <2>1 DEF Typed, PageOK, NavOK, RestOK
    <2>3. Well(s)'
      BY <1>6, <1>7, <2>1 DEF Well
    <2>4. \A t \in Slot : Well(t)'
      BY <1>6, <2>1, <2>3, WellKept DEF Typed
    <2> QED
      BY <1>1, <1>6, <2>2, <2>4 DEF Typed
  <1>9. FlightInv'
    <2> SUFFICES ASSUME ~crossed PROVE Flying(s)'
      <3>1. open'[s] # Free
        BY <1>6, RunningFacts
      <3> QED
        BY <1>6, <3>1, FlightKept
    <2>1. Flying(s)
      BY DEF FlightInv
    <2>2. /\ Top(s).id = diagram /\ Top(s).url = "stay" /\ diagram # None
          /\ astray \/ by = "timer"
      BY <1>2, <1>5, <2>1 DEF Flying
    <2>3. diagram' = diagram /\ urls' = urls /\ at' = at
      BY <1>1, <2>2
    <2>4. Bottom(s)'.id = Bottom(s).id /\ Bottom(s)'.url = Bottom(s).url
      <3>1. Bottom(s)' = new[n - 1] /\ Bottom(s) = calls[n]
        BY <1>4, <1>6 DEF Bottom
      <3> QED
        BY <1>4, <1>5, <3>1
    <2>5. \A k \in 1..(n - 1) - 1 : new[k].id = diagram /\ new[k].url = "stay"
      <3>1. \A k \in 1..n - 1 : calls[k].id = diagram /\ calls[k].url = "stay"
        BY <2>1 DEF Flying
      <3> QED
        BY <1>4, <1>5, <3>1
    <2>6. by = "timer" => ~Returns(s)'
      <3>1. by = "timer" => n # 2
        BY <1>2 DEF Stacked
      <3>2. by = "timer" => n - 1 # 1
        BY <1>2, <3>1
      <3> QED
        BY <1>4, <1>6, <3>2 DEF Returns
    <2>7. by = "nav" => UNCHANGED <<navStack, navIndex>>
      BY <1>1, <2>1 DEF Flying
    <2> QED
      BY <1>4, <1>6, <2>1, <2>2, <2>3, <2>4, <2>5, <2>6, <2>7
      DEF Flying, AddressOK
  <1> QED
    BY <1>1, <1>8, <1>9

\* A diagram arrives.
LEMMA ArrivesInv ==
    ASSUME Inv, NEW s \in Slot, Arrives(s)
    PROVE  Inv'
  <1> DEFINE by    == open[s].by
             calls == open[s].calls
             n     == Len(open[s].calls)
             under == Head(Below(s))
  <1>1. /\ open[s] # Free /\ Top(s).stage = "get" /\ Show(Top(s))
        /\ UNCHANGED <<stored, fresh, dirty, gestures, trouble, crossed>>
    BY DEF Arrives, server
  <1>2. /\ calls \in Seq(Frame) \ {<<>>} /\ open[s] \in Running
        /\ n \in Nat /\ n >= 1 /\ Top(s) = calls[1] /\ Stacked(by, calls)
    BY <1>1, Running1
  <1>3. Top(s).id # None
    BY <1>1, <1>2 DEF Stacked
  <1>4. Below(s) = <<>> <=> n = 1
    <2>1. Len(Below(s)) = n - 1 /\ Below(s) \in Seq(Frame)
      BY <1>2, HeadTailProperties DEF Below
    <2>2. Below(s) = <<>> <=> Len(Below(s)) = 0
      BY <2>1, EmptySeq
    <2> HIDE DEF n
    <2> QED
      BY <1>2, <2>1, <2>2
  <1>5. n > 1 => under = calls[2] /\ under \in Frame
    <2> SUFFICES ASSUME n > 1 PROVE under = calls[2] /\ under \in Frame
      OBVIOUS
    <2>1. /\ Below(s) \in Seq(Frame) /\ Len(Below(s)) = n - 1
          /\ \A k \in 1..Len(Below(s)) : Below(s)[k] = calls[k + 1]
      BY <1>2, HeadTailProperties DEF Below
    <2>2. 1 \in 1..Len(Below(s)) /\ 1 + 1 = 2
      BY <1>2, <2>1
    <2>3. Below(s)[1] = calls[2] /\ Below(s)[1] \in Frame
      BY <2>1, <2>2, ElementOfSeq
    <2>4. under = Below(s)[1]
      BY <1>4, <2>1, HeadTailProperties
    <2> QED
      BY <2>3, <2>4
  <1> HIDE DEF under
  <1>6. CASE /\ n = 1 \/ under.id = None
             /\ Done(s) /\ UNCHANGED breadcrumb
    <2>1. n = 1 => by # "timer"
      BY <1>2, <1>3 DEF Stacked
    <2>2. n # 1 => n = 2 /\ by = "timer"
      <3> SUFFICES ASSUME n # 1 PROVE n = 2 /\ by = "timer"
        OBVIOUS
      <3>1. n > 1
        <4> HIDE DEF n
        <4> QED
          BY <1>2
      <3>2. calls[2].id = None
        BY <1>5, <1>6, <3>1
      <3>3. ~(2 \in 1..n - 1)
        BY <1>2, <3>2 DEF Stacked
      <3>4. n = 2
        <4> HIDE DEF n
        <4> QED
          BY <1>2, <3>1, <3>3
      <3> QED
        BY <1>2, <3>2, <3>4 DEF Stacked
    <2> QED
      BY <1>1, <1>3, <1>6, <2>1, <2>2, ArrivedInv
  <1>7. CASE /\ n # 1 /\ under.id # None
             /\ open' = [open EXCEPT ![s].calls =
                            <<[under EXCEPT !.stage = "get"]>> \o Tail(Below(s))]
             /\ breadcrumb' = (IF under.keep THEN breadcrumb ELSE <<>>)
             /\ UNCHANGED <<navigatingHistory, astray>>
    <2>1. n > 1 /\ calls[2].id # None
      BY <1>2, <1>5, <1>7
    <2>2. open' = [open EXCEPT ![s].calls = Restage(Below(s), "get")]
      BY <1>7 DEF under, Restage
    <2>3. breadcrumb' \in Seq(Id)
      BY <1>5, <1>7, <2>1 DEF Inv, Typed, PageOK
    <2> QED
      BY <1>1, <1>3, <1>7, <2>1, <2>2, <2>3, ReloadedInv
  <1> QED
    BY <1>4, <1>6, <1>7 DEF Arrives, under

\* A diagram does not arrive: at the start the next one is tried or a new one made,
\* later the caller puts back what it changed.
LEMMA FailsInv ==
    ASSUME Inv, NEW s \in Slot, Fails(s)
    PROVE  Inv'
  <1> USE DEF Inv
  <1> DEFINE by   == open[s].by
             left == open[s].back
  <1>1. /\ open[s] # Free
        /\ UNCHANGED <<diagram, title, navStack, navIndex, urls, at, gestures, crossed>>
    BY DEF Fails, browser
  <1>2. by \in Caller /\ left \in Seq(Id)
    BY <1>1, Running1
  <1>3. trouble' \in 0..MaxTrouble
    <2>1. MaxTrouble \in Nat
      BY BoundAssumption
    <2> QED
      BY <2>1 DEF Fails, Typed, RestOK
  <1>4. UrlsOK'
    BY <1>1 DEF Typed, UrlsOK
  <1>5. ~crossed => Flying(s)
    BY <1>1 DEF FlightInv
  <1>6. /\ "boot" \in Caller /\ "made" \in Caller /\ <<>> \in Seq(Id)
        /\ breadcrumb \in Seq(Id) /\ OpenOK /\ PageOK
    BY DEF Caller, Typed, PageOK
  <1>7. CASE /\ by = "boot" /\ left # <<>>
             /\ Go(s, "boot", <<Call(Head(left), FALSE,
                                     IF urls[1] = Head(left) THEN "stay" ELSE "push")>>,
                   breadcrumb, Tail(left))
             /\ UNCHANGED <<server, navigatingHistory, astray>>
    <2> DEFINE id   == Head(left)
               url  == IF urls[1] = Head(left) THEN "stay" ELSE "push"
               rest == Tail(left)
    <2>1. /\ id \in Id /\ id \in Id \cup {None} /\ url \in {"push", "replace", "stay"}
          /\ rest \in Seq(Id) /\ (url = "stay" => id = urls[1])
          /\ Go(s, "boot", <<Call(id, FALSE, url)>>, breadcrumb, rest)
      BY <1>2, <1>7, HeadTailProperties
    <2> HIDE DEF id, url, rest
    <2>2. id = None <=> "boot" = "timer"
      BY <2>1, NoneAssumption
    <2>3. Out(s, "boot", id, url, rest) /\ breadcrumb' \in Seq(Id) /\ dirty' = FALSE
      BY <1>6, <2>1, <2>2, GoingAlone
    <2>4. Typed'
      <3>1. PageOK' /\ NavOK' /\ RestOK'
        BY <1>1, <1>3, <1>7, <2>3 DEF Typed, PageOK, NavOK, RestOK, server
      <3> QED
        BY <1>1, <1>4, <2>3, <3>1, OutTyped
    <2>5. FlightInv'
      <3> SUFFICES ASSUME ~crossed PROVE Flying(s)'
        <4>1. open'[s] # Free /\ \A t \in Slot \ {s} : open'[t] = open[t]
          BY <2>3, RunningFacts DEF Out
        <4> QED
          BY <1>1, <4>1, FlightKept
      <3>1. /\ open'[s].by = "boot" /\ Len(open'[s].calls) = 1
            /\ Bottom(s)'.id = id /\ Bottom(s)'.url = url
        BY <2>3 DEF Out, Bottom
      <3>2. ~navigatingHistory' /\ at = 1
        BY <1>5, <1>7 DEF Flying
      <3> QED
        BY <1>1, <2>1, <3>1, <3>2 DEF Flying, Returns
    <2> QED
      BY <1>1, <2>4, <2>5 DEF NoRepeats
  <1>8. CASE /\ by = "boot" /\ left = <<>>
             /\ \E d \in fresh :
                  /\ Go(s, "made", <<Call(d, FALSE, "stay")>>, breadcrumb, <<>>)
                  /\ stored' = stored \cup {d} /\ fresh' = fresh \ {d}
             /\ UNCHANGED <<navigatingHistory, astray>>
    <2>1. PICK d \in fresh :
            /\ Go(s, "made", <<Call(d, FALSE, "stay")>>, breadcrumb, <<>>)
            /\ stored' = stored \cup {d} /\ fresh' = fresh \ {d}
      BY <1>8
    <2>2. d \in Id
      BY DEF Typed, RestOK
    <2>3. Out(s, "made", d, "stay", <<>>) /\ breadcrumb' \in Seq(Id) /\ dirty' = FALSE
      <3>1. d = None <=> "made" = "timer"
        BY <2>2, NoneAssumption
      <3> QED
        BY <1>6, <2>1, <2>2, <3>1, GoingAlone
    <2>4. Typed'
      <3>1. PageOK' /\ NavOK' /\ RestOK'
        BY <1>1, <1>3, <1>8, <2>1, <2>2, <2>3 DEF Typed, PageOK, NavOK, RestOK
      <3> QED
        BY <1>1, <1>4, <2>3, <3>1, OutTyped
    <2>5. FlightInv'
      <3> SUFFICES ASSUME ~crossed PROVE Flying(s)'
        <4>1. open'[s] # Free /\ \A t \in Slot \ {s} : open'[t] = open[t]
          BY <2>3, RunningFacts DEF Out
        <4> QED
          BY <1>1, <4>1, FlightKept
      <3>1. open'[s].by = "made" /\ Len(open'[s].calls) = 1
        BY <2>3 DEF Out
      <3>2. ~navigatingHistory'
        BY <1>5, <1>8 DEF Flying
      <3> QED
        BY <3>1, <3>2 DEF Flying, Returns
    <2> QED
      BY <1>1, <2>4, <2>5 DEF NoRepeats
  <1>9. CASE /\ open' = [open EXCEPT ![s] = Free]
             /\ breadcrumb' = Restored(s)
             /\ Release(by, FALSE)
             /\ astray' = (astray \/ by \notin {"enter", "crumb", "side"})
             /\ UNCHANGED <<server, dirty>>
    <2>1. breadcrumb' \in Seq(Id)
      BY <1>1, <1>9, RestoredTrail
    <2>2. /\ OpenOK' /\ open'[s] = Free
          /\ \A t \in Slot \ {s} : open'[t] = open[t]
      BY <1>9 DEF Typed, OpenOK
    <2>3. navigatingHistory' = (navigatingHistory /\ by # "nav")
      BY <1>9 DEF Release
    <2>4. Typed'
      <3>1. PageOK' /\ NavOK' /\ RestOK'
        BY <1>1, <1>3, <1>9, <2>1, <2>3 DEF Typed, PageOK, NavOK, RestOK, server
      <3>2. Well(s)'
        BY <2>2 DEF Well
      <3>3. \A t \in Slot : Well(t)'
        BY <1>1, <2>2, <3>2, WellKept DEF Typed
      <3> QED
        BY <1>4, <2>2, <3>1, <3>3 DEF Typed
    <2>5. FlightInv'
      <3> SUFFICES ASSUME ~crossed
                   PROVE  /\ ~navigatingHistory'
                          /\ ~astray' /\ diagram' # None => StandsAt(breadcrumb)' /\ AddressOK'
        BY <1>1, <2>2, FlightKept
      <3>1. Flying(s)
        BY <1>5
      <3>2. ~astray' => ~astray /\ by \in {"enter", "crumb", "side"}
        BY <1>9
      <3> QED
        BY <1>1, <1>9, <2>3, <3>1, <3>2 DEF Flying, Returns, StandsAt, AddressOK
    <2> QED
      BY <1>1, <2>4, <2>5 DEF NoRepeats
  <1> QED
    BY <1>7, <1>8, <1>9 DEF Fails

-----------------------------------------------------------------------------
(* The invariant *)

\* At the start the first candidate is being loaded.
LEMMA InitInv == Init => Inv
  <1> SUFFICES ASSUME Init PROVE Inv
    OBVIOUS
  <1>1. PICK target \in {None} \cup (Id \ fresh),
             listed \in {l \in SUBSET (Id \ fresh) : stored \subseteq l /\ l # {} /\ IsFiniteSet(l)} :
         \E order \in [1..Cardinality(listed) -> listed] :
           /\ \A d \in listed : \E i \in DOMAIN order : order[i] = d
           /\ target \in listed => order[1] = target
           /\ urls = <<target>> /\ at = 1
           /\ open = [s \in Slot |-> IF s # 1 THEN Free ELSE
                [by |-> "boot", back |-> Tail(order),
                 calls |-> <<[Call(order[1], FALSE, IF target = order[1] THEN "stay" ELSE "push")
                              EXCEPT !.stage = "get"]>>]]
    BY DEF Init
  <1>2. PICK order \in [1..Cardinality(listed) -> listed] :
           /\ \A d \in listed : \E i \in DOMAIN order : order[i] = d
           /\ target \in listed => order[1] = target
           /\ urls = <<target>> /\ at = 1
           /\ open = [s \in Slot |-> IF s # 1 THEN Free ELSE
                [by |-> "boot", back |-> Tail(order),
                 calls |-> <<[Call(order[1], FALSE, IF target = order[1] THEN "stay" ELSE "push")
                              EXCEPT !.stage = "get"]>>]]
    BY <1>1
  <1>3. order \in Seq(Id) /\ order # <<>>
    <2>1. Cardinality(listed) \in Nat /\ listed \subseteq Id /\ listed # {}
      BY <1>1, FS_CardinalityType
    <2>2. order \in Seq(listed)
      BY <2>1, SeqDef
    <2>3. DOMAIN order # {}
      BY <1>2, <2>1
    <2> QED
      BY <2>1, <2>2, <2>3, EmptySeq
  <1>4. order[1] \in Id /\ Tail(order) \in Seq(Id)
    <2>1. Head(order) \in Id /\ Tail(order) \in Seq(Id)
      BY <1>3, HeadTailProperties
    <2>2. 1 \in 1..Len(order)
      <3>1. Len(order) \in Nat /\ Len(order) # 0
        BY <1>3, EmptySeq
      <3> QED
        BY <3>1
    <2>3. order[1] \in Id
      BY <1>3, <2>2, ElementOfSeq
    <2> QED
      BY <2>1, <2>3
  <1>5. target \in Id \cup {None} /\ urls = <<target>> /\ at = 1
    BY <1>2
  <1> DEFINE first == order[1]
             url   == IF target = first THEN "stay" ELSE "push"
             c     == [Call(first, FALSE, url) EXCEPT !.stage = "get"]
             boot  == [by |-> "boot", back |-> Tail(order), calls |-> <<c>>]
  <1>6. c \in Frame /\ c.id = first /\ c.url = url
    BY <1>4 DEF Call, Frame
  <1>7. open = [s \in Slot |-> IF s # 1 THEN Free ELSE boot]
    BY <1>2
  <1> HIDE DEF c
  <1>8. <<c>> \in Seq(Frame) \ {<<>>} /\ Len(<<c>>) = 1 /\ <<c>>[1] = c
    BY <1>6
  <1>9. /\ boot \in Running /\ boot.by = "boot" /\ boot.calls = <<c>>
    BY <1>4, <1>8 DEF Running, Caller
  <1>10. Stacked("boot", <<c>>)
    <2>1. c.id # None
      BY <1>4, <1>6, NoneAssumption
    <2>2. c.stage = "get"
      BY DEF c, Call
    <2> QED
      BY <1>8, <2>1, <2>2 DEF Stacked
  <1> HIDE DEF boot
  <1>11. OpenOK /\ \A s \in Slot : open[s] # Free => s = 1 /\ open[s] = boot
    BY <1>7, <1>9 DEF OpenOK
  <1>12. /\ diagram = None /\ dirty = FALSE /\ breadcrumb = <<>> /\ title = <<>>
         /\ navStack = <<>> /\ navIndex = 0 /\ navigatingHistory = FALSE
         /\ gestures = 0 /\ trouble = 0 /\ crossed = FALSE /\ astray = FALSE
         /\ fresh \subseteq Id /\ stored \subseteq Id
    BY DEF Init
  <1>13. Typed
    <2>0. /\ <<>> \in Seq(Id) /\ <<>> \in Seq(Entry) /\ Len(navStack) = 0 /\ 0 \in 0..0
          /\ Len(urls) = 1 /\ 1 \in 1..1 /\ urls \in Seq(Id \cup {None})
          /\ 0 \in 0..MaxGestures /\ 0 \in 0..MaxTrouble
      <3>1. MaxGestures \in Nat /\ MaxTrouble \in Nat
        BY BoundAssumption
      <3> QED
        BY <1>5, <1>12, <3>1
    <2>1. PageOK /\ UrlsOK
      BY <1>5, <1>12, <2>0 DEF PageOK, UrlsOK
    <2>2. NavOK
      BY <1>12, <2>0 DEF NavOK
    <2>3. RestOK
      BY <1>12, <2>0 DEF RestOK
    <2>4. \A s \in Slot : Well(s)
      BY <1>9, <1>10, <1>11 DEF Well
    <2> QED
      BY <1>11, <2>1, <2>2, <2>3, <2>4 DEF Typed
  <1>14. NoRepeats
    BY <1>12 DEF NoRepeats
  <1>15. FlightInv
    <2>1. OneCall /\ AtRest
      BY <1>11, <1>12 DEF OneCall, AtRest
    <2>2. ASSUME NEW s \in Slot, open[s] # Free PROVE Flying(s)
      <3>1. open[s] = boot
        BY <1>11, <2>2
      <3>2. Bottom(s) = c /\ Len(open[s].calls) = 1 /\ open[s].by = "boot"
        BY <1>8, <1>9, <3>1 DEF Bottom
      <3>3. c.url = "stay" => c.id = urls[at]
        BY <1>5, <1>6
      <3> QED
        BY <1>5, <1>12, <3>2, <3>3 DEF Flying, Returns
    <2> QED
      BY <2>1, <2>2 DEF FlightInv
  <1> QED
    BY <1>13, <1>14, <1>15 DEF Inv

\* A step that changes nothing.
LEMMA StutterInv ==
    ASSUME Inv, UNCHANGED vars
    PROVE  Inv'
  <1>1. UNCHANGED <<stored, fresh, diagram, dirty, breadcrumb, title, navStack, navIndex,
             navigatingHistory, urls, at, open, gestures, trouble, crossed, astray>>
    BY DEF vars
  <1> QED
    BY <1>1 DEF Inv, Typed, PageOK, NavOK, UrlsOK, RestOK, OpenOK, Well, NoRepeats, FlightInv,
       OneCall, AtRest, Idle, StandsAt, AddressOK, Flying, Bottom, Returns, Restored

\* Whatever happens, the invariant holds afterwards.
LEMMA NextInv ==
    ASSUME Inv, [Next]_vars
    PROVE  Inv'
  <1>1. CASE UNCHANGED vars
    BY <1>1, StutterInv
  <1>2. CASE Edit \/ Elsewhere
    BY <1>2, AsideInv
  <1>3. ASSUME NEW s \in Slot,
               Answer(s) \/ Conflict(s) \/ Save(s) \/ Back(s) \/ Forward(s) \/ Enter(s)
               \/ Crumb(s) \/ Side(s) \/ CreateSubdiagram(s) \/ New(s) \/ Delete(s)
               \/ PopState(s)
        PROVE  Inv'
    <2>1. CASE Flushed(s)
      BY <2>1, FlushedInv
    <2>2. CASE Arrives(s)
      BY <2>2, ArrivesInv
    <2>3. CASE Fails(s)
      BY <2>3, FailsInv
    <2>4. CASE Proceeds(s)
      BY <2>4, ProceedsInv
    <2>5. CASE Conflict(s)
      BY <2>5, ConflictInv
    <2>6. CASE Save(s)
      BY <2>6, SaveInv
    <2>7. CASE Back(s)
      BY <2>7, BackInv
    <2>8. CASE Forward(s)
      BY <2>8, ForwardInv
    <2>9. CASE Enter(s)
      BY <2>9, EnterInv
    <2>10. CASE Crumb(s)
      BY <2>10, CrumbInv
    <2>11. CASE Side(s)
      BY <2>11, SideInv
    <2>12. CASE CreateSubdiagram(s) \/ New(s) \/ Delete(s)
      BY <2>12, AskingInv
    <2>13. CASE PopState(s)
      BY <2>13, PopStateInv
    <2> QED
      BY <1>3, <2>1, <2>2, <2>3, <2>4, <2>5, <2>6, <2>7, <2>8, <2>9, <2>10, <2>11, <2>12,
         <2>13 DEF Answer
  <1> QED
    BY <1>1, <1>2, <1>3 DEF Next

\* The inductive invariant: where the page stands, what each running call knows of it,
\* and that as long as calls have not crossed there is at most one of them.
THEOREM Invariance == Spec => []Inv
  <1>1. Init => Inv
    BY InitInv
  <1>2. Inv /\ [Next]_vars => Inv'
    BY NextInv
  <1> QED
    BY <1>1, <1>2, PTL DEF Spec

\* The types.
THEOREM Types == Spec => []TypeOK
  <1>1. Inv => TypeOK
    BY TypedImpliesTypeOK DEF Inv
  <1> QED
    BY <1>1, Invariance, PTL

\* Back never leads where the user already is, however calls overtake each other.
THEOREM BackLeadsElsewhere == Spec => []NoRepeats
  <1>1. Inv => NoRepeats
    BY DEF Inv
  <1> QED
    BY <1>1, Invariance, PTL

\* At rest the user stands on the current entry of the history.
THEOREM RestIsOnTheEntry == Spec => []EntryIsShown
  <1>1. Inv => EntryIsShown
    <2> SUFFICES ASSUME Inv, Idle, ~crossed, ~astray, diagram # None
                 PROVE  StandsAt(breadcrumb)
      BY DEF EntryIsShown, StandsAt
    <2> QED
      BY DEF Inv, FlightInv, AtRest
  <1> QED
    BY <1>1, Invariance, PTL

\* At rest the address of the page names the diagram on screen.
THEOREM RestIsAtTheAddress == Spec => []AddressIsShown
  <1>1. Inv => AddressIsShown
    <2> SUFFICES ASSUME Inv, Idle, ~crossed, ~astray, diagram # None
                 PROVE  AddressOK
      BY DEF AddressIsShown, AddressOK
    <2> QED
      BY DEF Inv, FlightInv, AtRest
  <1> QED
    BY <1>1, Invariance, PTL

\* A move through the history never rewrites it: of all that happens only an arriving
\* diagram records an entry, and during a move it does not.
THEOREM HistoryIsKept == Spec => MovesKeepHistory
  <1> DEFINE Kept == navigatingHistory /\ ~crossed => UNCHANGED navStack
  <1>1. ASSUME NEW s \in Slot, Arrives(s) PROVE Kept
    BY <1>1 DEF Arrives, Show, Record
  <1>2. ASSUME NEW s \in Slot, Flushed(s) \/ Fails(s) \/ Proceeds(s) \/ Conflict(s) \/ Save(s)
        PROVE  Kept
    BY <1>2 DEF Flushed, Fails, Proceeds, Conflict, Save, nav
  <1>3. ASSUME NEW s \in Slot, Back(s) \/ Forward(s) \/ Enter(s) \/ Crumb(s) \/ Side(s)
        PROVE  Kept
    BY <1>3 DEF Back, Forward, Enter, Crumb, Side, nav
  <1>4. ASSUME NEW s \in Slot, CreateSubdiagram(s) \/ New(s) \/ Delete(s) \/ PopState(s)
        PROVE  Kept
    BY <1>4 DEF CreateSubdiagram, New, Delete, PopState, nav
  <1>5. ASSUME Edit \/ Elsewhere PROVE Kept
    BY <1>5 DEF Edit, Elsewhere, nav
  <1>6. [Next]_vars => [Kept]_vars
    BY <1>1, <1>2, <1>3, <1>4, <1>5 DEF Next, Answer
  <1> QED
    BY <1>6, PTL DEF Spec, MovesKeepHistory
=============================================================================
