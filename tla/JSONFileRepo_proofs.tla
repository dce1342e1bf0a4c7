------------------------- MODULE JSONFileRepo_proofs -------------------------
(***************************************************************************)
(* Proofs about JSONFileRepo for every number of processes and diagrams,   *)
(* and for every bound on saves and faults.  What makes the invariant go   *)
(* through is that a path nobody contends for has one writer, so that the  *)
(* temporary file it renames is the one it wrote; the rest relates the     *)
(* files to what was acknowledged, and the index to the files.             *)
(***************************************************************************)
EXTENDS JSONFileRepo, TLAPS

Active(p)  == pc[p] \notin {"idle", "down"}
Working(p) == pc[p] \in {"open", "fill", "rename"}

\* A method under way, and the replacement of a file.
Method == {Idle} \cup [kind: {"list", "boot"}]
                 \cup [kind: {"save", "delete"}, id: Id, version: Nat]
Write  == [path: Path, bytes: Mark \cup Nat \cup Listing,
           next: {"return", "readIndex", "amend"}]

\* The types of the methods and of what they acknowledged, and of the files.
ControlOK ==
    /\ pc \in [Proc -> {"idle", "down", "open", "fill", "rename", "remove", "readIndex"}]
    /\ op \in [Proc -> Method] /\ w \in [Proc -> Write]
    /\ \A p \in Proc : w[p].bytes \in Mark \/ w[p].bytes \in Content(w[p].path)
    /\ acked \in Listing /\ unsettled \subseteq Id /\ contended \subseteq Id

FilesOK ==
    /\ DOMAIN final = Path /\ DOMAIN tmp = Path
    /\ \A t \in Path : /\ final[t] \in Mark \/ final[t] \in Content(t)
                       /\ tmp[t] \in Mark \/ tmp[t] \in Content(t)
    /\ fd \in [Proc -> {"closed", "tmp", "final", "gone"}]
    /\ saves \in Nat

Typed == ControlOK /\ FilesOK

\* What the place in a method says of the method and of its replacement.
Placed(p) ==
    /\ ~Active(p) => op[p] = Idle
    /\ pc[p] = "remove" => op[p].kind = "delete"
    /\ op[p].kind = "delete" => op[p].version = 0
    /\ pc[p] = "readIndex" => op[p].kind \in {"save", "delete", "list"}
    /\ ~Working(p) => w[p] = NoWrite
    /\ Working(p) =>
          \/ /\ w[p].path = Index /\ w[p].bytes \in Listing
             /\ op[p].kind \in {"save", "delete", "list", "boot"}
             /\ w[p].next = "return" \/ (w[p].next = "amend" /\ Mutates(p))
          \/ /\ op[p].kind = "save"
             /\ w[p] = [path |-> op[p].id, bytes |-> op[p].version, next |-> "readIndex"]
    /\ fd[p] # "closed" <=> pc[p] = "fill"

PlaceInv == \A p \in Proc : Placed(p)

\* Whoever saves or deletes an uncontended diagram is the only one; before methods
\* have overlapped there is only one method.
AloneInv ==
    /\ \A p, q \in Proc : /\ Mutates(p) /\ Mutates(q) /\ op[p].id = op[q].id
                          /\ op[p].id \notin contended
                          => p = q
    /\ ~overlapped => contended = {} /\ \A p, q \in Proc : Active(p) /\ Active(q) => p = q

\* Where only one can be writing, its temporary file is what it has written.
Exclusive(t) == IF t = Index THEN ~overlapped ELSE t \notin contended

Written(p) == Exclusive(w[p].path) =>
    /\ pc[p] = "fill" => fd[p] = "tmp" /\ tmp[w[p].path] = Empty
    /\ pc[p] = "rename" => tmp[w[p].path] = w[p].bytes

TmpInv == \A p \in Proc : Written(p)

WholeInv == /\ \A i \in Id \ contended : final[i] \in Nat \cup {Missing}
            /\ ~overlapped => final[Index] \in Listing \cup {Missing, Torn}

\* A method that has changed its file left there what it was asked to; the other
\* files are as the last acknowledged method left them.
DurableInv ==
    \A i \in Id \ contended :
        /\ \A p \in Proc : FileChanged(p) /\ op[p].id = i => Version(final[i]) = op[p].version
        /\ i \notin unsettled /\ (\A p \in Proc : FileChanged(p) => op[p].id # i)
              => Version(final[i]) = acked[i]

\* The index lists what is in the files, but for the diagrams being changed.
ListedInv ==
    ~overlapped /\ final[Index] # Torn =>
        \A i \in Id \ unsettled :
            (\A p \in Proc : FileChanged(p) => op[p].id # i)
                => Parsed(final[Index])[i] = Version(final[i])

\* So does what is about to replace the index, and all of it if the index is torn.
Pending(p) == ~overlapped /\ Working(p) /\ w[p].path = Index =>
    /\ \A i \in Id : i \notin unsettled \/ (Mutates(p) /\ op[p].id = i)
          => w[p].bytes[i] = Version(final[i])
    /\ final[Index] = Torn => w[p].bytes = Scanned

PendingInv == \A p \in Proc : Pending(p)

Inv == /\ Typed /\ PlaceInv /\ AloneInv /\ TmpInv /\ WholeInv
       /\ DurableInv /\ ListedInv /\ PendingInv

-----------------------------------------------------------------------------
(* Lemmas *)

\* The initial states satisfy the invariant.
LEMMA InitInv == Init => Inv
  <1> SUFFICES ASSUME Init PROVE Inv
    OBVIOUS
  <1> USE PathAssumption, ContentAssumption
  <1>1. Unlisted \in Listing
    BY DEF Unlisted, Listing
  <1>2. Typed
    <2>1. NoWrite \in Write
      BY DEF NoWrite, Write, Path, Mark
    <2> QED
      BY <1>1, <2>1 DEF Init, Typed, ControlOK, FilesOK, Path, Mark, Content, Method, NoWrite
  <1>3. \A p \in Proc : ~Active(p) /\ ~Working(p) /\ ~Mutates(p) /\ ~FileChanged(p)
    BY DEF Init, Active, Working, Mutates, FileChanged, Idle
  <1>4. PlaceInv /\ AloneInv /\ TmpInv
    BY <1>3 DEF Init, PlaceInv, Placed, AloneInv, TmpInv, Written, Active, Working, Idle
  <1>5. \A i \in Id : final[i] = Missing /\ Version(final[i]) = 0
    BY DEF Init, Path, Version
  <1>6. final[Index] = Unlisted /\ Parsed(final[Index]) = Unlisted
    BY <1>1 DEF Init, Path, Parsed, Listing
  <1> QED
    BY <1>1, <1>2, <1>3, <1>4, <1>5, <1>6
    DEF Inv, Init, WholeInv, DurableInv, ListedInv, PendingInv, Pending, Unlisted

\* Who replaces the index has a listing for it, and is done then or amends it.
LEMMA ReplacesIndex ==
    ASSUME Inv, NEW p \in Proc, Working(p), w[p].path = Index
    PROVE  /\ w[p].bytes \in Listing /\ op[p].kind \in {"save", "delete", "list", "boot"}
           /\ w[p].next = "return" \/ (w[p].next = "amend" /\ Mutates(p))
           /\ Mutates(p) => FileChanged(p)
  <1>1. Placed(p)
    BY DEF Inv, PlaceInv
  <1>2. op[p].kind = "save" => op[p].id \in Id
    BY DEF Inv, Typed, ControlOK, Method, Idle
  <1> QED
    BY <1>1, <1>2, PathAssumption DEF Placed, FileChanged, Working

\* Who replaces a diagram file saves that diagram.
LEMMA ReplacesFile ==
    ASSUME Inv, NEW p \in Proc, Working(p), w[p].path # Index
    PROVE  /\ op[p].kind = "save" /\ w[p].path = op[p].id /\ op[p].id \in Id
           /\ w[p].bytes = op[p].version /\ op[p].version \in Nat
           /\ w[p].next = "readIndex" /\ ~FileChanged(p)
  <1>1. Placed(p)
    BY DEF Inv, PlaceInv
  <1>2. op[p].kind = "save" => op[p].id \in Id /\ op[p].version \in Nat
    BY DEF Inv, Typed, ControlOK, Method, Idle
  <1> QED
    BY <1>1, <1>2 DEF Placed, FileChanged, Working

\* Two who replace the same exclusive path are one.
LEMMA SoleWriter ==
    ASSUME Inv, NEW p \in Proc, NEW q \in Proc, Working(p), Working(q),
           w[p].path = w[q].path, Exclusive(w[p].path)
    PROVE  p = q
  BY PathAssumption DEF Inv, Typed, ControlOK, PlaceInv, Placed, AloneInv, Exclusive, Working, Active,
     Mutates, Method, Idle

\* Who has an exclusive path open has it under its temporary name.
LEMMA OpenIsTmp ==
    ASSUME Inv, NEW p \in Proc, Exclusive(w[p].path)
    PROVE  fd[p] \in {"closed", "tmp"}
  BY DEF Inv, PlaceInv, Placed, TmpInv, Written, Typed, ControlOK, FilesOK

\* What a step leaves alone: the uncontended diagram files, a trusted index.
KeptIds   == \A i \in Id \ contended : final'[i] = final[i]
KeptIndex == ~overlapped => final'[Index] = final[Index]
Grow      == contended \subseteq contended' /\ (overlapped => overlapped')

\* A step that starts nothing leaves the writers of a diagram as few as they were.
LEMMA AloneKept ==
    ASSUME Inv, \A q \in Proc : op'[q] \in {op[q], Idle} /\ (Active(q)' => Active(q)),
           UNCHANGED <<contended, overlapped>>
    PROVE  AloneInv'
  BY DEF Inv, AloneInv, Mutates, Idle

\* The files stay whole where they are not touched.
LEMMA WholeKept ==
    ASSUME Inv, KeptIds, KeptIndex, Grow
    PROVE  WholeInv'
  BY DEF Inv, WholeInv, KeptIds, KeptIndex, Grow

\* Nothing is lost by a step that changes no method's claim on its file.
LEMMA DurableKept ==
    ASSUME Inv, KeptIds, Grow, acked' = acked, unsettled \subseteq unsettled',
           \A q \in Proc : (FileChanged(q)' <=> FileChanged(q)),
           \A q \in Proc : FileChanged(q) => op'[q] = op[q]
    PROVE  DurableInv'
  BY DEF Inv, DurableInv, KeptIds, Grow, Version

\* What a process does leaves the methods of the others alone.
Others(p) == \A q \in Proc \ {p} : pc'[q] = pc[q] /\ op'[q] = op[q] /\ w'[q] = w[q]

\* A method that has changed its file is not finished with it.
LEMMA ChangedFacts ==
    ASSUME Inv, NEW p \in Proc, FileChanged(p)
    PROVE  Active(p) /\ Mutates(p) /\ op[p].id \in Id /\ op[p].version \in Nat
  BY DEF Inv, Typed, ControlOK, Method, FileChanged, Mutates, Active, Idle

\* The claim of a process depends on its own method only.
LEMMA OthersChanged ==
    ASSUME NEW p \in Proc, Others(p)
    PROVE  \A q \in Proc \ {p} : /\ (Mutates(q)' <=> Mutates(q))
                                 /\ (FileChanged(q)' <=> FileChanged(q))
                                 /\ (Active(q)' <=> Active(q)) /\ (Working(q)' <=> Working(q))
  BY DEF Others, FileChanged, Mutates, Active, Working

\* An acknowledgement records what the method left in its file.
LEMMA DurableSucceed ==
    ASSUME Inv, NEW p \in Proc, Succeed(p), Mutates(p) => FileChanged(p), KeptIds
    PROVE  DurableInv'
  <1>1. Others(p) /\ ~FileChanged(p)'
    BY DEF Succeed, Leave, Goto, Others, Inv, Typed, ControlOK, FilesOK, FileChanged, Mutates, Idle
  <1>2. \A q \in Proc \ {p} : (FileChanged(q)' <=> FileChanged(q)) /\ op'[q] = op[q]
    BY <1>1, OthersChanged DEF Others
  <1>3. contended' = contended
    BY DEF Succeed
  <1>4. CASE Mutates(p)
    <2>1. /\ FileChanged(p) /\ op[p].id \in Id /\ op[p].version \in Nat
          /\ acked' = [acked EXCEPT ![op[p].id] = op[p].version]
          /\ unsettled' = unsettled \ {op[p].id}
      BY <1>4, ChangedFacts DEF Succeed
    <2>2. ASSUME NEW i \in Id \ contended, op[p].id = i
          PROVE  Version(final'[i]) = acked'[i]
      BY <2>1, <2>2 DEF Inv, DurableInv, KeptIds, Typed, ControlOK, FilesOK, Listing
    <2>3. ASSUME NEW i \in Id \ contended, op[p].id # i
          PROVE  acked'[i] = acked[i] /\ (i \notin unsettled' => i \notin unsettled)
      BY <2>1, <2>3 DEF Inv, Typed, ControlOK, FilesOK, Listing
    <2>4. ASSUME NEW i \in Id \ contended, NEW q \in Proc, FileChanged(q)', op'[q].id = i
          PROVE  Version(final'[i]) = op'[q].version
      BY <1>1, <1>2, <2>4 DEF Inv, DurableInv, KeptIds
    <2>5. ASSUME NEW i \in Id \ contended, i \notin unsettled',
                 \A q \in Proc : FileChanged(q)' => op'[q].id # i
          PROVE  Version(final'[i]) = acked'[i]
      BY <1>2, <2>2, <2>3, <2>5 DEF Inv, DurableInv, KeptIds
    <2> QED
      BY <1>3, <2>4, <2>5 DEF DurableInv, Version
  <1>5. CASE ~Mutates(p)
    <2>1. acked' = acked /\ unsettled' = unsettled /\ ~FileChanged(p)
      BY <1>5 DEF Succeed, FileChanged
    <2>2. Grow
      BY DEF Grow, Succeed
    <2> QED
      BY <1>1, <1>2, <2>1, <2>2, DurableKept
  <1> QED
    BY <1>4, <1>5

\* A method that breaks off after its file changed leaves the diagram unsettled.
LEMMA DurableBreakOff ==
    ASSUME Inv, NEW p \in Proc, NEW place \in {"idle", "down"}, BreakOff(p, place), KeptIds
    PROVE  DurableInv'
  <1>1. Others(p) /\ ~FileChanged(p)'
    BY DEF BreakOff, Leave, Goto, Others, Inv, Typed, ControlOK, FilesOK, FileChanged, Mutates, Idle
  <1>2. \A q \in Proc \ {p} : (FileChanged(q)' <=> FileChanged(q)) /\ op'[q] = op[q]
    BY <1>1, OthersChanged DEF Others
  <1>3. contended' = contended /\ acked' = acked /\ unsettled \subseteq unsettled'
        /\ (FileChanged(p) => op[p].id \in unsettled')
    BY DEF BreakOff
  <1> QED
    BY <1>1, <1>2, <1>3 DEF Inv, DurableInv, KeptIds, Version

\* The index stays right when neither it nor a claim on a file changes.
LEMMA ListedKept ==
    ASSUME Inv, KeptIds, KeptIndex, Grow, unsettled \subseteq unsettled',
           \A q \in Proc : FileChanged(q) => op[q].id \in unsettled'
                                             \/ (FileChanged(q)' /\ op'[q] = op[q])
    PROVE  ListedInv'
  BY DEF Inv, ListedInv, KeptIds, KeptIndex, Grow, Version, Parsed, AloneInv

\* So does what is about to replace it.
LEMMA PendingKept ==
    ASSUME Inv, KeptIds, KeptIndex, Grow, unsettled \subseteq unsettled',
           \A q \in Proc : Working(q)' /\ w'[q].path = Index =>
                              Working(q) /\ w'[q] = w[q] /\ op'[q] = op[q]
    PROVE  PendingInv'
  <1>1. ~overlapped' => \A i \in Id : final'[i] = final[i]
    BY DEF Inv, KeptIds, Grow, AloneInv
  <1>2. ~overlapped' => Scanned' = Scanned /\ \A i \in Id : Version(final[i])' = Version(final[i])
    BY <1>1 DEF Scanned, Version
  <1> QED
    BY <1>2 DEF Inv, PendingInv, Pending, KeptIndex, Grow, Mutates

\* The temporary files of the others are theirs where they are exclusive.
LEMMA TmpKept ==
    ASSUME Inv, NEW p \in Proc, Others(p), Grow, Written(p)',
           \A t \in Path : tmp'[t] = tmp[t] \/ (Working(p) /\ w[p].path = t),
           \A q \in Proc \ {p} : \/ fd'[q] = fd[q] \/ fd[q] = "final"
                                 \/ Working(p) /\ w[q].path = w[p].path
    PROVE  TmpInv'
  <1> SUFFICES ASSUME NEW q \in Proc \ {p}, Exclusive(w[q].path), Working(q)
               PROVE  /\ pc[q] = "fill" => fd'[q] = "tmp" /\ tmp'[w[q].path] = Empty
                      /\ pc[q] = "rename" => tmp'[w[q].path] = w[q].bytes
    BY DEF TmpInv, Written, Others, Exclusive, Grow, Working
  <1>1. w[q].path \in Path /\ ~(Working(p) /\ w[q].path = w[p].path)
    BY SoleWriter DEF Inv, Typed, ControlOK, Write
  <1> QED
    BY <1>1 DEF Inv, TmpInv, Written

\* Where the others are is no news when p alone moves.
LEMMA PlaceKept ==
    ASSUME Inv, NEW p \in Proc, Others(p), Placed(p)',
           \A q \in Proc \ {p} : fd'[q] = "closed" <=> fd[q] = "closed"
    PROVE  PlaceInv'
  BY DEF Inv, PlaceInv, Placed, Others, Active, Working, Mutates

\* What leaving a method does to its process.
LEMMA Leaving ==
    ASSUME Inv, NEW p \in Proc, NEW place \in {"idle", "down"}, Leave(p, place)
    PROVE  /\ Others(p) /\ op'[p] = Idle /\ w'[p] = NoWrite /\ pc'[p] = place
           /\ ~Active(p)' /\ ~Working(p)' /\ ~Mutates(p)' /\ ~FileChanged(p)'
           /\ pc' \in [Proc -> {"idle", "down", "open", "fill", "rename", "remove",
                                "readIndex"}]
           /\ op' \in [Proc -> Method] /\ w' \in [Proc -> Write]
           /\ \A q \in Proc : w'[q].bytes \in Mark \/ w'[q].bytes \in Content(w'[q].path)
  <1>1. NoWrite \in Write /\ NoWrite.bytes \in Mark /\ Idle \in Method
    BY DEF NoWrite, Write, Path, Mark, Method
  <1> QED
    BY <1>1 DEF Leave, Goto, Others, Inv, Typed, ControlOK, FileChanged, Mutates, Idle,
       Active, Working

\* What starting a replacement does to its process.
LEMMA Replacing ==
    ASSUME Inv, NEW p \in Proc, NEW t \in Path, NEW bytes \in Content(t),
           NEW next \in {"return", "readIndex", "amend"}, Replace(p, t, bytes, next)
    PROVE  /\ pc'[p] = "open" /\ w'[p] = [path |-> t, bytes |-> bytes, next |-> next]
           /\ Active(p)' /\ Working(p)'
           /\ \A q \in Proc \ {p} : pc'[q] = pc[q] /\ w'[q] = w[q]
           /\ pc' \in [Proc -> {"idle", "down", "open", "fill", "rename", "remove",
                                "readIndex"}]
           /\ w' \in [Proc -> Write]
           /\ \A q \in Proc : w'[q].bytes \in Mark \/ w'[q].bytes \in Content(w'[q].path)
  <1>1. [path |-> t, bytes |-> bytes, next |-> next] \in Write
    BY DEF Write, Content
  <1> QED
    BY <1>1 DEF Replace, Goto, Inv, Typed, ControlOK, Active, Working

\* Starting a method leaves the writers of an uncontended diagram few.
LEMMA Starting ==
    ASSUME Inv, NEW p \in Proc, NEW ids \in SUBSET Id, ~Active(p), Others(p),
           Contend(p, ids), Mutates(p)' => op'[p].id \in ids
    PROVE  /\ AloneInv' /\ Grow /\ contended' \subseteq Id
           /\ ~overlapped' => \A q \in Proc \ {p} : ~Active(q)
           /\ acked' = acked /\ unsettled' = unsettled
  <1> DEFINE others == {q \in Proc \ {p} : pc[q] \notin {"idle", "down"}}
  <1>1. /\ contended' = contended \cup
              {i \in ids : \E q \in others : Mutates(q) /\ op[q].id = i}
        /\ overlapped' <=> (overlapped \/ others # {})
        /\ acked' = acked /\ unsettled' = unsettled
    BY DEF Contend
  <1>2. \A q \in Proc : Mutates(q) => Active(q)
    <2>1. \A q \in Proc : ~Active(q) => op[q] = Idle
      BY DEF Inv, PlaceInv, Placed
    <2> QED
      BY <2>1 DEF Mutates, Idle
  <1>3. \A q \in others : q \in Proc \ {p} /\ Active(q)
    BY DEF Active
  <1>4. \A q \in Proc \ {p} : Active(q) => q \in others
    BY DEF Active
  <1>5. contended' \subseteq Id /\ Grow
    BY <1>1 DEF Grow, Inv, Typed, ControlOK
  <1>6. \A q \in Proc \ {p} : op'[q] = op[q] /\ (Mutates(q)' <=> Mutates(q))
                              /\ (Active(q)' <=> Active(q))
    BY OthersChanged DEF Others
  <1>7. ASSUME NEW q \in Proc \ {p}, Mutates(q)', Mutates(p)', op'[p].id = op'[q].id
        PROVE  op'[p].id \in contended'
    BY <1>1, <1>2, <1>4, <1>6, <1>7
  <1>8. ASSUME NEW q \in Proc, NEW r \in Proc, Mutates(q)', Mutates(r)',
               op'[q].id = op'[r].id, op'[q].id \notin contended'
        PROVE  q = r
    <2>1. CASE q # p /\ r # p
      BY <1>5, <1>6, <1>8, <2>1 DEF Inv, AloneInv, Grow
    <2> QED
      BY <1>7, <1>8, <2>1
  <1>9. ~overlapped' => contended' = {} /\ \A q \in Proc \ {p} : ~Active(q)
    BY <1>1, <1>4 DEF Inv, AloneInv
  <1> QED
    BY <1>1, <1>5, <1>6, <1>8, <1>9 DEF AloneInv

\* A save begins.
LEMMA SaveInv ==
    ASSUME Inv, NEW p \in Proc, NEW i \in Id, Save(p, i)
    PROVE  Inv'
  <1> USE PathAssumption
  <1> DEFINE o == [kind |-> "save", id |-> i, version |-> saves + 1]
  <1>1. /\ pc[p] = "idle" /\ UNCHANGED <<final, tmp, fd>> /\ saves' = saves + 1
        /\ Replace(p, i, saves + 1, "readIndex") /\ Contend(p, {i})
        /\ op' = [op EXCEPT ![p] = o]
    BY DEF Save, files
  <1>2. saves \in Nat /\ i \in Path /\ i # Index /\ saves + 1 \in Content(i)
    BY DEF Inv, Typed, FilesOK, Path, Content
  <1>3. o \in Method
    BY <1>2 DEF Method
  <1>4. /\ op'[p] = o /\ op' \in [Proc -> Method]
        /\ \A q \in Proc \ {p} : op'[q] = op[q]
    BY <1>1, <1>3 DEF Inv, Typed, ControlOK
  <1>5. /\ pc'[p] = "open" /\ Working(p)' /\ Active(p)'
        /\ w'[p] = [path |-> i, bytes |-> saves + 1, next |-> "readIndex"]
        /\ Others(p)
        /\ pc' \in [Proc -> {"idle", "down", "open", "fill", "rename", "remove",
                             "readIndex"}]
        /\ w' \in [Proc -> Write]
        /\ \A q \in Proc : w'[q].bytes \in Mark \/ w'[q].bytes \in Content(w'[q].path)
    BY <1>1, <1>2, <1>4, Replacing DEF Others
  <1>6. /\ AloneInv' /\ Grow /\ contended' \subseteq Id
        /\ acked' = acked /\ unsettled' = unsettled
    BY <1>1, <1>4, <1>5, Starting DEF Active
  <1>7. \A q \in Proc : (FileChanged(q)' <=> FileChanged(q))
                        /\ (FileChanged(q) => op'[q] = op[q])
    BY <1>1, <1>2, <1>5, OthersChanged DEF FileChanged, Others
  <1>8. KeptIds /\ KeptIndex
    BY <1>1 DEF KeptIds, KeptIndex
  <1>9. Typed'
    BY <1>1, <1>2, <1>4, <1>5, <1>6 DEF Inv, Typed, ControlOK, FilesOK
  <1>10. PlaceInv'
    <2>1. fd'[p] = "closed"
      BY <1>1 DEF Inv, PlaceInv, Placed, Typed, FilesOK
    <2>2. Placed(p)'
      BY <1>4, <1>5, <2>1 DEF Placed
    <2> QED
      BY <1>1, <1>5, <2>2, PlaceKept
  <1>11. TmpInv'
    <2>1. Written(p)'
      BY <1>5 DEF Written
    <2> QED
      BY <1>1, <1>5, <1>6, <2>1, TmpKept
  <1>12. WholeInv' /\ DurableInv' /\ ListedInv' /\ PendingInv'
    <2>1. \A q \in Proc : Working(q)' /\ w'[q].path = Index =>
                              Working(q) /\ w'[q] = w[q] /\ op'[q] = op[q]
      BY <1>2, <1>5, OthersChanged DEF Others
    <2> QED
      BY <1>6, <1>7, <1>8, <2>1, WholeKept, DurableKept, ListedKept, PendingKept
  <1> QED
    BY <1>6, <1>9, <1>10, <1>11, <1>12 DEF Inv

\* A method begins that has no file to replace yet.
LEMMA BeginInv ==
    ASSUME Inv, NEW p \in Proc, NEW ids \in SUBSET Id, NEW o \in Method,
           NEW place \in {"remove", "readIndex"}, Contend(p, ids), pc[p] = "idle",
           pc' = [pc EXCEPT ![p] = place], op' = [op EXCEPT ![p] = o],
           UNCHANGED <<final, tmp, fd, w>>, saves' \in Nat,
           \/ place = "remove" /\ o.kind = "delete" /\ o.id \in ids /\ o.version = 0
           \/ place = "readIndex" /\ o.kind = "list"
    PROVE  Inv'
  <1>1. /\ pc'[p] = place /\ op'[p] = o /\ Others(p) /\ ~Working(p)'
        /\ pc' \in [Proc -> {"idle", "down", "open", "fill", "rename", "remove",
                             "readIndex"}]
        /\ op' \in [Proc -> Method]
    BY DEF Inv, Typed, ControlOK, Others, Working
  <1>2. Mutates(p)' => op'[p].id \in ids
    BY <1>1 DEF Mutates
  <1>3. /\ AloneInv' /\ Grow /\ contended' \subseteq Id
        /\ acked' = acked /\ unsettled' = unsettled
    BY <1>1, <1>2, Starting DEF Active
  <1>4. ~FileChanged(p) /\ ~FileChanged(p)'
    BY <1>1 DEF FileChanged, Mutates
  <1>5. \A q \in Proc : (FileChanged(q)' <=> FileChanged(q))
                        /\ (FileChanged(q) => op'[q] = op[q])
    BY <1>1, <1>4, OthersChanged DEF Others
  <1>6. KeptIds /\ KeptIndex
    BY DEF KeptIds, KeptIndex
  <1>7. Typed'
    BY <1>1, <1>3 DEF Inv, Typed, ControlOK, FilesOK
  <1>8. PlaceInv'
    <2>1. fd'[p] = "closed" /\ w'[p] = NoWrite
      BY DEF Inv, PlaceInv, Placed, Typed, FilesOK, Working
    <2>2. Placed(p)'
      BY <1>1, <2>1 DEF Placed, Active
    <2> QED
      BY <1>1, <2>2, PlaceKept
  <1>9. TmpInv'
    <2>1. Written(p)'
      BY <1>1 DEF Written
    <2> QED
      BY <1>1, <1>3, <2>1, TmpKept
  <1>10. WholeInv' /\ DurableInv' /\ ListedInv' /\ PendingInv'
    <2>1. \A q \in Proc : Working(q)' /\ w'[q].path = Index =>
                              Working(q) /\ w'[q] = w[q] /\ op'[q] = op[q]
      BY <1>1, OthersChanged DEF Others
    <2> QED
      BY <1>3, <1>5, <1>6, <2>1, WholeKept, DurableKept, ListedKept, PendingKept
  <1> QED
    BY <1>3, <1>7, <1>8, <1>9, <1>10 DEF Inv

\* A delete begins.
LEMMA DeleteInv ==
    ASSUME Inv, NEW p \in Proc, NEW i \in Id, Delete(p, i)
    PROVE  Inv'
  <1> DEFINE o == [kind |-> "delete", id |-> i, version |-> 0]
  <1>1. o \in Method
    BY DEF Method
  <1>2. saves' \in Nat
    BY DEF Delete, Inv, Typed, FilesOK
  <1> QED
    BY <1>1, <1>2, BeginInv DEF Delete, files, Goto

\* A listing begins.
LEMMA ListInv ==
    ASSUME Inv, NEW p \in Proc, List(p)
    PROVE  Inv'
  <1>1. [kind |-> "list"] \in Method
    BY DEF Method
  <1>2. saves' \in Nat
    BY DEF List, limits, Inv, Typed, FilesOK
  <1> QED
    BY <1>1, <1>2, BeginInv DEF List, files, Goto

-----------------------------------------------------------------------------
(* How a method ends *)

\* A method succeeds, having put its file in order.
LEMMA Succeeding ==
    ASSUME Inv, NEW p \in Proc, Succeed(p), Mutates(p) => FileChanged(p), KeptIds
    PROVE  /\ Others(p) /\ ControlOK' /\ AloneInv' /\ DurableInv' /\ Grow
           /\ pc'[p] = "idle" /\ op'[p] = Idle /\ w'[p] = NoWrite /\ ~FileChanged(p)'
           /\ ~Working(p)'
           /\ unsettled' = IF Mutates(p) THEN unsettled \ {op[p].id} ELSE unsettled
           /\ overlapped' = overlapped
  <1>1. Leave(p, "idle") /\ contended' = contended /\ overlapped' = overlapped
        /\ unsettled' = (IF Mutates(p) THEN unsettled \ {op[p].id} ELSE unsettled)
        /\ acked' = (IF Mutates(p) THEN [acked EXCEPT ![op[p].id] = op[p].version] ELSE acked)
    BY DEF Succeed
  <1>2. /\ Others(p) /\ op'[p] = Idle /\ w'[p] = NoWrite /\ pc'[p] = "idle"
        /\ ~Active(p)' /\ ~Working(p)' /\ ~Mutates(p)' /\ ~FileChanged(p)'
        /\ pc' \in [Proc -> {"idle", "down", "open", "fill", "rename", "remove",
                             "readIndex"}]
        /\ op' \in [Proc -> Method] /\ w' \in [Proc -> Write]
        /\ \A q \in Proc : w'[q].bytes \in Mark \/ w'[q].bytes \in Content(w'[q].path)
    BY <1>1, Leaving
  <1>3. acked' \in Listing
    BY <1>1, ChangedFacts DEF Inv, Typed, ControlOK, Listing
  <1>4. ControlOK'
    BY <1>1, <1>2, <1>3 DEF Inv, Typed, ControlOK
  <1>5. AloneInv'
    BY <1>1, <1>2, AloneKept, OthersChanged DEF Others
  <1> QED
    BY <1>1, <1>2, <1>4, <1>5, DurableSucceed DEF Grow

\* A method breaks off.
LEMMA BreakingOff ==
    ASSUME Inv, NEW p \in Proc, NEW place \in {"idle", "down"}, BreakOff(p, place),
           KeptIds, KeptIndex
    PROVE  /\ Others(p) /\ ControlOK' /\ AloneInv' /\ DurableInv' /\ Grow
           /\ WholeInv' /\ ListedInv' /\ PendingInv'
           /\ pc'[p] = place /\ op'[p] = Idle /\ w'[p] = NoWrite
  <1>1. Leave(p, place) /\ contended' = contended /\ overlapped' = overlapped
        /\ unsettled' = (IF FileChanged(p) THEN unsettled \cup {op[p].id} ELSE unsettled)
        /\ acked' = acked
    BY DEF BreakOff
  <1>2. /\ Others(p) /\ op'[p] = Idle /\ w'[p] = NoWrite /\ pc'[p] = place
        /\ ~Active(p)' /\ ~Working(p)' /\ ~Mutates(p)' /\ ~FileChanged(p)'
        /\ pc' \in [Proc -> {"idle", "down", "open", "fill", "rename", "remove",
                             "readIndex"}]
        /\ op' \in [Proc -> Method] /\ w' \in [Proc -> Write]
        /\ \A q \in Proc : w'[q].bytes \in Mark \/ w'[q].bytes \in Content(w'[q].path)
    BY <1>1, Leaving
  <1>3. ControlOK'
    BY <1>1, <1>2, ChangedFacts DEF Inv, Typed, ControlOK
  <1>4. AloneInv'
    BY <1>1, <1>2, AloneKept, OthersChanged DEF Others
  <1>5. Grow /\ unsettled \subseteq unsettled'
    BY <1>1 DEF Grow
  <1>6. \A q \in Proc : FileChanged(q) => op[q].id \in unsettled'
                                          \/ (FileChanged(q)' /\ op'[q] = op[q])
    BY <1>1, <1>2, OthersChanged DEF Others
  <1>7. \A q \in Proc : Working(q)' => Working(q) /\ w'[q] = w[q] /\ op'[q] = op[q]
    BY <1>2, OthersChanged DEF Others
  <1> QED
    BY <1>2, <1>3, <1>4, <1>5, <1>6, <1>7, DurableBreakOff, WholeKept, ListedKept,
       PendingKept

\* Amending a listing of the files lists them, and changes nothing in the list of all.
LEMMA AmendedLists ==
    ASSUME Inv, NEW p \in Proc, FileChanged(p), ~overlapped, NEW listing \in Listing
    PROVE  /\ Amended(op[p], listing) \in Listing
           /\ Amended(op[p], listing)[op[p].id] = Version(final[op[p].id])
           /\ \A i \in Id \ {op[p].id} : Amended(op[p], listing)[i] = listing[i]
           /\ listing = Scanned => Amended(op[p], listing) = Scanned
  <1>1. op[p].id \in Id /\ op[p].version \in Nat
    BY ChangedFacts
  <1>2. Version(final[op[p].id]) = op[p].version
    BY <1>1 DEF Inv, DurableInv, AloneInv
  <1> QED
    BY <1>1, <1>2 DEF Amended, Listing, Scanned

\* A rebuilt index is amended next, whether it reached the disk or not.
LEMMA Amending ==
    ASSUME Inv, NEW p \in Proc, Working(p), w[p].path = Index, w[p].next = "amend",
           Replace(p, Index, Amended(op[p], w[p].bytes), "return"), UNCHANGED <<op, ghosts>>,
           KeptIds, ~overlapped => final'[Index] \in {final[Index], w[p].bytes}
    PROVE  /\ Others(p) /\ ControlOK' /\ AloneInv' /\ DurableInv' /\ Grow
           /\ WholeInv' /\ ListedInv' /\ PendingInv'
           /\ pc'[p] = "open" /\ op'[p] = op[p] /\ w'[p].path = Index
           /\ w'[p].next = "return" /\ w'[p].bytes \in Listing
           /\ op[p].kind \in {"save", "delete"}
  <1> USE PathAssumption, ContentAssumption
  <1>1. /\ Mutates(p) /\ w[p].bytes \in Listing /\ op[p].id \in Id /\ op[p].version \in Nat
        /\ FileChanged(p)
    <2>1. Mutates(p) /\ w[p].bytes \in Listing
      BY ReplacesIndex
    <2>2. FileChanged(p)
      BY <2>1 DEF FileChanged, Working
    <2> QED
      BY <2>1, <2>2, ChangedFacts
  <1> DEFINE new == Amended(op[p], w[p].bytes)
  <1>2. new \in Listing /\ Index \in Path /\ new \in Content(Index)
    BY <1>1 DEF Amended, Listing, Path, Content
  <1>3. /\ pc'[p] = "open" /\ w'[p] = [path |-> Index, bytes |-> new, next |-> "return"]
        /\ Active(p)' /\ Working(p)' /\ Others(p)
        /\ pc' \in [Proc -> {"idle", "down", "open", "fill", "rename", "remove",
                             "readIndex"}]
        /\ w' \in [Proc -> Write]
        /\ \A q \in Proc : w'[q].bytes \in Mark \/ w'[q].bytes \in Content(w'[q].path)
    BY <1>2, Replacing DEF Others
  <1> HIDE DEF new
  <1>4. /\ acked' = acked /\ unsettled' = unsettled /\ contended' = contended
        /\ overlapped' = overlapped /\ op' = op /\ Grow
    BY DEF ghosts, Grow
  <1>5. ControlOK'
    BY <1>3, <1>4 DEF Inv, Typed, ControlOK
  <1>6. \A q \in Proc : (FileChanged(q)' <=> FileChanged(q))
                        /\ (Active(q)' <=> Active(q))
    BY <1>1, <1>3, <1>4, OthersChanged DEF FileChanged, Active, Working, Mutates
  <1>7. AloneInv' /\ DurableInv'
    BY <1>4, <1>6, AloneKept, DurableKept
  <1>8. ASSUME ~overlapped
        PROVE  /\ \A i \in Id : final'[i] = final[i] /\ Version(final'[i]) = Version(final[i])
               /\ Scanned' = Scanned
               /\ final'[Index] = Torn => final[Index] = Torn
               /\ \A q \in Proc : Active(q) => q = p
    <2>1. \A i \in Id : final'[i] = final[i]
      BY <1>8 DEF Inv, AloneInv, KeptIds
    <2>2. w[p].bytes # Torn
      BY <1>1 DEF Listing
    <2> QED
      BY <1>8, <2>1, <2>2 DEF Scanned, Version, Inv, AloneInv, Active, Working
  <1>9. ListedInv'
    <2> SUFFICES ASSUME ~overlapped, final'[Index] # Torn, NEW i \in Id \ unsettled,
                        \A q \in Proc : FileChanged(q) => op[q].id # i
                 PROVE  Parsed(final'[Index])[i] = Version(final[i])
      BY <1>4, <1>6, <1>8 DEF ListedInv, Version, Parsed
    <2>1. CASE final'[Index] = final[Index]
      BY <2>1 DEF Inv, ListedInv
    <2>2. CASE final'[Index] = w[p].bytes
      BY <1>1, <2>2 DEF Inv, PendingInv, Pending, Parsed, Listing
    <2> QED
      BY <2>1, <2>2
  <1>10. PendingInv'
    <2> SUFFICES ASSUME ~overlapped
                 PROVE  /\ \A i \in Id : i \notin unsettled \/ op[p].id = i
                              => new[i] = Version(final[i])
                        /\ final'[Index] = Torn => new = Scanned
      <3>1. \A q \in Proc : Working(q)' => Active(q)
        BY <1>6 DEF Working, Active
      <3> QED
        BY <1>1, <1>3, <1>4, <1>8, <3>1 DEF PendingInv, Pending, Mutates, Version
    <2>1. /\ new[op[p].id] = Version(final[op[p].id])
          /\ \A i \in Id \ {op[p].id} : new[i] = w[p].bytes[i]
          /\ w[p].bytes = Scanned => new = Scanned
      BY <1>1, AmendedLists DEF new
    <2>2. /\ \A i \in Id : i \notin unsettled => w[p].bytes[i] = Version(final[i])
          /\ final[Index] = Torn => w[p].bytes = Scanned
      BY DEF Inv, PendingInv, Pending
    <2> QED
      BY <1>8, <2>1, <2>2
  <1>11. WholeInv'
    BY <1>1, <1>4, <1>8 DEF Inv, WholeInv, KeptIds
  <1> QED
    BY <1>1, <1>2, <1>3, <1>4, <1>5, <1>7, <1>9, <1>10, <1>11 DEF Mutates, new

\* A method that changes no file succeeds: what the files say is as it was.
LEMMA SucceedingQuietly ==
    ASSUME Inv, NEW p \in Proc, Succeed(p), ~Mutates(p), KeptIds, KeptIndex
    PROVE  WholeInv' /\ ListedInv' /\ PendingInv'
  <1>1. /\ Others(p) /\ Grow /\ ~FileChanged(p) /\ ~Working(p)'
        /\ unsettled' = unsettled
    BY Succeeding DEF FileChanged
  <1>2. \A q \in Proc : FileChanged(q) => FileChanged(q)' /\ op'[q] = op[q]
    BY <1>1, OthersChanged DEF Others
  <1>3. \A q \in Proc : Working(q)' => Working(q) /\ w'[q] = w[q] /\ op'[q] = op[q]
    BY <1>1, OthersChanged DEF Others
  <1> QED
    BY <1>1, <1>2, <1>3, WholeKept, ListedKept, PendingKept

\* A process between methods, or down, is well placed and writes nothing.
LEMMA PlacedIdle ==
    ASSUME Inv, NEW p \in Proc, pc'[p] \in {"idle", "down"}, op'[p] = Idle,
           w'[p] = NoWrite, fd'[p] = "closed"
    PROVE  Placed(p)' /\ Written(p)'
  BY DEF Placed, Written, Active, Working, Idle

\* A failed operation: the method breaks off, or goes on where the failure is ignored.
LEMMA Abandoning ==
    ASSUME Inv, NEW p \in Proc, pc[p] \in {"open", "fill", "rename", "remove"},
           Abandon(p), KeptIds, KeptIndex, fd'[p] = "closed"
    PROVE  /\ Others(p) /\ ControlOK' /\ AloneInv' /\ DurableInv' /\ Grow
           /\ WholeInv' /\ ListedInv' /\ PendingInv' /\ Placed(p)' /\ Written(p)'
  <1>1. CASE pc[p] # "remove" /\ Rebuilding(p)
    <2>1. Working(p) /\ w[p].path = Index /\ GoOn(p)
      BY <1>1 DEF Working, Abandon, Rebuilding
    <2>2. CASE w[p].next = "return" /\ Succeed(p)
      <3>1. ~Mutates(p)
        BY <1>1, <2>2 DEF Rebuilding, Mutates
      <3> QED
        BY <2>2, <3>1, Succeeding, SucceedingQuietly, PlacedIdle
    <2>3. CASE /\ w[p].next = "amend" /\ UNCHANGED <<op, ghosts>>
               /\ Replace(p, Index, Amended(op[p], w[p].bytes), "return")
      <3>1. /\ Others(p) /\ ControlOK' /\ AloneInv' /\ DurableInv' /\ Grow
            /\ WholeInv' /\ ListedInv' /\ PendingInv'
            /\ pc'[p] = "open" /\ op'[p] = op[p] /\ w'[p].path = Index
            /\ w'[p].next = "return" /\ w'[p].bytes \in Listing
            /\ op[p].kind \in {"save", "delete"}
        BY <2>1, <2>3, Amending DEF KeptIndex
      <3>2. op[p].kind = "delete" => op[p].version = 0
        BY DEF Inv, PlaceInv, Placed
      <3>3. Placed(p)' /\ Written(p)'
        BY <3>1, <3>2 DEF Placed, Written, Active, Working
      <3> QED
        BY <3>1, <3>3
    <2> QED
      BY <2>1, <2>2, <2>3, ReplacesIndex DEF GoOn
  <1>2. CASE ~(pc[p] # "remove" /\ Rebuilding(p))
    <2>1. PICK place \in {"idle", "down"} : BreakOff(p, place)
      BY <1>2 DEF Abandon
    <2> QED
      BY <2>1, BreakingOff, PlacedIdle
  <1> QED
    BY <1>1, <1>2

-----------------------------------------------------------------------------
(* The other steps *)

\* A write by p leaves what it does not own alone, and the files typed.
LEMMA Pouring ==
    ASSUME Inv, NEW p \in Proc, NEW bytes, bytes \in Mark \/ bytes \in Content(w[p].path),
           Pour(p, bytes), fd' = [fd EXCEPT ![p] = "closed"], saves' = saves
    PROVE  /\ FilesOK' /\ KeptIds /\ KeptIndex /\ fd'[p] = "closed"
           /\ \A q \in Proc \ {p} : fd'[q] = fd[q]
           /\ \A t \in Path : tmp'[t] = tmp[t] \/ (Working(p) /\ w[p].path = t)
  <1>1. w[p].path \in Path /\ fd[p] \in {"closed", "tmp", "final", "gone"}
    BY DEF Inv, Typed, ControlOK, FilesOK, Write
  <1>2. FilesOK'
    BY <1>1 DEF Inv, Typed, FilesOK, Pour
  <1>3. fd[p] # "closed" => Working(p)
    BY DEF Inv, PlaceInv, Placed, Working
  <1>4. \A t \in Path : tmp'[t] = tmp[t] \/ (Working(p) /\ w[p].path = t)
    BY <1>1, <1>3 DEF Inv, Typed, FilesOK, Pour
  <1>5. \A t \in Path : Exclusive(t) => final'[t] = final[t]
    BY <1>1, OpenIsTmp DEF Inv, Typed, FilesOK, Pour
  <1>6. KeptIds /\ KeptIndex
    BY <1>5, PathAssumption DEF KeptIds, KeptIndex, Exclusive, Path
  <1> QED
    BY <1>1, <1>2, <1>4, <1>6 DEF Inv, Typed, FilesOK

\* What each process has open stays open or closed when an inode moves.
LEMMA MovedFds ==
    ASSUME Inv, NEW t, NEW from \in {"tmp", "final"}, NEW to \in {"final", "gone"},
           fd' = Moved(t, from, to)
    PROVE  /\ fd' \in [Proc -> {"closed", "tmp", "final", "gone"}]
           /\ \A q \in Proc : fd'[q] = "closed" <=> fd[q] = "closed"
           /\ \A q \in Proc : fd'[q] = fd[q] \/ (fd[q] = from /\ w[q].path = t)
  BY DEF Inv, Typed, FilesOK, Moved

\* Opening truncates the temporary file.
LEMMA OpenInv ==
    ASSUME Inv, NEW p \in Proc, Open(p)
    PROVE  Inv'
  <1>1. /\ pc[p] = "open" /\ tmp' = [tmp EXCEPT ![w[p].path] = Empty]
        /\ fd' = [fd EXCEPT ![p] = "tmp"] /\ pc' = [pc EXCEPT ![p] = "fill"]
        /\ UNCHANGED <<final, op, w, saves, acked, unsettled, contended, overlapped>>
    BY DEF Open, Goto, limits, ghosts
  <1>2. w[p].path \in Path /\ Working(p) /\ Working(p)'
    BY <1>1 DEF Inv, Typed, ControlOK, Write, Working
  <1>3. /\ ControlOK' /\ FilesOK' /\ Others(p) /\ fd'[p] = "tmp" /\ pc'[p] = "fill"
        /\ \A q \in Proc \ {p} : fd'[q] = fd[q]
        /\ tmp'[w[p].path] = Empty
        /\ \A t \in Path : tmp'[t] = tmp[t] \/ w[p].path = t
    BY <1>1, <1>2 DEF Inv, Typed, ControlOK, FilesOK, Others, Mark
  <1>4. \A q \in Proc : /\ FileChanged(q)' <=> FileChanged(q)
                        /\ Active(q)' <=> Active(q)
                        /\ Working(q)' <=> Working(q)
    BY <1>1, <1>3 DEF Others, FileChanged, Mutates, Active, Working
  <1>5. Grow /\ KeptIds /\ KeptIndex
    BY <1>1 DEF Grow, KeptIds, KeptIndex
  <1>6. Placed(p)' /\ Written(p)'
    <2>1. Placed(p)
      BY DEF Inv, PlaceInv
    <2>2. Placed(p)'
      BY <1>1, <1>2, <1>3, <2>1 DEF Placed, Mutates, Active, Working
    <2>3. Written(p)'
      BY <1>1, <1>3 DEF Written
    <2> QED
      BY <2>2, <2>3
  <1>7. PlaceInv' /\ TmpInv'
    <2>1. \A q \in Proc \ {p} : fd'[q] = "closed" <=> fd[q] = "closed"
      BY <1>3
    <2>2. PlaceInv'
      BY <1>3, <1>6, <2>1, PlaceKept
    <2>3. \A t \in Path : tmp'[t] = tmp[t] \/ (Working(p) /\ w[p].path = t)
      BY <1>2, <1>3
    <2>4. TmpInv'
      BY <1>3, <1>5, <1>6, <2>3, TmpKept
    <2> QED
      BY <2>2, <2>4
  <1>8. AloneInv' /\ WholeInv' /\ DurableInv' /\ ListedInv' /\ PendingInv'
    BY <1>1, <1>4, <1>5, AloneKept, WholeKept, DurableKept, ListedKept, PendingKept
  <1> QED
    BY <1>3, <1>7, <1>8 DEF Inv, Typed

\* The bytes reach the file that is open.
LEMMA FillInv ==
    ASSUME Inv, NEW p \in Proc, Fill(p)
    PROVE  Inv'
  <1>1. /\ pc[p] = "fill" /\ fd' = [fd EXCEPT ![p] = "closed"]
        /\ pc' = [pc EXCEPT ![p] = "rename"]
        /\ Pour(p, w[p].bytes) \/ (Overwrites(p) /\ Pour(p, Torn))
        /\ UNCHANGED <<op, w, saves, acked, unsettled, contended, overlapped>>
    BY DEF Fill, Goto, limits, ghosts
  <1>2. w[p].path \in Path /\ Working(p) /\ Working(p)'
    BY <1>1 DEF Inv, Typed, ControlOK, Write, Working
  <1>3. /\ FilesOK' /\ KeptIds /\ KeptIndex /\ fd'[p] = "closed"
        /\ \A q \in Proc \ {p} : fd'[q] = fd[q]
        /\ \A t \in Path : tmp'[t] = tmp[t] \/ (Working(p) /\ w[p].path = t)
    <2>1. PICK bytes : Pour(p, bytes) /\ (bytes \in Mark \/ bytes \in Content(w[p].path))
      BY <1>1 DEF Inv, Typed, ControlOK, Mark
    <2> QED
      BY <1>1, <2>1, Pouring
  <1>4. /\ ControlOK' /\ Others(p) /\ pc'[p] = "rename"
    BY <1>1 DEF Inv, Typed, ControlOK, Others
  <1>5. \A q \in Proc : /\ FileChanged(q)' <=> FileChanged(q)
                        /\ Active(q)' <=> Active(q)
                        /\ Working(q)' <=> Working(q)
    BY <1>1, <1>4 DEF Others, FileChanged, Mutates, Active, Working
  <1>6. Grow
    BY <1>1 DEF Grow
  <1>7. Placed(p)'
    <2>1. Placed(p)
      BY DEF Inv, PlaceInv
    <2> QED
      BY <1>1, <1>2, <1>3, <1>4, <2>1 DEF Placed, Mutates, Active, Working
  <1>8. Written(p)'
    <2> SUFFICES ASSUME Exclusive(w[p].path) PROVE tmp'[w[p].path] = w[p].bytes
      BY <1>1, <1>4 DEF Written, Exclusive
    <2>1. fd[p] = "tmp" /\ tmp[w[p].path] = Empty
      BY <1>1 DEF Inv, TmpInv, Written
    <2>2. Pour(p, w[p].bytes)
      BY <1>1, <2>1 DEF Overwrites
    <2> QED
      BY <1>2, <2>1, <2>2 DEF Pour, Inv, Typed, FilesOK
  <1>9. PlaceInv'
    BY <1>3, <1>4, <1>7, PlaceKept
  <1>10. TmpInv'
    BY <1>3, <1>4, <1>6, <1>8, TmpKept
  <1>11. AloneInv' /\ WholeInv' /\ DurableInv' /\ ListedInv' /\ PendingInv'
    BY <1>1, <1>3, <1>5, <1>6, AloneKept, WholeKept, DurableKept, ListedKept, PendingKept
  <1> QED
    BY <1>3, <1>4, <1>9, <1>10, <1>11 DEF Inv, Typed

\* Giving a method up keeps the invariant when the files are as they should be.
LEMMA AbandonInv ==
    ASSUME Inv, NEW p \in Proc, KeptIds, KeptIndex, FilesOK', fd'[p] = "closed",
           \/ pc[p] \in {"open", "fill", "rename", "remove"} /\ Abandon(p)
           \/ BreakOff(p, "down"),
           \A t \in Path : tmp'[t] = tmp[t] \/ (Working(p) /\ w[p].path = t),
           \A q \in Proc \ {p} : /\ fd'[q] = "closed" <=> fd[q] = "closed"
                                 /\ \/ fd'[q] = fd[q] \/ fd[q] = "final"
                                    \/ Working(p) /\ w[q].path = w[p].path
    PROVE  Inv'
  <1>1. /\ Others(p) /\ ControlOK' /\ AloneInv' /\ DurableInv' /\ Grow
        /\ WholeInv' /\ ListedInv' /\ PendingInv' /\ Placed(p)' /\ Written(p)'
    <2>1. CASE pc[p] \in {"open", "fill", "rename", "remove"} /\ Abandon(p)
      BY <2>1, Abandoning
    <2>2. CASE BreakOff(p, "down")
      BY <2>2, BreakingOff, PlacedIdle
    <2> QED
      BY <2>1, <2>2
  <1>2. PlaceInv'
    BY <1>1, PlaceKept
  <1>3. TmpInv'
    BY <1>1, TmpKept
  <1> QED
    BY <1>1, <1>2, <1>3 DEF Inv, Typed

\* The temporary file is gone: the rename fails.
LEMMA RenameLostInv ==
    ASSUME Inv, NEW p \in Proc, RenameLost(p)
    PROVE  Inv'
  <1>1. /\ pc[p] = "rename" /\ Abandon(p) /\ UNCHANGED <<final, tmp, fd, saves>>
    BY DEF RenameLost, files, limits
  <1>2. fd[p] = "closed" /\ FilesOK' /\ KeptIds /\ KeptIndex
    BY <1>1 DEF Inv, PlaceInv, Placed, Typed, FilesOK, KeptIds, KeptIndex
  <1> QED
    BY <1>1, <1>2, AbandonInv

\* A file operation fails.
LEMMA FailInv ==
    ASSUME Inv, NEW p \in Proc, Fail(p)
    PROVE  Inv'
  <1>1. Abandon(p) /\ saves' = saves
    BY DEF Fail
  <1>2. CASE pc[p] \in {"open", "remove"} /\ UNCHANGED <<files, fd>>
    <2>1. fd[p] = "closed" /\ FilesOK' /\ KeptIds /\ KeptIndex /\ UNCHANGED <<tmp, fd>>
      BY <1>1, <1>2 DEF Inv, PlaceInv, Placed, Typed, FilesOK, KeptIds, KeptIndex, files
    <2> QED
      BY <1>1, <1>2, <2>1, AbandonInv
  <1>3. CASE pc[p] = "fill" /\ Pour(p, Torn) /\ fd' = [fd EXCEPT ![p] = "closed"]
    <2>1. /\ FilesOK' /\ KeptIds /\ KeptIndex /\ fd'[p] = "closed"
          /\ \A q \in Proc \ {p} : fd'[q] = fd[q]
          /\ \A t \in Path : tmp'[t] = tmp[t] \/ (Working(p) /\ w[p].path = t)
      <3>1. Torn \in Mark
        BY DEF Mark
      <3> QED
        BY <1>1, <1>3, <3>1, Pouring
    <2> QED
      BY <1>1, <1>3, <2>1, AbandonInv
  <1>4. CASE /\ pc[p] = "rename" /\ UNCHANGED final
             /\ tmp' = [tmp EXCEPT ![w[p].path] = Missing]
             /\ fd' = Moved(w[p].path, "tmp", "gone")
    <2>1. Working(p) /\ w[p].path \in Path /\ fd[p] = "closed"
      BY <1>4 DEF Working, Inv, PlaceInv, Placed, Typed, ControlOK, FilesOK, Write
    <2>2. /\ fd' \in [Proc -> {"closed", "tmp", "final", "gone"}]
          /\ \A q \in Proc : fd'[q] = "closed" <=> fd[q] = "closed"
          /\ \A q \in Proc : fd'[q] = fd[q] \/ (fd[q] = "tmp" /\ w[q].path = w[p].path)
      BY <1>4, MovedFds
    <2>3. FilesOK' /\ KeptIds /\ KeptIndex
      BY <1>1, <1>4, <2>1, <2>2
      DEF Inv, Typed, FilesOK, KeptIds, KeptIndex, Mark
    <2>4. \A t \in Path : tmp'[t] = tmp[t] \/ (Working(p) /\ w[p].path = t)
      BY <1>4, <2>1 DEF Inv, Typed, FilesOK
    <2>5. \A q \in Proc \ {p} : /\ fd'[q] = "closed" <=> fd[q] = "closed"
                                /\ \/ fd'[q] = fd[q] \/ fd[q] = "final"
                                   \/ Working(p) /\ w[q].path = w[p].path
      BY <2>1, <2>2
    <2> QED
      BY <1>1, <1>4, <2>1, <2>2, <2>3, <2>4, <2>5, AbandonInv
  <1> QED
    BY <1>2, <1>3, <1>4 DEF Fail

\* A process dies in the middle of a method.
LEMMA CrashInv ==
    ASSUME Inv, NEW p \in Proc, Crash(p)
    PROVE  Inv'
  <1>1. /\ BreakOff(p, "down") /\ saves' = saves /\ fd' = [fd EXCEPT ![p] = "closed"]
        /\ UNCHANGED <<final, tmp>> \/ Pour(p, Torn)
    BY DEF Crash, files
  <1>2. /\ FilesOK' /\ KeptIds /\ KeptIndex /\ fd'[p] = "closed"
        /\ \A q \in Proc \ {p} : fd'[q] = fd[q]
        /\ \A t \in Path : tmp'[t] = tmp[t] \/ (Working(p) /\ w[p].path = t)
    <2>1. CASE Pour(p, Torn)
      <3>1. Torn \in Mark
        BY DEF Mark
      <3> QED
        BY <1>1, <2>1, <3>1, Pouring
    <2>2. CASE UNCHANGED <<final, tmp>>
      BY <1>1, <2>2 DEF Inv, Typed, FilesOK, KeptIds, KeptIndex
    <2> QED
      BY <1>1, <2>1, <2>2
  <1> QED
    BY <1>1, <1>2, AbandonInv

\* The list of the readable files is a listing.
LEMMA ScannedListing ==
    ASSUME Inv PROVE Scanned \in Listing
  BY PathAssumption DEF Scanned, Listing, Version, Inv, Typed, FilesOK, Path, Content, Mark

\* A process sets out to replace the index with a list that is right.
LEMMA IndexReplaced ==
    ASSUME Inv, NEW p \in Proc, NEW bytes \in Listing, NEW next \in {"return", "amend"},
           Replace(p, Index, bytes, next), UNCHANGED <<final, tmp, fd, saves>>,
           pc[p] \in {"down", "readIndex"}, op' \in [Proc -> Method],
           \A q \in Proc \ {p} : op'[q] = op[q],
           next = "amend" => Mutates(p)',
           \/ pc[p] = "down" /\ op'[p].kind = "boot"
           \/ pc[p] = "readIndex" /\ op'[p] = op[p],
           AloneInv', Grow, acked' = acked, unsettled' = unsettled, contended' \subseteq Id,
           ~overlapped' =>
              /\ \A i \in Id : i \notin unsettled \/ (Mutates(p)' /\ op'[p].id = i)
                    => bytes[i] = Version(final[i])
              /\ final[Index] = Torn => bytes = Scanned
    PROVE  Inv'
  <1> USE PathAssumption
  <1>1. /\ pc'[p] = "open" /\ w'[p] = [path |-> Index, bytes |-> bytes, next |-> next]
        /\ Active(p)' /\ Working(p)' /\ Others(p)
        /\ pc' \in [Proc -> {"idle", "down", "open", "fill", "rename", "remove",
                             "readIndex"}]
        /\ w' \in [Proc -> Write]
        /\ \A q \in Proc : w'[q].bytes \in Mark \/ w'[q].bytes \in Content(w'[q].path)
    <2>1. /\ Index \in Path /\ bytes \in Content(Index)
          /\ next \in {"return", "readIndex", "amend"}
      BY DEF Path, Content
    <2>2. /\ pc'[p] = "open" /\ w'[p] = [path |-> Index, bytes |-> bytes, next |-> next]
          /\ Active(p)' /\ Working(p)'
          /\ \A q \in Proc \ {p} : pc'[q] = pc[q] /\ w'[q] = w[q]
          /\ pc' \in [Proc -> {"idle", "down", "open", "fill", "rename", "remove",
                               "readIndex"}]
          /\ w' \in [Proc -> Write]
          /\ \A q \in Proc : w'[q].bytes \in Mark \/ w'[q].bytes \in Content(w'[q].path)
      BY ONLY Inv, <2>1, p \in Proc, Replace(p, Index, bytes, next), Replacing
    <2> QED
      BY <2>2 DEF Others
  <1>2. Typed'
    BY <1>1 DEF Inv, Typed, ControlOK, FilesOK
  <1>3. PlaceInv'
    <2>1. Placed(p) /\ fd'[p] = "closed"
      BY DEF Inv, PlaceInv, Placed, Typed, FilesOK
    <2>2. Placed(p)'
      BY <1>1, <2>1 DEF Placed, Mutates
    <2> QED
      BY <1>1, <2>2, PlaceKept
  <1>4. TmpInv'
    <2>1. Written(p)'
      BY <1>1 DEF Written
    <2> QED
      BY <1>1, <2>1, TmpKept
  <1>5. KeptIds /\ KeptIndex
    BY DEF KeptIds, KeptIndex
  <1>6. \A q \in Proc : (FileChanged(q)' <=> FileChanged(q))
                        /\ (FileChanged(q) => op'[q] = op[q])
    <2>1. (FileChanged(p)' <=> FileChanged(p)) /\ (FileChanged(p) => op'[p] = op[p])
      BY <1>1 DEF FileChanged, Mutates
    <2> QED
      BY <1>1, <2>1, OthersChanged DEF Others
  <1>7. WholeInv' /\ DurableInv' /\ ListedInv'
    BY <1>5, <1>6, WholeKept, DurableKept, ListedKept
  <1>8. PendingInv'
    <2>1. Pending(p)'
      BY <1>1 DEF Pending, Version, Scanned
    <2>2. ASSUME NEW q \in Proc \ {p} PROVE Pending(q)'
      <3>1. Pending(q)
        BY DEF Inv, PendingInv
      <3>2. /\ Working(q)' <=> Working(q)
            /\ Mutates(q)' <=> Mutates(q)
            /\ w'[q] = w[q] /\ op'[q] = op[q] /\ (~overlapped' => ~overlapped)
        BY <1>1, OthersChanged DEF Others, Grow
      <3>3. Scanned' = Scanned /\ \A i \in Id : Version(final'[i]) = Version(final[i])
        BY DEF Scanned, Version
      <3> QED
        BY <3>1, <3>2, <3>3 DEF Pending, Version
    <2> QED
      BY <2>1, <2>2 DEF PendingInv
  <1> QED
    BY <1>2, <1>3, <1>4, <1>7, <1>8 DEF Inv

\* The index is read: a method is done with it, or sets out to replace it.
LEMMA ReadIndexInv ==
    ASSUME Inv, NEW p \in Proc, ReadIndex(p)
    PROVE  Inv'
  <1> USE PathAssumption, ContentAssumption
  <1>1. /\ pc[p] = "readIndex" /\ UNCHANGED <<final, tmp, fd, saves>>
        /\ Mutates(p) => FileChanged(p)
    BY DEF ReadIndex, files, limits, FileChanged
  <1>2. fd[p] = "closed" /\ op \in [Proc -> Method]
    BY <1>1 DEF Inv, PlaceInv, Placed, Typed, ControlOK, FilesOK
  <1>3. KeptIds /\ KeptIndex
    BY <1>1 DEF KeptIds, KeptIndex
  <1>4. ASSUME UNCHANGED <<op, ghosts>>, Active(p)'
        PROVE  /\ Grow /\ acked' = acked /\ unsettled' = unsettled /\ contended' \subseteq Id
               /\ overlapped' = overlapped /\ op' = op
               /\ Others(p) => AloneInv'
    <2>1. /\ Grow /\ acked' = acked /\ unsettled' = unsettled /\ contended' = contended
          /\ overlapped' = overlapped /\ op' = op
      BY <1>4 DEF ghosts, Grow
    <2>2. ASSUME Others(p) PROVE AloneInv'
      <3>1. \A q \in Proc : Active(q)' <=> Active(q)
        BY <1>1, <1>4, <2>2, OthersChanged DEF Active
      <3> QED
        BY <2>1, <3>1, AloneKept
    <2> QED
      BY <2>1, <2>2 DEF Inv, Typed, ControlOK
  <1>5. CASE /\ final[Index] = Torn /\ UNCHANGED <<op, ghosts>>
             /\ Replace(p, Index, Scanned, IF Mutates(p) THEN "amend" ELSE "return")
    <2>1. Others(p) /\ Active(p)'
      BY <1>5 DEF Replace, Goto, Others, Active, Inv, Typed, ControlOK
    <2>2. \A i \in Id : Scanned[i] = Version(final[i])
      BY DEF Scanned
    <2>3. \A q \in Proc : Mutates(q)' <=> Mutates(q)
      BY <1>5 DEF Mutates
    <2> QED
      BY <1>1, <1>2, <1>4, <1>5, <2>1, <2>2, <2>3, ScannedListing, IndexReplaced
  <1>6. CASE /\ final[Index] # Torn /\ Mutates(p) /\ UNCHANGED <<op, ghosts>>
             /\ Replace(p, Index, Amended(op[p], Parsed(final[Index])), "return")
    <2> DEFINE new == Amended(op[p], Parsed(final[Index]))
    <2>1. Others(p) /\ Active(p)'
      BY <1>6 DEF Replace, Goto, Others, Active, Inv, Typed, ControlOK
    <2>2. Parsed(final[Index]) \in Listing
      BY <1>6 DEF Parsed, Inv, Typed, FilesOK, Path, Content, Mark, Unlisted, Listing
    <2>3. new \in Listing
      BY <1>1, <1>6, <2>2, ChangedFacts DEF Amended, Listing
    <2>4. ASSUME ~overlapped
          PROVE  \A i \in Id : i \notin unsettled \/ op[p].id = i
                    => new[i] = Version(final[i])
      <3>1. /\ new[op[p].id] = Version(final[op[p].id])
            /\ \A i \in Id \ {op[p].id} : new[i] = Parsed(final[Index])[i]
        BY <1>1, <1>6, <2>2, <2>4, AmendedLists
      <3>2. \A q \in Proc : FileChanged(q) => q = p
        BY <1>1, <1>6, <2>4, ChangedFacts DEF Inv, AloneInv
      <3>3. \A i \in Id \ {op[p].id} : i \notin unsettled =>
                Parsed(final[Index])[i] = Version(final[i])
        BY <1>6, <2>4, <3>2 DEF Inv, ListedInv
      <3> QED
        BY <3>1, <3>3
    <2> HIDE DEF new
    <2> QED
      BY <1>1, <1>2, <1>4, <1>6, <2>1, <2>3, <2>4, IndexReplaced DEF new
  <1>7. CASE ~Mutates(p) /\ Succeed(p)
    <2>1. /\ Others(p) /\ ControlOK' /\ AloneInv' /\ DurableInv' /\ Grow
          /\ WholeInv' /\ ListedInv' /\ PendingInv' /\ Placed(p)' /\ Written(p)'
      BY <1>1, <1>2, <1>3, <1>7, Succeeding, SucceedingQuietly, PlacedIdle
    <2>2. FilesOK'
      BY <1>1 DEF Inv, Typed, FilesOK
    <2>3. PlaceInv' /\ TmpInv'
      BY <1>1, <2>1, PlaceKept, TmpKept
    <2> QED
      BY <2>1, <2>2, <2>3 DEF Inv, Typed
  <1> QED
    BY <1>5, <1>6, <1>7 DEF ReadIndex

\* A process starts again.
LEMMA RestartInv ==
    ASSUME Inv, NEW p \in Proc, Restart(p)
    PROVE  Inv'
  <1> USE PathAssumption, ContentAssumption
  <1>1. /\ pc[p] = "down" /\ UNCHANGED <<final, tmp, fd, saves>> /\ Contend(p, {})
        /\ op[p] = Idle /\ w[p] = NoWrite /\ fd[p] = "closed"
    BY DEF Restart, files, limits, Inv, PlaceInv, Placed, Active, Working, Typed, FilesOK
  <1>2. CASE final[Index] = Missing /\ Replace(p, Index, Unlisted, "return")
             /\ op' = [op EXCEPT ![p] = [kind |-> "boot"]]
    <2>1. [kind |-> "boot"] \in Method /\ Unlisted \in Listing
      BY DEF Method, Unlisted, Listing
    <2>2. /\ op' \in [Proc -> Method] /\ op'[p].kind = "boot" /\ ~Mutates(p)'
          /\ \A q \in Proc \ {p} : op'[q] = op[q]
      BY <1>2, <2>1 DEF Inv, Typed, ControlOK, Mutates
    <2>3. Others(p)
      BY <1>2, <2>2 DEF Others, Replace, Goto, Inv, Typed, ControlOK
    <2>4. /\ AloneInv' /\ Grow /\ contended' \subseteq Id
          /\ ~overlapped' => \A q \in Proc \ {p} : ~Active(q)
          /\ acked' = acked /\ unsettled' = unsettled
      BY <1>1, <2>2, <2>3, Starting DEF Active
    <2>5. ASSUME ~overlapped', NEW i \in Id \ unsettled
          PROVE  Unlisted[i] = Version(final[i])
      <3>1. \A q \in Proc : ~FileChanged(q)
        BY <1>1, <2>4, <2>5, ChangedFacts DEF Active
      <3>2. Parsed(final[Index]) = Unlisted /\ final[Index] # Torn /\ ~overlapped
        BY <1>2, <2>4, <2>5 DEF Parsed, Grow
      <3> QED
        BY <3>1, <3>2 DEF Inv, ListedInv
    <2> QED
      BY <1>1, <1>2, <2>1, <2>2, <2>4, <2>5, IndexReplaced
  <1>3. CASE pc' = [pc EXCEPT ![p] = "idle"] /\ UNCHANGED <<op, w>>
    <2>1. /\ Others(p) /\ pc'[p] = "idle" /\ op'[p] = Idle /\ w'[p] = NoWrite
          /\ pc' \in [Proc -> {"idle", "down", "open", "fill", "rename", "remove",
                               "readIndex"}]
      BY <1>1, <1>3 DEF Others, Inv, Typed, ControlOK
    <2>2. /\ AloneInv' /\ Grow /\ contended' \subseteq Id
          /\ acked' = acked /\ unsettled' = unsettled
      BY <1>1, <2>1, Starting DEF Active, Mutates, Idle
    <2>3. Typed'
      BY <1>1, <1>3, <2>1, <2>2 DEF Inv, Typed, ControlOK, FilesOK
    <2>4. Placed(p)' /\ Written(p)'
      BY <1>1, <2>1, PlacedIdle
    <2>5. PlaceInv' /\ TmpInv'
      BY <1>1, <2>1, <2>2, <2>4, PlaceKept, TmpKept
    <2>6. \A q \in Proc : /\ FileChanged(q)' <=> FileChanged(q)
                          /\ Working(q)' <=> Working(q)
      <3>1. /\ ~FileChanged(p) /\ ~FileChanged(p)' /\ ~Working(p) /\ ~Working(p)'
        BY <1>1, <2>1 DEF FileChanged, Working
      <3> QED
        BY <2>1, <3>1, OthersChanged
    <2>7. KeptIds /\ KeptIndex
      BY <1>1 DEF KeptIds, KeptIndex
    <2>8. WholeInv' /\ DurableInv' /\ ListedInv' /\ PendingInv'
      BY <1>3, <2>2, <2>6, <2>7, WholeKept, DurableKept, ListedKept, PendingKept
    <2> QED
      BY <2>2, <2>3, <2>5, <2>8 DEF Inv
  <1> QED
    BY <1>2, <1>3 DEF Restart, Goto

-----------------------------------------------------------------------------
(* The steps that change a file *)

\* A method that has put the file of its diagram right goes on to the index.
LEMMA FileDone ==
    ASSUME Inv, NEW p \in Proc, NEW content, Active(p), Mutates(p), op[p].id \in Id,
           pc' = [pc EXCEPT ![p] = "readIndex"], Others(p), w'[p] = NoWrite,
           UNCHANGED <<op, acked, unsettled, contended, overlapped>>,
           final' = [final EXCEPT ![op[p].id] = content],
           op[p].id \notin contended =>
              content \in Nat \cup {Missing} /\ Version(content) = op[p].version
    PROVE  AloneInv' /\ WholeInv' /\ DurableInv' /\ ListedInv' /\ PendingInv'
  <1> USE PathAssumption, ContentAssumption
  <1> DEFINE i == op[p].id
  <1>1. pc'[p] = "readIndex" /\ FileChanged(p)' /\ Active(p)' /\ ~Working(p)'
    BY DEF FileChanged, Mutates, Active, Working, Inv, Typed, ControlOK
  <1>2. /\ final'[i] = content
        /\ \A t \in Path \ {i} : final'[t] = final[t]
        /\ i \in Path /\ Index \in Path \ {i} /\ \A j \in Id : j \in Path
    BY DEF Inv, Typed, FilesOK, Path
  <1>3. \A q \in Proc \ {p} : /\ FileChanged(q)' <=> FileChanged(q)
                              /\ op'[q] = op[q] /\ (Active(q)' <=> Active(q))
    BY OthersChanged
  <1>4. AloneInv'
    BY <1>1, <1>3, AloneKept
  <1>5. WholeInv'
    BY <1>2 DEF Inv, WholeInv
  <1>6. DurableInv'
    <2>1. ASSUME NEW j \in Id \ contended, NEW q \in Proc, FileChanged(q)', op[q].id = j
          PROVE  Version(final'[j]) = op[q].version
      <3>1. CASE q = p
        BY <1>2, <2>1, <3>1
      <3>2. CASE q # p
        <4>1. FileChanged(q) /\ Mutates(q)
          BY <1>3, <2>1, <3>2, ChangedFacts
        <4>2. j # i
          BY <2>1, <3>2, <4>1 DEF Inv, AloneInv
        <4> QED
          BY <1>2, <2>1, <4>1, <4>2 DEF Inv, DurableInv
      <3> QED
        BY <3>1, <3>2
    <2>2. ASSUME NEW j \in Id \ contended, j \notin unsettled,
                 \A q \in Proc : FileChanged(q)' => op[q].id # j
          PROVE  Version(final'[j]) = acked[j]
      <3>1. j # i /\ final'[j] = final[j]
        BY <1>1, <1>2, <2>2
      <3>2. \A q \in Proc : FileChanged(q) => op[q].id # j
        BY <1>3, <2>2, <3>1
      <3> QED
        BY <2>2, <3>1, <3>2 DEF Inv, DurableInv
    <2> QED
      BY <2>1, <2>2 DEF DurableInv, Version
  <1>7. ASSUME ~overlapped PROVE \A q \in Proc : Active(q) => q = p
    BY <1>7 DEF Inv, AloneInv
  <1>8. ListedInv'
    <2> SUFFICES ASSUME ~overlapped, final'[Index] # Torn, NEW j \in Id \ unsettled,
                        \A q \in Proc : FileChanged(q)' => op[q].id # j
                 PROVE  Parsed(final'[Index])[j] = Version(final'[j])
      BY DEF ListedInv, Parsed, Version
    <2>1. j # i /\ final'[j] = final[j] /\ final'[Index] = final[Index]
      BY <1>1, <1>2
    <2>2. \A q \in Proc : FileChanged(q) => op[q].id # j
      BY <1>3, <2>1
    <2> QED
      BY <2>1, <2>2 DEF Inv, ListedInv
  <1>9. PendingInv'
    BY <1>1, <1>3, <1>7 DEF PendingInv, Pending, Working, Active
  <1> QED
    BY <1>4, <1>5, <1>6, <1>8, <1>9

\* The file of a deleted diagram is removed.
LEMMA RemoveInv ==
    ASSUME Inv, NEW p \in Proc, Remove(p)
    PROVE  Inv'
  <1> USE PathAssumption, ContentAssumption
  <1>1. /\ pc[p] = "remove" /\ final' = [final EXCEPT ![op[p].id] = Missing]
        /\ fd' = Moved(op[p].id, "final", "gone") /\ pc' = [pc EXCEPT ![p] = "readIndex"]
        /\ UNCHANGED <<tmp, op, w, saves, acked, unsettled, contended, overlapped>>
    BY DEF Remove, Goto, limits, ghosts
  <1>2. /\ op[p].kind = "delete" /\ op[p].version = 0 /\ w[p] = NoWrite /\ fd[p] = "closed"
    BY <1>1 DEF Inv, PlaceInv, Placed, Working, Typed, FilesOK
  <1>3. op[p].id \in Id /\ Mutates(p) /\ Active(p)
    BY <1>1, <1>2 DEF Inv, Typed, ControlOK, Method, Mutates, Active, Idle
  <1>4. /\ fd' \in [Proc -> {"closed", "tmp", "final", "gone"}]
        /\ \A q \in Proc : fd'[q] = "closed" <=> fd[q] = "closed"
        /\ \A q \in Proc : fd'[q] = fd[q] \/ (fd[q] = "final" /\ w[q].path = op[p].id)
    BY <1>1, MovedFds
  <1>5. Others(p) /\ pc'[p] = "readIndex" /\ ControlOK'
    BY <1>1 DEF Others, Inv, Typed, ControlOK
  <1>6. FilesOK'
    BY <1>1, <1>3, <1>4 DEF Inv, Typed, FilesOK, Path, Mark
  <1>7. Placed(p)' /\ Written(p)'
    <2>1. Placed(p)'
      BY <1>1, <1>2, <1>4, <1>5 DEF Placed, Active, Working
    <2>2. Written(p)'
      BY <1>5 DEF Written
    <2> QED
      BY <2>1, <2>2
  <1>8. PlaceInv'
    BY <1>4, <1>5, <1>7, PlaceKept
  <1>9. TmpInv'
    BY <1>1, <1>4, <1>5, <1>7, TmpKept DEF Grow
  <1>10. Version(Missing) = op[p].version
    BY <1>2 DEF Version
  <1>11. AloneInv' /\ WholeInv' /\ DurableInv' /\ ListedInv' /\ PendingInv'
    BY <1>1, <1>2, <1>3, <1>5, <1>10, FileDone
  <1> QED
    BY <1>5, <1>6, <1>8, <1>9, <1>11 DEF Inv, Typed

\* What a rename does to the files.
LEMMA Renaming ==
    ASSUME Inv, NEW p \in Proc, Rename(p)
    PROVE  /\ FilesOK' /\ saves' = saves /\ GoOn(p) /\ Working(p)
           /\ final' = [final EXCEPT ![w[p].path] = tmp[w[p].path]]
           /\ fd'[p] = "closed" /\ w[p].path \in Path
           /\ Exclusive(w[p].path) => tmp[w[p].path] = w[p].bytes
           /\ \A t \in Path : tmp'[t] = tmp[t] \/ (Working(p) /\ w[p].path = t)
           /\ \A q \in Proc \ {p} :
                 /\ fd'[q] = "closed" <=> fd[q] = "closed"
                 /\ \/ fd'[q] = fd[q] \/ fd[q] = "final"
                    \/ Working(p) /\ w[q].path = w[p].path
  <1> DEFINE t == w[p].path
  <1>1. /\ pc[p] = "rename" /\ GoOn(p) /\ saves' = saves
        /\ final' = [final EXCEPT ![t] = tmp[t]] /\ tmp' = [tmp EXCEPT ![t] = Missing]
        /\ fd' = [q \in Proc |-> IF w[q].path = t /\ fd[q] = "final" THEN "gone"
                                 ELSE Moved(t, "tmp", "final")[q]]
    BY DEF Rename, limits
  <1>2. t \in Path /\ Working(p) /\ fd[p] = "closed"
    BY <1>1 DEF Inv, Typed, ControlOK, FilesOK, Write, Working, PlaceInv, Placed
  <1>3. /\ fd' \in [Proc -> {"closed", "tmp", "final", "gone"}]
        /\ \A q \in Proc : /\ fd'[q] = "closed" <=> fd[q] = "closed"
                           /\ fd'[q] = fd[q] \/ w[q].path = t
    BY <1>1 DEF Moved, Inv, Typed, FilesOK
  <1>4. FilesOK'
    BY <1>1, <1>2, <1>3 DEF Inv, Typed, FilesOK, Mark
  <1>5. \A u \in Path : tmp'[u] = tmp[u] \/ (Working(p) /\ t = u)
    BY <1>1, <1>2 DEF Inv, Typed, FilesOK
  <1>6. Exclusive(t) => tmp[t] = w[p].bytes
    BY <1>1 DEF Inv, TmpInv, Written
  <1> HIDE DEF t
  <1>7. \A q \in Proc \ {p} : /\ fd'[q] = "closed" <=> fd[q] = "closed"
                              /\ \/ fd'[q] = fd[q] \/ fd[q] = "final"
                                 \/ Working(p) /\ w[q].path = t
    BY <1>2, <1>3
  <1> QED
    BY <1>1, <1>2, <1>3, <1>4, <1>5, <1>6, <1>7 DEF t

\* The temporary file of a diagram becomes its file.
LEMMA RenameFileInv ==
    ASSUME Inv, NEW p \in Proc, Rename(p), w[p].path # Index
    PROVE  Inv'
  <1> USE PathAssumption, ContentAssumption
  <1>1. /\ FilesOK' /\ GoOn(p) /\ Working(p) /\ fd'[p] = "closed"
        /\ final' = [final EXCEPT ![w[p].path] = tmp[w[p].path]]
        /\ Exclusive(w[p].path) => tmp[w[p].path] = w[p].bytes
        /\ \A t \in Path : tmp'[t] = tmp[t] \/ (Working(p) /\ w[p].path = t)
        /\ \A q \in Proc \ {p} :
              /\ fd'[q] = "closed" <=> fd[q] = "closed"
              /\ \/ fd'[q] = fd[q] \/ fd[q] = "final"
                 \/ Working(p) /\ w[q].path = w[p].path
    BY Renaming
  <1>2. /\ op[p].kind = "save" /\ w[p].path = op[p].id /\ op[p].id \in Id
        /\ w[p].bytes = op[p].version /\ op[p].version \in Nat /\ w[p].next = "readIndex"
    BY <1>1, ReplacesFile
  <1>3. /\ pc' = [pc EXCEPT ![p] = "readIndex"] /\ w' = [w EXCEPT ![p] = NoWrite]
        /\ UNCHANGED <<op, acked, unsettled, contended, overlapped>>
    BY <1>1, <1>2 DEF GoOn, Goto, ghosts
  <1>4. NoWrite \in Write /\ NoWrite.bytes \in Mark
    BY DEF NoWrite, Write, Path, Mark
  <1>5. /\ Others(p) /\ pc'[p] = "readIndex" /\ w'[p] = NoWrite /\ ControlOK'
    BY <1>3, <1>4 DEF Others, Inv, Typed, ControlOK
  <1>6. Placed(p)' /\ Written(p)'
    <2>1. Placed(p)'
      BY <1>1, <1>2, <1>3, <1>5 DEF Placed, Active, Working
    <2>2. Written(p)'
      BY <1>5 DEF Written
    <2> QED
      BY <2>1, <2>2
  <1>7. PlaceInv'
    BY <1>1, <1>5, <1>6, PlaceKept
  <1>8. TmpInv'
    BY <1>1, <1>3, <1>5, <1>6, TmpKept DEF Grow
  <1>9. op[p].id \notin contended =>
            tmp[op[p].id] \in Nat \cup {Missing} /\ Version(tmp[op[p].id]) = op[p].version
    BY <1>1, <1>2 DEF Exclusive, Version
  <1>10. Active(p) /\ Mutates(p)
    BY <1>1, <1>2 DEF Active, Working, Mutates
  <1>11. AloneInv' /\ WholeInv' /\ DurableInv' /\ ListedInv' /\ PendingInv'
    BY <1>1, <1>2, <1>3, <1>5, <1>9, <1>10, FileDone
  <1> QED
    BY <1>1, <1>5, <1>7, <1>8, <1>11 DEF Inv, Typed

\* The temporary index becomes the index.
LEMMA RenameIndexInv ==
    ASSUME Inv, NEW p \in Proc, Rename(p), w[p].path = Index
    PROVE  Inv'
  <1> USE PathAssumption, ContentAssumption
  <1>1. /\ FilesOK' /\ GoOn(p) /\ Working(p) /\ fd'[p] = "closed"
        /\ final' = [final EXCEPT ![Index] = tmp[Index]]
        /\ ~overlapped => tmp[Index] = w[p].bytes
        /\ \A t \in Path : tmp'[t] = tmp[t] \/ (Working(p) /\ w[p].path = t)
        /\ \A q \in Proc \ {p} :
              /\ fd'[q] = "closed" <=> fd[q] = "closed"
              /\ \/ fd'[q] = fd[q] \/ fd[q] = "final"
                 \/ Working(p) /\ w[q].path = w[p].path
    BY Renaming DEF Exclusive
  <1>2. /\ w[p].bytes \in Listing /\ (Mutates(p) => FileChanged(p))
        /\ w[p].next = "return" \/ w[p].next = "amend"
    BY <1>1, ReplacesIndex
  <1>3. /\ ~overlapped => final'[Index] = w[p].bytes
        /\ \A i \in Id : final'[i] = final[i]
        /\ KeptIds
    BY <1>1 DEF Inv, Typed, FilesOK, Path, KeptIds
  <1>4. /\ Others(p) /\ ControlOK' /\ AloneInv' /\ DurableInv' /\ Grow
        /\ WholeInv' /\ ListedInv' /\ PendingInv' /\ Placed(p)' /\ Written(p)'
    <2>1. CASE w[p].next = "return" /\ Succeed(p)
      <3>1. /\ Others(p) /\ ControlOK' /\ AloneInv' /\ DurableInv' /\ Grow
            /\ pc'[p] = "idle" /\ op'[p] = Idle /\ w'[p] = NoWrite
            /\ ~FileChanged(p)' /\ ~Working(p)'
            /\ unsettled' = IF Mutates(p) THEN unsettled \ {op[p].id} ELSE unsettled
            /\ overlapped' = overlapped
        BY <1>2, <1>3, <2>1, Succeeding
      <3>2. Placed(p)' /\ Written(p)'
        BY <1>1, <3>1, PlacedIdle
      <3>3. WholeInv'
        BY <1>2, <1>3, <3>1 DEF Inv, WholeInv, Grow
      <3>4. ListedInv'
        <4> SUFFICES ASSUME ~overlapped, NEW i \in Id \ unsettled'
                     PROVE  Parsed(final'[Index])[i] = Version(final'[i])
          BY <3>1 DEF ListedInv, Parsed, Version
        <4>1. i \notin unsettled \/ (Mutates(p) /\ op[p].id = i)
          BY <3>1
        <4>2. w[p].bytes[i] = Version(final[i])
          BY <1>1, <4>1 DEF Inv, PendingInv, Pending
        <4> QED
          BY <1>2, <1>3, <4>2 DEF Parsed, Listing
      <3>5. PendingInv'
        <4>1. ASSUME ~overlapped, NEW q \in Proc, q # p PROVE ~Working(q)'
          BY <1>1, <3>1, <4>1, OthersChanged DEF Inv, AloneInv, Active, Working
        <4> QED
          BY <3>1, <4>1 DEF PendingInv, Pending
      <3> QED
        BY <3>1, <3>2, <3>3, <3>4, <3>5
    <2>2. CASE /\ w[p].next = "amend" /\ UNCHANGED <<op, ghosts>>
               /\ Replace(p, Index, Amended(op[p], w[p].bytes), "return")
      <3>1. /\ Others(p) /\ ControlOK' /\ AloneInv' /\ DurableInv' /\ Grow
            /\ WholeInv' /\ ListedInv' /\ PendingInv'
            /\ pc'[p] = "open" /\ op'[p] = op[p] /\ w'[p].path = Index
            /\ w'[p].next = "return" /\ w'[p].bytes \in Listing
            /\ op[p].kind \in {"save", "delete"}
        BY <1>1, <1>3, <2>2, Amending
      <3>2. op[p].kind = "delete" => op[p].version = 0
        BY DEF Inv, PlaceInv, Placed
      <3>3. Placed(p)' /\ Written(p)'
        BY <1>1, <3>1, <3>2 DEF Placed, Written, Active, Working
      <3> QED
        BY <3>1, <3>3
    <2> QED
      BY <1>1, <1>2, <2>1, <2>2 DEF GoOn
  <1>5. PlaceInv'
    BY <1>1, <1>4, PlaceKept
  <1>6. TmpInv'
    BY <1>1, <1>4, TmpKept
  <1> QED
    BY <1>1, <1>4, <1>5, <1>6 DEF Inv, Typed

\* The index is damaged from outside while nothing runs.
LEMMA DamageInv ==
    ASSUME Inv, Damage
    PROVE  Inv'
  <1> USE PathAssumption, ContentAssumption
  <1>1. PICK content \in {Missing, Torn} :
          /\ final' = [final EXCEPT ![Index] = content]
          /\ unsettled' = IF content = Missing THEN Id ELSE unsettled
    BY DEF Damage
  <1>2. /\ \A q \in Proc : ~Active(q) /\ ~Working(q)
        /\ UNCHANGED <<tmp, pc, op, w, fd, saves, acked, contended, overlapped>>
    BY DEF Damage, Active, Working
  <1>3. \A q \in Proc : ~FileChanged(q)
    BY <1>2, ChangedFacts
  <1>4. final'[Index] = content /\ \A i \in Id : final'[i] = final[i]
    BY <1>1 DEF Inv, Typed, FilesOK, Path
  <1>5. Typed'
    BY <1>1, <1>2 DEF Inv, Typed, ControlOK, FilesOK, Path, Mark
  <1>6. /\ KeptIds /\ Grow /\ unsettled \subseteq unsettled'
        /\ \A q \in Proc : ~FileChanged(q)' /\ ~Working(q)' /\ ~Active(q)'
    BY <1>1, <1>2, <1>3, <1>4
    DEF KeptIds, Grow, FileChanged, Mutates, Active, Working, Inv, Typed, ControlOK
  <1>7. PlaceInv'
    BY <1>2 DEF Inv, PlaceInv, Placed, Active, Working, Mutates
  <1>8. AloneInv' /\ TmpInv' /\ PendingInv'
    <2>1. AloneInv'
      BY <1>2, <1>6, AloneKept
    <2>2. TmpInv'
      BY <1>2, <1>6 DEF TmpInv, Written, Working
    <2>3. PendingInv'
      BY <1>6 DEF PendingInv, Pending
    <2> QED
      BY <2>1, <2>2, <2>3
  <1>9. WholeInv'
    BY <1>2, <1>4 DEF Inv, WholeInv
  <1>10. DurableInv'
    BY <1>2, <1>3, <1>6, DurableKept
  <1>11. ListedInv'
    BY <1>1, <1>2, <1>3, <1>4 DEF ListedInv
  <1> QED
    BY <1>5, <1>7, <1>8, <1>9, <1>10, <1>11 DEF Inv

-----------------------------------------------------------------------------
(* Theorems *)

\* A step that changes nothing keeps the invariant.
LEMMA StutterInv ==
    ASSUME Inv, UNCHANGED vars
    PROVE  Inv'
  <1>1. /\ Typed' /\ PlaceInv' /\ AloneInv' /\ TmpInv'
    BY DEF Inv, vars, Typed, ControlOK, FilesOK, PlaceInv, Placed, AloneInv, TmpInv, Written,
       Active, Working, Mutates, Exclusive
  <1>2. \A q \in Proc : /\ FileChanged(q)' <=> FileChanged(q)
                        /\ op'[q] = op[q] /\ w'[q] = w[q]
                        /\ Working(q)' <=> Working(q)
    BY DEF vars, FileChanged, Mutates, Working
  <1>3. KeptIds /\ KeptIndex /\ Grow /\ acked' = acked /\ unsettled' = unsettled
    BY DEF KeptIds, KeptIndex, Grow, vars
  <1>4. WholeInv' /\ DurableInv' /\ ListedInv' /\ PendingInv'
    BY <1>2, <1>3, WholeKept, DurableKept, ListedKept, PendingKept
  <1> QED
    BY <1>1, <1>4 DEF Inv

\* Every step keeps the invariant.
LEMMA NextInv ==
    ASSUME Inv, [Next]_vars
    PROVE  Inv'
  <1>1. ASSUME NEW p \in Proc, Step(p) PROVE Inv'
    <2>1. ASSUME NEW i \in Id, Save(p, i) \/ Delete(p, i) PROVE Inv'
      BY <2>1, SaveInv, DeleteInv
    <2>2. CASE Rename(p)
      BY <2>2, RenameFileInv, RenameIndexInv
    <2> QED
      BY <1>1, <2>1, <2>2, ListInv, RemoveInv, ReadIndexInv, OpenInv, FillInv,
         RenameLostInv, FailInv, CrashInv, RestartInv DEF Step
  <1> QED
    BY <1>1, DamageInv, StutterInv DEF Next

\* The invariant holds in every reachable state.
THEOREM Invariance == Spec => []Inv
  <1>1. Init => Inv
    BY InitInv
  <1>2. Inv /\ [Next]_vars => Inv'
    BY NextInv
  <1> QED
    BY <1>1, <1>2, PTL DEF Spec

\* Every variable has its type, whatever crashes, fails or is overwritten.
THEOREM Types == Spec => []TypeOK
  <1>1. Inv => TypeOK
    BY DEF Inv, Typed, ControlOK, FilesOK, Write, TypeOK
  <1> QED
    BY <1>1, Invariance, PTL

\* A diagram file is whole or not there, unless two processes saved it at once: no
\* crash and no failed operation leaves a torn one (writeDiagramAtomic).
THEOREM WholeFiles == Spec => []FilesAreWhole
  <1>1. Inv => FilesAreWhole
    BY ContentAssumption DEF Inv, WholeInv, FilesAreWhole
  <1> QED
    BY <1>1, Invariance, PTL

\* What an acknowledged Save or Delete left is what a restart finds.
THEOREM Durability == Spec => []AcknowledgedIsDurable
  <1>1. ASSUME Inv PROVE AcknowledgedIsDurable
    <2>1. \A p \in Proc : FileChanged(p) => Mutates(p) /\ pc[p] # "remove"
      BY DEF FileChanged
    <2> QED
      BY <1>1, <2>1 DEF Inv, DurableInv, AcknowledgedIsDurable, Busy
  <1> QED
    BY <1>1, Invariance, PTL

\* Between methods the index lists the versions in the files (upsertIndex,
\* removeFromIndex, rebuildIndex), but for diagrams whose last change broke off.
THEOREM IndexAgrees == Spec => []IndexMatchesFiles
  <1>1. ASSUME Inv PROVE IndexMatchesFiles
    <2>1. Quiet => \A p \in Proc : ~FileChanged(p)
      BY DEF Quiet, FileChanged
    <2> QED
      BY <1>1, <2>1 DEF Inv, ListedInv, IndexMatchesFiles
  <1> QED
    BY <1>1, Invariance, PTL

\* A torn index is replaced by the list of all readable files and by nothing else.
THEOREM RebuiltWhole == Spec => RebuildIsComplete
  <1> DEFINE Complete == (final[Index] = Torn /\ final'[Index] \notin {Torn, Missing}
                             /\ ~overlapped) => final'[Index] = Scanned
  <1>1. ASSUME Inv, [Next]_vars PROVE Complete
    <2> SUFFICES ASSUME final[Index] = Torn, final'[Index] # Torn,
                        final'[Index] # Missing, ~overlapped
                 PROVE  final'[Index] = Scanned
      OBVIOUS
    <2> USE PathAssumption
    <2>1. Index \in Path /\ DOMAIN final = Path
      BY <1>1 DEF Path, Inv, Typed, FilesOK
    <2>2. ~Damage
      BY <2>1, ContentAssumption DEF Damage
    <2>3. final' # final
      OBVIOUS
    <2>4. PICK p \in Proc : Step(p)
      BY <1>1, <2>2, <2>3 DEF Next, vars
    <2>5. ASSUME NEW bytes, Pour(p, bytes) PROVE final'[Index] = final[Index]
      BY <1>1, <2>1, <2>5, OpenIsTmp DEF Pour, Exclusive
    <2>6. ~Remove(p)
      <3>1. Remove(p) => op[p].kind = "delete"
        BY <1>1 DEF Remove, Inv, PlaceInv, Placed
      <3>2. op[p].kind = "delete" => op[p].id \in Id
        BY <1>1 DEF Inv, Typed, ControlOK, Method, Idle
      <3> QED
        BY <2>1, <3>1, <3>2 DEF Remove
    <2>7. Rename(p)
      BY <2>3, <2>4, <2>5, <2>6 DEF Step, Save, Delete, List, ReadIndex, Open, Fill,
         RenameLost, Fail, Crash, Restart, files
    <2>8. /\ final' = [final EXCEPT ![w[p].path] = tmp[w[p].path]] /\ Working(p)
          /\ Exclusive(w[p].path) => tmp[w[p].path] = w[p].bytes
      BY <1>1, <2>7, Renaming
    <2>9. w[p].path = Index /\ final'[Index] = w[p].bytes
      BY <2>1, <2>8 DEF Exclusive
    <2> QED
      BY <1>1, <2>8, <2>9 DEF Inv, PendingInv, Pending
  <1> QED
    BY <1>1, Invariance, PTL DEF Spec, RebuildIsComplete, Complete
=============================================================================
