---------------------------- MODULE JSONFileRepo ----------------------------
(***************************************************************************)
(* internal/storage/jsonfile.go at the grain of file operations: every     *)
(* open, write, rename and remove is a step, and between two steps the     *)
(* process may crash, another process on the same ./data may run, or the   *)
(* operation may fail.  Within a process JSONFileRepo.mu is held for the   *)
(* length of a method, so a process has one method under way at a time.    *)
(*                                                                         *)
(* The content of a diagram file is its version (its UpdatedAt), the       *)
(* content of index.json is a listing: which version of which id.  A       *)
(* temporary file is a path of its own; an open file follows its inode     *)
(* when somebody renames it.                                               *)
(***************************************************************************)
EXTENDS Integers

CONSTANTS
    Proc,       \* processes that share ./data (server, -mcp, one-shot CLI)
    Id,         \* diagram ids
    Index,      \* the path of index.json
    Missing,    \* content of a path that does not exist
    Empty,      \* content of a file of length zero
    Torn,       \* content that is not valid JSON
    MaxSaves,   \* bound: saves and deletes started, a save first
    MaxFaults,  \* bound: crashes, failed file operations, damages to index.json
    Damages     \* what index.json may become from outside

ASSUME PathAssumption == Index \notin Id
ASSUME ContentAssumption ==
    /\ Missing # Empty /\ Missing # Torn /\ Empty # Torn
    /\ \A c \in {Missing, Empty, Torn} : c \notin Nat /\ c \notin [Id -> Nat]
    /\ Damages \subseteq {Missing, Torn}
ASSUME LimitAssumption ==
    MaxSaves \in Nat /\ MaxFaults \in Nat

VARIABLES
    final,      \* the content of every path
    tmp,        \* the content of every path + ".tmp"
    pc, op,     \* per process: place in the code, method and arguments
    w,          \* per process: the replacement of a file it is working on
    fd,         \* per process: where the file it has open is now
    saves, faults,  \* what the bounds limit
    acked,      \* per id: version of the last acknowledged save, 0 if deleted
    unsettled,  \* ids whose last save or delete broke off after the file changed
    contended,  \* ids that two processes have been saving or deleting at once
    overlapped  \* whether methods of two processes have been under way at once

files  == <<final, tmp>>
limits == <<saves, faults>>
ghosts == <<acked, unsettled, contended, overlapped>>
vars   == <<final, tmp, pc, op, w, fd, saves, faults,
            acked, unsettled, contended, overlapped>>

Path     == Id \cup {Index}
Listing  == [Id -> Nat]                \* 0: not listed
Unlisted == [i \in Id |-> 0]
Idle     == [kind |-> "none"]
NoWrite  == [path |-> Index, bytes |-> Missing, next |-> "return"]

\* The server has started on an empty data directory.
Init ==
    /\ final = [t \in Path |-> IF t = Index THEN Unlisted ELSE Missing]
    /\ tmp = [t \in Path |-> Missing]
    /\ pc = [p \in Proc |-> "idle"]
    /\ op = [p \in Proc |-> Idle]
    /\ w = [p \in Proc |-> NoWrite]
    /\ fd = [p \in Proc |-> "closed"]
    /\ saves = 0 /\ faults = 0
    /\ acked = Unlisted
    /\ unsettled = {} /\ contended = {} /\ overlapped = FALSE

-----------------------------------------------------------------------------
(* Listings *)

\* Mutant: a scan does not skip the files it cannot read.
VersionUnread(content) == content

Version(content) == IF content \in {Missing, Empty, Torn} THEN 0 ELSE content

\* What readIndex makes of index.json when it can parse it.
Parsed(content) == IF content \in {Missing, Empty} THEN Unlisted ELSE content

\* Mutant: a rebuild looks at the temporary files.
ScannedTmp == [i \in Id |-> Version(tmp[i])]

\* rebuildIndex: the readable diagram files.
Scanned == [i \in Id |-> Version(final[i])]

\* Mutant: upsertIndex does not replace the entry of a listed diagram.
AmendedByAppending(o, listing) ==
    [listing EXCEPT ![o.id] = IF o.kind = "save" /\ @ # 0 THEN @ ELSE o.version]

\* upsertIndex and removeFromIndex.
Amended(o, listing) == [listing EXCEPT ![o.id] = o.version]

-----------------------------------------------------------------------------
(* How a method goes on *)

Goto(p, place) == pc' = [pc EXCEPT ![p] = place]
Mutates(p) == op[p].kind \in {"save", "delete"}

\* The method under way has already changed the file of its diagram.
FileChanged(p) ==
    /\ Mutates(p)
    /\ \/ pc[p] = "readIndex"
       \/ pc[p] \in {"open", "fill", "rename"} /\ w[p].path = Index

\* Replace path t, then go on to "next".
Replace(p, t, bytes, next) ==
    /\ Goto(p, "open")
    /\ w' = [w EXCEPT ![p] = [path |-> t, bytes |-> bytes, next |-> next]]

Leave(p, place) ==
    /\ Goto(p, place)
    /\ op' = [op EXCEPT ![p] = Idle]
    /\ w' = [w EXCEPT ![p] = NoWrite]

Succeed(p) ==
    /\ Leave(p, "idle")
    /\ acked' = IF Mutates(p) THEN [acked EXCEPT ![op[p].id] = op[p].version] ELSE acked
    /\ unsettled' = IF Mutates(p) THEN unsettled \ {op[p].id} ELSE unsettled
    /\ UNCHANGED <<contended, overlapped>>

BreakOff(p, place) ==
    /\ Leave(p, place)
    /\ unsettled' = IF FileChanged(p) THEN unsettled \cup {op[p].id} ELSE unsettled
    /\ UNCHANGED <<acked, contended, overlapped>>

\* What follows a replacement.
GoOn(p) ==
    \/ /\ w[p].next = "return"
       /\ Succeed(p)
    \/ /\ w[p].next = "readIndex"
       /\ Goto(p, "readIndex")
       /\ w' = [w EXCEPT ![p] = NoWrite]
       /\ UNCHANGED <<op, ghosts>>
    \/ /\ w[p].next = "amend"
       /\ Replace(p, Index, Amended(op[p], w[p].bytes), "return")
       /\ UNCHANGED <<op, ghosts>>

\* The write of a rebuilt index is best effort: a failure is ignored.
Rebuilding(p) == w[p].path = Index /\ (op[p].kind = "list" \/ w[p].next = "amend")

\* Mutant: the error of a failed file operation is dropped.
AbandonSilently(p) == Succeed(p)

\* A file operation of the method failed.
Abandon(p) ==
    IF pc[p] # "remove" /\ Rebuilding(p) THEN GoOn(p)
    ELSE BreakOff(p, IF op[p].kind = "boot" THEN "down" ELSE "idle")

\* The inode of t moves (or is unlinked) under those who have it open.
Moved(t, from, to) ==
    [q \in Proc |-> IF w[q].path = t /\ fd[q] = from THEN to ELSE fd[q]]

-----------------------------------------------------------------------------
(* Save, Delete and List *)

\* History: p starts a method on the diagrams ids.
Contend(p, ids) ==
    LET others == {q \in Proc \ {p} : pc[q] \notin {"idle", "down"}}
    IN  /\ contended' = contended \cup {i \in ids : \E q \in others : Mutates(q) /\ op[q].id = i}
        /\ overlapped' = (overlapped \/ others # {})
        /\ UNCHANGED <<acked, unsettled>>

Save(p, i) ==
    /\ pc[p] = "idle" /\ saves < MaxSaves
    /\ saves' = saves + 1
    /\ op' = [op EXCEPT ![p] = [kind |-> "save", id |-> i, version |-> saves + 1]]
    /\ Replace(p, i, saves + 1, "readIndex")
    /\ Contend(p, {i})
    /\ UNCHANGED <<files, fd, faults>>

Delete(p, i) ==
    /\ pc[p] = "idle" /\ saves \in 1..(MaxSaves - 1)
    /\ saves' = saves + 1
    /\ op' = [op EXCEPT ![p] = [kind |-> "delete", id |-> i, version |-> 0]]
    /\ Goto(p, "remove")
    /\ Contend(p, {i})
    /\ UNCHANGED <<files, w, fd, faults>>

List(p) ==
    /\ pc[p] = "idle"
    /\ op' = [op EXCEPT ![p] = [kind |-> "list"]]
    /\ Goto(p, "readIndex")
    /\ Contend(p, {})
    /\ UNCHANGED <<files, w, fd, limits>>

\* os.Remove of the diagram file; a file that is not there is no error.
Remove(p) ==
    /\ pc[p] = "remove"
    /\ final' = [final EXCEPT ![op[p].id] = Missing]
    /\ fd' = Moved(op[p].id, "final", "gone")
    /\ Goto(p, "readIndex")
    /\ UNCHANGED <<tmp, op, w, limits, ghosts>>

\* readIndex: the listing is returned, or amended and written back; an index that
\* does not parse is first rebuilt from the files.
ReadIndex(p) ==
    /\ pc[p] = "readIndex"
    /\ \/ /\ final[Index] = Torn
          /\ Replace(p, Index, Scanned, IF Mutates(p) THEN "amend" ELSE "return")
          /\ UNCHANGED <<op, ghosts>>
       \/ /\ final[Index] # Torn /\ Mutates(p)
          /\ Replace(p, Index, Amended(op[p], Parsed(final[Index])), "return")
          /\ UNCHANGED <<op, ghosts>>
       \/ final[Index] # Torn /\ ~Mutates(p) /\ Succeed(p)
    /\ UNCHANGED <<files, fd, limits>>

-----------------------------------------------------------------------------
(* writeDiagramAtomic and writeIndex: os.WriteFile of the temporary file    *)
(* (open and truncate, write, close), then os.Rename.                       *)

\* Mutant: the file itself is truncated, not a temporary one.
OpenInPlace(p) ==
    /\ pc[p] = "open"
    /\ final' = [final EXCEPT ![w[p].path] = Empty]
    /\ tmp' = [tmp EXCEPT ![w[p].path] = Empty]
    /\ fd' = [fd EXCEPT ![p] = "tmp"]
    /\ Goto(p, "fill")
    /\ UNCHANGED <<op, w, limits, ghosts>>

Open(p) ==
    /\ pc[p] = "open"
    /\ tmp' = [tmp EXCEPT ![w[p].path] = Empty]
    /\ fd' = [fd EXCEPT ![p] = "tmp"]
    /\ Goto(p, "fill")
    /\ UNCHANGED <<final, op, w, limits, ghosts>>

\* The bytes reach the file p has open, wherever it is now.
Pour(p, bytes) ==
    /\ final' = IF fd[p] = "final" THEN [final EXCEPT ![w[p].path] = bytes] ELSE final
    /\ tmp' = IF fd[p] = "tmp" THEN [tmp EXCEPT ![w[p].path] = bytes] ELSE tmp

\* Writing over what another process wrote there may leave a mixture.
Overwrites(p) ==
    \/ fd[p] = "tmp" /\ tmp[w[p].path] # Empty
    \/ fd[p] = "final" /\ final[w[p].path] # Empty

Fill(p) ==
    /\ pc[p] = "fill"
    /\ Pour(p, w[p].bytes) \/ (Overwrites(p) /\ Pour(p, Torn))
    /\ fd' = [fd EXCEPT ![p] = "closed"]
    /\ Goto(p, "rename")
    /\ UNCHANGED <<op, w, limits, ghosts>>

Rename(p) ==
    /\ pc[p] = "rename" /\ tmp[w[p].path] # Missing
    /\ LET t == w[p].path
       IN  /\ final' = [final EXCEPT ![t] = tmp[t]]
           /\ tmp' = [tmp EXCEPT ![t] = Missing]
           /\ fd' = [q \in Proc |-> IF w[q].path = t /\ fd[q] = "final" THEN "gone"
                                    ELSE Moved(t, "tmp", "final")[q]]
    /\ GoOn(p)
    /\ UNCHANGED limits

-----------------------------------------------------------------------------
(* What goes wrong *)

Fault == faults < MaxFaults /\ faults' = faults + 1

\* Another process has renamed or removed the temporary file.
RenameLost(p) ==
    /\ pc[p] = "rename" /\ tmp[w[p].path] = Missing
    /\ Abandon(p)
    /\ UNCHANGED <<files, fd, limits>>

\* A file operation fails.  A failed write leaves some of the bytes, a failed
\* rename removes the temporary file.
Fail(p) ==
    /\ Fault
    /\ \/ /\ pc[p] \in {"open", "remove"}
          /\ UNCHANGED <<files, fd>>
       \/ /\ pc[p] = "fill"
          /\ Pour(p, Torn)
          /\ fd' = [fd EXCEPT ![p] = "closed"]
       \/ /\ pc[p] = "rename"
          /\ tmp' = [tmp EXCEPT ![w[p].path] = Missing]
          /\ fd' = Moved(w[p].path, "tmp", "gone")
          /\ UNCHANGED final
    /\ Abandon(p)
    /\ UNCHANGED saves

\* The process dies, perhaps in the middle of a write; what is on disk stays.
Crash(p) ==
    /\ Fault
    /\ pc[p] \notin {"idle", "down"}
    /\ UNCHANGED files \/ Pour(p, Torn)
    /\ BreakOff(p, "down")
    /\ fd' = [fd EXCEPT ![p] = "closed"]
    /\ UNCHANGED saves

\* NewJSONFileRepo: only an index.json that does not exist is written anew.
Restart(p) ==
    /\ pc[p] = "down"
    /\ \/ /\ final[Index] = Missing
          /\ Replace(p, Index, Unlisted, "return")
          /\ op' = [op EXCEPT ![p] = [kind |-> "boot"]]
       \/ /\ final[Index] # Missing
          /\ Goto(p, "idle")
          /\ UNCHANGED <<op, w>>
    /\ Contend(p, {})
    /\ UNCHANGED <<files, fd, limits>>

\* External: index.json is overwritten or deleted by hand while nothing runs.
Damage ==
    /\ Fault
    /\ \A p \in Proc : pc[p] \in {"idle", "down"}
    /\ \E content \in Damages :
        /\ final' = [final EXCEPT ![Index] = content]
        /\ unsettled' = IF content = Missing THEN Id ELSE unsettled
    /\ UNCHANGED <<tmp, pc, op, w, fd, saves, acked, contended, overlapped>>

Step(p) ==
    \/ \E i \in Id : Save(p, i) \/ Delete(p, i)
    \/ List(p) \/ Remove(p) \/ ReadIndex(p)
    \/ Open(p) \/ Fill(p) \/ Rename(p)
    \/ RenameLost(p) \/ Fail(p) \/ Crash(p) \/ Restart(p)

Next == Damage \/ \E p \in Proc : Step(p)

Spec == Init /\ [][Next]_vars

-----------------------------------------------------------------------------
(* Properties *)

Mark == {Missing, Empty, Torn}

Content(t) == IF t = Index THEN Listing ELSE Nat

\* Every variable has its type.
TypeOK ==
    /\ DOMAIN final = Path /\ DOMAIN tmp = Path
    /\ \A t \in Path : /\ final[t] \in Mark \/ final[t] \in Content(t)
                       /\ tmp[t] \in Mark \/ tmp[t] \in Content(t)
    /\ pc \in [Proc -> {"idle", "down", "open", "fill", "rename", "remove", "readIndex"}]
    /\ DOMAIN w = Proc
    /\ \A p \in Proc : /\ w[p].path \in Path
                       /\ w[p].bytes \in Mark \/ w[p].bytes \in Content(w[p].path)
                       /\ w[p].next \in {"return", "readIndex", "amend"}
    /\ fd \in [Proc -> {"closed", "tmp", "final", "gone"}]
    /\ acked \in Listing /\ unsettled \subseteq Id /\ contended \subseteq Id

\* A reader finds a diagram file whole or not at all, whatever crashes or fails
\* while it is being saved, unless two processes save that same diagram at once
\* (jsonfile.go:112-127).
FilesAreWhole == \A i \in Id \ contended : final[i] \notin {Empty, Torn}

Busy(i) == \E p \in Proc : Mutates(p) /\ op[p].id = i /\ pc[p] # "remove"

\* An acknowledged save or delete is what a restart finds, unless a later one got
\* as far as the file: an attempt that broke off earlier changed nothing.
AcknowledgedIsDurable ==
    \A i \in Id \ (unsettled \cup contended) : ~Busy(i) => Version(final[i]) = acked[i]

Quiet == \A p \in Proc : pc[p] = "idle"

\* Between methods a readable index.json lists exactly the versions in the files,
\* except for diagrams whose last save or delete broke off between the file and
\* the index; a later save or delete of theirs repairs the entry.  Nothing holds
\* of the index once methods of two processes have overlapped.
IndexMatchesFiles ==
    (Quiet /\ final[Index] # Torn /\ ~overlapped) =>
        \A i \in Id \ unsettled : Parsed(final[Index])[i] = Version(final[i])

\* An index that did not parse is replaced only by the list of all readable files
\* (jsonfile.go:142-153).
RebuildIsComplete ==
    [][(final[Index] = Torn /\ final'[Index] \notin {Torn, Missing} /\ ~overlapped)
        => final'[Index] = Scanned]_vars
=============================================================================
