----------------------------- MODULE AccountStore -----------------------------
(***************************************************************************)
(* JsonAccountStore: the account document as a file shared by processes    *)
(* (the harness, the web plugin, the CLI), read without a lock, written to *)
(* a temporary file and renamed under a proper-lockfile lock, created on   *)
(* first use, its missing account ids generated by whoever meets them.     *)
(*                                                                         *)
(* Every operation is taken to run in a process of its own, so that its    *)
(* steps on the file system interleave with all the others; operations of  *)
(* one process interleave at fewer points.  A process may die at any step. *)
(***************************************************************************)
EXTENDS FiniteSets

CONSTANTS
  Loads,        \* calls of load
  Mutations,    \* calls of mutate (save has no caller)
  NoOp,         \* nobody holds the lock
  NoId,         \* the accounts of the document lack their ids
  Created,      \* ensureFile made the document: no accounts, so no ids to miss
  Absent,       \* there is no such file
  NoReply,
  FirstFiles,   \* what the file may be at the start: "absent" or "legacy", without ids
  MayStall      \* whether a live holder may stall past the staleness of its lock

Operations == Loads \cup Mutations

ASSUME OperationsAssumption == Loads \cap Mutations = {}
ASSUME NamesAssumption ==
  /\ NoOp \notin Operations
  /\ NoId \notin Operations /\ Created \notin Operations /\ NoId # Created
ASSUME FirstFilesAssumption == FirstFiles \subseteq {"absent", "legacy"}
ASSUME StallAssumption == MayStall \in BOOLEAN

VARIABLES
  file,     \* accounts.json
  tmp,      \* accounts.json.tmp, a name every writer shares
  tmpInit,  \* accounts.json.tmp-init, another
  lock,     \* the lock directory: the operation that made it
  pc,       \* where each operation stands
  buf,      \* the document each operation has in memory
  reply     \* the document an operation answers with, once that is decided

vars == <<file, tmp, tmpInit, lock, pc, buf, reply>>

Ids == Operations \cup {NoId, Created}
Doc == [applied: SUBSET Mutations, id: Ids]
EmptyDoc == [applied |-> {}, id |-> Created]
LegacyDoc == [applied |-> {}, id |-> NoId]

ASSUME AbsenceAssumption == Absent \notin Doc /\ NoReply \notin Doc

\* a missing file reads as an empty document
Content == IF file = Absent THEN EmptyDoc ELSE file

\* ensureAccountIds: fresh ids, named after the operation that drew them
WithIds(d, o) == [d EXCEPT !.id = IF @ = NoId THEN o ELSE @]

\* what mutate does to the document it read; load only completes the ids
Updated(d, o) == [d EXCEPT !.applied = IF o \in Mutations THEN @ \cup {o} ELSE @]

Locked == {"reading", "writing", "renaming", "releasing"}
Underway == {"ensuring", "creating", "placing", "locking"} \cup Locked
Over == {"done", "failed", "dead"}

Init ==
  /\ \E first \in FirstFiles : file = IF first = "absent" THEN Absent ELSE LegacyDoc
  /\ tmp = Absent
  /\ tmpInit = Absent
  /\ lock = NoOp
  /\ pc = [o \in Operations |-> "idle"]
  /\ buf = [o \in Operations |-> EmptyDoc]
  /\ reply = [o \in Operations |-> NoReply]

Goto(o, l) == pc' = [pc EXCEPT ![o] = l]

\* load reads without the lock, and is done unless ids are missing
AcceptsTheFirstRead(o) == TRUE
ReadSuffices(o) == Content.id # NoId

LoadFast(o) ==
  /\ o \in Loads /\ pc[o] = "idle"
  /\ IF ReadSuffices(o)
       THEN Goto(o, "done") /\ reply' = [reply EXCEPT ![o] = WithIds(Content, o)]
       ELSE Goto(o, "ensuring") /\ UNCHANGED reply
  /\ UNCHANGED <<file, tmp, tmpInit, lock, buf>>

MutateBegins(o) ==
  /\ o \in Mutations /\ pc[o] = "idle"
  /\ Goto(o, "ensuring")
  /\ UNCHANGED <<file, tmp, tmpInit, lock, buf, reply>>

\* ensureFile, outside the lock: look, write an empty document aside, rename it
Ensure(o) ==
  /\ pc[o] = "ensuring"
  /\ Goto(o, IF file = Absent THEN "creating" ELSE "locking")
  /\ UNCHANGED <<file, tmp, tmpInit, lock, buf, reply>>

CreateAside(o) ==
  /\ pc[o] = "creating"
  /\ tmpInit' = EmptyDoc
  /\ Goto(o, "placing")
  /\ UNCHANGED <<file, tmp, lock, buf, reply>>

Place(o) ==
  /\ pc[o] = "placing"
  /\ IF tmpInit = Absent     \* another creator has renamed it away: ENOENT
       THEN Goto(o, "failed") /\ UNCHANGED <<file, tmpInit>>
       ELSE Goto(o, "locking") /\ file' = tmpInit /\ tmpInit' = Absent
  /\ UNCHANGED <<tmp, lock, buf, reply>>

\* proper-lockfile: a free lock is taken, one left by a dead process too once it is
\* stale; a live holder keeps refreshing its lock, unless it stalls
TakesAnyLock == TRUE
LockIsFree == lock # NoOp => pc[lock] = "dead" \/ MayStall

Acquire(o) ==
  /\ pc[o] = "locking" /\ LockIsFree
  /\ lock' = o
  /\ Goto(o, "reading")
  /\ UNCHANGED <<file, tmp, tmpInit, buf, reply>>

\* the retries run out
GiveUp(o) ==
  /\ pc[o] = "locking" /\ lock # NoOp
  /\ Goto(o, "failed")
  /\ UNCHANGED <<file, tmp, tmpInit, lock, buf, reply>>

\* the document is read again under the lock; a load that finds the ids in place by
\* now has nothing to write
Read(o) ==
  /\ pc[o] = "reading"
  /\ LET d == WithIds(Content, o)
     IN  /\ buf' = [buf EXCEPT ![o] = Updated(d, o)]
         /\ IF o \in Loads /\ Content.id # NoId
              THEN Goto(o, "releasing") /\ reply' = [reply EXCEPT ![o] = d]
              ELSE Goto(o, "writing") /\ UNCHANGED reply
  /\ UNCHANGED <<file, tmp, tmpInit, lock>>

WriteAside(o) ==
  /\ pc[o] = "writing"
  /\ tmp' = buf[o]
  /\ Goto(o, "renaming")
  /\ UNCHANGED <<file, tmpInit, lock, buf, reply>>

KeepsTheLock(o) == lock' = lock
Unlock(o) == lock' = IF lock = o THEN NoOp ELSE lock

Rename(o) ==
  /\ pc[o] = "renaming"
  /\ IF tmp = Absent
       THEN Goto(o, "failed") /\ Unlock(o) /\ UNCHANGED <<file, tmp, reply>>
       ELSE /\ file' = tmp /\ tmp' = Absent
            /\ reply' = [reply EXCEPT ![o] = buf[o]]
            /\ Goto(o, "releasing")
            /\ UNCHANGED lock
  /\ UNCHANGED <<tmpInit, buf>>

Release(o) ==
  /\ pc[o] = "releasing"
  /\ Unlock(o)
  /\ Goto(o, "done")
  /\ UNCHANGED <<file, tmp, tmpInit, buf, reply>>

\* the callback of mutate throws, or the disk refuses: nothing was renamed
Abort(o) ==
  /\ pc[o] \in {"reading", "writing", "renaming"}
  /\ Goto(o, "failed")
  /\ Unlock(o)
  /\ UNCHANGED <<file, tmp, tmpInit, buf, reply>>

Die(o) ==
  /\ pc[o] \in Underway
  /\ Goto(o, "dead")
  /\ UNCHANGED <<file, tmp, tmpInit, lock, buf, reply>>

Step(o) ==
  \/ LoadFast(o)
  \/ MutateBegins(o)
  \/ Ensure(o)
  \/ CreateAside(o)
  \/ Place(o)
  \/ Acquire(o)
  \/ GiveUp(o)
  \/ Read(o)
  \/ WriteAside(o)
  \/ Rename(o)
  \/ Release(o)
  \/ Abort(o)
  \/ Die(o)

Next == \E o \in Operations : Step(o)
Spec == Init /\ [][Next]_vars

-----------------------------------------------------------------------------
(* Properties.                                                              *)

\* The variables have their shapes, and the lock is held by somebody who will release
\* it, or by a dead process, which the next one takes it over from.
TypeOK ==
  /\ file \in Doc \cup {Absent}
  /\ tmp \in Doc \cup {Absent}
  /\ tmpInit \in Doc \cup {Absent}
  /\ lock \in Operations \cup {NoOp}
  /\ pc \in [Operations -> {"idle"} \cup Underway \cup Over]
  /\ buf \in [Operations -> Doc]
  /\ reply \in [Operations -> Doc \cup {NoReply}]
  /\ lock # NoOp => pc[lock] \in Locked \cup {"dead"}

\* Nobody else is between its read and its rename while an operation is: a mutation
\* always writes over the very document it read.
WritersExclude ==
  \A o, p \in Operations : pc[o] \in Locked /\ pc[p] \in Locked => o = p

\* "Load-mutate-save atomically under the file lock": for a document that was there
\* from the start, the steps on the file system, the crashes and the taken-over locks
\* included, come to operations that each take effect at one instant, and to ids that
\* are drawn once and never change.  Of a document being created nothing is said.
Inherited == Content.id # Created
StoreDoc == IF Inherited THEN Content ELSE LegacyDoc
StoreReply == IF Inherited THEN reply ELSE [o \in Operations |-> NoReply]

Store == INSTANCE AtomicStore WITH doc <- StoreDoc, reply <- StoreReply, FirstDoc <- LegacyDoc

IsAtomic == Store!Spec

\* A mutation that has been carried out stays in the document.
CommittedStays ==
  \A o \in Mutations : reply[o] # NoReply => o \in Content.applied
=============================================================================
