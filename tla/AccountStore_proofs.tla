------------------------- MODULE AccountStore_proofs -------------------------
(***************************************************************************)
(* JsonAccountStore implements AtomicStore, for any number of operations   *)
(* and crashes, as long as no lock holder stalls past its staleness.       *)
(***************************************************************************)
EXTENDS AccountStore, TLAPS

\* Whoever works under the lock holds it.
HoldersHold == \A o \in Operations : pc[o] \in Locked => lock = o

\* A document that was there is never taken for missing.
NoCreation == Inherited => \A o \in Operations : pc[o] \notin {"creating", "placing"}

\* What a writer is about to put in place is its update of the document as it is.
BuffersFollow ==
  \A o \in Operations : pc[o] \in {"writing", "renaming"} =>
    /\ Inherited => buf[o] = Updated(WithIds(Content, o), o)
    /\ ~Inherited => buf[o].id = Created
    /\ pc[o] = "renaming" => tmp = buf[o]

\* Nobody is answered before its operation has taken effect.
Undecided == {"idle", "ensuring", "creating", "placing", "locking", "reading", "writing", "renaming"}
NotYetAnswered == \A o \in Operations : pc[o] \in Undecided => reply[o] = NoReply

\* What ensureFile writes aside is the empty document.
CreatesEmpty == tmpInit \in {Absent, EmptyDoc}

IInv == TypeOK /\ HoldersHold /\ NoCreation /\ BuffersFollow /\ NotYetAnswered /\ CreatesEmpty

LEMMA ContentType == TypeOK => Content \in Doc
  BY DEF TypeOK, Content, EmptyDoc, Doc, Ids

LEMMA UpdateType ==
  ASSUME NEW d \in Doc, NEW o \in Operations
  PROVE  /\ WithIds(d, o) \in Doc /\ Updated(d, o) \in Doc
         /\ WithIds(d, o).id # NoId
         /\ (WithIds(d, o).id = Created) <=> (d.id = Created)
         /\ Updated(d, o).id = d.id
         /\ d.id # NoId => WithIds(d, o) = d
         /\ o \in Loads => Updated(d, o) = d
<1>1. WithIds(d, o) = [applied |-> d.applied, id |-> IF d.id = NoId THEN o ELSE d.id]
  BY DEF WithIds, Doc
<1>2. Updated(d, o) = [applied |-> IF o \in Mutations THEN d.applied \cup {o} ELSE d.applied, id |-> d.id]
  BY DEF Updated, Doc
<1>3. d = [applied |-> d.applied, id |-> d.id] /\ d.applied \subseteq Mutations /\ d.id \in Ids
  BY DEF Doc
<1>4. /\ WithIds(d, o).applied = d.applied /\ Updated(d, o).id = d.id
      /\ WithIds(d, o).id = IF d.id = NoId THEN o ELSE d.id
      /\ Updated(d, o).applied = IF o \in Mutations THEN d.applied \cup {o} ELSE d.applied
  BY <1>1, <1>2
<1>5. o # NoId /\ o # Created /\ NoId # Created /\ o \in Ids
  BY NamesAssumption DEF Ids
<1>7. WithIds(d, o) \in Doc
  BY <1>1, <1>3, <1>5 DEF Doc
<1>8. Updated(d, o) \in Doc
  BY <1>2, <1>3 DEF Doc
<1>9. o \in Loads => Updated(d, o) = [applied |-> d.applied, id |-> d.id]
  BY <1>2, OperationsAssumption
<1> QED
  BY <1>1, <1>3, <1>4, <1>5, <1>7, <1>8, <1>9

LEMMA TypeInit == Init => TypeOK
  BY DEF Init, TypeOK, EmptyDoc, LegacyDoc, Doc, Ids, Underway, Over, Locked

LEMMA TypeStep == TypeOK /\ [Next]_vars => TypeOK'
<1> SUFFICES ASSUME TypeOK, [Next]_vars PROVE TypeOK'
  OBVIOUS
<1> USE DEF Underway, Over, Locked
<1>0. Content \in Doc /\ EmptyDoc \in Doc /\ NoOp \notin Operations
  BY ContentType, NamesAssumption DEF EmptyDoc, Doc, Ids
<1>1. ASSUME NEW o \in Operations, Step(o) PROVE TypeOK'
  <2>1. CASE LoadFast(o)
    <3>1. WithIds(Content, o) \in Doc
      BY <1>0, UpdateType
    <3> QED
      BY <2>1, <3>1 DEF LoadFast, Goto, TypeOK
  <2>2. CASE MutateBegins(o)
    BY <2>2 DEF MutateBegins, Goto, TypeOK
  <2>3. CASE Ensure(o)
    BY <2>3 DEF Ensure, Goto, TypeOK
  <2>4. CASE CreateAside(o)
    BY <1>0, <2>4 DEF CreateAside, Goto, TypeOK
  <2>5. CASE Place(o)
    BY <2>5 DEF Place, Goto, TypeOK
  <2>6. CASE Acquire(o)
    BY <2>6 DEF Acquire, Goto, TypeOK
  <2>7. CASE GiveUp(o)
    BY <2>7 DEF GiveUp, Goto, TypeOK
  <2>8. CASE Read(o)
    <3>1. WithIds(Content, o) \in Doc /\ Updated(WithIds(Content, o), o) \in Doc
      BY <1>0, UpdateType
    <3> QED
      BY <2>8, <3>1 DEF Read, Goto, TypeOK
  <2>9. CASE WriteAside(o)
    BY <2>9 DEF WriteAside, Goto, TypeOK
  <2>10. CASE Rename(o)
    BY <1>0, <2>10 DEF Rename, Unlock, Goto, TypeOK
  <2>11. CASE Release(o)
    BY <1>0, <2>11 DEF Release, Unlock, Goto, TypeOK
  <2>12. CASE Abort(o)
    BY <1>0, <2>12 DEF Abort, Unlock, Goto, TypeOK
  <2>13. CASE Die(o)
    BY <2>13 DEF Die, Goto, TypeOK
  <2> QED
    BY <1>1, <2>1, <2>2, <2>3, <2>4, <2>5, <2>6, <2>7, <2>8, <2>9, <2>10, <2>11, <2>12, <2>13 DEF Step
<1>2. CASE UNCHANGED vars
  BY <1>2 DEF vars, TypeOK
<1> QED
  BY <1>1, <1>2 DEF Next

\* The variables keep their shapes, and the lock is never left with an operation that
\* is over and alive.
THEOREM TypeCorrect == Spec => []TypeOK
  BY TypeInit, TypeStep, PTL DEF Spec

-----------------------------------------------------------------------------
(* Mutual exclusion.                                                        *)

LEMMA HoldersStep ==
  ASSUME ~MayStall, TypeOK, HoldersHold, [Next]_vars
  PROVE  HoldersHold'
<1> USE DEF HoldersHold, Locked, Goto
<1>1. ASSUME NEW o \in Operations, Step(o) PROVE HoldersHold'
  <2>1. CASE Acquire(o)
    <3>1. \A p \in Operations : pc[p] \notin Locked
      BY <2>1, NamesAssumption DEF Acquire, LockIsFree
    <3> QED
      BY <2>1, <3>1 DEF Acquire, TypeOK
  <2>2. CASE Rename(o)
    BY <2>2 DEF Rename, Unlock, TypeOK
  <2>3. CASE Release(o)
    BY <2>3 DEF Release, Unlock, TypeOK
  <2>4. CASE Abort(o)
    BY <2>4 DEF Abort, Unlock, TypeOK
  <2>5. CASE Read(o) \/ WriteAside(o)
    BY <2>5 DEF Read, WriteAside, TypeOK
  <2>6. CASE LoadFast(o) \/ MutateBegins(o) \/ Ensure(o)
    BY <2>6 DEF LoadFast, MutateBegins, Ensure, TypeOK
  <2>7. CASE CreateAside(o) \/ Place(o) \/ GiveUp(o) \/ Die(o)
    BY <2>7 DEF CreateAside, Place, GiveUp, Die, TypeOK
  <2> QED
    BY <1>1, <2>1, <2>2, <2>3, <2>4, <2>5, <2>6, <2>7 DEF Step
<1>2. CASE UNCHANGED vars
  BY <1>2 DEF vars
<1> QED
  BY <1>1, <1>2 DEF Next

\* While one operation is between its read and its rename no other is, even when locks
\* of dead processes are taken over.
THEOREM Exclusion == ASSUME ~MayStall PROVE Spec => []WritersExclude
<1>1. Init => HoldersHold
  BY DEF Init, HoldersHold, Locked
<1>2. TypeOK /\ HoldersHold /\ [Next]_vars => HoldersHold'
  BY HoldersStep
<1>3. HoldersHold => WritersExclude
  BY DEF HoldersHold, WritersExclude
<1> QED
  BY <1>1, <1>2, <1>3, TypeCorrect, PTL DEF Spec

-----------------------------------------------------------------------------
(* Refinement.                                                              *)

LEMMA IInvInit == Init => IInv
<1> SUFFICES ASSUME Init PROVE IInv
  OBVIOUS
<1>1. HoldersHold /\ BuffersFollow /\ NotYetAnswered /\ CreatesEmpty /\ NoCreation
  BY DEF Init, HoldersHold, Locked, BuffersFollow, NotYetAnswered, CreatesEmpty, NoCreation
<1> QED
  BY <1>1, TypeInit DEF IInv

\* Only a rename of the holder changes a document that was there, and only into the
\* holder's update of it; a document being created stays one.
LEMMA ContentStep ==
  ASSUME IInv, [Next]_vars
  PROVE  /\ Inherited' = Inherited
         /\ Inherited /\ Content' # Content =>
              \E o \in Operations : Rename(o) /\ pc[o] = "renaming"
<1> USE DEF IInv
<1>1. ASSUME NEW o \in Operations, Rename(o), tmp # Absent
      PROVE  Inherited' = Inherited
  <2>1. pc[o] = "renaming" /\ file' = buf[o] /\ buf[o] \in Doc
    BY <1>1 DEF Rename, BuffersFollow, TypeOK
  <2>2. Content' = buf[o]
    BY <2>1, AbsenceAssumption DEF Content
  <2>3. (buf[o].id = Created) <=> (Content.id = Created)
    <3>1. CASE Inherited
      BY <2>1, <3>1, ContentType, UpdateType DEF BuffersFollow, Inherited
    <3>2. CASE ~Inherited
      BY <2>1, <3>2 DEF BuffersFollow, Inherited
    <3> QED
      BY <3>1, <3>2
  <2> QED
    BY <2>2, <2>3 DEF Inherited
<1>2. ASSUME NEW o \in Operations, Place(o), tmpInit # Absent
      PROVE  ~Inherited /\ ~Inherited'
  <2>1. pc[o] = "placing" /\ file' = EmptyDoc
    BY <1>2 DEF Place, CreatesEmpty
  <2> QED
    BY <2>1 DEF NoCreation, Inherited, Content, EmptyDoc
<1>3. ASSUME file' = file PROVE Content' = Content /\ Inherited' = Inherited
  BY <1>3 DEF Content, Inherited
<1>4. CASE \E o \in Operations : Rename(o) /\ tmp # Absent
  BY <1>1, <1>4 DEF Rename
<1>5. CASE \E o \in Operations : Place(o) /\ tmpInit # Absent
  BY <1>2, <1>5 DEF Inherited
<1>6. CASE ~(\E o \in Operations : Rename(o) /\ tmp # Absent) /\ ~(\E o \in Operations : Place(o) /\ tmpInit # Absent)
  <2>1. file' = file
    BY <1>6 DEF Next, Step, vars, LoadFast, MutateBegins, Ensure, CreateAside, Place, Acquire, GiveUp,
       Read, WriteAside, Rename, Release, Abort, Die
  <2> QED
    BY <1>3, <2>1
<1> QED
  BY <1>4, <1>5, <1>6

\* What one operation does to the others: nothing, as far as their buffers go.
LEMMA BuffersStep ==
  ASSUME ~MayStall, IInv, [Next]_vars
  PROVE  BuffersFollow'
<1> USE DEF IInv
<1>0. /\ Inherited' = Inherited
      /\ Inherited /\ Content' # Content => \E o \in Operations : Rename(o) /\ pc[o] = "renaming"
  BY ContentStep
<1> SUFFICES ASSUME NEW p \in Operations, pc'[p] \in {"writing", "renaming"}
             PROVE  /\ Inherited' => buf'[p] = Updated(WithIds(Content', p), p)
                    /\ ~Inherited' => buf'[p].id = Created
                    /\ pc'[p] = "renaming" => tmp' = buf'[p]
  BY DEF BuffersFollow, Updated, WithIds
<1>1. ASSUME NEW o \in Operations, o # p, Step(o)
      PROVE  pc'[p] = pc[p] /\ buf'[p] = buf[p]
  BY <1>1 DEF Step, LoadFast, MutateBegins, Ensure, CreateAside, Place, Acquire, GiveUp,
     Read, WriteAside, Rename, Release, Abort, Die, Goto, TypeOK
<1>2. ASSUME NEW o \in Operations, o # p, Step(o)
      PROVE  tmp' = tmp /\ (Inherited => Content' = Content)
  <2>1. pc[p] \in Locked /\ pc[o] \notin Locked
    BY <1>1, <1>2 DEF HoldersHold, Locked
  <2>2. tmp' = tmp
    BY <1>2, <2>1 DEF Step, LoadFast, MutateBegins, Ensure, CreateAside, Place, Acquire, GiveUp,
       Read, WriteAside, Rename, Release, Abort, Die, Locked
  <2>3. Inherited => file' = file
    BY <1>2, <2>1 DEF Step, LoadFast, MutateBegins, Ensure, CreateAside, Place, Acquire, GiveUp,
       Read, WriteAside, Rename, Release, Abort, Die, Locked, NoCreation
  <2> QED
    BY <2>2, <2>3 DEF Content
<1>3. ASSUME NEW o \in Operations, o # p, Step(o)
      PROVE  /\ Inherited' => buf'[p] = Updated(WithIds(Content', p), p)
             /\ ~Inherited' => buf'[p].id = Created
             /\ pc'[p] = "renaming" => tmp' = buf'[p]
  BY <1>0, <1>1, <1>2, <1>3 DEF BuffersFollow
<1>4. ASSUME Step(p)
      PROVE  /\ Inherited' => buf'[p] = Updated(WithIds(Content', p), p)
             /\ ~Inherited' => buf'[p].id = Created
             /\ pc'[p] = "renaming" => tmp' = buf'[p]
  <2>1. CASE Read(p)
    <3>1. buf'[p] = Updated(WithIds(Content, p), p) /\ Content' = Content /\ pc'[p] # "renaming"
      BY <2>1 DEF Read, Goto, TypeOK, Content
    <3>2. buf'[p].id = WithIds(Content, p).id
      BY <3>1, ContentType, UpdateType
    <3>3. ~Inherited => WithIds(Content, p).id = Created
      BY ContentType, UpdateType DEF Inherited
    <3> QED
      BY <1>0, <3>1, <3>2, <3>3
  <2>2. CASE WriteAside(p)
    <3>1. /\ pc[p] = "writing" /\ tmp' = buf[p] /\ buf' = buf /\ Content' = Content
      BY <2>2 DEF WriteAside, Content
    <3> QED
      BY <1>0, <3>1 DEF BuffersFollow
  <2>3. CASE ~Read(p) /\ ~WriteAside(p)
    <3>1. pc'[p] \notin {"writing", "renaming"}
      BY <1>4, <2>3 DEF Step, LoadFast, MutateBegins, Ensure, CreateAside, Place, Acquire, GiveUp,
         Rename, Release, Abort, Die, Goto, TypeOK
    <3> QED
      BY <3>1
  <2> QED
    BY <2>1, <2>2, <2>3
<1>5. CASE UNCHANGED vars
  BY <1>0, <1>5 DEF vars, BuffersFollow, Content
<1> QED
  BY <1>3, <1>4, <1>5 DEF Next

LEMMA IInvStep ==
  ASSUME ~MayStall, IInv, [Next]_vars
  PROVE  IInv'
<1> USE DEF IInv
<1>1. TypeOK' /\ HoldersHold' /\ BuffersFollow'
  BY TypeStep, HoldersStep, BuffersStep
<1>2. CreatesEmpty'
  BY DEF CreatesEmpty, Next, Step, vars, LoadFast, MutateBegins, Ensure, CreateAside, Place, Acquire, GiveUp,
     Read, WriteAside, Rename, Release, Abort, Die
<1>3. NoCreation'
  <2> SUFFICES ASSUME Inherited', NEW p \in Operations PROVE pc'[p] \notin {"creating", "placing"}
    BY DEF NoCreation
  <2>1. Inherited /\ file # Absent
    BY ContentStep DEF Inherited, Content, EmptyDoc
  <2>2. pc[p] \notin {"creating", "placing"}
    BY <2>1 DEF NoCreation
  <2> QED
    BY <2>1, <2>2 DEF Next, Step, vars, LoadFast, MutateBegins, Ensure, CreateAside, Place, Acquire, GiveUp,
       Read, WriteAside, Rename, Release, Abort, Die, Goto, TypeOK
<1>4. NotYetAnswered'
  <2>1. ASSUME NEW o \in Operations, Step(o), NEW p \in Operations, pc'[p] \in Undecided
        PROVE  reply'[p] = NoReply
    BY <2>1 DEF Step, LoadFast, MutateBegins, Ensure, CreateAside, Place, Acquire, GiveUp,
       Read, WriteAside, Rename, Release, Abort, Die, Goto, TypeOK, NotYetAnswered, Undecided
  <2>2. CASE UNCHANGED vars
    BY <2>2 DEF vars, NotYetAnswered
  <2> QED
    BY <2>1, <2>2 DEF Next, NotYetAnswered
<1> QED
  BY <1>1, <1>2, <1>3, <1>4

\* An operation that takes effect on a document that was there.
LEMMA TakeMaps ==
  ASSUME IInv, NEW o \in Operations, Inherited, Inherited', reply[o] = NoReply,
         Content' = Updated(WithIds(Content, o), o), reply' = [reply EXCEPT ![o] = Content']
  PROVE  Store!Next
<1>1. StoreDoc = Content /\ StoreDoc' = Content' /\ StoreReply = reply /\ StoreReply' = reply'
  BY DEF StoreDoc, StoreReply
<1>2. Store!WithUpdate(Store!WithId(StoreDoc, o), o) = Updated(WithIds(Content, o), o)
  BY <1>1 DEF Store!WithUpdate, Store!WithId, Updated, WithIds
<1>3. Store!Take(o)
  BY <1>1, <1>2 DEF Store!Take
<1> QED
  BY <1>3 DEF Store!Next, Store!Operations, Operations

LEMMA StepMaps ==
  ASSUME ~MayStall, IInv, [Next]_vars
  PROVE  [Store!Next]_(Store!vars)
<1> USE DEF IInv
<1>0. Inherited' = Inherited
  BY ContentStep
<1>1. CASE ~Inherited
  <2>1. StoreDoc' = StoreDoc /\ StoreReply' = StoreReply
    BY <1>0, <1>1 DEF StoreDoc, StoreReply
  <2> QED
    BY <2>1 DEF Store!vars
<1>2. CASE Inherited
  <2>1. ASSUME Content' = Content, reply' = reply PROVE UNCHANGED Store!vars
    BY <1>0, <2>1 DEF Store!vars, StoreDoc, StoreReply
  <2>2. ASSUME NEW o \in Operations, Step(o) PROVE [Store!Next]_(Store!vars)
    <3>1. CASE LoadFast(o)
      <4>1. CASE ReadSuffices(o)
        <5>1. /\ reply[o] = NoReply /\ Content' = Content
              /\ reply' = [reply EXCEPT ![o] = WithIds(Content, o)]
          BY <3>1, <4>1 DEF LoadFast, NotYetAnswered, Undecided, Content
        <5>2. WithIds(Content, o) = Content /\ Updated(WithIds(Content, o), o) = Content
          BY <3>1, <4>1, ContentType, UpdateType DEF LoadFast, ReadSuffices
        <5>3. Content' = Updated(WithIds(Content, o), o) /\ reply' = [reply EXCEPT ![o] = Content']
          BY <5>1, <5>2
        <5> QED
          BY <1>0, <1>2, <5>1, <5>3, TakeMaps
      <4>2. CASE ~ReadSuffices(o)
        BY <2>1, <3>1, <4>2 DEF LoadFast, Content
      <4> QED
        BY <4>1, <4>2
    <3>2. CASE Read(o)
      <4>1. CASE o \in Loads /\ Content.id # NoId
        <5>1. /\ reply[o] = NoReply /\ Content' = Content
              /\ reply' = [reply EXCEPT ![o] = WithIds(Content, o)]
          BY <3>2, <4>1 DEF Read, NotYetAnswered, Undecided, Content
        <5>2. WithIds(Content, o) = Content /\ Updated(WithIds(Content, o), o) = Content
          BY <4>1, ContentType, UpdateType
        <5>3. Content' = Updated(WithIds(Content, o), o) /\ reply' = [reply EXCEPT ![o] = Content']
          BY <5>1, <5>2
        <5> QED
          BY <1>0, <1>2, <5>1, <5>3, TakeMaps
      <4>2. CASE ~(o \in Loads /\ Content.id # NoId)
        BY <2>1, <3>2, <4>2 DEF Read, Content
      <4> QED
        BY <4>1, <4>2
    <3>3. CASE Rename(o)
      <4>1. tmp = buf[o] /\ buf[o] \in Doc /\ buf[o] # Absent
        BY <3>3, AbsenceAssumption DEF Rename, BuffersFollow, TypeOK
      <4>2. /\ reply[o] = NoReply /\ file' = buf[o]
            /\ reply' = [reply EXCEPT ![o] = buf[o]]
        BY <3>3, <4>1 DEF Rename, NotYetAnswered, Undecided
      <4>3. Content' = buf[o]
        BY <4>1, <4>2 DEF Content
      <4>4. buf[o] = Updated(WithIds(Content, o), o)
        BY <1>2, <3>3 DEF Rename, BuffersFollow
      <4> QED
        BY <1>0, <1>2, <4>2, <4>3, <4>4, TakeMaps
    <3>4. CASE Place(o)
      <4>1. FALSE
        BY <1>2, <3>4 DEF Place, NoCreation
      <4> QED
        BY <4>1
    <3>5. CASE \/ MutateBegins(o) \/ Ensure(o) \/ CreateAside(o) \/ Acquire(o) \/ GiveUp(o)
               \/ WriteAside(o) \/ Release(o) \/ Abort(o) \/ Die(o)
      BY <2>1, <3>5 DEF MutateBegins, Ensure, CreateAside, Acquire, GiveUp, WriteAside, Release,
         Abort, Die, Content
    <3> QED
      BY <2>2, <3>1, <3>2, <3>3, <3>4, <3>5 DEF Step
  <2>3. CASE UNCHANGED vars
    BY <2>1, <2>3 DEF vars, Content
  <2> QED
    BY <2>2, <2>3 DEF Next
<1> QED
  BY <1>1, <1>2

LEMMA InitMaps == Init => Store!Init
<1> SUFFICES ASSUME Init PROVE Store!Init
  OBVIOUS
<1>1. CASE file = Absent
  <2>1. ~Inherited
    BY <1>1 DEF Inherited, Content, EmptyDoc
  <2> QED
    BY <2>1 DEF Store!Init, StoreDoc, StoreReply, Store!Operations, Operations
<1>2. CASE file = LegacyDoc
  <2>1. LegacyDoc # Absent /\ LegacyDoc.id # Created
    BY AbsenceAssumption, NamesAssumption DEF LegacyDoc, Doc, Ids
  <2>2. Inherited /\ Content = LegacyDoc
    BY <1>2, <2>1 DEF Inherited, Content
  <2> QED
    BY <2>2 DEF Init, Store!Init, StoreDoc, StoreReply, Store!Operations, Operations
<1> QED
  BY <1>1, <1>2 DEF Init

\* "Load-mutate-save atomically under the file lock": on a document that was there, the
\* file-system steps of any number of processes, crashes included, implement operations
\* that take effect at one instant or not at all, and account ids that never change.
THEOREM Atomicity == ASSUME ~MayStall PROVE Spec => IsAtomic
<1>1. Init => IInv
  BY IInvInit
<1>2. IInv /\ [Next]_vars => IInv'
  BY IInvStep
<1>3. IInv /\ [Next]_vars => [Store!Next]_(Store!vars)
  BY StepMaps
<1> QED
  BY <1>1, <1>2, <1>3, InitMaps, PTL DEF Spec, IsAtomic, Store!Spec
=============================================================================
