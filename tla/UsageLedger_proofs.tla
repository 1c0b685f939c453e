-------------------------- MODULE UsageLedger_proofs ---------------------------
(***************************************************************************)
(* Proofs about UsageLedger, for any number of processes and records, any   *)
(* batch sizes and any refusals of the disk and deaths: a record is in one  *)
(* place, once.                                                             *)
(***************************************************************************)
EXTENDS UsageLedger, FiniteSetTheorems, SequenceTheorems, TLAPS

-----------------------------------------------------------------------------
(* Sequences of records without repetition.                                 *)

Elements(s) == {s[i] : i \in DOMAIN s}
Injective(s) == \A i, j \in DOMAIN s : s[i] = s[j] => i = j

\* A record occurs in such a sequence once or not at all.
LEMMA TimesInInjective ==
  ASSUME NEW s \in Seq(Records), Injective(s), NEW r
  PROVE  Times(s, r) = IF r \in Elements(s) THEN 1 ELSE 0
<1> DEFINE at == {i \in DOMAIN s : s[i] = r}
<1>1. CASE r \in Elements(s)
  <2>1. PICK i \in DOMAIN s : s[i] = r
    BY <1>1 DEF Elements
  <2>2. at = {i}
    BY <2>1 DEF Injective
  <2>3. Cardinality({i}) = 1
    BY FS_Singleton
  <2> QED
    BY <1>1, <2>2, <2>3 DEF Times
<1>2. CASE r \notin Elements(s)
  <2>1. at = {}
    BY <1>2 DEF Elements
  <2> QED
    BY <1>2, <2>1, FS_EmptySet DEF Times
<1> QED
  BY <1>1, <1>2

\* How often a record occurs is a number.
LEMMA TimesIsANumber ==
  ASSUME NEW s \in Seq(Records), NEW r
  PROVE  Times(s, r) \in Nat
<1>1. DOMAIN s = 1..Len(s) /\ Len(s) \in Nat
  BY LenProperties
<1>2. IsFiniteSet(DOMAIN s)
  BY <1>1, FS_Interval
<1>3. IsFiniteSet({i \in DOMAIN s : s[i] = r})
  BY <1>2, FS_Subset
<1> QED
  BY <1>3, FS_CardinalityType DEF Times

\* Nothing occurs in the empty sequence.
LEMMA NothingInEmpty ==
  /\ <<>> \in Seq(Records) /\ Len(<<>>) = 0 /\ Injective(<<>>) /\ Elements(<<>>) = {}
BY DEF Injective, Elements

\* A new record behind the others.
LEMMA AppendElements ==
  ASSUME NEW s \in Seq(Records), Injective(s), NEW r \in Records, r \notin Elements(s)
  PROVE  /\ Append(s, r) \in Seq(Records) /\ Injective(Append(s, r))
         /\ Elements(Append(s, r)) = Elements(s) \cup {r}
<1> DEFINE t == Append(s, r)
<1>1. /\ t \in Seq(Records) /\ Len(t) = Len(s) + 1 /\ t[Len(s) + 1] = r
      /\ \A i \in 1..Len(s) : t[i] = s[i]
  BY AppendProperties
<1>2. Len(s) \in Nat /\ DOMAIN s = 1..Len(s) /\ DOMAIN t = 1..Len(s) + 1
  BY <1>1, LenProperties
<1> HIDE DEF t
<1>3. \A i \in DOMAIN s : s[i] # r
  BY DEF Elements
<1>4. DOMAIN t = DOMAIN s \cup {Len(s) + 1} /\ Len(s) + 1 \notin DOMAIN s
  BY <1>2
<1>5. \A i \in DOMAIN t : i \in DOMAIN s \/ i = Len(s) + 1
  BY <1>4
<1>6. Injective(t)
  BY <1>1, <1>2, <1>3, <1>5 DEF Injective
<1>7. Elements(t) = Elements(s) \cup {r}
  <2>1. Elements(t) \subseteq Elements(s) \cup {r}
    BY <1>1, <1>2, <1>5 DEF Elements
  <2>2. Elements(s) \subseteq Elements(t)
    BY <1>1, <1>2, <1>4 DEF Elements
  <2>3. r \in Elements(t)
    BY <1>1, <1>4 DEF Elements
  <2> QED
    BY <2>1, <2>2, <2>3
<1> QED
  BY <1>1, <1>6, <1>7 DEF t

\* A batch put back in front of what came since.
LEMMA ConcatElements ==
  ASSUME NEW s \in Seq(Records), NEW t \in Seq(Records), Injective(s), Injective(t),
         Elements(s) \cap Elements(t) = {}
  PROVE  /\ s \o t \in Seq(Records) /\ Injective(s \o t)
         /\ Elements(s \o t) = Elements(s) \cup Elements(t)
<1> DEFINE u == s \o t
<1>1. /\ u \in Seq(Records) /\ Len(u) = Len(s) + Len(t)
      /\ \A i \in 1..Len(s) + Len(t) : u[i] = IF i <= Len(s) THEN s[i] ELSE t[i - Len(s)]
  BY ConcatProperties
<1>2. /\ Len(s) \in Nat /\ Len(t) \in Nat /\ DOMAIN s = 1..Len(s) /\ DOMAIN t = 1..Len(t)
      /\ DOMAIN u = 1..Len(s) + Len(t)
  BY <1>1, LenProperties
<1> HIDE DEF u
<1>3. \A i \in DOMAIN u :
        \/ i \in DOMAIN s /\ u[i] = s[i]
        \/ i - Len(s) \in DOMAIN t /\ i \notin DOMAIN s /\ u[i] = t[i - Len(s)]
  BY <1>1, <1>2
<1>4. \A i \in DOMAIN s, j \in DOMAIN t : s[i] # t[j]
  BY DEF Elements
<1>5. Injective(u)
  <2> SUFFICES ASSUME NEW i \in DOMAIN u, NEW j \in DOMAIN u, u[i] = u[j] PROVE i = j
    BY DEF Injective
  <2>1. CASE i \in DOMAIN s /\ j \in DOMAIN s
    BY <1>3, <2>1 DEF Injective
  <2>2. CASE i \notin DOMAIN s /\ j \notin DOMAIN s
    <3>1. i - Len(s) = j - Len(s)
      BY <1>3, <2>2 DEF Injective
    <3> QED
      BY <1>2, <3>1
  <2>3. CASE (i \in DOMAIN s) # (j \in DOMAIN s)
    BY <1>3, <1>4, <2>3
  <2> QED
    BY <2>1, <2>2, <2>3
<1>6. Elements(u) \subseteq Elements(s) \cup Elements(t)
  BY <1>3 DEF Elements
<1>7. Elements(s) \subseteq Elements(u)
  BY <1>1, <1>2 DEF Elements
<1>8. Elements(t) \subseteq Elements(u)
  <2> SUFFICES ASSUME NEW j \in DOMAIN t PROVE t[j] \in Elements(u)
    BY DEF Elements
  <2>1. j + Len(s) \in DOMAIN u /\ u[j + Len(s)] = t[j]
    BY <1>1, <1>2
  <2> QED
    BY <2>1 DEF Elements
<1> QED
  BY <1>1, <1>5, <1>6, <1>7, <1>8 DEF u

\* The cap: what it keeps and what it drops are the whole, and apart.
LEMMA CapSplits ==
  ASSUME NEW s \in Seq(Records), Injective(s)
  PROVE  /\ Newest(s) \in Seq(Records) /\ Len(Newest(s)) <= MaxPending /\ Injective(Newest(s))
         /\ Oldest(s) \subseteq Elements(s)
         /\ Elements(Newest(s)) = Elements(s) \ Oldest(s)
<1>1. Len(s) \in Nat /\ DOMAIN s = 1..Len(s) /\ MaxPending \in Nat \ {0}
  BY LenProperties, BacklogAssumption
<1>2. Oldest(s) \subseteq Elements(s)
  BY <1>1 DEF Oldest, Elements
<1>3. CASE Len(s) <= MaxPending
  <2>1. Newest(s) = s /\ Oldest(s) = {}
    BY <1>1, <1>3 DEF Newest, Oldest
  <2> QED
    BY <1>2, <1>3, <2>1
<1>4. CASE Len(s) > MaxPending
  <2> DEFINE first == Len(s) - MaxPending + 1
             t == SubSeq(s, first, Len(s))
  <2>1. Newest(s) = t /\ first \in 1..Len(s) /\ Len(s) - first + 1 = MaxPending
    BY <1>1, <1>4 DEF Newest
  <2>2. \A i \in first..Len(s) : s[i] \in Records
    BY <1>1, <2>1, ElementOfSeq
  <2>3. /\ t \in Seq(Records) /\ Len(t) = MaxPending
        /\ \A i \in 1..MaxPending : t[i] = s[first + i - 1]
    BY <1>1, <2>1, <2>2, SubSeqProperties
  <2>4. DOMAIN t = 1..MaxPending
    BY <2>3, LenProperties
  <2> HIDE DEF t, first
  <2>5. \A i \in DOMAIN t : first + i - 1 \in DOMAIN s /\ t[i] = s[first + i - 1]
    BY <1>1, <2>1, <2>3, <2>4
  <2>6. Injective(t)
    <3> SUFFICES ASSUME NEW i \in DOMAIN t, NEW j \in DOMAIN t, t[i] = t[j] PROVE i = j
      BY DEF Injective
    <3>1. first + i - 1 = first + j - 1
      BY <2>5 DEF Injective
    <3> QED
      BY <2>1, <2>4, <3>1
  <2>7. Elements(t) = {s[k] : k \in first..Len(s)}
    <3>1. ASSUME NEW k \in first..Len(s) PROVE s[k] \in Elements(t)
      <4>1. k - first + 1 \in DOMAIN t /\ first + (k - first + 1) - 1 = k
        BY <1>1, <2>1, <2>4
      <4> QED
        BY <2>5, <4>1 DEF Elements
    <3>2. \A i \in DOMAIN t : first + i - 1 \in first..Len(s)
      BY <1>1, <2>1, <2>4
    <3> QED
      BY <2>5, <3>1, <3>2 DEF Elements
  <2>8. Oldest(s) = {s[k] : k \in 1..(first - 1)}
    <3>1. {j \in 1..Len(s) : j + MaxPending <= Len(s)} = 1..(first - 1)
      BY <1>1, <1>4 DEF first
    <3> QED
      BY <3>1 DEF Oldest
  <2>9. Elements(t) = Elements(s) \ Oldest(s)
    <3>1. \A k \in DOMAIN s : k \in first..Len(s) \/ k \in 1..(first - 1)
      BY <1>1, <2>1
    <3>2. Elements(t) \subseteq Elements(s) \ Oldest(s)
      <4> SUFFICES ASSUME NEW k \in first..Len(s) PROVE s[k] \in Elements(s) \ Oldest(s)
        BY <2>7
      <4>1. k \in DOMAIN s
        BY <1>1, <2>1
      <4>2. \A m \in 1..(first - 1) : s[m] # s[k]
        <5> TAKE m \in 1..(first - 1)
        <5>1. m \in DOMAIN s /\ m # k
          BY <1>1, <2>1
        <5> QED
          BY <4>1, <5>1 DEF Injective
      <4> QED
        BY <2>8, <4>1, <4>2 DEF Elements
    <3>3. Elements(s) \ Oldest(s) \subseteq Elements(t)
      BY <2>7, <2>8, <3>1 DEF Elements
    <3> QED
      BY <3>2, <3>3
  <2>10. Len(t) <= MaxPending
    BY <1>1, <2>3
  <2> QED
    BY <1>2, <2>1, <2>3, <2>6, <2>9, <2>10
<1> QED
  BY <1>1, <1>3, <1>4
\* The cap leaves records, no more than the bound.
LEMMA CapType ==
  ASSUME NEW s \in Seq(Records)
  PROVE  /\ Newest(s) \in Seq(Records) /\ Len(Newest(s)) <= MaxPending
         /\ Oldest(s) \subseteq Records
<1>1. Len(s) \in Nat /\ DOMAIN s = 1..Len(s) /\ MaxPending \in Nat \ {0}
  BY LenProperties, BacklogAssumption
<1>2. \A i \in 1..Len(s) : s[i] \in Records
  BY ElementOfSeq
<1>3. Oldest(s) \subseteq Records
  BY <1>1, <1>2 DEF Oldest
<1>4. CASE Len(s) <= MaxPending
  BY <1>1, <1>3, <1>4 DEF Newest
<1>5. CASE Len(s) > MaxPending
  <2> DEFINE first == Len(s) - MaxPending + 1
  <2>1. /\ Newest(s) = SubSeq(s, first, Len(s))
        /\ first \in Int /\ Len(s) \in Int /\ first \in 1..Len(s)
        /\ Len(s) - first + 1 = MaxPending
    BY <1>1, <1>5 DEF Newest
  <2>2. \A i \in first..Len(s) : s[i] \in Records
    BY <1>1, <1>2, <2>1
  <2> HIDE DEF first
  <2>3. /\ SubSeq(s, first, Len(s)) \in Seq(Records)
        /\ Len(SubSeq(s, first, Len(s))) = Len(s) - first + 1
    BY <1>1, <2>1, <2>2, SubSeqProperties
  <2> QED
    BY <1>1, <1>3, <2>1, <2>3
<1> QED
  BY <1>1, <1>4, <1>5

-----------------------------------------------------------------------------
(* Types.                                                                   *)

\* A ledger, empty or read, is a document; so is one a batch has been added to.
LEMMA DocTypes ==
  ASSUME TypeOK
  PROVE  /\ EmptyDoc \in Doc /\ Content \in Doc
         /\ \A p \in Procs : /\ WithBatch(Content, batch[p].records, batch[p].day) \in Doc
                            /\ WithBatch(EmptyDoc, batch[p].records, batch[p].day) \in Doc
<1>1. EmptyDoc \in Doc
  BY DEF EmptyDoc, Doc
<1>2. Content \in Doc
  BY <1>1 DEF Content, TypeOK
<1>3. ASSUME NEW doc \in Doc, NEW b \in Seq(Records), NEW now \in Days
      PROVE  WithBatch(doc, b, now) \in Doc
  <2>1. \A r \in Records : doc.totals[r] \in Nat /\ Times(b, r) \in Nat
    BY TimesIsANumber DEF Doc
  <2>2. [r \in Records |-> doc.totals[r] + Times(b, r)] \in [Records -> Nat]
    BY <2>1
  <2>3. {b[i] : i \in DOMAIN b} \subseteq Records
    BY LenProperties, ElementOfSeq
  <2>4. \A d \in Days : doc.days[d] \in SUBSET Records
    BY DEF Doc
  <2>5. [d \in Days |-> IF ~IsRetained(d, now) THEN {}
                        ELSE IF d = now THEN doc.days[d] \cup {b[i] : i \in DOMAIN b}
                        ELSE doc.days[d]] \in [Days -> SUBSET Records]
    BY <2>3, <2>4
  <2> QED
    BY <2>2, <2>5 DEF WithBatch, Doc
<1>4. \A p \in Procs : batch[p].records \in Seq(Records) /\ batch[p].day \in Days
  BY DEF TypeOK
<1> QED
  BY <1>1, <1>2, <1>3, <1>4

\* No batch, and an empty backlog, have their types.
LEMMA EmptyTypes ==
  /\ Nothing \in [records: Seq(Records), day: Days] /\ 1 \in Days
  /\ <<>> \in Seq(Records) /\ Len(<<>>) <= MaxPending
BY BacklogAssumption, WindowAssumption DEF Nothing, Days

\* All is empty at the start.
LEMMA InitType == Init => TypeOK
<1> SUFFICES ASSUME Init PROVE TypeOK
  OBVIOUS
<1>1. EmptyDoc \in Doc
  BY DEF EmptyDoc, Doc
<1>2. /\ file \in Doc \cup {Absent} /\ tmp \in Doc \cup {Absent} /\ tmpInit \in Doc \cup {Absent}
      /\ lock \in Procs \cup {Nobody} /\ stale \in BOOLEAN
      /\ buf \in [Procs -> Doc]
  BY <1>1 DEF Init
<1>3. /\ issued \in [Procs -> 0..PerProcess]
      /\ pending \in [Procs -> Seq(Records)] /\ \A p \in Procs : Len(pending[p]) <= MaxPending
      /\ batch \in [Procs -> [records: Seq(Records), day: Days]]
  BY EmptyTypes, BacklogAssumption DEF Init
<1>4. /\ timer \in [Procs -> BOOLEAN] /\ failing \in [Procs -> BOOLEAN]
      /\ pc \in [Procs -> {"idle"} \cup Underway]
      /\ life \in [Procs -> {"up", "leaving", "down"}]
  BY DEF Init
<1>5. /\ dropped \subseteq Records /\ bookedOn \in [Records -> 0..LastDay + 1]
      /\ replaced \in BOOLEAN /\ doubled \subseteq Records
      /\ day \in Days /\ faults \in 0..MaxFaults /\ deaths \in 0..MaxDeaths
  <2>1. 0 \in 0..LastDay + 1
    BY WindowAssumption
  <2>2. bookedOn \in [Records -> 0..LastDay + 1]
    BY <2>1 DEF Init
  <2> QED
    BY <2>2, EmptyTypes DEF Init
<1> QED
  BY <1>2, <1>3, <1>4, <1>5 DEF TypeOK

\* A flush that begins takes a backlog for its batch.
LEMMA BeginFlushType ==
  ASSUME TypeOK, NEW p \in Procs, NEW backlog \in Seq(Records), BeginFlush(p, backlog)
  PROVE  /\ timer' \in [Procs -> BOOLEAN]
         /\ pending' \in [Procs -> Seq(Records)] /\ \A q \in Procs : Len(pending'[q]) <= MaxPending
         /\ pc' \in [Procs -> {"idle"} \cup Underway]
         /\ batch' \in [Procs -> [records: Seq(Records), day: Days]]
<1>1. CASE backlog = <<>>
  BY <1>1 DEF BeginFlush, TypeOK
<1>2. CASE backlog # <<>>
  <2>1. /\ pending' = [pending EXCEPT ![p] = <<>>]
        /\ batch' = [batch EXCEPT ![p] = [records |-> backlog, day |-> day]]
        /\ pc' = [pc EXCEPT ![p] = "ensuring"] /\ timer' = [timer EXCEPT ![p] = FALSE]
    BY <1>2 DEF BeginFlush, Goto
  <2>2. [records |-> backlog, day |-> day] \in [records: Seq(Records), day: Days]
    BY DEF TypeOK
  <2>3. batch' \in [Procs -> [records: Seq(Records), day: Days]]
    BY <2>1, <2>2 DEF TypeOK
  <2>4. pending' \in [Procs -> Seq(Records)] /\ \A q \in Procs : Len(pending'[q]) <= MaxPending
    BY <2>1, EmptyTypes DEF TypeOK
  <2>5. pc' \in [Procs -> {"idle"} \cup Underway] /\ timer' \in [Procs -> BOOLEAN]
    BY <2>1 DEF TypeOK, Underway
  <2> QED
    BY <2>3, <2>4, <2>5
<1> QED
  BY <1>1, <1>2

\* A flush that fails puts records back.
LEMMA PutBackType ==
  ASSUME TypeOK, NEW p \in Procs, PutBack(p)
  PROVE  /\ timer' \in [Procs -> BOOLEAN] /\ failing' \in [Procs -> BOOLEAN]
         /\ pending' \in [Procs -> Seq(Records)] /\ \A q \in Procs : Len(pending'[q]) <= MaxPending
         /\ pc' \in [Procs -> {"idle"} \cup Underway]
         /\ batch' \in [Procs -> [records: Seq(Records), day: Days]]
         /\ life' \in [Procs -> {"up", "leaving", "down"}]
         /\ dropped' \subseteq Records
<1> DEFINE all == batch[p].records \o pending[p]
<1>1. all \in Seq(Records)
  BY ConcatProperties DEF TypeOK
<1>2. Newest(all) \in Seq(Records) /\ Len(Newest(all)) <= MaxPending /\ Oldest(all) \subseteq Records
  BY <1>1, CapType
<1>3. /\ pending' = [pending EXCEPT ![p] = Newest(all)] /\ dropped' = dropped \cup Oldest(all)
      /\ batch' = [batch EXCEPT ![p] = Nothing] /\ pc' = [pc EXCEPT ![p] = "idle"]
      /\ failing' = [failing EXCEPT ![p] = TRUE] /\ timer' = [timer EXCEPT ![p] = TRUE]
      /\ life' = [life EXCEPT ![p] = IF @ = "leaving" THEN "down" ELSE @]
  BY DEF PutBack, Goto, Settled
<1> HIDE DEF all
<1>4. pending' \in [Procs -> Seq(Records)] /\ \A q \in Procs : Len(pending'[q]) <= MaxPending
  BY <1>2, <1>3 DEF TypeOK
<1>5. batch' \in [Procs -> [records: Seq(Records), day: Days]]
  BY <1>3, EmptyTypes DEF TypeOK
<1>6. dropped' \subseteq Records
  BY <1>2, <1>3 DEF TypeOK
<1>7. pc' \in [Procs -> {"idle"} \cup Underway]
  BY <1>3 DEF TypeOK
<1>8. failing' \in [Procs -> BOOLEAN] /\ timer' \in [Procs -> BOOLEAN]
  BY <1>3 DEF TypeOK
<1>9. life' \in [Procs -> {"up", "leaving", "down"}]
  BY <1>3 DEF TypeOK
<1> QED
  BY <1>4, <1>5, <1>6, <1>7, <1>8, <1>9
\* A record is made and put behind the backlog, which may be cut or flushed.
LEMMA RecordType ==
  ASSUME TypeOK, NEW p \in Procs, Record(p)
  PROVE  TypeOK'
<1> DEFINE new == <<p, issued'[p]>>
           all == Append(pending[p], new)
           backlog == Newest(all)
<1>1. /\ issued[p] < PerProcess /\ issued' = [issued EXCEPT ![p] = @ + 1]
      /\ dropped' = dropped \cup Oldest(all)
      /\ \/ BeginFlush(p, backlog)
         \/ /\ pending' = [pending EXCEPT ![p] = backlog] /\ timer' = [timer EXCEPT ![p] = TRUE]
            /\ UNCHANGED <<pc, batch>>
      /\ UNCHANGED <<disk, failing, buf, bookedOn, replaced, doubled, world>>
  BY DEF Record
<1>2. issued[p] \in 0..PerProcess /\ issued'[p] = issued[p] + 1 /\ PerProcess \in Nat
  BY <1>1, BacklogAssumption DEF TypeOK
<1>3. issued'[p] \in 1..PerProcess /\ issued'[p] \in 0..PerProcess
  BY <1>1, <1>2
<1>4. new \in Records /\ issued' \in [Procs -> 0..PerProcess]
  BY <1>1, <1>3 DEF Records, TypeOK
<1>5. all \in Seq(Records)
  BY <1>4, AppendProperties DEF TypeOK
<1>6. backlog \in Seq(Records) /\ Len(backlog) <= MaxPending /\ Oldest(all) \subseteq Records
  BY <1>5, CapType
<1> HIDE DEF backlog, all
<1>7. /\ timer' \in [Procs -> BOOLEAN]
      /\ pending' \in [Procs -> Seq(Records)] /\ \A q \in Procs : Len(pending'[q]) <= MaxPending
      /\ pc' \in [Procs -> {"idle"} \cup Underway]
      /\ batch' \in [Procs -> [records: Seq(Records), day: Days]]
  <2>1. CASE BeginFlush(p, backlog)
    BY <1>6, <2>1, BeginFlushType
  <2>2. CASE /\ pending' = [pending EXCEPT ![p] = backlog] /\ timer' = [timer EXCEPT ![p] = TRUE]
             /\ UNCHANGED <<pc, batch>>
    BY <1>6, <2>2 DEF TypeOK
  <2> QED
    BY <1>1, <2>1, <2>2
<1>8. dropped' \subseteq Records
  BY <1>1, <1>6 DEF TypeOK
<1> QED
  BY <1>1, <1>4, <1>7, <1>8 DEF TypeOK, disk, world

\* The steps of a flush.
LEMMA FlushStepType ==
  ASSUME TypeOK, NEW p \in Procs, FlushStep(p)
  PROVE  TypeOK'
<1> USE DEF Goto, disk, memory, flushing, history, world
<1>1. CASE Ensure(p)
  BY <1>1 DEF Ensure, TypeOK, Underway
<1>2. CASE CreateAside(p)
  BY <1>2, DocTypes DEF CreateAside, TypeOK, Underway
<1>3. CASE Place(p)
  BY <1>3 DEF Place, TypeOK, Underway
<1>4. CASE Acquire(p)
  BY <1>4 DEF Acquire, TypeOK, Underway, Locked
<1>5. CASE Contended(p)
  <2>1. PutBack(p) /\ UNCHANGED <<disk, issued, buf, bookedOn, replaced, doubled, day, faults, deaths>>
    BY <1>5 DEF Contended
  <2> QED
    BY <2>1, PutBackType DEF TypeOK
<1>6. CASE Read(p)
  <2>1. /\ buf' = [buf EXCEPT ![p] = WithBatch(Content, batch[p].records, batch[p].day)]
        /\ pc' = [pc EXCEPT ![p] = "writing"] /\ UNCHANGED <<disk, memory, batch, history, world>>
    BY <1>6 DEF Read
  <2>2. WithBatch(Content, batch[p].records, batch[p].day) \in Doc
    BY DocTypes
  <2>3. buf' \in [Procs -> Doc]
    BY <2>1, <2>2 DEF TypeOK
  <2> QED
    BY <2>1, <2>3 DEF TypeOK, Underway, Locked
<1>7. CASE WriteAside(p)
  BY <1>7 DEF WriteAside, TypeOK, Underway, Locked
<1>8. CASE Rename(p)
  <2>1. bookedOn' \in [Records -> 0..LastDay + 1]
    <3>1. batch[p].day \in 0..LastDay + 1
      BY WindowAssumption DEF TypeOK, Days
    <3> QED
      BY <1>8, <3>1 DEF Rename, Book, TypeOK
  <2>2. batch' \in [Procs -> [records: Seq(Records), day: Days]]
    BY <1>8, EmptyTypes DEF Rename, TypeOK
  <2>3. pc' \in [Procs -> {"idle"} \cup Underway]
    BY <1>8 DEF Rename, TypeOK, Underway, Locked
  <2>4. /\ file' = tmp /\ tmp' = Absent
        /\ UNCHANGED <<tmpInit, lock, stale, memory, buf, dropped, replaced, doubled, world>>
    BY <1>8 DEF Rename, Book
  <2> QED
    BY <2>1, <2>2, <2>3, <2>4 DEF TypeOK
<1>9. CASE Release(p)
  <2>1. lock' \in Procs \cup {Nobody}
    BY <1>9 DEF Release, Unlocked, TypeOK
  <2>2. buf' \in [Procs -> Doc] /\ failing' \in [Procs -> BOOLEAN]
    BY <1>9, DocTypes DEF Release, TypeOK
  <2>3. pc' \in [Procs -> {"idle"} \cup Underway] /\ life' \in [Procs -> {"up", "leaving", "down"}]
    BY <1>9 DEF Release, Settled, TypeOK
  <2>4. UNCHANGED <<file, tmp, tmpInit, stale, issued, pending, timer, batch, history, day, faults, deaths>>
    BY <1>9 DEF Release
  <2> QED
    BY <2>1, <2>2, <2>3, <2>4 DEF TypeOK
<1>10. CASE Refused(p)
  <2>1. lock' \in Procs \cup {Nobody} /\ PutBack(p)
    BY <1>10 DEF Refused, Unlocked, TypeOK
  <2>2. buf' \in [Procs -> Doc]
    BY <1>10, DocTypes DEF Refused, TypeOK
  <2>3. faults' \in 0..MaxFaults
    BY <1>10, FaultAssumption DEF Refused, TypeOK
  <2>4. UNCHANGED <<file, tmp, tmpInit, stale, issued, bookedOn, replaced, doubled, day, deaths>>
    BY <1>10 DEF Refused
  <2> QED
    BY <2>1, <2>2, <2>3, <2>4, PutBackType DEF TypeOK
<1>11. CASE ReadFails(p)
  <2>1. /\ buf' = [buf EXCEPT ![p] = WithBatch(EmptyDoc, batch[p].records, batch[p].day)]
        /\ pc' = [pc EXCEPT ![p] = "writing"] /\ replaced' = TRUE
        /\ UNCHANGED <<disk, memory, batch, dropped, bookedOn, doubled, life, day, deaths>>
    BY <1>11 DEF ReadFails
  <2>2. buf' \in [Procs -> Doc]
    BY <2>1, DocTypes DEF TypeOK
  <2>3. faults' \in 0..MaxFaults
    BY <1>11, FaultAssumption DEF ReadFails, TypeOK
  <2> QED
    BY <2>1, <2>2, <2>3 DEF TypeOK, Underway, Locked
<1>12. CASE ReleaseFails(p)
  <2>1. /\ PutBack(p) /\ file' = tmp /\ tmp' = Absent
        /\ bookedOn' = [r \in Records |-> IF Times(batch[p].records, r) > 0
                                         THEN batch[p].day ELSE bookedOn[r]]
        /\ doubled' = doubled \cup {batch[p].records[i] : i \in DOMAIN batch[p].records}
        /\ UNCHANGED <<tmpInit, lock, stale, issued, replaced, day, deaths>>
    BY <1>12 DEF ReleaseFails, Book
  <2>2. bookedOn' \in [Records -> 0..LastDay + 1]
    <3>1. batch[p].day \in 0..LastDay + 1
      BY WindowAssumption DEF TypeOK, Days
    <3> QED
      BY <2>1, <3>1 DEF TypeOK
  <2>3. doubled' \subseteq Records
    <3>1. batch[p].records \in Seq(Records)
      BY DEF TypeOK
    <3>2. {batch[p].records[i] : i \in DOMAIN batch[p].records} \subseteq Records
      BY <3>1, LenProperties, ElementOfSeq
    <3> QED
      BY <2>1, <3>2 DEF TypeOK
  <2>4. buf' \in [Procs -> Doc] /\ faults' \in 0..MaxFaults
    BY <1>12, DocTypes, FaultAssumption DEF ReleaseFails, TypeOK
  <2> QED
    BY <2>1, <2>2, <2>3, <2>4, PutBackType DEF TypeOK
<1> QED
  BY <1>1, <1>2, <1>3, <1>4, <1>5, <1>6, <1>7, <1>8, <1>9, <1>10, <1>11, <1>12 DEF FlushStep

\* Every step.
LEMMA NextType == TypeOK /\ [Next]_vars => TypeOK'
<1> SUFFICES ASSUME TypeOK, [Next]_vars PROVE TypeOK'
  OBVIOUS
<1> USE DEF disk, memory, flushing, history, world
<1>1. ASSUME NEW p \in Procs, Record(p) PROVE TypeOK'
  BY <1>1, RecordType
<1>2. ASSUME NEW p \in Procs, TimerFires(p) PROVE TypeOK'
  <2>1. BeginFlush(p, pending[p]) /\ pending[p] \in Seq(Records)
        /\ UNCHANGED <<disk, issued, failing, buf, history, world>>
    BY <1>2 DEF TimerFires, TypeOK
  <2> QED
    BY <2>1, BeginFlushType DEF TypeOK
<1>3. ASSUME NEW p \in Procs, Exit(p) PROVE TypeOK'
  <2>1. BeginFlush(p, pending[p]) /\ pending[p] \in Seq(Records)
        /\ UNCHANGED <<disk, issued, failing, buf, history, day, faults, deaths>>
    BY <1>3 DEF Exit, TypeOK
  <2>2. life' \in [Procs -> {"up", "leaving", "down"}]
    BY <1>3 DEF Exit, TypeOK
  <2> QED
    BY <2>1, <2>2, BeginFlushType DEF TypeOK
<1>4. ASSUME NEW p \in Procs, FlushStep(p) PROVE TypeOK'
  BY <1>4, FlushStepType
<1>5. ASSUME NEW p \in Procs, Die(p) PROVE TypeOK'
  <2>1. life' \in [Procs -> {"up", "leaving", "down"}] /\ deaths' \in 0..MaxDeaths
    BY <1>5, FaultAssumption DEF Die, TypeOK
  <2> QED
    BY <1>5, <2>1 DEF Die, TypeOK
<1>6. CASE LockGoesStale
  BY <1>6 DEF LockGoesStale, TypeOK
<1>7. CASE NextDay
  <2>1. day' \in Days
    BY <1>7, WindowAssumption DEF NextDay, TypeOK, Days
  <2> QED
    BY <1>7, <2>1 DEF NextDay, TypeOK
<1>8. CASE UNCHANGED vars
  BY <1>8 DEF vars, TypeOK
<1> QED
  BY <1>1, <1>2, <1>3, <1>4, <1>5, <1>6, <1>7, <1>8 DEF Next

\* Every variable keeps its type; in particular no backlog outgrows the cap.
THEOREM LedgerTypeCorrect == Spec => []TypeOK
  BY InitType, NextType, PTL DEF Spec
-----------------------------------------------------------------------------
(* The file and its lock.                                                   *)

\* The document a flush is to write.
Planned(p) == WithBatch(Content, batch[p].records, batch[p].day)

\* What is put in the place of a missing ledger is an empty one.
AsideIsEmpty == tmpInit \in {Absent, EmptyDoc}
\* A live process between taking the lock and giving it back has it.
LockIsHeld == \A p \in Procs : ~Down(p) /\ pc[p] \in Locked => lock = p
\* What such a process is about to put in the file is the file of now with its batch.
WritesAreCurrent ==
  ~replaced => \A p \in Procs : ~Down(p) =>
    /\ pc[p] = "writing" => buf[p] = Planned(p)
    /\ pc[p] = "renaming" => tmp = Planned(p)

DiskInv == AsideIsEmpty /\ LockIsHeld /\ WritesAreCurrent

\* A step of one process that ends outside the lock, or with the process, and leaves the
\* ledger as it is (or replaces it by an empty one), disturbs no other process.
LEMMA OutsideTheLock ==
  ASSUME TypeOK, DiskInv, NEW p \in Procs,
         pc'[p] \notin Locked \/ life'[p] = "down",
         \A q \in Procs \ {p} : pc'[q] = pc[q] /\ life'[q] = life[q]
                                /\ batch'[q] = batch[q] /\ buf'[q] = buf[q],
         lock' = lock \/ lock' = Unlocked(p),
         tmp' = tmp, AsideIsEmpty', replaced => replaced',
         Content' = Content \/ replaced'
  PROVE  DiskInv'
<1>1. ASSUME NEW q \in Procs, ~Down(q)', pc'[q] \in Locked
      PROVE  q # p /\ ~Down(q) /\ pc[q] \in Locked /\ pc'[q] = pc[q] /\ batch'[q] = batch[q]
             /\ buf'[q] = buf[q]
  BY <1>1 DEF Down
<1>2. LockIsHeld'
  BY <1>1 DEF DiskInv, LockIsHeld, Unlocked
<1>3. WritesAreCurrent'
  <2> SUFFICES ASSUME ~replaced', NEW q \in Procs, ~Down(q)'
               PROVE  /\ pc'[q] = "writing" => buf'[q] = Planned(q)'
                      /\ pc'[q] = "renaming" => tmp' = Planned(q)'
    BY DEF WritesAreCurrent
  <2>1. ASSUME pc'[q] \in Locked PROVE Planned(q)' = Planned(q)
    <3>1. Content' = Content /\ batch'[q] = batch[q]
      BY <2>1, <1>1
    <3> QED
      BY <3>1 DEF Planned
  <2> QED
    BY <1>1, <2>1 DEF DiskInv, WritesAreCurrent, Locked
<1> QED
  BY <1>2, <1>3 DEF DiskInv

\* The steps of a flush, up to the lock, under it and out of it.
LEMMA FlushStepDisk ==
  ASSUME TypeOK, DiskInv, NEW p \in Procs, FlushStep(p)
  PROVE  DiskInv'
<1> USE DEF Goto, disk, memory, flushing, history, world
<1>0. ~Down(p)
  BY DEF FlushStep, Down
<1>1. CASE Ensure(p)
  <2>1. /\ pc'[p] \notin Locked
        /\ \A q \in Procs \ {p} : pc'[q] = pc[q]
    BY <1>1 DEF Ensure, TypeOK, Locked
  <2>2. UNCHANGED <<disk, memory, batch, buf, history, world>> /\ Content' = Content /\ AsideIsEmpty'
    BY <1>1 DEF Ensure, Content, DiskInv, AsideIsEmpty
  <2> QED
    BY <2>1, <2>2, OutsideTheLock
<1>2. CASE CreateAside(p)
  <2>1. /\ pc'[p] \notin Locked
        /\ \A q \in Procs \ {p} : pc'[q] = pc[q]
    BY <1>2 DEF CreateAside, TypeOK, Locked
  <2>2. /\ UNCHANGED <<file, tmp, lock, stale, memory, batch, buf, history, world>>
        /\ Content' = Content /\ AsideIsEmpty'
    BY <1>2 DEF CreateAside, Content, AsideIsEmpty
  <2> QED
    BY <2>1, <2>2, OutsideTheLock
<1>3. CASE Place(p)
  <2>1. /\ pc'[p] \notin Locked
        /\ \A q \in Procs \ {p} : pc'[q] = pc[q]
    BY <1>3 DEF Place, TypeOK, Locked
  <2>2. /\ UNCHANGED <<tmp, lock, stale, memory, batch, buf, dropped, bookedOn, doubled, world>>
        /\ file' = EmptyDoc /\ AsideIsEmpty' /\ replaced' = (replaced \/ file # Absent)
    BY <1>3 DEF Place, DiskInv, AsideIsEmpty
  <2>3. Content' = Content \/ replaced'
    BY <2>2 DEF Content
  <2>4. replaced => replaced'
    BY <2>2
  <2> QED
    BY <2>1, <2>2, <2>3, <2>4, OutsideTheLock
<1>4. CASE Acquire(p)
  <2>1. /\ pc' = [pc EXCEPT ![p] = "reading"] /\ lock' = p
        /\ UNCHANGED <<file, tmp, tmpInit, memory, batch, buf, history, world>>
        /\ lock # Nobody => life[lock] = "down" \/ pc[lock] \notin Locked
    BY <1>4 DEF Acquire, LockIsFree, LeftBehind
  <2>2. \A q \in Procs : ~Down(q) => pc[q] \notin Locked
    BY <2>1, NobodyAssumption DEF DiskInv, LockIsHeld, Down
  <2>3. LockIsHeld'
    BY <2>1, <2>2 DEF LockIsHeld, Down, TypeOK
  <2>4. WritesAreCurrent'
    <3>1. \A q \in Procs : ~Down(q)' => pc'[q] \notin {"writing", "renaming"}
      BY <2>1, <2>2 DEF Down, TypeOK, Locked
    <3> QED
      BY <3>1 DEF WritesAreCurrent
  <2> QED
    BY <2>1, <2>3, <2>4 DEF DiskInv, AsideIsEmpty
<1>5. CASE Contended(p)
  <2>1. PutBack(p) /\ UNCHANGED <<disk, issued, buf, bookedOn, replaced, doubled, day, faults, deaths>>
    BY <1>5 DEF Contended
  <2>2. /\ pc'[p] \notin Locked
        /\ \A q \in Procs \ {p} : pc'[q] = pc[q] /\ life'[q] = life[q] /\ batch'[q] = batch[q]
    BY <2>1 DEF PutBack, Settled, TypeOK, Locked
  <2>3. Content' = Content /\ AsideIsEmpty'
    BY <2>1 DEF Content, DiskInv, AsideIsEmpty
  <2> QED
    BY <2>1, <2>2, <2>3, OutsideTheLock
<1>6. CASE Read(p)
  <2>1. /\ buf' = [buf EXCEPT ![p] = Planned(p)] /\ pc[p] = "reading"
        /\ pc' = [pc EXCEPT ![p] = "writing"] /\ UNCHANGED <<disk, memory, batch, history, world>>
    BY <1>6 DEF Read, Planned
  <2>2. lock = p
    BY <1>0, <2>1 DEF DiskInv, LockIsHeld, Locked
  <2>3. LockIsHeld'
    BY <2>1, <2>2 DEF DiskInv, LockIsHeld, Down, TypeOK
  <2>4. \A q \in Procs : Planned(q)' = Planned(q)
    BY <2>1 DEF Planned, Content, WithBatch
  <2>5. WritesAreCurrent'
    BY <2>1, <2>4 DEF DiskInv, WritesAreCurrent, Down, TypeOK
  <2> QED
    BY <2>1, <2>3, <2>5 DEF DiskInv, AsideIsEmpty
<1>7. CASE WriteAside(p)
  <2>1. /\ tmp' = buf[p] /\ pc[p] = "writing" /\ pc' = [pc EXCEPT ![p] = "renaming"]
        /\ UNCHANGED <<file, tmpInit, lock, stale, memory, batch, buf, history, world>>
    BY <1>7 DEF WriteAside
  <2>2. lock = p
    BY <1>0, <2>1 DEF DiskInv, LockIsHeld, Locked
  <2>3. LockIsHeld'
    BY <2>1, <2>2 DEF DiskInv, LockIsHeld, Down, TypeOK
  <2>4. \A q \in Procs : Planned(q)' = Planned(q)
    BY <2>1 DEF Planned, Content, WithBatch
  <2>5. \A q \in Procs \ {p} : ~Down(q) => pc[q] \notin Locked
    BY <2>2 DEF DiskInv, LockIsHeld
  <2>6. WritesAreCurrent'
    BY <1>0, <2>1, <2>4, <2>5 DEF DiskInv, WritesAreCurrent, Down, TypeOK, Locked
  <2> QED
    BY <2>1, <2>3, <2>6 DEF DiskInv, AsideIsEmpty
<1>8. CASE Rename(p)
  <2>1. /\ pc[p] = "renaming" /\ pc' = [pc EXCEPT ![p] = "releasing"]
        /\ UNCHANGED <<tmpInit, lock, stale, memory, buf, dropped, replaced, doubled, world>>
    BY <1>8 DEF Rename, Book
  <2>2. lock = p
    BY <1>0, <2>1 DEF DiskInv, LockIsHeld, Locked
  <2>3. LockIsHeld'
    BY <2>1, <2>2 DEF DiskInv, LockIsHeld, Down, TypeOK
  <2>4. \A q \in Procs \ {p} : ~Down(q) => pc[q] \notin Locked
    BY <2>2 DEF DiskInv, LockIsHeld
  <2>5. \A q \in Procs : ~Down(q)' => pc'[q] \notin {"writing", "renaming"}
    BY <2>1, <2>4 DEF Down, TypeOK, Locked
  <2>6. WritesAreCurrent'
    BY <2>5 DEF WritesAreCurrent
  <2> QED
    BY <2>1, <2>3, <2>6 DEF DiskInv, AsideIsEmpty
<1>9. CASE Release(p)
  <2>1. /\ pc'[p] \notin Locked /\ lock' = Unlocked(p)
        /\ \A q \in Procs \ {p} : pc'[q] = pc[q] /\ life'[q] = life[q] /\ buf'[q] = buf[q]
        /\ UNCHANGED <<file, tmp, tmpInit, batch, history>>
    BY <1>9 DEF Release, Settled, TypeOK, Locked
  <2>2. Content' = Content /\ AsideIsEmpty'
    BY <2>1 DEF Content, DiskInv, AsideIsEmpty
  <2> QED
    BY <2>1, <2>2, OutsideTheLock
<1>10. CASE Refused(p)
  <2>1. /\ PutBack(p) /\ UNCHANGED <<file, tmp, tmpInit, replaced>>
        /\ lock' = lock \/ lock' = Unlocked(p)
    BY <1>10 DEF Refused
  <2>2. /\ pc'[p] \notin Locked
        /\ \A q \in Procs \ {p} : pc'[q] = pc[q] /\ life'[q] = life[q] /\ batch'[q] = batch[q]
    BY <2>1 DEF PutBack, Settled, TypeOK, Locked
  <2>3. \A q \in Procs \ {p} : buf'[q] = buf[q]
    BY <1>10 DEF Refused, TypeOK
  <2>4. Content' = Content /\ AsideIsEmpty'
    BY <2>1 DEF Content, DiskInv, AsideIsEmpty
  <2> QED
    BY <2>1, <2>2, <2>3, <2>4, OutsideTheLock
<1>11. CASE ReadFails(p)
  <2>1. /\ pc[p] = "reading" /\ pc' = [pc EXCEPT ![p] = "writing"] /\ replaced' = TRUE
        /\ UNCHANGED <<disk, life>>
    BY <1>11 DEF ReadFails
  <2>2. LockIsHeld'
    BY <1>0, <2>1 DEF DiskInv, LockIsHeld, Down, TypeOK, Locked
  <2>3. WritesAreCurrent'
    BY <2>1 DEF WritesAreCurrent
  <2> QED
    BY <2>1, <2>2, <2>3 DEF DiskInv, AsideIsEmpty
<1>12. CASE ReleaseFails(p)
  <2>1. PutBack(p) /\ pc[p] = "renaming" /\ UNCHANGED <<tmpInit, lock, replaced>>
    BY <1>12 DEF ReleaseFails, Book
  <2>2. lock = p
    BY <1>0, <2>1 DEF DiskInv, LockIsHeld, Locked
  <2>3. /\ pc'[p] = "idle"
        /\ \A q \in Procs \ {p} : pc'[q] = pc[q] /\ life'[q] = life[q]
    BY <2>1 DEF PutBack, Settled, TypeOK
  <2>4. \A q \in Procs : ~Down(q)' => pc'[q] \notin Locked
    BY <2>2, <2>3 DEF DiskInv, LockIsHeld, Down, Locked
  <2>5. LockIsHeld' /\ WritesAreCurrent'
    BY <2>4 DEF LockIsHeld, WritesAreCurrent, Locked
  <2> QED
    BY <2>1, <2>5 DEF DiskInv, AsideIsEmpty
<1> QED
  BY <1>1, <1>2, <1>3, <1>4, <1>5, <1>6, <1>7, <1>8, <1>9, <1>10, <1>11, <1>12 DEF FlushStep
-----------------------------------------------------------------------------
(* The records.                                                             *)

\* What a process has and the file has not.
Held(p) == Elements(batch[p].records) \cup Elements(pending[p])

\* A process holds records of its own, each once, which were made and not dropped.
HeldOnce ==
  /\ \A p \in Procs :
       /\ Injective(batch[p].records) /\ Injective(pending[p])
       /\ Elements(batch[p].records) \cap Elements(pending[p]) = {}
       /\ \A r \in Held(p) : r[1] = p /\ Issued(r) /\ r \notin dropped
  /\ \A r \in dropped : Issued(r)
\* A batch exists between the start of a flush and the rename, and is not of the future.
BatchesAreUnderway ==
  \A p \in Procs : /\ pc[p] \in {"idle", "releasing"} => batch[p] = Nothing
                  /\ batch[p].day <= day
\* A record that was made, and is neither held nor dropped.
Gone(r) == Issued(r) /\ r \notin Held(r[1]) /\ r \notin dropped
\* The file has counted, once, what is gone.
BookedOnce ==
  ~replaced => \A r \in Records \ doubled : Booked(r) = IF Gone(r) THEN 1 ELSE 0
\* A record is under the day it was booked, and stays there while a window reaches back.
Dated(r) ==
  /\ \A d \in Days : r \in Content.days[d] => Booked(r) = 1 /\ d = bookedOn[r]
  /\ Booked(r) > 0 => bookedOn[r] \in Days
  /\ Booked(r) > 0 /\ bookedOn[r] + DayWindow > day => r \in Content.days[bookedOn[r]]
DatedOnce == ~replaced => \A r \in Records \ doubled : Dated(r)

RecordInv == HeldOnce /\ BatchesAreUnderway /\ BookedOnce /\ DatedOnce

IInv == TypeOK /\ DiskInv /\ RecordInv

\* What is held are records.
LEMMA HeldAreRecords ==
  ASSUME TypeOK, NEW p \in Procs
  PROVE  Elements(batch[p].records) \subseteq Records /\ Elements(pending[p]) \subseteq Records
<1>1. batch[p].records \in Seq(Records) /\ pending[p] \in Seq(Records)
  BY DEF TypeOK
<1> QED
  BY <1>1, LenProperties, ElementOfSeq DEF Elements

\* A record's process and number.
LEMMA RecordParts ==
  ASSUME NEW r \in Records
  PROVE  r = <<r[1], r[2]>> /\ r[1] \in Procs /\ r[2] \in 1..PerProcess
BY DEF Records

\* Records move between a process's backlog and its batch, fresh ones come, the cap drops
\* some: what is held stays held once, and no other record is gone.
LEMMA MovingKeepsHeld ==
  ASSUME TypeOK, HeldOnce, NEW p \in Procs,
         NEW fresh \in SUBSET Records, NEW gone,
         \A r \in fresh : r[1] = p /\ ~Issued(r),
         \A r \in Records : Issued(r)' <=> Issued(r) \/ r \in fresh,
         \A q \in Procs \ {p} : batch'[q] = batch[q] /\ pending'[q] = pending[q],
         Injective(batch'[p].records), Injective(pending'[p]),
         Elements(batch'[p].records) \cap Elements(pending'[p]) = {},
         Held(p)' = (Held(p) \cup fresh) \ gone, gone \subseteq Held(p) \cup fresh,
         dropped' = dropped \cup gone
  PROVE  HeldOnce' /\ \A r \in Records : Gone(r)' <=> Gone(r)
<1>1. \A q \in Procs \ {p} : Held(q)' = Held(q)
  BY DEF Held
<1>2. \A q \in Procs : Held(q) \subseteq Records
  BY HeldAreRecords DEF Held
<1>3. \A q \in Procs \ {p} : Held(q) \cap gone = {} /\ Held(q) \cap fresh = {}
  BY DEF HeldOnce
<1>4. dropped \subseteq Records /\ gone \subseteq Records
  BY <1>2 DEF TypeOK
<1>5. dropped \cap fresh = {}
  BY DEF HeldOnce
<1>6. HeldOnce'
  <2>1. ASSUME NEW q \in Procs
        PROVE  /\ Injective(batch'[q].records) /\ Injective(pending'[q])
               /\ Elements(batch'[q].records) \cap Elements(pending'[q]) = {}
    BY DEF HeldOnce
  <2>2. ASSUME NEW q \in Procs, NEW r \in Held(q)'
        PROVE  r[1] = q /\ Issued(r)' /\ r \notin dropped'
    <3>1. CASE q = p
      BY <1>2, <1>5, <2>2, <3>1 DEF HeldOnce
    <3>2. CASE q # p
      BY <1>1, <1>2, <1>3, <2>2, <3>2 DEF HeldOnce
    <3> QED
      BY <3>1, <3>2
  <2>3. \A r \in dropped' : Issued(r)'
    BY <1>4 DEF HeldOnce
  <2> QED
    BY <2>1, <2>2, <2>3 DEF HeldOnce
<1>7. ASSUME NEW r \in Records PROVE Gone(r)' <=> Gone(r)
  <2> SUFFICES (Issued(r) /\ r \notin Held(r[1]) /\ r \notin dropped)
                 <=> (Issued(r)' /\ r \notin Held(r[1])' /\ r \notin dropped')
    BY DEF Gone
  <2>1. CASE r[1] = p
    <3>1. Held(r[1])' = (Held(r[1]) \cup fresh) \ gone /\ (r \in gone => r \in Held(r[1]) \cup fresh)
      BY <2>1
    <3> QED
      BY <3>1
  <2>2. CASE r[1] # p
    <3>1. r[1] \in Procs /\ Held(r[1])' = Held(r[1]) /\ r \notin fresh
      BY <1>1, <2>2, RecordParts
    <3>2. r \notin gone
      BY <2>2 DEF HeldOnce
    <3> QED
      BY <3>1, <3>2
  <2> QED
    BY <2>1, <2>2
<1> QED
  BY <1>6, <1>7

\* What the file says of the records stays true while the file stays as it is.
LEMMA FileKeepsRecords ==
  ASSUME BookedOnce, DatedOnce, \A r \in Records : Gone(r)' <=> Gone(r),
         Content' = Content, bookedOn' = bookedOn, replaced' = replaced, doubled' = doubled,
         day' = day
  PROVE  BookedOnce' /\ DatedOnce'
<1>1. \A r \in Records : Booked(r)' = Booked(r)
  BY DEF Booked
<1>2. BookedOnce'
  BY <1>1 DEF BookedOnce
<1>3. DatedOnce'
  BY <1>1 DEF DatedOnce, Dated
<1> QED
  BY <1>2, <1>3

\* Steps that leave the records where they are.
LEMMA StillRecords ==
  ASSUME RecordInv, UNCHANGED <<issued, pending, batch, dropped, bookedOn, doubled, day>>,
         replaced => replaced', Content' = Content \/ replaced',
         \A q \in Procs : pc'[q] \in {"idle", "releasing"} => pc[q] \in {"idle", "releasing"}
  PROVE  RecordInv'
<1>1. HeldOnce'
  BY DEF RecordInv, HeldOnce, Held, Issued
<1>2. BatchesAreUnderway'
  BY DEF RecordInv, BatchesAreUnderway
<1>3. BookedOnce'
  <2> SUFFICES ASSUME ~replaced', NEW r \in Records \ doubled
               PROVE  Booked(r)' = IF Gone(r)' THEN 1 ELSE 0
    BY DEF BookedOnce
  <2>1. Booked(r)' = Booked(r) /\ (Gone(r)' <=> Gone(r))
    BY DEF Booked, Gone, Issued, Held
  <2> QED
    BY <2>1 DEF RecordInv, BookedOnce
<1>4. DatedOnce'
  BY DEF RecordInv, DatedOnce, Dated, Booked
<1> QED
  BY <1>1, <1>2, <1>3, <1>4 DEF RecordInv

\* A flush that begins moves the backlog, empty or not, into the batch.
LEMMA BeginFlushRecords ==
  ASSUME TypeOK, RecordInv, NEW p \in Procs, pc[p] = "idle", BeginFlush(p, pending[p]),
         UNCHANGED <<issued, dropped, bookedOn, replaced, doubled, day>>, file' = file
  PROVE  RecordInv'
<1>0. Content' = Content
  BY DEF Content
<1>1. CASE pending[p] = <<>>
  <2>1. UNCHANGED <<pending, pc, batch>>
    BY <1>1 DEF BeginFlush
  <2> QED
    BY <1>0, <2>1, StillRecords
<1>2. CASE pending[p] # <<>>
  <2>1. /\ pending' = [pending EXCEPT ![p] = <<>>]
        /\ batch' = [batch EXCEPT ![p] = [records |-> pending[p], day |-> day]]
        /\ pc' = [pc EXCEPT ![p] = "ensuring"]
    BY <1>2 DEF BeginFlush, Goto
  <2>2. /\ pending'[p] = <<>> /\ batch'[p].records = pending[p] /\ batch'[p].day = day
        /\ \A q \in Procs \ {p} : batch'[q] = batch[q] /\ pending'[q] = pending[q]
    BY <2>1 DEF TypeOK
  <2>3. Elements(batch[p].records) = {}
    BY NothingInEmpty DEF RecordInv, BatchesAreUnderway, Nothing
  <2>4. Held(p)' = Held(p)
    BY <2>2, <2>3, NothingInEmpty DEF Held
  <2>5. HeldOnce' /\ BookedOnce' /\ DatedOnce'
    <3>1. /\ Injective(batch'[p].records) /\ Injective(pending'[p])
          /\ Elements(batch'[p].records) \cap Elements(pending'[p]) = {}
      BY <2>2, NothingInEmpty DEF RecordInv, HeldOnce
    <3>2. \A r \in Records : Issued(r)' <=> Issued(r) \/ r \in {}
      BY DEF Issued
    <3>3. Held(p)' = (Held(p) \cup {}) \ {} /\ dropped' = dropped \cup {}
      BY <2>4
    <3> QED
      BY <1>0, <2>2, <3>1, <3>2, <3>3, MovingKeepsHeld, FileKeepsRecords DEF RecordInv
  <2>6. BatchesAreUnderway'
    <3>1. day <= day
      BY WindowAssumption DEF TypeOK, Days
    <3> QED
      BY <2>1, <2>2, <3>1 DEF RecordInv, BatchesAreUnderway, TypeOK
  <2> QED
    BY <2>5, <2>6 DEF RecordInv
<1> QED
  BY <1>1, <1>2

\* A flush that fails moves its batch back in front of the backlog, up to the cap.
LEMMA PutBackHeld ==
  ASSUME TypeOK, RecordInv, NEW p \in Procs, PutBack(p), UNCHANGED <<issued, day>>
  PROVE  HeldOnce' /\ BatchesAreUnderway' /\ \A r \in Records : Gone(r)' <=> Gone(r)
<1> DEFINE all == batch[p].records \o pending[p]
<1>1. /\ batch[p].records \in Seq(Records) /\ pending[p] \in Seq(Records)
      /\ Injective(batch[p].records) /\ Injective(pending[p])
      /\ Elements(batch[p].records) \cap Elements(pending[p]) = {}
  BY DEF TypeOK, RecordInv, HeldOnce
<1>2. all \in Seq(Records) /\ Injective(all) /\ Elements(all) = Held(p)
  BY <1>1, ConcatElements DEF Held
<1>3. /\ Injective(Newest(all)) /\ Oldest(all) \subseteq Held(p)
      /\ Elements(Newest(all)) = Held(p) \ Oldest(all)
  BY <1>2, CapSplits
<1>4. /\ pending' = [pending EXCEPT ![p] = Newest(all)] /\ dropped' = dropped \cup Oldest(all)
      /\ batch' = [batch EXCEPT ![p] = Nothing] /\ pc' = [pc EXCEPT ![p] = "idle"]
  BY DEF PutBack, Goto
<1> HIDE DEF all
<1>5. /\ pending'[p] = Newest(all) /\ batch'[p].records = <<>> /\ batch'[p] = Nothing
      /\ \A q \in Procs \ {p} : batch'[q] = batch[q] /\ pending'[q] = pending[q]
  BY <1>4 DEF TypeOK, Nothing
<1>6. Held(p)' = Held(p) \ Oldest(all)
  BY <1>3, <1>5, NothingInEmpty DEF Held
<1>7. HeldOnce' /\ \A r \in Records : Gone(r)' <=> Gone(r)
  <2>1. /\ Injective(batch'[p].records) /\ Injective(pending'[p])
        /\ Elements(batch'[p].records) \cap Elements(pending'[p]) = {}
    BY <1>3, <1>5, NothingInEmpty
  <2>2. \A r \in Records : Issued(r)' <=> Issued(r) \/ r \in {}
    BY DEF Issued
  <2>3. Held(p)' = (Held(p) \cup {}) \ Oldest(all) /\ Oldest(all) \subseteq Held(p) \cup {}
        /\ dropped' = dropped \cup Oldest(all)
    BY <1>3, <1>4, <1>6
  <2> QED
    BY <1>5, <2>1, <2>2, <2>3, MovingKeepsHeld DEF RecordInv
<1>8. BatchesAreUnderway'
  <2>1. Nothing.day <= day
    BY WindowAssumption DEF TypeOK, Days, Nothing
  <2> QED
    BY <1>4, <1>5, <2>1 DEF RecordInv, BatchesAreUnderway, TypeOK
<1> QED
  BY <1>7, <1>8

\* A flush that fails before its rename leaves the file as it is.
LEMMA PutBackRecords ==
  ASSUME TypeOK, RecordInv, NEW p \in Procs, PutBack(p),
         UNCHANGED <<issued, bookedOn, replaced, doubled, day>>, file' = file
  PROVE  RecordInv'
<1>1. Content' = Content
  BY DEF Content
<1> QED
  BY <1>1, PutBackHeld, FileKeepsRecords DEF RecordInv

\* A new record goes behind the backlog; the cap may drop the oldest, and a full backlog
\* becomes a batch.
LEMMA RecordRecords ==
  ASSUME TypeOK, RecordInv, NEW p \in Procs, Record(p)
  PROVE  RecordInv'
<1> DEFINE new == <<p, issued'[p]>>
           all == Append(pending[p], new)
           backlog == Newest(all)
<1>1. /\ pc[p] = "idle" /\ issued[p] < PerProcess /\ issued' = [issued EXCEPT ![p] = @ + 1]
      /\ dropped' = dropped \cup Oldest(all)
      /\ \/ BeginFlush(p, backlog) /\ Len(backlog) >= FlushEvery
         \/ /\ pending' = [pending EXCEPT ![p] = backlog]
            /\ UNCHANGED <<pc, batch>>
      /\ UNCHANGED <<file, bookedOn, replaced, doubled, day>>
  BY DEF Record, IsFree, disk, world
<1>2. issued[p] \in 0..PerProcess /\ issued'[p] = issued[p] + 1 /\ PerProcess \in Nat
  BY <1>1, BacklogAssumption DEF TypeOK
<1>3. new \in Records /\ new[1] = p /\ new[2] = issued[p] + 1
  BY <1>1, <1>2 DEF Records
<1>4. ~Issued(new)
  BY <1>2, <1>3 DEF Issued
<1>5. \A r \in Records : Issued(r)' <=> Issued(r) \/ r \in {new}
  <2> TAKE r \in Records
  <2>1. r = <<r[1], r[2]>> /\ r[1] \in Procs /\ r[2] \in 1..PerProcess
    BY RecordParts
  <2>2. CASE r[1] = p
    <3>1. issued'[r[1]] = issued[r[1]] + 1 /\ (r = new <=> r[2] = issued[p] + 1)
      BY <1>2, <2>1, <2>2
    <3> QED
      BY <1>2, <2>1, <2>2, <3>1 DEF Issued
  <2>3. CASE r[1] # p
    <3>1. issued'[r[1]] = issued[r[1]] /\ r # new
      BY <1>1, <1>3, <2>1, <2>3 DEF TypeOK
    <3> QED
      BY <3>1 DEF Issued
  <2> QED
    BY <2>2, <2>3
<1>6. /\ pending[p] \in Seq(Records) /\ Injective(pending[p]) /\ new \notin Elements(pending[p])
      /\ Elements(batch[p].records) = {} /\ batch[p] = Nothing
  BY <1>1, <1>4, NothingInEmpty DEF TypeOK, RecordInv, HeldOnce, Held, BatchesAreUnderway, Nothing
<1>7. /\ all \in Seq(Records) /\ Injective(all)
      /\ Elements(all) = Elements(pending[p]) \cup {new}
  BY <1>3, <1>6, AppendElements
<1>8. Held(p) = Elements(pending[p])
  BY <1>6 DEF Held
<1> HIDE DEF all, new
<1>9. /\ backlog \in Seq(Records) /\ Injective(backlog) /\ Oldest(all) \subseteq Held(p) \cup {new}
      /\ Elements(backlog) = (Held(p) \cup {new}) \ Oldest(all)
  BY <1>7, <1>8, CapSplits
<1> HIDE DEF backlog
<1>10. \/ /\ pending' = [pending EXCEPT ![p] = <<>>]
          /\ batch' = [batch EXCEPT ![p] = [records |-> backlog, day |-> day]]
          /\ pc' = [pc EXCEPT ![p] = "ensuring"]
       \/ /\ pending' = [pending EXCEPT ![p] = backlog]
          /\ UNCHANGED <<pc, batch>>
  <2>1. ASSUME Len(backlog) >= FlushEvery PROVE backlog # <<>>
    BY <2>1, NothingInEmpty, BacklogAssumption
  <2> QED
    BY <1>1, <2>1 DEF BeginFlush, Goto
<1>11. /\ \A q \in Procs \ {p} : batch'[q] = batch[q] /\ pending'[q] = pending[q]
       /\ Injective(batch'[p].records) /\ Injective(pending'[p])
       /\ Elements(batch'[p].records) \cap Elements(pending'[p]) = {}
       /\ Held(p)' = (Held(p) \cup {new}) \ Oldest(all)
  <2>1. CASE /\ pending' = [pending EXCEPT ![p] = <<>>]
             /\ batch' = [batch EXCEPT ![p] = [records |-> backlog, day |-> day]]
    <3>1. /\ pending'[p] = <<>> /\ batch'[p].records = backlog
          /\ \A q \in Procs \ {p} : batch'[q] = batch[q] /\ pending'[q] = pending[q]
      BY <2>1 DEF TypeOK
    <3> QED
      BY <1>9, <3>1, NothingInEmpty DEF Held
  <2>2. CASE pending' = [pending EXCEPT ![p] = backlog] /\ UNCHANGED batch
    <3>1. /\ pending'[p] = backlog /\ batch'[p] = batch[p]
          /\ \A q \in Procs \ {p} : batch'[q] = batch[q] /\ pending'[q] = pending[q]
      BY <2>2 DEF TypeOK
    <3> QED
      BY <1>6, <1>9, <3>1, NothingInEmpty DEF Held, Nothing
  <2> QED
    BY <1>10, <2>1, <2>2
<1>12. HeldOnce' /\ BookedOnce' /\ DatedOnce'
  <2>1. {new} \in SUBSET Records /\ \A r \in {new} : r[1] = p /\ ~Issued(r)
    BY <1>3, <1>4
  <2>2. Content' = Content
    BY <1>1 DEF Content
  <2> QED
    BY <1>1, <1>5, <1>9, <1>11, <2>1, <2>2, MovingKeepsHeld, FileKeepsRecords DEF RecordInv
<1>13. BatchesAreUnderway'
  <2>1. day <= day
    BY WindowAssumption DEF TypeOK, Days
  <2> QED
    BY <1>1, <1>10, <2>1 DEF RecordInv, BatchesAreUnderway, TypeOK
<1> QED
  BY <1>12, <1>13 DEF RecordInv

\* The rename books the batch: each of its records is counted once more, under the day
\* of the batch, and no other one is.
LEMMA BookedRecords ==
  ASSUME TypeOK, DiskInv, RecordInv, NEW p \in Procs, ~Down(p), Book(p),
         day' = day, ~replaced, NEW r \in Records \ doubled
  PROVE  /\ r \in Elements(batch[p].records) => Booked(r)' = 1
         /\ r \notin Elements(batch[p].records) => Booked(r)' = Booked(r)
         /\ Dated(r)'
<1> DEFINE b == batch[p].records
           now == batch[p].day
<1>1. /\ pc[p] = "renaming" /\ file' = tmp
      /\ bookedOn' = [s \in Records |-> IF Times(b, s) > 0 THEN now ELSE bookedOn[s]]
  BY DEF Book
<1>2. /\ b \in Seq(Records) /\ now \in Days /\ day \in Days
      /\ now <= day /\ Injective(b) /\ Elements(b) \subseteq Held(p)
  BY DEF TypeOK, RecordInv, BatchesAreUnderway, HeldOnce, Held
<1>3. \A s : Times(b, s) = IF s \in Elements(b) THEN 1 ELSE 0
  BY <1>2, TimesInInjective
<1>4. /\ Content' = Planned(p)
      /\ Booked(r)' = Booked(r) + Times(b, r)
      /\ \A d \in Days : Content'.days[d] =
           IF ~IsRetained(d, now) THEN {}
           ELSE IF d = now THEN Content.days[d] \cup Elements(b) ELSE Content.days[d]
  <2>1. tmp = Planned(p)
    BY <1>1 DEF DiskInv, WritesAreCurrent
  <2>2. Planned(p) # Absent
    BY DocTypes, AbsentAssumption DEF Planned
  <2>3. Content' = Planned(p)
    BY <1>1, <2>1, <2>2 DEF Content
  <2>4. Planned(p) =
          [totals |-> [s \in Records |-> Content.totals[s] + Times(b, s)],
           days   |-> [d \in Days |->
                         IF ~IsRetained(d, now) THEN {}
                         ELSE IF d = now THEN Content.days[d] \cup Elements(b) ELSE Content.days[d]]]
    BY DEF Planned, WithBatch, Elements
  <2> HIDE DEF b, now
  <2> QED
    BY <2>3, <2>4 DEF Booked
<1> HIDE DEF b, now
<1>5. r \in Elements(b) => r[1] = p /\ Issued(r) /\ r \notin dropped
  BY <1>2 DEF RecordInv, HeldOnce
<1>6. /\ Booked(r) \in {0, 1}
      /\ r \in Elements(b) => Booked(r) = 0 /\ Booked(r)' = 1
      /\ r \notin Elements(b) => Booked(r)' = Booked(r)
  <2>1. Booked(r) \in {0, 1}
    BY DEF RecordInv, BookedOnce
  <2>2. r \in Elements(b) => Booked(r) = 0
    BY <1>2, <1>5 DEF RecordInv, BookedOnce, Gone
  <2>3. Booked(r)' = Booked(r) + IF r \in Elements(b) THEN 1 ELSE 0
    BY <1>3, <1>4
  <2> QED
    BY <2>1, <2>2, <2>3
<1>7. Dated(r)'
  <2> SUFFICES /\ \A d \in Days : r \in Content'.days[d] => Booked(r)' = 1 /\ d = bookedOn'[r]
               /\ Booked(r)' > 0 => bookedOn'[r] \in Days
               /\ Booked(r)' > 0 /\ bookedOn'[r] + DayWindow > day
                    => r \in Content'.days[bookedOn'[r]]
    BY DEF Dated
  <2>1. bookedOn'[r] = IF r \in Elements(b) THEN now ELSE bookedOn[r]
    BY <1>1, <1>3
  <2>2. \A d \in Days : d \in Nat
    BY WindowAssumption DEF Days
  <2>3. now \in Nat /\ day \in Nat /\ DayWindow \in Nat
    BY <1>2, <2>2, WindowAssumption
  <2>4. ASSUME NEW d \in Days PROVE r \in Content.days[d] => Booked(r) = 1 /\ d = bookedOn[r]
    BY DEF RecordInv, DatedOnce, Dated
  <2>5. CASE r \in Elements(b)
    <3>1. Booked(r) = 0 /\ Booked(r)' = 1 /\ bookedOn'[r] = now
      BY <1>6, <2>1, <2>5
    <3>2. IsRetained(now, now)
      BY <2>3 DEF IsRetained
    <3>3. r \in Content'.days[now]
      BY <1>2, <1>4, <2>5, <3>2
    <3>4. \A d \in Days : r \in Content'.days[d] => d = now
      <4> SUFFICES ASSUME NEW d \in Days, d # now PROVE r \notin Content'.days[d]
        OBVIOUS
      <4>1. Booked(r) # 1
        BY <3>1
      <4>2. r \notin Content.days[d]
        BY <2>4, <4>1
      <4>3. Content'.days[d] \in {{}, Content.days[d]}
        BY <1>4
      <4> QED
        BY <4>2, <4>3
    <3> QED
      BY <1>2, <3>1, <3>3, <3>4
  <2>6. CASE r \notin Elements(b)
    <3>1. Booked(r)' = Booked(r) /\ bookedOn'[r] = bookedOn[r]
      BY <1>6, <2>1, <2>6
    <3>2. \A d \in Days : r \in Content'.days[d] => r \in Content.days[d]
      BY <1>4, <2>6
    <3>3. Booked(r) > 0 => bookedOn[r] \in Days
      BY DEF RecordInv, DatedOnce, Dated
    <3>4. ASSUME Booked(r) > 0, bookedOn[r] + DayWindow > day
          PROVE  r \in Content'.days[bookedOn[r]]
      <4>1. bookedOn[r] \in Days /\ r \in Content.days[bookedOn[r]]
        BY <3>4 DEF RecordInv, DatedOnce, Dated
      <4>2. bookedOn[r] \in Nat
        BY <2>2, <4>1
      <4>3. bookedOn[r] + DayWindow >= now
        BY <1>2, <2>3, <3>4, <4>2
      <4>4. IsRetained(bookedOn[r], now)
        BY <4>3 DEF IsRetained
      <4> QED
        BY <1>4, <4>1, <4>4
    <3> QED
      BY <2>4, <3>1, <3>2, <3>3, <3>4
  <2> QED
    BY <2>5, <2>6
<1> QED
  BY <1>6, <1>7 DEF b

\* The rename: the batch is in the file, and no longer with the process.
LEMMA RenameRecords ==
  ASSUME TypeOK, DiskInv, RecordInv, NEW p \in Procs, ~Down(p), Rename(p)
  PROVE  RecordInv'
<1> DEFINE b == batch[p].records
<1>1. /\ Book(p) /\ batch' = [batch EXCEPT ![p] = Nothing]
      /\ pc' = [pc EXCEPT ![p] = "releasing"]
      /\ UNCHANGED <<issued, pending, dropped, replaced, doubled, day>>
  BY DEF Rename, Goto, memory, world
<1>2. Elements(b) \subseteq Held(p)
  BY DEF Held
<1>3. /\ batch'[p] = Nothing /\ Elements(batch'[p].records) = {} /\ Injective(batch'[p].records)
      /\ \A q \in Procs \ {p} : batch'[q] = batch[q]
  BY <1>1, NothingInEmpty DEF TypeOK, Nothing
<1>4. /\ Held(p)' = Held(p) \ Elements(b)
      /\ \A q \in Procs \ {p} : Held(q)' = Held(q)
  BY <1>1, <1>3 DEF Held, RecordInv, HeldOnce
<1>5. HeldOnce'
  <2>1. \A r : Issued(r)' <=> Issued(r)
    BY <1>1 DEF Issued
  <2>2. \A q \in Procs : Held(q)' \subseteq Held(q)
    BY <1>4
  <2>3. ASSUME NEW q \in Procs
        PROVE  /\ Injective(batch'[q].records) /\ Injective(pending'[q])
               /\ Elements(batch'[q].records) \cap Elements(pending'[q]) = {}
               /\ \A r \in Held(q)' : r[1] = q /\ Issued(r)' /\ r \notin dropped'
    BY <1>1, <1>3, <2>1, <2>2 DEF RecordInv, HeldOnce
  <2> QED
    BY <1>1, <2>1, <2>3 DEF RecordInv, HeldOnce
<1>6. BatchesAreUnderway'
  <2>1. Nothing.day <= day
    BY WindowAssumption DEF TypeOK, Days, Nothing
  <2> QED
    BY <1>1, <1>3, <2>1 DEF RecordInv, BatchesAreUnderway, TypeOK
<1>7. \A r \in Elements(b) : r \in Records /\ r[1] = p /\ Issued(r) /\ r \notin dropped
  BY <1>2, HeldAreRecords DEF RecordInv, HeldOnce
<1> HIDE DEF b
<1>8. ASSUME ~replaced, NEW r \in Records \ doubled
      PROVE  Booked(r)' = (IF Gone(r)' THEN 1 ELSE 0) /\ Dated(r)'
  <2>1. /\ r \in Elements(b) => Booked(r)' = 1
        /\ r \notin Elements(b) => Booked(r)' = Booked(r)
        /\ Dated(r)'
    BY <1>1, <1>8, BookedRecords DEF b
  <2>2. Issued(r)' <=> Issued(r)
    BY <1>1 DEF Issued
  <2>3. CASE r \in Elements(b)
    <3>1. Gone(r)'
      BY <1>1, <1>4, <1>7, <2>2, <2>3 DEF Gone
    <3> QED
      BY <2>1, <2>3, <3>1
  <2>4. CASE r \notin Elements(b)
    <3>1. r \in Held(r[1])' <=> r \in Held(r[1])
      BY <1>4, <2>4, RecordParts
    <3>2. Gone(r)' <=> Gone(r)
      BY <1>1, <2>2, <3>1 DEF Gone
    <3>3. Booked(r) = IF Gone(r) THEN 1 ELSE 0
      BY <1>8 DEF RecordInv, BookedOnce
    <3> QED
      BY <2>1, <2>4, <3>2, <3>3
  <2> QED
    BY <2>3, <2>4, <2>1
<1>9. BookedOnce' /\ DatedOnce'
  BY <1>1, <1>8 DEF BookedOnce, DatedOnce
<1> QED
  BY <1>5, <1>6, <1>9 DEF RecordInv

\* The rename with a release that fails: the batch is in the file and goes back as well;
\* the records of no other batch are counted or moved.
LEMMA ReleaseFailsRecords ==
  ASSUME TypeOK, DiskInv, RecordInv, NEW p \in Procs, ~Down(p), ReleaseFails(p)
  PROVE  RecordInv'
<1>1. /\ Book(p) /\ PutBack(p) /\ UNCHANGED <<issued, replaced, day>>
      /\ doubled' = doubled \cup Elements(batch[p].records)
  BY DEF ReleaseFails, Elements
<1>2. HeldOnce' /\ BatchesAreUnderway' /\ \A r \in Records : Gone(r)' <=> Gone(r)
  BY <1>1, PutBackHeld
<1>3. ASSUME ~replaced, NEW r \in Records \ doubled, r \notin Elements(batch[p].records)
      PROVE  Booked(r)' = (IF Gone(r)' THEN 1 ELSE 0) /\ Dated(r)'
  <2>1. Booked(r)' = Booked(r) /\ Dated(r)'
    BY <1>1, <1>3, BookedRecords
  <2>2. Booked(r) = IF Gone(r) THEN 1 ELSE 0
    BY <1>3 DEF RecordInv, BookedOnce
  <2> QED
    BY <1>2, <2>1, <2>2
<1>4. BookedOnce' /\ DatedOnce'
  BY <1>1, <1>3 DEF BookedOnce, DatedOnce
<1> QED
  BY <1>2, <1>4 DEF RecordInv

\* The steps of a flush: only the rename and a failure move records.
LEMMA FlushStepRecords ==
  ASSUME TypeOK, DiskInv, RecordInv, NEW p \in Procs, FlushStep(p)
  PROVE  RecordInv'
<1> USE DEF Goto, disk, memory, flushing, history, world
<1>0. ~Down(p)
  BY DEF FlushStep, Down
<1> DEFINE Still == /\ UNCHANGED <<issued, pending, batch, dropped, bookedOn, doubled, day>>
                    /\ replaced => replaced'
                    /\ Content' = Content \/ replaced'
                    /\ \A q \in Procs : pc'[q] \in {"idle", "releasing"} => pc[q] \in {"idle", "releasing"}
<1>1. Still => RecordInv'
  BY StillRecords
<1>2. CASE Ensure(p)
  <2>1. Still
    BY <1>2 DEF Ensure, Content, TypeOK
  <2> QED
    BY <1>1, <2>1
<1>3. CASE CreateAside(p)
  <2>1. Still
    BY <1>3 DEF CreateAside, Content, TypeOK
  <2> QED
    BY <1>1, <2>1
<1>4. CASE Place(p)
  <2>1. file' = EmptyDoc
    BY <1>4 DEF Place, DiskInv, AsideIsEmpty
  <2>2. Still
    BY <1>4, <2>1 DEF Place, Content, TypeOK
  <2> QED
    BY <1>1, <2>2
<1>5. CASE Acquire(p)
  <2>1. Still
    BY <1>5 DEF Acquire, Content, TypeOK
  <2> QED
    BY <1>1, <2>1
<1>6. CASE Contended(p)
  BY <1>6, PutBackRecords DEF Contended
<1>7. CASE Read(p)
  <2>1. Still
    BY <1>7 DEF Read, Content, TypeOK
  <2> QED
    BY <1>1, <2>1
<1>8. CASE WriteAside(p)
  <2>1. Still
    BY <1>8 DEF WriteAside, Content, TypeOK
  <2> QED
    BY <1>1, <2>1
<1>9. CASE Rename(p)
  BY <1>0, <1>9, RenameRecords
<1>10. CASE Release(p)
  <2>1. Still
    BY <1>10 DEF Release, Content, TypeOK
  <2> QED
    BY <1>1, <2>1
<1>11. CASE Refused(p)
  BY <1>11, PutBackRecords DEF Refused
<1>12. CASE ReadFails(p)
  <2>1. Still
    BY <1>12 DEF ReadFails, TypeOK
  <2> QED
    BY <1>1, <2>1
<1>13. CASE ReleaseFails(p)
  BY <1>0, <1>13, ReleaseFailsRecords
<1> QED
  BY <1>2, <1>3, <1>4, <1>5, <1>6, <1>7, <1>8, <1>9, <1>10, <1>11, <1>12, <1>13 DEF FlushStep

-----------------------------------------------------------------------------
(* The inductive invariant and the theorems.                                *)

\* Nothing is made, held or booked at the start.
LEMMA InitIInv == Init => IInv
<1> SUFFICES ASSUME Init PROVE IInv
  OBVIOUS
<1>1. TypeOK
  BY InitType
<1>2. DiskInv
  BY DEF Init, DiskInv, AsideIsEmpty, LockIsHeld, WritesAreCurrent, Locked
<1>3. /\ \A p \in Procs : batch[p] = Nothing /\ batch[p].records = <<>> /\ pending[p] = <<>>
      /\ \A p \in Procs : Held(p) = {}
      /\ Content = EmptyDoc /\ \A r \in Records : ~Issued(r) /\ Booked(r) = 0
  <2>1. \A p \in Procs : batch[p] = Nothing /\ batch[p].records = <<>> /\ pending[p] = <<>>
    BY DEF Init, Nothing
  <2>2. Content = EmptyDoc
    BY DEF Init, Content
  <2>3. ASSUME NEW r \in Records PROVE ~Issued(r)
    <3>1. r[1] \in Procs /\ r[2] \in 1..PerProcess
      BY RecordParts
    <3>2. issued[r[1]] = 0
      BY <3>1 DEF Init
    <3> QED
      BY <3>1, <3>2, BacklogAssumption DEF Issued
  <2>4. \A r \in Records : Booked(r) = 0
    BY <2>2 DEF Booked, EmptyDoc
  <2> QED
    BY <2>1, <2>2, <2>3, <2>4, NothingInEmpty DEF Held
<1>4. HeldOnce
  BY <1>3, NothingInEmpty DEF HeldOnce, Init
<1>5. BatchesAreUnderway
  BY <1>3 DEF BatchesAreUnderway, Init, Nothing
<1>6. BookedOnce
  BY <1>3 DEF BookedOnce, Gone
<1>7. DatedOnce
  BY <1>3 DEF DatedOnce, Dated, EmptyDoc
<1> QED
  BY <1>1, <1>2, <1>4, <1>5, <1>6, <1>7 DEF IInv, RecordInv

\* Every step keeps the invariant.
LEMMA NextIInv ==
  ASSUME IInv, [Next]_vars
  PROVE  IInv'
<1> USE DEF disk, memory, flushing, history, world
<1>0. TypeOK' /\ TypeOK /\ DiskInv /\ RecordInv
  BY NextType DEF IInv
<1>1. ASSUME NEW p \in Procs, Record(p) PROVE DiskInv' /\ RecordInv'
  <2>1. RecordInv'
    BY <1>0, <1>1, RecordRecords
  <2>2. /\ pc'[p] \notin Locked
        /\ \A q \in Procs \ {p} : pc'[q] = pc[q] /\ batch'[q] = batch[q]
    BY <1>0, <1>1 DEF Record, IsFree, BeginFlush, Goto, TypeOK, Locked
  <2>3. UNCHANGED <<disk, buf, replaced, world>> /\ Content' = Content /\ AsideIsEmpty'
    BY <1>0, <1>1 DEF Record, Content, DiskInv, AsideIsEmpty
  <2>4. DiskInv'
    BY <1>0, <2>2, <2>3, OutsideTheLock
  <2> QED
    BY <2>1, <2>4
<1>2. ASSUME NEW p \in Procs, TimerFires(p) \/ Exit(p) PROVE DiskInv' /\ RecordInv'
  <2>1. /\ pc[p] = "idle" /\ BeginFlush(p, pending[p])
        /\ UNCHANGED <<disk, issued, failing, buf, history, day, faults, deaths>>
    BY <1>2 DEF TimerFires, Exit, IsFree
  <2>2. RecordInv'
    BY <1>0, <2>1, BeginFlushRecords
  <2>3. /\ pc'[p] \notin Locked
        /\ \A q \in Procs \ {p} : pc'[q] = pc[q] /\ batch'[q] = batch[q]
    BY <1>0, <2>1 DEF BeginFlush, Goto, TypeOK, Locked
  <2>4. \A q \in Procs \ {p} : life'[q] = life[q]
    BY <1>0, <1>2 DEF TimerFires, Exit, TypeOK
  <2>5. Content' = Content /\ AsideIsEmpty'
    BY <1>0, <2>1 DEF Content, DiskInv, AsideIsEmpty
  <2>6. DiskInv'
    BY <1>0, <2>1, <2>3, <2>4, <2>5, OutsideTheLock
  <2> QED
    BY <2>2, <2>6
<1>3. ASSUME NEW p \in Procs, FlushStep(p) PROVE DiskInv' /\ RecordInv'
  BY <1>0, <1>3, FlushStepDisk, FlushStepRecords
<1>4. ASSUME NEW p \in Procs, Die(p) PROVE DiskInv' /\ RecordInv'
  <2>1. /\ life' = [life EXCEPT ![p] = "down"] /\ UNCHANGED <<disk, memory, flushing, history, day>>
        /\ Content' = Content /\ AsideIsEmpty'
    BY <1>0, <1>4 DEF Die, Content, DiskInv, AsideIsEmpty
  <2>2. life'[p] = "down" /\ \A q \in Procs \ {p} : life'[q] = life[q]
    BY <1>0, <2>1 DEF TypeOK
  <2>3. DiskInv'
    BY <1>0, <2>1, <2>2, OutsideTheLock
  <2>4. RecordInv'
    BY <1>0, <2>1, StillRecords
  <2> QED
    BY <2>3, <2>4
<1>5. ASSUME LockGoesStale \/ UNCHANGED vars PROVE DiskInv' /\ RecordInv'
  <2>1. /\ UNCHANGED <<file, tmp, tmpInit, lock, memory, flushing, history, world>>
        /\ Content' = Content
    BY <1>5 DEF LockGoesStale, vars, Content
  <2>2. RecordInv'
    BY <1>0, <2>1, StillRecords
  <2>3. DiskInv'
    BY <1>0, <2>1 DEF DiskInv, AsideIsEmpty, LockIsHeld, WritesAreCurrent, Down, Planned
  <2> QED
    BY <2>2, <2>3
<1>6. ASSUME NextDay PROVE DiskInv' /\ RecordInv'
  <2>1. /\ UNCHANGED <<disk, memory, flushing, history, life>> /\ Content' = Content
        /\ day' = day + 1
    BY <1>6 DEF NextDay, Content
  <2>2. DiskInv'
    BY <1>0, <2>1 DEF DiskInv, AsideIsEmpty, LockIsHeld, WritesAreCurrent, Down, Planned
  <2>3. HeldOnce' /\ BookedOnce'
    BY <1>0, <2>1 DEF RecordInv, HeldOnce, BookedOnce, Gone, Held, Issued, Booked
  <2>4. day \in Nat /\ DayWindow \in Nat /\ \A p \in Procs : batch[p].day \in Nat
    BY <1>0, WindowAssumption DEF TypeOK, Days
  <2>5. BatchesAreUnderway'
    BY <1>0, <2>1, <2>4 DEF RecordInv, BatchesAreUnderway
  <2>6. DatedOnce'
    <3>1. ASSUME NEW r \in Records, bookedOn[r] \in Days, bookedOn[r] + DayWindow > day + 1
          PROVE  bookedOn[r] + DayWindow > day
      <4>1. bookedOn[r] \in Nat
        BY <3>1, WindowAssumption DEF Days
      <4> QED
        BY <2>4, <3>1, <4>1
    <3> QED
      BY <1>0, <2>1, <3>1 DEF RecordInv, DatedOnce, Dated, Booked
  <2> QED
    BY <2>2, <2>3, <2>5, <2>6 DEF RecordInv
<1> QED
  BY <1>0, <1>1, <1>2, <1>3, <1>4, <1>5, <1>6 DEF Next, IInv

\* The invariant says of each record that it is in one place, and counts it there once.
LEMMA IInvCountsOnce == IInv => EveryRecordCountsOnce
<1> SUFFICES ASSUME IInv, ~replaced, NEW r \in Records \ doubled
             PROVE  IF Issued(r)
                      THEN Booked(r) + Times(Carried(r), r) + Cardinality({r} \cap dropped) = 1
                      ELSE Booked(r) = 0 /\ Times(Carried(r), r) = 0
  BY DEF EveryRecordCountsOnce
<1> DEFINE p == r[1]
<1>1. p \in Procs
  BY RecordParts
<1>2. /\ batch[p].records \in Seq(Records) /\ pending[p] \in Seq(Records)
      /\ Injective(batch[p].records) /\ Injective(pending[p])
      /\ Elements(batch[p].records) \cap Elements(pending[p]) = {}
  BY <1>1 DEF IInv, TypeOK, RecordInv, HeldOnce
<1>3. Carried(r) \in Seq(Records) /\ Injective(Carried(r)) /\ Elements(Carried(r)) = Held(p)
  BY <1>2, ConcatElements DEF Carried, Held
<1>4. Times(Carried(r), r) = IF r \in Held(p) THEN 1 ELSE 0
  BY <1>3, TimesInInjective
<1>5. Cardinality({r} \cap dropped) = IF r \in dropped THEN 1 ELSE 0
  <2>1. CASE r \in dropped
    <3>1. {r} \cap dropped = {r}
      BY <2>1
    <3> QED
      BY <2>1, <3>1, FS_Singleton
  <2>2. CASE r \notin dropped
    <3>1. {r} \cap dropped = {}
      BY <2>2
    <3> QED
      BY <2>2, <3>1, FS_EmptySet
  <2> QED
    BY <2>1, <2>2
<1>6. Booked(r) = IF Issued(r) /\ r \notin Held(p) /\ r \notin dropped THEN 1 ELSE 0
  BY DEF IInv, RecordInv, BookedOnce, Gone
<1>7. r \in Held(p) => Issued(r) /\ r \notin dropped
  BY <1>1 DEF IInv, RecordInv, HeldOnce
<1> HIDE DEF p
<1> QED
  BY <1>4, <1>5, <1>6, <1>7

\* A failed flush loses no count and a retried one counts none twice, whatever flushes of
\* other processes, refusals of the disk and deaths come between: as long as no process
\* has put another ledger over one it did not see or could not read, a record that was
\* made, and whose flush did not fail after its rename, is counted in the file, held by
\* its process, or among the dropped, and in one of these once.
THEOREM RecordsCountOnce == Spec => []EveryRecordCountsOnce
  BY InitIInv, NextIInv, IInvCountsOnce, PTL DEF Spec

\* What was booked within the window is in the window, under the day of its flush only,
\* although every flush prunes by a day that may be over when it renames; with the same
\* exceptions.
THEOREM WindowsStayComplete == Spec => []WindowsAreComplete
<1>1. ASSUME IInv PROVE WindowsAreComplete
  <2> SUFFICES ASSUME ~replaced, NEW r \in Records \ doubled, Booked(r) > 0, bookedOn[r] + DayWindow > day
               PROVE  /\ r \in WindowOf(Content, DayWindow, day)
                      /\ \A d \in Days : r \in Content.days[d] => d = bookedOn[r]
    BY DEF WindowsAreComplete
  <2>1. bookedOn[r] \in Days /\ r \in Content.days[bookedOn[r]]
    BY <1>1 DEF IInv, RecordInv, DatedOnce, Dated
  <2>2. \A d \in Days : r \in Content.days[d] => d = bookedOn[r]
    BY <1>1 DEF IInv, RecordInv, DatedOnce, Dated
  <2>3. r \in WindowOf(Content, DayWindow, day)
    BY <2>1 DEF WindowOf
  <2> QED
    BY <2>2, <2>3
<1> QED
  BY <1>1, InitIInv, NextIInv, PTL DEF Spec
=============================================================================
