----------------------------- MODULE UsageLedger -----------------------------
(***************************************************************************)
(* UsageStats: every process collects its usage records in memory and adds *)
(* them in batches to one ledger file that all processes share.  A flush   *)
(* is synchronous: inside a process nothing happens between its steps, but *)
(* other processes interleave with every one of them.  A flush fails when  *)
(* the lock is taken (the sync lock has no retries) or the disk refuses a  *)
(* step, the release of the lock included, and then puts its batch back.   *)
(* A refusal to read is no failure: the ledger is taken for empty.         *)
(*                                                                         *)
(* The n-th record of process p is <<p, n>>.  What a record says (account, *)
(* model, tokens) is left out; here it is booked or not.                   *)
(***************************************************************************)
EXTENDS Naturals, Sequences, FiniteSets

CONSTANTS
  Procs,
  Nobody,      \* holds no lock
  Absent,      \* there is no such file
  PerProcess,  \* bound: records a process makes
  FlushEvery,  \* a flush is due at this many pending records
  MaxPending,  \* more pending records than this are dropped, the oldest first
  DayWindow,   \* days a window can reach back to
  LastDay,     \* bound on the clock
  MaxFaults,   \* bound: refusals of the disk
  MaxDeaths    \* bound: processes killed

ASSUME BacklogAssumption ==
  PerProcess \in Nat /\ FlushEvery \in Nat \ {0} /\ MaxPending \in Nat \ {0} /\ FlushEvery <= MaxPending
ASSUME WindowAssumption == DayWindow \in Nat \ {0} /\ LastDay \in Nat
ASSUME FaultAssumption == MaxFaults \in Nat /\ MaxDeaths \in Nat
ASSUME NobodyAssumption == Nobody \notin Procs

VARIABLES
  file,      \* agy-stats.json
  tmp,       \* agy-stats.json.tmp
  tmpInit,   \* agy-stats.json.tmp-init
  lock,      \* who made the lock directory
  stale,     \* the lock has not been refreshed for eight seconds
  issued,    \* how many records each process has made
  pending,   \* the records of each process that no flush has taken
  timer,     \* whether its flush timer is armed
  failing,   \* flushFailedSince is set
  pc,        \* where its flush stands
  batch,     \* the records its flush carries, and the day it began
  buf,       \* the document it is about to write
  life,      \* up, leaving (the exit handler runs) or down
  dropped,   \* the records that the cap has dropped
  bookedOn,  \* the day each record was put in the file, 0 if it was not
  replaced,  \* a process that saw no file, or could not read it, put one over another's
  doubled,   \* the records put back although they were written: the release failed
  day,
  faults,
  deaths

disk == <<file, tmp, tmpInit, lock, stale>>
memory == <<issued, pending, timer, failing>>
flushing == <<pc, batch, buf>>
history == <<dropped, bookedOn, replaced, doubled>>
world == <<life, day, faults, deaths>>
vars == <<file, tmp, tmpInit, lock, stale, issued, pending, timer, failing, pc, batch, buf,
          life, dropped, bookedOn, replaced, doubled, day, faults, deaths>>

Records == Procs \X (1..PerProcess)
Days == 1..LastDay + 1
Doc == [totals: [Records -> Nat], days: [Days -> SUBSET Records]]
EmptyDoc == [totals |-> [r \in Records |-> 0], days |-> [d \in Days |-> {}]]
ASSUME AbsentAssumption == Absent \notin Doc

\* readFile: a missing file is an empty ledger
Content == IF file = Absent THEN EmptyDoc ELSE file

Times(b, r) == Cardinality({i \in DOMAIN b : b[i] = r})

KeepsADayLess(d, now) == d + DayWindow > now + 1
\* pruneDays: a bucket older than the window goes; its counts are in the totals
IsRetained(d, now) == d + DayWindow >= now

\* applyRecord, for all records of a batch
WithBatch(doc, b, now) ==
  [totals |-> [r \in Records |-> doc.totals[r] + Times(b, r)],
   days   |-> [d \in Days |->
                 IF ~IsRetained(d, now) THEN {}
                 ELSE IF d = now THEN doc.days[d] \cup {b[i] : i \in DOMAIN b} ELSE doc.days[d]]]

\* foldWindow: the buckets of the last so many days
WindowOf(doc, span, now) == UNION {doc.days[d] : d \in {e \in Days : e + span > now}}

\* the cap on the backlog keeps the newest
Uncapped(s) == s
Newest(s) == IF Len(s) > MaxPending THEN SubSeq(s, Len(s) - MaxPending + 1, Len(s)) ELSE s
Oldest(s) == {s[i] : i \in {j \in 1..Len(s) : j + MaxPending <= Len(s)}}

Nothing == [records |-> <<>>, day |-> 1]
Locked == {"reading", "writing", "renaming", "releasing"}
Underway == {"ensuring", "creating", "placing", "locking"} \cup Locked

Init ==
  /\ file \in {Absent, EmptyDoc}
  /\ tmp = Absent
  /\ tmpInit = Absent
  /\ lock = Nobody
  /\ stale = FALSE
  /\ issued = [p \in Procs |-> 0]
  /\ pending = [p \in Procs |-> <<>>]
  /\ timer = [p \in Procs |-> FALSE]
  /\ failing = [p \in Procs |-> FALSE]
  /\ pc = [p \in Procs |-> "idle"]
  /\ batch = [p \in Procs |-> Nothing]
  /\ buf = [p \in Procs |-> EmptyDoc]
  /\ life = [p \in Procs |-> "up"]
  /\ dropped = {}
  /\ bookedOn = [r \in Records |-> 0]
  /\ replaced = FALSE
  /\ doubled = {}
  /\ day = 1
  /\ faults \in 0..MaxFaults
  /\ deaths \in 0..MaxDeaths

Goto(p, l) == pc' = [pc EXCEPT ![p] = l]
IsFree(p) == life[p] = "up" /\ pc[p] = "idle"

\* flush, up to its first look at the disk: it cancels the timer and takes everything
BeginFlush(p, backlog) ==
  /\ timer' = [timer EXCEPT ![p] = FALSE]
  /\ IF backlog = <<>>
       THEN UNCHANGED <<pending, pc, batch>>
       ELSE /\ pending' = [pending EXCEPT ![p] = <<>>]
            /\ batch' = [batch EXCEPT ![p] = [records |-> backlog, day |-> day]]
            /\ Goto(p, "ensuring")

\* record: cap the backlog, flush a full one unless writing fails just now
Record(p) ==
  /\ IsFree(p) /\ issued[p] < PerProcess
  /\ issued' = [issued EXCEPT ![p] = @ + 1]
  /\ LET all == Append(pending[p], <<p, issued'[p]>>)
         backlog == Newest(all)
     IN  /\ dropped' = dropped \cup Oldest(all)
         /\ IF ~failing[p] /\ Len(backlog) >= FlushEvery
              THEN BeginFlush(p, backlog)
              ELSE /\ pending' = [pending EXCEPT ![p] = backlog]
                   /\ timer' = [timer EXCEPT ![p] = TRUE]
                   /\ UNCHANGED <<pc, batch>>
  /\ UNCHANGED <<disk, failing, buf, bookedOn, replaced, doubled, world>>

TimerFires(p) ==
  /\ IsFree(p) /\ timer[p]
  /\ BeginFlush(p, pending[p])
  /\ UNCHANGED <<disk, issued, failing, buf, history, world>>

\* the exit handler: one last flush, then the process is gone
Exit(p) ==
  /\ IsFree(p)
  /\ BeginFlush(p, pending[p])
  /\ life' = [life EXCEPT ![p] = IF pending[p] = <<>> THEN "down" ELSE "leaving"]
  /\ UNCHANGED <<disk, issued, failing, buf, history, day, faults, deaths>>

Settled(p) == life' = [life EXCEPT ![p] = IF @ = "leaving" THEN "down" ELSE @]

\* the catch of flush: the batch goes back in front, and only the timer retries
PutBack(p) ==
  LET all == batch[p].records \o pending[p]
  IN  /\ pending' = [pending EXCEPT ![p] = Newest(all)]
      /\ dropped' = dropped \cup Oldest(all)
      /\ failing' = [failing EXCEPT ![p] = TRUE]
      /\ timer' = [timer EXCEPT ![p] = TRUE]
      /\ batch' = [batch EXCEPT ![p] = Nothing]
      /\ Goto(p, "idle")
      /\ Settled(p)

\* ensureFile, outside the lock
Ensure(p) ==
  /\ pc[p] = "ensuring"
  /\ Goto(p, IF file = Absent THEN "creating" ELSE "locking")
  /\ UNCHANGED <<disk, memory, batch, buf, history, world>>

CreateAside(p) ==
  /\ pc[p] = "creating"
  /\ tmpInit' = EmptyDoc
  /\ Goto(p, "placing")
  /\ UNCHANGED <<file, tmp, lock, stale, memory, batch, buf, history, world>>

Place(p) ==
  /\ pc[p] = "placing" /\ tmpInit # Absent
  /\ file' = tmpInit
  /\ tmpInit' = Absent
  /\ replaced' = (replaced \/ file # Absent)
  /\ Goto(p, "locking")
  /\ UNCHANGED <<tmp, lock, stale, memory, batch, buf, dropped, bookedOn, doubled, world>>

\* a lock directory whose maker no longer refreshes it: it died, or could not remove it
LeftBehind == lock # Nobody /\ (life[lock] = "down" \/ pc[lock] \notin Locked)

\* lockSync: throws at once if the directory is there, unless it has gone stale
TakesAnyLock == TRUE
NeverTakesOver == lock = Nobody
LockIsFree == lock # Nobody => LeftBehind /\ stale

Acquire(p) ==
  /\ pc[p] = "locking" /\ LockIsFree
  /\ lock' = p
  /\ stale' = FALSE
  /\ Goto(p, "reading")
  /\ UNCHANGED <<file, tmp, tmpInit, memory, batch, buf, history, world>>

\* a lock that is taken, or a temporary file that another creator has renamed away
Contended(p) ==
  /\ \/ pc[p] = "locking" /\ ~LockIsFree
     \/ pc[p] = "placing" /\ tmpInit = Absent
  /\ PutBack(p)
  /\ UNCHANGED <<disk, issued, buf, bookedOn, replaced, doubled, day, faults, deaths>>

Read(p) ==
  /\ pc[p] = "reading"
  /\ buf' = [buf EXCEPT ![p] = WithBatch(Content, batch[p].records, batch[p].day)]
  /\ Goto(p, "writing")
  /\ UNCHANGED <<disk, memory, batch, history, world>>

\* readFile catches everything: a ledger that cannot be read is an empty one
ReadFails(p) ==
  /\ pc[p] = "reading" /\ faults < MaxFaults
  /\ faults' = faults + 1
  /\ buf' = [buf EXCEPT ![p] = WithBatch(EmptyDoc, batch[p].records, batch[p].day)]
  /\ replaced' = TRUE
  /\ Goto(p, "writing")
  /\ UNCHANGED <<disk, memory, batch, dropped, bookedOn, doubled, life, day, deaths>>

WriteAside(p) ==
  /\ pc[p] = "writing"
  /\ tmp' = buf[p]
  /\ Goto(p, "renaming")
  /\ UNCHANGED <<file, tmpInit, lock, stale, memory, batch, buf, history, world>>

\* renameSync: the batch is in the file
Book(p) ==
  /\ pc[p] = "renaming"
  /\ file' = tmp
  /\ tmp' = Absent
  /\ bookedOn' = [r \in Records |-> IF Times(batch[p].records, r) > 0 THEN batch[p].day ELSE bookedOn[r]]

Rename(p) ==
  /\ Book(p)
  /\ batch' = [batch EXCEPT ![p] = Nothing]
  /\ Goto(p, "releasing")
  /\ UNCHANGED <<tmpInit, lock, stale, memory, buf, dropped, replaced, doubled, world>>

\* the rename, and a lock directory that cannot be removed: the error of the release sends
\* a batch back that has been written
ReleaseFails(p) ==
  /\ faults < MaxFaults
  /\ faults' = faults + 1
  /\ Book(p)
  /\ doubled' = doubled \cup {batch[p].records[i] : i \in DOMAIN batch[p].records}
  /\ buf' = [buf EXCEPT ![p] = EmptyDoc]
  /\ PutBack(p)
  /\ UNCHANGED <<tmpInit, lock, stale, issued, replaced, day, deaths>>

Unlocked(p) == IF lock = p THEN Nobody ELSE lock

Release(p) ==
  /\ pc[p] = "releasing"
  /\ lock' = Unlocked(p)
  /\ failing' = [failing EXCEPT ![p] = FALSE]
  /\ buf' = [buf EXCEPT ![p] = EmptyDoc]
  /\ Goto(p, "idle")
  /\ Settled(p)
  /\ UNCHANGED <<file, tmp, tmpInit, stale, issued, pending, timer, batch, history, day, faults, deaths>>

\* the disk refuses to look, to make a file or the lock, to write or to rename: nothing
\* was renamed, and who has the lock tries to remove it on the way out
Refused(p) ==
  /\ pc[p] \in Underway \ {"reading", "releasing"} /\ faults < MaxFaults
  /\ faults' = faults + 1
  /\ \/ lock' = lock
     \/ pc[p] \in Locked /\ lock' = Unlocked(p)
  /\ buf' = [buf EXCEPT ![p] = EmptyDoc]
  /\ PutBack(p)
  /\ UNCHANGED <<file, tmp, tmpInit, stale, issued, bookedOn, replaced, doubled, day, deaths>>

\* killed: no exit handler runs, and a lock it holds stays
Die(p) ==
  /\ life[p] # "down" /\ deaths < MaxDeaths
  /\ life' = [life EXCEPT ![p] = "down"]
  /\ deaths' = deaths + 1
  /\ UNCHANGED <<disk, memory, flushing, history, day, faults>>

LockGoesStale ==
  /\ LeftBehind /\ ~stale
  /\ stale' = TRUE
  /\ UNCHANGED <<file, tmp, tmpInit, lock, memory, flushing, history, world>>

NextDay ==
  /\ day < LastDay
  /\ day' = day + 1
  /\ UNCHANGED <<disk, memory, flushing, history, life, faults, deaths>>

FlushStep(p) ==
  /\ life[p] # "down"
  /\ \/ Ensure(p) \/ CreateAside(p) \/ Place(p) \/ Acquire(p) \/ Contended(p)
     \/ Read(p) \/ ReadFails(p) \/ WriteAside(p) \/ Rename(p) \/ ReleaseFails(p)
     \/ Release(p) \/ Refused(p)

Next ==
  \/ \E p \in Procs : Record(p) \/ TimerFires(p) \/ Exit(p) \/ FlushStep(p) \/ Die(p)
  \/ LockGoesStale
  \/ NextDay

\* a synchronous flush runs to its end, an armed timer fires, and time passes
Fairness ==
  /\ \A p \in Procs : WF_vars(FlushStep(p)) /\ WF_vars(TimerFires(p))
  /\ WF_vars(LockGoesStale)

Spec == Init /\ [][Next]_vars /\ Fairness

-----------------------------------------------------------------------------
(* Properties.                                                              *)

Issued(r) == r[2] <= issued[r[1]]
Booked(r) == Content.totals[r]
Carried(r) == batch[r[1]].records \o pending[r[1]]
Down(p) == life[p] = "down"

TypeOK ==
  /\ file \in Doc \cup {Absent} /\ tmp \in Doc \cup {Absent} /\ tmpInit \in Doc \cup {Absent}
  /\ lock \in Procs \cup {Nobody} /\ stale \in BOOLEAN
  /\ issued \in [Procs -> 0..PerProcess]
  /\ pending \in [Procs -> Seq(Records)] /\ \A p \in Procs : Len(pending[p]) <= MaxPending
  /\ timer \in [Procs -> BOOLEAN] /\ failing \in [Procs -> BOOLEAN]
  /\ pc \in [Procs -> {"idle"} \cup Underway]
  /\ batch \in [Procs -> [records: Seq(Records), day: Days]]
  /\ buf \in [Procs -> Doc]
  /\ life \in [Procs -> {"up", "leaving", "down"}]
  /\ dropped \subseteq Records
  /\ bookedOn \in [Records -> 0..LastDay + 1]
  /\ replaced \in BOOLEAN /\ doubled \subseteq Records
  /\ day \in Days /\ faults \in 0..MaxFaults /\ deaths \in 0..MaxDeaths

\* "A failed flush must not lose the counts", and a retried one must not count twice:
\* a record that was made is in exactly one place, in the file, with the process that
\* made it, or among those the cap dropped, whatever flushes of other processes,
\* refusals of the disk and deaths came between.  The exceptions are a file that is
\* replaced, by a second creator who looked before the first was done or by a flush that
\* could not read it, and records whose flush failed after the rename, on its lock.
EveryRecordCountsOnce ==
  ~replaced => \A r \in Records \ doubled :
    IF Issued(r)
      THEN Booked(r) + Times(Carried(r), r) + Cardinality({r} \cap dropped) = 1
      ELSE Booked(r) = 0 /\ Times(Carried(r), r) = 0

\* "A day rolling out of `days` loses only granularity": what was booked within the
\* window is in the window's buckets, under the day it was booked and no other, with the
\* exceptions of EveryRecordCountsOnce.
WindowsAreComplete ==
  ~replaced => \A r \in Records \ doubled :
    Booked(r) > 0 /\ bookedOn[r] + DayWindow > day =>
      /\ r \in WindowOf(Content, DayWindow, day)
      /\ \A d \in Days : r \in Content.days[d] => d = bookedOn[r]

\* Sooner or later a record is booked, unless the cap drops it or its process ends:
\* an idle ledger with a failing disk behind it does not forget to try again.
RecordsAreSettled ==
  \A r \in Records :
    Issued(r) ~> (Booked(r) > 0 \/ r \in dropped \/ Down(r[1]) \/ replaced)
=============================================================================
