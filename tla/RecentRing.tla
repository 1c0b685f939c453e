------------------------------ MODULE RecentRing ------------------------------
(***************************************************************************)
(* RecentActivityStore: the rows of the "what just happened" list, kept in *)
(* memory and merged, a batch at a time, into a bounded list in a file     *)
(* that all processes share.  A flush is synchronous, as in UsageLedger;   *)
(* unlike there its backlog has no cap and a failing disk does not suspend *)
(* the flushes that captures start.                                        *)
(*                                                                         *)
(* A row is the fields of its capture key: when, and what.                 *)
(***************************************************************************)
EXTENDS Naturals, SequencesExt

CONSTANTS
  Procs,
  Nobody,       \* holds no lock
  Ghost,        \* holds one that a process left behind: it died, or could not remove it
  Absent,       \* there is no such file
  Whats,        \* account, model, kind and output of a row
  LastTime,     \* bound on the clock
  RingMax,      \* rows kept
  FlushEvery,   \* a flush is due at this many pending rows
  MaxCaptures,  \* bound: rows a process captures
  MaxFaults,    \* bound: refusals of the disk
  MaxEnds       \* bound: processes that exit or are killed

VARIABLES
  file,      \* agy-recent.json
  tmp,       \* agy-recent.json.tmp
  lock,
  entries,   \* the ring each process shows: seeded from the file, then its own
  pending,   \* the rows no flush has taken
  timer,
  failing,
  pc,
  batch,     \* the rows a flush carries
  buf,       \* the list it is about to write
  life,      \* up, leaving (the exit handler runs) or down
  captures,  \* rows captured since the process started
  flushed,   \* rows that have been put in the file
  replaced,  \* a process that saw no file, or could not read it, put one over another's
  now,
  faults,
  ends

disk == <<file, tmp, lock>>
memory == <<entries, pending, timer, failing, captures>>
flushing == <<pc, batch, buf>>
history == <<flushed, replaced>>
clock == <<now, faults, ends>>
vars == <<file, tmp, lock, entries, pending, timer, failing, pc, batch, buf, life, captures,
          flushed, replaced, now, faults, ends>>

Rows == [at: 1..LastTime, what: Whats]
NewestOf(s, n) == IF Len(s) > n THEN SubSeq(s, Len(s) - n + 1, Len(s)) ELSE s

\* a missing file is an empty list
Content == IF file = Absent THEN <<>> ELSE file

\* mergeRecentEntries: one row per capture key, by time, those of one time in the order
\* they came, and of these the newest
FirstIn(s, e) == CHOOSE i \in DOMAIN s : s[i] = e /\ \A j \in 1..i - 1 : s[j] # e
Before(s, e, f) == e.at < f.at \/ (e.at = f.at /\ FirstIn(s, e) < FirstIn(s, f))
Unsorted(onDisk, b) == NewestOf(onDisk \o b, RingMax)
\* at each place the row that has as many before it
Sorted(all) ==
  LET rows == ToSet(all)
  IN  [k \in 1..Cardinality(rows) |->
         CHOOSE e \in rows : Cardinality({f \in rows : Before(all, f, e)}) = k - 1]
Merged(onDisk, b) == NewestOf(Sorted(onDisk \o b), RingMax)

Locked == {"reading", "writing", "renaming", "releasing"}
Underway == {"ensuring", "creating", "locking"} \cup Locked

Init ==
  /\ file \in {Absent, <<>>}
  /\ tmp = Absent
  /\ lock = Nobody
  /\ entries = [p \in Procs |-> <<>>]
  /\ pending = [p \in Procs |-> <<>>]
  /\ timer = [p \in Procs |-> FALSE]
  /\ failing = [p \in Procs |-> FALSE]
  /\ pc = [p \in Procs |-> "idle"]
  /\ batch = [p \in Procs |-> <<>>]
  /\ buf = [p \in Procs |-> <<>>]
  /\ life = [p \in Procs |-> "up"]
  /\ captures = [p \in Procs |-> {}]
  /\ flushed = {}
  /\ replaced = FALSE
  /\ now = 1
  /\ faults \in 0..MaxFaults
  /\ ends \in 0..MaxEnds

Goto(p, l) == pc' = [pc EXCEPT ![p] = l]
IsFree(p) == life[p] = "up" /\ pc[p] = "idle"

BeginFlush(p, backlog) ==
  /\ timer' = [timer EXCEPT ![p] = FALSE]
  /\ IF backlog = <<>>
       THEN UNCHANGED <<pending, pc, batch>>
       ELSE /\ pending' = [pending EXCEPT ![p] = <<>>]
            /\ batch' = [batch EXCEPT ![p] = backlog]
            /\ Goto(p, "ensuring")

Capture(p, e) ==
  /\ IsFree(p) /\ Cardinality(captures[p]) < MaxCaptures
  /\ e.at = now /\ e \notin captures[p]
  /\ captures' = [captures EXCEPT ![p] = @ \cup {e}]
  /\ entries' = [entries EXCEPT ![p] = NewestOf(Append(@, e), RingMax)]
  /\ LET backlog == Append(pending[p], e)
     IN  IF Len(backlog) >= FlushEvery
           THEN BeginFlush(p, backlog)
           ELSE /\ pending' = [pending EXCEPT ![p] = backlog]
                /\ timer' = [timer EXCEPT ![p] = TRUE]
                /\ UNCHANGED <<pc, batch>>
  /\ UNCHANGED <<disk, failing, buf, life, history, clock>>

TimerFires(p) ==
  /\ IsFree(p) /\ timer[p]
  /\ BeginFlush(p, pending[p])
  /\ UNCHANGED <<disk, entries, failing, captures, buf, life, history, clock>>

\* the exit handler: one last flush, then the process is gone
Exit(p) ==
  /\ IsFree(p) /\ ends < MaxEnds
  /\ ends' = ends + 1
  /\ BeginFlush(p, pending[p])
  /\ life' = [life EXCEPT ![p] = IF pending[p] = <<>> THEN "down" ELSE "leaving"]
  /\ UNCHANGED <<disk, entries, failing, captures, buf, history, now, faults>>

Settled(p) == life' = [life EXCEPT ![p] = IF @ = "leaving" THEN "down" ELSE @]

KeepsOnlyNewRows(p) ==
  /\ failing' = [failing EXCEPT ![p] = TRUE]
  /\ timer' = [timer EXCEPT ![p] = TRUE]
  /\ batch' = [batch EXCEPT ![p] = <<>>]
  /\ Goto(p, "idle")
  /\ Settled(p)
  /\ UNCHANGED pending

\* the catch of flush
PutBack(p) ==
  /\ pending' = [pending EXCEPT ![p] = batch[p] \o @]
  /\ failing' = [failing EXCEPT ![p] = TRUE]
  /\ timer' = [timer EXCEPT ![p] = TRUE]
  /\ batch' = [batch EXCEPT ![p] = <<>>]
  /\ Goto(p, "idle")
  /\ Settled(p)

\* outside the lock: the file is looked for, and an empty list is written over it
Ensure(p) ==
  /\ pc[p] = "ensuring"
  /\ Goto(p, IF file = Absent THEN "creating" ELSE "locking")
  /\ UNCHANGED <<disk, memory, batch, buf, life, history, clock>>

Create(p) ==
  /\ pc[p] = "creating"
  /\ file' = <<>>
  /\ replaced' = (replaced \/ file # Absent)
  /\ Goto(p, "locking")
  /\ UNCHANGED <<tmp, lock, memory, batch, buf, life, flushed, clock>>

\* a lock left behind can be taken once it is stale, and until then cannot
Acquire(p) ==
  /\ pc[p] = "locking" /\ lock \in {Nobody, Ghost}
  /\ lock' = p
  /\ Goto(p, "reading")
  /\ UNCHANGED <<file, tmp, memory, batch, buf, life, history, clock>>

Contended(p) ==
  /\ pc[p] = "locking" /\ lock # Nobody
  /\ PutBack(p)
  /\ UNCHANGED <<disk, entries, captures, buf, history, clock>>

Read(p) ==
  /\ pc[p] = "reading"
  /\ buf' = [buf EXCEPT ![p] = Merged(Content, batch[p])]
  /\ Goto(p, "writing")
  /\ UNCHANGED <<disk, memory, batch, life, history, clock>>

\* a list that cannot be read is an empty one
ReadFails(p) ==
  /\ pc[p] = "reading" /\ faults < MaxFaults
  /\ faults' = faults + 1
  /\ buf' = [buf EXCEPT ![p] = Merged(<<>>, batch[p])]
  /\ replaced' = TRUE
  /\ Goto(p, "writing")
  /\ UNCHANGED <<disk, memory, batch, life, flushed, now, ends>>

WriteAside(p) ==
  /\ pc[p] = "writing"
  /\ tmp' = buf[p]
  /\ Goto(p, "renaming")
  /\ UNCHANGED <<file, lock, memory, batch, buf, life, history, clock>>

Place(p) ==
  /\ pc[p] = "renaming"
  /\ file' = tmp
  /\ tmp' = Absent
  /\ flushed' = flushed \cup ToSet(batch[p])

Rename(p) ==
  /\ Place(p)
  /\ batch' = [batch EXCEPT ![p] = <<>>]
  /\ Goto(p, "releasing")
  /\ UNCHANGED <<lock, memory, buf, life, replaced, clock>>

Unlocked(p) == IF lock = p THEN Nobody ELSE lock
LeftBehind(p) == IF lock = p THEN Ghost ELSE lock

\* the rename, and a lock that cannot be removed: a batch that is in the file goes back
ReleaseFails(p) ==
  /\ faults < MaxFaults
  /\ faults' = faults + 1
  /\ Place(p)
  /\ lock' = LeftBehind(p)
  /\ buf' = [buf EXCEPT ![p] = <<>>]
  /\ PutBack(p)
  /\ UNCHANGED <<entries, captures, replaced, now, ends>>

Release(p) ==
  /\ pc[p] = "releasing"
  /\ lock' = Unlocked(p)
  /\ failing' = [failing EXCEPT ![p] = FALSE]
  /\ buf' = [buf EXCEPT ![p] = <<>>]
  /\ Goto(p, "idle")
  /\ Settled(p)
  /\ UNCHANGED <<file, tmp, entries, pending, timer, captures, batch, history, clock>>

\* the disk refuses to look, to make a file or the lock, to write or to rename, and maybe
\* to remove the lock as well
Refused(p) ==
  /\ pc[p] \in Underway \ {"reading", "releasing"} /\ faults < MaxFaults
  /\ faults' = faults + 1
  /\ lock' \in {Unlocked(p), LeftBehind(p)}
  /\ buf' = [buf EXCEPT ![p] = <<>>]
  /\ PutBack(p)
  /\ UNCHANGED <<file, tmp, entries, captures, history, now, ends>>

\* killed, and started again: the constructor seeds the ring from the file
Die(p) ==
  /\ life[p] # "down" /\ ends < MaxEnds
  /\ ends' = ends + 1
  /\ life' = [life EXCEPT ![p] = "down"]
  /\ lock' = LeftBehind(p)
  /\ UNCHANGED <<file, tmp, memory, flushing, history, now, faults>>

Restart(p) ==
  /\ life[p] = "down"
  /\ life' = [life EXCEPT ![p] = "up"]
  /\ entries' = [entries EXCEPT ![p] = NewestOf(Content, RingMax)]
  /\ pending' = [pending EXCEPT ![p] = <<>>]
  /\ captures' = [captures EXCEPT ![p] = {}]
  /\ timer' = [timer EXCEPT ![p] = FALSE]
  /\ failing' = [failing EXCEPT ![p] = FALSE]
  /\ batch' = [batch EXCEPT ![p] = <<>>]
  /\ buf' = [buf EXCEPT ![p] = <<>>]
  /\ Goto(p, "idle")
  /\ UNCHANGED <<disk, history, clock>>

Tick ==
  /\ now < LastTime
  /\ now' = now + 1
  /\ UNCHANGED <<disk, memory, flushing, life, history, faults, ends>>

FlushStep(p) ==
  /\ life[p] # "down"
  /\ \/ Ensure(p) \/ Create(p) \/ Acquire(p) \/ Contended(p) \/ Read(p) \/ ReadFails(p)
     \/ WriteAside(p) \/ Rename(p) \/ ReleaseFails(p) \/ Release(p) \/ Refused(p)

Next ==
  \/ \E p \in Procs :
       \/ \E e \in Rows : Capture(p, e)
       \/ TimerFires(p) \/ Exit(p) \/ FlushStep(p) \/ Die(p) \/ Restart(p)
  \/ Tick

Spec == Init /\ [][Next]_vars

-----------------------------------------------------------------------------
(* Properties.                                                              *)

TypeOK ==
  /\ file \in Seq(Rows) \cup {Absent} /\ tmp \in Seq(Rows) \cup {Absent}
  /\ lock \in Procs \cup {Nobody, Ghost}
  /\ {entries, pending, batch, buf} \subseteq [Procs -> Seq(Rows)]
  /\ {timer, failing} \subseteq [Procs -> BOOLEAN]
  /\ life \in [Procs -> {"up", "leaving", "down"}]
  /\ captures \in [Procs -> SUBSET Rows]
  /\ pc \in [Procs -> {"idle"} \cup Underway]
  /\ flushed \subseteq Rows /\ replaced \in BOOLEAN /\ now \in 1..LastTime /\ faults \in 0..MaxFaults /\ ends \in 0..MaxEnds

\* The file is a ring of what was flushed: at most RingMax rows, oldest first, none
\* twice, and a flushed row is only missing if RingMax rows at least as new are there.
\* So no flush of one process loses the rows of another, unless the file was created
\* twice or a flush could not read it.
Outranked(e) == Len(Content) = RingMax /\ \A i \in DOMAIN Content : Content[i].at >= e.at
FileKeepsTheNewest ==
  ~replaced =>
    /\ Len(Content) <= RingMax /\ IsInjective(Content) /\ ToSet(Content) \subseteq flushed
    /\ \A i, j \in DOMAIN Content : i < j => Content[i].at <= Content[j].at
    /\ \A e \in flushed : e \in ToSet(Content) \/ Outranked(e)

\* A row captured by a process that still runs is in the file, or was outranked there,
\* or the process has it and will try again.
CapturesSurvive ==
  ~replaced => \A p \in Procs : life[p] = "up" => \A e \in captures[p] :
    \/ e \in flushed
    \/ e \in ToSet(batch[p])
    \/ e \in ToSet(pending[p]) /\ (pc[p] = "idle" => timer[p])
=============================================================================
