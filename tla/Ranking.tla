------------------------------- MODULE Ranking -------------------------------
(***************************************************************************)
(* Which account pickAccount takes for a request whose conversation holds  *)
(* no pin, by parks, limits and the measured windows of one model family:  *)
(* the active account, else the first of rankPoolCandidates that is free,  *)
(* else the block it announces and the moment it tells the caller to       *)
(* retry.                                                                  *)
(*                                                                         *)
(* A fraction is in permille, -1 when there is none; a moment is a tick,   *)
(* and a reset of 0 is one the upstream did not state.  A tick is as long  *)
(* as DRAIN_FLOOR_MS.                                                      *)
(***************************************************************************)
EXTENDS Integers, FiniteSets, FiniteSetsExt

CONSTANTS
  Size,     \* how many accounts the pool has
  Walls,    \* parks and limits an account may have
  Rolls,    \* its readings of the rolling window
  Weeks,    \* its readings of the weekly window
  Better,   \* the fractions a reading may improve to
  Day,      \* ticks of DAY_MS
  LastTick  \* bound on the clock

VARIABLES
  pool,    \* the accounts, by position
  active,  \* the cursor
  full,    \* the accounts whose requests in flight are at the maximum
  answer,  \* the last block announced
  tick

vars == <<pool, active, full, answer, tick>>

Positions == 1..Size
Reasons == {"none", "quota-exhausted", "other"}
Unmeasured == [left |-> -1, reset |-> 0]
NoBlock == [kind |-> "none", until |-> 0, lifted |-> {}]

Soft == 150     \* SOFT_QUOTA_THRESHOLD
WeekEnd == 10   \* WEEKLY_QUOTA_THRESHOLD
HotLeft == 150  \* what PRIMARY_WINDOW_HOT_FRACTION leaves

-----------------------------------------------------------------------------
(* One account.                                                             *)

Lapsed(reading) == reading.reset \in 1..tick
IsRead(reading) == reading.left # -1 /\ ~Lapsed(reading)
IsSpent(reading, threshold) == reading.left \in 0..threshold /\ reading.reset > tick

\* hasHealthyCachedQuota: something is read, and nothing that is read is drained
IsHealthy(a) ==
  /\ IsRead(a.roll) \/ IsRead(a.week)
  /\ IsRead(a.roll) => a.roll.left >= Soft
  /\ IsRead(a.week) => a.week.left > WeekEnd

Contradicted(a) == a.why = "quota-exhausted" /\ a.cool > tick /\ IsHealthy(a)

\* clearExpiredState, on the request's copy of the document
Cleared(a) ==
  IF a.cool <= tick \/ Contradicted(a) THEN [a EXCEPT !.cool = 0, !.why = "none"] ELSE a

\* isFamilyQuotaExhausted: parked for its quota, or a window spent
Exhausted(a) ==
  \/ a.why = "quota-exhausted" /\ a.cool > tick
  \/ IsSpent(a.roll, 0) \/ IsSpent(a.week, WeekEnd)

\* isActiveUsable
IsUsable(a) == a.enabled /\ a.cool <= tick /\ a.limit <= tick /\ ~Exhausted(a)

\* blockedUntil, 0 when nothing blocks: what is spent counts only where no park or limit does
BlockedUntil(a) ==
  LET walls == {w \in {a.cool, a.limit} : w > tick}
      resets == {w.reset : w \in {v \in {a.roll, a.week} : IsSpent(v, 0)}}
  IN  IF walls # {} THEN Max(walls) ELSE Max(resets \cup {0})

IsHot(a) == \E w \in {a.roll, a.week} : IsRead(w) /\ w.left <= HotLeft
IsMeasured(a) == IsRead(a.roll) \/ IsRead(a.week)

\* usedFraction, a half where there is none
Used(a) == IF IsRead(a.roll) THEN 1000 - a.roll.left ELSE 500

\* requiredDrainFor as a fraction: what is left, over the ticks it is left for; a reading
\* that has lapsed counts, as one about to
Drain(a) ==
  [left |-> Max({a.roll.left, 0}),
   over |-> IF a.roll.reset = 0 THEN Day ELSE Min({Day, Max({a.roll.reset - tick, 1})})]

-----------------------------------------------------------------------------
(* The pool.                                                                *)

EnabledIn(p) == {i \in Positions : p[i].enabled}

\* the order of rotation: from the cursor on, or from the start when the cursor is not a candidate
Turn(p, i) == IF active \in EnabledIn(p) THEN (i + Size - active) % Size ELSE i

\* the larger drain comes first; the smaller, had the operands been swapped
LessUrgent(d, e) == d.left * e.over < e.left * d.over
Urgent(d, e) == d.left * e.over > e.left * d.over

\* the comparison of rankPoolCandidates, of two candidates nothing blocks
Precedes(p, i, j) ==
  LET a == p[i]
      b == p[j]
  IN  \/ ~IsHot(a) /\ IsHot(b)
      \/ /\ IsHot(a) = IsHot(b)
         /\ \/ IsMeasured(a) /\ ~IsMeasured(b)
            \/ /\ IsMeasured(a) = IsMeasured(b)
               /\ \/ Urgent(Drain(a), Drain(b))
                  \/ /\ ~Urgent(Drain(b), Drain(a))
                     /\ \/ Used(a) < Used(b)
                        \/ Used(a) = Used(b) /\ Turn(p, i) < Turn(p, j)

First(p, S) == CHOOSE i \in S : \A j \in S \ {i} : Precedes(p, i, j)

Nobody == 0

\* pickAccount past the pin, on a document cleared of what has lapsed
Choice(p) ==
  LET free == {i \in EnabledIn(p) : BlockedUntil(p[i]) = 0}
  IN  IF IsUsable(p[active]) /\ active \notin full THEN active
      ELSE IF free = {} THEN Nobody
      ELSE First(p, IF free \subseteq full THEN free ELSE free \ full)

\* the quotaExhausted of pickAccount: both windows, at a strict zero; before it looked at the
\* week, the rolling one alone
SpentBucket(a) == (a.why = "quota-exhausted" /\ a.cool > tick) \/ IsSpent(a.roll, 0)
WaitsForQuota(a) == SpentBucket(a) \/ IsSpent(a.week, 0)

\* AgyPoolBlockedError
Block(p) ==
  LET retryable == {i \in EnabledIn(p) : ~WaitsForQuota(p[i])}
      waiting == IF retryable = {} THEN EnabledIn(p) ELSE retryable
  IN  [kind |-> IF retryable = {} THEN "quota-exhausted" ELSE "retryable",
       until |-> Min({BlockedUntil(p[i]) : i \in waiting}),
       lifted |-> {i \in Positions : Contradicted(pool[i])}]

Copy(p) == [i \in Positions |-> Cleared(p[i])]

-----------------------------------------------------------------------------

\* an account, and one whose readings nobody looks at
Enabled(w, r, k) ==
  [enabled |-> TRUE, cool |-> w.cool, why |-> w.why, limit |-> w.limit, roll |-> r, week |-> k]
Disabled ==
  [enabled |-> FALSE, cool |-> 0, why |-> "none", limit |-> 0,
   roll |-> Unmeasured, week |-> Unmeasured]

\* any document that earlier failures and probes may have left
Init ==
  /\ pool \in [Positions ->
       {Enabled(w, r, k) : w \in Walls, r \in Rolls, k \in Weeks} \cup {Disabled}]
  /\ active \in Positions
  /\ full = {}
  /\ answer = NoBlock
  /\ tick = 0

\* a request is given an account, and the cursor moves there, or is told when to retry
Choose ==
  /\ EnabledIn(pool) # {}
  /\ IF Choice(Copy(pool)) = Nobody
       THEN answer' = Block(Copy(pool)) /\ UNCHANGED active
       ELSE active' = Choice(Copy(pool)) /\ UNCHANGED answer
  /\ UNCHANGED <<pool, full, tick>>

\* noteRequestStarted at the maximum, noteRequestSettled
Saturate(i) == full' = full \cup {i} /\ UNCHANGED <<pool, active, answer, tick>>
Settle(i) == full' = full \ {i} /\ UNCHANGED <<pool, active, answer, tick>>

Tick == tick < LastTick /\ tick' = tick + 1 /\ UNCHANGED <<pool, active, full, answer>>

Next == Choose \/ (\E i \in Positions : Saturate(i) \/ Settle(i)) \/ Tick

Spec == Init /\ [][Next]_vars

-----------------------------------------------------------------------------
(* Properties.                                                              *)

\* Every variable has its type.
TypeOK ==
  /\ \A i \in Positions : pool[i].why \in Reasons /\ pool[i].enabled \in BOOLEAN
  /\ active \in Positions /\ full \subseteq Positions
  /\ answer.kind \in {"none", "retryable", "quota-exhausted"} /\ answer.until \in Nat
  /\ tick \in 0..LastTick

\* A caller told to retry finds an account from the announced moment on: ranking, steering and
\* the classification of the block each judge the windows by a rule of their own (session.ts:866
\* tells how they disagreed about a spent week).  Parks that a reading contradicted when the
\* block was announced may return as the reading lapses.
RetriesFindAnAccount ==
  answer.kind = "retryable" /\ answer.lifted = {} /\ tick >= answer.until
    => Choice(Copy(pool)) # Nobody

\* An account is never passed over for having more left: with a higher fraction in either window,
\* all else equal, the account that was chosen still is, through steering, blocks, heat, drain
\* and use.
MoreIsNeverWorse ==
  LET chosen == Choice(Copy(pool))
      Raised(w) == {[w EXCEPT !.left = f] : f \in {g \in Better : w.left # -1 /\ g > w.left}}
  IN  chosen # Nobody =>
        /\ \A w \in Raised(pool[chosen].roll) :
             Choice(Copy([pool EXCEPT ![chosen].roll = w])) = chosen
        /\ \A w \in Raised(pool[chosen].week) :
             Choice(Copy([pool EXCEPT ![chosen].week = w])) = chosen
=============================================================================
