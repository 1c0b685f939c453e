---------------------------- MODULE QuotaReadings ----------------------------
(***************************************************************************)
(* refreshQuotaCache for one account of a pool: when the cached readings   *)
(* count as stale, how the two answers of a probe (per model, per quota    *)
(* group) become one reading per family and window, and how they are       *)
(* written while other requests, and other processes on the same document, *)
(* do the same.                                                            *)
(*                                                                         *)
(* A fraction is in permille, a reset the tick at which a window refills,  *)
(* 0 when the upstream did not say.                                        *)
(***************************************************************************)
EXTENDS Integers, Sequences, FiniteSets, FiniteSetsExt

CONSTANTS
  Procs,         \* processes that share the account document
  Requests,      \* how many may be under way: one that is over is the next
  Families,      \* ModelFamily
  ModelAnswers,  \* what fetchAvailableModels may say: Families -> a set of reports
  Summaries,     \* what retrieveUserQuotaSummary may say: sets of groups, {} when it fails
  RollingSpan,   \* ticks of the rolling window
  ShortTtl, LowTtl, BlindTtl, LongTtl,  \* computeSoftQuotaCacheTtlMs: 1, 5, 10 and 15 minutes
  LastTick       \* bound on the clock

VARIABLES
  doc,       \* the account's cachedQuota in the document, and cachedQuotaUpdatedAt
  probe,     \* quotaRefreshInFlight: who started the probe of each process, with which copy
  pc, home,  \* where each request stands, and in which process
  update,    \* what it is about to write
  tick

vars == <<doc, probe, pc, home, update, tick>>

Soft == 150    \* SOFT_QUOTA_THRESHOLD
WeekEnd == 10  \* WEEKLY_QUOTA_THRESHOLD

None == [left |-> -1, reset |-> 0]
Unmeasured == [quota |-> [f \in Families |-> [roll |-> None, week |-> None]], at |-> 0]
NoProbe == [by |-> {}, copy |-> Unmeasured]
NoUpdate == [cache |-> Unmeasured, over |-> Unmeasured, told |-> {}]

Live(r) == r # None /\ (r.reset = 0 \/ r.reset > tick)

-----------------------------------------------------------------------------
(* Reading a probe.                                                         *)

\* the lowest of the fractions, and the earliest of the resets that are stated
Worst(readings) ==
  LET stated == {r.reset : r \in readings} \ {0}
  IN  IF readings = {} THEN None
      ELSE [left |-> Min({r.left : r \in readings}),
            reset |-> IF stated = {} THEN 0 ELSE Min(stated)]

\* a report states a distance to the reset, and -1 when it lacks the fraction
Reading(report) ==
  IF report.left = -1 THEN None
  ELSE [left |-> report.left, reset |-> IF report.within = 0 THEN 0 ELSE tick + report.within]

\* agreedWindowKind: the window a bucket declares, unless its id advertises another one
AgreesByToken(b, kind) == b.window = kind
Agrees(b, kind) == b.window = kind /\ b.id \in {kind, "unnamed"}
Held(b) == Agrees(b, "5h") \/ Agrees(b, "weekly")

\* familiesForGroup: by the bucket ids, and by the label when no id is recognizable
FamiliesOf(g) ==
  LET named == UNION {g.buckets[i].names : i \in {j \in DOMAIN g.buckets : Held(g.buckets[j])}}
  IN  IF named # {} THEN named ELSE g.label

\* ingestQuotaGroups: of each group its first bucket of the window, of the groups the worst
FromGroups(groups, f, kind) ==
  LET ofKind(g) == {i \in DOMAIN g.buckets : Agrees(g.buckets[i], kind)}
      about == {g \in groups : f \in FamiliesOf(g) /\ ofKind(g) # {}}
  IN  Worst({Reading(g.buckets[Min(ofKind(g))]) : g \in about} \ {None})

FromModels(models, f) == {Reading(report) : report \in models[f]} \ {None}

\* ingestFamilyQuotas: only the week is carried forward from the copy, and only where this
\* probe has none
CarriesToTheFound(found, previous) ==
  [f \in Families |-> IF found[f].week = None /\ found[f].roll # None
                        THEN [found[f] EXCEPT !.week = previous[f].week] ELSE found[f]]
Carried(found, previous) ==
  [f \in Families |-> IF found[f].week = None
                        THEN [found[f] EXCEPT !.week = previous[f].week] ELSE found[f]]

Found(models, groups) ==
  [f \in Families |->
     [roll |-> Worst(({FromGroups(groups, f, "5h")} \ {None}) \cup FromModels(models, f)),
      week |-> FromGroups(groups, f, "weekly")]]

-----------------------------------------------------------------------------
(* Staleness.                                                               *)

Readings(q) == {q.roll, q.week}

\* pressureScore
ScoresAnything(q) == {r.left : r \in Readings(q) \ {None}}
Scores(q) == {r.left : r \in {s \in Readings(q) : Live(s)}}

\* familyQuotaFor without a family; of equals the code takes the first
MostPressed(quota) ==
  LET scored == {f \in Families : Scores(quota[f]) # {}}
  IN  {f \in scored : \A g \in scored : Min(Scores(quota[f])) <= Min(Scores(quota[g]))}

LiveLeft(r) == IF Live(r) THEN r.left ELSE -1

\* computeSoftQuotaCacheTtlMs, of fractions of live windows or -1
Ttl(rolling, weekly) ==
  IF rolling \in 0..Soft-1 \/ weekly \in 0..WeekEnd THEN ShortTtl
  ELSE IF rolling = -1 /\ weekly = -1 THEN BlindTtl
  ELSE IF rolling \in 0..499 \/ weekly \in 0..199 THEN LowTtl
  ELSE LongTtl

Ttls(quota) ==
  IF MostPressed(quota) = {} THEN {BlindTtl}
  ELSE {Ttl(LiveLeft(quota[f].roll), LiveLeft(quota[f].week)) : f \in MostPressed(quota)}

\* isQuotaStale, by one of the lifetimes the choice among equals leaves open
StaleBy(cache, ttl) == cache.at = 0 \/ tick - cache.at > ttl

-----------------------------------------------------------------------------
(* Requests.                                                                *)

Init ==
  /\ doc = Unmeasured
  /\ probe = [p \in Procs |-> NoProbe]
  /\ pc = [r \in Requests |-> "idle"]
  /\ home \in [Requests -> Procs]
  /\ update = [r \in Requests |-> NoUpdate]
  /\ tick = 1

\* a request loads the document, finds the readings stale, and joins the probe under way
\* in its process or starts one with its copy
Ask(r) ==
  /\ pc[r] = "idle"
  /\ \E ttl \in Ttls(doc.quota) : StaleBy(doc, ttl)
  /\ pc' = [pc EXCEPT ![r] = "waiting"]
  /\ probe' = IF probe[home[r]] = NoProbe
                THEN [probe EXCEPT ![home[r]] = [by |-> {r}, copy |-> doc]] ELSE probe
  /\ UNCHANGED <<doc, home, update, tick>>

Waiting(p) == {r \in Requests : home[r] = p /\ pc[r] = "waiting"}

\* the starter and whoever joined it are answered, and the slot is free again
Settle(p, next, result) ==
  /\ pc' = [r \in Requests |-> IF r \in Waiting(p) THEN next ELSE pc[r]]
  /\ update' = [r \in Requests |-> IF r \in Waiting(p) THEN result ELSE update[r]]
  /\ probe' = [probe EXCEPT ![p] = NoProbe]
  /\ UNCHANGED <<doc, home, tick>>

\* both endpoints answer, or the summary's lone failure is an empty answer
Measured(p, models, groups) ==
  /\ probe[p] # NoProbe
  /\ LET found == Found(models, groups)
         quota == Carried(found, probe[p].copy.quota)
     IN  IF \A f \in Families : Readings(quota[f]) = {None}
           THEN Settle(p, "idle", NoUpdate)
           ELSE Settle(p, "writing",
                       [cache |-> [quota |-> quota, at |-> tick], over |-> probe[p].copy,
                        told |-> {f \in Families : found[f].week # None}])

\* no token, no models, or no time left
ProbeFails(p) ==
  /\ probe[p] # NoProbe
  /\ Settle(p, "idle", NoUpdate)

\* the update replaces what the document has by now; a failed write is no failure
Write(r) ==
  /\ pc[r] = "writing"
  /\ pc' = [pc EXCEPT ![r] = "idle"]
  /\ update' = [update EXCEPT ![r] = NoUpdate]
  /\ doc' \in {doc, update[r].cache}
  /\ UNCHANGED <<probe, home, tick>>

Tick ==
  /\ tick < LastTick
  /\ tick' = tick + 1
  /\ UNCHANGED <<doc, probe, pc, home, update>>

Next ==
  \/ \E r \in Requests : Ask(r) \/ Write(r)
  \/ \E p \in Procs :
       \/ \E models \in ModelAnswers, groups \in Summaries : Measured(p, models, groups)
       \/ ProbeFails(p)
  \/ Tick

Spec == Init /\ [][Next]_vars

-----------------------------------------------------------------------------
(* Properties.                                                              *)

ReadingOK(r) == r.left \in -1..1000 /\ r.reset \in Nat
CacheOK(c) ==
  /\ c.at \in 0..LastTick
  /\ DOMAIN c.quota = Families
  /\ \A f \in Families : ReadingOK(c.quota[f].roll) /\ ReadingOK(c.quota[f].week)

TypeOK ==
  /\ CacheOK(doc) /\ tick \in 1..LastTick
  /\ home \in [Requests -> Procs]
  /\ pc \in [Requests -> {"idle", "waiting", "writing"}]
  /\ \A p \in Procs : CacheOK(probe[p].copy) /\ probe[p].by \subseteq Waiting(p)
  /\ \A r \in Requests : CacheOK(update[r].cache) /\ update[r].told \subseteq Families
  \* whoever waits, waits on a probe of its process
  /\ \A r \in Requests : pc[r] = "waiting" => probe[home[r]].by # {}

\* A family with a live window that is spent is measured again after the shortest interval,
\* whatever the other families read and whatever windows have lapsed meanwhile
\* (isQuotaStale, familyQuotaFor).
SpentFamiliesAreRemeasured ==
  \A f \in Families :
    /\ \E r \in Readings(doc.quota[f]) : Live(r) /\ r.left <= WeekEnd
    /\ tick - doc.at > ShortTtl
    => \A ttl \in Ttls(doc.quota) : StaleBy(doc, ttl)

\* What the document calls a rolling window is one: it was measured with the reading's
\* stamp, it was live then, and it refills within the rolling span.  A week filed as a
\* rolling window would block the account for days (agreedWindowKind).
RollingWindowsAreShort ==
  \A f \in Families : LET r == doc.quota[f].roll IN r.reset # 0 => r.reset \in doc.at+1 .. doc.at+RollingSpan

\* A probe that says nothing of a family's week leaves what was known of it: a write over the
\* document its probe began with keeps every live weekly reading that this probe has not
\* replaced (the `previous` of ingestFamilyQuotas).
CarriedWeeksSurvive ==
  [][\A r \in Requests :
       pc[r] = "writing" /\ pc'[r] = "idle" /\ doc = update[r].over =>
         \A f \in Families \ update[r].told : Live(doc.quota[f].week) =>
           doc'.quota[f].week = doc.quota[f].week]_vars
=============================================================================
