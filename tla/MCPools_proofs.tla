----------------------------- MODULE MCPools_proofs -----------------------------
(***************************************************************************)
(* Proofs about the quota readings and the ranking, and about the pool     *)
(* they belong to, for every value of the constants: what the endpoints    *)
(* say, how many accounts, walls and readings there are, how long the      *)
(* intervals are.                                                          *)
(***************************************************************************)
EXTENDS MCPools, SessionPool_proofs

-----------------------------------------------------------------------------
(* The quota readings.                                                      *)

\* What a model or a bucket states: a fraction or none, and a distance to the reset or none.
IsReport(r) == r.left \in -1..1000 /\ r.within \in Nat

\* The endpoints state such reports; a model's window is a rolling one, and a bucket that
\* refills later than a rolling window says that it is weekly, in its id or in its window.
QuotaBounds ==
  /\ LastTick \in Nat \ {0} /\ RollingSpan \in Nat
  /\ \A models \in ModelAnswers : \A f \in QuotaFamilies : \A r \in models[f] :
       IsReport(r) /\ r.within <= RollingSpan
  /\ \A groups \in Summaries : \A g \in groups :
       /\ DOMAIN g.buckets \subseteq Nat
       /\ \A i \in DOMAIN g.buckets :
            /\ IsReport(g.buckets[i])
            /\ g.buckets[i].within > RollingSpan =>
                 g.buckets[i].window = "weekly" \/ g.buckets[i].id = "weekly"

\* A reading without a fraction is none.
ReadingSet == {r \in [left: -1..1000, reset: Nat] : r.left = -1 => r.reset = 0}
Cache == [quota: [QuotaFamilies -> [roll: ReadingSet, week: ReadingSet]], at: 0..LastTick]

\* The rolling windows of a cache refill within the span, counted from its stamp.
IsShort(c) ==
  \A f \in QuotaFamilies : LET r == c.quota[f].roll
                           IN  r.reset # 0 => r.reset \in c.at + 1..c.at + RollingSpan

QuotaTypes ==
  /\ doc \in Cache /\ quotaTick \in 1..LastTick
  /\ home \in [Measurements -> Measurers]
  /\ measurePc \in [Measurements -> {"idle", "waiting", "writing"}]
  /\ measuring \in [Measurers -> [by: SUBSET Measurements, copy: Cache]]
  /\ update \in [Measurements -> [cache: Cache, over: Cache, told: SUBSET QuotaFamilies]]

\* Whoever waits, waits on a probe, and a probe is of someone who waits.
ProbesAreWaitedOn ==
  /\ \A p \in Measurers :
       /\ measuring[p].by \subseteq Quota!Waiting(p)
       /\ measuring[p] # Quota!NoProbe => measuring[p].by # {}
  /\ \A r \in Measurements : measurePc[r] = "waiting" => measuring[home[r]].by # {}

\* An update is of one measurement, and its weeks that were not told are those of the copy.
UpdatesAreOfOneProbe ==
  /\ IsShort(doc) /\ \A r \in Measurements : IsShort(update[r].cache)
  /\ \A r \in Measurements : \A f \in QuotaFamilies \ update[r].told :
       update[r].cache.quota[f].week = update[r].over.quota[f].week

QuotaInv == QuotaTypes /\ ProbesAreWaitedOn /\ UpdatesAreOfOneProbe

\* The least of a set of numbers is one of them.
LEMMA LeastOfNumbers ==
  ASSUME NEW S, S \subseteq Nat, S # {}
  PROVE  Quota!Min(S) \in S /\ \A y \in S : Quota!Min(S) <= y
<1>1. \E x \in S : \A y \in S : x <= y
  BY LeastPosition
<1> QED
  BY <1>1 DEF Quota!Min

\* Nothing measured yet is a cache like any other.
LEMMA NothingMeasured ==
  ASSUME QuotaBounds
  PROVE  /\ Quota!None \in ReadingSet /\ Quota!Unmeasured \in Cache /\ IsShort(Quota!Unmeasured)
         /\ Quota!NoProbe \in [by: SUBSET Measurements, copy: Cache] /\ Quota!NoProbe.by = {}
         /\ Quota!NoUpdate \in [cache: Cache, over: Cache, told: SUBSET QuotaFamilies]
         /\ IsShort(Quota!NoUpdate.cache)
         /\ \A f \in QuotaFamilies :
              Quota!NoUpdate.cache.quota[f].week = Quota!NoUpdate.over.quota[f].week
<1>1. Quota!None \in ReadingSet
  BY DEF ReadingSet, Quota!None
<1>2. 0 \in 0..LastTick
  BY DEF QuotaBounds
<1>3. Quota!Unmeasured \in Cache
  BY <1>1, <1>2 DEF Cache, Quota!Unmeasured
<1>4. IsShort(Quota!Unmeasured)
  BY DEF IsShort, Quota!Unmeasured, Quota!None
<1> QED
  BY <1>1, <1>3, <1>4 DEF Quota!NoProbe, Quota!NoUpdate

\* The worst of readings is a reading, and its reset that of one of them (ingestFamilyQuotas
\* and ingestQuotaGroups take the lowest fraction and the earliest reset).
LEMMA WorstIsAReading ==
  ASSUME NEW rs, rs \subseteq ReadingSet, Quota!None \notin rs
  PROVE  /\ Quota!Worst(rs) \in ReadingSet
         /\ Quota!Worst(rs).reset # 0 => \E r \in rs : r.reset = Quota!Worst(rs).reset
<1> DEFINE stated == {r.reset : r \in rs} \ {0}
           lefts == {r.left : r \in rs}
           w == Quota!Worst(rs)
<1>1. w = IF rs = {} THEN Quota!None
          ELSE [left |-> Quota!Min(lefts), reset |-> IF stated = {} THEN 0 ELSE Quota!Min(stated)]
  BY DEF Quota!Worst
<1>2. CASE rs = {}
  BY <1>1, <1>2 DEF ReadingSet, Quota!None
<1>3. CASE rs # {}
  <2>1. \A r \in rs : r.left \in 0..1000 /\ r.reset \in Nat
    BY DEF ReadingSet, Quota!None
  <2>a. lefts # {} /\ \A n \in lefts : n \in 0..1000
    BY <1>3, <2>1
  <2>b. \A n \in stated : n \in Nat
    BY <2>1
  <2>c. \A n \in stated : \E r \in rs : r.reset = n
    OBVIOUS
  <2> HIDE DEF lefts, stated, w
  <2>2. lefts \subseteq 0..1000 /\ lefts \subseteq Nat /\ lefts # {} /\ stated \subseteq Nat
    BY <2>a, <2>b
  <2>3. Quota!Min(lefts) \in 0..1000
    BY <2>2, LeastOfNumbers
  <2>4. stated # {} => Quota!Min(stated) \in stated
    BY <2>2, LeastOfNumbers
  <2> DEFINE reset == IF stated = {} THEN 0 ELSE Quota!Min(stated)
  <2>5. reset \in Nat /\ (reset # 0 => \E r \in rs : r.reset = reset)
    <3>1. CASE stated = {}
      BY <3>1
    <3>2. CASE stated # {}
      <4>1. reset \in stated
        BY <2>4, <3>2
      <4> HIDE DEF reset
      <4> QED
        BY <2>2, <2>c, <4>1
    <3> QED
      BY <3>1, <3>2
  <2>6. w = [left |-> Quota!Min(lefts), reset |-> reset]
    BY <1>1, <1>3 DEF w, lefts, stated
  <2> HIDE DEF reset
  <2>7. w \in ReadingSet /\ w.reset = reset
    BY <2>3, <2>5, <2>6 DEF ReadingSet
  <2> QED
    BY <2>5, <2>7 DEF w
<1> HIDE DEF w
<1> QED
  BY <1>2, <1>3 DEF w

\* What a report says is a reading, that refills as far ahead as the report says.
LEMMA ReportsAreReadings ==
  ASSUME QuotaBounds, QuotaTypes, NEW r, IsReport(r)
  PROVE  /\ Quota!Reading(r) \in ReadingSet
         /\ Quota!Reading(r).reset # 0 =>
              Quota!Reading(r).reset = quotaTick + r.within /\ r.within > 0
<1>1. quotaTick \in Nat
  BY DEF QuotaTypes, QuotaBounds
<1>2. CASE r.left = -1
  BY <1>2 DEF Quota!Reading, Quota!None, ReadingSet
<1>3. CASE r.left # -1
  <2>1. r.left \in 0..1000 /\ r.within \in Nat
    BY <1>3 DEF IsReport
  <2>2. Quota!Reading(r) = [left |-> r.left,
                            reset |-> IF r.within = 0 THEN 0 ELSE quotaTick + r.within]
    BY <1>3 DEF Quota!Reading
  <2> QED
    BY <1>1, <2>1, <2>2 DEF ReadingSet
<1> QED
  BY <1>2, <1>3

\* What the groups say of a family's window: a reading, and of a rolling window one that
\* refills within the span.
LEMMA GroupsSayReadings ==
  ASSUME QuotaBounds, QuotaTypes, NEW groups \in Summaries, NEW f, NEW kind
  PROVE  LET r == Quota!FromGroups(groups, f, kind)
         IN  /\ r \in ReadingSet
             /\ kind = "5h" /\ r.reset # 0 => r.reset \in quotaTick + 1..quotaTick + RollingSpan
<1> DEFINE ofKind(g) == {i \in DOMAIN g.buckets : Quota!Agrees(g.buckets[i], kind)}
           about == {g \in groups : f \in Quota!FamiliesOf(g) /\ ofKind(g) # {}}
           first(g) == g.buckets[Quota!Min(ofKind(g))]
           rs == {Quota!Reading(first(g)) : g \in about} \ {Quota!None}
<1>1. Quota!FromGroups(groups, f, kind) = Quota!Worst(rs)
  BY DEF Quota!FromGroups
<1>2. ASSUME NEW g \in about
      PROVE  IsReport(first(g)) /\ Quota!Agrees(first(g), kind)
             /\ (kind = "5h" => first(g).within <= RollingSpan)
  <2>1. /\ ofKind(g) \subseteq Nat /\ ofKind(g) # {} /\ g \in groups
    BY DEF QuotaBounds
  <2>2. Quota!Min(ofKind(g)) \in ofKind(g)
    BY <2>1, LeastOfNumbers
  <2>3. /\ Quota!Min(ofKind(g)) \in DOMAIN g.buckets
        /\ Quota!Agrees(first(g), kind)
    BY <2>2
  <2>4. /\ IsReport(first(g))
        /\ first(g).within > RollingSpan => first(g).window = "weekly" \/ first(g).id = "weekly"
    BY <2>1, <2>3 DEF QuotaBounds
  <2> HIDE DEF first
  <2>5. kind = "5h" => first(g).within <= RollingSpan
    BY <2>3, <2>4 DEF Quota!Agrees, IsReport, QuotaBounds
  <2> QED
    BY <2>3, <2>4, <2>5
<1> HIDE DEF first, about
<1>3. ASSUME NEW r \in rs
      PROVE  /\ r \in ReadingSet
             /\ kind = "5h" /\ r.reset # 0 => r.reset \in quotaTick + 1..quotaTick + RollingSpan
  <2>1. PICK g \in about : r = Quota!Reading(first(g))
    BY <1>3
  <2>2. /\ r \in ReadingSet
        /\ r.reset # 0 => r.reset = quotaTick + first(g).within /\ first(g).within > 0
    BY <1>2, <2>1, ReportsAreReadings
  <2>3. quotaTick \in Nat /\ RollingSpan \in Nat /\ first(g).within \in Nat
    BY <1>2 DEF QuotaTypes, QuotaBounds, IsReport
  <2> QED
    BY <1>2, <2>2, <2>3
<1>4. rs \subseteq ReadingSet /\ Quota!None \notin rs
  BY <1>3
<1> HIDE DEF rs
<1>5. /\ Quota!Worst(rs) \in ReadingSet
      /\ Quota!Worst(rs).reset # 0 => \E r \in rs : r.reset = Quota!Worst(rs).reset
  BY <1>4, WorstIsAReading
<1> QED
  BY <1>1, <1>3, <1>5

\* What a probe found: readings of both windows, the rolling one within the span.
LEMMA ProbesFindReadings ==
  ASSUME QuotaBounds, QuotaTypes, NEW models \in ModelAnswers, NEW groups \in Summaries,
         NEW f \in QuotaFamilies
  PROVE  LET q == Quota!Found(models, groups)[f]
         IN  /\ q = [roll |-> q.roll, week |-> q.week]
             /\ q.roll \in ReadingSet /\ q.week \in ReadingSet
             /\ q.roll.reset # 0 => q.roll.reset \in quotaTick + 1..quotaTick + RollingSpan
<1> DEFINE g == Quota!FromGroups(groups, f, "5h")
           rs == ({g} \ {Quota!None}) \cup Quota!FromModels(models, f)
           week == Quota!FromGroups(groups, f, "weekly")
<1>1. Quota!Found(models, groups)[f] = [roll |-> Quota!Worst(rs), week |-> week]
  BY DEF Quota!Found
<1>2. /\ g \in ReadingSet /\ week \in ReadingSet
      /\ g.reset # 0 => g.reset \in quotaTick + 1..quotaTick + RollingSpan
  BY GroupsSayReadings
<1> HIDE DEF g, week
<1>3. ASSUME NEW r \in Quota!FromModels(models, f)
      PROVE  /\ r \in ReadingSet /\ r # Quota!None
             /\ r.reset # 0 => r.reset \in quotaTick + 1..quotaTick + RollingSpan
  <2>1. PICK report \in models[f] : r = Quota!Reading(report) /\ r # Quota!None
    BY <1>3 DEF Quota!FromModels
  <2>2. IsReport(report) /\ report.within <= RollingSpan
    BY DEF QuotaBounds
  <2>3. /\ r \in ReadingSet
        /\ r.reset # 0 => r.reset = quotaTick + report.within /\ report.within > 0
    BY <2>1, <2>2, ReportsAreReadings
  <2>4. quotaTick \in Nat /\ RollingSpan \in Nat /\ report.within \in Nat
    BY <2>2 DEF QuotaTypes, QuotaBounds, IsReport
  <2> QED
    BY <2>1, <2>2, <2>3, <2>4
<1>4. rs \subseteq ReadingSet /\ Quota!None \notin rs
  BY <1>2, <1>3
<1>5. \A r \in rs : r.reset # 0 => r.reset \in quotaTick + 1..quotaTick + RollingSpan
  BY <1>2, <1>3
<1> HIDE DEF rs
<1>6. /\ Quota!Worst(rs) \in ReadingSet
      /\ Quota!Worst(rs).reset # 0 => \E r \in rs : r.reset = Quota!Worst(rs).reset
  BY <1>4, WorstIsAReading
<1>7. /\ Quota!Found(models, groups)[f].roll = Quota!Worst(rs)
      /\ Quota!Found(models, groups)[f].week = week
  BY <1>1
<1>8. Quota!Worst(rs).reset # 0 => Quota!Worst(rs).reset \in quotaTick + 1..quotaTick + RollingSpan
  BY <1>5, <1>6
<1> QED
  BY <1>1, <1>2, <1>6, <1>7, <1>8

\* The update that a measurement makes: a cache of its tick, with its rolling windows, and
\* with the weeks of the copy where it was told none.
LEMMA UpdatesFit ==
  ASSUME QuotaBounds, QuotaTypes, NEW models \in ModelAnswers, NEW groups \in Summaries,
         NEW copy \in Cache
  PROVE  LET found == Quota!Found(models, groups)
             u == [cache |-> [quota |-> Quota!Carried(found, copy.quota), at |-> quotaTick],
                   over |-> copy, told |-> {f \in QuotaFamilies : found[f].week # Quota!None}]
         IN  /\ u \in [cache: Cache, over: Cache, told: SUBSET QuotaFamilies]
             /\ IsShort(u.cache)
             /\ \A f \in QuotaFamilies \ u.told :
                  u.cache.quota[f].week = u.over.quota[f].week
<1> DEFINE found == Quota!Found(models, groups)
           carried == Quota!Carried(found, copy.quota)
           told == {f \in QuotaFamilies : found[f].week # Quota!None}
           u == [cache |-> [quota |-> carried, at |-> quotaTick], over |-> copy, told |-> told]
<1>1. \A f \in QuotaFamilies :
        /\ found[f] = [roll |-> found[f].roll, week |-> found[f].week]
        /\ found[f].roll \in ReadingSet /\ found[f].week \in ReadingSet
        /\ found[f].roll.reset # 0 =>
             found[f].roll.reset \in quotaTick + 1..quotaTick + RollingSpan
  BY ProbesFindReadings
<1>2. carried = [f \in QuotaFamilies |->
                   IF found[f].week = Quota!None
                     THEN [found[f] EXCEPT !.week = copy.quota[f].week] ELSE found[f]]
  BY DEF Quota!Carried
<1>3. \A f \in QuotaFamilies : copy.quota[f].week \in ReadingSet
  BY DEF Cache
<1> HIDE DEF found
<1>4. ASSUME NEW f \in QuotaFamilies
      PROVE  /\ carried[f] \in [roll: ReadingSet, week: ReadingSet]
             /\ carried[f].roll = found[f].roll
             /\ f \notin told => carried[f].week = copy.quota[f].week
  <2>1. carried[f] = IF found[f].week = Quota!None
                       THEN [found[f] EXCEPT !.week = copy.quota[f].week] ELSE found[f]
    BY <1>2
  <2> HIDE DEF carried
  <2> DEFINE q == found[f]
             w == copy.quota[f].week
  <2>2. q \in [roll: ReadingSet, week: ReadingSet] /\ w \in ReadingSet
    <3>1. q = [roll |-> q.roll, week |-> q.week] /\ q.roll \in ReadingSet /\ q.week \in ReadingSet
      BY <1>1
    <3>2. w \in ReadingSet
      BY <1>3
    <3> HIDE DEF q, w
    <3> QED
      BY <3>1, <3>2
  <2>3. f \notin told => q.week = Quota!None
    OBVIOUS
  <2> HIDE DEF q, w, told
  <2>4. carried[f] = IF q.week = Quota!None THEN [q EXCEPT !.week = w] ELSE q
    BY <2>1 DEF q, w
  <2>5. /\ carried[f] \in [roll: ReadingSet, week: ReadingSet] /\ carried[f].roll = q.roll
        /\ f \notin told => carried[f].week = w
    BY <2>2, <2>3, <2>4
  <2> QED
    BY <2>5 DEF q, w
<1>5. carried \in [QuotaFamilies -> [roll: ReadingSet, week: ReadingSet]]
  BY <1>2, <1>4
<1> HIDE DEF carried, told
<1>6. quotaTick \in 0..LastTick
  BY DEF QuotaTypes, QuotaBounds
<1>7. told \subseteq QuotaFamilies
  BY DEF told
<1>8. u \in [cache: Cache, over: Cache, told: SUBSET QuotaFamilies]
  BY <1>5, <1>6, <1>7 DEF Cache
<1>9. IsShort([quota |-> carried, at |-> quotaTick])
  BY <1>1, <1>4 DEF IsShort
<1> QED
  BY <1>4, <1>8, <1>9 DEF carried, told, found

\* The readings start unmeasured, with nobody under way.
LEMMA QuotaStarts ==
  ASSUME QuotaBounds, Quota!Init
  PROVE  QuotaInv
<1>1. /\ doc = Quota!Unmeasured /\ measuring = [p \in Measurers |-> Quota!NoProbe]
      /\ measurePc = [r \in Measurements |-> "idle"] /\ home \in [Measurements -> Measurers]
      /\ update = [r \in Measurements |-> Quota!NoUpdate] /\ quotaTick = 1
  BY DEF Quota!Init
<1>2. 1 \in 1..LastTick
  BY DEF QuotaBounds
<1>3. QuotaTypes
  BY <1>1, <1>2, NothingMeasured DEF QuotaTypes
<1>4. ProbesAreWaitedOn
  BY <1>1, NothingMeasured DEF ProbesAreWaitedOn
<1>5. UpdatesAreOfOneProbe
  BY <1>1, NothingMeasured DEF UpdatesAreOfOneProbe
<1> QED
  BY <1>3, <1>4, <1>5 DEF QuotaInv

\* A request joins the probe of its process, or starts it.
LEMMA AskKeeps ==
  ASSUME QuotaBounds, QuotaInv, NEW r \in Measurements, Quota!Ask(r)
  PROVE  QuotaInv'
<1> USE DEF QuotaInv
<1>2. PICK h \in Measurers : h = home[r]
  BY DEF QuotaTypes
<1>1. /\ measurePc[r] = "idle" /\ measurePc' = [measurePc EXCEPT ![r] = "waiting"]
      /\ measuring' = IF measuring[h] = Quota!NoProbe
                        THEN [measuring EXCEPT ![h] = [by |-> {r}, copy |-> doc]] ELSE measuring
      /\ doc' = doc /\ home' = home /\ update' = update /\ quotaTick' = quotaTick
  BY <1>2 DEF Quota!Ask
<1>3. measuring' \in [Measurers -> [by: SUBSET Measurements, copy: Cache]]
  BY <1>1, <1>2 DEF QuotaTypes
<1>4. measurePc' \in [Measurements -> {"idle", "waiting", "writing"}]
  BY <1>1 DEF QuotaTypes
<1>5. QuotaTypes'
  BY <1>1, <1>3, <1>4 DEF QuotaTypes
<1>6. \A p \in Measurers : Quota!Waiting(p)' = {q \in Measurements :
                              home[q] = p /\ (q = r \/ measurePc[q] = "waiting")}
  BY <1>1, <1>4 DEF Quota!Waiting, QuotaTypes
<1>7. measuring'[h].by # {} /\ \A p \in Measurers : p # h => measuring'[p] = measuring[p]
  <2>1. CASE measuring[h] = Quota!NoProbe
    BY <1>1, <1>2, <2>1 DEF QuotaTypes
  <2>2. CASE measuring[h] # Quota!NoProbe
    BY <1>1, <1>2, <2>2 DEF ProbesAreWaitedOn
  <2> QED
    BY <2>1, <2>2
<1>8. ASSUME NEW p \in Measurers
      PROVE  /\ measuring'[p].by \subseteq Quota!Waiting(p)'
             /\ measuring'[p] # Quota!NoProbe => measuring'[p].by # {}
  <2>1. measuring[p].by \subseteq Quota!Waiting(p)'
    BY <1>6 DEF ProbesAreWaitedOn, Quota!Waiting
  <2>2. \/ measuring'[p] = measuring[p]
        \/ measuring'[p].by = {r} /\ p = h
    BY <1>1, <1>2 DEF QuotaTypes
  <2>3. r \in Quota!Waiting(h)'
    BY <1>2, <1>6
  <2> QED
    BY <2>1, <2>2, <2>3 DEF ProbesAreWaitedOn
<1>9. ASSUME NEW q \in Measurements, measurePc'[q] = "waiting"
      PROVE  measuring'[home'[q]].by # {}
  <2>1. CASE home[q] = h
    BY <1>1, <1>7, <2>1
  <2>2. CASE home[q] # h
    <3>1. q # r /\ measurePc[q] = "waiting" /\ home[q] \in Measurers
      BY <1>1, <1>2, <1>9, <2>2 DEF QuotaTypes
    <3> QED
      BY <1>1, <1>7, <2>2, <3>1 DEF ProbesAreWaitedOn
  <2> QED
    BY <2>1, <2>2
<1>10. ProbesAreWaitedOn'
  BY <1>8, <1>9 DEF ProbesAreWaitedOn
<1>11. UpdatesAreOfOneProbe'
  BY <1>1 DEF UpdatesAreOfOneProbe
<1> QED
  BY <1>5, <1>10, <1>11

\* A probe settles: everyone who waited on it is answered with what it gives, if that is an
\* update.
LEMMA SettleKeeps ==
  ASSUME QuotaBounds, QuotaInv, NEW p \in Measurers, NEW next \in {"idle", "writing"},
         NEW u \in [cache: Cache, over: Cache, told: SUBSET QuotaFamilies], IsShort(u.cache),
         \A f \in QuotaFamilies \ u.told : u.cache.quota[f].week = u.over.quota[f].week,
         Quota!Settle(p, next, u)
  PROVE  QuotaInv'
<1> USE DEF QuotaInv
<1>1. /\ measurePc' = [r \in Measurements |-> IF r \in Quota!Waiting(p) THEN next ELSE measurePc[r]]
      /\ update' = [r \in Measurements |-> IF r \in Quota!Waiting(p) THEN u ELSE update[r]]
      /\ measuring' = [measuring EXCEPT ![p] = Quota!NoProbe]
      /\ doc' = doc /\ home' = home /\ quotaTick' = quotaTick
  BY DEF Quota!Settle
<1>2. QuotaTypes'
  <2>1. measurePc' \in [Measurements -> {"idle", "waiting", "writing"}]
    BY <1>1 DEF QuotaTypes
  <2>2. update' \in [Measurements -> [cache: Cache, over: Cache, told: SUBSET QuotaFamilies]]
    BY <1>1 DEF QuotaTypes
  <2>3. measuring' \in [Measurers -> [by: SUBSET Measurements, copy: Cache]]
    BY <1>1, NothingMeasured DEF QuotaTypes
  <2> QED
    BY <1>1, <2>1, <2>2, <2>3 DEF QuotaTypes
<1>3. ASSUME NEW q \in Measurers
      PROVE  /\ measuring'[q].by \subseteq Quota!Waiting(q)'
             /\ measuring'[q] # Quota!NoProbe => measuring'[q].by # {}
  <2>1. CASE q = p
    BY <1>1, <2>1, NothingMeasured DEF QuotaTypes
  <2>2. CASE q # p
    <3>1. measuring'[q] = measuring[q]
      BY <1>1, <2>2 DEF QuotaTypes
    <3>2. Quota!Waiting(q) \subseteq Quota!Waiting(q)'
      BY <1>1, <2>2 DEF Quota!Waiting
    <3> QED
      BY <3>1, <3>2 DEF ProbesAreWaitedOn
  <2> QED
    BY <2>1, <2>2
<1>4. ASSUME NEW r \in Measurements, measurePc'[r] = "waiting"
      PROVE  measuring'[home'[r]].by # {}
  <2>1. r \notin Quota!Waiting(p) /\ measurePc[r] = "waiting" /\ home[r] \in Measurers
    BY <1>1, <1>4 DEF QuotaTypes
  <2>2. home[r] # p
    BY <2>1 DEF Quota!Waiting
  <2>3. measuring'[home[r]] = measuring[home[r]]
    BY <1>1, <2>1, <2>2 DEF QuotaTypes
  <2> QED
    BY <1>1, <2>1, <2>3 DEF ProbesAreWaitedOn
<1>5. ProbesAreWaitedOn'
  BY <1>3, <1>4 DEF ProbesAreWaitedOn
<1>6. UpdatesAreOfOneProbe'
  <2>1. \A r \in Measurements : update'[r] = u \/ update'[r] = update[r]
    BY <1>1
  <2> QED
    BY <1>1, <2>1 DEF UpdatesAreOfOneProbe
<1> QED
  BY <1>2, <1>5, <1>6

\* A measurement, or a probe that fails, settles.
LEMMA ProbeStepKeeps ==
  ASSUME QuotaBounds, QuotaInv, NEW p \in Measurers,
         Quota!ProbeFails(p) \/ \E models \in ModelAnswers, groups \in Summaries :
                                  Quota!Measured(p, models, groups)
  PROVE  QuotaInv'
<1>1. CASE Quota!Settle(p, "idle", Quota!NoUpdate)
  BY <1>1, NothingMeasured, SettleKeeps
<1>2. ASSUME NEW models \in ModelAnswers, NEW groups \in Summaries,
             Quota!Measured(p, models, groups)
      PROVE  QuotaInv'
  <2> DEFINE copy == measuring[p].copy
             found == Quota!Found(models, groups)
             u == [cache |-> [quota |-> Quota!Carried(found, copy.quota), at |-> quotaTick],
                   over |-> copy, told |-> {f \in QuotaFamilies : found[f].week # Quota!None}]
  <2>1. Quota!Settle(p, "idle", Quota!NoUpdate) \/ Quota!Settle(p, "writing", u)
    BY <1>2 DEF Quota!Measured
  <2>2. copy \in Cache
    BY DEF QuotaInv, QuotaTypes
  <2>3. /\ u \in [cache: Cache, over: Cache, told: SUBSET QuotaFamilies] /\ IsShort(u.cache)
        /\ \A f \in QuotaFamilies \ u.told : u.cache.quota[f].week = u.over.quota[f].week
    BY <2>2, UpdatesFit DEF QuotaInv
  <2> HIDE DEF u
  <2> QED
    BY <1>1, <2>1, <2>3, SettleKeeps
<1> QED
  BY <1>1, <1>2 DEF Quota!ProbeFails

\* A write replaces the document's readings, or fails.
LEMMA WriteKeeps ==
  ASSUME QuotaBounds, QuotaInv, NEW r \in Measurements, Quota!Write(r)
  PROVE  QuotaInv'
<1> USE DEF QuotaInv
<1>1. /\ measurePc[r] = "writing" /\ measurePc' = [measurePc EXCEPT ![r] = "idle"]
      /\ update' = [update EXCEPT ![r] = Quota!NoUpdate] /\ doc' \in {doc, update[r].cache}
      /\ measuring' = measuring /\ home' = home /\ quotaTick' = quotaTick
  BY DEF Quota!Write
<1>2. QuotaTypes'
  <2>1. update' \in [Measurements -> [cache: Cache, over: Cache, told: SUBSET QuotaFamilies]]
    BY <1>1, NothingMeasured DEF QuotaTypes
  <2>2. doc' \in Cache /\ measurePc' \in [Measurements -> {"idle", "waiting", "writing"}]
    BY <1>1 DEF QuotaTypes
  <2> QED
    BY <1>1, <2>1, <2>2 DEF QuotaTypes
<1>3. \A q \in Measurements : measurePc'[q] = "waiting" <=> measurePc[q] = "waiting"
  BY <1>1 DEF QuotaTypes
<1>4. \A p \in Measurers : Quota!Waiting(p)' = Quota!Waiting(p)
  BY <1>1, <1>3 DEF Quota!Waiting
<1>5. ProbesAreWaitedOn'
  BY <1>1, <1>3, <1>4 DEF ProbesAreWaitedOn
<1>6. \A q \in Measurements : update'[q] = update[q] \/ update'[q] = Quota!NoUpdate
  BY <1>1 DEF QuotaTypes
<1>7. UpdatesAreOfOneProbe'
  BY <1>1, <1>6, NothingMeasured DEF UpdatesAreOfOneProbe
<1> QED
  BY <1>2, <1>5, <1>7

\* Every step of the readings keeps their invariant.
LEMMA QuotaStepKeeps ==
  ASSUME QuotaBounds, QuotaInv, [Quota!Next]_(Quota!vars)
  PROVE  QuotaInv'
<1>1. CASE UNCHANGED Quota!vars
  <2>1. /\ doc' = doc /\ measuring' = measuring /\ measurePc' = measurePc /\ home' = home
        /\ update' = update /\ quotaTick' = quotaTick
    BY <1>1 DEF Quota!vars
  <2> QED
    BY <2>1 DEF QuotaInv, QuotaTypes, ProbesAreWaitedOn, UpdatesAreOfOneProbe, Quota!Waiting
<1>2. CASE Quota!Tick
  <2>1. /\ doc' = doc /\ measuring' = measuring /\ measurePc' = measurePc /\ home' = home
        /\ update' = update /\ quotaTick < LastTick /\ quotaTick' = quotaTick + 1
    BY <1>2 DEF Quota!Tick
  <2>2. quotaTick' \in 1..LastTick
    BY <2>1 DEF QuotaInv, QuotaTypes, QuotaBounds
  <2> QED
    BY <2>1, <2>2 DEF QuotaInv, QuotaTypes, ProbesAreWaitedOn, UpdatesAreOfOneProbe, Quota!Waiting
<1>3. CASE \E r \in Measurements : Quota!Ask(r) \/ Quota!Write(r)
  BY <1>3, AskKeeps, WriteKeeps
<1>4. CASE \E p \in Measurers :
             \/ \E models \in ModelAnswers, groups \in Summaries : Quota!Measured(p, models, groups)
             \/ Quota!ProbeFails(p)
  BY <1>4, ProbeStepKeeps
<1> QED
  BY <1>1, <1>2, <1>3, <1>4 DEF Quota!Next

\* The invariant of the readings holds in every state.
LEMMA QuotaAlways ==
  ASSUME QuotaBounds
  PROVE  Quota!Spec => []QuotaInv
<1>1. Quota!Init => QuotaInv
  BY QuotaStarts
<1>2. QuotaInv /\ [Quota!Next]_(Quota!vars) => QuotaInv'
  BY QuotaStepKeeps
<1> QED
  BY <1>1, <1>2, PTL DEF Quota!Spec

\* A cache of the set is one of the type.
LEMMA CachesAreOK ==
  ASSUME NEW c \in Cache
  PROVE  Quota!CacheOK(c)
<1>1. c.at \in 0..LastTick /\ c.quota \in [QuotaFamilies -> [roll: ReadingSet, week: ReadingSet]]
  BY DEF Cache
<1>2. \A f \in QuotaFamilies : c.quota[f].roll \in ReadingSet /\ c.quota[f].week \in ReadingSet
  BY <1>1
<1>3. \A r \in ReadingSet : Quota!ReadingOK(r)
  BY DEF ReadingSet, Quota!ReadingOK
<1> QED
  BY <1>1, <1>2, <1>3 DEF Quota!CacheOK

\* Every variable of the readings has its type.
THEOREM QuotaTypesCorrect ==
  ASSUME QuotaBounds
  PROVE  Quota!Spec => []Quota!TypeOK
<1>1. QuotaInv => Quota!TypeOK
  <2> SUFFICES ASSUME QuotaInv PROVE Quota!TypeOK
    OBVIOUS
  <2>1. /\ doc \in Cache /\ quotaTick \in 1..LastTick
        /\ home \in [Measurements -> Measurers]
        /\ measurePc \in [Measurements -> {"idle", "waiting", "writing"}]
    BY DEF QuotaInv, QuotaTypes
  <2>2. \A p \in Measurers : measuring[p].copy \in Cache /\ measuring[p].by \subseteq Quota!Waiting(p)
    BY DEF QuotaInv, QuotaTypes, ProbesAreWaitedOn
  <2>3. \A r \in Measurements :
          /\ update[r].cache \in Cache /\ update[r].told \subseteq QuotaFamilies
          /\ measurePc[r] = "waiting" => measuring[home[r]].by # {}
    BY DEF QuotaInv, QuotaTypes, ProbesAreWaitedOn
  <2> QED
    BY <2>1, <2>2, <2>3, CachesAreOK DEF Quota!TypeOK
<1> QED
  BY <1>1, QuotaAlways, PTL

\* A family that has a live window and little left is among the most pressed, or others that
\* have as little are, and every one of these is asked about again after the shortest
\* interval (computeSoftQuotaCacheTtlMs).
LEMMA PressureShortens ==
  ASSUME QuotaInv, NEW f \in QuotaFamilies, NEW r \in Quota!Readings(doc.quota[f]),
         Quota!Live(r), r.left <= Quota!WeekEnd, NEW ttl \in Quota!Ttls(doc.quota)
  PROVE  ttl = ShortTtl
<1> DEFINE quota == doc.quota
<1>1. quota \in [QuotaFamilies -> [roll: ReadingSet, week: ReadingSet]]
  BY DEF QuotaInv, QuotaTypes, Cache
<1> HIDE DEF quota
<1>2. \A g \in QuotaFamilies : \A s \in Quota!Readings(quota[g]) :
        s \in ReadingSet /\ (Quota!Live(s) => s.left \in 0..1000 /\ s.left \in Nat)
  BY <1>1 DEF Quota!Readings, ReadingSet, Quota!Live, Quota!None
<1>3. ASSUME NEW g \in QuotaFamilies
      PROVE  /\ Quota!Scores(quota[g]) \subseteq Nat
             /\ \A n : n \in Quota!Scores(quota[g]) <=>
                  \E s \in Quota!Readings(quota[g]) : Quota!Live(s) /\ s.left = n
  BY <1>2 DEF Quota!Scores
<1>4. r.left \in Quota!Scores(quota[f]) /\ r.left \in Nat
  BY <1>2, <1>3 DEF quota
<1>5. Quota!Scores(quota[f]) # {}
  BY <1>4
<1>6. Quota!Min(Quota!Scores(quota[f])) <= r.left /\ Quota!Min(Quota!Scores(quota[f])) \in Nat
  BY <1>3, <1>4, <1>5, LeastOfNumbers
<1>7. ASSUME NEW g \in Quota!MostPressed(quota)
      PROVE  Quota!Ttl(Quota!LiveLeft(quota[g].roll), Quota!LiveLeft(quota[g].week)) = ShortTtl
  <2>1. /\ g \in QuotaFamilies /\ Quota!Scores(quota[g]) # {}
        /\ Quota!Min(Quota!Scores(quota[g])) <= Quota!Min(Quota!Scores(quota[f]))
    BY <1>5, <1>7 DEF Quota!MostPressed
  <2>2. Quota!Min(Quota!Scores(quota[g])) \in Quota!Scores(quota[g])
    BY <1>3, <2>1, LeastOfNumbers
  <2>3. PICK s \in Quota!Readings(quota[g]) :
          Quota!Live(s) /\ s.left = Quota!Min(Quota!Scores(quota[g]))
    BY <1>3, <2>1, <2>2
  <2>4. s.left \in 0..1000 /\ s.left <= 10
    BY <1>2, <1>4, <1>6, <2>1, <2>3 DEF Quota!WeekEnd
  <2>5. s = quota[g].roll \/ s = quota[g].week
    BY DEF Quota!Readings
  <2>6. Quota!LiveLeft(s) = s.left
    BY <2>3 DEF Quota!LiveLeft
  <2>7. /\ s.left \in 0..Quota!Soft - 1 /\ s.left \in 0..Quota!WeekEnd
    BY <2>4 DEF Quota!Soft, Quota!WeekEnd
  <2> QED
    BY <2>5, <2>6, <2>7 DEF Quota!Ttl
<1>8. f \in {g \in QuotaFamilies : Quota!Scores(quota[g]) # {}}
  BY <1>5
<1>9. Quota!MostPressed(quota) # {}
  <2> DEFINE scored == {g \in QuotaFamilies : Quota!Scores(quota[g]) # {}}
             least(g) == Quota!Min(Quota!Scores(quota[g]))
             S == {least(g) : g \in scored}
  <2>1. \A g \in scored : least(g) \in Nat
    BY <1>3, LeastOfNumbers
  <2>2. S \subseteq Nat /\ S # {}
    BY <1>8, <2>1
  <2>3. PICK n \in S : \A m \in S : n <= m
    <3> HIDE DEF S
    <3> QED
      BY <2>2, LeastPosition
  <2>4. PICK g \in scored : n = least(g)
    BY <2>3
  <2>5. \A h \in scored : least(g) <= least(h)
    BY <2>3, <2>4
  <2> QED
    BY <2>4, <2>5 DEF Quota!MostPressed
<1>10. \E g \in Quota!MostPressed(quota) :
         ttl = Quota!Ttl(Quota!LiveLeft(quota[g].roll), Quota!LiveLeft(quota[g].week))
  BY <1>9 DEF Quota!Ttls, quota
<1> QED
  BY <1>7, <1>10

\* A family with a live window that is spent is measured again after the shortest interval,
\* whatever the other families read and whatever windows have lapsed meanwhile.
THEOREM SpentFamiliesComeUpSoon ==
  ASSUME QuotaBounds
  PROVE  Quota!Spec => []Quota!SpentFamiliesAreRemeasured
<1>1. QuotaInv => Quota!SpentFamiliesAreRemeasured
  <2> SUFFICES ASSUME QuotaInv, NEW f \in QuotaFamilies,
                      NEW r \in Quota!Readings(doc.quota[f]),
                      Quota!Live(r), r.left <= Quota!WeekEnd, quotaTick - doc.at > ShortTtl,
                      NEW ttl \in Quota!Ttls(doc.quota)
               PROVE  Quota!StaleBy(doc, ttl)
    BY Zenon DEF Quota!SpentFamiliesAreRemeasured
  <2>1. ttl = ShortTtl
    BY PressureShortens
  <2> QED
    BY <2>1 DEF Quota!StaleBy
<1> QED
  BY <1>1, QuotaAlways, PTL

\* What the document calls a rolling window refills within the span, counted from the stamp
\* of the readings, whatever weeks the endpoints file as rolling ones.
THEOREM RollingWindowsStayShort ==
  ASSUME QuotaBounds
  PROVE  Quota!Spec => []Quota!RollingWindowsAreShort
<1>1. QuotaInv => Quota!RollingWindowsAreShort
  BY DEF QuotaInv, UpdatesAreOfOneProbe, IsShort, Quota!RollingWindowsAreShort
<1> QED
  BY <1>1, QuotaAlways, PTL

\* A write over the document its probe began with keeps every live week the probe was told
\* nothing of, however many requests joined it and whatever it measured of other families.
THEOREM UntoldWeeksSurvive ==
  ASSUME QuotaBounds
  PROVE  Quota!Spec => Quota!CarriedWeeksSurvive
<1>1. QuotaInv /\ [Quota!Next]_(Quota!vars) =>
        [\A r \in Measurements :
           measurePc[r] = "writing" /\ measurePc'[r] = "idle" /\ doc = update[r].over =>
             \A f \in QuotaFamilies \ update[r].told : Quota!Live(doc.quota[f].week) =>
               doc'.quota[f].week = doc.quota[f].week]_(Quota!vars)
  <2> SUFFICES ASSUME QuotaInv, Quota!Next, NEW r \in Measurements,
                      measurePc[r] = "writing", measurePc'[r] = "idle", doc = update[r].over,
                      NEW f \in QuotaFamilies \ update[r].told
               PROVE  doc'.quota[f].week = doc.quota[f].week
    BY Zenon
  <2>1. update[r].cache.quota[f].week = doc.quota[f].week
    BY DEF QuotaInv, UpdatesAreOfOneProbe
  <2>2. measurePc \in [Measurements -> {"idle", "waiting", "writing"}]
    BY DEF QuotaInv, QuotaTypes
  <2>3. CASE Quota!Tick
    BY <2>3 DEF Quota!Tick
  <2>4. ASSUME NEW q \in Measurements, Quota!Ask(q) PROVE doc' = doc
    BY <2>4 DEF Quota!Ask
  <2>5. ASSUME NEW q \in Measurements, Quota!Write(q)
        PROVE  doc' = doc \/ doc' = update[r].cache
    <3>1. CASE q = r
      BY <2>5, <3>1 DEF Quota!Write
    <3>2. CASE q # r
      BY <2>2, <2>5, <3>2 DEF Quota!Write
    <3> QED
      BY <3>1, <3>2
  <2>6. ASSUME NEW p \in Measurers, NEW next, NEW u, Quota!Settle(p, next, u) PROVE doc' = doc
    BY <2>6 DEF Quota!Settle
  <2>7. ASSUME NEW p \in Measurers,
               Quota!ProbeFails(p) \/ \E models \in ModelAnswers, groups \in Summaries :
                                        Quota!Measured(p, models, groups)
        PROVE  doc' = doc
    BY <2>6, <2>7, Zenon DEF Quota!ProbeFails, Quota!Measured
  <2> QED
    BY <2>1, <2>3, <2>4, <2>5, <2>7 DEF Quota!Next
<1> QED
  BY <1>1, QuotaAlways, PTL DEF Quota!Spec, Quota!CarriedWeeksSurvive

-----------------------------------------------------------------------------
(* The ranking: an order of the candidates.                                 *)

\* A reading has a fraction or none; walls and readings may be anything else.
Windows == [left: Nat \cup {-1}, reset: Nat]
Account == [enabled: BOOLEAN, cool: Nat, why: Rank!Reasons, limit: Nat,
            roll: Windows, week: Windows]

\* Moments and fractions are numbers, and a day has ticks.
RankBounds ==
  /\ Standing \in Nat /\ RankTicks \in Nat /\ Day \in Nat \ {0} /\ Better \subseteq Nat
  /\ Walls \subseteq [cool: Nat, why: Rank!Reasons, limit: Nat]
  /\ Rolls \subseteq Windows /\ Weeks \subseteq Windows

RankTypes ==
  /\ ranked \in [Rank!Positions -> Account] /\ cursor \in Rank!Positions
  /\ full \subseteq Rank!Positions /\ rankTick \in 0..RankTicks
  /\ answer \in [kind: {"none", "retryable", "quota-exhausted"}, until: Nat,
                 lifted: SUBSET Rank!Positions]

\* What the comparison looks at.
Key(p, i) == [hot |-> Rank!IsHot(p[i]), read |-> Rank!IsMeasured(p[i]),
              left |-> Rank!Drain(p[i]).left, over |-> Rank!Drain(p[i]).over,
              used |-> Rank!Used(p[i]), turn |-> Rank!Turn(p, i)]
Keys == [hot: BOOLEAN, read: BOOLEAN, left: Nat, over: Nat \ {0}, used: Int, turn: Int]

\* One key's drain is the larger, as fractions compare.
Drains(x, y) == x.left * y.over > y.left * x.over
Before(x, y) ==
  \/ ~x.hot /\ y.hot
  \/ /\ x.hot = y.hot
     /\ \/ x.read /\ ~y.read
        \/ /\ x.read = y.read
           /\ \/ Drains(x, y)
              \/ /\ ~Drains(y, x)
                 /\ \/ x.used < y.used
                    \/ x.used = y.used /\ x.turn < y.turn

\* Fractions compare transitively.
LEMMA FractionsCompare ==
  ASSUME NEW a \in Nat, NEW b \in Nat \ {0}, NEW c \in Nat, NEW d \in Nat \ {0},
         NEW e \in Nat, NEW f \in Nat \ {0}
  PROVE  /\ a * d > c * b /\ c * f >= e * d => a * f > e * b
         /\ a * d >= c * b /\ c * f > e * d => a * f > e * b
         /\ a * d >= c * b /\ c * f >= e * d => a * f >= e * b
<1>1. ASSUME NEW x \in Nat, NEW y \in Nat, NEW k \in Nat \ {0}
      PROVE  (x > y <=> x * k > y * k) /\ (x >= y <=> x * k >= y * k)
  OBVIOUS
<1>2. /\ a * d \in Nat /\ c * b \in Nat /\ c * f \in Nat /\ e * d \in Nat
      /\ a * f \in Nat /\ e * b \in Nat
  OBVIOUS
<1>3. (a * d) * f = (a * f) * d /\ (c * b) * f = (c * f) * b /\ (e * d) * b = (e * b) * d
  OBVIOUS
<1> DEFINE adf == (a * d) * f
           cbf == (c * b) * f
           edb == (e * d) * b
<1>4. /\ a * d > c * b <=> adf > cbf
      /\ a * d >= c * b <=> adf >= cbf
  BY <1>1, <1>2
<1>5. /\ c * f > e * d <=> cbf > edb
      /\ c * f >= e * d <=> cbf >= edb
  BY <1>1, <1>2, <1>3
<1>6. /\ a * f > e * b <=> adf > edb
      /\ a * f >= e * b <=> adf >= edb
  BY <1>1, <1>2, <1>3
<1>7. adf \in Nat /\ cbf \in Nat /\ edb \in Nat
  OBVIOUS
<1> HIDE DEF adf, cbf, edb
<1> QED
  BY <1>4, <1>5, <1>6, <1>7

\* Of two drains at most one is the larger, and being larger, or no smaller, is transitive.
LEMMA DrainsCompare ==
  ASSUME NEW x \in Keys, NEW y \in Keys, NEW z \in Keys
  PROVE  /\ ~(Drains(x, y) /\ Drains(y, x))
         /\ Drains(x, y) /\ ~Drains(z, y) => Drains(x, z)
         /\ ~Drains(y, x) /\ Drains(y, z) => Drains(x, z)
         /\ ~Drains(y, x) /\ ~Drains(z, y) => ~Drains(z, x)
<1>1. /\ x.left \in Nat /\ x.over \in Nat \ {0} /\ y.left \in Nat /\ y.over \in Nat \ {0}
      /\ z.left \in Nat /\ z.over \in Nat \ {0}
  BY DEF Keys
<1>2. /\ x.left * y.over \in Nat /\ y.left * x.over \in Nat /\ x.left * z.over \in Nat
      /\ z.left * x.over \in Nat /\ y.left * z.over \in Nat /\ z.left * y.over \in Nat
  BY <1>1
<1>3. /\ x.left * y.over > y.left * x.over /\ y.left * z.over >= z.left * y.over =>
           x.left * z.over > z.left * x.over
      /\ x.left * y.over >= y.left * x.over /\ y.left * z.over > z.left * y.over =>
           x.left * z.over > z.left * x.over
      /\ x.left * y.over >= y.left * x.over /\ y.left * z.over >= z.left * y.over =>
           x.left * z.over >= z.left * x.over
  BY <1>1, FractionsCompare
<1> DEFINE xy == x.left * y.over
           yx == y.left * x.over
           xz == x.left * z.over
           zx == z.left * x.over
           yz == y.left * z.over
           zy == z.left * y.over
<1>4. /\ xy \in Nat /\ yx \in Nat /\ xz \in Nat /\ zx \in Nat /\ yz \in Nat /\ zy \in Nat
      /\ xy > yx /\ yz >= zy => xz > zx
      /\ xy >= yx /\ yz > zy => xz > zx
      /\ xy >= yx /\ yz >= zy => xz >= zx
  BY <1>2, <1>3
<1>5. /\ Drains(x, y) <=> xy > yx
      /\ Drains(y, x) <=> yx > xy
      /\ Drains(x, z) <=> xz > zx
      /\ Drains(z, x) <=> zx > xz
      /\ Drains(y, z) <=> yz > zy
      /\ Drains(z, y) <=> zy > yz
  BY DEF Drains
<1> HIDE DEF xy, yx, xz, zx, yz, zy
<1> QED
  BY <1>4, <1>5

\* The keys are in a strict order, total where the turns differ.
LEMMA KeysAreOrdered ==
  ASSUME NEW x \in Keys, NEW y \in Keys, NEW z \in Keys
  PROVE  /\ ~(Before(x, y) /\ Before(y, x))
         /\ x.turn # y.turn => Before(x, y) \/ Before(y, x)
         /\ Before(x, y) /\ Before(y, z) => Before(x, z)
<1>1. /\ x.hot \in BOOLEAN /\ x.read \in BOOLEAN /\ x.used \in Int /\ x.turn \in Int
      /\ y.hot \in BOOLEAN /\ y.read \in BOOLEAN /\ y.used \in Int /\ y.turn \in Int
      /\ z.hot \in BOOLEAN /\ z.read \in BOOLEAN /\ z.used \in Int /\ z.turn \in Int
  BY DEF Keys
<1>2. /\ ~(Drains(x, y) /\ Drains(y, x)) /\ ~(Drains(y, z) /\ Drains(z, y))
      /\ ~(Drains(x, z) /\ Drains(z, x))
      /\ Drains(x, y) /\ ~Drains(z, y) => Drains(x, z)
      /\ ~Drains(y, x) /\ Drains(y, z) => Drains(x, z)
      /\ ~Drains(y, x) /\ ~Drains(z, y) => ~Drains(z, x)
  BY DrainsCompare
<1>3. Drains(x, y) /\ Drains(y, z) => Drains(x, z)
  BY <1>2
<1>4. ~(Before(x, y) /\ Before(y, x))
  BY <1>1, <1>2 DEF Before
<1>5. x.turn # y.turn => Before(x, y) \/ Before(y, x)
  BY <1>1, <1>2 DEF Before
<1>6. ASSUME Before(x, y), Before(y, z) PROVE Before(x, z)
  <2>1. CASE ~x.hot /\ z.hot
    BY <2>1 DEF Before
  <2>2. CASE x.hot = z.hot /\ x.read /\ ~z.read
    BY <2>2 DEF Before
  <2>3. CASE x.hot = y.hot /\ y.hot = z.hot /\ x.read = y.read /\ y.read = z.read
    <3>1. \/ Drains(x, y)
          \/ /\ ~Drains(y, x)
             /\ \/ x.used < y.used
                \/ x.used = y.used /\ x.turn < y.turn
      BY <1>1, <1>6, <2>3 DEF Before
    <3>2. \/ Drains(y, z)
          \/ /\ ~Drains(z, y)
             /\ \/ y.used < z.used
                \/ y.used = z.used /\ y.turn < z.turn
      BY <1>1, <1>6, <2>3 DEF Before
    <3>3. \/ Drains(x, z)
          \/ /\ ~Drains(z, x)
             /\ \/ x.used < z.used
                \/ x.used = z.used /\ x.turn < z.turn
      BY <1>1, <1>2, <1>3, <3>1, <3>2
    <3> QED
      BY <2>3, <3>3 DEF Before
  <2> QED
    BY <1>1, <1>6, <2>1, <2>2, <2>3 DEF Before
<1> QED
  BY <1>4, <1>5, <1>6

\* The greater and the smaller of two numbers.
LEMMA OfTwoNumbers ==
  ASSUME NEW x \in Int, NEW y \in Int
  PROVE  /\ Rank!Max({x, y}) = IF x >= y THEN x ELSE y
         /\ Rank!Min({x, y}) = IF x <= y THEN x ELSE y
<1>1. ASSUME NEW m \in {x, y}, \A z \in {x, y} : m >= z PROVE m = IF x >= y THEN x ELSE y
  BY <1>1
<1>2. ASSUME NEW m \in {x, y}, \A z \in {x, y} : m <= z PROVE m = IF x <= y THEN x ELSE y
  BY <1>2
<1>3. /\ \E m \in {x, y} : \A z \in {x, y} : m >= z
      /\ \E m \in {x, y} : \A z \in {x, y} : m <= z
  OBVIOUS
<1> DEFINE top == CHOOSE m \in {x, y} : \A z \in {x, y} : m >= z
           bottom == CHOOSE m \in {x, y} : \A z \in {x, y} : m <= z
<1>4. top \in {x, y} /\ \A z \in {x, y} : top >= z
  BY <1>3
<1>5. bottom \in {x, y} /\ \A z \in {x, y} : bottom <= z
  BY <1>3
<1>6. Rank!Max({x, y}) = top /\ Rank!Min({x, y}) = bottom
  BY DEF Rank!Max, Rank!Min
<1> HIDE DEF top, bottom
<1> QED
  BY <1>1, <1>2, <1>4, <1>5, <1>6

\* What remains of a rolling window and for how long: numbers, the second not zero.
LEMMA DrainParts ==
  ASSUME RankBounds, RankTypes, NEW a \in Account
  PROVE  /\ Rank!Drain(a).left = IF a.roll.left >= 0 THEN a.roll.left ELSE 0
         /\ Rank!Drain(a).left \in Nat
         /\ Rank!Drain(a).over \in Nat \ {0}
         /\ \A b \in Account : b.roll.reset = a.roll.reset => Rank!Drain(b).over = Rank!Drain(a).over
<1>1. a.roll.left \in Nat \cup {-1} /\ a.roll.reset \in Nat /\ rankTick \in Nat /\ Day \in Nat \ {0}
  BY DEF Account, Windows, RankTypes, RankBounds
<1> DEFINE left == Rank!Max({a.roll.left, 0})
           ahead == Rank!Max({a.roll.reset - rankTick, 1})
           over == IF a.roll.reset = 0 THEN Day ELSE Rank!Min({Day, ahead})
<1>2. left = IF a.roll.left >= 0 THEN a.roll.left ELSE 0
  BY <1>1, OfTwoNumbers
<1>3. ahead \in Nat \ {0}
  <2> DEFINE d == a.roll.reset - rankTick
  <2>1. d \in Int
    BY <1>1
  <2> HIDE DEF d
  <2>2. Rank!Max({d, 1}) = IF d >= 1 THEN d ELSE 1
    BY <2>1, OfTwoNumbers
  <2>3. Rank!Max({d, 1}) \in Nat \ {0}
    BY <2>1, <2>2
  <2> QED
    BY <2>3 DEF d
<1> HIDE DEF ahead
<1>4. over \in Nat \ {0}
  <2>1. Rank!Min({Day, ahead}) = IF Day <= ahead THEN Day ELSE ahead
    BY <1>1, <1>3, OfTwoNumbers
  <2> QED
    BY <1>1, <1>3, <2>1
<1>5. Rank!Drain(a).left = left /\ Rank!Drain(a).over = over
  BY DEF Rank!Drain, ahead
<1>6. \A b \in Account : b.roll.reset = a.roll.reset => Rank!Drain(b).over = over
  BY DEF Rank!Drain, ahead
<1> HIDE DEF left, over
<1> QED
  BY <1>1, <1>2, <1>4, <1>5, <1>6

\* Places are told apart by their turns.
LEMMA TurnsDiffer ==
  ASSUME RankBounds, RankTypes, NEW p, NEW i \in Rank!Positions, NEW j \in Rank!Positions
  PROVE  /\ Rank!Turn(p, i) \in Int
         /\ i # j => Rank!Turn(p, i) # Rank!Turn(p, j)
<1>1. Standing \in Nat \ {0} /\ cursor \in 1..Standing /\ i \in 1..Standing /\ j \in 1..Standing
  BY DEF RankBounds, RankTypes, Rank!Positions
<1> DEFINE x == i + Standing - cursor
           y == j + Standing - cursor
<1>2. x \in Nat /\ y \in Nat /\ x < 2 * Standing /\ y < 2 * Standing
      /\ (i # j => x # y /\ x - y < Standing /\ y - x < Standing)
  BY <1>1
<1>3. ASSUME NEW n \in Nat, n < 2 * Standing
      PROVE  n % Standing = IF n < Standing THEN n ELSE n - Standing
  BY <1>1, <1>3
<1>4. /\ x % Standing = IF x < Standing THEN x ELSE x - Standing
      /\ y % Standing = IF y < Standing THEN y ELSE y - Standing
  BY <1>2, <1>3
<1>5. /\ Rank!Turn(p, i) = IF cursor \in Rank!EnabledIn(p) THEN x % Standing ELSE i
      /\ Rank!Turn(p, j) = IF cursor \in Rank!EnabledIn(p) THEN y % Standing ELSE j
  BY DEF Rank!Turn
<1> HIDE DEF x, y
<1> QED
  BY <1>1, <1>2, <1>4, <1>5

\* The comparison of the candidates is that of their keys.
LEMMA CandidatesAreKeys ==
  ASSUME RankBounds, RankTypes, NEW p \in [Rank!Positions -> Account],
         NEW i \in Rank!Positions, NEW j \in Rank!Positions
  PROVE  /\ Key(p, i) \in Keys /\ Key(p, i).turn = Rank!Turn(p, i)
         /\ Rank!Precedes(p, i, j) <=> Before(Key(p, i), Key(p, j))
<1>1. ASSUME NEW k \in Rank!Positions
      PROVE  /\ Rank!IsHot(p[k]) \in BOOLEAN /\ Rank!IsMeasured(p[k]) \in BOOLEAN
             /\ Rank!Used(p[k]) \in Int /\ Rank!Turn(p, k) \in Int
             /\ Rank!Drain(p[k]).left \in Nat /\ Rank!Drain(p[k]).over \in Nat \ {0}
  <2>1. p[k] \in Account
    OBVIOUS
  <2>2. p[k].roll.left \in Nat \cup {-1}
    BY <2>1 DEF Account, Windows
  <2>3. Rank!Used(p[k]) \in Int
    BY <2>2 DEF Rank!Used
  <2>4. Rank!Drain(p[k]).left \in Nat /\ Rank!Drain(p[k]).over \in Nat \ {0}
    BY <2>1, DrainParts
  <2>5. Rank!Turn(p, k) \in Int
    BY TurnsDiffer
  <2> QED
    BY <2>3, <2>4, <2>5 DEF Rank!IsHot, Rank!IsMeasured, Rank!IsRead
<1>2. Key(p, i) \in Keys /\ Key(p, i).turn = Rank!Turn(p, i)
  BY <1>1 DEF Key, Keys
<1>3. /\ Rank!Urgent(Rank!Drain(p[i]), Rank!Drain(p[j])) <=> Drains(Key(p, i), Key(p, j))
      /\ Rank!Urgent(Rank!Drain(p[j]), Rank!Drain(p[i])) <=> Drains(Key(p, j), Key(p, i))
  BY DEF Rank!Urgent, Drains, Key
<1>4. /\ Key(p, i).hot = Rank!IsHot(p[i]) /\ Key(p, j).hot = Rank!IsHot(p[j])
      /\ Key(p, i).read = Rank!IsMeasured(p[i]) /\ Key(p, j).read = Rank!IsMeasured(p[j])
      /\ Key(p, i).used = Rank!Used(p[i]) /\ Key(p, j).used = Rank!Used(p[j])
      /\ Key(p, i).turn = Rank!Turn(p, i) /\ Key(p, j).turn = Rank!Turn(p, j)
  BY DEF Key
<1> DEFINE ui == Rank!Urgent(Rank!Drain(p[i]), Rank!Drain(p[j]))
           uj == Rank!Urgent(Rank!Drain(p[j]), Rank!Drain(p[i]))
<1>5. Rank!Precedes(p, i, j) <=>
        \/ ~Rank!IsHot(p[i]) /\ Rank!IsHot(p[j])
        \/ /\ Rank!IsHot(p[i]) = Rank!IsHot(p[j])
           /\ \/ Rank!IsMeasured(p[i]) /\ ~Rank!IsMeasured(p[j])
              \/ /\ Rank!IsMeasured(p[i]) = Rank!IsMeasured(p[j])
                 /\ \/ ui
                    \/ /\ ~uj
                       /\ \/ Rank!Used(p[i]) < Rank!Used(p[j])
                          \/ Rank!Used(p[i]) = Rank!Used(p[j]) /\ Rank!Turn(p, i) < Rank!Turn(p, j)
  BY Zenon DEF Rank!Precedes
<1> HIDE DEF ui, uj
<1>6. Rank!Precedes(p, i, j) <=> Before(Key(p, i), Key(p, j))
  BY <1>3, <1>4, <1>5 DEF Before, ui, uj
<1> QED
  BY <1>2, <1>6

\* The candidates are in a strict total order.
LEMMA CandidatesAreOrdered ==
  ASSUME RankBounds, RankTypes, NEW p \in [Rank!Positions -> Account],
         NEW i \in Rank!Positions, NEW j \in Rank!Positions, NEW k \in Rank!Positions
  PROVE  /\ ~(Rank!Precedes(p, i, j) /\ Rank!Precedes(p, j, i))
         /\ i # j => Rank!Precedes(p, i, j) \/ Rank!Precedes(p, j, i)
         /\ Rank!Precedes(p, i, j) /\ Rank!Precedes(p, j, k) => Rank!Precedes(p, i, k)
<1>1. /\ Key(p, i) \in Keys /\ Key(p, j) \in Keys /\ Key(p, k) \in Keys
      /\ i # j => Key(p, i).turn # Key(p, j).turn
      /\ Rank!Precedes(p, i, j) <=> Before(Key(p, i), Key(p, j))
      /\ Rank!Precedes(p, j, i) <=> Before(Key(p, j), Key(p, i))
      /\ Rank!Precedes(p, j, k) <=> Before(Key(p, j), Key(p, k))
      /\ Rank!Precedes(p, i, k) <=> Before(Key(p, i), Key(p, k))
  BY CandidatesAreKeys, TurnsDiffer
<1> QED
  BY <1>1, KeysAreOrdered

\* Every set of candidates has a first one.
LEMMA SomeoneIsFirst ==
  ASSUME RankBounds, RankTypes, NEW p \in [Rank!Positions -> Account],
         NEW S, S \subseteq Rank!Positions, S # {}
  PROVE  \E i \in S : \A j \in S \ {i} : Rank!Precedes(p, i, j)
<1> DEFINE HasFirst(T) == \E i \in T : \A j \in T \ {i} : Rank!Precedes(p, i, j)
           bad == {n \in Nat : \E T \in SUBSET Rank!Positions :
                                 T # {} /\ Cardinality(T) = n /\ ~HasFirst(T)}
<1>1. \A T \in SUBSET Rank!Positions : IsFiniteSet(T) /\ Cardinality(T) \in Nat
  <2>1. IsFiniteSet(Rank!Positions)
    BY FS_Interval DEF RankBounds, Rank!Positions
  <2> QED
    BY <2>1, FS_Subset, FS_CardinalityType
<1>2. bad = {}
  <2> SUFFICES ASSUME bad # {} PROVE FALSE
    OBVIOUS
  <2>0. bad \subseteq Nat
    OBVIOUS
  <2>1. PICK n \in bad : \A m \in bad : n <= m
    <3> HIDE DEF bad
    <3> QED
      BY <2>0, LeastPosition
  <2>2. PICK T \in SUBSET Rank!Positions : T # {} /\ Cardinality(T) = n /\ ~HasFirst(T)
    BY <2>1
  <2>3. PICK x \in T : TRUE
    BY <2>2
  <2> DEFINE R == T \ {x}
  <2>4. R \in SUBSET Rank!Positions /\ Cardinality(R) = n - 1 /\ n \in Nat /\ n - 1 < n
    <3>1. IsFiniteSet(T) /\ Cardinality(T) = n /\ n \in Nat
      BY <1>1, <2>2
    <3>2. Cardinality(R) = n - 1
      BY <2>3, <3>1, FS_RemoveElement
    <3>3. R \in SUBSET Rank!Positions
      BY <2>2
    <3> HIDE DEF R, bad
    <3> QED
      BY <3>1, <3>2, <3>3
  <2>5. CASE R = {}
    BY <2>2, <2>3, <2>5
  <2>6. CASE R # {}
    <3>1. Cardinality(R) \in Nat
      BY <1>1, <2>4
    <3>2. HasFirst(R)
      <4> SUFFICES ASSUME ~HasFirst(R) PROVE FALSE
        OBVIOUS
      <4>1. Cardinality(R) \in bad
        BY <2>4, <2>6, <3>1
      <4> HIDE DEF bad, R
      <4> QED
        BY <2>1, <2>4, <4>1
    <3>3. PICK m \in R : \A j \in R \ {m} : Rank!Precedes(p, m, j)
      BY <3>2
    <3>4. CASE Rank!Precedes(p, m, x)
      <4>1. \A j \in T \ {m} : Rank!Precedes(p, m, j)
        BY <3>3, <3>4
      <4> QED
        BY <2>2, <3>3, <4>1
    <3>5. CASE ~Rank!Precedes(p, m, x)
      <4>1. Rank!Precedes(p, x, m)
        BY <2>2, <2>3, <3>3, <3>5, CandidatesAreOrdered
      <4>2. \A j \in T \ {x} : Rank!Precedes(p, x, j)
        BY <2>2, <2>3, <3>3, <4>1, CandidatesAreOrdered
      <4> QED
        BY <2>2, <2>3, <4>2
    <3> QED
      BY <3>4, <3>5
  <2> QED
    BY <2>5, <2>6
<1>3. HasFirst(S)
  <2> SUFFICES ASSUME ~HasFirst(S) PROVE FALSE
    OBVIOUS
  <2>1. S \in SUBSET Rank!Positions /\ Cardinality(S) \in Nat
    BY <1>1
  <2>2. Cardinality(S) \in bad
    BY <2>1
  <2> QED
    BY <1>2, <2>2
<1> QED
  BY <1>3

-----------------------------------------------------------------------------
(* The ranking: what is chosen, and what is announced.                      *)

\* The greatest of at most three numbers is one of them.
LEMMA GreatestOfFew ==
  ASSUME NEW x \in Nat, NEW y \in Nat, NEW z \in Nat, NEW S, S \subseteq {x, y, z}, S # {}
  PROVE  Rank!Max(S) \in S /\ \A n \in S : Rank!Max(S) >= n
<1>1. ASSUME NEW m \in S, \A n \in S : m >= n
      PROVE  Rank!Max(S) \in S /\ \A n \in S : Rank!Max(S) >= n
  BY <1>1 DEF Rank!Max
<1>2. \A n \in S : n = x \/ n = y \/ n = z
  OBVIOUS
<1>3. CASE x \in S /\ y \in S
  <2>1. CASE z \in S
    BY <1>1, <1>2, <1>3, <2>1
  <2>2. CASE z \notin S
    BY <1>1, <1>2, <1>3, <2>2
  <2> QED
    BY <2>1, <2>2
<1>4. CASE x \in S /\ y \notin S
  BY <1>1, <1>2, <1>4
<1>5. CASE x \notin S /\ y \in S
  BY <1>1, <1>2, <1>5
<1>6. CASE x \notin S /\ y \notin S
  <2>1. z \in S /\ \A n \in S : n = z
    BY <1>2, <1>6
  <2> QED
    BY <1>1, <2>1
<1> QED
  BY <1>3, <1>4, <1>5, <1>6

\* An account nothing blocks has no park, no limit and no window at zero; a block ends after
\* its walls (blockedUntil).
LEMMA BlocksEndWithTheirWalls ==
  ASSUME RankBounds, RankTypes, NEW a \in Account
  PROVE  LET b == Rank!BlockedUntil(a)
         IN  /\ b \in Nat
             /\ a.cool <= b \/ a.cool <= rankTick
             /\ a.limit <= b \/ a.limit <= rankTick
             /\ b = 0 <=> /\ a.cool <= rankTick /\ a.limit <= rankTick
                          /\ ~Rank!IsSpent(a.roll, 0) /\ ~Rank!IsSpent(a.week, 0)
<1> DEFINE walls == {w \in {a.cool, a.limit} : w > rankTick}
           spent == {v \in {a.roll, a.week} : Rank!IsSpent(v, 0)}
           resets == {w.reset : w \in spent}
           b == Rank!BlockedUntil(a)
<1>1. /\ a.cool \in Nat /\ a.limit \in Nat /\ a.roll.reset \in Nat /\ a.week.reset \in Nat
      /\ rankTick \in Nat
  BY DEF Account, Windows, RankTypes, RankBounds
<1>2. b = IF walls # {} THEN Rank!Max(walls) ELSE Rank!Max(resets \cup {0})
  BY DEF Rank!BlockedUntil
<1>3. \A v \in spent : v.reset > rankTick /\ (v = a.roll \/ v = a.week)
  BY DEF Rank!IsSpent
<1>4. \A n \in resets : n \in {a.roll.reset, a.week.reset} /\ n > rankTick
  BY <1>3
<1>5. /\ (a.cool \in walls <=> a.cool > rankTick) /\ (a.limit \in walls <=> a.limit > rankTick)
      /\ \A w \in walls : w > rankTick /\ w \in {a.cool, a.limit, 0}
  OBVIOUS
<1>6. resets = {} <=> ~Rank!IsSpent(a.roll, 0) /\ ~Rank!IsSpent(a.week, 0)
  OBVIOUS
<1> HIDE DEF walls, spent, resets, b
<1>7. CASE walls # {}
  <2>1. walls \subseteq {a.cool, a.limit, 0}
    BY <1>5
  <2>2. b \in walls /\ \A w \in walls : b >= w
    BY <1>1, <1>2, <1>7, <2>1, GreatestOfFew
  <2>3. b \in Nat /\ b > rankTick /\ b # 0
    BY <1>1, <1>5, <2>2
  <2>4. a.cool <= b \/ a.cool <= rankTick
    BY <1>1, <1>5, <2>2
  <2>5. a.limit <= b \/ a.limit <= rankTick
    BY <1>1, <1>5, <2>2
  <2>6. a.cool > rankTick \/ a.limit > rankTick
    BY <1>1, <1>5, <2>2
  <2> QED
    BY <1>1, <2>3, <2>4, <2>5, <2>6 DEF b
<1>8. CASE walls = {}
  <2>1. a.cool <= rankTick /\ a.limit <= rankTick
    BY <1>1, <1>5, <1>8
  <2> DEFINE S == resets \cup {0}
  <2>2. S # {} /\ S \subseteq {a.roll.reset, a.week.reset, 0} /\ 0 \in S
    BY <1>4
  <2>3. b = Rank!Max(S)
    BY <1>2, <1>8
  <2>4. \A n \in S : n = 0 \/ n \in resets
    OBVIOUS
  <2>5. resets \subseteq S
    OBVIOUS
  <2> HIDE DEF S
  <2>6. b \in S /\ \A n \in S : b >= n
    BY <1>1, <2>2, <2>3, GreatestOfFew
  <2>7. b \in Nat
    BY <1>1, <2>2, <2>6
  <2>8. b = 0 <=> resets = {}
    <3>1. ASSUME resets = {} PROVE b = 0
      BY <2>4, <2>6, <3>1
    <3>2. ASSUME resets # {} PROVE b # 0
      <4>1. PICK n \in resets : TRUE
        BY <3>2
      <4>2. n \in Nat /\ n > 0 /\ b >= n
        BY <1>1, <1>4, <2>5, <2>6, <4>1
      <4> QED
        BY <2>7, <4>2
    <3> QED
      BY <3>1, <3>2
  <2> QED
    BY <1>6, <2>1, <2>7, <2>8 DEF b
<1> QED
  BY <1>7, <1>8

\* A copy without what has lapsed is of accounts, the same ones enabled.
LEMMA CopiesAreAccounts ==
  ASSUME RankBounds, RankTypes, NEW p \in [Rank!Positions -> Account]
  PROVE  /\ Rank!Copy(p) \in [Rank!Positions -> Account]
         /\ Rank!EnabledIn(Rank!Copy(p)) = Rank!EnabledIn(p)
         /\ \A i \in Rank!Positions : Rank!Copy(p)[i] = Rank!Cleared(p[i])
<1>1. ASSUME NEW a \in Account
      PROVE  Rank!Cleared(a) \in Account /\ Rank!Cleared(a).enabled = a.enabled
  BY DEF Rank!Cleared, Account, Rank!Reasons
<1>2. Rank!Copy(p) = [i \in Rank!Positions |-> Rank!Cleared(p[i])]
  BY DEF Rank!Copy
<1> QED
  BY <1>1, <1>2 DEF Rank!EnabledIn

\* Nobody is chosen only when nobody is free.
LEMMA SomeoneIsChosen ==
  ASSUME RankBounds, RankTypes, NEW p \in [Rank!Positions -> Account]
  PROVE  /\ Rank!Choice(p) \in Rank!Positions \cup {Rank!Nobody}
         /\ (\E i \in Rank!EnabledIn(p) : Rank!BlockedUntil(p[i]) = 0) => Rank!Choice(p) # Rank!Nobody
<1> DEFINE free == {i \in Rank!EnabledIn(p) : Rank!BlockedUntil(p[i]) = 0}
           S == IF free \subseteq full THEN free ELSE free \ full
<1>1. Rank!Choice(p) = IF Rank!IsUsable(p[cursor]) /\ cursor \notin full THEN cursor
                       ELSE IF free = {} THEN Rank!Nobody ELSE Rank!First(p, S)
  BY DEF Rank!Choice
<1>2. cursor \in Rank!Positions /\ 0 \notin Rank!Positions
  BY DEF RankTypes, Rank!Positions
<1>3. ASSUME free # {} PROVE Rank!First(p, S) \in Rank!Positions
  <2>1. S \subseteq Rank!Positions /\ S # {}
    BY <1>3 DEF Rank!EnabledIn
  <2>2. \E i \in S : \A j \in S \ {i} : Rank!Precedes(p, i, j)
    BY <2>1, SomeoneIsFirst
  <2> HIDE DEF S
  <2>3. Rank!First(p, S) \in S
    BY <2>2 DEF Rank!First
  <2> QED
    BY <2>1, <2>3
<1> HIDE DEF S
<1>4. (\E i \in Rank!EnabledIn(p) : Rank!BlockedUntil(p[i]) = 0) => free # {}
  OBVIOUS
<1> HIDE DEF free
<1> QED
  BY <1>1, <1>2, <1>3, <1>4 DEF Rank!Nobody

\* One that is enabled and will be free, at the announced moment or already: its walls end by
\* then, and no window of it was at zero.
WillBeFree(i, until) ==
  /\ ranked[i].enabled
  /\ ranked[i].cool <= until \/ ranked[i].cool <= rankTick
  /\ ranked[i].limit <= until \/ ranked[i].limit <= rankTick
  /\ ~Rank!IsSpent(ranked[i].roll, 0) /\ ~Rank!IsSpent(ranked[i].week, 0)

\* Whoever is told to retry is told so because of such an account.
RankInv ==
  /\ RankTypes
  /\ answer.kind = "retryable" /\ answer.lifted = {} =>
       \E i \in Rank!Positions : WillBeFree(i, answer.until)

\* At the announced moment it is free.
LEMMA TheFreeAreFree ==
  ASSUME RankBounds, RankTypes, NEW i \in Rank!Positions, NEW until \in Nat,
         WillBeFree(i, until), rankTick >= until
  PROVE  /\ i \in Rank!EnabledIn(Rank!Copy(ranked))
         /\ Rank!BlockedUntil(Rank!Copy(ranked)[i]) = 0
<1> DEFINE a == ranked[i]
           c == Rank!Cleared(a)
<1>1. /\ ranked \in [Rank!Positions -> Account] /\ a \in Account /\ rankTick \in Nat
      /\ a.cool \in Nat /\ a.limit \in Nat
  BY DEF RankTypes, RankBounds, Account
<1>2. /\ Rank!Copy(ranked)[i] = c /\ c \in Account
      /\ Rank!EnabledIn(Rank!Copy(ranked)) = Rank!EnabledIn(ranked)
  BY <1>1, CopiesAreAccounts
<1>3. a.cool <= rankTick /\ a.limit <= rankTick
  BY <1>1 DEF WillBeFree
<1>4. c = [a EXCEPT !.cool = 0, !.why = "none"]
  BY <1>3 DEF Rank!Cleared
<1>5. /\ c.cool <= rankTick /\ c.limit <= rankTick
      /\ ~Rank!IsSpent(c.roll, 0) /\ ~Rank!IsSpent(c.week, 0)
  BY <1>1, <1>3, <1>4 DEF WillBeFree, Account
<1>6. Rank!BlockedUntil(c) = 0
  BY <1>2, <1>5, BlocksEndWithTheirWalls
<1> QED
  BY <1>2, <1>6 DEF WillBeFree, Rank!EnabledIn

\* A block is announced for the least of the moments it ends at, and of an account that does
\* not wait for its quota when there is one.
LEMMA BlocksAreOfSomeone ==
  ASSUME RankBounds, RankTypes, Rank!EnabledIn(ranked) # {}
  PROVE  LET b == Rank!Block(Rank!Copy(ranked))
         IN  /\ b \in [kind: {"none", "retryable", "quota-exhausted"}, until: Nat,
                       lifted: SUBSET Rank!Positions]
             /\ b.kind = "retryable" /\ b.lifted = {} =>
                  \E i \in Rank!Positions : WillBeFree(i, b.until)
<1> DEFINE p == Rank!Copy(ranked)
           retryable == {i \in Rank!EnabledIn(p) : ~Rank!WaitsForQuota(p[i])}
           waiting == IF retryable = {} THEN Rank!EnabledIn(p) ELSE retryable
           ends == {Rank!BlockedUntil(p[i]) : i \in waiting}
           lifted == {i \in Rank!Positions : Rank!Contradicted(ranked[i])}
           kind == IF retryable = {} THEN "quota-exhausted" ELSE "retryable"
           until == Rank!Min(ends)
<1>1. /\ ranked \in [Rank!Positions -> Account] /\ p \in [Rank!Positions -> Account]
      /\ Rank!EnabledIn(p) = Rank!EnabledIn(ranked)
      /\ \A i \in Rank!Positions : p[i] = Rank!Cleared(ranked[i])
  BY CopiesAreAccounts DEF RankTypes
<1>2. Rank!Block(p) = [kind |-> kind, until |-> until, lifted |-> lifted]
  BY DEF Rank!Block
<1>3. waiting # {} /\ waiting \subseteq Rank!Positions
  BY <1>1 DEF Rank!EnabledIn
<1> HIDE DEF p
<1>4. \A i \in waiting : Rank!BlockedUntil(p[i]) \in Nat
  BY <1>1, <1>3, BlocksEndWithTheirWalls
<1>5. ends \subseteq Nat /\ ends # {}
  <2> HIDE DEF waiting
  <2> QED
    BY <1>3, <1>4
<1>6. until \in ends
  <2> HIDE DEF ends
  <2>1. \E n \in ends : \A m \in ends : n <= m
    BY <1>5, LeastPosition
  <2> QED
    BY <2>1 DEF Rank!Min
<1>7. ASSUME retryable # {}, lifted = {} PROVE \E i \in Rank!Positions : WillBeFree(i, until)
  <2> HIDE DEF until
  <2>1. PICK i \in retryable : until = Rank!BlockedUntil(p[i])
    BY <1>6, <1>7
  <2> DEFINE a == ranked[i]
  <2>2. i \in Rank!Positions /\ p[i].enabled /\ ~Rank!WaitsForQuota(p[i])
    BY <2>1 DEF Rank!EnabledIn
  <2>3. p[i] = Rank!Cleared(a) /\ p[i] \in Account /\ a \in Account
    BY <1>1, <2>2
  <2>4. ~Rank!Contradicted(a)
    BY <1>7, <2>2
  <2>5. p[i] = IF a.cool <= rankTick THEN [a EXCEPT !.cool = 0, !.why = "none"] ELSE a
    BY <2>3, <2>4 DEF Rank!Cleared
  <2> DEFINE c == p[i]
  <2>6. /\ c.enabled = a.enabled /\ c.limit = a.limit /\ c.roll = a.roll /\ c.week = a.week
        /\ c.cool = a.cool \/ a.cool <= rankTick
    BY <2>3, <2>5 DEF Account
  <2>7. /\ ~Rank!IsSpent(c.roll, 0) /\ ~Rank!IsSpent(c.week, 0)
    BY <2>2 DEF Rank!WaitsForQuota, Rank!SpentBucket
  <2>8. /\ c.cool <= until \/ c.cool <= rankTick
        /\ c.limit <= until \/ c.limit <= rankTick
    BY <2>1, <2>3, BlocksEndWithTheirWalls
  <2> HIDE DEF c
  <2>9. WillBeFree(i, until)
    BY <2>2, <2>6, <2>7, <2>8 DEF WillBeFree, c
  <2> QED
    BY <2>2, <2>9
<1>8. lifted \subseteq Rank!Positions
  OBVIOUS
<1> HIDE DEF until, lifted, retryable
<1>9. /\ Rank!Block(p) \in [kind: {"none", "retryable", "quota-exhausted"}, until: Nat,
                            lifted: SUBSET Rank!Positions]
      /\ Rank!Block(p).until = until /\ Rank!Block(p).lifted = lifted
      /\ Rank!Block(p).kind = "retryable" => retryable # {}
  BY <1>2, <1>5, <1>6, <1>8
<1> QED
  BY <1>7, <1>9 DEF p

-----------------------------------------------------------------------------
(* The ranking: its invariant.                                              *)

\* The invariant holds of any document that failures and probes may have left.
LEMMA RankInit ==
  ASSUME RankBounds, Rank!Init
  PROVE  RankInv
<1>1. \A w \in Walls, r \in Rolls, k \in Weeks : Rank!Enabled(w, r, k) \in Account
  BY DEF Rank!Enabled, Account, RankBounds
<1>2. Rank!Disabled \in Account
  BY DEF Rank!Disabled, Rank!Unmeasured, Account, Windows, Rank!Reasons
<1>3. ranked \in [Rank!Positions -> Account]
  <2>1. ranked \in [Rank!Positions ->
          {Rank!Enabled(w, r, k) : w \in Walls, r \in Rolls, k \in Weeks} \cup {Rank!Disabled}]
    BY DEF Rank!Init
  <2>2. {Rank!Enabled(w, r, k) : w \in Walls, r \in Rolls, k \in Weeks} \cup {Rank!Disabled}
          \subseteq Account
    BY <1>1, <1>2
  <2> QED
    BY <2>1, <2>2
<1>4. /\ cursor \in Rank!Positions /\ full \subseteq Rank!Positions /\ rankTick \in 0..RankTicks
      /\ answer \in [kind: {"none", "retryable", "quota-exhausted"}, until: Nat,
                     lifted: SUBSET Rank!Positions]
      /\ answer.kind = "none"
  BY DEF Rank!Init, RankBounds, Rank!NoBlock
<1> QED
  BY <1>3, <1>4 DEF RankInv, RankTypes

\* Choosing, filling up and the passing of time preserve it.
LEMMA RankStep ==
  ASSUME RankBounds, RankInv, [Rank!Next]_(Rank!vars)
  PROVE  RankInv'
<1> USE DEF RankInv, RankTypes
<1>1. /\ ranked \in [Rank!Positions -> Account] /\ cursor \in Rank!Positions
      /\ full \subseteq Rank!Positions /\ rankTick \in 0..RankTicks
      /\ answer \in [kind: {"none", "retryable", "quota-exhausted"}, until: Nat,
                     lifted: SUBSET Rank!Positions]
      /\ RankTicks \in Nat /\ answer.until \in Nat
  BY DEF RankBounds
<1>2. CASE Rank!Choose
  <2>1. CASE Rank!Choice(Rank!Copy(ranked)) = Rank!Nobody
    <3>1. /\ answer' = Rank!Block(Rank!Copy(ranked)) /\ cursor' = cursor
          /\ ranked' = ranked /\ full' = full /\ rankTick' = rankTick
      BY <1>2, <2>1 DEF Rank!Choose
    <3>2. Rank!EnabledIn(ranked) # {}
      BY <1>2 DEF Rank!Choose
    <3> DEFINE b == Rank!Block(Rank!Copy(ranked))
    <3>3. /\ b \in [kind: {"none", "retryable", "quota-exhausted"}, until: Nat,
                    lifted: SUBSET Rank!Positions]
          /\ b.kind = "retryable" /\ b.lifted = {} =>
               \E i \in Rank!Positions : WillBeFree(i, b.until)
      BY <3>2, BlocksAreOfSomeone
    <3> HIDE DEF b
    <3>4. answer' = b
      BY <3>1 DEF b
    <3>5. \A i : WillBeFree(i, b.until) => WillBeFree(i, answer.until)'
      BY <3>1, <3>4 DEF WillBeFree, Rank!IsSpent
    <3>6. answer'.kind = "retryable" /\ answer'.lifted = {} =>
            \E i \in Rank!Positions : WillBeFree(i, answer.until)'
      BY <3>3, <3>4, <3>5, Zenon
    <3> QED
      BY <1>1, <3>1, <3>3, <3>4, <3>6
  <2>2. CASE Rank!Choice(Rank!Copy(ranked)) # Rank!Nobody
    <3>1. /\ cursor' = Rank!Choice(Rank!Copy(ranked)) /\ answer' = answer
          /\ ranked' = ranked /\ full' = full /\ rankTick' = rankTick
      BY <1>2, <2>2 DEF Rank!Choose
    <3>2. Rank!Copy(ranked) \in [Rank!Positions -> Account]
      BY <1>1, CopiesAreAccounts
    <3>3. cursor' \in Rank!Positions
      BY <2>2, <3>1, <3>2, SomeoneIsChosen
    <3>4. \A i : WillBeFree(i, answer.until) => WillBeFree(i, answer.until)'
      BY <3>1 DEF WillBeFree, Rank!IsSpent
    <3> QED
      BY <1>1, <3>1, <3>3, <3>4
  <2> QED
    BY <2>1, <2>2
<1>3. CASE (\E i \in Rank!Positions : Rank!Saturate(i) \/ Rank!Settle(i)) \/ UNCHANGED Rank!vars
  <2>1. /\ ranked' = ranked /\ cursor' = cursor /\ answer' = answer /\ rankTick' = rankTick
        /\ full' \subseteq Rank!Positions
    BY <1>1, <1>3 DEF Rank!Saturate, Rank!Settle, Rank!vars
  <2>2. \A i : WillBeFree(i, answer.until) => WillBeFree(i, answer.until)'
    BY <2>1 DEF WillBeFree, Rank!IsSpent
  <2> QED
    BY <1>1, <2>1, <2>2
<1>4. CASE Rank!Tick
  <2>1. /\ ranked' = ranked /\ cursor' = cursor /\ answer' = answer /\ full' = full
        /\ rankTick' = rankTick + 1 /\ rankTick' \in 0..RankTicks
    BY <1>1, <1>4 DEF Rank!Tick
  <2>2. \A i \in Rank!Positions : WillBeFree(i, answer.until) => WillBeFree(i, answer.until)'
    <3> SUFFICES ASSUME NEW i \in Rank!Positions, WillBeFree(i, answer.until)
                 PROVE  WillBeFree(i, answer.until)'
      OBVIOUS
    <3>1. /\ ranked[i].cool \in Nat /\ ranked[i].limit \in Nat
          /\ ranked[i].roll.reset \in Nat /\ ranked[i].week.reset \in Nat
      BY <1>1 DEF Account, Windows
    <3> DEFINE a == ranked[i]
    <3>2. /\ a.enabled
          /\ a.cool <= answer.until \/ a.cool <= rankTick
          /\ a.limit <= answer.until \/ a.limit <= rankTick
          /\ ~(a.roll.left \in 0..0 /\ a.roll.reset > rankTick)
          /\ ~(a.week.left \in 0..0 /\ a.week.reset > rankTick)
      BY DEF WillBeFree, Rank!IsSpent
    <3>3. /\ a.cool <= answer.until \/ a.cool <= rankTick + 1
          /\ a.limit <= answer.until \/ a.limit <= rankTick + 1
          /\ ~(a.roll.left \in 0..0 /\ a.roll.reset > rankTick + 1)
          /\ ~(a.week.left \in 0..0 /\ a.week.reset > rankTick + 1)
      BY <1>1, <3>1, <3>2
    <3> HIDE DEF a
    <3>4. ranked'[i] = a /\ answer'.until = answer.until /\ rankTick' = rankTick + 1
      BY <2>1 DEF a
    <3> QED
      BY <3>2, <3>3, <3>4 DEF WillBeFree, Rank!IsSpent
  <2> QED
    BY <1>1, <2>1, <2>2
<1> QED
  BY <1>2, <1>3, <1>4 DEF Rank!Next

\* The invariant of the ranking.
LEMMA RankAlways == ASSUME RankBounds PROVE Rank!Spec => []RankInv
<1>1. Rank!Init => RankInv
  BY RankInit
<1>2. RankInv /\ [Rank!Next]_(Rank!vars) => RankInv'
  BY RankStep
<1> QED
  BY <1>1, <1>2, PTL DEF Rank!Spec

\* Every variable of the ranking keeps its type.
THEOREM RankTypesCorrect ==
  ASSUME RankBounds
  PROVE  Rank!Spec => []Rank!TypeOK
<1>1. RankInv => Rank!TypeOK
  BY DEF RankInv, RankTypes, Account, Rank!TypeOK
<1> QED
  BY <1>1, RankAlways, PTL

\* A caller who was told to retry finds an account from the announced moment on, whatever was
\* chosen and whichever accounts filled up meanwhile.
THEOREM RetriesAreServed ==
  ASSUME RankBounds
  PROVE  Rank!Spec => []Rank!RetriesFindAnAccount
<1>1. RankInv => Rank!RetriesFindAnAccount
  <2> SUFFICES ASSUME RankInv, answer.kind = "retryable", answer.lifted = {},
                      rankTick >= answer.until
               PROVE  Rank!Choice(Rank!Copy(ranked)) # Rank!Nobody
    BY DEF Rank!RetriesFindAnAccount
  <2>1. PICK i \in Rank!Positions : WillBeFree(i, answer.until)
    BY DEF RankInv
  <2>2. RankTypes /\ answer.until \in Nat /\ ranked \in [Rank!Positions -> Account]
    BY DEF RankInv, RankTypes
  <2>3. /\ i \in Rank!EnabledIn(Rank!Copy(ranked))
        /\ Rank!BlockedUntil(Rank!Copy(ranked)[i]) = 0
    BY <2>1, <2>2, TheFreeAreFree
  <2>4. Rank!Copy(ranked) \in [Rank!Positions -> Account]
    BY <2>2, CopiesAreAccounts
  <2> QED
    BY <2>2, <2>3, <2>4, SomeoneIsChosen
<1> QED
  BY <1>1, RankAlways, PTL

-----------------------------------------------------------------------------
(* The ranking: having more left.                                           *)

\* A reading with no less left, of the same window.
Fuller(v, w) ==
  /\ w.reset = v.reset
  /\ \/ w.left = v.left
     \/ v.left \in Nat /\ w.left \in Nat /\ w.left >= v.left

\* An account with no less left in either window, and no more against it.
NoWorse(a, b) ==
  /\ b.enabled = a.enabled /\ b.limit = a.limit
  /\ \/ b.cool = a.cool /\ b.why = a.why
     \/ b.cool = 0 /\ b.why = "none"
  /\ Fuller(a.roll, b.roll) /\ Fuller(a.week, b.week)

\* What is judged of a window is judged no worse when more is left.
LEMMA FullerReads ==
  ASSUME RankBounds, RankTypes, NEW v \in Windows, NEW w \in Windows, Fuller(v, w)
  PROVE  /\ Rank!IsRead(w) <=> Rank!IsRead(v)
         /\ w.left >= v.left
         /\ Rank!IsSpent(w, 0) => Rank!IsSpent(v, 0)
         /\ Rank!IsSpent(w, Rank!WeekEnd) => Rank!IsSpent(v, Rank!WeekEnd)
<1>1. v.left \in Nat \cup {-1} /\ w.left \in Nat \cup {-1} /\ w.reset = v.reset
  BY DEF Windows, Fuller
<1>2. w.left >= v.left /\ (w.left = -1 <=> v.left = -1)
  BY <1>1 DEF Fuller
<1>3. Rank!IsRead(w) <=> Rank!IsRead(v)
  BY <1>1, <1>2 DEF Rank!IsRead, Rank!Lapsed
<1>4. /\ Rank!IsSpent(w, 0) => Rank!IsSpent(v, 0)
      /\ Rank!IsSpent(w, Rank!WeekEnd) => Rank!IsSpent(v, Rank!WeekEnd)
  BY <1>1, <1>2 DEF Rank!IsSpent, Rank!WeekEnd
<1> QED
  BY <1>2, <1>3, <1>4

\* So is what is judged of an account.
LEMMA NoWorseJudged ==
  ASSUME RankBounds, RankTypes, NEW a \in Account, NEW b \in Account, NoWorse(a, b)
  PROVE  /\ Rank!IsHealthy(a) => Rank!IsHealthy(b)
         /\ Rank!IsUsable(a) => Rank!IsUsable(b)
         /\ Rank!BlockedUntil(a) = 0 => Rank!BlockedUntil(b) = 0
         /\ Rank!IsHot(b) => Rank!IsHot(a)
         /\ Rank!IsMeasured(b) <=> Rank!IsMeasured(a)
         /\ Rank!Used(b) <= Rank!Used(a)
<1>1. /\ a.roll \in Windows /\ a.week \in Windows /\ b.roll \in Windows /\ b.week \in Windows
      /\ a.cool \in Nat /\ b.cool \in Nat /\ a.limit \in Nat /\ b.limit = a.limit
      /\ b.enabled = a.enabled /\ rankTick \in Nat
      /\ \/ b.cool = a.cool /\ b.why = a.why
         \/ b.cool = 0 /\ b.why = "none"
      /\ Fuller(a.roll, b.roll) /\ Fuller(a.week, b.week)
  BY DEF Account, NoWorse, RankTypes, RankBounds
<1>2. /\ Rank!IsRead(b.roll) <=> Rank!IsRead(a.roll)
      /\ Rank!IsRead(b.week) <=> Rank!IsRead(a.week)
      /\ b.roll.left >= a.roll.left /\ b.week.left >= a.week.left
      /\ Rank!IsSpent(b.roll, 0) => Rank!IsSpent(a.roll, 0)
      /\ Rank!IsSpent(b.week, 0) => Rank!IsSpent(a.week, 0)
      /\ Rank!IsSpent(b.week, Rank!WeekEnd) => Rank!IsSpent(a.week, Rank!WeekEnd)
  BY <1>1, FullerReads
<1>3. /\ a.roll.left \in Int /\ b.roll.left \in Int /\ a.week.left \in Int /\ b.week.left \in Int
  BY <1>1 DEF Windows
<1>4. Rank!IsHealthy(a) => Rank!IsHealthy(b)
  BY <1>2, <1>3 DEF Rank!IsHealthy, Rank!Soft, Rank!WeekEnd
<1>5. Rank!IsUsable(a) => Rank!IsUsable(b)
  BY <1>1, <1>2 DEF Rank!IsUsable, Rank!Exhausted
<1>6. Rank!BlockedUntil(a) = 0 => Rank!BlockedUntil(b) = 0
  <2>1. Rank!BlockedUntil(a) = 0 <=>
          /\ a.cool <= rankTick /\ a.limit <= rankTick
          /\ ~Rank!IsSpent(a.roll, 0) /\ ~Rank!IsSpent(a.week, 0)
    BY BlocksEndWithTheirWalls
  <2>2. Rank!BlockedUntil(b) = 0 <=>
          /\ b.cool <= rankTick /\ b.limit <= rankTick
          /\ ~Rank!IsSpent(b.roll, 0) /\ ~Rank!IsSpent(b.week, 0)
    BY BlocksEndWithTheirWalls
  <2> QED
    BY <1>1, <1>2, <2>1, <2>2
<1>7. Rank!IsHot(b) => Rank!IsHot(a)
  BY <1>2, <1>3 DEF Rank!IsHot, Rank!HotLeft
<1>8. Rank!IsMeasured(b) <=> Rank!IsMeasured(a)
  BY <1>2 DEF Rank!IsMeasured
<1>9. Rank!Used(b) <= Rank!Used(a)
  BY <1>2, <1>3 DEF Rank!Used
<1> QED
  BY <1>4, <1>5, <1>6, <1>7, <1>8, <1>9

\* What has lapsed lapses for the fuller account too.
LEMMA NoWorseCleared ==
  ASSUME RankBounds, RankTypes, NEW a \in Account, NEW b \in Account, NoWorse(a, b)
  PROVE  NoWorse(Rank!Cleared(a), Rank!Cleared(b))
<1>1. a.cool \in Nat /\ b.cool \in Nat /\ rankTick \in Nat
  BY DEF Account, RankTypes, RankBounds
<1> DEFINE ca == a.cool <= rankTick \/ Rank!Contradicted(a)
           cb == b.cool <= rankTick \/ Rank!Contradicted(b)
<1>2. /\ Rank!Cleared(a) = IF ca THEN [a EXCEPT !.cool = 0, !.why = "none"] ELSE a
      /\ Rank!Cleared(b) = IF cb THEN [b EXCEPT !.cool = 0, !.why = "none"] ELSE b
  BY DEF Rank!Cleared
<1>3. ca => cb
  BY <1>1, NoWorseJudged DEF NoWorse, Rank!Contradicted
<1> HIDE DEF ca, cb
<1>4. CASE cb
  <2>1. LET d == Rank!Cleared(b)
        IN  /\ d.cool = 0 /\ d.why = "none" /\ d.enabled = b.enabled /\ d.limit = b.limit
            /\ d.roll = b.roll /\ d.week = b.week
    BY <1>2, <1>4 DEF Account
  <2>2. LET c == Rank!Cleared(a)
        IN  c.enabled = a.enabled /\ c.limit = a.limit /\ c.roll = a.roll /\ c.week = a.week
    BY <1>2 DEF Account
  <2> QED
    BY <2>1, <2>2 DEF NoWorse
<1>5. CASE ~cb
  BY <1>2, <1>3, <1>5
<1> QED
  BY <1>4, <1>5

\* A candidate that precedes another one still does with more left.
LEMMA FullerStillPrecede ==
  ASSUME RankBounds, RankTypes, NEW p \in [Rank!Positions -> Account],
         NEW q \in [Rank!Positions -> Account],
         NEW i \in Rank!Positions, NEW j \in Rank!Positions,
         NoWorse(p[i], q[i]), q[j] = p[j], Rank!EnabledIn(q) = Rank!EnabledIn(p),
         Rank!Precedes(p, i, j)
  PROVE  Rank!Precedes(q, i, j)
<1> DEFINE x == Key(p, i)
           y == Key(p, j)
           z == Key(q, i)
<1>1. /\ x \in Keys /\ y \in Keys /\ z \in Keys
      /\ Before(x, y)
      /\ Rank!Precedes(q, i, j) <=> Before(z, Key(q, j))
  BY CandidatesAreKeys
<1>2. Key(q, j) = y
  <2>1. Rank!Turn(q, j) = Rank!Turn(p, j)
    BY DEF Rank!Turn
  <2> QED
    BY <2>1 DEF Key
<1>3. p[i] \in Account /\ q[i] \in Account
  OBVIOUS
<1>4. /\ z.hot => x.hot
      /\ z.read <=> x.read
      /\ z.used <= x.used
  BY <1>3, NoWorseJudged DEF Key
<1>5. z.left >= x.left /\ z.over = x.over
  <2>1. /\ Rank!Drain(q[i]).over = Rank!Drain(p[i]).over
        /\ Rank!Drain(p[i]).left = IF p[i].roll.left >= 0 THEN p[i].roll.left ELSE 0
        /\ Rank!Drain(q[i]).left = IF q[i].roll.left >= 0 THEN q[i].roll.left ELSE 0
    BY <1>3, DrainParts DEF NoWorse, Fuller
  <2>2. q[i].roll.left >= p[i].roll.left /\ p[i].roll.left \in Int /\ q[i].roll.left \in Int
    <3>1. /\ p[i].roll \in Windows /\ q[i].roll \in Windows /\ Fuller(p[i].roll, q[i].roll)
      BY <1>3 DEF Account, NoWorse
    <3> QED
      BY <3>1, FullerReads DEF Windows
  <2> QED
    BY <2>1, <2>2 DEF Key
<1>6. z.turn = x.turn
  BY DEF Key, Rank!Turn
<1> HIDE DEF x, y, z
<1>7. /\ Drains(x, y) => Drains(z, y)
      /\ Drains(y, z) => Drains(y, x)
  <2>1. /\ x.left \in Nat /\ z.left \in Nat /\ y.left \in Nat
        /\ x.over \in Nat \ {0} /\ y.over \in Nat \ {0}
    BY <1>1 DEF Keys
  <2>2. z.left * y.over >= x.left * y.over
    <3> DEFINE d == z.left - x.left
    <3>1. d \in Nat /\ z.left = x.left + d
      BY <1>5, <2>1
    <3> HIDE DEF d
    <3>2. z.left * y.over = x.left * y.over + d * y.over /\ d * y.over \in Nat
      BY <2>1, <3>1
    <3>3. x.left * y.over \in Nat
      BY <2>1
    <3> QED
      BY <3>2, <3>3
  <2>3. /\ z.left * y.over \in Nat /\ x.left * y.over \in Nat /\ y.left * x.over \in Nat
    BY <2>1
  <2> DEFINE zy == z.left * y.over
             xy == x.left * y.over
             yx == y.left * x.over
  <2>4. /\ Drains(x, y) <=> xy > yx
        /\ Drains(y, x) <=> yx > xy
        /\ Drains(z, y) <=> zy > yx
        /\ Drains(y, z) <=> yx > zy
    BY <1>5 DEF Drains
  <2>5. zy >= xy /\ zy \in Nat /\ xy \in Nat /\ yx \in Nat
    BY <2>2, <2>3
  <2> HIDE DEF zy, xy, yx
  <2> QED
    BY <2>4, <2>5
<1>8. /\ x.hot \in BOOLEAN /\ x.read \in BOOLEAN /\ x.used \in Int /\ x.turn \in Int
      /\ y.hot \in BOOLEAN /\ y.read \in BOOLEAN /\ y.used \in Int /\ y.turn \in Int
      /\ z.hot \in BOOLEAN /\ z.read \in BOOLEAN /\ z.used \in Int /\ z.turn \in Int
  BY <1>1 DEF Keys
<1>9. Before(z, y)
  BY <1>1, <1>4, <1>6, <1>7, <1>8 DEF Before
<1> QED
  BY <1>1, <1>2, <1>9

\* The account that is chosen is chosen with more left too.
LEMMA FullerIsChosen ==
  ASSUME RankBounds, RankTypes, NEW p \in [Rank!Positions -> Account],
         NEW q \in [Rank!Positions -> Account], NEW c \in Rank!Positions,
         c = Rank!Choice(p), NoWorse(p[c], q[c]),
         \A i \in Rank!Positions \ {c} : q[i] = p[i]
  PROVE  Rank!Choice(q) = c
<1>1. Rank!EnabledIn(q) = Rank!EnabledIn(p)
  BY DEF Rank!EnabledIn, NoWorse
<1> DEFINE free(d) == {i \in Rank!EnabledIn(d) : Rank!BlockedUntil(d[i]) = 0}
           S(d) == IF free(d) \subseteq full THEN free(d) ELSE free(d) \ full
<1>2. \A d : Rank!Choice(d) = IF Rank!IsUsable(d[cursor]) /\ cursor \notin full THEN cursor
                              ELSE IF free(d) = {} THEN Rank!Nobody ELSE Rank!First(d, S(d))
  BY DEF Rank!Choice
<1>3. /\ cursor \in Rank!Positions /\ p[c] \in Account /\ q[c] \in Account
      /\ c # Rank!Nobody
  BY DEF RankTypes, Rank!Positions, Rank!Nobody
<1>4. CASE Rank!IsUsable(p[cursor]) /\ cursor \notin full
  <2>1. c = cursor
    BY <1>2, <1>4
  <2>2. Rank!IsUsable(q[cursor])
    BY <1>3, <1>4, <2>1, NoWorseJudged
  <2> QED
    BY <1>2, <1>4, <2>1, <2>2
<1>5. CASE ~(Rank!IsUsable(p[cursor]) /\ cursor \notin full)
  <2>1. free(p) # {} /\ c = Rank!First(p, S(p))
    BY <1>2, <1>3, <1>5
  <2>2. S(p) \subseteq Rank!Positions /\ S(p) # {} /\ S(p) \subseteq free(p)
    BY <2>1 DEF Rank!EnabledIn
  <2>3. c \in S(p) /\ \A j \in S(p) \ {c} : Rank!Precedes(p, c, j)
    <3> DEFINE T == S(p)
    <3>1. \E i \in T : \A j \in T \ {i} : Rank!Precedes(p, i, j)
      BY <2>2, SomeoneIsFirst
    <3>2. c = Rank!First(p, T)
      BY <2>1
    <3> HIDE DEF T
    <3>3. c \in T /\ \A j \in T \ {c} : Rank!Precedes(p, c, j)
      BY <3>1, <3>2 DEF Rank!First
    <3> QED
      BY <3>3 DEF T
  <2>4. Rank!BlockedUntil(p[c]) = 0 /\ c \in Rank!EnabledIn(p)
    BY <2>2, <2>3
  <2>5. Rank!BlockedUntil(q[c]) = 0
    BY <1>3, <2>4, NoWorseJudged
  <2>6. free(q) = free(p)
    <3>1. \A i \in Rank!EnabledIn(p) :
            Rank!BlockedUntil(q[i]) = 0 <=> Rank!BlockedUntil(p[i]) = 0
      BY <2>4, <2>5 DEF Rank!EnabledIn
    <3> QED
      BY <1>1, <3>1
  <2>7. S(q) = S(p)
    BY <2>6
  <2>8. CASE Rank!IsUsable(q[cursor]) /\ cursor \notin full
    <3>1. c = cursor
      BY <1>3, <1>5, <2>8
    <3> QED
      BY <1>2, <2>8, <3>1
  <2>9. CASE ~(Rank!IsUsable(q[cursor]) /\ cursor \notin full)
    <3> DEFINE T == S(p)
    <3>1. Rank!Choice(q) = Rank!First(q, T)
      BY <1>2, <2>1, <2>6, <2>7, <2>9
    <3>2. \A j \in T \ {c} : Rank!Precedes(q, c, j)
      <4> SUFFICES ASSUME NEW j \in T \ {c} PROVE Rank!Precedes(q, c, j)
        OBVIOUS
      <4>1. j \in Rank!Positions /\ q[j] = p[j] /\ Rank!Precedes(p, c, j)
        BY <2>2, <2>3
      <4> QED
        BY <1>1, <4>1, FullerStillPrecede
    <3>3. c \in T /\ T \subseteq Rank!Positions
      BY <2>2, <2>3
    <3> HIDE DEF T
    <3>4. \A i \in T : (\A j \in T \ {i} : Rank!Precedes(q, i, j)) => i = c
      <4> SUFFICES ASSUME NEW i \in T, \A j \in T \ {i} : Rank!Precedes(q, i, j), i # c
                   PROVE  FALSE
        OBVIOUS
      <4>1. Rank!Precedes(q, i, c) /\ Rank!Precedes(q, c, i) /\ i \in Rank!Positions
        BY <3>2, <3>3
      <4> QED
        BY <4>1, CandidatesAreOrdered
    <3>5. Rank!First(q, T) = c
      BY <3>2, <3>3, <3>4 DEF Rank!First
    <3> QED
      BY <3>1, <3>5
  <2> QED
    BY <2>8, <2>9
<1> QED
  BY <1>4, <1>5

\* An account is never passed over for having more left in either window.
THEOREM FullerAccountsAreKept ==
  ASSUME RankBounds
  PROVE  Rank!Spec => []Rank!MoreIsNeverWorse
<1>1. RankInv => Rank!MoreIsNeverWorse
  <2> DEFINE c == Rank!Choice(Rank!Copy(ranked))
             Raised(w) == {[w EXCEPT !.left = f] : f \in {g \in Better : w.left # -1 /\ g > w.left}}
  <2> SUFFICES ASSUME RankInv, c # Rank!Nobody
               PROVE  /\ \A w \in Raised(ranked[c].roll) :
                           Rank!Choice(Rank!Copy([ranked EXCEPT ![c].roll = w])) = c
                      /\ \A w \in Raised(ranked[c].week) :
                           Rank!Choice(Rank!Copy([ranked EXCEPT ![c].week = w])) = c
    BY Zenon DEF Rank!MoreIsNeverWorse
  <2>1. RankTypes /\ ranked \in [Rank!Positions -> Account] /\ Better \subseteq Nat
    BY DEF RankInv, RankTypes, RankBounds
  <2>2. /\ Rank!Copy(ranked) \in [Rank!Positions -> Account]
        /\ \A i \in Rank!Positions : Rank!Copy(ranked)[i] = Rank!Cleared(ranked[i])
    BY <2>1, CopiesAreAccounts
  <2>3. c \in Rank!Positions
    BY <2>1, <2>2, SomeoneIsChosen
  <2>4. PICK k : k = c
    OBVIOUS
  <2> DEFINE a == ranked[k]
  <2>5. k \in Rank!Positions /\ a \in Account /\ a.roll \in Windows /\ a.week \in Windows
    BY <2>1, <2>3, <2>4 DEF Account
  <2>6. ASSUME NEW b \in Account, NoWorse(a, b)
        PROVE  Rank!Choice(Rank!Copy([ranked EXCEPT ![k] = b])) = k
    <3> DEFINE q == [ranked EXCEPT ![k] = b]
    <3>1. q \in [Rank!Positions -> Account] /\ q[k] = b
          /\ \A i \in Rank!Positions \ {k} : q[i] = ranked[i]
      BY <2>1, <2>5, <2>6
    <3> HIDE DEF q
    <3>2. /\ Rank!Copy(q) \in [Rank!Positions -> Account]
          /\ \A i \in Rank!Positions : Rank!Copy(q)[i] = Rank!Cleared(q[i])
      BY <2>1, <3>1, CopiesAreAccounts
    <3>3. NoWorse(Rank!Copy(ranked)[k], Rank!Copy(q)[k])
      BY <2>1, <2>2, <2>5, <2>6, <3>1, <3>2, NoWorseCleared
    <3>4. \A i \in Rank!Positions \ {k} : Rank!Copy(q)[i] = Rank!Copy(ranked)[i]
      BY <2>2, <3>1, <3>2
    <3>5. Rank!Choice(Rank!Copy(q)) = k
      BY <2>1, <2>2, <2>4, <2>5, <3>2, <3>3, <3>4, FullerIsChosen
    <3> QED
      BY <3>5 DEF q
  <2>7. ASSUME NEW v \in Windows, NEW w \in Raised(v)
        PROVE  w \in Windows /\ Fuller(v, w)
    <3>1. PICK f \in Better : v.left # -1 /\ f > v.left /\ w = [v EXCEPT !.left = f]
      BY <2>7
    <3>2. f \in Nat /\ v.left \in Nat /\ v \in [left: Nat \cup {-1}, reset: Nat]
      BY <2>1, <3>1 DEF Windows
    <3> QED
      BY <3>1, <3>2 DEF Windows, Fuller
  <2> HIDE DEF Raised
  <2>8. ASSUME NEW w \in Raised(a.roll)
        PROVE  Rank!Choice(Rank!Copy([ranked EXCEPT ![k].roll = w])) = k
    <3> DEFINE b == [a EXCEPT !.roll = w]
    <3>1. w \in Windows /\ Fuller(a.roll, w)
      BY <2>5, <2>7, <2>8
    <3>2. b \in Account /\ NoWorse(a, b)
      BY <2>5, <3>1 DEF Account, NoWorse, Fuller
    <3>3. [ranked EXCEPT ![k].roll = w] = [ranked EXCEPT ![k] = b]
      BY <2>1, <2>5
    <3> HIDE DEF b
    <3> QED
      BY <2>6, <3>2, <3>3
  <2>9. ASSUME NEW w \in Raised(a.week)
        PROVE  Rank!Choice(Rank!Copy([ranked EXCEPT ![k].week = w])) = k
    <3> DEFINE b == [a EXCEPT !.week = w]
    <3>1. w \in Windows /\ Fuller(a.week, w)
      BY <2>5, <2>7, <2>9
    <3>2. b \in Account /\ NoWorse(a, b)
      BY <2>5, <3>1 DEF Account, NoWorse, Fuller
    <3>3. [ranked EXCEPT ![k].week = w] = [ranked EXCEPT ![k] = b]
      BY <2>1, <2>5
    <3> HIDE DEF b
    <3> QED
      BY <2>6, <3>2, <3>3
  <2> HIDE DEF c
  <2> QED
    BY <2>4, <2>8, <2>9
<1> QED
  BY <1>1, RankAlways, PTL

-----------------------------------------------------------------------------
(* The pool composed: each part moves by its own steps.                     *)

PoolBounds == QuotaBounds /\ RankBounds
poolVarsAll == <<vars, quotaVars, rankVars, stress>>

\* The pool of accounts moves by its own steps or keeps still, whichever stress it is under.
LEMMA ThePoolMovesByItself == AllSpec => Spec
<1>1. AllInit => Init
  BY DEF AllInit
<1>2. TwoRequests \/ OneRequest \/ InTurn => Next
  BY Zenon DEF TwoRequests, OneRequest, InTurn, Next
<1>3. [AllNext]_poolVarsAll => [Next]_vars
  BY <1>2, Zenon DEF AllNext, poolVarsAll
<1> QED
  BY <1>1, <1>3, PTL DEF AllSpec, Spec, poolVarsAll

\* So do the quota readings.
LEMMA ReadingsMoveByThemselves == AllSpec => Quota!Spec
<1>1. AllInit => Quota!Init
  BY DEF AllInit
<1>2. [AllNext]_poolVarsAll => [Quota!Next]_(Quota!vars)
  BY Zenon DEF AllNext, poolVarsAll, quotaVars, Quota!vars
<1> QED
  BY <1>1, <1>2, PTL DEF AllSpec, Quota!Spec, poolVarsAll

\* So does the ranking.
LEMMA TheRankingMovesByItself == AllSpec => Rank!Spec
<1>1. AllInit => Rank!Init
  BY DEF AllInit
<1>2. [AllNext]_poolVarsAll => [Rank!Next]_(Rank!vars)
  BY Zenon DEF AllNext, poolVarsAll, rankVars, Rank!vars
<1> QED
  BY <1>1, <1>2, PTL DEF AllSpec, Rank!Spec, poolVarsAll

\* Every variable of the pool, its readings and its ranking keeps its type.
THEOREM PoolTypesAreCorrect ==
  ASSUME PoolBounds
  PROVE  AllSpec => []AllTypesOK
<1>1. AllSpec => []TypeOK
  BY ThePoolMovesByItself, TypeCorrect, PTL
<1>2. AllSpec => []Quota!TypeOK
  BY ReadingsMoveByThemselves, QuotaTypesCorrect, PTL DEF PoolBounds
<1>3. AllSpec => []Rank!TypeOK
  BY TheRankingMovesByItself, RankTypesCorrect, PTL DEF PoolBounds
<1>4. TypeOK /\ Quota!TypeOK /\ Rank!TypeOK => AllTypesOK
  BY DEF AllTypesOK
<1> QED
  BY <1>1, <1>2, <1>3, <1>4, PTL

\* A spent window is measured again after the shortest interval, whatever else was measured.
THEOREM SpentFamiliesAreMeasuredAgain ==
  ASSUME PoolBounds
  PROVE  AllSpec => []SpentFamiliesAreRemeasured
<1>1. Quota!SpentFamiliesAreRemeasured => SpentFamiliesAreRemeasured
  BY DEF SpentFamiliesAreRemeasured
<1> QED
  BY <1>1, ReadingsMoveByThemselves, SpentFamiliesComeUpSoon, PTL DEF PoolBounds

\* No week is filed as a rolling window, and no reading outlives the document's stamp of it.
THEOREM NoWeekIsFiledAsRolling ==
  ASSUME PoolBounds
  PROVE  AllSpec => []RollingWindowsAreShort
<1>1. Quota!RollingWindowsAreShort => RollingWindowsAreShort
  BY DEF RollingWindowsAreShort
<1> QED
  BY <1>1, ReadingsMoveByThemselves, RollingWindowsStayShort, PTL DEF PoolBounds

\* A probe that says nothing of the week leaves what was known of it.
THEOREM WeeksAreCarried ==
  ASSUME PoolBounds
  PROVE  AllSpec => CarriedWeeksSurvive
BY ReadingsMoveByThemselves, UntoldWeeksSurvive, PTL DEF PoolBounds, CarriedWeeksSurvive

\* A caller told to retry finds an account from the announced moment on.
THEOREM RetriesAreNotInVain ==
  ASSUME PoolBounds
  PROVE  AllSpec => []RetriesFindAnAccount
<1>1. Rank!RetriesFindAnAccount => RetriesFindAnAccount
  BY DEF RetriesFindAnAccount
<1> QED
  BY <1>1, TheRankingMovesByItself, RetriesAreServed, PTL DEF PoolBounds

\* An account is never passed over for having more left.
THEOREM HavingMoreIsNeverWorse ==
  ASSUME PoolBounds
  PROVE  AllSpec => []MoreIsNeverWorse
<1>1. Rank!MoreIsNeverWorse => MoreIsNeverWorse
  BY DEF MoreIsNeverWorse
<1> QED
  BY <1>1, TheRankingMovesByItself, FullerAccountsAreKept, PTL DEF PoolBounds
=============================================================================
