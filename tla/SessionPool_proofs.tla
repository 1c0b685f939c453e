-------------------------- MODULE SessionPool_proofs --------------------------
(***************************************************************************)
(* Proofs about SessionPool, for any pool, any number of requests, probes  *)
(* and edits, any model families and any timing.                           *)
(***************************************************************************)
EXTENDS SessionPool, WellFoundedInduction, FiniteSetTheorems, SequenceTheorems, TLAPS

-----------------------------------------------------------------------------
(* The account document.                                                    *)

\* The conditions of an account's state that the source changes one at a time.
LEMMA StateParts ==
  ASSUME NEW h \in AccountState
  PROVE  /\ h.enabled \in BOOLEAN /\ h.coolUntil \in Nat /\ h.why \in Reasons
         /\ h.limitUntil \in [Families -> Nat]
         /\ h.quota \in [Families -> Nat \cup {Unmeasured}] /\ h.nearly \in [Families -> Nat]
  BY DEF AccountState

LEMMA UncooledType ==
  ASSUME NEW h \in AccountState
  PROVE  /\ Uncooled(h) \in AccountState
         /\ Uncooled(h).enabled = h.enabled /\ Uncooled(h).limitUntil = h.limitUntil
         /\ Uncooled(h).quota = h.quota /\ Uncooled(h).nearly = h.nearly /\ Uncooled(h).coolUntil = 0
  BY DEF Uncooled, AccountState, Reasons

LEMMA HealedType ==
  ASSUME NEW h \in AccountState
  PROVE  /\ Healed(h) \in AccountState
         /\ Healed(h).enabled = h.enabled /\ Healed(h).limitUntil = h.limitUntil
         /\ Healed(h).quota = h.quota /\ Healed(h).nearly = h.nearly
         /\ Healed(h).coolUntil = h.coolUntil \/ (h.why = "quota-exhausted" /\ HasHealthyQuota(h))
  BY UncooledType DEF Healed

LEMMA ClearExpiredType ==
  ASSUME NEW h \in AccountState, now \in Nat
  PROVE  ClearExpired(h) \in AccountState
<1> DEFINE live == [h EXCEPT !.limitUntil = [f \in Families |-> IF @[f] > now THEN @[f] ELSE 0]]
<1>1. live \in AccountState
  BY DEF AccountState
<1>2. (IF Cooling(live) THEN live ELSE Uncooled(live)) \in AccountState
  BY <1>1, UncooledType
<1>3. ClearExpired(h) = Healed(IF Cooling(live) THEN live ELSE Uncooled(live))
  BY DEF ClearExpired
<1> HIDE DEF live
<1> QED
  BY <1>2, <1>3, HealedType

\* A reading disables a revoked account, or replaces what was known of the quota, and lifts
\* nothing but a quota cooldown that it contradicts.
LEMMA ReadingType ==
  ASSUME NEW h \in AccountState, NEW reading \in Readings, now \in Nat
  PROVE  LET h2 == WithReading(h, reading)
         IN  /\ h2 \in AccountState
             /\ h2.enabled => h.enabled
             /\ h2.limitUntil = h.limitUntil
             /\ h2.coolUntil = h.coolUntil \/ (h.why = "quota-exhausted" /\ HasHealthyQuota(h2))
<1>1. CASE IsRevoked(reading)
  BY <1>1 DEF WithReading, AccountState
<1>2. CASE ~IsRevoked(reading)
  <2> DEFINE q == [f \in Families |-> Reset(reading, f, "spent")]
             n == [f \in Families |-> Reset(reading, f, "nearly")]
             m == [h EXCEPT !.quota = q, !.nearly = n]
  <2>1. now + LimitTicks \in Nat
    BY TicksAssumption
  <2>2. q \in [Families -> Nat] /\ n \in [Families -> Nat]
    BY <2>1 DEF Reset
  <2>3. WithReading(h, reading) = Healed(m)
    BY <1>2 DEF WithReading
  <2> HIDE DEF q, n
  <2>4. /\ m \in AccountState /\ m.enabled = h.enabled /\ m.limitUntil = h.limitUntil
        /\ m.coolUntil = h.coolUntil /\ m.why = h.why
    BY <2>2 DEF AccountState
  <2> HIDE DEF m
  <2>5. HasHealthyQuota(Healed(m)) <=> HasHealthyQuota(m)
    BY <2>4, HealedType DEF HasHealthyQuota
  <2> QED
    BY <2>3, <2>4, <2>5, HealedType
<1> QED
  BY <1>1, <1>2

LEMMA DecidedType ==
  ASSUME NEW kind \in FailureKinds, NEW h \in AccountState, NEW backoff \in Nat, NEW reset \in Nat,
         now \in Nat
  PROVE  DecidedState(kind, h, backoff, reset) \in AccountState
<1>1. ASSUME NEW until \in Nat, NEW why \in Reasons PROVE Parked(h, until, why) \in AccountState
  BY <1>1 DEF Parked, AccountState
<1>2. [h EXCEPT !.enabled = FALSE] \in AccountState
  BY DEF AccountState
<1>3. CASE kind = "quota"
  <2>1. Least(reset, QuotaTicks) \in Nat /\ now + QuotaTicks \in Nat
    BY TicksAssumption DEF Least
  <2>2. now + (IF reset = 0 THEN QuotaTicks ELSE Least(reset, QuotaTicks)) \in Nat
    BY <2>1, TicksAssumption
  <2> QED
    BY <1>1, <1>3, <2>2 DEF DecidedState, Reasons
<1>4. CASE kind # "quota"
  <2>1. now + VerifyTicks \in Nat /\ now + backoff \in Nat
    BY TicksAssumption
  <2> QED
    BY <1>1, <1>2, <1>4, <2>1 DEF DecidedState, Reasons
<1> QED
  BY <1>3, <1>4

LEMMA LimitType ==
  ASSUME NEW kind, NEW h \in AccountState, NEW f \in Families, NEW reset \in Nat, now \in Nat
  PROVE  WithLimit(kind, h, f, reset) \in AccountState
<1>1. h.limitUntil[f] \in Nat /\ now + (IF reset = 0 THEN LimitTicks ELSE reset) \in Nat
  BY TicksAssumption DEF AccountState
<1>2. Greatest(h.limitUntil[f], now + (IF reset = 0 THEN LimitTicks ELSE reset)) \in Nat
  BY <1>1 DEF Greatest
<1> QED
  BY <1>2 DEF WithLimit, AccountState

LEMMA DocParts ==
  ASSUME NEW d \in Doc
  PROVE  /\ d.order \in Seq(Accounts) /\ d.active \in Nat /\ d.health \in [Accounts -> AccountState]
         /\ Len(d.order) \in Nat
         /\ \A i \in Positions(d) : i \in Nat /\ d.order[i] \in Accounts
         /\ EnabledAt(d) \subseteq Positions(d) /\ Present(d) \subseteq Accounts
  BY DEF Doc, Positions, EnabledAt, Present

LEMMA DocActive ==
  ASSUME NEW d \in Doc, NEW n \in Nat
  PROVE  LET e == [d EXCEPT !.active = n]
         IN  e \in Doc /\ e.order = d.order /\ e.health = d.health /\ e.active = n
  BY DEF Doc

LEMMA DocHealth ==
  ASSUME NEW d \in Doc, NEW hs \in [Accounts -> AccountState]
  PROVE  LET e == [d EXCEPT !.health = hs]
         IN  e \in Doc /\ e.order = d.order /\ e.health = hs /\ e.active = d.active
  BY DEF Doc

LEMMA DocOneHealth ==
  ASSUME NEW d \in Doc, NEW a \in Accounts, NEW h \in AccountState
  PROVE  LET e == [d EXCEPT !.health[a] = h]
         IN  /\ e \in Doc /\ e.order = d.order /\ e.active = d.active
             /\ e.health = [d.health EXCEPT ![a] = h]
  BY DEF Doc

LEMMA NewAccountType == NewAccount \in AccountState
  BY DEF NewAccount, AccountState, Reasons, Unmeasured

\* Disabling an account changes nothing else, and nothing at all once it is gone.
LEMMA DisabledType ==
  ASSUME NEW d \in Doc, NEW a
  PROVE  LET e == Disabled(d, a)
         IN  /\ e \in Doc /\ e.order = d.order /\ e.active = d.active
             /\ \A b \in Accounts :
                  /\ e.health[b].enabled => d.health[b].enabled
                  /\ e.health[b].limitUntil = d.health[b].limitUntil
                  /\ e.health[b].coolUntil = d.health[b].coolUntil
<1>1. CASE a \notin Present(d)
  BY <1>1 DEF Disabled
<1>2. CASE a \in Present(d)
  <2> DEFINE h == [d.health[a] EXCEPT !.enabled = FALSE]
  <2>1. a \in Accounts /\ d.health[a] \in AccountState /\ d.health \in [Accounts -> AccountState]
    BY <1>2, DocParts
  <2>2. /\ h \in AccountState /\ h.enabled = FALSE /\ h.limitUntil = d.health[a].limitUntil
        /\ h.coolUntil = d.health[a].coolUntil
    BY <2>1 DEF AccountState
  <2>3. Disabled(d, a) = [d EXCEPT !.health[a] = h]
    BY <1>2 DEF Disabled
  <2> HIDE DEF h
  <2> QED
    BY <2>1, <2>2, <2>3, DocOneHealth
<1> QED
  BY <1>1, <1>2

\* A round of measurements moves neither the accounts nor the cursor, and can lift
\* nothing but a quota cooldown that the reading contradicts.
LEMMA MeasuredType ==
  ASSUME NEW d \in Doc, NEW S, NEW found \in [S -> Readings], now \in Nat
  PROVE  LET e == Measured(d, found)
         IN  /\ e \in Doc /\ e.order = d.order /\ e.active = d.active
             /\ \A a \in Accounts :
                  LET h == d.health[a]
                      h2 == e.health[a]
                  IN  /\ h2.enabled => h.enabled
                      /\ h2.limitUntil = h.limitUntil
                      /\ h2.coolUntil = h.coolUntil \/ (h.why = "quota-exhausted" /\ HasHealthyQuota(h2))
<1> DEFINE hs == [a \in Accounts |-> IF a \in DOMAIN found /\ a \in Present(d)
                                       THEN WithReading(d.health[a], found[a])
                                       ELSE d.health[a]]
<1>1. \A a \in Accounts : d.health[a] \in AccountState
  BY DocParts
<1>2. \A a \in Accounts :
        /\ hs[a] \in AccountState
        /\ hs[a].enabled => d.health[a].enabled
        /\ hs[a].limitUntil = d.health[a].limitUntil
        /\ \/ hs[a].coolUntil = d.health[a].coolUntil
           \/ d.health[a].why = "quota-exhausted" /\ HasHealthyQuota(hs[a])
  <2> TAKE a \in Accounts
  <2>1. CASE a \in DOMAIN found /\ a \in Present(d)
    <3>1. found[a] \in Readings /\ hs[a] = WithReading(d.health[a], found[a])
      BY <2>1
    <3> HIDE DEF hs
    <3> QED
      BY <3>1, <1>1, ReadingType
  <2>2. CASE ~(a \in DOMAIN found /\ a \in Present(d))
    <3>1. hs[a] = d.health[a]
      BY <2>2
    <3> HIDE DEF hs
    <3> QED
      BY <3>1, <1>1
  <2> QED
    BY <2>1, <2>2
<1>3. hs \in [Accounts -> AccountState]
  BY <1>2
<1>4. Measured(d, found) = [d EXCEPT !.health = hs]
  BY DEF Measured
<1> HIDE DEF hs
<1> QED
  BY <1>2, <1>3, <1>4, DocHealth

-----------------------------------------------------------------------------
(* The cursor.                                                              *)

LEMMA LeastPosition ==
  ASSUME NEW S, S \subseteq Nat, S # {}
  PROVE  \E j \in S : \A k \in S : j <= k
<1>1. \E j \in S : \A k \in S : <<k, j>> \notin OpToRel(<, Nat)
  BY WFMin, NatLessThanWellFounded, Zenon
<1>2. \E j \in S : \A k \in S : ~(k < j)
  BY <1>1, Zenon DEF OpToRel
<1> QED
  BY <1>2

\* The cursor always lands on a number, whichever accounts are fit.
LEMMA NextPositionType ==
  ASSUME NEW d \in Doc, NEW i \in Nat, NEW f
  PROVE  NextPosition(d, i, f) \in Nat
<1> DEFINE others == {j \in EnabledAt(d) \ {i} :
                        /\ ~Cooling(d.health[d.order[j]])
                        /\ f # AnyFamily => ~Limited(d.health[d.order[j]], f)}
           after == {j \in others : j > i}
           First(S) == CHOOSE j \in S : \A k \in S : j <= k
<1>1. others \subseteq Nat /\ after \subseteq Nat
  BY DocParts
<1>2. ASSUME NEW S, S \subseteq Nat, S # {} PROVE First(S) \in Nat
  BY <1>2, LeastPosition
<1>3. NextPosition(d, i, f) = IF others = {} THEN i
                              ELSE IF after # {} THEN First(after) ELSE First(others)
  BY DEF NextPosition
<1> HIDE DEF others, after, First
<1> QED
  BY <1>1, <1>2, <1>3

LEMMA PositionOfType ==
  ASSUME NEW d \in Doc, NEW a \in Present(d)
  PROVE  PositionOf(d, a) \in Positions(d) /\ PositionOf(d, a) \in Nat
  BY DocParts DEF PositionOf, Present

-----------------------------------------------------------------------------
(* The inductive invariant.                                                 *)

CallSet == [conv: Conversations \cup {NoAccount}, fam: Families \cup {AnyFamily}, asked: Nat]
LoopSet == [max: Nat, attempt: Nat, proxies: Nat, transport: BOOLEAN]
\* a probe that asks has an account
ProbeSet == [step: {"idle", "done"}, at: Nat, of: Accounts \cup {NoAccount}]
            \cup [step: {"asking"}, at: Nat, of: Accounts]
Places == Active \cup Outcomes \cup {"idle", "using"}

PoolTypes ==
  /\ store \in Doc /\ Injective(store.order)
  /\ affinity \in [Conversations -> Accounts \cup {NoAccount}]
  /\ unseen \subseteq Accounts

ReqTypes ==
  /\ pc \in [Requests -> Places]
  /\ call \in [Requests -> CallSet]
  /\ snap \in [Requests -> Doc]
  /\ acct \in [Requests -> Accounts \cup {NoAccount}]
  /\ loop \in [Requests -> LoopSet]
  /\ tried \in [Requests -> SUBSET Accounts]

EnvTypes ==
  /\ now \in Nat
  /\ probe \in [Probes -> ProbeSet]
  /\ clearing \in BOOLEAN /\ edits \in Nat /\ behind \subseteq Requests

\* What a request at `l` knows about its own copy `d`, its account `a` and its call `c`: an
\* account it picked stands in its copy; the position a test call asks about is one of its
\* copy; only a chat turn waits for a measurement, moves the cursor or goes round the loop;
\* and it is about a family.
Coherent(l, c, d, a) ==
  /\ l \in (Active \ {"select", "pick"}) \cup {"using"} => a # NoAccount
  /\ l \in {"save", "auth", "serve"} => a \in Present(d)
  /\ l = "pick" /\ c.asked # NotPinned => c.asked \in Positions(d)
  /\ l \in {"select", "save", "skip", "revoked", "reload", "using"} => c.asked = NotPinned
  /\ l \in Active \cup {"using"} => c.fam \in Families

ReqInv == ReqTypes /\ \A q \in Requests : Coherent(pc[q], call[q], snap[q], acct[q])

IInv == PoolTypes /\ EnvTypes /\ ReqInv

\* All of TypeOK but the type of the history.
LEMMA IInvType == IInv /\ apart \in [Requests -> SUBSET Accounts] => TypeOK
  BY DEF IInv, PoolTypes, EnvTypes, ReqInv, ReqTypes, TypeOK, Coherent, CallSet, LoopSet, ProbeSet, Places

LEMMA Shapes ==
  /\ EmptyDoc \in Doc /\ Idle \in CallSet /\ NoLoop \in LoopSet
  /\ Idle.asked = NotPinned
  /\ \A n \in Nat : Attempts(n) \in LoopSet
<1>1. EmptyDoc \in Doc
  BY NewAccountType, EmptySeq DEF EmptyDoc, Doc
<1>2. Idle \in CallSet /\ Idle.asked = NotPinned
  BY DEF Idle, CallSet, NotPinned
<1>3. NoLoop \in LoopSet /\ \A n \in Nat : Attempts(n) \in LoopSet
  BY DEF NoLoop, Attempts, LoopSet
<1> QED
  BY <1>1, <1>2, <1>3

LEMMA FittingInit == Init => IInv
<1> SUFFICES ASSUME Init PROVE IInv
  OBVIOUS
<1>1. PICK i \in 1 .. Len(Enrolled) :
        store = [order |-> Enrolled, active |-> i, health |-> [a \in Accounts |-> NewAccount]]
  BY DEF Init
<1>2. i \in Nat /\ [a \in Accounts |-> NewAccount] \in [Accounts -> AccountState]
  BY NewAccountType, EnrolledAssumption
<1>3. store \in Doc /\ store.order = Enrolled
  BY <1>1, <1>2, EnrolledAssumption DEF Doc
<1>4. Injective(store.order)
  BY <1>3, EnrolledAssumption DEF Injective
<1>5. EnvTypes
  BY DEF Init, EnvTypes, ProbeSet
<1>6. ReqTypes
  BY Shapes DEF Init, ReqTypes, Places
<1>7. \A q \in Requests : Coherent(pc[q], call[q], snap[q], acct[q])
  BY DEF Init, Coherent, Active
<1>8. PoolTypes
  BY <1>3, <1>4 DEF Init, PoolTypes
<1> QED
  BY <1>5, <1>6, <1>7, <1>8 DEF IInv, ReqInv

-----------------------------------------------------------------------------
(* One request's step.                                                      *)

\* A step of request r leaves what the other requests know alone.
Alone(r) ==
  \A q \in Requests \ {r} :
    pc'[q] = pc[q] /\ call'[q] = call[q] /\ snap'[q] = snap[q] /\ acct'[q] = acct[q]

LEMMA OneRequestMoves ==
  ASSUME ReqInv, NEW r \in Requests, Alone(r), ReqTypes',
         Coherent(pc'[r], call'[r], snap'[r], acct'[r])
  PROVE  ReqInv'
<1>1. \A q \in Requests : Coherent(pc[q], call[q], snap[q], acct[q])'
  <2> TAKE q \in Requests
  <2>1. CASE q = r
    BY <2>1 DEF Coherent
  <2>2. CASE q # r
    <3>1. Coherent(pc[q], call[q], snap[q], acct[q])
      BY DEF ReqInv
    <3> QED
      BY <2>2, <3>1 DEF Alone, Coherent
  <2> QED
    BY <2>1, <2>2
<1> QED
  BY <1>1 DEF ReqInv

\* A request that is over keeps nothing.
LEMMA Finishing ==
  ASSUME IInv, NEW r \in Requests, NEW o \in Outcomes, Finish(r, o)
  PROVE  ReqInv'
<1>1. ReqTypes'
  BY Shapes DEF Finish, Goto, IInv, ReqInv, ReqTypes, Places
<1>2. /\ Alone(r) /\ pc'[r] = o /\ call'[r] = Idle
  BY DEF Finish, Goto, Alone, IInv, ReqInv, ReqTypes
<1>3. Coherent(pc'[r], call'[r], snap'[r], acct'[r])
  BY <1>2, Shapes DEF Coherent, Active, Outcomes
<1> QED
  BY <1>1, <1>2, <1>3, OneRequestMoves DEF IInv

LEMMA EnvKept == ASSUME IInv, UNCHANGED envVars PROVE EnvTypes' /\ now' = now
  BY DEF IInv, EnvTypes, envVars

LEMMA PoolKept == ASSUME IInv, UNCHANGED poolVars PROVE PoolTypes'
  BY DEF IInv, PoolTypes, poolVars

LEMMA PinsFreed ==
  ASSUME IInv, NEW a PROVE FreePins(a) \in [Conversations -> Accounts \cup {NoAccount}]
  BY DEF IInv, PoolTypes, FreePins

LEMMA BeginKeeps ==
  ASSUME IInv, NEW r \in Requests, NEW c \in Conversations, NEW f \in Families, Begin(r, c, f)
  PROVE  IInv'
<1>1. PoolTypes' /\ EnvTypes' /\ now' = now
  BY EnvKept, PoolKept DEF Begin
<1>2. CASE Finish(r, "no-credential")
  BY <1>1, <1>2, Finishing DEF IInv, Outcomes
<1>3. CASE EnabledAt(store) # {}
  <2> DEFINE k == [conv |-> c, fam |-> f, asked |-> NotPinned]
             n == Cardinality(EnabledAt(store))
  <2>1. k \in CallSet /\ k.fam = f /\ k.asked = NotPinned
    BY DEF CallSet, NotPinned
  <2>2. n \in Nat
    <3>1. IsFiniteSet(1 .. Len(store.order))
      BY FS_Interval, DocParts DEF IInv, PoolTypes
    <3> QED
      BY <3>1, FS_Subset, FS_CardinalityType, DocParts DEF IInv, PoolTypes, Positions
  <2>3. /\ pc' = [pc EXCEPT ![r] = "select"] /\ call' = [call EXCEPT ![r] = k]
        /\ snap' = [snap EXCEPT ![r] = store] /\ loop' = [loop EXCEPT ![r] = Attempts(n)]
        /\ acct' = acct /\ tried' = tried
    BY <1>3 DEF Begin, Goto
  <2> HIDE DEF k, n
  <2>4. ReqTypes'
    BY <2>1, <2>2, <2>3, Shapes DEF IInv, PoolTypes, ReqInv, ReqTypes, Places, Active
  <2>5. Alone(r) /\ pc'[r] = "select" /\ call'[r] = k
    BY <2>3 DEF Alone, IInv, ReqInv, ReqTypes
  <2>6. Coherent(pc'[r], call'[r], snap'[r], acct'[r])
    BY <2>1, <2>5 DEF Coherent
  <2> QED
    BY <1>1, <2>4, <2>5, <2>6, OneRequestMoves DEF IInv
<1> QED
  BY <1>2, <1>3 DEF Begin

LEMMA BeginTestKeeps ==
  ASSUME IInv, NEW r \in Requests, NEW f \in Families, NEW asked \in Positions(store),
         BeginTest(r, f, asked)
  PROVE  IInv'
<1>1. PoolTypes' /\ EnvTypes' /\ now' = now
  BY EnvKept, PoolKept DEF BeginTest
<1>2. CASE Finish(r, "failed")
  BY <1>1, <1>2, Finishing DEF IInv, Outcomes
<1>3. CASE asked \in EnabledAt(store)
  <2> DEFINE k == [conv |-> NoAccount, fam |-> f, asked |-> asked]
  <2>1. k \in CallSet /\ k.fam = f /\ k.asked = asked
    BY DocParts DEF CallSet, IInv, PoolTypes
  <2>2. /\ pc' = [pc EXCEPT ![r] = "pick"] /\ call' = [call EXCEPT ![r] = k]
        /\ snap' = [snap EXCEPT ![r] = store] /\ loop' = [loop EXCEPT ![r] = Attempts(1)]
        /\ acct' = acct /\ tried' = tried
    BY <1>3 DEF BeginTest, Goto
  <2> HIDE DEF k
  <2>3. ReqTypes'
    BY <2>1, <2>2, Shapes DEF IInv, PoolTypes, ReqInv, ReqTypes, Places, Active
  <2>4. Alone(r) /\ pc'[r] = "pick" /\ call'[r] = k /\ snap'[r] = store
    BY <2>2 DEF Alone, IInv, ReqInv, ReqTypes
  <2>5. Coherent(pc'[r], call'[r], snap'[r], acct'[r])
    BY <2>1, <2>4 DEF Coherent
  <2> QED
    BY <1>1, <2>3, <2>4, <2>5, OneRequestMoves DEF IInv
<1> QED
  BY <1>2, <1>3 DEF BeginTest

\* What the invariant says of one request.
LEMMA AtRequest ==
  ASSUME IInv, NEW r \in Requests
  PROVE  /\ pc[r] \in Places /\ call[r] \in CallSet /\ snap[r] \in Doc /\ loop[r] \in LoopSet
         /\ acct[r] \in Accounts \cup {NoAccount} /\ tried[r] \subseteq Accounts
         /\ call[r].asked \in Nat
         /\ Coherent(pc[r], call[r], snap[r], acct[r])
         /\ store \in Doc /\ now \in Nat
  BY DEF IInv, ReqInv, ReqTypes, PoolTypes, EnvTypes, CallSet

\* The revocations among some findings are findings.
LEMMA RevocationsAreFindings ==
  ASSUME NEW S, NEW found \in [S -> Readings], NEW saved \in {found, Revocations(found)}
  PROVE  saved \in [DOMAIN saved -> Readings]
<1> DEFINE T == {b \in DOMAIN found : IsRevoked(found[b])}
<1>1. Revocations(found) \in [T -> Readings]
  BY DEF Revocations
<1> HIDE DEF T
<1> QED
  BY <1>1

LEMMA MeasureKeeps ==
  ASSUME IInv, NEW r \in Requests, NEW found \in Findings(snap[r]),
         NEW saved \in {found, Revocations(found)}, Measure(r, found, saved)
  PROVE  IInv'
<1>1. PICK S \in SUBSET Present(snap[r]) : found \in [S -> Readings]
  BY DEF Findings
<1>2. EnvTypes' /\ now' = now
  BY EnvKept DEF Measure
<1>3. pc[r] = "select" /\ call[r].fam \in Families /\ call[r].asked = NotPinned
  BY AtRequest DEF Measure, Coherent, Active
<1> DEFINE d == Measured(snap[r], found)
<1>4. d \in Doc /\ store' \in Doc /\ store'.order = store.order
  <2>1. d \in Doc
    BY <1>1, AtRequest, MeasuredType
  <2>2. saved \in [DOMAIN saved -> Readings] /\ store' = Measured(store, saved)
    BY <1>1, RevocationsAreFindings DEF Measure
  <2> HIDE DEF d
  <2> QED
    BY <2>1, <2>2, AtRequest, MeasuredType
<1>5. /\ pc' = [pc EXCEPT ![r] = "pick"] /\ snap' = [snap EXCEPT ![r] = d]
      /\ call' = call /\ acct' = acct /\ loop' = loop /\ tried' = tried
      /\ affinity' = affinity /\ unseen' = unseen
  BY DEF Measure, Overlaid, Goto
<1> HIDE DEF d
<1>6. PoolTypes'
  BY <1>4, <1>5 DEF IInv, PoolTypes
<1>7. ReqTypes'
  BY <1>4, <1>5 DEF IInv, ReqInv, ReqTypes, Places, Active
<1>8. Alone(r) /\ pc'[r] = "pick" /\ call'[r] = call[r]
  BY <1>5 DEF Alone, IInv, ReqInv, ReqTypes
<1>9. Coherent(pc'[r], call'[r], snap'[r], acct'[r])
  BY <1>3, <1>8 DEF Coherent
<1> QED
  BY <1>2, <1>6, <1>7, <1>8, <1>9, OneRequestMoves DEF IInv

LEMMA SkipMeasureKeeps ==
  ASSUME IInv, NEW r \in Requests, SkipMeasure(r)
  PROVE  IInv'
<1>1. PoolTypes' /\ EnvTypes' /\ now' = now
  BY EnvKept, PoolKept DEF SkipMeasure
<1>2. pc[r] = "select" /\ call[r].fam \in Families /\ call[r].asked = NotPinned
  BY AtRequest DEF SkipMeasure, Coherent, Active
<1>3. /\ pc' = [pc EXCEPT ![r] = "pick"]
      /\ call' = call /\ snap' = snap /\ acct' = acct /\ loop' = loop /\ tried' = tried
  BY DEF SkipMeasure, Goto
<1>4. ReqTypes'
  BY <1>3 DEF IInv, ReqInv, ReqTypes, Places, Active
<1>5. Alone(r) /\ pc'[r] = "pick" /\ call'[r] = call[r]
  BY <1>3 DEF Alone, IInv, ReqInv, ReqTypes
<1>6. Coherent(pc'[r], call'[r], snap'[r], acct'[r])
  BY <1>2, <1>5 DEF Coherent
<1> QED
  BY <1>1, <1>4, <1>5, <1>6, OneRequestMoves DEF IInv

\* Expired marks are cleared without moving an account, and never into an unfit one.
LEMMA ClearedType ==
  ASSUME NEW d \in Doc, now \in Nat
  PROVE  LET e == [d EXCEPT !.health = [a \in Accounts |-> ClearExpired(d.health[a])]]
         IN  e \in Doc /\ e.order = d.order /\ e.active = d.active
<1> DEFINE hs == [a \in Accounts |-> ClearExpired(d.health[a])]
<1>1. hs \in [Accounts -> AccountState]
  BY DocParts, ClearExpiredType
<1> QED
  BY <1>1, DocHealth, Zenon

\* An unblocked position is one of the copy it was judged on.
LEMMA UnblockedStands ==
  ASSUME NEW d \in Doc, NEW i, NEW f, Unblocked(d, i, f)
  PROVE  i \in Positions(d) /\ i \in Nat
BY DocParts DEF Unblocked

LEMMA TakingKeeps ==
  ASSUME IInv, NEW r \in Requests, NEW d \in Doc, NEW i \in Positions(d), NEW l \in {"save", "auth"},
         Take(r, d, i, l), pc[r] = "pick",
         call[r].asked # NotPinned => l = "auth"
  PROVE  ReqInv'
<1>1. d.order[i] \in Accounts /\ d.order[i] \in Present(d)
  BY DocParts DEF Present
<1>2. call[r].fam \in Families
  BY AtRequest DEF Coherent, Active
<1>3. /\ pc' = [pc EXCEPT ![r] = l] /\ snap' = [snap EXCEPT ![r] = d]
      /\ acct' = [acct EXCEPT ![r] = d.order[i]]
      /\ call' = call /\ loop' = loop /\ tried' = tried
  BY DEF Take, Goto
<1>4. ReqTypes'
  BY <1>1, <1>3 DEF IInv, ReqInv, ReqTypes, Places, Active
<1>5. Alone(r) /\ pc'[r] = l /\ call'[r] = call[r] /\ snap'[r] = d /\ acct'[r] = d.order[i]
  BY <1>3 DEF Alone, IInv, ReqInv, ReqTypes
<1>6. Coherent(pc'[r], call'[r], snap'[r], acct'[r])
  BY <1>1, <1>2, <1>5, NoAccountAssumption DEF Coherent
<1> QED
  BY <1>4, <1>5, <1>6, OneRequestMoves DEF IInv

LEMMA PickKeeps ==
  ASSUME IInv, NEW r \in Requests, Pick(r)
  PROVE  IInv'
<1> DEFINE d == [snap[r] EXCEPT !.health = [a \in Accounts |-> ClearExpired(snap[r].health[a])]]
           f == call[r].fam
           pinned == {i \in Positions(d) : d.order[i] = affinity[call[r].conv] /\ Usable(d, i, f)}
           act == d.active
<1>1. PoolTypes' /\ EnvTypes' /\ now' = now
  BY EnvKept, PoolKept DEF Pick
<1>2. pc[r] = "pick" /\ call[r].asked = NotPinned /\ f \in Families /\ now \in Nat
  BY AtRequest DEF Pick, Coherent, Active
<1>3. d \in Doc
  BY AtRequest, ClearedType
<1>4. \/ \E i \in pinned : Take(r, d, i, "auth")
      \/ Finish(r, "no-credential")
      \/ Usable(d, act, f) /\ Take(r, d, act, "auth")
      \/ Finish(r, BlockedKind(d, f))
      \/ \E i \in Candidates(d, f) : Take(r, [d EXCEPT !.active = i], i, IF i = act THEN "auth" ELSE "save")
  BY DEF Pick
<1> HIDE DEF d, f, act
<1>5. ASSUME NEW i \in pinned, Take(r, d, i, "auth") PROVE ReqInv'
  BY <1>2, <1>3, <1>5, TakingKeeps
<1>6. CASE Finish(r, "no-credential")
  BY <1>1, <1>6, Finishing DEF Outcomes, IInv
<1>7. CASE Usable(d, act, f) /\ Take(r, d, act, "auth")
  BY <1>1, <1>2, <1>3, <1>7, UnblockedStands, TakingKeeps DEF Usable, IInv
<1>8. CASE Finish(r, BlockedKind(d, f))
  <2>1. BlockedKind(d, f) \in Outcomes
    BY DEF BlockedKind, Outcomes
  <2> QED
    BY <1>1, <1>8, <2>1, Finishing DEF IInv
<1>9. ASSUME NEW i \in Candidates(d, f),
             Take(r, [d EXCEPT !.active = i], i, IF i = act THEN "auth" ELSE "save")
      PROVE  ReqInv'
  <2>1. i \in Nat /\ i \in Positions(d)
    BY <1>3, UnblockedStands DEF Candidates
  <2> DEFINE e == [d EXCEPT !.active = i]
             l == IF i = act THEN "auth" ELSE "save"
  <2>2. e \in Doc /\ e.order = d.order
    BY <1>3, <2>1, DocActive
  <2>3. l \in {"save", "auth"} /\ Take(r, e, i, l)
    BY <1>9
  <2> HIDE DEF e, l
  <2>4. i \in Positions(e)
    BY <2>1, <2>2 DEF Positions
  <2> QED
    BY <1>2, <2>2, <2>3, <2>4, TakingKeeps
<1> QED
  BY <1>1, <1>4, <1>5, <1>6, <1>7, <1>8, <1>9 DEF IInv

LEMMA PickAskedKeeps ==
  ASSUME IInv, NEW r \in Requests, PickAsked(r)
  PROVE  IInv'
<1>1. PoolTypes' /\ EnvTypes' /\ now' = now
  BY EnvKept, PoolKept DEF PickAsked
<1>2. pc[r] = "pick" /\ call[r].asked # NotPinned /\ call[r].asked \in Positions(snap[r])
  BY AtRequest DEF PickAsked, Coherent
<1>3. ReqInv'
  BY <1>1, <1>2, AtRequest, TakingKeeps DEF PickAsked
<1> QED
  BY <1>1, <1>3 DEF IInv

LEMMA CursorWritten ==
  ASSUME IInv, NEW r \in Requests, store' = WithCursor(r), affinity' = affinity, unseen' = unseen
  PROVE  PoolTypes' /\ store'.order = store.order /\ store'.health = store.health
<1>1. snap[r].active \in Nat /\ store \in Doc
  BY AtRequest, DocParts
<1>2. /\ WithCursor(r) \in Doc /\ WithCursor(r).order = store.order
      /\ WithCursor(r).health = store.health
  BY <1>1, DocActive DEF WithCursor
<1> QED
  BY <1>2 DEF IInv, PoolTypes

LEMMA SaveActiveKeeps ==
  ASSUME IInv, NEW r \in Requests, SaveActive(r)
  PROVE  IInv'
<1>1. PoolTypes' /\ EnvTypes' /\ now' = now
  BY EnvKept, CursorWritten DEF SaveActive
<1>2. /\ pc[r] = "save" /\ pc' = [pc EXCEPT ![r] = "auth"]
      /\ call' = call /\ snap' = snap /\ acct' = acct /\ loop' = loop /\ tried' = tried
  BY DEF SaveActive, Goto
<1>3. ReqTypes'
  BY <1>2 DEF IInv, ReqInv, ReqTypes, Places, Active
<1>4. /\ Alone(r) /\ pc'[r] = "auth"
      /\ call'[r] = call[r] /\ snap'[r] = snap[r] /\ acct'[r] = acct[r]
  BY <1>2 DEF Alone, IInv, ReqInv, ReqTypes
<1>5. Coherent(pc'[r], call'[r], snap'[r], acct'[r])
  BY <1>2, <1>4, AtRequest DEF Coherent, Active
<1> QED
  BY <1>1, <1>3, <1>4, <1>5, OneRequestMoves DEF IInv

LEMMA SaveSkipKeeps ==
  ASSUME IInv, NEW r \in Requests, SaveSkip(r)
  PROVE  IInv'
<1>1. PoolTypes' /\ EnvTypes' /\ now' = now
  BY EnvKept, CursorWritten DEF SaveSkip
<1>2. /\ pc[r] = "skip" /\ pc' = [pc EXCEPT ![r] = "reload"]
      /\ call' = call /\ snap' = snap /\ acct' = acct /\ loop' = loop /\ tried' = tried
  BY DEF SaveSkip, Goto
<1>3. ReqTypes'
  BY <1>2 DEF IInv, ReqInv, ReqTypes, Places, Active
<1>4. /\ Alone(r) /\ pc'[r] = "reload" /\ call'[r] = call[r] /\ acct'[r] = acct[r]
  BY <1>2 DEF Alone, IInv, ReqInv, ReqTypes
<1>5. Coherent(pc'[r], call'[r], snap'[r], acct'[r])
  BY <1>2, <1>4, AtRequest DEF Coherent, Active
<1> QED
  BY <1>1, <1>3, <1>4, <1>5, OneRequestMoves DEF IInv

LEMMA SaveFailsKeeps ==
  ASSUME IInv, NEW r \in Requests, SaveFails(r)
  PROVE  IInv'
<1>1. PoolTypes' /\ EnvTypes' /\ now' = now
  BY EnvKept, PoolKept DEF SaveFails
<1>2. CASE Finish(r, "failed")
  BY <1>1, <1>2, Finishing DEF IInv, Outcomes
<1>3. CASE pc[r] = "skip" /\ Goto(r, "reload") /\ UNCHANGED <<call, snap, acct, loop, tried>>
  <2>1. /\ pc[r] = "skip" /\ pc' = [pc EXCEPT ![r] = "reload"]
        /\ call' = call /\ snap' = snap /\ acct' = acct /\ loop' = loop /\ tried' = tried
    BY <1>3 DEF Goto
  <2>2. ReqTypes'
    BY <2>1 DEF IInv, ReqInv, ReqTypes, Places, Active
  <2>3. /\ Alone(r) /\ pc'[r] = "reload" /\ call'[r] = call[r] /\ acct'[r] = acct[r]
    BY <2>1 DEF Alone, IInv, ReqInv, ReqTypes
  <2>4. Coherent(pc'[r], call'[r], snap'[r], acct'[r])
    BY <2>1, <2>3, AtRequest DEF Coherent, Active
  <2> QED
    BY <1>1, <2>2, <2>3, <2>4, OneRequestMoves DEF IInv
<1> QED
  BY <1>2, <1>3 DEF SaveFails

LEMMA TokenOkKeeps ==
  ASSUME IInv, NEW r \in Requests, TokenOk(r)
  PROVE  IInv'
<1>1. PoolTypes' /\ EnvTypes' /\ now' = now
  BY EnvKept, PoolKept DEF TokenOk
<1>2. /\ pc[r] = "auth" /\ pc' = [pc EXCEPT ![r] = "serve"]
      /\ tried' = [tried EXCEPT ![r] = tried[r] \cup {acct[r]}]
      /\ call' = call /\ snap' = snap /\ acct' = acct /\ loop' = loop
  BY DEF TokenOk, NoteTried, Goto
<1>3. acct[r] \in Accounts
  BY <1>2, AtRequest DEF Coherent, Active
<1>4. ReqTypes'
  BY <1>2, <1>3 DEF IInv, ReqInv, ReqTypes, Places, Active
<1>5. /\ Alone(r) /\ pc'[r] = "serve"
      /\ call'[r] = call[r] /\ snap'[r] = snap[r] /\ acct'[r] = acct[r]
  BY <1>2 DEF Alone, IInv, ReqInv, ReqTypes
<1>6. Coherent(pc'[r], call'[r], snap'[r], acct'[r])
  BY <1>2, <1>5, AtRequest DEF Coherent, Active
<1> QED
  BY <1>1, <1>4, <1>5, <1>6, OneRequestMoves DEF IInv

LEMMA LoopCounted ==
  ASSUME NEW l \in LoopSet
  PROVE  /\ [l EXCEPT !.proxies = @ + 1] \in LoopSet /\ [l EXCEPT !.transport = TRUE] \in LoopSet
         /\ [l EXCEPT !.attempt = l.attempt + 1] \in LoopSet
<1>1. l.max \in Nat /\ l.attempt \in Nat /\ l.proxies \in Nat /\ l.transport \in BOOLEAN
  BY DEF LoopSet
<1>2. l.proxies + 1 \in Nat /\ l.attempt + 1 \in Nat
  BY <1>1
<1>3. ASSUME NEW n \in Nat PROVE [l EXCEPT !.proxies = n] \in LoopSet
  BY DEF LoopSet
<1>4. ASSUME NEW n \in Nat PROVE [l EXCEPT !.attempt = n] \in LoopSet
  BY DEF LoopSet
<1>5. [l EXCEPT !.transport = TRUE] \in LoopSet
  BY DEF LoopSet
<1> QED
  BY <1>2, <1>3, <1>4, <1>5

LEMMA TokenFailsKeeps ==
  ASSUME IInv, NEW r \in Requests, NEW proxyDead \in BOOLEAN, TokenFails(r, proxyDead)
  PROVE  IInv'
<1>1. EnvTypes' /\ now' = now /\ store' = store /\ unseen' = unseen
  BY EnvKept DEF TokenFails
<1>2. pc[r] = "auth" /\ acct[r] \in Accounts /\ acct[r] \in Present(snap[r]) /\ call[r].fam \in Families
  BY AtRequest DEF TokenFails, Coherent, Active
<1>3. CASE ~MovesPool(r)
  <2>1. Finish(r, "failed") /\ affinity' = affinity
    BY <1>3 DEF TokenFails
  <2>2. PoolTypes'
    BY <1>1, <2>1 DEF IInv, PoolTypes
  <2> QED
    BY <1>1, <2>1, <2>2, Finishing DEF IInv, Outcomes
<1>4. CASE MovesPool(r)
  <2> DEFINE n == NextPosition(snap[r], PositionOf(snap[r], acct[r]), AnyFamily)
             d == [snap[r] EXCEPT !.active = n]
             l == IF n # snap[r].active THEN "skip" ELSE "reload"
             p == IF proxyDead THEN [loop[r] EXCEPT !.proxies = @ + 1]
                               ELSE [loop[r] EXCEPT !.transport = TRUE]
  <2>1. /\ tried' = [tried EXCEPT ![r] = tried[r] \cup {acct[r]}] /\ affinity' = FreePins(acct[r])
        /\ snap' = [snap EXCEPT ![r] = d] /\ pc' = [pc EXCEPT ![r] = l]
        /\ loop' = [loop EXCEPT ![r] = p]
        /\ call' = call /\ acct' = acct
    <3>1. snap' = [snap EXCEPT ![r] = d]
      BY <1>4 DEF TokenFails
    <3>2. loop' = [loop EXCEPT ![r] = p]
      BY <1>4 DEF TokenFails
    <3>3. pc' = [pc EXCEPT ![r] = l]
      BY <1>4 DEF TokenFails, Goto
    <3>4. /\ tried' = [tried EXCEPT ![r] = tried[r] \cup {acct[r]}] /\ affinity' = FreePins(acct[r])
          /\ call' = call /\ acct' = acct
      BY <1>4 DEF TokenFails, NoteTried
    <3> HIDE DEF n, d, l, p
    <3> QED
      BY <3>1, <3>2, <3>3, <3>4
  <2>2. n \in Nat
    BY <1>2, AtRequest, PositionOfType, NextPositionType
  <2>3. l \in {"skip", "reload"}
    OBVIOUS
  <2> HIDE DEF n
  <2>4. d \in Doc
    BY <2>2, AtRequest, DocActive
  <2>5. p \in LoopSet
    BY AtRequest, LoopCounted
  <2> HIDE DEF d, l, p
  <2>6. PoolTypes'
    BY <1>1, <2>1, PinsFreed DEF IInv, PoolTypes
  <2>7. ReqTypes'
    BY <1>2, <2>1, <2>3, <2>4, <2>5 DEF IInv, ReqInv, ReqTypes, Places, Active
  <2>8. Alone(r) /\ pc'[r] = l /\ call'[r] = call[r] /\ acct'[r] = acct[r]
    BY <2>1 DEF Alone, IInv, ReqInv, ReqTypes
  <2>9. Coherent(pc'[r], call'[r], snap'[r], acct'[r])
    BY <1>2, <1>4, <2>3, <2>8, NoAccountAssumption DEF Coherent, MovesPool
  <2> QED
    BY <1>1, <2>6, <2>7, <2>8, <2>9, OneRequestMoves DEF IInv
<1> QED
  BY <1>3, <1>4

LEMMA TokenRevokedKeeps ==
  ASSUME IInv, NEW r \in Requests, TokenRevoked(r)
  PROVE  IInv'
<1>1. EnvTypes' /\ now' = now /\ store' = Disabled(store, acct[r]) /\ affinity' = affinity /\ unseen' = unseen
  BY EnvKept DEF TokenRevoked
<1>2. pc[r] = "auth" /\ acct[r] \in Accounts /\ call[r].fam \in Families
  BY AtRequest DEF TokenRevoked, Coherent, Active
<1>3. PoolTypes'
  BY <1>1, DisabledType, AtRequest DEF IInv, PoolTypes
<1>4. CASE ~MovesPool(r)
  <2>1. Finish(r, "failed")
    BY <1>4 DEF TokenRevoked
  <2> QED
    BY <1>1, <1>3, <2>1, Finishing DEF IInv, Outcomes
<1>5. CASE MovesPool(r)
  <2> DEFINE d == Disabled(snap[r], acct[r])
  <2>1. /\ tried' = [tried EXCEPT ![r] = tried[r] \cup {acct[r]}]
        /\ snap' = [snap EXCEPT ![r] = d] /\ pc' = [pc EXCEPT ![r] = "revoked"]
        /\ call' = call /\ acct' = acct /\ loop' = loop
    BY <1>5 DEF TokenRevoked, NoteTried, Goto
  <2>2. d \in Doc
    BY AtRequest, DisabledType
  <2> HIDE DEF d
  <2>3. ReqTypes'
    BY <1>2, <2>1, <2>2 DEF IInv, ReqInv, ReqTypes, Places, Active
  <2>4. Alone(r) /\ pc'[r] = "revoked" /\ call'[r] = call[r] /\ acct'[r] = acct[r]
    BY <2>1 DEF Alone, IInv, ReqInv, ReqTypes
  <2>5. Coherent(pc'[r], call'[r], snap'[r], acct'[r])
    BY <1>2, <1>5, <2>4, NoAccountAssumption DEF Coherent, MovesPool
  <2> QED
    BY <1>1, <1>3, <2>3, <2>4, <2>5, OneRequestMoves DEF IInv
<1> QED
  BY <1>4, <1>5

LEMMA DropRevokedKeeps ==
  ASSUME IInv, NEW r \in Requests, DropRevoked(r)
  PROVE  IInv'
<1>1. /\ EnvTypes' /\ now' = now /\ pc[r] = "revoked"
      /\ store' = store /\ affinity' = FreePins(acct[r]) /\ unseen' = unseen
  BY EnvKept DEF DropRevoked
<1>2. PoolTypes'
  BY <1>1, PinsFreed DEF IInv, PoolTypes
<1>3. /\ pc' = [pc EXCEPT ![r] = "reload"]
      /\ call' = call /\ snap' = snap /\ acct' = acct /\ loop' = loop /\ tried' = tried
  BY DEF DropRevoked, Goto
<1>4. ReqTypes'
  BY <1>3 DEF IInv, ReqInv, ReqTypes, Places, Active
<1>5. /\ Alone(r) /\ pc'[r] = "reload" /\ call'[r] = call[r] /\ acct'[r] = acct[r]
  BY <1>3 DEF Alone, IInv, ReqInv, ReqTypes
<1>6. Coherent(pc'[r], call'[r], snap'[r], acct'[r])
  BY <1>1, <1>5, AtRequest DEF Coherent, Active
<1> QED
  BY <1>1, <1>2, <1>4, <1>5, <1>6, OneRequestMoves DEF IInv

LEMMA ReloadKeeps ==
  ASSUME IInv, NEW r \in Requests, Reload(r)
  PROVE  IInv'
<1>1. PoolTypes' /\ EnvTypes' /\ now' = now
  BY EnvKept, PoolKept DEF Reload
<1>2. CASE NextAttempt(r) < loop[r].max
  <2> DEFINE p == [loop[r] EXCEPT !.attempt = loop[r].attempt + 1]
  <2>1. /\ pc[r] = "reload" /\ pc' = [pc EXCEPT ![r] = "select"] /\ snap' = [snap EXCEPT ![r] = store]
        /\ call' = call /\ acct' = acct /\ tried' = tried
    BY <1>2 DEF Reload, Goto
  <2>2. loop' = [loop EXCEPT ![r] = p]
    BY <1>2 DEF Reload, NextAttempt
  <2>3. p \in LoopSet
    BY AtRequest, LoopCounted
  <2> HIDE DEF p
  <2>4. ReqTypes'
    BY <2>1, <2>2, <2>3 DEF IInv, PoolTypes, ReqInv, ReqTypes, Places, Active
  <2>5. /\ Alone(r) /\ pc'[r] = "select" /\ call'[r] = call[r]
    BY <2>1 DEF Alone, IInv, ReqInv, ReqTypes
  <2>6. Coherent(pc'[r], call'[r], snap'[r], acct'[r])
    BY <2>1, <2>5, AtRequest DEF Coherent, Active
  <2> QED
    BY <1>1, <2>4, <2>5, <2>6, OneRequestMoves DEF IInv
<1>3. CASE Finish(r, GivenUpWith(r))
  <2>1. GivenUpWith(r) \in Outcomes
    BY DEF GivenUpWith, Outcomes
  <2> QED
    BY <1>1, <1>3, <2>1, Finishing DEF IInv
<1> QED
  BY <1>2, <1>3 DEF Reload

LEMMA ServeKeeps ==
  ASSUME IInv, NEW r \in Requests, Serve(r)
  PROVE  IInv'
<1>1. EnvTypes' /\ now' = now /\ store' = store /\ unseen' = unseen
  BY EnvKept DEF Serve
<1>2. pc[r] = "serve" /\ acct[r] \in Accounts /\ call[r].fam \in Families
  BY AtRequest DEF Serve, Coherent, Active
<1>3. CASE ~MovesPool(r)
  <2>1. Finish(r, "served") /\ affinity' = affinity
    BY <1>3 DEF Serve
  <2>2. PoolTypes'
    BY <1>1, <2>1 DEF IInv, PoolTypes
  <2> QED
    BY <1>1, <2>1, <2>2, Finishing DEF IInv, Outcomes
<1>4. CASE MovesPool(r)
  <2>1. /\ affinity' = [affinity EXCEPT ![call[r].conv] = acct[r]]
        /\ pc' = [pc EXCEPT ![r] = "using"] /\ snap' = [snap EXCEPT ![r] = EmptyDoc]
        /\ loop' = [loop EXCEPT ![r] = NoLoop] /\ tried' = [tried EXCEPT ![r] = {}]
        /\ call' = call /\ acct' = acct
    BY <1>4 DEF Serve, Goto
  <2>2. PoolTypes'
    BY <1>1, <1>2, <2>1 DEF IInv, PoolTypes
  <2>3. ReqTypes'
    BY <2>1, Shapes DEF IInv, ReqInv, ReqTypes, Places
  <2>4. Alone(r) /\ pc'[r] = "using" /\ call'[r] = call[r] /\ acct'[r] = acct[r]
    BY <2>1 DEF Alone, IInv, ReqInv, ReqTypes
  <2>5. Coherent(pc'[r], call'[r], snap'[r], acct'[r])
    BY <1>2, <1>4, <2>4, NoAccountAssumption DEF Coherent, MovesPool
  <2> QED
    BY <1>1, <2>2, <2>3, <2>4, <2>5, OneRequestMoves DEF IInv
<1> QED
  BY <1>3, <1>4

LEMMA CompleteKeeps ==
  ASSUME IInv, NEW r \in Requests, Complete(r)
  PROVE  IInv'
<1>1. PoolTypes' /\ EnvTypes' /\ now' = now
  BY EnvKept, PoolKept DEF Complete
<1>2. ReqInv'
  BY <1>1, Finishing DEF Complete, Outcomes
<1> QED
  BY <1>1, <1>2 DEF IInv

\* A report touches the failed account's state, the cursor and that account's pins.
LEMMA ReportEffect ==
  ASSUME IInv, NEW r \in Requests, NEW kind \in Kinds, NEW backoff \in 1 .. BackoffTicks,
         NEW reset \in Resets, Report(r, kind, backoff, reset)
  PROVE  /\ PoolTypes' /\ store'.order = store.order
         /\ \A b \in Accounts \ {acct[r]} : store'.health[b] = store.health[b]
<1>1. pc[r] = "using" /\ call[r].fam \in Families /\ unseen' = unseen
  BY AtRequest DEF Report, Coherent
<1>2. CASE acct[r] \notin Present(store)
  BY <1>1, <1>2 DEF Report, Blamed, IInv, PoolTypes
<1>3. CASE acct[r] \in Present(store)
  <2> DEFINE a == acct[r]
             h == WithLimit(kind, DecidedState(kind, store.health[a], backoff, reset), call[r].fam, reset)
             d == [store EXCEPT !.health[a] = h]
             n == NextPosition(d, PositionOf(d, a), RotationFamily(kind, call[r].fam))
  <2>1. kind \in FailureKinds /\ backoff \in Nat /\ reset \in Nat
    BY KindsAssumption, TicksAssumption
  <2>2. a \in Accounts /\ store.health[a] \in AccountState /\ store.health \in [Accounts -> AccountState]
    BY <1>3, AtRequest, DocParts
  <2>3. h \in AccountState
    BY <1>1, <2>1, <2>2, AtRequest, DecidedType, LimitType
  <2>4. /\ unseen' = unseen
        /\ store' = [d EXCEPT !.active = n] \/ store' = d \/ store' = store
        /\ affinity' = FreePins(a) \/ affinity' = affinity
    BY <1>1, <1>3 DEF Report, Blamed
  <2> HIDE DEF h, n
  <2>5. d \in Doc /\ d.order = store.order /\ d.health = [store.health EXCEPT ![a] = h]
    BY <2>2, <2>3, AtRequest, DocOneHealth
  <2> HIDE DEF d
  <2>6. n \in Nat
    <3>1. a \in Present(d)
      BY <1>3, <2>5 DEF Present, Positions
    <3> QED
      BY <2>5, <3>1, PositionOfType, NextPositionType DEF n
  <2>7. /\ store' \in Doc /\ store'.order = store.order
        /\ store'.health = d.health \/ store'.health = store.health
    <3> DEFINE e == [d EXCEPT !.active = n]
    <3>1. e \in Doc /\ e.order = d.order /\ e.health = d.health
      BY <2>5, <2>6, DocActive
    <3>2. store' = e \/ store' = d \/ store' = store
      BY <2>4
    <3> HIDE DEF e
    <3> QED
      BY <2>5, <3>1, <3>2, AtRequest
  <2>8. \A b \in Accounts \ {a} : store'.health[b] = store.health[b]
    BY <2>2, <2>5, <2>7
  <2>9. PoolTypes'
    BY <2>4, <2>7, PinsFreed DEF IInv, PoolTypes
  <2> QED
    BY <2>7, <2>8, <2>9
<1> QED
  BY <1>2, <1>3

LEMMA ReportKeeps ==
  ASSUME IInv, NEW r \in Requests, NEW kind \in Kinds, NEW backoff \in 1 .. BackoffTicks,
         NEW reset \in Resets, Report(r, kind, backoff, reset)
  PROVE  IInv'
<1>1. EnvTypes' /\ now' = now
  BY EnvKept DEF Report
<1>2. PoolTypes'
  BY ReportEffect
<1>3. ReqInv'
  BY <1>1, Finishing DEF Report, Outcomes
<1> QED
  BY <1>1, <1>2, <1>3 DEF IInv

-----------------------------------------------------------------------------
(* Edits, probes and time.                                                  *)

LEMMA RequestsKept ==
  ASSUME IInv, UNCHANGED reqVars
  PROVE  ReqInv'
BY DEF reqVars, IInv, ReqInv, ReqTypes, Coherent

LEMMA ActivateSaveKeeps ==
  ASSUME IInv, NEW i \in Positions(store), ActivateSave(i)
  PROVE  IInv'
<1>1. i \in Nat /\ store \in Doc
  BY DocParts DEF IInv, PoolTypes
<1> DEFINE e == [store EXCEPT !.active = i]
<1>2. e \in Doc /\ e.order = store.order
  BY <1>1, DocActive
<1>3. /\ store' = e /\ affinity' = affinity /\ unseen' = unseen /\ now' = now /\ probe' = probe
      /\ behind' = behind /\ clearing' = TRUE /\ edits' = edits + 1 /\ UNCHANGED reqVars
  BY DEF ActivateSave, Edit
<1> HIDE DEF e
<1>4. PoolTypes' /\ EnvTypes'
  BY <1>2, <1>3 DEF IInv, PoolTypes, EnvTypes
<1> QED
  BY <1>3, <1>4, RequestsKept DEF IInv, EnvTypes

LEMMA ActivateClearKeeps ==
  ASSUME IInv, ActivateClear
  PROVE  IInv'
<1>1. /\ store' = store /\ affinity' = [c \in Conversations |-> NoAccount] /\ unseen' = unseen
      /\ now' = now /\ probe' = probe /\ behind' \subseteq Requests /\ clearing' = FALSE
      /\ edits' = edits /\ UNCHANGED reqVars
  BY DEF ActivateClear
<1>2. PoolTypes' /\ EnvTypes'
  BY <1>1 DEF IInv, PoolTypes, EnvTypes
<1> QED
  BY <1>1, <1>2, RequestsKept DEF IInv, EnvTypes

\* Taking one account out of the order leaves the others in it once each.
LEMMA SplicedType ==
  ASSUME NEW s \in Seq(Accounts), Injective(s), NEW i \in 1 .. Len(s)
  PROVE  LET rest == [j \in 1 .. Len(s) - 1 |-> s[IF j < i THEN j ELSE j + 1]]
         IN  rest \in Seq(Accounts) /\ Injective(rest) /\ Len(rest) \in Nat
<1> DEFINE n == Len(s) - 1
           At(j) == IF j < i THEN j ELSE j + 1
           rest == [j \in 1 .. n |-> s[At(j)]]
<1>1. Len(s) \in Nat /\ n \in Nat
  <2>1. Len(s) \in Nat /\ i \in 1 .. Len(s)
    BY LenProperties
  <2> QED
    BY <2>1
<1>2. \A j \in 1 .. n : At(j) \in 1 .. Len(s)
  BY <1>1
<1>3. \A j \in 1 .. n : s[At(j)] \in Accounts
  BY <1>2, ElementOfSeq
<1>4. \A j, k \in 1 .. n : s[At(j)] = s[At(k)] => j = k
  BY <1>1, <1>2 DEF Injective
<1> HIDE DEF At
<1>5. rest \in [1 .. n -> Accounts]
  BY <1>3
<1>6. rest \in Seq(Accounts)
  BY <1>1, <1>5, SeqDef
<1>7. Len(rest) = n
  BY <1>1, <1>5, <1>6, LenProperties
<1>8. Injective(rest)
  BY <1>4, <1>7 DEF Injective
<1> QED
  BY <1>1, <1>6, <1>7, <1>8 DEF At

LEMMA DeleteKeeps ==
  ASSUME IInv, NEW i \in Positions(store), Delete(i)
  PROVE  IInv'
<1> DEFINE rest == [j \in 1 .. Len(store.order) - 1 |-> store.order[IF j < i THEN j ELSE j + 1]]
           hs == [store.health EXCEPT ![store.order[i]] = NewAccount]
           n == IF store.active > Len(rest) THEN 1 ELSE store.active
<1>1. /\ store \in Doc /\ Injective(store.order) /\ store.order \in Seq(Accounts)
      /\ i \in 1 .. Len(store.order) /\ store.active \in Nat /\ store.health \in [Accounts -> AccountState]
  BY DocParts DEF IInv, PoolTypes, Positions
<1>2. rest \in Seq(Accounts) /\ Injective(rest)
  BY <1>1, SplicedType
<1>3. hs \in [Accounts -> AccountState]
  BY <1>1, NewAccountType
<1>4. n \in Nat
  BY <1>1
<1>5. /\ store' = [order |-> rest, active |-> n, health |-> hs] /\ affinity' = affinity
      /\ unseen' = unseen /\ now' = now /\ probe' = probe /\ behind' = behind
      /\ clearing' = clearing /\ edits' = edits + 1 /\ UNCHANGED reqVars
  BY DEF Delete, Edit
<1> HIDE DEF rest, hs, n
<1>6. store' \in Doc /\ store'.order = rest
  BY <1>2, <1>3, <1>4, <1>5 DEF Doc
<1>7. PoolTypes' /\ EnvTypes'
  BY <1>2, <1>5, <1>6 DEF IInv, PoolTypes, EnvTypes
<1> QED
  BY <1>5, <1>7, RequestsKept DEF IInv, EnvTypes

\* A login never enrols an account a second time.
LEMMA UpsertedType ==
  ASSUME NEW d \in Doc, Injective(d.order), NEW a \in Accounts
  PROVE  Upserted(d, a) \in Doc /\ Injective(Upserted(d, a).order)
<1>1. CASE a \in Present(d)
  <2> DEFINE h == [d.health[a] EXCEPT !.enabled = TRUE]
  <2>1. d.health[a] \in AccountState /\ d.health \in [Accounts -> AccountState]
    BY DocParts
  <2>2. h \in AccountState
    BY <2>1 DEF AccountState
  <2>3. Upserted(d, a) = [d EXCEPT !.health[a] = h]
    BY <1>1 DEF Upserted
  <2> HIDE DEF h
  <2> QED
    BY <2>2, <2>3, DocOneHealth
<1>2. CASE a \notin Present(d)
  <2> DEFINE s == Append(d.order, a)
             n == IF d.order = <<>> THEN 1 ELSE d.active
  <2>1. d.order \in Seq(Accounts) /\ d.active \in Nat
    BY DocParts
  <2>2. /\ s \in Seq(Accounts) /\ Len(s) = Len(d.order) + 1 /\ s[Len(d.order) + 1] = a
        /\ \A i \in 1 .. Len(d.order) : s[i] = d.order[i]
    BY <2>1, AppendProperties
  <2>3. \A i \in 1 .. Len(d.order) : d.order[i] # a
    BY <1>2 DEF Present, Positions
  <2> HIDE DEF s
  <2>4. Injective(s)
    <3>1. Len(d.order) \in Nat
      BY <2>1, LenProperties
    <3> QED
      BY <2>2, <2>3, <3>1 DEF Injective
  <2>5. Upserted(d, a) = [order |-> s, active |-> n, health |-> d.health]
    BY <1>2 DEF Upserted, Appended, Doc, s
  <2>6. n \in Nat /\ d.health \in [Accounts -> AccountState]
    BY <2>1, DocParts
  <2> HIDE DEF n
  <2>7. Upserted(d, a) \in Doc /\ Upserted(d, a).order = s
    BY <2>2, <2>5, <2>6 DEF Doc
  <2> QED
    BY <2>4, <2>7
<1> QED
  BY <1>1, <1>2

LEMMA LoginKeeps ==
  ASSUME IInv, NEW a \in Accounts, Login(a)
  PROVE  IInv'
<1>1. Upserted(store, a) \in Doc /\ Injective(Upserted(store, a).order)
  BY UpsertedType DEF IInv, PoolTypes
<1>2. /\ store' = Upserted(store, a) /\ affinity' = affinity /\ unseen' = unseen \ {a} /\ now' = now
      /\ probe' = probe /\ behind' = behind /\ clearing' = clearing /\ edits' = edits + 1
      /\ UNCHANGED reqVars
  BY DEF Login, Edit
<1>3. PoolTypes' /\ EnvTypes'
  BY <1>1, <1>2 DEF IInv, PoolTypes, EnvTypes
<1> QED
  BY <1>2, <1>3, RequestsKept DEF IInv, EnvTypes

LEMMA ProbeKeeps ==
  ASSUME IInv, NEW p \in Probes, ProbeStep(p)
  PROVE  IInv'
<1>1. /\ affinity' = affinity /\ unseen' = unseen /\ now' = now /\ behind' = behind
      /\ clearing' = clearing /\ edits' = edits /\ UNCHANGED reqVars
  BY DEF ProbeStep, ProbeStart, ProbeFails, ProbeSucceeds, poolVars
<1>2. store \in Doc /\ Injective(store.order) /\ probe \in [Probes -> ProbeSet]
  BY DEF IInv, PoolTypes, EnvTypes
<1>3. ASSUME NEW i \in Positions(store), ProbeStart(p, i)
      PROVE  store' = store /\ probe' \in [Probes -> ProbeSet]
  <2>1. i \in Nat /\ store.order[i] \in Accounts
    BY <1>2, DocParts
  <2>2. [step |-> "asking", at |-> i, of |-> store.order[i]] \in ProbeSet
    BY <2>1 DEF ProbeSet
  <2> QED
    BY <1>2, <1>3, <2>2 DEF ProbeStart, poolVars
<1>4. ASSUME ProbeEnds(p) PROVE probe' \in [Probes -> ProbeSet]
  <2>1. [probe[p] EXCEPT !.step = "done"] \in ProbeSet
    BY <1>2 DEF ProbeSet
  <2> QED
    BY <1>2, <1>4, <2>1 DEF ProbeEnds
<1>5. ASSUME ProbeFails(p) PROVE store' \in Doc /\ store'.order = store.order /\ probe' \in [Probes -> ProbeSet]
  <2>1. Disabled(store, probe[p].of) \in Doc /\ Disabled(store, probe[p].of).order = store.order
    BY <1>2, DisabledType
  <2> QED
    BY <1>2, <1>4, <1>5, <2>1 DEF ProbeFails
<1>6. ASSUME ProbeSucceeds(p) PROVE store' \in Doc /\ store'.order = store.order /\ probe' \in [Probes -> ProbeSet]
  <2>1. CASE probe[p].at \in Positions(store)
    <3> DEFINE a == store.order[probe[p].at]
               h == [NewAccount EXCEPT !.quota = store.health[a].quota, !.nearly = store.health[a].nearly]
    <3>1. a \in Accounts /\ store.health[a] \in AccountState
      BY <1>2, <2>1, DocParts
    <3>2. h \in AccountState
      BY <3>1, StateParts, NewAccountType DEF AccountState
    <3>3. store' = [store EXCEPT !.health[a] = h]
      BY <1>6, <2>1 DEF ProbeSucceeds
    <3> HIDE DEF h
    <3>4. store' \in Doc /\ store'.order = store.order
      BY <1>2, <3>1, <3>2, <3>3, DocOneHealth
    <3> QED
      BY <1>2, <1>4, <1>6, <3>4 DEF ProbeSucceeds
  <2>2. CASE probe[p].at \notin Positions(store)
    BY <1>2, <1>4, <1>6, <2>2 DEF ProbeSucceeds
  <2> QED
    BY <2>1, <2>2
<1>7. store' \in Doc /\ Injective(store'.order) /\ probe' \in [Probes -> ProbeSet]
  BY <1>2, <1>3, <1>5, <1>6 DEF ProbeStep
<1>8. PoolTypes' /\ EnvTypes'
  BY <1>1, <1>7 DEF IInv, PoolTypes, EnvTypes
<1> QED
  BY <1>1, <1>8, RequestsKept DEF IInv, EnvTypes

LEMMA PinLapsesKeeps ==
  ASSUME IInv, NEW c \in Conversations, PinLapses(c)
  PROVE  IInv'
<1>1. /\ store' = store /\ affinity' = [affinity EXCEPT ![c] = NoAccount] /\ unseen' = unseen
      /\ UNCHANGED envVars /\ UNCHANGED reqVars
  BY DEF PinLapses
<1>2. EnvTypes' /\ now' = now
  BY <1>1, EnvKept
<1>3. PoolTypes'
  BY <1>1 DEF IInv, PoolTypes
<1> QED
  BY <1>1, <1>2, <1>3, RequestsKept DEF IInv, EnvTypes

LEMMA TickKeeps ==
  ASSUME IInv, Tick
  PROVE  IInv'
<1>1. /\ now' = now + 1 /\ probe' = probe /\ clearing' = clearing /\ edits' = edits
      /\ behind' = behind /\ UNCHANGED poolVars /\ UNCHANGED reqVars
  BY DEF Tick
<1>2. EnvTypes' /\ now' \in Nat /\ now <= now'
  BY <1>1 DEF IInv, EnvTypes
<1> QED
  BY <1>1, <1>2, PoolKept, RequestsKept DEF IInv

-----------------------------------------------------------------------------
(* The invariant is inductive.                                              *)

LEMMA RequestKeeps ==
  ASSUME IInv, NEW r \in Requests, RequestStep(r)
  PROVE  IInv'
<1>1. ASSUME SessionStep(r) PROVE IInv'
  BY <1>1, MeasureKeeps, SkipMeasureKeeps, PickKeeps, PickAskedKeeps, SaveActiveKeeps, TokenOkKeeps,
     TokenFailsKeeps, SaveSkipKeeps, SaveFailsKeeps, TokenRevokedKeeps, DropRevokedKeeps,
     ReloadKeeps, ServeKeeps
     DEF SessionStep, QuietStep
<1> QED
  BY <1>1, BeginKeeps, BeginTestKeeps, CompleteKeeps, ReportKeeps DEF RequestStep

LEMMA Inductive == IInv /\ [Next]_vars => IInv'
<1> SUFFICES ASSUME IInv, [Next]_vars PROVE IInv'
  OBVIOUS
<1>1. ASSUME NEW r \in Requests, RequestStep(r) PROVE IInv'
  BY <1>1, RequestKeeps
<1>2. CASE EditStep
  BY <1>2, ActivateSaveKeeps, DeleteKeeps, ActivateClearKeeps, LoginKeeps DEF EditStep
<1>3. ASSUME NEW p \in Probes, ProbeStep(p) PROVE IInv'
  BY <1>3, ProbeKeeps
<1>4. ASSUME NEW c \in Conversations, PinLapses(c) PROVE IInv'
  BY <1>4, PinLapsesKeeps
<1>5. CASE Tick
  BY <1>5, TickKeeps
<1>6. CASE UNCHANGED vars
  <2>1. UNCHANGED reqVars /\ UNCHANGED envVars /\ UNCHANGED poolVars
    BY <1>6 DEF vars, reqVars, envVars, poolVars
  <2>2. EnvTypes' /\ now' = now /\ PoolTypes'
    BY <2>1, EnvKept, PoolKept
  <2> QED
    BY <2>1, <2>2, RequestsKept DEF IInv, EnvTypes
<1> QED
  BY <1>1, <1>2, <1>3, <1>4, <1>5, <1>6 DEF Next

-----------------------------------------------------------------------------
(* What a request's copy still says of the document.                        *)

\* StillFit, without clearing anything: as time passes it can only become true.
Open(h, f) ==
  /\ h.enabled /\ h.limitUntil[f] <= now /\ h.quota[f] <= now
  /\ h.coolUntil <= now \/ (h.why = "quota-exhausted" /\ HasHealthyQuota(h))

LEMMA ClearedParts ==
  ASSUME NEW h \in AccountState, NEW f \in Families, now \in Nat
  PROVE  LET live == ClearExpired(h)
         IN  /\ live.enabled = h.enabled /\ live.quota = h.quota
             /\ Limited(live, f) <=> Limited(h, f)
             /\ Cooling(live) <=> Cooling(h) /\ ~(h.why = "quota-exhausted" /\ HasHealthyQuota(h))
<1> DEFINE m == [h EXCEPT !.limitUntil = [g \in Families |-> IF @[g] > now THEN @[g] ELSE 0]]
<1>1. /\ m \in AccountState /\ m.enabled = h.enabled /\ m.quota = h.quota /\ m.nearly = h.nearly
      /\ m.coolUntil = h.coolUntil /\ m.why = h.why
      /\ m.limitUntil[f] = IF h.limitUntil[f] > now THEN h.limitUntil[f] ELSE 0
  BY DEF AccountState
<1>2. ClearExpired(h) = Healed(IF Cooling(m) THEN m ELSE Uncooled(m))
  BY DEF ClearExpired
<1> HIDE DEF m
<1>3. h.limitUntil[f] \in Nat /\ h.coolUntil \in Nat
  BY StateParts
<1>4. HasHealthyQuota(m) <=> HasHealthyQuota(h)
  BY <1>1 DEF HasHealthyQuota
<1>5. /\ Uncooled(m).why = "none" /\ Uncooled(m).coolUntil = 0 /\ Uncooled(m).enabled = m.enabled
      /\ Uncooled(m).quota = m.quota /\ Uncooled(m).limitUntil = m.limitUntil
  BY <1>1 DEF Uncooled, AccountState
<1>6. Cooling(m) <=> Cooling(h)
  BY <1>1 DEF Cooling
<1>7. Limited(m, f) <=> Limited(h, f)
  BY <1>1, <1>3 DEF Limited
<1>8. CASE ~Cooling(h)
  <2>1. ClearExpired(h) = Uncooled(m)
    BY <1>2, <1>5, <1>6, <1>8 DEF Healed
  <2>2. ~Cooling(Uncooled(m))
    BY <1>5 DEF Cooling
  <2>3. Limited(Uncooled(m), f) <=> Limited(m, f)
    BY <1>5 DEF Limited
  <2> QED
    BY <1>1, <1>5, <1>7, <1>8, <2>1, <2>2, <2>3
<1>9. CASE Cooling(h) /\ h.why = "quota-exhausted" /\ HasHealthyQuota(h)
  <2>1. ClearExpired(h) = Uncooled(m)
    BY <1>1, <1>2, <1>4, <1>6, <1>9 DEF Healed
  <2>2. ~Cooling(Uncooled(m))
    BY <1>5 DEF Cooling
  <2>3. Limited(Uncooled(m), f) <=> Limited(m, f)
    BY <1>5 DEF Limited
  <2> QED
    BY <1>1, <1>5, <1>7, <1>9, <2>1, <2>2, <2>3
<1>10. CASE Cooling(h) /\ ~(h.why = "quota-exhausted" /\ HasHealthyQuota(h))
  <2>1. ClearExpired(h) = m
    BY <1>1, <1>2, <1>4, <1>6, <1>10 DEF Healed
  <2> QED
    BY <1>1, <1>6, <1>7, <1>10, <2>1
<1> QED
  BY <1>8, <1>9, <1>10

FitMeansOpen ==
  now \in Nat => \A h \in AccountState, f \in Families : StillFit(h, f) <=> Open(h, f)

LEMMA FitIsOpen == FitMeansOpen
<1> SUFFICES ASSUME now \in Nat, NEW h \in AccountState, NEW f \in Families
             PROVE  StillFit(h, f) <=> Open(h, f)
  BY DEF FitMeansOpen
<1>1. /\ h.coolUntil \in Nat /\ h.limitUntil[f] \in Nat /\ h.quota[f] \in Nat \cup {-1}
  BY StateParts DEF Unmeasured
<1>2. Cooling(h) <=> ~(h.coolUntil <= now)
  BY <1>1 DEF Cooling
<1>3. Limited(h, f) <=> ~(h.limitUntil[f] <= now)
  BY <1>1 DEF Limited
<1>4. Spent(ClearExpired(h), f) <=> ~(h.quota[f] <= now)
  BY <1>1, ClearedParts DEF Spent
<1> QED
  BY <1>2, <1>3, <1>4, ClearedParts DEF StillFit, Open

\* Fitness outlasts any wait, as long as the account's state is left alone.
LEMMA FitnessLasts ==
  ASSUME NEW h \in AccountState, NEW f \in Families, now \in Nat, now' \in Nat, now <= now',
         StillFit(h, f)
  PROVE  StillFit(h, f)'
<1>1. /\ h.coolUntil \in Nat /\ h.limitUntil[f] \in Nat
      /\ \A g \in Families : h.quota[g] \in Nat \cup {-1} /\ h.nearly[g] \in Nat
  BY StateParts DEF Unmeasured
<1>2. Open(h, f)
  BY FitIsOpen DEF FitMeansOpen
<1>3. HasHealthyQuota(h) => HasHealthyQuota(h)'
  <2>1. \A g \in Families : h.quota[g] <= now /\ h.nearly[g] <= now
                              => h.quota[g] <= now' /\ h.nearly[g] <= now'
    BY <1>1
  <2> QED
    BY <2>1 DEF HasHealthyQuota
<1>4. Open(h, f)'
  BY <1>1, <1>2, <1>3 DEF Open
<1>5. FitMeansOpen'
  BY FitIsOpen, PTL
<1> QED
  BY <1>4, <1>5 DEF FitMeansOpen

\* What is known of a chat turn's copy: until the pick it is the document, but for what has
\* set them apart; after it the picked account is fit in the document, with the same proviso.
Agrees(q) ==
  /\ pc[q] \notin Judging => apart[q] = {}
  /\ call[q].asked = NotPinned =>
       /\ pc[q] \in {"select", "pick"} =>
            \A a \in Present(snap[q]) \ apart[q] :
              a \in Present(store) /\ store.health[a] = snap[q].health[a]
       /\ pc[q] \in {"save", "auth", "serve"} /\ acct[q] \notin apart[q] =>
            acct[q] \in Present(store) /\ StillFit(store.health[acct[q]], call[q].fam)

History == apart \in [Requests -> SUBSET Accounts] /\ \A q \in Requests : Agrees(q)

LEMMA HistoryFit == History => ServedIsStillFit
  BY DEF History, Agrees, ServedIsStillFit

\* A step leaves the accounts outside S as they are.
Untouched(S) ==
  \A a \in Present(store) \ S : a \in Present(store') /\ store'.health[a] = store.health[a]

\* Whoever does not take the step goes on agreeing with the document but for what it changed.
LEMMA Bystander ==
  ASSUME IInv, History, NEW q \in Requests, NEW S, Untouched(S), now' \in Nat, now <= now',
         pc'[q] = pc[q], call'[q] = call[q], snap'[q] = snap[q], acct'[q] = acct[q],
         apart'[q] = IF pc[q] \in Judging THEN apart[q] \cup S ELSE {}
  PROVE  Agrees(q)'
<1>1. Agrees(q)
  BY DEF History
<1>2. ASSUME NEW a \in Present(store), a \notin S
      PROVE  a \in Present(store') /\ store'.health[a] = store.health[a]
  BY <1>2 DEF Untouched
<1>3. ASSUME call[q].asked = NotPinned, pc[q] \in {"select", "pick"},
             NEW a \in Present(snap[q]), a \notin apart'[q]
      PROVE  a \in Present(store') /\ store'.health[a] = snap[q].health[a]
  BY <1>1, <1>2, <1>3 DEF Agrees, Judging
<1>4. ASSUME call[q].asked = NotPinned, pc[q] \in {"save", "auth", "serve"}, acct[q] \notin apart'[q]
      PROVE  (acct[q] \in Present(store) /\ StillFit(store.health[acct[q]], call[q].fam))'
  <2>1. acct[q] \notin apart[q] /\ acct[q] \notin S
    BY <1>4 DEF Judging
  <2>2. acct[q] \in Present(store) /\ StillFit(store.health[acct[q]], call[q].fam)
    BY <1>1, <1>4, <2>1 DEF Agrees
  <2>3. store.health[acct[q]] \in AccountState /\ call[q].fam \in Families
    BY <1>4, <2>2, AtRequest, DocParts DEF Coherent, Active
  <2>4. PICK h \in AccountState, f \in Families : h = store.health[acct[q]] /\ f = call[q].fam
    BY <2>3
  <2>5. StillFit(h, f)'
    BY <2>2, <2>4, FitnessLasts, AtRequest
  <2>6. h = store'.health[acct'[q]] /\ f = call'[q].fam /\ acct'[q] \in Present(store')
    BY <1>2, <2>1, <2>2, <2>4
  <2> QED
    BY <2>5, <2>6
<1>5. Agrees(q)'
  <2>1. pc'[q] \notin Judging => apart'[q] = {}
    OBVIOUS
  <2>2. ASSUME call'[q].asked = NotPinned, pc'[q] \in {"select", "pick"},
               NEW a \in Present(snap'[q]) \ apart'[q]
        PROVE  a \in Present(store') /\ store'.health[a] = snap'[q].health[a]
    BY <1>3, <2>2
  <2> QED
    BY <1>4, <2>1, <2>2 DEF Agrees
<1> QED
  BY <1>5

\* What leaves the order and the accounts' states alone touches nobody.
LEMMA SameAccounts ==
  ASSUME NEW S, store'.order = store.order, store'.health = store.health
  PROVE  Untouched(S)
BY DEF Untouched, Present, Positions

\* A step of r is its own affair and, of what it changes, everybody's.
LEMMA Noted ==
  ASSUME IInv, History, NEW r \in Requests, NEW S \in SUBSET Accounts, NEW M \in SUBSET Accounts,
         Alone(r), Note(r, S, M), Untouched(S), now' = now, Agrees(r)'
  PROVE  History'
<1>1. now' \in Nat /\ now <= now'
  BY DEF IInv, EnvTypes
<1>2. apart' \in [Requests -> SUBSET Accounts]
  BY DEF Note, History
<1>3. ASSUME NEW q \in Requests, q # r PROVE Agrees(q)'
  <2>1. /\ pc'[q] = pc[q] /\ call'[q] = call[q] /\ snap'[q] = snap[q] /\ acct'[q] = acct[q]
        /\ apart'[q] = IF pc[q] \in Judging THEN apart[q] \cup S ELSE {}
    BY <1>3 DEF Alone, Note
  <2> QED
    BY <1>1, <2>1, Bystander
<1>4. \A q \in Requests : Agrees(q)'
  BY <1>3
<1> QED
  BY <1>2, <1>4 DEF History

\* The accounts' readings, the user's edits and the probes: whom they change, they set apart.
LEMMA StandingIsKept ==
  ASSUME IInv, History, NEW S \in SUBSET Accounts, Untouched(S), UNCHANGED reqVars,
         now' \in Nat, now <= now', SetsApart(S) \/ (S = {} /\ apart' = apart)
  PROVE  History'
<1>1. apart' \in [Requests -> SUBSET Accounts]
  BY DEF SetsApart, History
<1>2. ASSUME NEW q \in Requests PROVE Agrees(q)'
  <2>1. pc'[q] = pc[q] /\ call'[q] = call[q] /\ snap'[q] = snap[q] /\ acct'[q] = acct[q]
    BY DEF reqVars
  <2>2. apart'[q] = IF pc[q] \in Judging THEN apart[q] \cup S ELSE {}
    <3>1. CASE SetsApart(S)
      BY <3>1 DEF SetsApart
    <3>2. CASE S = {} /\ apart' = apart
      BY <3>2 DEF History, Agrees
    <3> QED
      BY <3>1, <3>2
  <2> QED
    BY <2>1, <2>2, Bystander
<1>3. \A q \in Requests : Agrees(q)'
  BY <1>2
<1> QED
  BY <1>1, <1>3 DEF History

LEMMA Unnoticed ==
  ASSUME IInv, History, UNCHANGED reqVars, apart' = apart, now' \in {now, now + 1},
         store'.order = store.order, store'.health = store.health
  PROVE  History'
<1>1. now' \in Nat /\ now <= now'
  BY DEF IInv, EnvTypes
<1>2. Untouched({})
  BY SameAccounts
<1>3. PICK S \in SUBSET Accounts : S = {}
  OBVIOUS
<1> QED
  BY <1>1, <1>2, <1>3, StandingIsKept

-----------------------------------------------------------------------------
(* What a step leaves its own request with.                                 *)

\* Whoever no longer judges, and whoever asks about one account, claims nothing.
LEMMA NothingToJudge ==
  ASSUME NEW r \in Requests, NEW S, NEW M, Note(r, S, M),
         pc'[r] \notin Judging \/ call'[r].asked # NotPinned
  PROVE  Agrees(r)'
BY DEF Agrees, Note, Judging

\* A fresh copy is the document.
LEMMA FreshCopy ==
  ASSUME NEW r \in Requests, Note(r, {}, {}), pc'[r] = "select", snap'[r] = store, store' = store
  PROVE  Agrees(r)'
<1>1. Present(snap'[r]) = Present(store') /\ snap'[r].health = store'.health
  OBVIOUS
<1> QED
  BY <1>1 DEF Agrees, Note, Judging

\* Asking the token of the picked account changes neither the account nor the verdict on it.
LEMMA VerdictStands ==
  ASSUME IInv, History, NEW r \in Requests, Note(r, {}, {}),
         pc[r] \in {"save", "auth"}, pc'[r] \in {"auth", "serve"},
         call'[r] = call[r], acct'[r] = acct[r], now' = now,
         store'.order = store.order, store'.health = store.health
  PROVE  Agrees(r)'
<1>1. Agrees(r) /\ apart'[r] = apart[r]
  BY DEF History, Note, Judging
<1>2. ASSUME call[r].asked = NotPinned, acct[r] \notin apart[r]
      PROVE  (acct[r] \in Present(store) /\ StillFit(store.health[acct[r]], call[r].fam))'
  <2>1. acct[r] \in Present(store) /\ StillFit(store.health[acct[r]], call[r].fam)
    BY <1>1, <1>2 DEF Agrees
  <2>2. store.health[acct[r]] \in AccountState /\ call[r].fam \in Families /\ now \in Nat
    BY <2>1, AtRequest, DocParts DEF Coherent, Active
  <2>3. PICK h \in AccountState, f \in Families : h = store.health[acct[r]] /\ f = call[r].fam
    BY <2>2
  <2>4. StillFit(h, f)'
    BY <2>1, <2>2, <2>3, FitnessLasts
  <2>5. h = store'.health[acct'[r]] /\ f = call'[r].fam /\ acct'[r] \in Present(store')
    BY <2>1, <2>3 DEF Present, Positions
  <2> QED
    BY <2>4, <2>5
<1> QED
  BY <1>1, <1>2 DEF Agrees, Judging

\* An unblocked position of the cleared copy holds an account fit in the copy.
LEMMA UnblockedIsFit ==
  ASSUME NEW d \in Doc, NEW f \in Families, NEW i,
         Unblocked([d EXCEPT !.health = [a \in Accounts |-> ClearExpired(d.health[a])]], i, f)
  PROVE  i \in Positions(d) /\ d.order[i] \in Present(d) /\ StillFit(d.health[d.order[i]], f)
<1> DEFINE e == [d EXCEPT !.health = [a \in Accounts |-> ClearExpired(d.health[a])]]
<1>1. e.order = d.order /\ \A a \in Accounts : e.health[a] = ClearExpired(d.health[a])
  BY DEF Doc
<1>2. i \in EnabledAt(e) /\ ~Cooling(e.health[e.order[i]]) /\ ~Limited(e.health[e.order[i]], f)
      /\ ~Spent(e.health[e.order[i]], f)
  BY DEF Unblocked
<1> HIDE DEF e
<1>3. i \in Positions(d) /\ e.health[d.order[i]].enabled
  BY <1>1, <1>2 DEF EnabledAt, Positions
<1>4. d.order[i] \in Accounts
  BY <1>3, DocParts
<1> QED
  BY <1>1, <1>2, <1>3, <1>4 DEF StillFit, Present

LEMMA PickedIsFit ==
  ASSUME IInv, History, NEW r \in Requests, Pick(r), Note(r, {}, {})
  PROVE  Agrees(r)'
<1> DEFINE d == [snap[r] EXCEPT !.health = [a \in Accounts |-> ClearExpired(snap[r].health[a])]]
           f == call[r].fam
           pinned == {i \in Positions(d) : d.order[i] = affinity[call[r].conv] /\ Usable(d, i, f)}
           act == d.active
<1>1. /\ pc[r] = "pick" /\ call[r].asked = NotPinned /\ f \in Families
      /\ store' = store /\ now' = now /\ now \in Nat
  BY AtRequest DEF Pick, Coherent, Active, poolVars, envVars
<1>2. /\ \A a \in Present(snap[r]) \ apart[r] :
           a \in Present(store) /\ store.health[a] = snap[r].health[a]
      /\ apart[r] = {} \/ pc[r] \in Judging
  BY <1>1 DEF History, Agrees, Judging
<1>3. d.order = snap[r].order
  BY AtRequest DEF Doc
<1>4. ASSUME NEW i, Unblocked(d, i, f), NEW e, e.order = d.order, NEW l \in {"save", "auth"},
             Take(r, e, i, l)
      PROVE  Agrees(r)'
  <2> DEFINE a == snap[r].order[i]
  <2>1. a \in Present(snap[r]) /\ StillFit(snap[r].health[a], f)
    BY <1>1, <1>4, AtRequest, UnblockedIsFit
  <2>2. pc'[r] = l /\ acct'[r] = a /\ call' = call
    BY <1>3, <1>4 DEF Take, Goto, IInv, ReqInv, ReqTypes
  <2>3. apart'[r] = apart[r]
    BY <1>4, <2>2 DEF Note, Judging
  <2> HIDE DEF a, d
  <2>4. ASSUME a \notin apart[r]
        PROVE  (acct[r] \in Present(store) /\ StillFit(store.health[acct[r]], call[r].fam))'
    <3>1. a \in Present(store) /\ store.health[a] = snap[r].health[a] /\ store.health[a] \in AccountState
      BY <1>2, <2>1, <2>4, AtRequest, DocParts
    <3>2. PICK h \in AccountState, g \in Families : h = store.health[a] /\ g = f
      BY <1>1, <3>1
    <3>3. StillFit(h, g)'
      BY <1>1, <2>1, <3>1, <3>2, FitnessLasts
    <3> QED
      BY <1>1, <2>2, <3>1, <3>2, <3>3
  <2> QED
    BY <2>2, <2>3, <2>4 DEF Agrees, Judging
<1>5. ASSUME NEW o \in Outcomes, Finish(r, o) PROVE Agrees(r)'
  <2>1. pc'[r] = o
    BY <1>5 DEF Finish, Goto, IInv, ReqInv, ReqTypes
  <2> QED
    BY <2>1, NothingToJudge DEF Outcomes, Judging
<1>6. \/ \E i \in pinned : Take(r, d, i, "auth")
      \/ Finish(r, "no-credential")
      \/ Usable(d, act, f) /\ Take(r, d, act, "auth")
      \/ Finish(r, BlockedKind(d, f))
      \/ \E i \in Candidates(d, f) : Take(r, [d EXCEPT !.active = i], i, IF i = act THEN "auth" ELSE "save")
  BY DEF Pick
<1>7. d \in Doc
  BY <1>1, AtRequest, ClearedType
<1> HIDE DEF d, f, act
<1>8. ASSUME NEW i \in pinned, Take(r, d, i, "auth") PROVE Agrees(r)'
  BY <1>4, <1>8 DEF Usable
<1>9. CASE Finish(r, "no-credential")
  BY <1>5, <1>9 DEF Outcomes
<1>10. CASE Usable(d, act, f) /\ Take(r, d, act, "auth")
  BY <1>4, <1>10 DEF Usable
<1>11. CASE Finish(r, BlockedKind(d, f))
  BY <1>5, <1>11 DEF BlockedKind, Outcomes
<1>12. ASSUME NEW i \in Candidates(d, f),
              Take(r, [d EXCEPT !.active = i], i, IF i = act THEN "auth" ELSE "save")
       PROVE  Agrees(r)'
  <2>1. Unblocked(d, i, f) /\ i \in Nat
    BY <1>7, <1>12, UnblockedStands DEF Candidates
  <2> DEFINE e == [d EXCEPT !.active = i]
             l == IF i = act THEN "auth" ELSE "save"
  <2>2. e.order = d.order
    BY <1>7, <2>1, DocActive
  <2>3. l \in {"save", "auth"} /\ Take(r, e, i, l)
    BY <1>12
  <2> HIDE DEF e, l
  <2> QED
    BY <1>4, <2>1, <2>2, <2>3
<1> QED
  BY <1>6, <1>8, <1>9, <1>10, <1>11, <1>12

\* The same reading falls on the copy and on the document; one that could not be saved sets
\* its account apart.
LEMMA MeasuredAgrees ==
  ASSUME IInv, History, NEW r \in Requests, NEW found \in Findings(snap[r]),
         NEW saved \in {found, Revocations(found)}, NEW M \in {{}, DOMAIN found},
         saved = found \/ M = DOMAIN found,
         Measure(r, found, saved), Note(r, DOMAIN saved, M)
  PROVE  Agrees(r)'
<1>1. /\ pc[r] = "select" /\ pc'[r] = "pick" /\ call[r].asked = NotPinned /\ call' = call
      /\ snap'[r] = Measured(snap[r], found) /\ store' = Measured(store, saved)
  BY AtRequest DEF Measure, Coherent, Overlaid, Goto, IInv, ReqInv, ReqTypes
<1>2. /\ Agrees(r) /\ apart'[r] = apart[r] \cup M
      /\ snap[r] \in Doc /\ store \in Doc
  BY <1>1, AtRequest DEF History, Note, Judging
<1>3. DOMAIN saved \subseteq DOMAIN found
  BY DEF Revocations
<1>4. \A d \in Doc, a \in Accounts, g \in {found, saved} :
        /\ Measured(d, g).order = d.order
        /\ Measured(d, g).health[a] = IF a \in DOMAIN g /\ a \in Present(d)
                                        THEN WithReading(d.health[a], g[a]) ELSE d.health[a]
  BY DEF Measured, Doc
<1>5. ASSUME NEW a \in Present(snap'[r]) \ apart'[r]
      PROVE  a \in Present(store') /\ store'.health[a] = snap'[r].health[a]
  <2>1. Present(snap'[r]) = Present(snap[r]) /\ Present(store') = Present(store)
    <3>1. snap'[r].order = snap[r].order /\ store'.order = store.order
      BY <1>1, <1>2, AtRequest, DocParts DEF Measured, Doc
    <3> QED
      BY <3>1 DEF Present, Positions
  <2>2. a \in Present(snap[r]) /\ a \in Accounts /\ a \notin apart[r] /\ a \notin M
    BY <1>2, <1>5, <2>1, DocParts
  <2>3. a \in Present(store) /\ store.health[a] = snap[r].health[a]
    BY <1>1, <1>2, <2>2 DEF Agrees
  <2>4. CASE saved = found
    BY <1>1, <1>2, <1>4, <2>1, <2>2, <2>3, <2>4
  <2>5. CASE M = DOMAIN found
    BY <1>1, <1>2, <1>3, <1>4, <2>1, <2>2, <2>3, <2>5
  <2> QED
    BY <2>4, <2>5
<1> QED
  BY <1>1, <1>5 DEF Agrees, Judging

-----------------------------------------------------------------------------
(* The history is inductive.                                                *)

\* A request's step moves no other request, and no time.
LEMMA ItsOwnStep ==
  ASSUME IInv, NEW r \in Requests, RequestStep(r)
  PROVE  Alone(r) /\ now' = now
<1>1. ASSUME Finish(r, "served") \/ Finish(r, "failed") \/ Finish(r, "no-credential")
              \/ Finish(r, "blocked-quota") \/ Finish(r, "blocked-retry")
      PROVE  Alone(r)
  BY <1>1 DEF Finish, Goto, Alone, IInv, ReqInv, ReqTypes
<1>2. ASSUME NEW d, NEW i, NEW l, Take(r, d, i, l) PROVE Alone(r)
  BY <1>2 DEF Take, Goto, Alone, IInv, ReqInv, ReqTypes
<1>3. ASSUME QuietStep(r) PROVE Alone(r) /\ now' = now
  <2>1. CASE Pick(r) \/ PickAsked(r)
    <3>1. now' = now
      BY <2>1 DEF Pick, PickAsked, envVars
    <3>2. ASSUME Pick(r) PROVE Alone(r)
      <4>1. \/ \E o \in {"no-credential", "blocked-quota", "blocked-retry"} : Finish(r, o)
            \/ \E d, i, l : Take(r, d, i, l)
        BY <3>2, Zenon DEF Pick, BlockedKind
      <4> QED
        BY <1>1, <1>2, <4>1
    <3>3. ASSUME PickAsked(r) PROVE Alone(r)
      BY <1>2, <3>3 DEF PickAsked
    <3> QED
      BY <2>1, <3>1, <3>2, <3>3
  <2>2. CASE SkipMeasure(r) \/ SaveActive(r) \/ SaveSkip(r) \/ SaveFails(r) \/ DropRevoked(r)
    BY <1>1, <2>2 DEF SkipMeasure, SaveActive, SaveSkip, SaveFails, DropRevoked, Goto, envVars, Alone,
       IInv, ReqInv, ReqTypes
  <2>3. CASE TokenOk(r) \/ Serve(r)
    BY <1>1, <2>3 DEF TokenOk, NoteTried, Serve, Goto, envVars, Alone, IInv, ReqInv, ReqTypes
  <2>4. CASE Reload(r)
    BY <1>1, <2>4 DEF Reload, GivenUpWith, Goto, envVars, Alone, IInv, ReqInv, ReqTypes
  <2>5. ASSUME NEW proxyDead \in BOOLEAN, TokenFails(r, proxyDead) PROVE Alone(r) /\ now' = now
    BY <1>1, <2>5 DEF TokenFails, Goto, envVars, Alone, IInv, ReqInv, ReqTypes
  <2> QED
    BY <1>3, <2>1, <2>2, <2>3, <2>4, <2>5 DEF QuietStep
<1>4. ASSUME NEW found, NEW saved, Measure(r, found, saved) PROVE Alone(r) /\ now' = now
  BY <1>4 DEF Measure, Goto, envVars, Alone, IInv, ReqInv, ReqTypes
<1>5. ASSUME TokenRevoked(r) PROVE Alone(r) /\ now' = now
  BY <1>1, <1>5 DEF TokenRevoked, NoteTried, Goto, envVars, Alone, IInv, ReqInv, ReqTypes
<1>6. ASSUME NEW c, NEW f, Begin(r, c, f) PROVE Alone(r) /\ now' = now
  BY <1>1, <1>6 DEF Begin, Goto, envVars, Alone, IInv, ReqInv, ReqTypes
<1>7. ASSUME NEW f, NEW asked, BeginTest(r, f, asked) PROVE Alone(r) /\ now' = now
  BY <1>1, <1>7 DEF BeginTest, Goto, envVars, Alone, IInv, ReqInv, ReqTypes
<1>8. ASSUME Complete(r) PROVE Alone(r) /\ now' = now
  BY <1>1, <1>8 DEF Complete, envVars
<1>9. ASSUME NEW kind, NEW backoff, NEW reset, Report(r, kind, backoff, reset)
      PROVE  Alone(r) /\ now' = now
  BY <1>1, <1>9 DEF Report, envVars
<1> QED
  BY <1>3, <1>4, <1>5, <1>6, <1>7, <1>8, <1>9 DEF RequestStep, SessionStep

\* Where a step of one request takes it.
LEMMA Destination ==
  ASSUME IInv, NEW r \in Requests
  PROVE  /\ \A l : Goto(r, l) => pc'[r] = l
         /\ \A o \in Outcomes : Finish(r, o) => pc'[r] \notin Judging
BY DEF Goto, Finish, Outcomes, Judging, IInv, ReqInv, ReqTypes

LEMMA QuietAgrees ==
  ASSUME IInv, History, NEW r \in Requests, QuietStep(r), Note(r, {}, {})
  PROVE  Agrees(r)' /\ Untouched({})
<1>1. CASE Pick(r)
  BY <1>1, PickedIsFit, SameAccounts DEF Pick, poolVars
<1>2. CASE PickAsked(r)
  <2>1. call[r].asked # NotPinned /\ call' = call /\ store' = store
    BY <1>2 DEF PickAsked, Take, poolVars
  <2> QED
    BY <2>1, NothingToJudge, SameAccounts
<1>3. CASE SkipMeasure(r)
  <2>1. pc[r] = "select" /\ pc'[r] = "pick" /\ UNCHANGED <<store, call, snap, acct>>
    BY <1>3, Destination DEF SkipMeasure, poolVars
  <2>2. Agrees(r) /\ apart'[r] = apart[r]
    BY <2>1 DEF History, Note, Judging
  <2>3. Agrees(r)'
    BY <2>1, <2>2 DEF Agrees, Judging
  <2> QED
    BY <2>1, <2>3, SameAccounts
<1>4. CASE SaveActive(r)
  <2>1. pc[r] = "save" /\ pc'[r] = "auth" /\ call' = call /\ acct' = acct /\ now' = now
    BY <1>4, Destination DEF SaveActive, envVars
  <2>2. store'.order = store.order /\ store'.health = store.health
    BY <1>4, CursorWritten DEF SaveActive
  <2> QED
    BY <2>1, <2>2, VerdictStands, SameAccounts
<1>5. CASE TokenOk(r)
  <2>1. pc[r] = "auth" /\ pc'[r] = "serve" /\ call' = call /\ acct' = acct /\ now' = now /\ store' = store
    BY <1>5, Destination DEF TokenOk, envVars, poolVars
  <2> QED
    BY <2>1, VerdictStands, SameAccounts
<1>6. ASSUME NEW proxyDead \in BOOLEAN, TokenFails(r, proxyDead) PROVE pc'[r] \notin Judging /\ store' = store
  BY <1>6, Destination DEF TokenFails, Outcomes, Judging
<1>7. CASE SaveSkip(r)
  <2>1. pc'[r] \notin Judging
    BY <1>7, Destination DEF SaveSkip, Judging
  <2>2. store'.order = store.order /\ store'.health = store.health
    BY <1>7, CursorWritten DEF SaveSkip
  <2> QED
    BY <2>1, <2>2, NothingToJudge, SameAccounts
<1>8. SaveFails(r) \/ DropRevoked(r) \/ Serve(r) => pc'[r] \notin Judging /\ store' = store
  BY Destination DEF SaveFails, DropRevoked, Serve, Outcomes, Judging, poolVars
<1>9. CASE Reload(r)
  <2>1. store' = store
    BY <1>9 DEF Reload, poolVars
  <2>2. CASE NextAttempt(r) < loop[r].max
    <3>1. pc'[r] = "select" /\ snap'[r] = store
      BY <1>9, <2>2, Destination DEF Reload, IInv, ReqInv, ReqTypes
    <3> QED
      BY <2>1, <3>1, FreshCopy, SameAccounts
  <2>3. CASE Finish(r, GivenUpWith(r))
    <3>1. GivenUpWith(r) \in Outcomes
      BY DEF GivenUpWith, Outcomes
    <3> QED
      BY <2>1, <2>3, <3>1, Destination, NothingToJudge, SameAccounts
  <2> QED
    BY <1>9, <2>2, <2>3 DEF Reload
<1> QED
  BY <1>1, <1>2, <1>3, <1>4, <1>5, <1>6, <1>7, <1>8, <1>9, NothingToJudge, SameAccounts DEF QuietStep

LEMMA RequestHistory ==
  ASSUME IInv, History, NEW r \in Requests, RequestStep(r)
  PROVE  History'
<1>1. Alone(r) /\ now' = now
  BY ItsOwnStep
<1>2. ASSUME NEW S \in SUBSET Accounts, NEW M \in SUBSET Accounts, Note(r, S, M), Untouched(S), Agrees(r)'
      PROVE  History'
  BY <1>1, <1>2, Noted
<1>3. {} \in SUBSET Accounts
  OBVIOUS
<1>4. CASE QuietStep(r) /\ Note(r, {}, {})
  BY <1>2, <1>3, <1>4, QuietAgrees
<1>5. ASSUME NEW found \in Findings(snap[r]), NEW saved \in {found, Revocations(found)},
             NEW M \in {{}, DOMAIN found}, saved = found \/ M = DOMAIN found,
             Measure(r, found, saved), Note(r, DOMAIN saved, M)
      PROVE  History'
  <2>1. Agrees(r)'
    BY <1>5, MeasuredAgrees
  <2>2. DOMAIN found \subseteq Accounts /\ DOMAIN saved \subseteq Accounts /\ M \subseteq Accounts
    <3>1. DOMAIN found \subseteq Present(snap[r])
      BY DEF Findings
    <3>2. DOMAIN saved \subseteq DOMAIN found
      BY DEF Revocations
    <3> QED
      BY <3>1, <3>2, AtRequest, DocParts
  <2>3. Untouched(DOMAIN saved)
    <3>1. store' = Measured(store, saved) /\ store \in Doc
      BY <1>5, AtRequest DEF Measure
    <3>2. /\ store'.order = store.order
          /\ \A a \in Accounts \ DOMAIN saved : store'.health[a] = store.health[a]
      BY <3>1 DEF Measured, Doc
    <3> QED
      BY <3>1, <3>2, DocParts DEF Untouched, Present, Positions
  <2> QED
    BY <1>2, <1>5, <2>1, <2>2, <2>3
<1>6. CASE TokenRevoked(r) /\ Note(r, {acct[r]}, {})
  <2>1. /\ pc[r] = "auth" /\ acct[r] \in Accounts /\ store \in Doc
        /\ store' = Disabled(store, acct[r])
    BY <1>6, AtRequest DEF TokenRevoked, Coherent, Active
  <2>2. pc'[r] \notin Judging
    BY <1>6, Destination DEF TokenRevoked, Outcomes, Judging
  <2>3. /\ store'.order = store.order
        /\ \A a \in Accounts \ {acct[r]} : store'.health[a] = store.health[a]
    BY <2>1 DEF Disabled, Doc
  <2>4. Untouched({acct[r]})
    BY <2>1, <2>3, DocParts DEF Untouched, Present, Positions
  <2> QED
    BY <1>2, <1>3, <1>6, <2>1, <2>2, <2>4, NothingToJudge
<1>7. ASSUME NEW c \in Conversations, NEW f \in Families, Begin(r, c, f), Note(r, {}, {})
      PROVE  History'
  <2>1. store' = store
    BY <1>7 DEF Begin, poolVars
  <2>2. CASE Finish(r, "no-credential")
    BY <1>2, <1>3, <1>7, <2>1, <2>2, Destination, NothingToJudge, SameAccounts DEF Outcomes
  <2>3. CASE Goto(r, "select") /\ snap' = [snap EXCEPT ![r] = store]
    <3>1. pc'[r] = "select" /\ snap'[r] = store
      BY <2>3, Destination DEF IInv, ReqInv, ReqTypes
    <3> QED
      BY <1>2, <1>3, <1>7, <2>1, <3>1, FreshCopy, SameAccounts
  <2> QED
    BY <1>7, <2>2, <2>3 DEF Begin
<1>8. ASSUME NEW f \in Families, NEW asked \in Positions(store), BeginTest(r, f, asked), Note(r, {}, {})
      PROVE  History'
  <2>1. store' = store
    BY <1>8 DEF BeginTest, poolVars
  <2>2. CASE Finish(r, "failed")
    BY <1>2, <1>3, <1>8, <2>1, <2>2, Destination, NothingToJudge, SameAccounts DEF Outcomes
  <2>3. CASE call' = [call EXCEPT ![r] = [conv |-> NoAccount, fam |-> f, asked |-> asked]]
    <3>1. call'[r].asked # NotPinned
      BY <2>3, AtRequest, DocParts DEF IInv, ReqInv, ReqTypes, Positions, NotPinned
    <3> QED
      BY <1>2, <1>3, <1>8, <2>1, <3>1, NothingToJudge, SameAccounts
  <2> QED
    BY <1>8, <2>2, <2>3 DEF BeginTest
<1>9. CASE Complete(r) /\ Note(r, {}, {})
  <2>1. store' = store /\ pc'[r] \notin Judging
    BY <1>9, Destination DEF Complete, Outcomes, poolVars
  <2> QED
    BY <1>2, <1>3, <1>9, <2>1, NothingToJudge, SameAccounts
<1>10. ASSUME NEW kind \in Kinds, NEW backoff \in 1 .. BackoffTicks, NEW reset \in Resets,
              Report(r, kind, backoff, reset), Note(r, {acct[r]}, {})
       PROVE  History'
  <2>1. pc[r] = "using" /\ acct[r] \in Accounts /\ store \in Doc /\ pc'[r] \notin Judging
    BY <1>10, AtRequest, Destination DEF Report, Coherent, Active, Outcomes
  <2>2. /\ store'.order = store.order
        /\ \A a \in Accounts \ {acct[r]} : store'.health[a] = store.health[a]
    BY <1>10, ReportEffect
  <2>3. Untouched({acct[r]})
    BY <2>1, <2>2, DocParts DEF Untouched, Present, Positions
  <2> QED
    BY <1>2, <1>3, <1>10, <2>1, <2>3, NothingToJudge
<1> QED
  <2>1. CASE SessionStep(r)
    <3>1. ASSUME NEW found \in Findings(snap[r]),
                 \/ Measure(r, found, found) /\ Note(r, DOMAIN found, {})
                 \/ /\ Measure(r, found, Revocations(found))
                    /\ Note(r, DOMAIN Revocations(found), DOMAIN found)
          PROVE  History'
      BY <1>5, <3>1
    <3> QED
      BY <1>4, <1>6, <2>1, <3>1 DEF SessionStep
  <2> QED
    BY <1>7, <1>8, <1>9, <1>10, <2>1 DEF RequestStep

LEMMA EditHistory ==
  ASSUME IInv, History, EditStep
  PROVE  History'
<1>1. store \in Doc /\ now \in Nat /\ {} \in SUBSET Accounts
  BY DEF IInv, PoolTypes, EnvTypes
<1>2. ASSUME NEW i \in Positions(store), ActivateSave(i) PROVE History'
  <2>1. store'.order = store.order /\ store'.health = store.health
    BY <1>1, <1>2, DocParts, DocActive DEF ActivateSave
  <2> QED
    BY <1>2, <2>1, Unnoticed DEF ActivateSave
<1>3. CASE ActivateClear
  BY <1>3, Unnoticed DEF ActivateClear
<1>4. ASSUME NEW i \in Positions(store), Delete(i) PROVE History'
  <2> DEFINE rest == [j \in 1 .. Len(store.order) - 1 |-> store.order[IF j < i THEN j ELSE j + 1]]
             gone == store.order[i]
  <2>1. /\ i \in 1 .. Len(store.order) /\ Len(store.order) \in Nat /\ gone \in Accounts
        /\ store.health \in [Accounts -> AccountState] /\ store.order \in Seq(Accounts)
        /\ Injective(store.order)
    BY <1>1, DocParts DEF Positions, IInv, PoolTypes
  <2>2. /\ store'.order = rest /\ store'.health = [store.health EXCEPT ![gone] = NewAccount]
        /\ SetsApart({gone}) /\ UNCHANGED reqVars /\ now' = now
    BY <1>4 DEF Delete
  <2>3. Len(rest) = Len(store.order) - 1
    <3>1. rest \in Seq(Accounts)
      BY <2>1, SplicedType
    <3> QED
      BY <2>1, <3>1, LenProperties
  <2>4. ASSUME NEW a \in Present(store) \ {gone} PROVE a \in Present(store')
    <3>1. PICK k \in 1 .. Len(store.order) : store.order[k] = a
      BY DEF Present, Positions
    <3>2. k # i
      BY <2>4, <3>1
    <3> DEFINE j == IF k < i THEN k ELSE k - 1
    <3>3. j \in 1 .. Len(store.order) - 1 /\ (IF j < i THEN j ELSE j + 1) = k
      BY <2>1, <3>1, <3>2
    <3>4. rest[j] = a
      BY <3>1, <3>3
    <3> HIDE DEF j, rest
    <3> QED
      BY <2>2, <2>3, <3>3, <3>4 DEF Present, Positions
  <2>5. \A a \in Accounts \ {gone} : store'.health[a] = store.health[a]
    BY <2>1, <2>2
  <2> HIDE DEF gone, rest
  <2>6. Untouched({gone})
    BY <1>1, <2>4, <2>5, DocParts DEF Untouched
  <2> QED
    BY <1>1, <2>1, <2>2, <2>6, StandingIsKept
<1>5. ASSUME NEW a \in Accounts, Login(a) PROVE History'
  <2>1. store' = Upserted(store, a) /\ SetsApart({a}) /\ UNCHANGED reqVars /\ now' = now
    BY <1>5 DEF Login
  <2>2. CASE a \in Present(store)
    <3>1. /\ store'.order = store.order
          /\ \A b \in Accounts \ {a} : store'.health[b] = store.health[b]
      BY <1>1, <2>1, <2>2 DEF Upserted, Doc
    <3>2. Untouched({a})
      BY <1>1, <3>1, DocParts DEF Untouched, Present, Positions
    <3> QED
      BY <1>1, <2>1, <3>2, StandingIsKept
  <2>3. CASE a \notin Present(store)
    <3>1. store'.order = Append(store.order, a) /\ store'.health = store.health
      BY <1>1, <2>1, <2>3 DEF Upserted, Appended, Doc
    <3>2. /\ store.order \in Seq(Accounts) /\ Len(store.order) \in Nat
          /\ Len(store'.order) = Len(store.order) + 1
          /\ \A i \in 1 .. Len(store.order) : store'.order[i] = store.order[i]
      BY <1>1, <3>1, DocParts, AppendProperties
    <3>3. Untouched({a})
      BY <3>1, <3>2 DEF Untouched, Present, Positions
    <3> QED
      BY <1>1, <2>1, <3>3, StandingIsKept
  <2> QED
    BY <2>2, <2>3
<1> QED
  BY <1>2, <1>3, <1>4, <1>5 DEF EditStep

LEMMA ProbeHistory ==
  ASSUME IInv, History, NEW p \in Probes, ProbeStep(p)
  PROVE  History'
<1>1. /\ store \in Doc /\ now \in Nat /\ {} \in SUBSET Accounts
      /\ probe[p].step = "asking" => probe[p].of \in Accounts
  BY DEF IInv, PoolTypes, EnvTypes, ProbeSet
<1>2. ASSUME NEW i \in Positions(store), ProbeStart(p, i) PROVE History'
  BY <1>2, Unnoticed DEF ProbeStart, poolVars
<1>3. CASE ProbeFails(p)
  <2>1. /\ store' \in {store, Disabled(store, probe[p].of)} /\ SetsApart({probe[p].of})
        /\ UNCHANGED reqVars /\ now' = now
    BY <1>3 DEF ProbeFails
  <2>2. /\ store'.order = store.order
        /\ \A b \in Accounts \ {probe[p].of} : store'.health[b] = store.health[b]
    BY <1>1, <2>1 DEF Disabled, Doc
  <2>3. Untouched({probe[p].of})
    BY <1>1, <2>2, DocParts DEF Untouched, Present, Positions
  <2>4. probe[p].of \in Accounts
    BY <1>1, <1>3 DEF ProbeFails
  <2> QED
    BY <1>1, <2>1, <2>3, <2>4, StandingIsKept
<1>4. CASE ProbeSucceeds(p)
  <2>1. UNCHANGED reqVars /\ now' = now
    BY <1>4 DEF ProbeSucceeds
  <2>2. CASE probe[p].at \in Positions(store)
    <3> DEFINE a == store.order[probe[p].at]
               h == [NewAccount EXCEPT !.quota = store.health[a].quota, !.nearly = store.health[a].nearly]
    <3>1. a \in Accounts
      BY <1>1, <2>2, DocParts
    <3>2. store' = [store EXCEPT !.health[a] = h] /\ SetsApart({a})
      BY <1>4, <2>2 DEF ProbeSucceeds
    <3> HIDE DEF h
    <3>3. /\ store'.order = store.order
          /\ \A b \in Accounts \ {a} : store'.health[b] = store.health[b]
      BY <1>1, <3>2 DEF Doc
    <3>4. Untouched({a})
      BY <1>1, <3>3, DocParts DEF Untouched, Present, Positions
    <3> HIDE DEF a
    <3> QED
      BY <1>1, <2>1, <3>1, <3>2, <3>4, StandingIsKept
  <2>3. CASE probe[p].at \notin Positions(store)
    BY <1>4, <2>1, <2>3, Unnoticed DEF ProbeSucceeds
  <2> QED
    BY <2>2, <2>3
<1> QED
  BY <1>2, <1>3, <1>4 DEF ProbeStep

LEMMA HistoryKept == IInv /\ History /\ [Next]_vars => History'
<1> SUFFICES ASSUME IInv, History, [Next]_vars PROVE History'
  OBVIOUS
<1>1. ASSUME NEW c \in Conversations, PinLapses(c) PROVE History'
  BY <1>1, Unnoticed DEF PinLapses, envVars
<1>2. CASE Tick
  BY <1>2, Unnoticed DEF Tick, poolVars
<1>3. CASE UNCHANGED vars
  BY <1>3, Unnoticed DEF vars, reqVars
<1> QED
  BY <1>1, <1>2, <1>3, RequestHistory, EditHistory, ProbeHistory DEF Next

LEMMA HistoryInit == Init => History
  BY DEF Init, History, Agrees

LEMMA Invariant == Spec => [](IInv /\ History)
  BY FittingInit, Inductive, HistoryInit, HistoryKept, PTL DEF Spec

-----------------------------------------------------------------------------
(* The theorems.                                                            *)

\* The document and every request keep their shapes through any interleaving of requests,
\* edits and probes: in particular no account is ever enrolled twice, and a request past
\* pickAccount always has one.
THEOREM TypeCorrect == Spec => []TypeOK
<1>1. IInv /\ History => TypeOK
  BY IInvType DEF History
<1> QED
  BY <1>1, Invariant, PTL

\* The account a chat turn asks the token of and serves is still fit in the document itself,
\* after the awaits since its pick, unless somebody else changed it or its readings were lost.
THEOREM ServedIsFit == Spec => []ServedIsStillFit
<1>1. IInv /\ History => ServedIsStillFit
  BY HistoryFit
<1> QED
  BY <1>1, Invariant, PTL

\* Only a request's own steps move it.
LEMMA MovedByItself ==
  ASSUME IInv, [Next]_vars, NEW r \in Requests, RequestMoves(r)
  PROVE  RequestStep(r)
<1>1. ASSUME NEW q \in Requests, q # r, RequestStep(q) PROVE pc'[r] = pc[r]
  <2>1. pc \in [Requests -> Places]
    BY DEF IInv, ReqInv, ReqTypes
  <2>2. pc' = pc \/ \E l : pc' = [pc EXCEPT ![q] = l]
    <3>1. CASE SessionStep(q)
      BY <3>1 DEF SessionStep, QuietStep, Measure, SkipMeasure, Pick, PickAsked, Take, SaveActive, TokenOk,
         TokenFails, SaveSkip, SaveFails, TokenRevoked, DropRevoked, Reload, Serve, Finish, Goto
    <3> QED
      BY <1>1, <3>1 DEF RequestStep, Begin, BeginTest, Complete, Report, Finish, Goto
  <2> QED
    BY <1>1, <2>1, <2>2
<1>2. CASE EditStep
  BY <1>2 DEF EditStep, ActivateSave, ActivateClear, Delete, Login, reqVars, RequestMoves
<1>3. ASSUME NEW p \in Probes, ProbeStep(p) PROVE pc' = pc
  BY <1>3 DEF ProbeStep, ProbeStart, ProbeFails, ProbeSucceeds, reqVars
<1>4. ASSUME NEW c \in Conversations, PinLapses(c) PROVE pc' = pc
  BY <1>4 DEF PinLapses, reqVars
<1>5. CASE Tick
  BY <1>5 DEF Tick, reqVars, RequestMoves
<1>6. CASE UNCHANGED vars
  BY <1>6 DEF vars, RequestMoves
<1> QED
  BY <1>1, <1>2, <1>3, <1>4, <1>5, <1>6 DEF Next, RequestMoves

\* reportFailure blames by key: whatever was deleted, added or reordered while the stream
\* ran, and whichever failure it reports, no other account's state changes.
THEOREM BlameIsByKey == Spec => BlameStaysOnTheAccount
<1> DEFINE Step == \A r \in Requests : RequestMoves(r) /\ pc[r] = "using" =>
                     \A a \in Accounts \ {acct[r]} : store'.health[a] = store.health[a]
<1>1. IInv /\ [Next]_vars => Step
  <2> SUFFICES ASSUME IInv, [Next]_vars, NEW r \in Requests, RequestMoves(r), pc[r] = "using",
                      NEW a \in Accounts \ {acct[r]}
               PROVE  store'.health[a] = store.health[a]
    OBVIOUS
  <2>1. RequestStep(r)
    BY MovedByItself
  <2>2. ~SessionStep(r)
    BY DEF SessionStep, QuietStep, Measure, SkipMeasure, Pick, PickAsked, SaveActive, TokenOk, TokenFails,
       SaveSkip, SaveFails, TokenRevoked, DropRevoked, Reload, Serve
  <2>3. ASSUME NEW c \in Conversations, NEW f \in Families, Begin(r, c, f) PROVE FALSE
    BY <2>3 DEF Begin
  <2>4. ASSUME NEW f \in Families, NEW asked \in Positions(store), BeginTest(r, f, asked) PROVE FALSE
    BY <2>4 DEF BeginTest
  <2>5. CASE Complete(r)
    BY <2>5 DEF Complete, poolVars
  <2> QED
    BY <2>1, <2>2, <2>3, <2>4, <2>5, ReportEffect DEF RequestStep
<1> QED
  BY <1>1, Invariant, PTL DEF Spec, BlameStaysOnTheAccount

\* A management test call moves neither a pin nor the cursor.
THEOREM TestCallsAreHarmless == Spec => TestCallsLeaveThePoolAlone
<1> DEFINE Step == \A r \in Requests : RequestMoves(r) /\ call[r].asked # NotPinned =>
                     affinity' = affinity /\ store'.active = store.active
<1>1. IInv /\ [Next]_vars => Step
  <2> SUFFICES ASSUME IInv, [Next]_vars, NEW r \in Requests, RequestMoves(r), call[r].asked # NotPinned
               PROVE  affinity' = affinity /\ store'.active = store.active
    OBVIOUS
  <2>1. RequestStep(r)
    BY MovedByItself
  <2>2. pc[r] \notin {"select", "save", "skip", "revoked", "reload", "using"} /\ ~MovesPool(r)
    BY AtRequest DEF Coherent, MovesPool
  <2>3. CASE TokenRevoked(r)
    BY <2>3, AtRequest, DisabledType DEF TokenRevoked
  <2>4. CASE SessionStep(r) /\ ~TokenRevoked(r)
    BY <2>2, <2>4 DEF SessionStep, QuietStep, Measure, SkipMeasure, Pick, PickAsked, SaveActive, TokenOk,
       TokenFails, SaveSkip, SaveFails, DropRevoked, Reload, Serve, poolVars
  <2>5. CASE ~SessionStep(r)
    BY <2>1, <2>2, <2>5 DEF RequestStep, Begin, BeginTest, Complete, Report, poolVars
  <2> QED
    BY <2>3, <2>4, <2>5
<1> QED
  BY <1>1, Invariant, PTL DEF Spec, TestCallsLeaveThePoolAlone

\* Whatever the selection loop writes from its outdated copy, it enrols, re-enables and
\* un-limits no account, and lifts a park only when a healthy reading contradicts it.
THEOREM SelectionIsSafe == Spec => SelectionNeverLiftsAPark
<1> DEFINE Kept(a) ==
             LET h == store.health[a]
                 h2 == store'.health[a]
             IN  /\ h2.enabled => h.enabled
                 /\ \A f \in Families : h2.limitUntil[f] >= h.limitUntil[f]
                 /\ h2.coolUntil >= h.coolUntil \/ (h.why = "quota-exhausted" /\ HasHealthyQuota(h2))
           Step == \A r \in Requests : RequestMoves(r) /\ pc[r] \in Active =>
             /\ store'.order = store.order
             /\ \A a \in Accounts :
                  LET h == store.health[a]
                      h2 == store'.health[a]
                  IN  /\ h2.enabled => h.enabled
                      /\ \A f \in Families : h2.limitUntil[f] >= h.limitUntil[f]
                      /\ h2.coolUntil >= h.coolUntil \/ (h.why = "quota-exhausted" /\ HasHealthyQuota(h2))
<1>1. IInv /\ [Next]_vars => Step
  <2> SUFFICES ASSUME IInv, [Next]_vars, NEW r \in Requests, RequestMoves(r), pc[r] \in Active
               PROVE  store'.order = store.order /\ \A a \in Accounts : Kept(a)
    OBVIOUS
  <2>1. SessionStep(r)
    BY MovedByItself DEF RequestStep, Begin, BeginTest, Complete, Report, Active
  <2>2. \A a \in Accounts : store.health[a] \in AccountState
    BY AtRequest, DocParts
  <2>3. ASSUME NEW a \in Accounts,
               store'.health[a].enabled => store.health[a].enabled,
               store'.health[a].limitUntil = store.health[a].limitUntil,
               \/ store'.health[a].coolUntil = store.health[a].coolUntil
               \/ store.health[a].why = "quota-exhausted" /\ HasHealthyQuota(store'.health[a])
        PROVE  Kept(a)
    <3>1. store.health[a].coolUntil \in Nat /\ store.health[a].limitUntil \in [Families -> Nat]
      BY <2>2, StateParts
    <3> QED
      BY <2>3, <3>1
  <2> HIDE DEF Kept
  <2>4. CASE store'.order = store.order /\ store'.health = store.health
    <3>1. \A a \in Accounts : Kept(a)
      BY <2>3, <2>4
    <3> QED
      BY <2>4, <3>1
  <2>5. CASE SaveActive(r) \/ SaveSkip(r)
    BY <2>4, <2>5, CursorWritten DEF SaveActive, SaveSkip
  <2>6. CASE TokenRevoked(r)
    <3>1. store' = Disabled(store, acct[r])
      BY <2>6 DEF TokenRevoked
    <3> QED
      BY <2>3, <3>1, AtRequest, DisabledType
  <2>7. ASSUME NEW found \in Findings(snap[r]), NEW saved \in {found, Revocations(found)},
               Measure(r, found, saved)
        PROVE  store'.order = store.order /\ \A a \in Accounts : Kept(a)
    <3>1. saved \in [DOMAIN saved -> Readings] /\ store' = Measured(store, saved)
      BY <2>7, RevocationsAreFindings DEF Measure, Findings
    <3> QED
      BY <2>3, <3>1, AtRequest, MeasuredType
  <2>8. CASE store' = store
    BY <2>4, <2>8
  <2> QED
    BY <2>1, <2>5, <2>6, <2>7, <2>8
       DEF SessionStep, QuietStep, SkipMeasure, Pick, PickAsked, TokenOk, TokenFails, SaveFails, DropRevoked,
           Reload, Serve, poolVars
<1> QED
  BY <1>1, Invariant, PTL DEF Spec, SelectionNeverLiftsAPark
=============================================================================
