--------------------------- MODULE MCProcess_proofs ----------------------------
(***************************************************************************)
(* Proofs about what a process of the plugin keeps beside the pool, for     *)
(* every value of the constants.                                            *)
(***************************************************************************)
EXTENDS MCProcess, UsageLedger_proofs, FiniteSetTheorems, SequenceTheorems, TLAPS

-----------------------------------------------------------------------------
(* The model list.                                                          *)

\* What TypeOK needs of the constants: the bounds are numbers.
ListBounds == Clock \in Nat /\ MaxSwitches \in Nat

\* Strengthening of QuietSwitchesDropTheList: under its premise a discovery that has its
\* session is for the active account, so that the list it stores cannot be another's.
FlightIsOfTheActive ==
  flight.stage = "fetching" /\ switching = 0 /\ ~suspect => flight.of = active
\* A discovery that has its session is for some account.
FlightIsOfAnAccount == flight.stage = "fetching" => flight.of \in Pool

ListIInv == List!TypeOK /\ FlightIsOfTheActive /\ FlightIsOfAnAccount /\ List!QuietSwitchesDropTheList

-----------------------------------------------------------------------------

\* Nothing is cached and nothing under way when the adapter is made.
LEMMA ListInitIInv == ListBounds /\ List!Init => ListIInv
<1> SUFFICES ASSUME ListBounds, List!Init PROVE ListIInv
  OBVIOUS
<1>1. 0 \in 0..Clock /\ 0 \in 0..MaxSwitches
  BY DEF ListBounds
<1>2. List!TypeOK
  <2>1. cached \in [models: List!Lists \cup {NoList}, at: 0..Clock]
    BY <1>1 DEF List!Init, List!Empty
  <2>2. flight \in [stage: {"none", "session", "fetching"}, of: Pool \cup {NoList}]
    BY DEF List!Init, List!NoFlight
  <2>3. asks \in [Askers -> {"idle", "waiting"}] /\ answer \in [Askers -> List!Lists \cup {NoList}]
    BY DEF List!Init
  <2> QED
    BY <1>1, <2>1, <2>2, <2>3 DEF List!Init, List!TypeOK
<1>3. FlightIsOfTheActive /\ FlightIsOfAnAccount /\ List!QuietSwitchesDropTheList
  BY DEF List!Init, List!NoFlight, List!Empty, FlightIsOfTheActive, FlightIsOfAnAccount,
         List!QuietSwitchesDropTheList
<1> QED
  BY <1>2, <1>3 DEF ListIInv

\* An asker is told what is cached, joins the discovery under way, or starts one that has
\* no account yet: none of this touches what is cached or whose discovery it is.
LEMMA ListAskKeepsIInv ==
  ASSUME ListIInv, NEW k \in Askers, NEW force \in BOOLEAN, List!Ask(k, force)
  PROVE  ListIInv'
<1>1. UNCHANGED <<active, cached, listTick, switching, suspect>>
  BY DEF List!Ask
<1>2. flight' = flight \/ flight' = [stage |-> "session", of |-> NoList]
  BY DEF List!Ask
<1>3. List!TypeOK'
  <2>1. answer' \in [Askers -> List!Lists \cup {NoList}]
    BY DEF List!Ask, ListIInv, List!TypeOK
  <2>2. asks' \in [Askers -> {"idle", "waiting"}]
    BY DEF List!Ask, ListIInv, List!TypeOK
  <2>3. flight' \in [stage: {"none", "session", "fetching"}, of: Pool \cup {NoList}]
    BY <1>2 DEF ListIInv, List!TypeOK
  <2> QED
    BY <1>1, <2>1, <2>2, <2>3 DEF ListIInv, List!TypeOK
<1>4. (FlightIsOfTheActive /\ FlightIsOfAnAccount /\ List!QuietSwitchesDropTheList)'
  BY <1>1, <1>2 DEF ListIInv, FlightIsOfTheActive, FlightIsOfAnAccount,
                    List!QuietSwitchesDropTheList
<1> QED
  BY <1>3, <1>4 DEF ListIInv

\* The end of a discovery: the slot is free, whoever waited is told a list.
LEMMA SettleEndsTheFlight ==
  ASSUME ListIInv, NEW list \in List!Lists \cup {NoList}, List!Settle(list)
  PROVE  /\ answer' \in [Askers -> List!Lists \cup {NoList}]
         /\ asks' \in [Askers -> {"idle", "waiting"}]
         /\ flight' = List!NoFlight /\ UNCHANGED <<active, listTick, switching, suspect>>
BY DEF ListIInv, List!TypeOK, List!Settle

\* A discovery that ends keeps the invariant when what it leaves cached is what was, the
\* built-in list, or the list of the account it was for.
LEMMA ListSettlingKeepsIInv ==
  ASSUME ListIInv, NEW list \in List!Lists \cup {NoList}, List!Settle(list),
         \/ cached' = cached
         \/ cached' = [models |-> Catalog, at |-> listTick]
         \/ flight.stage = "fetching" /\ cached' = [models |-> flight.of, at |-> listTick]
  PROVE  ListIInv'
<1>1. /\ answer' \in [Askers -> List!Lists \cup {NoList}]
      /\ asks' \in [Askers -> {"idle", "waiting"}]
      /\ flight' = List!NoFlight /\ UNCHANGED <<active, listTick, switching, suspect>>
  BY SettleEndsTheFlight
<1>2. cached' \in [models: List!Lists \cup {NoList}, at: 0..Clock]
  BY DEF ListIInv, List!TypeOK, List!Lists, FlightIsOfAnAccount
<1>3. flight' \in [stage: {"none", "session", "fetching"}, of: Pool \cup {NoList}]
  BY <1>1 DEF List!NoFlight
<1>4. List!TypeOK'
  BY <1>1, <1>2, <1>3 DEF ListIInv, List!TypeOK
<1>5. (FlightIsOfTheActive /\ FlightIsOfAnAccount)'
  BY <1>1 DEF List!NoFlight, FlightIsOfTheActive, FlightIsOfAnAccount
<1>6. List!QuietSwitchesDropTheList'
  BY <1>1 DEF ListIInv, FlightIsOfTheActive, List!QuietSwitchesDropTheList
<1> QED
  BY <1>4, <1>5, <1>6 DEF ListIInv

\* Every step of a discovery: a session in hand names the account of this moment, and
\* every end is one of SettlingKeepsIInv.
LEMMA ListDiscoveryKeepsIInv ==
  ASSUME ListIInv, List!Discovery
  PROVE  ListIInv'
<1>1. CASE List!GotSession
  <2>1. /\ flight' = [stage |-> "fetching", of |-> active]
        /\ UNCHANGED <<active, cached, asks, answer, listTick, switching, suspect>>
    BY <1>1 DEF List!GotSession
  <2> QED
    BY <2>1 DEF ListIInv, List!TypeOK, FlightIsOfTheActive, FlightIsOfAnAccount,
                List!QuietSwitchesDropTheList
<1>2. CASE List!NoSession
  BY <1>2, ListSettlingKeepsIInv DEF List!NoSession, List!Lists
<1>3. CASE List!PoolRefuses
  BY <1>3, ListSettlingKeepsIInv DEF List!PoolRefuses, List!Lists
<1>4. CASE List!SessionFails
  <2>1. cached.models \in List!Lists \cup {NoList}
    BY DEF ListIInv, List!TypeOK
  <2> QED
    BY <1>4, <2>1, ListSettlingKeepsIInv DEF List!SessionFails
<1>5. CASE List!Fetched
  <2>1. PICK list \in {flight.of, Catalog} :
          cached' = [models |-> list, at |-> listTick] /\ List!Settle(list)
    BY <1>5 DEF List!Fetched
  <2>2. flight.stage = "fetching" /\ list \in List!Lists \cup {NoList}
    BY <1>5, <2>1 DEF List!Fetched, ListIInv, FlightIsOfAnAccount, List!Lists
  <2> QED
    BY <2>1, <2>2, ListSettlingKeepsIInv
<1> QED
  BY <1>1, <1>2, <1>3, <1>4, <1>5 DEF List!Discovery

\* A switch owes a drop, and until it comes nothing is promised of what is cached.
LEMMA SwitchKeepsIInv ==
  ASSUME ListBounds, ListIInv, NEW a \in Pool, List!Switch(a)
  PROVE  ListIInv'
<1>1. /\ switching < MaxSwitches /\ active' = a /\ switching' = switching + 1
      /\ UNCHANGED <<cached, flight, asks, answer, listTick, suspect>>
  BY DEF List!Switch
<1>2. switching' \in 0..MaxSwitches /\ switching' # 0
  BY <1>1 DEF ListBounds, ListIInv, List!TypeOK
<1> QED
  BY <1>1, <1>2 DEF ListIInv, List!TypeOK, FlightIsOfTheActive, FlightIsOfAnAccount,
                    List!QuietSwitchesDropTheList

\* The last drop leaves nothing cached, and is suspect when a discovery goes on for another.
LEMMA DropKeepsIInv ==
  ASSUME ListBounds, ListIInv, List!Drop
  PROVE  ListIInv'
<1>1. /\ switching > 0 /\ switching' = switching - 1
      /\ cached' = [models |-> NoList, at |-> 0]
      /\ suspect' = (flight.stage = "fetching" /\ flight.of # active)
      /\ UNCHANGED <<active, flight, asks, answer, listTick>>
  BY DEF List!Drop, List!Dropped, List!Empty
<1>2. 0 \in 0..Clock /\ switching' \in 0..MaxSwitches
  BY <1>1 DEF ListBounds, ListIInv, List!TypeOK
<1>3. suspect' \in BOOLEAN
  BY <1>1
<1>4. List!TypeOK'
  BY <1>1, <1>2, <1>3 DEF ListIInv, List!TypeOK
<1>5. flight'.stage = "fetching" /\ ~suspect' => flight'.of = active'
  BY <1>1
<1>6. (FlightIsOfTheActive /\ FlightIsOfAnAccount /\ List!QuietSwitchesDropTheList)'
  BY <1>1, <1>5 DEF ListIInv, FlightIsOfTheActive, FlightIsOfAnAccount,
                    List!QuietSwitchesDropTheList
<1> QED
  BY <1>4, <1>6 DEF ListIInv

\* A move that nobody is told of is suspect.
LEMMA MoveKeepsIInv ==
  ASSUME ListIInv, NEW a \in Pool, List!MoveSilently(a)
  PROVE  ListIInv'
<1>1. /\ active' = a /\ suspect' = TRUE
      /\ UNCHANGED <<cached, flight, asks, answer, listTick, switching>>
  BY DEF List!MoveSilently
<1> QED
  BY <1>1 DEF ListIInv, List!TypeOK, FlightIsOfTheActive, FlightIsOfAnAccount,
              List!QuietSwitchesDropTheList

\* Every step keeps the strengthened invariant.
LEMMA ListNextKeepsIInv ==
  ASSUME ListBounds, ListIInv, [List!Next]_(List!vars)
  PROVE  ListIInv'
<1>1. ASSUME NEW k \in Askers, NEW force \in BOOLEAN, List!Ask(k, force) PROVE ListIInv'
  BY <1>1, ListAskKeepsIInv
<1>2. CASE List!Discovery
  BY <1>2, ListDiscoveryKeepsIInv
<1>3. ASSUME NEW a \in Pool, List!Switch(a) \/ List!MoveSilently(a) PROVE ListIInv'
  BY <1>3, SwitchKeepsIInv, MoveKeepsIInv
<1>6. CASE List!Drop
  BY <1>6, DropKeepsIInv
<1>4. CASE List!Tick
  <2>1. listTick' \in 0..Clock /\ UNCHANGED <<active, cached, flight, asks, answer, switching, suspect>>
    BY <1>4 DEF List!Tick, ListIInv, List!TypeOK, ListBounds
  <2> QED
    BY <2>1 DEF ListIInv, List!TypeOK, FlightIsOfTheActive, FlightIsOfAnAccount,
                List!QuietSwitchesDropTheList
<1>5. CASE UNCHANGED List!vars
  BY <1>5 DEF List!vars, ListIInv, List!TypeOK, FlightIsOfTheActive, FlightIsOfAnAccount,
              List!QuietSwitchesDropTheList
<1> QED
  BY <1>1, <1>2, <1>3, <1>4, <1>5, <1>6 DEF List!Next

-----------------------------------------------------------------------------

\* Every variable keeps its type: in particular a discovery that has its session is for
\* an account, and a caller is told a list of one, the built-in one, or none.
THEOREM ListTypeCorrect ==
  ASSUME ListBounds
  PROVE  List!Spec => []List!TypeOK
<1>1. ListIInv => List!TypeOK
  BY DEF ListIInv
<1> QED
  BY <1>1, ListInitIInv, ListNextKeepsIInv, PTL DEF List!Spec

\* Once every switch has had its drop, what is cached is the active account's list or the
\* built-in one, whatever discoveries ended before or between the drops: unless the last
\* of them came during a discovery for another account, or the account moved unnoticed.
THEOREM ListSafe ==
  ASSUME ListBounds
  PROVE  List!Spec => []List!QuietSwitchesDropTheList
<1>1. ListIInv => List!QuietSwitchesDropTheList
  BY DEF ListIInv
<1> QED
  BY <1>1, ListInitIInv, ListNextKeepsIInv, PTL DEF List!Spec

-----------------------------------------------------------------------------
(* The verdict on a proxy.                                                  *)

\* Lifetimes are positive (HEALTHY_TTL_MS and UNHEALTHY_TTL_MS are), and the clock may at
\* least reach the time it starts at.
Durations ==
  /\ HealthyTtl \in Nat \ {0} /\ UnhealthyTtl \in Nat \ {0} /\ CheckTimeout \in Nat
  /\ ProxyClock \in Nat /\ HealthyTtl + CheckTimeout <= ProxyClock

\* The proxy was last seen in its present state just now, and never later than now.
SeenNow ==
  /\ lastUp <= proxyTick /\ lastDown <= proxyTick
  /\ IF up THEN lastUp = proxyTick ELSE lastDown = proxyTick

\* A check under way is within its time-out, and what it may have met has been the case
\* since it began.
CheckIsCurrent ==
  check.running =>
    /\ check.since <= proxyTick /\ proxyTick <= check.since + CheckTimeout
    /\ TRUE \in check.met => lastUp >= check.since
    /\ FALSE \in check.met => lastDown >= check.since

\* A verdict is no older than a check takes against the state it tells of.
VerdictWasTrue ==
  health.known =>
    /\ health.at <= proxyTick
    /\ health.healthy => lastUp + CheckTimeout >= health.at
    /\ ~health.healthy => lastDown + CheckTimeout >= health.at

ProxyIInv == Proxy!TypeOK /\ SeenNow /\ CheckIsCurrent /\ VerdictWasTrue

\* The properties a step may not have, as an action.
ProxyRecentStep ==
  \A f \in Fetches :
    /\ fetch[f] # "refused" /\ fetch'[f] = "refused" =>
         lastDown + UnhealthyTtl + CheckTimeout > proxyTick
    /\ fetch[f] # "sending" /\ fetch'[f] = "sending" =>
         lastUp + HealthyTtl + CheckTimeout > proxyTick

-----------------------------------------------------------------------------

\* TypeOK, with its times as numbers.
LEMMA ProxyTypes ==
  ASSUME Durations, Proxy!TypeOK
  PROVE  /\ proxyTick \in Nat /\ lastUp \in Nat /\ lastDown \in Nat /\ up \in BOOLEAN
         /\ proxyTick <= ProxyClock /\ lastUp <= ProxyClock /\ lastDown <= ProxyClock
         /\ health.known \in BOOLEAN /\ health.healthy \in BOOLEAN /\ health.at \in Nat
         /\ check.running \in BOOLEAN /\ check.since \in Nat /\ check.met \subseteq BOOLEAN
<1>1. proxyTick \in 0..ProxyClock /\ lastUp \in 0..ProxyClock /\ lastDown \in 0..ProxyClock /\ up \in BOOLEAN
  BY DEF Proxy!TypeOK
<1>2. /\ health.known \in BOOLEAN /\ health.healthy \in BOOLEAN /\ health.at \in 0..ProxyClock
      /\ check.running \in BOOLEAN /\ check.since \in 0..ProxyClock /\ check.met \subseteq BOOLEAN
  BY DEF Proxy!TypeOK
<1> QED
  BY <1>1, <1>2 DEF Durations

\* There is neither a verdict nor a check at the start.
LEMMA ProxyInitIInv == Durations /\ Proxy!Init => ProxyIInv
<1> SUFFICES ASSUME Durations, Proxy!Init PROVE ProxyIInv
  OBVIOUS
<1>1. proxyTick \in Nat /\ proxyTick <= ProxyClock /\ 0 \in 0..ProxyClock
  BY DEF Durations, Proxy!Init
<1>2. lastUp \in {0, proxyTick} /\ lastDown \in {0, proxyTick} /\ SeenNow
  BY <1>1 DEF Proxy!Init, SeenNow
<1>3. Proxy!TypeOK
  <2>1. {proxyTick, lastUp, lastDown} \subseteq 0..ProxyClock
    BY <1>1, <1>2 DEF Durations
  <2>2. health \in [known: BOOLEAN, healthy: BOOLEAN, at: 0..ProxyClock]
    BY <1>1 DEF Proxy!Init, Proxy!NoVerdict
  <2>3. check \in [running: BOOLEAN, since: 0..ProxyClock, met: SUBSET BOOLEAN]
    BY <1>1 DEF Proxy!Init, Proxy!NoCheck
  <2>4. fetch \in [Fetches -> {"idle", "checking", "sending", "refused"}] /\ up \in BOOLEAN
    BY DEF Proxy!Init
  <2> QED
    BY <2>1, <2>2, <2>3, <2>4 DEF Proxy!TypeOK
<1>4. CheckIsCurrent /\ VerdictWasTrue
  BY DEF Proxy!Init, Proxy!NoCheck, Proxy!NoVerdict, CheckIsCurrent, VerdictWasTrue
<1> QED
  BY <1>2, <1>3, <1>4 DEF ProxyIInv

\* A request uses a remembered verdict, joins the check under way, or begins one now.
LEMMA ProxyAskKeepsIInv ==
  ASSUME Durations, ProxyIInv, NEW f \in Fetches, Proxy!Ask(f)
  PROVE  ProxyIInv'
<1>1. UNCHANGED <<up, health, proxyTick, lastUp, lastDown>>
  BY DEF Proxy!Ask
<1>2. \/ check' = check
      \/ check' = [running |-> TRUE, since |-> proxyTick, met |-> {up}]
  BY DEF Proxy!Ask
<1>3. fetch' \in [Fetches -> {"idle", "checking", "sending", "refused"}]
  BY DEF Proxy!Ask, Proxy!AfterVerdict, ProxyIInv, Proxy!TypeOK
<1>4. Proxy!TypeOK'
  <2>1. proxyTick \in 0..ProxyClock /\ up \in BOOLEAN
    BY DEF ProxyIInv, Proxy!TypeOK
  <2>2. check' \in [running: BOOLEAN, since: 0..ProxyClock, met: SUBSET BOOLEAN]
    <3>1. {up} \in SUBSET BOOLEAN
      BY <2>1
    <3>2. [running |-> TRUE, since |-> proxyTick, met |-> {up}]
             \in [running: BOOLEAN, since: 0..ProxyClock, met: SUBSET BOOLEAN]
      BY <2>1, <3>1
    <3> QED
      BY <1>2, <3>2 DEF ProxyIInv, Proxy!TypeOK
  <2> QED
    BY <1>1, <1>3, <2>2 DEF ProxyIInv, Proxy!TypeOK
<1>5. SeenNow' /\ VerdictWasTrue'
  BY <1>1 DEF ProxyIInv, SeenNow, VerdictWasTrue
<1>6. CheckIsCurrent'
  <2>1. CASE check' = check
    BY <1>1, <2>1 DEF ProxyIInv, CheckIsCurrent
  <2>2. CASE check' = [running |-> TRUE, since |-> proxyTick, met |-> {up}]
    <3>1. proxyTick \in Nat /\ up \in BOOLEAN /\ CheckTimeout \in Nat
      BY ProxyTypes DEF ProxyIInv, Durations
    <3>2. proxyTick <= proxyTick + CheckTimeout
      BY <3>1
    <3>3. up => lastUp >= proxyTick
      BY <3>1 DEF ProxyIInv, SeenNow
    <3>4. ~up => lastDown >= proxyTick
      BY <3>1 DEF ProxyIInv, SeenNow
    <3>5. /\ check'.since = proxyTick /\ check'.met = {up}
          /\ proxyTick' = proxyTick /\ lastUp' = lastUp /\ lastDown' = lastDown
      BY <1>1, <2>2
    <3>6. TRUE \in check'.met => up
      BY <3>5, Zenon
    <3>7. FALSE \in check'.met => ~up
      BY <3>5, Zenon
    <3>8. proxyTick <= proxyTick
      BY <3>1
    <3>9. check'.since <= proxyTick' /\ proxyTick' <= check'.since + CheckTimeout
      BY <3>2, <3>5, <3>8
    <3>10. TRUE \in check'.met => lastUp' >= check'.since
      BY <3>3, <3>5, <3>6
    <3>11. FALSE \in check'.met => lastDown' >= check'.since
      BY <3>4, <3>5, <3>7
    <3> QED
      BY <3>9, <3>10, <3>11 DEF CheckIsCurrent
  <2> QED
    BY <1>2, <2>1, <2>2
<1> QED
  BY <1>4, <1>5, <1>6 DEF ProxyIInv

\* What a check found is stored with the time of now, which is within its time-out of the
\* time the proxy was last in that state.
LEMMA ProxyCheckEndsKeepsIInv ==
  ASSUME Durations, ProxyIInv, Proxy!CheckEnds
  PROVE  ProxyIInv'
<1>1. PICK healthy \in check.met :
        /\ health' = [known |-> TRUE, healthy |-> healthy, at |-> proxyTick]
        /\ fetch' = [f \in Fetches |-> IF fetch[f] = "checking" THEN Proxy!AfterVerdict(healthy)
                                       ELSE fetch[f]]
  BY DEF Proxy!CheckEnds
<1>2. check' = Proxy!NoCheck /\ UNCHANGED <<up, proxyTick, lastUp, lastDown>>
  BY DEF Proxy!CheckEnds
<1>3. proxyTick \in 0..ProxyClock /\ healthy \in BOOLEAN
  BY DEF ProxyIInv, Proxy!TypeOK
<1>4. Proxy!TypeOK'
  <2>1. health' \in [known: BOOLEAN, healthy: BOOLEAN, at: 0..ProxyClock]
    BY <1>1, <1>3
  <2>2. fetch' \in [Fetches -> {"idle", "checking", "sending", "refused"}]
    BY <1>1 DEF Proxy!AfterVerdict, ProxyIInv, Proxy!TypeOK
  <2>3. check' \in [running: BOOLEAN, since: 0..ProxyClock, met: SUBSET BOOLEAN]
    <3>1. 0 \in 0..ProxyClock
      BY DEF Durations
    <3> QED
      BY <1>2, <3>1 DEF Proxy!NoCheck
  <2> QED
    BY <1>2, <2>1, <2>2, <2>3 DEF ProxyIInv, Proxy!TypeOK
<1>5. SeenNow' /\ CheckIsCurrent'
  BY <1>2 DEF ProxyIInv, SeenNow, CheckIsCurrent, Proxy!NoCheck
<1>6. VerdictWasTrue'
  <2>1. proxyTick \in Nat /\ lastUp \in Nat /\ lastDown \in Nat /\ check.since \in Nat /\ CheckTimeout \in Nat
    BY ProxyTypes DEF ProxyIInv, Durations
  <2>2. proxyTick <= check.since + CheckTimeout
    BY DEF Proxy!CheckEnds, ProxyIInv, CheckIsCurrent
  <2>3. healthy => lastUp + CheckTimeout >= proxyTick
    <3>1. healthy => lastUp >= check.since
      BY <1>1, <1>3 DEF Proxy!CheckEnds, ProxyIInv, CheckIsCurrent
    <3> QED
      BY <2>1, <2>2, <3>1
  <2>4. ~healthy => lastDown + CheckTimeout >= proxyTick
    <3>1. ~healthy => lastDown >= check.since
      BY <1>1, <1>3 DEF Proxy!CheckEnds, ProxyIInv, CheckIsCurrent
    <3> QED
      BY <2>1, <2>2, <3>1
  <2>5. health'.at = proxyTick /\ health'.healthy = healthy /\ proxyTick <= proxyTick
    BY <1>1, <2>1
  <2> QED
    BY <1>2, <2>3, <2>4, <2>5 DEF VerdictWasTrue
<1> QED
  BY <1>4, <1>5, <1>6 DEF ProxyIInv

\* The proxy changes state: a check under way may have met both.
LEMMA ProxyFlipKeepsIInv ==
  ASSUME Durations, ProxyIInv, Proxy!Flip
  PROVE  ProxyIInv'
<1>1. /\ up' = ~up /\ UNCHANGED <<health, fetch, proxyTick>>
      /\ check' = IF check.running THEN [check EXCEPT !.met = @ \cup {up'}] ELSE check
      /\ lastUp' = IF up' THEN proxyTick ELSE lastUp
      /\ lastDown' = IF up' THEN lastDown ELSE proxyTick
  BY DEF Proxy!Flip
<1>2. /\ proxyTick \in Nat /\ lastUp \in Nat /\ lastDown \in Nat /\ up \in BOOLEAN
      /\ check.running \in BOOLEAN /\ check.since \in Nat /\ check.met \subseteq BOOLEAN
      /\ CheckTimeout \in Nat /\ health.at \in Nat /\ health.healthy \in BOOLEAN
      /\ health.known \in BOOLEAN
  BY ProxyTypes DEF ProxyIInv, Durations
<1>3. lastUp' >= lastUp /\ lastDown' >= lastDown /\ lastUp' \in Nat /\ lastDown' \in Nat
  BY <1>1, <1>2 DEF ProxyIInv, SeenNow
<1>4. SeenNow'
  BY <1>1, <1>2 DEF ProxyIInv, SeenNow
<1>5. Proxy!TypeOK'
  <2>1. check' \in [running: BOOLEAN, since: 0..ProxyClock, met: SUBSET BOOLEAN]
    BY <1>1, <1>2 DEF ProxyIInv, Proxy!TypeOK
  <2>2. {proxyTick', lastUp', lastDown'} \subseteq 0..ProxyClock
    BY <1>1 DEF ProxyIInv, Proxy!TypeOK
  <2>3. up' \in BOOLEAN
    BY <1>1, <1>2
  <2> QED
    BY <1>1, <2>1, <2>2, <2>3 DEF ProxyIInv, Proxy!TypeOK
<1>6. CheckIsCurrent'
  <2> SUFFICES ASSUME check'.running PROVE CheckIsCurrent'
    BY DEF CheckIsCurrent
  <2>1. check.running
    BY <1>1
  <2>2. check'.since = check.since /\ check'.met = check.met \cup {up'}
    BY <1>1, <2>1 DEF ProxyIInv, Proxy!TypeOK
  <2>3. check.since <= proxyTick /\ proxyTick <= check.since + CheckTimeout
    BY <2>1 DEF ProxyIInv, CheckIsCurrent
  <2>4. TRUE \in check'.met => lastUp' >= check.since
    <3>1. CASE TRUE \in check.met
      <4>1. lastUp >= check.since
        BY <2>1, <3>1 DEF ProxyIInv, CheckIsCurrent
      <4> QED
        BY <1>2, <1>3, <4>1
    <3>2. CASE up' = TRUE
      BY <1>1, <1>2, <2>3, <3>2
    <3> QED
      BY <2>2, <3>1, <3>2
  <2>5. FALSE \in check'.met => lastDown' >= check.since
    <3>1. CASE FALSE \in check.met
      <4>1. lastDown >= check.since
        BY <2>1, <3>1 DEF ProxyIInv, CheckIsCurrent
      <4> QED
        BY <1>2, <1>3, <4>1
    <3>2. CASE up' = FALSE
      BY <1>1, <1>2, <2>3, <3>2
    <3> QED
      BY <2>2, <3>1, <3>2
  <2> QED
    BY <1>1, <2>2, <2>3, <2>4, <2>5 DEF CheckIsCurrent
<1>7. VerdictWasTrue'
  BY <1>1, <1>2, <1>3 DEF ProxyIInv, VerdictWasTrue
<1> QED
  BY <1>4, <1>5, <1>6, <1>7 DEF ProxyIInv

\* Time passes, but not beyond the time-out of a check under way.
LEMMA ProxyTickKeepsIInv ==
  ASSUME Durations, ProxyIInv, Proxy!Tick
  PROVE  ProxyIInv'
<1>1. /\ proxyTick' = proxyTick + 1 /\ proxyTick < ProxyClock
      /\ check.running => proxyTick < check.since + CheckTimeout
      /\ lastUp' = IF up THEN proxyTick' ELSE lastUp
      /\ lastDown' = IF up THEN lastDown ELSE proxyTick'
      /\ UNCHANGED <<up, health, check, fetch>>
  BY DEF Proxy!Tick
<1>2. /\ proxyTick \in Nat /\ lastUp \in Nat /\ lastDown \in Nat /\ up \in BOOLEAN
      /\ check.since \in Nat /\ CheckTimeout \in Nat /\ ProxyClock \in Nat /\ health.at \in Nat
      /\ lastUp <= ProxyClock /\ lastDown <= ProxyClock
  BY ProxyTypes DEF ProxyIInv, Durations
<1>3. lastUp <= proxyTick /\ lastDown <= proxyTick
  BY DEF ProxyIInv, SeenNow
<1>4. /\ lastUp' >= lastUp /\ lastDown' >= lastDown /\ lastUp' \in Nat /\ lastDown' \in Nat
      /\ proxyTick' \in Nat /\ proxyTick' <= ProxyClock /\ lastUp' <= proxyTick' /\ lastDown' <= proxyTick'
  BY <1>1, <1>2, <1>3
<1>5. Proxy!TypeOK'
  <2>1. {proxyTick', lastUp', lastDown'} \subseteq 0..ProxyClock
    BY <1>2, <1>4
  <2> QED
    BY <1>1, <2>1 DEF ProxyIInv, Proxy!TypeOK
<1>6. SeenNow'
  BY <1>1, <1>4 DEF SeenNow
<1>7. CheckIsCurrent'
  <2> SUFFICES ASSUME check.running
               PROVE  /\ check.since <= proxyTick' /\ proxyTick' <= check.since + CheckTimeout
                      /\ TRUE \in check.met => lastUp' >= check.since
                      /\ FALSE \in check.met => lastDown' >= check.since
    BY <1>1 DEF CheckIsCurrent
  <2>1. /\ check.since <= proxyTick /\ proxyTick < check.since + CheckTimeout
        /\ TRUE \in check.met => lastUp >= check.since
        /\ FALSE \in check.met => lastDown >= check.since
    BY <1>1 DEF ProxyIInv, CheckIsCurrent
  <2>2. check.since <= proxyTick' /\ proxyTick' <= check.since + CheckTimeout
    BY <1>1, <1>2, <2>1
  <2>3. TRUE \in check.met => lastUp' >= check.since
    BY <1>2, <1>4, <2>1
  <2>4. FALSE \in check.met => lastDown' >= check.since
    BY <1>2, <1>4, <2>1
  <2> QED
    BY <2>2, <2>3, <2>4
<1>8. VerdictWasTrue'
  BY <1>1, <1>2, <1>4 DEF ProxyIInv, VerdictWasTrue
<1> QED
  BY <1>5, <1>6, <1>7, <1>8 DEF ProxyIInv

\* Every step keeps the strengthened invariant.
LEMMA ProxyNextKeepsIInv ==
  ASSUME Durations, ProxyIInv, [Proxy!Next]_(Proxy!vars)
  PROVE  ProxyIInv'
<1>1. ASSUME NEW f \in Fetches, Proxy!Ask(f) PROVE ProxyIInv'
  BY <1>1, ProxyAskKeepsIInv
<1>2. ASSUME NEW f \in Fetches, Proxy!FetchEnds(f) PROVE ProxyIInv'
  <2>1. fetch' \in [Fetches -> {"idle", "checking", "sending", "refused"}]
    BY <1>2 DEF Proxy!FetchEnds, ProxyIInv, Proxy!TypeOK
  <2> QED
    BY <1>2, <2>1 DEF Proxy!FetchEnds, ProxyIInv, Proxy!TypeOK, SeenNow, CheckIsCurrent,
                      VerdictWasTrue
<1>3. CASE Proxy!CheckEnds
  BY <1>3, ProxyCheckEndsKeepsIInv
<1>4. CASE Proxy!Flip
  BY <1>4, ProxyFlipKeepsIInv
<1>5. CASE Proxy!Tick
  BY <1>5, ProxyTickKeepsIInv
<1>6. CASE UNCHANGED Proxy!vars
  BY <1>6 DEF Proxy!vars, ProxyIInv, Proxy!TypeOK, SeenNow, CheckIsCurrent, VerdictWasTrue
<1> QED
  BY <1>1, <1>2, <1>3, <1>4, <1>5, <1>6 DEF Proxy!Next

-----------------------------------------------------------------------------

\* A remembered verdict is used only within its lifetime, hence within that and a
\* check's time-out of the moment it was true.
LEMMA ProxyAskIsRecent ==
  ASSUME Durations, ProxyIInv, NEW g \in Fetches, Proxy!Ask(g)
  PROVE  ProxyRecentStep
<1> SUFFICES ASSUME NEW f \in Fetches, fetch'[f] # fetch[f], fetch'[f] \in {"refused", "sending"}
             PROVE  /\ fetch'[f] = "refused" => lastDown + UnhealthyTtl + CheckTimeout > proxyTick
                    /\ fetch'[f] = "sending" => lastUp + HealthyTtl + CheckTimeout > proxyTick
  BY DEF ProxyRecentStep
<1>1. Proxy!IsFresh(health) /\ f = g /\ fetch'[f] = Proxy!AfterVerdict(health.healthy)
  BY DEF Proxy!Ask, ProxyIInv, Proxy!TypeOK
<1>2. /\ proxyTick \in Nat /\ lastUp \in Nat /\ lastDown \in Nat /\ CheckTimeout \in Nat
      /\ HealthyTtl \in Nat /\ UnhealthyTtl \in Nat /\ health.at \in Nat
      /\ health.healthy \in BOOLEAN
  BY ProxyTypes DEF ProxyIInv, Durations
<1>3. CASE health.healthy
  <2>1. proxyTick < health.at + HealthyTtl
    BY <1>1, <1>3 DEF Proxy!IsFresh, Proxy!Ttl
  <2>2. lastUp + CheckTimeout >= health.at
    BY <1>1, <1>3 DEF Proxy!IsFresh, ProxyIInv, VerdictWasTrue
  <2>3. lastUp + HealthyTtl + CheckTimeout > proxyTick
    BY <1>2, <2>1, <2>2
  <2> QED
    BY <1>1, <1>3, <2>3 DEF Proxy!AfterVerdict
<1>4. CASE ~health.healthy
  <2>1. proxyTick < health.at + UnhealthyTtl
    BY <1>1, <1>4 DEF Proxy!IsFresh, Proxy!Ttl
  <2>2. lastDown + CheckTimeout >= health.at
    BY <1>1, <1>4 DEF Proxy!IsFresh, ProxyIInv, VerdictWasTrue
  <2>3. lastDown + UnhealthyTtl + CheckTimeout > proxyTick
    BY <1>2, <2>1, <2>2
  <2> QED
    BY <1>1, <1>4, <2>3 DEF Proxy!AfterVerdict
<1> QED
  BY <1>2, <1>3, <1>4

\* Who waited on a check is told what it found within its time-out.
LEMMA ProxyCheckEndsIsRecent ==
  ASSUME Durations, ProxyIInv, Proxy!CheckEnds
  PROVE  ProxyRecentStep
<1>1. PICK healthy \in check.met :
        fetch' = [f \in Fetches |-> IF fetch[f] = "checking" THEN Proxy!AfterVerdict(healthy)
                                    ELSE fetch[f]]
  BY DEF Proxy!CheckEnds
<1>2. /\ proxyTick \in Nat /\ lastUp \in Nat /\ lastDown \in Nat /\ check.since \in Nat
      /\ CheckTimeout \in Nat /\ HealthyTtl \in Nat \ {0} /\ UnhealthyTtl \in Nat \ {0}
      /\ healthy \in BOOLEAN
  BY ProxyTypes DEF ProxyIInv, Durations
<1>3. check.running /\ proxyTick <= check.since + CheckTimeout
  BY DEF Proxy!CheckEnds, ProxyIInv, CheckIsCurrent
<1>4. CASE healthy
  <2>1. lastUp >= check.since
    BY <1>2, <1>3, <1>4 DEF ProxyIInv, CheckIsCurrent
  <2>2. lastUp + HealthyTtl + CheckTimeout > proxyTick
    BY <1>2, <1>3, <2>1
  <2> QED
    BY <1>1, <1>4, <2>2 DEF ProxyRecentStep, Proxy!AfterVerdict
<1>5. CASE ~healthy
  <2>1. lastDown >= check.since
    BY <1>2, <1>3, <1>5 DEF ProxyIInv, CheckIsCurrent
  <2>2. lastDown + UnhealthyTtl + CheckTimeout > proxyTick
    BY <1>2, <1>3, <2>1
  <2> QED
    BY <1>1, <1>5, <2>2 DEF ProxyRecentStep, Proxy!AfterVerdict
<1> QED
  BY <1>2, <1>4, <1>5

\* No other step refuses or sends a request.
LEMMA ProxyEveryStepIsRecent ==
  ASSUME Durations, ProxyIInv, [Proxy!Next]_(Proxy!vars)
  PROVE  [ProxyRecentStep]_(Proxy!vars)
<1>1. ASSUME NEW f \in Fetches, Proxy!Ask(f) PROVE ProxyRecentStep
  BY <1>1, ProxyAskIsRecent
<1>2. ASSUME NEW f \in Fetches, Proxy!FetchEnds(f) PROVE ProxyRecentStep
  <2>1. \A g \in Fetches : fetch'[g] = fetch[g] \/ fetch'[g] = "idle"
    BY <1>2 DEF Proxy!FetchEnds, ProxyIInv, Proxy!TypeOK
  <2> QED
    BY <2>1 DEF ProxyRecentStep
<1>3. CASE Proxy!CheckEnds
  BY <1>3, ProxyCheckEndsIsRecent
<1>4. CASE Proxy!Flip \/ Proxy!Tick
  BY <1>4 DEF Proxy!Flip, Proxy!Tick, ProxyRecentStep
<1> QED
  BY <1>1, <1>2, <1>3, <1>4 DEF Proxy!Next

\* Every variable keeps its type.
THEOREM ProxyTypeCorrect ==
  ASSUME Durations
  PROVE  Proxy!Spec => []Proxy!TypeOK
<1>1. ProxyIInv => Proxy!TypeOK
  BY DEF ProxyIInv
<1> QED
  BY <1>1, ProxyInitIInv, ProxyNextKeepsIInv, PTL DEF Proxy!Spec

\* A request is refused only when the proxy was down within the short lifetime and a
\* check's time-out, and sent only when it was up within the long one: whoever joins a
\* check, however late, and whatever the proxy does meanwhile.
THEOREM ProxySafe ==
  ASSUME Durations
  PROVE  Proxy!Spec => Proxy!VerdictsAreRecent
BY ProxyInitIInv, ProxyNextKeepsIInv, ProxyEveryStepIsRecent, PTL DEF Proxy!Spec,
   Proxy!VerdictsAreRecent, ProxyRecentStep

-----------------------------------------------------------------------------
(* The advertised version.                                                  *)

\* The numbers that bound the versions and the clock.
FeedBounds == LatestRelease \in Nat /\ Clock \in Nat

\* Strengthening of AdvertisedIsTheNewestSeen: what is published was told by the feed, or
\* is nothing; nothing the feed told is newer; and what is remembered is no newer either,
\* which is what lets a fresh version be published again without having been fetched.
NewestPublished ==
  /\ published \in seen \cup {0}
  /\ \A v \in seen : v <= published
  /\ cache.version <= published

FeedIInv == Feed!TypeOK /\ NewestPublished

-----------------------------------------------------------------------------

\* The larger of two versions is one of them and no less than either (publishVersion and
\* the comparison with the remembered version rest on it).
LEMMA LargerIsEither ==
  ASSUME NEW a \in Nat, NEW b \in Nat
  PROVE  /\ Feed!Larger(a, b) \in {a, b}
         /\ a <= Feed!Larger(a, b) /\ b <= Feed!Larger(a, b)
BY DEF Feed!Larger

\* The process starts with nothing told and nothing published.
LEMMA FeedInitIInv == FeedBounds /\ Feed!Init => FeedIInv
<1> SUFFICES ASSUME FeedBounds, Feed!Init PROVE FeedIInv
  OBVIOUS
<1>1. Feed!TypeOK
  <2>1. 0 \in 0..LatestRelease /\ 0 \in 0..Clock
    BY DEF FeedBounds
  <2>2. /\ told \in [Askers -> 0..LatestRelease \cup {Fallback}]
        /\ asking \in [Askers -> {"idle", "waiting", "bounded"}]
    BY <2>1 DEF Feed!Init
  <2>3. cache \in [version: 0..LatestRelease, at: 0..Clock]
    BY <2>1 DEF Feed!Init
  <2> QED
    BY <2>1, <2>2, <2>3 DEF Feed!Init, Feed!TypeOK
<1>2. NewestPublished
  BY DEF Feed!Init, NewestPublished
<1> QED
  BY <1>1, <1>2 DEF FeedIInv

\* Publishing a remembered version again leaves what is published alone: it is no newer.
LEMMA RepublishingChangesNothing ==
  ASSUME FeedBounds, FeedIInv
  PROVE  Feed!Published(cache.version) = published
<1>1. /\ cache.version \in Nat /\ published \in Nat
      /\ cache.version <= published
  BY DEF FeedBounds, FeedIInv, Feed!TypeOK, NewestPublished
<1> QED
  BY <1>1 DEF Feed!Published, Feed!Larger

\* A caller that is told at once changes neither what is seen nor what is published.
LEMMA FeedAskKeepsIInv ==
  ASSUME FeedBounds, FeedIInv, NEW k \in Askers, NEW way \in {"waiting", "bounded"}, Feed!Ask(k, way)
  PROVE  FeedIInv'
<1>1. published' = published /\ UNCHANGED <<cache, seen, feedTick>>
  BY RepublishingChangesNothing DEF Feed!Ask
<1>2. Feed!TypeOK'
  <2>1. told' \in [Askers -> 0..LatestRelease \cup {Fallback}]
    BY DEF FeedIInv, Feed!TypeOK, Feed!Ask
  <2>2. asking' \in [Askers -> {"idle", "waiting", "bounded"}] /\ inFlight' \in BOOLEAN
    BY DEF FeedIInv, Feed!TypeOK, Feed!Ask
  <2> QED
    BY <1>1, <2>1, <2>2 DEF FeedIInv, Feed!TypeOK
<1>3. NewestPublished'
  BY <1>1 DEF FeedIInv, NewestPublished
<1> QED
  BY <1>2, <1>3 DEF FeedIInv

\* So does one that only peeks at the cache.
LEMMA FeedPeekKeepsIInv ==
  ASSUME FeedBounds, FeedIInv, NEW k \in Askers, Feed!Peek(k)
  PROVE  FeedIInv'
<1>1. published' = published /\ UNCHANGED <<cache, inFlight, asking, seen, feedTick>>
  BY RepublishingChangesNothing DEF Feed!Peek
<1>2. told' \in [Askers -> 0..LatestRelease \cup {Fallback}]
  BY DEF FeedIInv, Feed!TypeOK, Feed!Peek
<1>3. Feed!TypeOK' /\ NewestPublished'
  BY <1>1, <1>2 DEF FeedIInv, Feed!TypeOK, NewestPublished
<1> QED
  BY <1>3 DEF FeedIInv

\* Whoever waits is told something of the right type, whether the fetch failed or not.
LEMMA AnswersAreTyped ==
  ASSUME FeedIInv, NEW v \in 0..LatestRelease, Feed!Answers(v)
  PROVE  /\ told' \in [Askers -> 0..LatestRelease \cup {Fallback}]
         /\ asking' \in [Askers -> {"idle", "waiting", "bounded"}]
         /\ inFlight' \in BOOLEAN
BY DEF FeedIInv, Feed!TypeOK, Feed!Answers

\* The feed may tell an older version than before: the newest stays remembered and published.
LEMMA FeedFetchTellsKeepsIInv ==
  ASSUME FeedBounds, FeedIInv, Feed!FetchTells
  PROVE  FeedIInv'
<1>1. PICK v \in Feed!Versions :
        /\ cache' = [version |-> Feed!Larger(v, cache.version), at |-> feedTick]
        /\ published' = Feed!Larger(v, published)
        /\ seen' = seen \cup {v}
        /\ Feed!Answers(Feed!Larger(v, cache.version))
  BY DEF Feed!FetchTells, Feed!Published
<1>2. v \in Nat /\ v \in 0..LatestRelease /\ published \in Nat /\ cache.version \in Nat
  BY DEF FeedBounds, FeedIInv, Feed!TypeOK, Feed!Versions
<1>3. Feed!Larger(v, cache.version) \in 0..LatestRelease /\ Feed!Larger(v, published) \in 0..LatestRelease
  BY <1>2, LargerIsEither DEF FeedIInv, Feed!TypeOK
<1>4. Feed!TypeOK'
  <2>1. cache' \in [version: 0..LatestRelease, at: 0..Clock] /\ published' \in 0..LatestRelease
    BY <1>1, <1>3 DEF FeedIInv, Feed!TypeOK
  <2>2. seen' \subseteq Feed!Versions /\ feedTick' \in 0..Clock
    BY <1>1 DEF Feed!FetchTells, FeedIInv, Feed!TypeOK
  <2> QED
    BY <1>1, <1>3, <2>1, <2>2, AnswersAreTyped DEF Feed!TypeOK
<1>5. NewestPublished'
  <2>1. published' \in seen' \cup {0}
    BY <1>1, <1>2, LargerIsEither DEF FeedIInv, NewestPublished
  <2>2. published <= published' /\ v <= published'
    BY <1>1, <1>2, LargerIsEither
  <2>3. \A u \in seen' : u <= published'
    <3> TAKE u \in seen'
    <3>1. CASE u = v
      BY <3>1, <2>2
    <3>2. CASE u \in seen
      <4>1. u \in Nat /\ u <= published /\ published' \in Nat
        BY <3>2, <1>4 DEF FeedBounds, FeedIInv, Feed!TypeOK, NewestPublished, Feed!Versions
      <4> QED
        BY <4>1, <2>2, <1>2
    <3> QED
      BY <3>1, <3>2, <1>1
  <2>4. cache'.version <= published'
    BY <1>1, <1>2 DEF FeedIInv, NewestPublished, Feed!Larger
  <2> QED
    BY <2>1, <2>3, <2>4 DEF NewestPublished
<1> QED
  BY <1>4, <1>5 DEF FeedIInv

\* A failed fetch tells the remembered version or the fallback, and publishes neither.
LEMMA FeedFetchFailsKeepsIInv ==
  ASSUME FeedBounds, FeedIInv, Feed!FetchFails
  PROVE  FeedIInv'
<1>1. cache.version \in 0..LatestRelease
  BY DEF FeedIInv, Feed!TypeOK
<1>2. /\ told' \in [Askers -> 0..LatestRelease \cup {Fallback}]
      /\ asking' \in [Askers -> {"idle", "waiting", "bounded"}]
      /\ inFlight' \in BOOLEAN
  BY <1>1, AnswersAreTyped DEF Feed!FetchFails
<1>3. UNCHANGED <<cache, published, seen, feedTick>>
  BY DEF Feed!FetchFails
<1> QED
  BY <1>2, <1>3 DEF FeedIInv, Feed!TypeOK, NewestPublished

\* Every step keeps the strengthened invariant.
LEMMA FeedNextKeepsIInv ==
  ASSUME FeedBounds, FeedIInv, [Feed!Next]_(Feed!vars)
  PROVE  FeedIInv'
<1>1. ASSUME NEW k \in Askers, Feed!Ask(k, "waiting") PROVE FeedIInv'
  BY <1>1, FeedAskKeepsIInv
<1>2. ASSUME NEW k \in Askers, Feed!Ask(k, "bounded") PROVE FeedIInv'
  BY <1>2, FeedAskKeepsIInv
<1>3. ASSUME NEW k \in Askers, Feed!Peek(k) PROVE FeedIInv'
  BY <1>3, FeedPeekKeepsIInv
<1>4. ASSUME NEW k \in Askers, Feed!GiveUp(k) PROVE FeedIInv'
  <2>1. told' \in [Askers -> 0..LatestRelease \cup {Fallback}]
    BY <1>4 DEF FeedBounds, Feed!GiveUp, FeedIInv, Feed!TypeOK
  <2>2. asking' \in [Askers -> {"idle", "waiting", "bounded"}]
    BY <1>4 DEF Feed!GiveUp, FeedIInv, Feed!TypeOK
  <2> QED
    BY <1>4, <2>1, <2>2 DEF Feed!GiveUp, FeedIInv, Feed!TypeOK, NewestPublished
<1>5. CASE Feed!FetchTells
  BY <1>5, FeedFetchTellsKeepsIInv
<1>6. CASE Feed!FetchFails
  BY <1>6, FeedFetchFailsKeepsIInv
<1>7. CASE Feed!Tick
  BY <1>7 DEF FeedBounds, Feed!Tick, FeedIInv, Feed!TypeOK, NewestPublished
<1>8. CASE UNCHANGED Feed!vars
  BY <1>8 DEF Feed!vars, FeedIInv, Feed!TypeOK, NewestPublished
<1> QED
  BY <1>1, <1>2, <1>3, <1>4, <1>5, <1>6, <1>7, <1>8 DEF Feed!Next

\* The strengthened invariant names the maximum.
LEMMA NewestIsTheMaximum ==
  ASSUME FeedBounds, FeedIInv
  PROVE  Feed!AdvertisedIsTheNewestSeen
<1> DEFINE S == seen \cup {0}
           IsMax(x) == x \in S /\ \A y \in S : x >= y
<1>1. S \subseteq Nat /\ published \in Nat
  BY DEF FeedBounds, FeedIInv, Feed!TypeOK, Feed!Versions
<1>2. IsMax(published)
  BY <1>1 DEF FeedIInv, NewestPublished
<1>3. \A x, z : IsMax(x) /\ IsMax(z) => x = z
  <2> SUFFICES ASSUME NEW x, NEW z, IsMax(x), IsMax(z) PROVE x = z
    OBVIOUS
  <2>1. x \in Nat /\ z \in Nat /\ x >= z /\ z >= x
    BY <1>1
  <2> QED
    BY <2>1
<1>4. Feed!Max(S) = CHOOSE x \in S : \A y \in S : x >= y
  BY DEF Feed!Max
<1>5. IsMax(Feed!Max(S))
  BY <1>2, <1>4
<1> QED
  BY <1>2, <1>3, <1>5 DEF Feed!AdvertisedIsTheNewestSeen

-----------------------------------------------------------------------------

\* Every variable keeps its type: versions and times stay within their bounds, and who
\* waits is told a version or the fallback.
THEOREM FeedTypeCorrect ==
  ASSUME FeedBounds
  PROVE  Feed!Spec => []Feed!TypeOK
<1>1. FeedIInv => Feed!TypeOK
  BY DEF FeedIInv
<1> QED
  BY <1>1, FeedInitIInv, FeedNextKeepsIInv, PTL DEF Feed!Spec

\* Whatever order fetches, failures, time-outs and peeks come in, and however often the
\* feed falls back to an older release, User-Agents carry the newest release it has told.
THEOREM FeedSafe ==
  ASSUME FeedBounds
  PROVE  Feed!Spec => []Feed!AdvertisedIsTheNewestSeen
BY FeedInitIInv, FeedNextKeepsIInv, NewestIsTheMaximum, PTL DEF Feed!Spec

-----------------------------------------------------------------------------
(* The logins begun.                                                        *)

\* The bounds are numbers.
LoginBounds == LastLogin \in Nat /\ LoginBound \in Nat /\ Clock \in Nat /\ LoginTtl \in Nat

LoginAccount == [email: Emails \cup {NoEmail}, login: Login!Logins]
LoginBusy(c) == callback[c].stage # "idle"

\* What is issued is within the bound, and its code has not been sent while it is pending
\* or before it is issued.
UnusedUntilConsumed ==
  /\ Len(issuedAt) <= LastLogin
  /\ \A n \in Login!Logins : exchanges[n] \in {0, 1}
  /\ \A n \in Login!Logins : n \in authPending \/ n \notin Login!Issued => exchanges[n] = 0

\* A callback under way has its authorization to itself.
CallbackOwnsItsLogin ==
  /\ \A c \in Callbacks : LoginBusy(c) =>
       callback[c].login \in Login!Logins /\ exchanges[callback[c].login] = 1
  /\ \A c, d \in Callbacks : LoginBusy(c) /\ LoginBusy(d) /\ callback[c].login = callback[d].login => c = d

\* A credential that is stored came of a login that is over, and is stored once.
CredentialIsStoredOnce ==
  /\ \A i \in DOMAIN accounts : exchanges[accounts[i].login] = 1
  /\ \A i \in DOMAIN accounts, c \in Callbacks : LoginBusy(c) => accounts[i].login # callback[c].login
  /\ \A i, j \in DOMAIN accounts : accounts[i].login = accounts[j].login => i = j

\* A login in good time is kept unless more than the bound have been begun after it.
KeptInGoodTime ==
  \A n \in Login!Issued :
    exchanges[n] = 0 /\ ~Login!Expired(n) /\ Len(issuedAt) - n <= LoginBound => n \in authPending

LoginIInv ==
  /\ Login!TypeOK /\ UnusedUntilConsumed /\ CallbackOwnsItsLogin /\ CredentialIsStoredOnce
  /\ KeptInGoodTime

-----------------------------------------------------------------------------
(* What the helpers do.                                                     *)

\* The authorizations issued are the numbers up to the last.
LEMMA IssuedNumbers ==
  ASSUME Login!TypeOK
  PROVE  /\ Len(issuedAt) \in Nat /\ Login!Issued = 1..Len(issuedAt)
         /\ \A n \in Login!Issued : issuedAt[n] \in 0..Clock
BY LenProperties, ElementOfSeq DEF Login!TypeOK, Login!Issued

\* The instance counts as FiniteSets does.
LEMMA CardinalityOfLogins == ASSUME NEW S PROVE Login!Cardinality(S) = Cardinality(S)
BY DEF Login!Cardinality, Cardinality

\* Pruning only drops (prunePendingAuth).
LEMMA PrunedIsPending == Login!Pruned \subseteq authPending
BY DEF Login!Pruned, Login!Bounded

\* Pruning keeps a login in good time when fewer than the bound were begun after it.
LEMMA PrunedKeepsTheLatest ==
  ASSUME LoginBounds, Login!TypeOK, NEW n \in authPending, ~Login!Expired(n), Len(issuedAt) - n < LoginBound
  PROVE  n \in Login!Pruned
<1> DEFINE live == {m \in authPending : ~Login!Expired(m)}
           later == {m \in live : m > n}
           after == (n + 1)..Len(issuedAt)
<1>1. Len(issuedAt) \in Nat /\ authPending \subseteq 1..Len(issuedAt) /\ n \in 1..Len(issuedAt)
  BY IssuedNumbers DEF Login!TypeOK
<1>2. later \subseteq after
  <2> SUFFICES ASSUME NEW m \in later PROVE m \in after
    OBVIOUS
  <2>1. m \in authPending /\ m > n
    OBVIOUS
  <2>2. m \in 1..Len(issuedAt)
    BY <1>1, <2>1
  <2> QED
    BY <1>1, <2>1, <2>2
<1>3. n + 1 \in Int /\ Len(issuedAt) \in Int
  BY <1>1
<1>4. /\ IsFiniteSet(after)
      /\ Cardinality(after) = IF n + 1 > Len(issuedAt) THEN 0 ELSE Len(issuedAt) - (n + 1) + 1
  BY <1>3, FS_Interval
<1>5. IsFiniteSet(later) /\ Cardinality(later) <= Cardinality(after)
  BY <1>2, <1>4, FS_Subset
<1>6. Cardinality(later) \in Nat
  BY <1>5, FS_CardinalityType
<1>7. Cardinality(later) < LoginBound
  BY <1>1, <1>4, <1>5, <1>6 DEF LoginBounds
<1>8. n \in live
  OBVIOUS
<1> QED
  BY <1>7, <1>8, CardinalityOfLogins DEF Login!Pruned, Login!Bounded

\* A credential goes over one account or behind the last; the others stay as they are
\* (upsertImportedAccount).
LEMMA OneAccountTakesTheCredential ==
  ASSUME Login!TypeOK, NEW email \in Emails \cup {NoEmail}, NEW n \in Login!Logins
  PROVE  LET after == Login!WithCredential(email, n)
         IN  /\ after \in Seq(LoginAccount)
             /\ \E k \in DOMAIN after :
                  /\ after[k].login = n
                  /\ \A j \in DOMAIN after \ {k} : j \in DOMAIN accounts /\ after[j] = accounts[j]
<1> DEFINE after == Login!WithCredential(email, n)
<1>1. accounts \in Seq(LoginAccount)
  BY DEF Login!TypeOK, LoginAccount
<1>2. Len(accounts) \in Nat /\ DOMAIN accounts = 1..Len(accounts)
  BY <1>1, LenProperties
<1>3. CASE Login!OfEmail(email) = {}
  <2> DEFINE new == [email |-> email, login |-> n]
  <2>1. new \in LoginAccount /\ after = Append(accounts, new)
    BY <1>3 DEF Login!WithCredential, LoginAccount
  <2>2. /\ after \in Seq(LoginAccount) /\ Len(after) = Len(accounts) + 1
        /\ \A i \in 1..Len(accounts) : after[i] = accounts[i]
        /\ after[Len(accounts) + 1] = new
    BY <1>1, <2>1, AppendProperties
  <2>3. DOMAIN after = 1..Len(accounts) + 1
    BY <2>2, LenProperties
  <2>4. Len(accounts) + 1 \in DOMAIN after /\ after[Len(accounts) + 1].login = n
    BY <1>2, <2>2, <2>3
  <2>5. \A j \in DOMAIN after \ {Len(accounts) + 1} : j \in DOMAIN accounts /\ after[j] = accounts[j]
    BY <1>2, <2>2, <2>3
  <2> QED
    BY <2>2, <2>4, <2>5
<1>4. CASE Login!OfEmail(email) # {}
  <2> DEFINE k == CHOOSE i \in Login!OfEmail(email) : TRUE
             new == [accounts[k] EXCEPT !.login = n]
  <2>1. k \in 1..Len(accounts)
    BY <1>2, <1>4 DEF Login!OfEmail
  <2>2. accounts[k] \in LoginAccount
    BY <1>1, <2>1, ElementOfSeq
  <2>3. new \in LoginAccount /\ new.login = n
    BY <2>2 DEF LoginAccount
  <2>4. after = [accounts EXCEPT ![k] = new]
    BY <1>4 DEF Login!WithCredential
  <2> HIDE DEF k, new
  <2>5. /\ after \in Seq(LoginAccount) /\ Len(after) = Len(accounts)
        /\ \A j \in 1..Len(accounts) : after[j] = IF j = k THEN new ELSE accounts[j]
    BY <1>1, <2>1, <2>3, <2>4, ExceptSeq
  <2>6. DOMAIN after = 1..Len(accounts)
    BY <2>5, LenProperties
  <2> QED
    BY <1>2, <2>1, <2>3, <2>5, <2>6
<1> QED
  BY <1>3, <1>4

-----------------------------------------------------------------------------
(* The inductive invariant.                                                 *)

\* Nothing is issued, pending or stored at the start.
LEMMA LoginInitIInv == LoginBounds /\ Login!Init => LoginIInv
<1> SUFFICES ASSUME LoginBounds, Login!Init PROVE LoginIInv
  OBVIOUS
<1>1. issuedAt = <<>> /\ accounts = <<>> /\ Len(issuedAt) = 0 /\ Login!Issued = {}
      /\ DOMAIN accounts = {} /\ authPending = {}
  BY DEF Login!Init, Login!Issued
<1>2. Login!TypeOK
  <2>1. issuedAt \in Seq(0..Clock) /\ accounts \in Seq([email: Emails \cup {NoEmail}, login: Login!Logins])
    BY <1>1
  <2>2. 0 \in 0..Clock /\ 0 \in 0..LastLogin
    BY DEF LoginBounds
  <2>3. callback \in [Callbacks -> [stage: {"idle", "exchanging", "saving"}, login: 0..LastLogin,
                                    email: Emails \cup {NoEmail}]]
    BY <2>2 DEF Login!Init, Login!Idle
  <2>4. exchanges \in [Login!Logins -> Nat]
    BY DEF Login!Init
  <2> QED
    BY <1>1, <2>1, <2>2, <2>3, <2>4 DEF Login!Init, Login!TypeOK
<1>3. UnusedUntilConsumed
  BY <1>1 DEF Login!Init, UnusedUntilConsumed, LoginBounds
<1>4. CallbackOwnsItsLogin
  BY DEF Login!Init, Login!Idle, LoginBusy, CallbackOwnsItsLogin
<1>5. CredentialIsStoredOnce /\ KeptInGoodTime
  BY <1>1 DEF CredentialIsStoredOnce, KeptInGoodTime
<1> QED
  BY <1>2, <1>3, <1>4, <1>5 DEF LoginIInv

\* A login that begins is pending, and drops none in good time but beyond the bound.
LEMMA LoginAuthUrlKeepsIInv ==
  ASSUME LoginBounds, LoginIInv, Login!AuthUrl
  PROVE  LoginIInv'
<1> DEFINE next == Len(issuedAt) + 1
<1>1. /\ Len(issuedAt) \in Nat /\ Login!Issued = 1..Len(issuedAt) /\ LastLogin \in Nat
      /\ next \in Login!Logins /\ next \notin Login!Issued /\ loginTick \in 0..Clock
      /\ issuedAt \in Seq(0..Clock) /\ authPending \subseteq Login!Issued
  BY IssuedNumbers DEF LoginIInv, Login!AuthUrl, Login!TypeOK, Login!Logins, LoginBounds
<1>2. /\ issuedAt' = Append(issuedAt, loginTick) /\ authPending' = Login!Pruned \cup {next}
      /\ UNCHANGED <<callback, exchanges, accounts, loginTick>>
  BY DEF Login!AuthUrl
<1>3. /\ issuedAt' \in Seq(0..Clock) /\ Len(issuedAt') = next
      /\ \A n \in Login!Issued : issuedAt'[n] = issuedAt[n]
  BY <1>1, <1>2, AppendProperties
<1>4. Login!Issued' = 1..next
  BY <1>3, LenProperties DEF Login!Issued
<1> HIDE DEF next
<1>5. Login!TypeOK'
  <2>1. Login!Issued \subseteq Login!Issued' /\ next \in Login!Issued'
    BY <1>1, <1>4 DEF next
  <2>2. authPending' \subseteq Login!Issued'
    BY <1>1, <1>2, <2>1, PrunedIsPending
  <2> QED
    BY <1>2, <1>3, <2>2 DEF LoginIInv, Login!TypeOK
<1>6. UnusedUntilConsumed'
  <2>1. Len(issuedAt') <= LastLogin
    BY <1>1, <1>3 DEF Login!Logins
  <2>2. ASSUME NEW n \in Login!Logins, n \in authPending' \/ n \notin Login!Issued' PROVE exchanges[n] = 0
    <3>1. n \in authPending \/ n \notin Login!Issued
      BY <2>2, <1>1, <1>2, <1>4, PrunedIsPending DEF next
    <3> QED
      BY <3>1 DEF LoginIInv, UnusedUntilConsumed
  <2>3. \A n \in Login!Logins : exchanges[n] \in {0, 1}
    BY DEF LoginIInv, UnusedUntilConsumed
  <2> QED
    BY <1>2, <2>1, <2>2, <2>3 DEF UnusedUntilConsumed
<1>7. CallbackOwnsItsLogin' /\ CredentialIsStoredOnce'
  BY <1>2 DEF LoginIInv, LoginBusy, CallbackOwnsItsLogin, CredentialIsStoredOnce
<1>8. KeptInGoodTime'
  <2> SUFFICES ASSUME NEW n \in Login!Issued', exchanges'[n] = 0, ~Login!Expired(n)',
                      Len(issuedAt') - n <= LoginBound
               PROVE  n \in authPending'
    BY DEF KeptInGoodTime
  <2>1. CASE n = next
    BY <1>2, <2>1
  <2>2. CASE n # next
    <3>1. n \in Login!Issued /\ n \in Nat
      BY <1>1, <1>4, <2>2 DEF next
    <3>2. ~Login!Expired(n) /\ exchanges[n] = 0
      BY <1>2, <1>3, <3>1 DEF Login!Expired
    <3>3. Len(issuedAt) - n < LoginBound
      BY <1>1, <1>3, <3>1 DEF next, LoginBounds
    <3>4. Len(issuedAt) - n <= LoginBound
      BY <1>1, <3>1, <3>3 DEF LoginBounds
    <3>5. n \in authPending
      BY <3>1, <3>2, <3>4 DEF LoginIInv, KeptInGoodTime
    <3>6. n \in Login!Pruned
      BY <3>2, <3>3, <3>5, PrunedKeepsTheLatest DEF LoginIInv
    <3> QED
      BY <1>2, <3>6
  <2> QED
    BY <2>1, <2>2
<1> QED
  BY <1>5, <1>6, <1>7, <1>8 DEF LoginIInv

\* A callback takes its authorization out of pending before it sends the code.
LEMMA LoginArriveKeepsIInv ==
  ASSUME LoginBounds, LoginIInv, NEW c \in Callbacks, NEW n \in Login!Logins, Login!Arrive(c, n)
  PROVE  LoginIInv'
<1> DEFINE taken == [stage |-> "exchanging", login |-> n, email |-> NoEmail]
<1>1. /\ n \in authPending /\ authPending' = authPending \ {n} /\ callback[c] = Login!Idle
      /\ callback' = [callback EXCEPT ![c] = taken]
      /\ exchanges' = [exchanges EXCEPT ![n] = @ + 1]
      /\ UNCHANGED <<issuedAt, accounts, loginTick>>
  BY DEF Login!Arrive, Login!Consumed
<1>2. exchanges[n] = 0
  BY <1>1 DEF LoginIInv, UnusedUntilConsumed
<1>3. \A m \in Login!Logins : exchanges'[m] = IF m = n THEN 1 ELSE exchanges[m]
  BY <1>1, <1>2 DEF LoginIInv, Login!TypeOK
<1>4. taken \in [stage: {"idle", "exchanging", "saving"}, login: 0..LastLogin,
                 email: Emails \cup {NoEmail}]
  BY DEF Login!Logins, LoginBounds
<1>5. \A d \in Callbacks : callback'[d] = IF d = c THEN taken ELSE callback[d]
  BY <1>1 DEF LoginIInv, Login!TypeOK
<1>6. Login!Issued' = Login!Issued /\ authPending \subseteq Login!Issued
  BY <1>1 DEF Login!Issued, LoginIInv, Login!TypeOK
<1>7. Login!TypeOK'
  <2>1. exchanges' \in [Login!Logins -> Nat]
    BY <1>1, <1>3 DEF LoginIInv, Login!TypeOK
  <2>2. callback' \in [Callbacks -> [stage: {"idle", "exchanging", "saving"},
                                     login: 0..LastLogin, email: Emails \cup {NoEmail}]]
    BY <1>1, <1>4 DEF LoginIInv, Login!TypeOK
  <2> QED
    BY <1>1, <1>6, <2>1, <2>2 DEF LoginIInv, Login!TypeOK
<1>8. UnusedUntilConsumed'
  BY <1>1, <1>3, <1>6 DEF LoginIInv, UnusedUntilConsumed
<1>9. \A d \in Callbacks : d # c /\ LoginBusy(d) => callback[d].login # n
  BY <1>2 DEF LoginIInv, CallbackOwnsItsLogin
<1>10. CallbackOwnsItsLogin'
  <2>1. \A d \in Callbacks : d # c => (LoginBusy(d)' <=> LoginBusy(d)) /\ callback'[d] = callback[d]
    BY <1>5 DEF LoginBusy
  <2>2. callback'[c].login = n /\ exchanges'[n] = 1
    BY <1>3, <1>5
  <2>3. ASSUME NEW d \in Callbacks, LoginBusy(d)'
        PROVE  callback'[d].login \in Login!Logins /\ exchanges'[callback'[d].login] = 1
    <3>1. CASE d = c
      BY <2>2, <3>1
    <3>2. CASE d # c
      BY <1>3, <2>1, <2>3, <3>2 DEF LoginIInv, CallbackOwnsItsLogin
    <3> QED
      BY <3>1, <3>2
  <2>4. ASSUME NEW d \in Callbacks, NEW e \in Callbacks, LoginBusy(d)', LoginBusy(e)',
               callback'[d].login = callback'[e].login
        PROVE  d = e
    <3>1. CASE d # c /\ e # c
      BY <2>1, <2>4, <3>1 DEF LoginIInv, CallbackOwnsItsLogin
    <3>2. CASE d = c \/ e = c
      BY <1>9, <2>1, <2>2, <2>4, <3>2
    <3> QED
      BY <3>1, <3>2
  <2> QED
    BY <2>3, <2>4 DEF CallbackOwnsItsLogin
<1>11. CredentialIsStoredOnce'
  <2>1. ASSUME NEW i \in DOMAIN accounts PROVE accounts[i].login \in Login!Logins
    <3>1. accounts \in Seq(LoginAccount)
      BY DEF LoginIInv, Login!TypeOK, LoginAccount
    <3>2. i \in 1..Len(accounts)
      BY <3>1, LenProperties
    <3>3. accounts[i] \in LoginAccount
      BY <3>1, <3>2, ElementOfSeq
    <3> QED
      BY <3>3 DEF LoginAccount
  <2>2. \A i \in DOMAIN accounts : accounts[i].login # n
    BY <1>2 DEF LoginIInv, CredentialIsStoredOnce
  <2>3. \A i \in DOMAIN accounts : exchanges'[accounts[i].login] = 1
    BY <1>3, <2>1, <2>2 DEF LoginIInv, CredentialIsStoredOnce
  <2>4. ASSUME NEW i \in DOMAIN accounts, NEW d \in Callbacks, LoginBusy(d)'
        PROVE  accounts[i].login # callback'[d].login
    <3>1. CASE d = c
      BY <1>5, <2>2, <3>1
    <3>2. CASE d # c
      BY <1>5, <2>4, <3>2 DEF LoginBusy, LoginIInv, CredentialIsStoredOnce
    <3> QED
      BY <3>1, <3>2
  <2> QED
    BY <1>1, <2>3, <2>4 DEF LoginIInv, CredentialIsStoredOnce
<1>12. KeptInGoodTime'
  <2> SUFFICES ASSUME NEW m \in Login!Issued, exchanges'[m] = 0, ~Login!Expired(m),
                      Len(issuedAt) - m <= LoginBound
               PROVE  m \in authPending'
    BY <1>1, <1>6 DEF KeptInGoodTime, Login!Expired
  <2>1. m \in Login!Logins
    BY IssuedNumbers DEF LoginIInv, UnusedUntilConsumed, Login!Logins, LoginBounds
  <2>2. m # n /\ exchanges[m] = 0
    BY <1>3, <2>1
  <2> QED
    BY <1>1, <2>2 DEF LoginIInv, KeptInGoodTime
<1> QED
  BY <1>7, <1>8, <1>10, <1>11, <1>12 DEF LoginIInv

\* The exchange ends, well or not: the callback goes on with its login, or is over.
LEMMA LoginExchangeStepKeepsIInv ==
  ASSUME LoginBounds, LoginIInv, NEW c \in Callbacks,
         NEW after \in [stage: {"idle", "exchanging", "saving"}, login: 0..LastLogin,
                        email: Emails \cup {NoEmail}],
         callback' = [callback EXCEPT ![c] = after],
         after.stage # "idle" => LoginBusy(c) /\ after.login = callback[c].login,
         UNCHANGED <<issuedAt, authPending, exchanges, accounts, loginTick>>
  PROVE  LoginIInv'
<1>1. \A d \in Callbacks : callback'[d] = IF d = c THEN after ELSE callback[d]
  BY DEF LoginIInv, Login!TypeOK
<1>2. \A d \in Callbacks : LoginBusy(d)' => LoginBusy(d) /\ callback'[d].login = callback[d].login
  BY <1>1 DEF LoginBusy
<1>3. Login!TypeOK'
  BY DEF LoginIInv, Login!TypeOK, Login!Issued
<1>4. UnusedUntilConsumed' /\ KeptInGoodTime'
  BY DEF LoginIInv, UnusedUntilConsumed, KeptInGoodTime, Login!Issued, Login!Expired
<1>5. CallbackOwnsItsLogin'
  BY <1>2 DEF LoginIInv, CallbackOwnsItsLogin
<1>6. CredentialIsStoredOnce'
  BY <1>2 DEF LoginIInv, CredentialIsStoredOnce
<1> QED
  BY <1>3, <1>4, <1>5, <1>6 DEF LoginIInv

\* A callback with nothing under way is a state a callback may be in.
LEMMA IdleIsACallback ==
  ASSUME LoginBounds
  PROVE  Login!Idle \in [stage: {"idle", "exchanging", "saving"}, login: 0..LastLogin,
                   email: Emails \cup {NoEmail}]
BY DEF Login!Idle, LoginBounds

\* The credential is stored, and the callback is over.
LEMMA LoginSaveKeepsIInv ==
  ASSUME LoginBounds, LoginIInv, NEW c \in Callbacks, Login!Save(c)
  PROVE  LoginIInv'
<1> DEFINE n == callback[c].login
           email == callback[c].email
<1>1. /\ accounts' = Login!WithCredential(email, n) /\ callback' = [callback EXCEPT ![c] = Login!Idle]
      /\ UNCHANGED <<issuedAt, authPending, exchanges, loginTick>> /\ LoginBusy(c)
  BY DEF Login!Save, LoginBusy
<1>2. n \in Login!Logins /\ exchanges[n] = 1 /\ email \in Emails \cup {NoEmail}
  BY <1>1 DEF LoginIInv, CallbackOwnsItsLogin, Login!TypeOK
<1> DEFINE OneTakes(after) ==
             /\ after \in Seq(LoginAccount)
             /\ \E k \in DOMAIN after :
                  /\ after[k].login = n
                  /\ \A j \in DOMAIN after \ {k} : j \in DOMAIN accounts /\ after[j] = accounts[j]
<1>a. OneTakes(Login!WithCredential(email, n))
  BY <1>2, OneAccountTakesTheCredential DEF LoginIInv
<1>b. OneTakes(accounts')
  BY <1>1, <1>a, Zenon
<1>3. PICK k \in DOMAIN accounts' :
        /\ accounts'[k].login = n
        /\ \A j \in DOMAIN accounts' \ {k} : j \in DOMAIN accounts /\ accounts'[j] = accounts[j]
  BY <1>b
<1>4. accounts' \in Seq(LoginAccount)
  BY <1>b
<1>5. \A d \in Callbacks : callback'[d] = IF d = c THEN Login!Idle ELSE callback[d]
  BY <1>1 DEF LoginIInv, Login!TypeOK
<1>6. \A d \in Callbacks : LoginBusy(d)' => d # c /\ LoginBusy(d) /\ callback'[d] = callback[d]
  BY <1>5 DEF LoginBusy, Login!Idle
<1>7. Login!TypeOK'
  <2>1. callback' \in [Callbacks -> [stage: {"idle", "exchanging", "saving"},
                                     login: 0..LastLogin, email: Emails \cup {NoEmail}]]
    BY <1>1, IdleIsACallback DEF LoginIInv, Login!TypeOK
  <2> QED
    BY <1>1, <1>4, <2>1 DEF LoginIInv, Login!TypeOK, Login!Issued, LoginAccount
<1>8. UnusedUntilConsumed' /\ KeptInGoodTime'
  BY <1>1 DEF LoginIInv, UnusedUntilConsumed, KeptInGoodTime, Login!Issued, Login!Expired
<1>9. CallbackOwnsItsLogin'
  BY <1>1, <1>6 DEF LoginIInv, CallbackOwnsItsLogin
<1>10. CredentialIsStoredOnce'
  <2>1. \A i \in DOMAIN accounts : accounts[i].login # n
    BY <1>1 DEF LoginIInv, CredentialIsStoredOnce
  <2>2. \A i \in DOMAIN accounts' : exchanges'[accounts'[i].login] = 1
    BY <1>1, <1>2, <1>3 DEF LoginIInv, CredentialIsStoredOnce
  <2>3. ASSUME NEW i \in DOMAIN accounts', NEW d \in Callbacks, LoginBusy(d)'
        PROVE  accounts'[i].login # callback'[d].login
    <3>1. callback[d].login # n
      BY <1>1, <1>6, <2>3 DEF LoginIInv, CallbackOwnsItsLogin
    <3>2. CASE i = k
      BY <1>3, <1>6, <2>3, <3>1, <3>2
    <3>3. CASE i # k
      BY <1>3, <1>6, <2>3, <3>3 DEF LoginIInv, CredentialIsStoredOnce
    <3> QED
      BY <3>2, <3>3
  <2>4. ASSUME NEW i \in DOMAIN accounts', NEW j \in DOMAIN accounts',
               accounts'[i].login = accounts'[j].login
        PROVE  i = j
    <3>1. CASE i # k /\ j # k
      BY <1>3, <2>4, <3>1 DEF LoginIInv, CredentialIsStoredOnce
    <3>2. CASE i = k \/ j = k
      BY <1>3, <2>1, <2>4, <3>2
    <3> QED
      BY <3>1, <3>2
  <2> QED
    BY <2>2, <2>3, <2>4 DEF CredentialIsStoredOnce
<1> QED
  BY <1>7, <1>8, <1>9, <1>10 DEF LoginIInv

\* What has expired stays expired.
LEMMA LoginTickKeepsIInv ==
  ASSUME LoginBounds, LoginIInv, Login!Tick
  PROVE  LoginIInv'
<1>1. loginTick' = loginTick + 1 /\ loginTick < Clock
      /\ UNCHANGED <<issuedAt, authPending, callback, exchanges, accounts>>
  BY DEF Login!Tick
<1>2. loginTick \in Nat /\ loginTick' \in 0..Clock
  BY <1>1 DEF LoginIInv, Login!TypeOK, LoginBounds
<1>3. Login!TypeOK'
  BY <1>1, <1>2 DEF LoginIInv, Login!TypeOK, Login!Issued
<1>4. UnusedUntilConsumed' /\ CallbackOwnsItsLogin' /\ CredentialIsStoredOnce'
  BY <1>1 DEF LoginIInv, UnusedUntilConsumed, CallbackOwnsItsLogin, CredentialIsStoredOnce,
              Login!Issued, LoginBusy
<1>5. KeptInGoodTime'
  <2> SUFFICES ASSUME NEW n \in Login!Issued, exchanges[n] = 0, ~Login!Expired(n)',
                      Len(issuedAt) - n <= LoginBound
               PROVE  n \in authPending
    BY <1>1 DEF KeptInGoodTime, Login!Issued
  <2>1. ~(issuedAt[n] + LoginTtl <= loginTick + 1)
    BY <1>1 DEF Login!Expired
  <2>2. issuedAt[n] \in Nat /\ LoginTtl \in Nat
    BY IssuedNumbers DEF LoginIInv, LoginBounds
  <2>3. ~(issuedAt[n] + LoginTtl <= loginTick)
    BY <1>2, <2>1, <2>2
  <2> QED
    BY <2>3 DEF LoginIInv, KeptInGoodTime, Login!Expired
<1> QED
  BY <1>3, <1>4, <1>5 DEF LoginIInv

\* Every step keeps the invariant.
LEMMA LoginNextKeepsIInv ==
  ASSUME LoginBounds, LoginIInv, [Login!Next]_(Login!vars)
  PROVE  LoginIInv'
<1>1. CASE Login!AuthUrl
  BY <1>1, LoginAuthUrlKeepsIInv
<1>2. ASSUME NEW c \in Callbacks, NEW n \in Login!Logins, Login!Arrive(c, n) PROVE LoginIInv'
  BY <1>2, LoginArriveKeepsIInv
<1>3. ASSUME NEW c \in Callbacks, NEW email \in Emails \cup {NoEmail}, Login!Exchanged(c, email)
      PROVE  LoginIInv'
  <2> DEFINE after == [callback[c] EXCEPT !.stage = "saving", !.email = email]
  <2>1. callback[c] \in [stage: {"idle", "exchanging", "saving"}, login: 0..LastLogin,
                         email: Emails \cup {NoEmail}]
    BY DEF LoginIInv, Login!TypeOK
  <2>2. /\ after \in [stage: {"idle", "exchanging", "saving"}, login: 0..LastLogin,
                       email: Emails \cup {NoEmail}]
        /\ after.login = callback[c].login
    BY <2>1
  <2>3. callback' = [callback EXCEPT ![c] = after]
    BY <1>3 DEF Login!Exchanged, LoginIInv, Login!TypeOK
  <2>4. LoginBusy(c) /\ UNCHANGED <<issuedAt, authPending, exchanges, accounts, loginTick>>
    BY <1>3 DEF Login!Exchanged, LoginBusy
  <2> HIDE DEF after
  <2> QED
    BY <2>2, <2>3, <2>4, LoginExchangeStepKeepsIInv
<1>4. ASSUME NEW c \in Callbacks, Login!ExchangeFails(c) \/ Login!SaveFails(c) PROVE LoginIInv'
  <2>1. /\ callback' = [callback EXCEPT ![c] = Login!Idle] /\ Login!Idle.stage = "idle"
        /\ UNCHANGED <<issuedAt, authPending, exchanges, accounts, loginTick>>
    BY <1>4 DEF Login!ExchangeFails, Login!SaveFails, Login!Idle
  <2> QED
    BY <2>1, IdleIsACallback, LoginExchangeStepKeepsIInv
<1>5. ASSUME NEW c \in Callbacks, Login!Save(c) PROVE LoginIInv'
  BY <1>5, LoginSaveKeepsIInv
<1>6. CASE Login!Tick
  BY <1>6, LoginTickKeepsIInv
<1>7. CASE UNCHANGED Login!vars
  BY <1>7 DEF Login!vars, LoginIInv, Login!TypeOK, UnusedUntilConsumed, CallbackOwnsItsLogin,
              CredentialIsStoredOnce, KeptInGoodTime, Login!Issued, LoginBusy, Login!Expired
<1> QED
  BY <1>1, <1>2, <1>3, <1>4, <1>5, <1>6, <1>7 DEF Login!Next

-----------------------------------------------------------------------------

\* Every variable keeps its type: in particular only what is issued is pending.
THEOREM LoginsTypeCorrect ==
  ASSUME LoginBounds
  PROVE  Login!Spec => []Login!TypeOK
<1>1. LoginIInv => Login!TypeOK
  BY DEF LoginIInv
<1> QED
  BY <1>1, LoginInitIInv, LoginNextKeepsIInv, PTL DEF Login!Spec

\* However many callbacks arrive for an authorization, at once or later, its code goes to
\* Google once and its credential to at most one account; and a login in good time is
\* still pending when at most as many as the bound were begun after it.
THEOREM LoginsSafe ==
  ASSUME LoginBounds
  PROVE  Login!Spec => []Login!LoginsWorkOnce
<1>1. ASSUME LoginIInv PROVE Login!LoginsWorkOnce
  <2>1. \A n \in Login!Issued : n \in Login!Logins
    BY <1>1, IssuedNumbers DEF LoginIInv, UnusedUntilConsumed, Login!Logins, LoginBounds
  <2>2. \A n \in Login!Issued : exchanges[n] <= 1
    <3> TAKE n \in Login!Issued
    <3>1. exchanges[n] \in {0, 1}
      BY <1>1, <2>1 DEF LoginIInv, UnusedUntilConsumed
    <3> QED
      BY <3>1
  <2> QED
    BY <1>1, <2>2 DEF LoginIInv, KeptInGoodTime, CredentialIsStoredOnce, Login!LoginsWorkOnce
<1> QED
  BY <1>1, LoginInitIInv, LoginNextKeepsIInv, PTL DEF Login!Spec

-----------------------------------------------------------------------------
(* The process: one part moves in a behaviour, so that each part behaves as *)
(* its own specification says and keeps its properties.                     *)

\* The constants of all parts are of the kind the code gives them.
ProcessBounds == ListBounds /\ Durations /\ FeedBounds /\ LoginBounds

\* The ledger moves by its own steps or keeps still.
LEMMA LedgerMovesByItself ==
  /\ AllInit => Init
  /\ [AllNext]_allVars => [Next]_vars
<1>1. AllInit => Init
  BY DEF AllInit
<1>2. [AllNext]_allVars => [Next]_vars
  BY Zenon DEF AllNext, allVars
<1> QED
  BY <1>1, <1>2

\* So does the model list.
LEMMA ListMovesByItself == AllSpec => List!Spec
<1>1. AllInit => List!Init
  BY DEF AllInit
<1>2. [AllNext]_allVars => [List!Next]_(List!vars)
  BY Zenon DEF AllNext, allVars, listVars, List!vars
<1> QED
  BY <1>1, <1>2, PTL DEF AllSpec, List!Spec

\* So does the verdict on the proxy.
LEMMA ProxyMovesByItself == AllSpec => Proxy!Spec
<1>1. AllInit => Proxy!Init
  BY DEF AllInit
<1>2. [AllNext]_allVars => [Proxy!Next]_(Proxy!vars)
  BY Zenon DEF AllNext, allVars, proxyVars, Proxy!vars
<1> QED
  BY <1>1, <1>2, PTL DEF AllSpec, Proxy!Spec

\* So does the advertised version.
LEMMA FeedMovesByItself == AllSpec => Feed!Spec
<1>1. AllInit => Feed!Init
  BY DEF AllInit
<1>2. [AllNext]_allVars => [Feed!Next]_(Feed!vars)
  BY Zenon DEF AllNext, allVars, feedVars, Feed!vars
<1> QED
  BY <1>1, <1>2, PTL DEF AllSpec, Feed!Spec

\* So do the logins.
LEMMA LoginsMoveByThemselves == AllSpec => Login!Spec
<1>1. AllInit => Login!Init
  BY DEF AllInit
<1>2. [AllNext]_allVars => [Login!Next]_(Login!vars)
  BY Zenon DEF AllNext, allVars, loginVars, Login!vars
<1> QED
  BY <1>1, <1>2, PTL DEF AllSpec, Login!Spec

\* Every variable of every part keeps its type: no backlog of the ledger outgrows its cap,
\* a discovery is for an account, and only an authorization that was issued is pending.
THEOREM ProcessTypesAreCorrect ==
  ASSUME ProcessBounds
  PROVE  AllSpec => []AllTypesOK
<1>1. AllSpec => []TypeOK
  BY LedgerMovesByItself, InitType, NextType, PTL DEF AllSpec
<1>2. AllSpec => []List!TypeOK
  BY ListMovesByItself, ListTypeCorrect DEF ProcessBounds
<1>3. AllSpec => []Proxy!TypeOK
  BY ProxyMovesByItself, ProxyTypeCorrect DEF ProcessBounds
<1>4. AllSpec => []Feed!TypeOK
  BY FeedMovesByItself, FeedTypeCorrect DEF ProcessBounds
<1>5. AllSpec => []Login!TypeOK
  BY LoginsMoveByThemselves, LoginsTypeCorrect DEF ProcessBounds
<1>6. TypeOK /\ List!TypeOK /\ Proxy!TypeOK /\ Feed!TypeOK /\ Login!TypeOK => AllTypesOK
  BY DEF AllTypesOK
<1> QED
  BY <1>1, <1>2, <1>3, <1>4, <1>5, <1>6, PTL

\* As long as the account has not changed unnoticed, or during a discovery, what is cached
\* is the active account's list or the built-in one, however stale the rest is: dropping
\* the list at an activation or a rotation is enough outside a discovery.
THEOREM QuietSwitchesAreSafe ==
  ASSUME ProcessBounds
  PROVE  AllSpec => []QuietSwitchesDropTheList
BY ListMovesByItself, ListSafe DEF ProcessBounds, QuietSwitchesDropTheList

\* A request is refused or sent only when the proxy was in that state within the verdict's
\* lifetime and a check's time-out.
THEOREM VerdictsStayRecent ==
  ASSUME ProcessBounds
  PROVE  AllSpec => VerdictsAreRecent
BY ProxyMovesByItself, ProxySafe DEF ProcessBounds, VerdictsAreRecent

\* Whatever order fetches, failures, time-outs and peeks come in, and however often the
\* feed falls back to an older release, User-Agents carry the newest release it has told.
THEOREM AdvertisedStaysNewest ==
  ASSUME ProcessBounds
  PROVE  AllSpec => []AdvertisedIsTheNewestSeen
BY FeedMovesByItself, FeedSafe DEF ProcessBounds, AdvertisedIsTheNewestSeen

\* However many callbacks arrive for an authorization, at once or later, its code goes to
\* Google once and its credential to at most one account; and a login in good time is
\* still pending when at most as many as the bound were begun after it.
THEOREM LoginsAreGoodOnce ==
  ASSUME ProcessBounds
  PROVE  AllSpec => []LoginsWorkOnce
BY LoginsMoveByThemselves, LoginsSafe DEF ProcessBounds, LoginsWorkOnce
=============================================================================
