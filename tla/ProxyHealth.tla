------------------------------ MODULE ProxyHealth ------------------------------
(***************************************************************************)
(* proxiedFetch for one proxy URL: before a request of an account that is   *)
(* bound to the proxy, isProxyReachable opens a TCP connection to it, and   *)
(* refuses the request at once when that fails.  Verdicts are remembered    *)
(* for a while, a bad one for less long than a good one, and whoever asks   *)
(* during a check joins it.                                                *)
(*                                                                         *)
(* The proxy itself, the target and the requests of accounts without a     *)
(* proxy are outside; so is the cache of dispatchers, which are stateless.  *)
(***************************************************************************)
EXTENDS Naturals

CONSTANTS
  Fetches,        \* proxied requests and explicit proxy tests
  HealthyTtl,     \* HEALTHY_TTL_MS, in ticks
  UnhealthyTtl,   \* UNHEALTHY_TTL_MS
  CheckTimeout,   \* FAST_FAIL_TIMEOUT_MS
  LastTick        \* bound on the clock

VARIABLES
  up,        \* whether the proxy accepts connections
  health,    \* healthCache: no verdict, or one with the time it was stored
  check,     \* healthInflight: no check, or when it began and what it may have met
  fetch,     \* where each request is
  tick,
  lastUp,    \* when the proxy was last seen up by the clock, and last down
  lastDown

vars == <<up, health, check, fetch, tick, lastUp, lastDown>>

NoVerdict == [known |-> FALSE, healthy |-> FALSE, at |-> 0]
NoCheck == [running |-> FALSE, since |-> 0, met |-> {}]

Init ==
  /\ up \in BOOLEAN
  /\ health = NoVerdict
  /\ check = NoCheck
  /\ fetch = [f \in Fetches |-> "idle"]
  /\ tick = HealthyTtl + CheckTimeout
  /\ lastUp = IF up THEN tick ELSE 0
  /\ lastDown = IF up THEN 0 ELSE tick

Ttl(healthy) == IF healthy THEN HealthyTtl ELSE UnhealthyTtl
FreshForTheLonger(verdict) == verdict.known /\ tick < verdict.at + Ttl(TRUE)
IsFresh(verdict) == verdict.known /\ tick < verdict.at + Ttl(verdict.healthy)

\* fail closed: an unreachable proxy is never replaced by the direct route
AfterVerdict(healthy) == IF healthy THEN "sending" ELSE "refused"

\* isProxyReachable: the remembered verdict, the check under way, or a new one
Ask(f) ==
  /\ fetch[f] = "idle"
  /\ IF IsFresh(health)
       THEN fetch' = [fetch EXCEPT ![f] = AfterVerdict(health.healthy)] /\ UNCHANGED check
       ELSE /\ fetch' = [fetch EXCEPT ![f] = "checking"]
            /\ check' = IF check.running THEN check
                        ELSE [running |-> TRUE, since |-> tick, met |-> {up}]
  /\ UNCHANGED <<up, health, tick, lastUp, lastDown>>

\* connected, refused, or timed out: stored, and told to everyone who waits
CheckEnds ==
  /\ check.running
  /\ \E healthy \in check.met :
       /\ health' = [known |-> TRUE, healthy |-> healthy, at |-> tick]
       /\ fetch' = [f \in Fetches |-> IF fetch[f] = "checking" THEN AfterVerdict(healthy)
                                      ELSE fetch[f]]
  /\ check' = NoCheck
  /\ UNCHANGED <<up, tick, lastUp, lastDown>>

\* through the dispatcher of the proxy; an error on the way is tagged PROXY_UNREACHABLE
\* and tells the verdict nothing
FetchEnds(f) ==
  /\ fetch[f] \in {"sending", "refused"}
  /\ fetch' = [fetch EXCEPT ![f] = "idle"]
  /\ UNCHANGED <<up, health, check, tick, lastUp, lastDown>>

\* external
Flip ==
  /\ up' = ~up
  /\ check' = IF check.running THEN [check EXCEPT !.met = @ \cup {up'}] ELSE check
  /\ lastUp' = IF up' THEN tick ELSE lastUp
  /\ lastDown' = IF up' THEN lastDown ELSE tick
  /\ UNCHANGED <<health, fetch, tick>>

\* the socket's timeout ends a check in time
Tick ==
  /\ tick < LastTick
  /\ check.running => tick < check.since + CheckTimeout
  /\ tick' = tick + 1
  /\ lastUp' = IF up THEN tick' ELSE lastUp
  /\ lastDown' = IF up THEN lastDown ELSE tick'
  /\ UNCHANGED <<up, health, check, fetch>>

Next == (\E f \in Fetches : Ask(f) \/ FetchEnds(f)) \/ CheckEnds \/ Flip \/ Tick

Spec == Init /\ [][Next]_vars

-----------------------------------------------------------------------------
(* Properties.                                                              *)

TypeOK ==
  /\ up \in BOOLEAN
  /\ health \in [known: BOOLEAN, healthy: BOOLEAN, at: 0..LastTick]
  /\ check \in [running: BOOLEAN, since: 0..LastTick, met: SUBSET BOOLEAN]
  /\ fetch \in [Fetches -> {"idle", "checking", "sending", "refused"}]
  /\ {tick, lastUp, lastDown} \subseteq 0..LastTick

\* A verdict is never older than its kind allows: a request is refused only when the
\* proxy was down within the short lifetime and the time a check takes (a proxy that has
\* come back is used again), and sent only when it was up within the long one.
VerdictsAreRecent ==
  [][\A f \in Fetches :
       /\ fetch[f] # "refused" /\ fetch'[f] = "refused" =>
            lastDown + UnhealthyTtl + CheckTimeout > tick
       /\ fetch[f] # "sending" /\ fetch'[f] = "sending" =>
            lastUp + HealthyTtl + CheckTimeout > tick]_vars
=============================================================================
