------------------------- MODULE TokenRefresh_proofs -------------------------
(***************************************************************************)
(* Proofs about TokenRefresh, for any number of callers, logins and any    *)
(* token lifetime longer than the longest wait for the endpoint.           *)
(***************************************************************************)
EXTENDS TokenRefresh, TLAPS

\* What is known of the client id is never forgotten, and every copy of the
\* account, in a caller's hands or in a refresh, is of a state it went through.
KnownIsKept ==
  /\ \A c \in Callers : copy[c].known => cred.known
  /\ \A f \in Callers : flight[f].known => cred.known
  /\ cache # NoToken => cred.known

\* A refresh is never older than the longest wait, and the token it has been issued
\* counts its life from the asking.
FlightsAreYoung ==
  \A f \in Flying :
    /\ now <= flight[f].since + MaxWait
    /\ flight[f].step = "saving" =>
         /\ flight[f].fresh.gen \in Gens
         /\ flight[f].fresh.expires = flight[f].since + Life

LEMMA TypeInit == Init => TypeOK
  BY LegacyAssumption, TimesAssumption
     DEF Init, TypeOK, Gens, Token, NoToken, Refresh, Grounded, NoCopy, Flying

\* A refresh that sets out with a copy of the account.
LEMMA DepartType ==
  ASSUME TypeOK, NEW c \in Callers, pc[c] = "loaded", Depart(c)
  PROVE  /\ slot' \in Callers \cup {NoCaller}
         /\ flight' \in [Callers -> Refresh]
         /\ \A f \in Callers : flight'[f].step # "idle" => flight'[f].gen \in Gens
<1> DEFINE new == [step |-> "asking", gen |-> AsksWith(c), known |-> copy[c].known,
                   since |-> now, cached |-> cache, fresh |-> NoToken]
<1>1. copy[c].gen \in Gens /\ copy[c].gen \in Nat /\ copy[c].known \in BOOLEAN
  BY TimesAssumption DEF TypeOK, Gens
<1>2. new \in Refresh
  BY <1>1 DEF TypeOK, Refresh, AsksWith
<1>3. flight' = [flight EXCEPT ![c] = new] /\ slot' = c
  BY DEF Depart
<1>4. new.gen \in Gens
  BY <1>1 DEF AsksWith
<1> HIDE DEF new
<1> QED
  BY <1>2, <1>3, <1>4 DEF TypeOK, Flying

\* A refresh that ends, whatever its callers are told.
LEMMA SettleType ==
  ASSUME TypeOK, NEW f \in Callers, NEW t \in Token \cup {NoToken},
         NEW outcome \in {"served", "failed", "revoked"}, Settle(f, outcome, t)
  PROVE  /\ now' \in Nat /\ alive' \subseteq Gens
         /\ slot' \in Callers \cup {NoCaller}
         /\ flight' \in [Callers -> Refresh]
         /\ \A g \in Callers : flight'[g].step # "idle" => flight'[g].gen \in Gens
         /\ pc' \in [Callers -> {"idle", "loaded", "waiting", "served", "failed", "revoked"}]
         /\ copy' \in [Callers -> [gen: Nat, known: BOOLEAN]]
         /\ \A c \in Callers : pc'[c] = "loaded" => copy'[c].gen \in Gens
         /\ on' \in [Callers -> Callers \cup {NoCaller}]
         /\ got' \in [Callers -> Token \cup {NoToken}]
<1>1. Grounded \in Refresh /\ Grounded.step = "idle"
  BY DEF Grounded, Refresh
<1>2. flight' \in [Callers -> Refresh]
      /\ \A g \in Callers : flight'[g].step # "idle" => flight'[g].gen \in Gens
  BY <1>1 DEF Settle, TypeOK, Flying
<1>3. /\ now' \in Nat /\ alive' \subseteq Gens /\ slot' \in Callers \cup {NoCaller}
      /\ copy' \in [Callers -> [gen: Nat, known: BOOLEAN]]
      /\ pc' \in [Callers -> {"idle", "loaded", "waiting", "served", "failed", "revoked"}]
      /\ \A c \in Callers : pc'[c] = "loaded" => copy'[c].gen \in Gens
  BY DEF Settle, TypeOK
<1>4. on' \in [Callers -> Callers \cup {NoCaller}] /\ got' \in [Callers -> Token \cup {NoToken}]
  BY DEF Settle, TypeOK
<1> QED
  BY <1>2, <1>3, <1>4

LEMMA TypeStep == TypeOK /\ [Next]_vars => TypeOK'
<1> SUFFICES ASSUME TypeOK, [Next]_vars PROVE TypeOK'
  OBVIOUS
<1> USE DEF callVars
<1>1. ASSUME NEW c \in Callers, CallerStep(c) PROVE TypeOK'
  <2>1. CASE Load(c)
    BY <2>1, TimesAssumption DEF Load, TypeOK, Gens, Flying
  <2>2. CASE UseCached(c)
    <3>1. slot' \in Callers \cup {NoCaller} /\ flight' \in [Callers -> Refresh]
          /\ \A f \in Callers : flight'[f].step # "idle" => flight'[f].gen \in Gens
      BY <2>2, DepartType DEF UseCached, TypeOK, Flying
    <3>2. /\ cache \in Token \cup {NoToken}
          /\ now' = now /\ cred' = cred /\ alive' = alive /\ cache' = cache /\ copy' = copy /\ on' = on
      BY <2>2 DEF UseCached, TypeOK
    <3>3. /\ pc' \in [Callers -> {"idle", "loaded", "waiting", "served", "failed", "revoked"}]
          /\ \A d \in Callers : pc'[d] = "loaded" => copy'[d].gen \in Gens
          /\ got' \in [Callers -> Token \cup {NoToken}]
      BY <2>2, <3>2 DEF UseCached, Answered, TypeOK
    <3> QED
      BY <3>1, <3>2, <3>3 DEF TypeOK, Flying
  <2>3. CASE AwaitRefresh(c)
    <3>1. slot' \in Callers \cup {NoCaller} /\ flight' \in [Callers -> Refresh]
          /\ \A f \in Callers : flight'[f].step # "idle" => flight'[f].gen \in Gens
      BY <2>3, DepartType DEF AwaitRefresh, TypeOK, Flying
    <3>2. /\ now' = now /\ cred' = cred /\ alive' = alive /\ cache' = cache /\ copy' = copy /\ got' = got
          /\ on' \in [Callers -> Callers \cup {NoCaller}]
      BY <2>3 DEF AwaitRefresh, TypeOK
    <3>3. /\ pc' \in [Callers -> {"idle", "loaded", "waiting", "served", "failed", "revoked"}]
          /\ \A d \in Callers : pc'[d] = "loaded" => copy'[d].gen \in Gens
      BY <2>3, <3>2 DEF AwaitRefresh, TypeOK
    <3> QED
      BY <3>1, <3>2, <3>3 DEF TypeOK, Flying
  <2>4. CASE Leave(c)
    BY <2>4 DEF Leave, TypeOK, NoCopy, Flying
  <2>5. CASE ReportRevoked(c)
    BY <2>5 DEF ReportRevoked, TypeOK, NoCopy, Flying
  <2> QED
    BY <1>1, <2>1, <2>2, <2>3, <2>4, <2>5 DEF CallerStep
<1>2. ASSUME NEW f \in Callers, FlightStep(f) PROVE TypeOK'
  <2>0. NoToken \in Token \cup {NoToken} /\ flight[f] \in Refresh
    BY DEF TypeOK
  <2>1. CASE RefreshSucceeds(f)
    <3> DEFINE t == [gen |-> flight[f].gen, expires |-> flight[f].since + Life]
    <3>1. t \in Token
      BY <2>0, <2>1, TimesAssumption DEF RefreshSucceeds, TypeOK, Token, Refresh
    <3>2. CASE flight[f].known
      <4>1. cache' = t /\ Settle(f, "served", t) /\ cred' = cred
        BY <2>1, <3>2 DEF RefreshSucceeds
      <4> HIDE DEF t
      <4> QED
        BY <3>1, <4>1, SettleType DEF TypeOK, Flying
    <3>3. CASE ~flight[f].known
      <4> DEFINE new == [flight[f] EXCEPT !.step = "saving", !.fresh = t]
      <4>1. /\ flight' = [flight EXCEPT ![f] = new]
            /\ UNCHANGED <<now, cred, alive, slot, pc, copy, on, got, cache>>
        BY <2>1, <3>3 DEF RefreshSucceeds, CachedBeforeSave
      <4>2. new \in Refresh
        BY <2>0, <3>1 DEF Refresh
      <4>3. new.gen \in Gens
        BY <2>0, <2>1 DEF RefreshSucceeds, TypeOK, Refresh
      <4> HIDE DEF new
      <4> QED
        BY <4>1, <4>2, <4>3 DEF TypeOK, Flying
    <3> QED
      BY <3>2, <3>3
  <2>2. CASE SaveClientId(f)
    <3>1. flight[f].fresh \in Token \cup {NoToken}
      BY <2>0 DEF Refresh
    <3> QED
      BY <2>2, <3>1, SettleType DEF SaveClientId, TypeOK, Flying
  <2>3. CASE SaveClientIdFails(f)
    BY <2>0, <2>3, SettleType DEF SaveClientIdFails, TypeOK, Flying
  <2>4. CASE RefreshFails(f)
    <3>1. flight[f].cached \in Token \cup {NoToken}
      BY <2>0 DEF Refresh
    <3>2. \E t \in Token \cup {NoToken}, outcome \in {"served", "failed", "revoked"} :
            Settle(f, outcome, t)
      BY <2>0, <2>4, <3>1 DEF RefreshFails
    <3> QED
      BY <2>4, <3>2, SettleType DEF RefreshFails, TypeOK, Flying
  <2>5. CASE RefreshRejected(f)
    <3> DEFINE new == [flight[f] EXCEPT !.step = "disabling"]
    <3>1. /\ flight' = [flight EXCEPT ![f] = new] /\ cache' = NoToken
          /\ UNCHANGED <<now, cred, alive, slot, pc, copy, on, got>>
      BY <2>5 DEF RefreshRejected
    <3>2. new \in Refresh
      BY <2>0 DEF Refresh
    <3>3. new.gen \in Gens
      BY <2>0, <2>5 DEF RefreshRejected, TypeOK, Flying, Refresh
    <3> HIDE DEF new
    <3> QED
      BY <3>1, <3>2, <3>3 DEF TypeOK, Flying
  <2>6. CASE Disable(f)
    BY <2>0, <2>6, SettleType DEF Disable, TypeOK, Flying
  <2>7. CASE DisableFails(f)
    BY <2>0, <2>7, SettleType DEF DisableFails, TypeOK, Flying
  <2> QED
    BY <1>2, <2>1, <2>2, <2>3, <2>4, <2>5, <2>6, <2>7 DEF FlightStep
<1>3. CASE Relogin
  <2>1. cred.gen \in 1 .. LastGen /\ cred.gen + 1 \in Gens
    BY <1>3, TimesAssumption DEF Relogin, TypeOK, Gens
  <2>2. cred' \in [present: BOOLEAN, enabled: BOOLEAN, gen: Gens, known: BOOLEAN]
    BY <1>3, <2>1 DEF Relogin, TypeOK
  <2> QED
    BY <1>3, <2>1, <2>2 DEF Relogin, TypeOK, Flying
<1>4. CASE Delete
  BY <1>4 DEF Delete, TypeOK, Flying
<1>5. ASSUME NEW g \in Gens, RevokedAtGoogle(g) PROVE TypeOK'
  BY <1>5 DEF RevokedAtGoogle, TypeOK, Flying
<1>6. CASE Tick
  BY <1>6 DEF Tick, TypeOK, Flying
<1>7. CASE UNCHANGED vars
  BY <1>7 DEF vars, TypeOK, Flying
<1> QED
  BY <1>1, <1>2, <1>3, <1>4, <1>5, <1>6, <1>7 DEF Next

\* The variables keep their shapes, and no refresh asks with a credential that was
\* never loaded (refreshToken is only called with an account of the document).
THEOREM TypeCorrect == Spec => []TypeOK
<1> QED
  BY TypeInit, TypeStep, PTL DEF Spec

-----------------------------------------------------------------------------
(* One refresh at a time.                                                   *)

LEMMA SingleFlightStep ==
  ASSUME TypeOK, OneRefreshAtATime, [Next]_vars
  PROVE  OneRefreshAtATime'
<1> USE CallersAssumption
<1>1. ASSUME NEW f \in Callers, NEW t, NEW outcome, Settle(f, outcome, t), flight[f].step # "idle"
      PROVE  OneRefreshAtATime'
  BY <1>1 DEF Settle, OneRefreshAtATime, Flying, Grounded, TypeOK
<1>2. ASSUME NEW c \in Callers, Depart(c), ~Joinable PROVE OneRefreshAtATime'
  BY <1>2 DEF Depart, Joinable, OneRefreshAtATime, Flying, TypeOK
<1>3. ASSUME UNCHANGED <<slot, flight>> PROVE OneRefreshAtATime'
  BY <1>3 DEF OneRefreshAtATime, Flying
<1>4. ASSUME NEW c \in Callers, CallerStep(c) PROVE OneRefreshAtATime'
  BY <1>2, <1>3, <1>4 DEF CallerStep, Load, UseCached, AwaitRefresh, Leave, ReportRevoked
<1>5. ASSUME NEW f \in Callers, FlightStep(f) PROVE OneRefreshAtATime'
  <2>1. CASE RefreshSucceeds(f) /\ flight[f].known
    BY <1>1, <2>1 DEF RefreshSucceeds
  <2>2. CASE RefreshSucceeds(f) /\ ~flight[f].known
    BY <2>2 DEF RefreshSucceeds, OneRefreshAtATime, Flying, TypeOK, Refresh
  <2>3. CASE RefreshRejected(f)
    BY <2>3 DEF RefreshRejected, OneRefreshAtATime, Flying, TypeOK, Refresh
  <2>4. CASE SaveClientId(f) \/ SaveClientIdFails(f) \/ RefreshFails(f) \/ Disable(f) \/ DisableFails(f)
    BY <1>1, <2>4 DEF SaveClientId, SaveClientIdFails, RefreshFails, Disable, DisableFails
  <2> QED
    BY <1>5, <2>1, <2>2, <2>3, <2>4 DEF FlightStep
<1>6. CASE Relogin \/ Delete \/ (\E g \in Gens : RevokedAtGoogle(g)) \/ Tick \/ UNCHANGED vars
  BY <1>3, <1>6 DEF Relogin, Delete, RevokedAtGoogle, Tick, vars
<1> QED
  BY <1>4, <1>5, <1>6 DEF Next

\* refreshToken is single-flight: there are never two refreshes of an account at
\* once, and refreshInFlight names the one there is.
THEOREM SingleFlight == Spec => []OneRefreshAtATime
<1>1. Init => OneRefreshAtATime
  BY CallersAssumption DEF Init, OneRefreshAtATime, Flying, Grounded
<1>2. TypeOK /\ OneRefreshAtATime /\ [Next]_vars => OneRefreshAtATime'
  BY SingleFlightStep
<1> QED
  BY <1>1, <1>2, TypeCorrect, PTL DEF Spec

-----------------------------------------------------------------------------
(* The cache follows the disk.                                              *)

LEMMA KnownStep ==
  ASSUME TypeOK, KnownIsKept, [Next]_vars
  PROVE  KnownIsKept'
<1>1. ASSUME NEW f \in Callers, NEW t, NEW outcome, Settle(f, outcome, t), cred'.known = cred.known
      PROVE  /\ \A c \in Callers : copy'[c].known => cred'.known
             /\ \A g \in Callers : flight'[g].known => cred'.known
  BY <1>1 DEF Settle, KnownIsKept, Grounded, TypeOK
<1>2. ASSUME NEW c \in Callers, Depart(c), UNCHANGED cred
      PROVE  \A g \in Callers : flight'[g].known => cred'.known
  BY <1>2 DEF Depart, KnownIsKept, TypeOK
<1>3. ASSUME NEW c \in Callers, CallerStep(c) PROVE KnownIsKept'
  <2>1. CASE Load(c)
    BY <2>1 DEF Load, KnownIsKept, TypeOK
  <2>2. CASE UseCached(c) \/ AwaitRefresh(c)
    BY <1>2, <2>2 DEF UseCached, AwaitRefresh, KnownIsKept
  <2>3. CASE Leave(c) \/ ReportRevoked(c)
    BY <2>3 DEF Leave, ReportRevoked, KnownIsKept, TypeOK, NoCopy, NoToken
  <2> QED
    BY <1>3, <2>1, <2>2, <2>3 DEF CallerStep
<1>4. ASSUME NEW f \in Callers, FlightStep(f) PROVE KnownIsKept'
  <2>1. CASE RefreshSucceeds(f) /\ flight[f].known
    BY <1>1, <2>1 DEF RefreshSucceeds, KnownIsKept
  <2>2. CASE RefreshSucceeds(f) /\ ~flight[f].known
    BY <2>2 DEF RefreshSucceeds, CachedBeforeSave, KnownIsKept, TypeOK, Refresh, callVars
  <2>3. CASE SaveClientId(f)
    <3>1. cred'.known
      BY <2>3 DEF SaveClientId, TypeOK
    <3> QED
      BY <3>1 DEF KnownIsKept
  <2>4. CASE RefreshRejected(f)
    BY <2>4 DEF RefreshRejected, KnownIsKept, TypeOK, Refresh, callVars
  <2>5. CASE SaveClientIdFails(f) \/ RefreshFails(f) \/ DisableFails(f)
    BY <1>1, <2>5 DEF SaveClientIdFails, RefreshFails, DisableFails, KnownIsKept
  <2>6. CASE Disable(f)
    <3>1. cred'.known = cred.known /\ UNCHANGED cache
      BY <2>6 DEF Disable, TypeOK
    <3> QED
      BY <1>1, <2>6, <3>1 DEF Disable, KnownIsKept
  <2> QED
    BY <1>4, <2>1, <2>2, <2>3, <2>4, <2>5, <2>6 DEF FlightStep
<1>5. CASE Relogin
  BY <1>5 DEF Relogin, KnownIsKept, TypeOK, callVars
<1>6. CASE Delete
  BY <1>6 DEF Delete, KnownIsKept, TypeOK, callVars
<1>7. CASE (\E g \in Gens : RevokedAtGoogle(g)) \/ Tick \/ UNCHANGED vars
  BY <1>7 DEF RevokedAtGoogle, Tick, vars, callVars, KnownIsKept
<1> QED
  BY <1>3, <1>4, <1>5, <1>6, <1>7 DEF Next

\* "Cache token strictly AFTER disk persistence has succeeded": a cached token means
\* that the client id it was issued to has been written to the account.
THEOREM CacheIsBackedByDisk == Spec => []CacheFollowsDisk
<1>1. Init => KnownIsKept
  BY DEF Init, KnownIsKept, NoCopy, Grounded
<1>2. TypeOK /\ KnownIsKept /\ [Next]_vars => KnownIsKept'
  BY KnownStep
<1>3. KnownIsKept => CacheFollowsDisk
  BY DEF KnownIsKept, CacheFollowsDisk
<1> QED
  BY <1>1, <1>2, <1>3, TypeCorrect, PTL DEF Spec

-----------------------------------------------------------------------------
(* Tokens that are served are live.                                         *)

\* A token issued to a refresh within the longest wait is good for a while yet.
LEMMA FreshTokenIsLive ==
  ASSUME TypeOK, NEW t \in Token, NEW since \in Nat, now <= since + MaxWait, t.expires = since + Life
  PROVE  ~Expired(t)
<1>1. t # NoToken
  BY DEF Token, NoToken, Gens
<1>2. ~(since + Life <= now + Buffer)
  BY TimesAssumption, LifeAssumption DEF TypeOK
<1> QED
  BY <1>1, <1>2 DEF Expired

LEMMA YoungStep ==
  ASSUME TypeOK, FlightsAreYoung, [Next]_vars
  PROVE  FlightsAreYoung'
<1> USE TimesAssumption
<1>1. ASSUME NEW f \in Callers, NEW t, NEW outcome, Settle(f, outcome, t)
      PROVE  FlightsAreYoung'
  BY <1>1 DEF Settle, FlightsAreYoung, Flying, Grounded, TypeOK
<1>2. ASSUME NEW c \in Callers, Depart(c), now' = now PROVE FlightsAreYoung'
  <2>1. now <= now + MaxWait
    BY DEF TypeOK
  <2> QED
    BY <1>2, <2>1 DEF Depart, FlightsAreYoung, Flying, TypeOK
<1>3. ASSUME UNCHANGED <<now, flight>> PROVE FlightsAreYoung'
  BY <1>3 DEF FlightsAreYoung, Flying
<1>4. ASSUME NEW c \in Callers, CallerStep(c) PROVE FlightsAreYoung'
  BY <1>2, <1>3, <1>4 DEF CallerStep, Load, UseCached, AwaitRefresh, Leave, ReportRevoked
<1>5. ASSUME NEW f \in Callers, FlightStep(f) PROVE FlightsAreYoung'
  <2>1. CASE RefreshSucceeds(f) /\ flight[f].known
    BY <1>1, <2>1 DEF RefreshSucceeds
  <2>2. CASE RefreshSucceeds(f) /\ ~flight[f].known
    <3> DEFINE t == [gen |-> flight[f].gen, expires |-> flight[f].since + Life]
    <3>1. /\ f \in Flying /\ flight[f].gen \in Gens /\ now' = now
          /\ flight' = [flight EXCEPT ![f].step = "saving", ![f].fresh = t]
      BY <2>2 DEF RefreshSucceeds, Flying, TypeOK
    <3>2. /\ flight'[f].step = "saving" /\ flight'[f].fresh = t /\ flight'[f].since = flight[f].since
          /\ \A g \in Callers \ {f} : flight'[g] = flight[g]
      BY <3>1 DEF TypeOK, Refresh
    <3>3. t.gen \in Gens /\ t.expires = flight[f].since + Life
      BY <3>1
    <3> HIDE DEF t
    <3> QED
      BY <3>1, <3>2, <3>3 DEF FlightsAreYoung, Flying
  <2>3. CASE RefreshRejected(f)
    <3>1. /\ f \in Flying /\ now' = now
          /\ flight' = [flight EXCEPT ![f].step = "disabling"]
      BY <2>3 DEF RefreshRejected, Flying
    <3>2. /\ flight'[f].step = "disabling" /\ flight'[f].since = flight[f].since
          /\ \A g \in Callers \ {f} : flight'[g] = flight[g]
      BY <3>1 DEF TypeOK, Refresh
    <3> QED
      BY <3>1, <3>2 DEF FlightsAreYoung, Flying
  <2>4. CASE SaveClientId(f) \/ SaveClientIdFails(f) \/ RefreshFails(f) \/ Disable(f) \/ DisableFails(f)
    BY <1>1, <2>4 DEF SaveClientId, SaveClientIdFails, RefreshFails, Disable, DisableFails
  <2> QED
    BY <1>5, <2>1, <2>2, <2>3, <2>4 DEF FlightStep
<1>6. CASE Relogin \/ Delete \/ (\E g \in Gens : RevokedAtGoogle(g)) \/ UNCHANGED vars
  BY <1>3, <1>6 DEF Relogin, Delete, RevokedAtGoogle, vars
<1>7. CASE Tick
  <2>1. \A f \in Flying : now < flight[f].since + MaxWait /\ now' = now + 1 /\ flight' = flight
    BY <1>7 DEF Tick
  <2>2. \A f \in Flying : now \in Nat /\ flight[f].since + MaxWait \in Nat
    BY DEF TypeOK, Refresh, Flying
  <2>3. \A f \in Flying : now' <= flight'[f].since + MaxWait
    BY <2>1, <2>2
  <2> QED
    BY <1>7, <2>1, <2>3 DEF Tick, FlightsAreYoung, Flying
<1> QED
  BY <1>4, <1>5, <1>6, <1>7 DEF Next

LEMMA ServedStep ==
  ASSUME TypeOK, FlightsAreYoung, [Next]_vars, NEW c \in Callers,
         pc[c] \in {"loaded", "waiting"}, pc'[c] = "served"
  PROVE  ~Expired(got'[c])
<1>1. ASSUME NEW f \in Callers, NEW t, NEW outcome, Settle(f, outcome, t)
      PROVE  outcome = "served" /\ got'[c] = t
  BY <1>1 DEF Settle, TypeOK
<1>2. ASSUME NEW d \in Callers, CallerStep(d) PROVE ~Expired(got'[c])
  <2>1. CASE UseCached(d)
    BY <2>1 DEF UseCached, Answered, TypeOK
  <2>2. CASE Load(d) \/ AwaitRefresh(d) \/ Leave(d) \/ ReportRevoked(d)
    BY <2>2 DEF Load, AwaitRefresh, Leave, ReportRevoked, TypeOK
  <2> QED
    BY <1>2, <2>1, <2>2 DEF CallerStep
<1>3. ASSUME NEW f \in Callers, FlightStep(f) PROVE ~Expired(got'[c])
  <2>1. CASE RefreshSucceeds(f)
    <3> DEFINE t == [gen |-> flight[f].gen, expires |-> flight[f].since + Life]
    <3>1. flight[f].known
      BY <2>1 DEF RefreshSucceeds, callVars
    <3>2. got'[c] = t
      BY <1>1, <2>1, <3>1 DEF RefreshSucceeds
    <3>3. f \in Flying /\ flight[f].gen \in Gens /\ flight[f].since \in Nat
      BY <2>1 DEF RefreshSucceeds, Flying, TypeOK, Refresh
    <3>4. t \in Token
      BY <3>3, TimesAssumption DEF Token
    <3> QED
      BY <3>2, <3>3, <3>4, FreshTokenIsLive DEF FlightsAreYoung
  <2>2. CASE SaveClientId(f)
    <3> DEFINE t == flight[f].fresh
    <3>1. got'[c] = t
      BY <1>1, <2>2 DEF SaveClientId
    <3>2. f \in Flying /\ flight[f].since \in Nat /\ flight[f].fresh \in Token \cup {NoToken}
      BY <2>2 DEF SaveClientId, Flying, TypeOK, Refresh
    <3>3. t.gen \in Gens /\ t.expires = flight[f].since + Life
      BY <2>2, <3>2 DEF SaveClientId, FlightsAreYoung
    <3>4. t \in Token
      BY <3>2, <3>3 DEF NoToken, Gens
    <3> QED
      BY <3>1, <3>2, <3>3, <3>4, FreshTokenIsLive DEF FlightsAreYoung
  <2>3. CASE RefreshFails(f)
    BY <1>1, <2>3 DEF RefreshFails, LastGood
  <2>4. CASE SaveClientIdFails(f) \/ Disable(f) \/ DisableFails(f)
    BY <1>1, <2>4 DEF SaveClientIdFails, Disable, DisableFails
  <2>5. CASE RefreshRejected(f)
    BY <2>5 DEF RefreshRejected, callVars
  <2> QED
    BY <1>3, <2>1, <2>2, <2>3, <2>4, <2>5 DEF FlightStep
<1>4. CASE Relogin \/ Delete \/ (\E g \in Gens : RevokedAtGoogle(g)) \/ Tick \/ UNCHANGED vars
  BY <1>4 DEF Relogin, Delete, RevokedAtGoogle, Tick, vars, callVars
<1> QED
  BY <1>2, <1>3, <1>4 DEF Next

\* accessTokenFor never hands out a token that is about to expire: not from the cache,
\* not from a refresh however long it took, not from one that failed and fell back.
THEOREM TokensAreLive == Spec => ServedTokensAreLive
<1>1. Init => FlightsAreYoung
  BY DEF Init, FlightsAreYoung, Flying, Grounded
<1>2. TypeOK /\ FlightsAreYoung /\ [Next]_vars => FlightsAreYoung'
  BY YoungStep
<1> DEFINE Live == \A c \in Callers : pc[c] \in {"loaded", "waiting"} /\ pc'[c] = "served" => ~Expired(got'[c])
<1>3. TypeOK /\ FlightsAreYoung /\ [Next]_vars => [Live]_vars
  BY ServedStep
<1> QED
  BY <1>1, <1>2, <1>3, TypeCorrect, PTL DEF Spec, ServedTokensAreLive
=============================================================================
