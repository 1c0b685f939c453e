----------------------------- MODULE TokenRefresh -----------------------------
(***************************************************************************)
(* The access tokens of one account in one process: accessTokenFor and     *)
(* refreshToken of AgySessionManager over refreshAccessToken, with the     *)
(* token cache, the single refresh in flight, the migration of a legacy    *)
(* client id and the revocation of a dead credential.  Accounts share none *)
(* of this state, so one is enough.                                        *)
(*                                                                         *)
(* A credential is the generation of its refresh token: a new login makes  *)
(* a new one under the same account key.  A flight is known by the caller  *)
(* that started it; the callers that join it wait on that caller's name.   *)
(***************************************************************************)
EXTENDS Integers, FiniteSets

CONSTANTS
  Callers,    \* users of accessTokenFor: requests, quota probes, health probes
  NoCaller,
  LastGen,    \* bound on the logins
  Legacy,     \* whether the first credential lacks its client id
  Life,       \* expires_in of an access token
  Buffer,     \* ACCESS_TOKEN_EXPIRY_BUFFER_MS: a token this close to expiry is not used
  Skew,       \* REFRESH_SKEW_MS: a token this close is refreshed ahead of time
  MaxWait,    \* the longest a token endpoint is waited for
  Horizon     \* bound on the clock

ASSUME CallersAssumption == NoCaller \notin Callers
ASSUME LegacyAssumption == Legacy \in BOOLEAN
ASSUME TimesAssumption ==
  /\ LastGen \in Nat \ {0} /\ Life \in Nat /\ Buffer \in Nat /\ Skew \in Nat
  /\ MaxWait \in Nat /\ Horizon \in Nat
\* a token outlives the wait for it (an hour against a few minutes)
ASSUME LifeAssumption == MaxWait + Buffer < Life

VARIABLES
  now,     \* the clock
  cred,    \* the account in the document
  alive,   \* the refresh tokens Google honours
  cache,   \* tokenCache
  slot,    \* refreshInFlight: who started the refresh in flight
  flight,  \* the refreshes under way, by the caller that started them
  pc,      \* where each caller stands
  copy,    \* the account as each caller loaded it
  on,      \* the flight each caller waits on
  got      \* the token each caller was given

vars == <<now, cred, alive, cache, slot, flight, pc, copy, on, got>>
callVars == <<pc, copy, on, got>>

Gens == 1 .. LastGen
NoToken == [gen |-> 0, expires |-> 0]
Token == [gen: Gens, expires: Nat]
NoCopy == [gen |-> 0, known |-> FALSE]
Grounded == [step |-> "idle", gen |-> 0, known |-> FALSE, since |-> 0, cached |-> NoToken, fresh |-> NoToken]

Refresh == [step: {"idle", "asking", "saving", "disabling"}, gen: Nat, known: BOOLEAN,
            since: Nat, cached: Token \cup {NoToken}, fresh: Token \cup {NoToken}]

\* accessTokenExpired
Expired(t) == t = NoToken \/ t.expires <= now + Buffer
DueForRefresh(t) == t.expires <= now + Skew

Flying == {f \in Callers : flight[f].step # "idle"}

Init ==
  /\ now = 0
  /\ cred = [present |-> TRUE, enabled |-> TRUE, gen |-> 1, known |-> ~Legacy]
  /\ alive = {1}
  /\ cache = NoToken
  /\ slot = NoCaller
  /\ flight = [c \in Callers |-> Grounded]
  /\ pc = [c \in Callers |-> "idle"]
  /\ copy = [c \in Callers |-> NoCopy]
  /\ on = [c \in Callers |-> NoCaller]
  /\ got = [c \in Callers |-> NoToken]

\* a caller loads the document and takes the account from its copy; health probes
\* and exports take a disabled one too
Load(c) ==
  /\ pc[c] = "idle" /\ cred.present
  /\ copy' = [copy EXCEPT ![c] = [gen |-> cred.gen, known |-> cred.known]]
  /\ pc' = [pc EXCEPT ![c] = "loaded"]
  /\ UNCHANGED <<now, cred, alive, cache, slot, flight, on, got>>

\* refreshToken joins the refresh in flight, or starts one with the caller's copy
NeverJoins == FALSE
Joinable == slot # NoCaller

AsksWithTheCached(c) == cache.gen
AsksWith(c) == copy[c].gen

Depart(c) ==
  /\ slot' = c
  /\ flight' = [flight EXCEPT ![c] = [step |-> "asking", gen |-> AsksWith(c), known |-> copy[c].known,
                                      since |-> now, cached |-> cache, fresh |-> NoToken]]

Answered(c, t) ==
  /\ pc' = [pc EXCEPT ![c] = "served"]
  /\ got' = [got EXCEPT ![c] = t]

\* accessTokenFor with a token in the cache: served at once, refreshed behind the
\* caller's back when it is close to its expiry
UseCached(c) ==
  /\ pc[c] = "loaded" /\ ~Expired(cache)
  /\ Answered(c, cache)
  /\ IF DueForRefresh(cache) /\ ~Joinable THEN Depart(c) ELSE UNCHANGED <<slot, flight>>
  /\ UNCHANGED <<now, cred, alive, cache, copy, on>>

AwaitRefresh(c) ==
  /\ pc[c] = "loaded" /\ Expired(cache)
  /\ pc' = [pc EXCEPT ![c] = "waiting"]
  /\ IF Joinable
       THEN on' = [on EXCEPT ![c] = slot] /\ UNCHANGED <<slot, flight>>
       ELSE on' = [on EXCEPT ![c] = c] /\ Depart(c)
  /\ UNCHANGED <<now, cred, alive, cache, copy, got>>

-----------------------------------------------------------------------------
(* The refresh.                                                             *)

\* its promise settles: the slot is freed and everyone waiting is answered
WakesItsStarter(f) == {c \in {f} : pc[c] = "waiting" /\ on[c] = f}
Waiting(f) == {c \in Callers : pc[c] = "waiting" /\ on[c] = f}

Settle(f, outcome, t) ==
  /\ flight' = [flight EXCEPT ![f] = Grounded]
  /\ slot' = NoCaller
  /\ pc' = [c \in Callers |-> IF c \in Waiting(f) THEN outcome ELSE pc[c]]
  /\ got' = [c \in Callers |-> IF c \in Waiting(f) THEN t ELSE got[c]]
  /\ on' = [c \in Callers |-> IF c \in Waiting(f) THEN NoCaller ELSE on[c]]
  /\ UNCHANGED <<now, alive, copy>>

\* the endpoint issues a token, which lives from the time it was asked for.  A
\* legacy account first has its client id saved; the token is cached after that.
CachesFirst(t) == t
CachedBeforeSave(t) == cache

RefreshSucceeds(f) ==
  LET t == [gen |-> flight[f].gen, expires |-> flight[f].since + Life]
  IN
  /\ flight[f].step = "asking" /\ flight[f].gen \in alive
  /\ IF flight[f].known
       THEN cache' = t /\ Settle(f, "served", t)
       ELSE /\ flight' = [flight EXCEPT ![f].step = "saving", ![f].fresh = t]
            /\ cache' = CachedBeforeSave(t)
            /\ UNCHANGED <<now, alive, slot, callVars>>
  /\ UNCHANGED cred

\* the client id is written to the account, found by its key, under the lock; the
\* write throws when the account is gone or the file cannot be written
SaveClientId(f) ==
  /\ flight[f].step = "saving" /\ cred.present
  /\ cred' = [cred EXCEPT !.known = TRUE]
  /\ cache' = flight[f].fresh
  /\ Settle(f, "served", flight[f].fresh)

SaveClientIdFails(f) ==
  /\ flight[f].step = "saving"
  /\ Settle(f, "failed", NoToken)
  /\ UNCHANGED <<cred, cache>>

\* a refresh that failed for another reason than invalid_grant falls back on the
\* token it set out with, if that is still good: retain-last-good
ServesAnyCached(f) == flight[f].cached # NoToken
LastGood(f) == ~Expired(flight[f].cached)

RefreshFails(f) ==
  /\ flight[f].step = "asking"
  /\ IF LastGood(f)
       THEN Settle(f, "served", flight[f].cached)
       ELSE Settle(f, "failed", NoToken)
  /\ UNCHANGED <<cred, cache>>

\* invalid_grant from every client id: the token goes at once, the account is
\* disabled under the lock
RefreshRejected(f) ==
  /\ flight[f].step = "asking" /\ flight[f].gen \notin alive
  /\ cache' = NoToken
  /\ flight' = [flight EXCEPT ![f].step = "disabling"]
  /\ UNCHANGED <<now, cred, alive, slot, callVars>>

Disable(f) ==
  /\ flight[f].step = "disabling"
  /\ cred' = [cred EXCEPT !.enabled = FALSE]
  /\ Settle(f, "revoked", NoToken)
  /\ UNCHANGED cache

DisableFails(f) ==
  /\ flight[f].step = "disabling"
  /\ Settle(f, "failed", NoToken)
  /\ UNCHANGED <<cred, cache>>

-----------------------------------------------------------------------------
(* What callers do next, the user, Google, and time.                        *)

Leave(c) ==
  /\ pc[c] \in {"served", "failed", "revoked"}
  /\ pc' = [pc EXCEPT ![c] = "idle"]
  /\ copy' = [copy EXCEPT ![c] = NoCopy]
  /\ got' = [got EXCEPT ![c] = NoToken]
  /\ UNCHANGED <<now, cred, alive, cache, slot, flight, on>>

\* the chat endpoint answers that the account is revoked: reportFailure("auth-failure")
ReportRevoked(c) ==
  /\ pc[c] = "served" /\ cred.present
  /\ cache' = NoToken
  /\ cred' = [cred EXCEPT !.enabled = FALSE]
  /\ pc' = [pc EXCEPT ![c] = "idle"]
  /\ copy' = [copy EXCEPT ![c] = NoCopy]
  /\ got' = [got EXCEPT ![c] = NoToken]
  /\ UNCHANGED <<now, alive, slot, flight, on>>

\* upsertImportedAccount over the same e-mail: key kept, credential replaced; an import
\* that names no client leaves the one that was known
Relogin ==
  /\ cred.present /\ cred.gen < LastGen
  /\ \E known \in {TRUE, cred.known} :
       cred' = [cred EXCEPT !.gen = @ + 1, !.enabled = TRUE, !.known = known]
  /\ alive' = alive \cup {cred.gen + 1}
  /\ UNCHANGED <<now, cache, slot, flight, callVars>>

Delete ==
  /\ cred.present
  /\ cred' = [cred EXCEPT !.present = FALSE, !.enabled = FALSE]
  /\ UNCHANGED <<now, alive, cache, slot, flight, callVars>>

RevokedAtGoogle(g) ==
  /\ g \in alive
  /\ alive' = alive \ {g}
  /\ UNCHANGED <<now, cred, cache, slot, flight, callVars>>

Tick ==
  /\ now < Horizon
  /\ \A f \in Flying : now < flight[f].since + MaxWait
  /\ now' = now + 1
  /\ UNCHANGED <<cred, alive, cache, slot, flight, callVars>>

FlightStep(f) ==
  \/ RefreshSucceeds(f)
  \/ SaveClientId(f)
  \/ SaveClientIdFails(f)
  \/ RefreshFails(f)
  \/ RefreshRejected(f)
  \/ Disable(f)
  \/ DisableFails(f)

CallerStep(c) ==
  \/ Load(c)
  \/ UseCached(c)
  \/ AwaitRefresh(c)
  \/ Leave(c)
  \/ ReportRevoked(c)

Next ==
  \/ \E c \in Callers : CallerStep(c)
  \/ \E f \in Callers : FlightStep(f)
  \/ Relogin
  \/ Delete
  \/ \E g \in Gens : RevokedAtGoogle(g)
  \/ Tick

Spec == Init /\ [][Next]_vars

\* every endpoint answers or is timed out, every lock is taken or given up on
FairSpec == Spec /\ \A f \in Callers : WF_vars(FlightStep(f))

-----------------------------------------------------------------------------
(* Properties.                                                              *)

\* The variables have their shapes; a refresh always asks with a credential some
\* caller loaded.
TypeOK ==
  /\ now \in Nat
  /\ cred \in [present: BOOLEAN, enabled: BOOLEAN, gen: Gens, known: BOOLEAN]
  /\ alive \subseteq Gens
  /\ cache \in Token \cup {NoToken}
  /\ slot \in Callers \cup {NoCaller}
  /\ flight \in [Callers -> Refresh]
  /\ \A f \in Flying : flight[f].gen \in Gens
  /\ pc \in [Callers -> {"idle", "loaded", "waiting", "served", "failed", "revoked"}]
  /\ copy \in [Callers -> [gen: Nat, known: BOOLEAN]]
  /\ \A c \in Callers : pc[c] = "loaded" => copy[c].gen \in Gens
  /\ on \in [Callers -> Callers \cup {NoCaller}]
  /\ got \in [Callers -> Token \cup {NoToken}]

\* "single-flight per account": never two refreshes of one account at once, and the
\* slot names the one there is.
OneRefreshAtATime == \A f \in Callers : f \in Flying <=> slot = f

\* "Cache token strictly AFTER disk persistence has succeeded": while the account is
\* there, a cached token means its client id is on disk, so that no restart has to
\* guess again which client issued the refresh token.
CacheFollowsDisk == cache # NoToken /\ cred.present => cred.known

\* Everyone who is given a token can use it now, whether it came from the cache,
\* from its own refresh, from one it joined, or from one that failed.
ServedTokensAreLive ==
  [][\A c \in Callers : pc[c] \in {"loaded", "waiting"} /\ pc'[c] = "served" => ~Expired(got'[c])]_vars

\* No caller waits forever, whoever started the refresh it joined and however it ended.
EveryCallerIsAnswered == \A c \in Callers : pc[c] = "waiting" ~> pc[c] # "waiting"

\* "Account credentials are dead - mark it disabled": a rejected refresh disables the
\* credential it tried, not one a new login has put in its place.
RejectionSparesANewLogin ==
  [][\A f \in Callers : flight[f].step = "disabling" /\ cred'.enabled # cred.enabled
       /\ flight'[f].step = "idle" => cred.gen = flight[f].gen]_vars
=============================================================================
