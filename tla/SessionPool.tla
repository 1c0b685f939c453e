----------------------------- MODULE SessionPool -----------------------------
(***************************************************************************)
(* The account pool of AgySessionManager: the selection loop of getSession *)
(* (load, re-measure, pick, save the cursor, obtain a token, skip or       *)
(* serve), reportFailure, activateAccount, probeAccount, and the account   *)
(* edits of the management surface, all sharing one persisted document.    *)
(*                                                                         *)
(* Every `await` of the source is a boundary between two actions, so other *)
(* requests, edits and probes interleave there.  store.load() and          *)
(* store.mutate() are single atomic steps: AccountStore models how.        *)
(*                                                                         *)
(* Positions are 1-based (the source's are 0-based).  Time is a clock of   *)
(* abstract ticks; a cooldown or limit is the tick at which it lapses, 0   *)
(* for none.                                                               *)
(***************************************************************************)
EXTENDS Integers, FiniteSets, Sequences

CONSTANTS
  Accounts,       \* account identities (accountKey: the id is a fresh UUID)
  Conversations,  \* conversation identities (GenerateOptions.sessionId)
  Requests,       \* calls of getSession; each is used once
  Probes,         \* calls of probeAccount; each is used once
  Families,       \* model families, the scope of a rate limit
  Kinds,          \* the failure kinds the upstream produces
  Levels,         \* what a quota probe may find of a family
  Proxied,        \* accounts with a per-account proxy
  DiskFails,      \* whether a write of the document may fail
  Enrolled,       \* the accounts present at start, in order
  NoAccount,      \* "no pin" / "no account yet"
  MaxInFlight,    \* MAX_IN_FLIGHT_PER_ACCOUNT
  BackoffTicks,   \* the longest backoffFor tier
  LimitTicks,     \* RATE_LIMIT_COOLDOWN_MS
  VerifyTicks,    \* VERIFICATION_COOLDOWN_MS
  QuotaTicks,     \* FULL_QUOTA_COOLDOWN_MS
  Resets,         \* server-reported reset distances, 0 for "none reported"
  Horizon,        \* bound on the clock
  MaxEdits        \* bound on the account edits by the user

\* FailureKind, a rate limit split by its category
FailureKinds == {"soft-limit", "rate-limit", "quota", "auth-failure", "verification-required",
                 "network-error", "project-error", "request-error", "transient",
                 "proxy-unreachable"}

\* no account is enrolled twice
ASSUME EnrolledAssumption ==
  Enrolled \in Seq(Accounts) /\ \A i, j \in 1 .. Len(Enrolled) : Enrolled[i] = Enrolled[j] => i = j
ASSUME KindsAssumption == Kinds \subseteq FailureKinds
ASSUME LevelsAssumption == Levels \subseteq {"headroom", "nearly", "spent", "revoked"}
ASSUME NoAccountAssumption == NoAccount \notin Accounts
ASSUME TicksAssumption ==
  /\ BackoffTicks \in Nat \ {0} /\ LimitTicks \in Nat \ {0}
  /\ VerifyTicks \in Nat \ {0} /\ QuotaTicks \in Nat \ {0}
  /\ Resets \subseteq Nat
ASSUME DiskAssumption == DiskFails \in BOOLEAN
ASSUME BoundsAssumption == MaxInFlight \in Nat /\ Horizon \in Nat /\ MaxEdits \in Nat

VARIABLES
  now,       \* the clock
  store,     \* the persisted account document
  affinity,  \* conversation -> the account it is pinned to
  pc,        \* where each request stands
  call,      \* what each request was asked
  snap,      \* the document each request loaded, with its own in-memory edits
  acct,      \* the account each request picked
  loop,      \* each request's attempt counter and what its attempts ended in
  tried,     \* the accounts whose token each request asked for
  probe,     \* the health probes
  clearing,  \* an activation saved its index and has yet to clear the pins
  edits,     \* account edits made so far
  behind,    \* history: requests past their pick when the last activation completed
  unseen,    \* accounts never enrolled (a login creates a new identity)
  apart      \* history: by request, the accounts that others changed in the document since it
             \* last loaded it, and those whose readings it could not save

vars == <<now, store, affinity, pc, call, snap, acct, loop, tried, probe, clearing, edits, behind,
          unseen, apart>>
poolVars == <<store, affinity, unseen>>
reqVars == <<pc, call, snap, acct, loop, tried>>
envVars == <<now, probe, clearing, edits, behind>>

-----------------------------------------------------------------------------
(* The account document.                                                    *)

Unmeasured == -1    \* no quota reading
Headroom == 0       \* a live reading above zero
\* a reading > 0 is a measured zero, and the tick its window resets; `nearly` is the tick a
\* week that is down to its last percent resets, 0 for no such week

Reasons == {"none", "quota-exhausted", "validation-required", "network-error", "project-error"}

AccountState == [enabled: BOOLEAN, coolUntil: Nat, why: Reasons,
                 limitUntil: [Families -> Nat], quota: [Families -> Nat \cup {Unmeasured}],
                 nearly: [Families -> Nat]]

Doc == [order: Seq(Accounts), active: Nat, health: [Accounts -> AccountState]]

NewAccount == [enabled |-> TRUE, coolUntil |-> 0, why |-> "none",
               limitUntil |-> [f \in Families |-> 0], quota |-> [f \in Families |-> Unmeasured],
               nearly |-> [f \in Families |-> 0]]

EmptyDoc == [order |-> <<>>, active |-> 1, health |-> [a \in Accounts |-> NewAccount]]

Positions(d) == 1 .. Len(d.order)
Present(d) == {d.order[i] : i \in Positions(d)}
EnabledAt(d) == {i \in Positions(d) : d.health[d.order[i]].enabled}
PositionOf(d, a) == CHOOSE i \in Positions(d) : d.order[i] = a

Cooling(h) == h.coolUntil > now
Limited(h, f) == h.limitUntil[f] > now
Spent(h, f) == h.quota[f] > now

\* hasHealthyCachedQuota: something is measured and no live window is drained
HasHealthyQuota(h) ==
  /\ \E f \in Families : h.quota[f] = Headroom
  /\ \A f \in Families : h.quota[f] <= now /\ h.nearly[f] <= now

Uncooled(h) == [h EXCEPT !.coolUntil = 0, !.why = "none"]

\* a quota cooldown contradicted by a healthy reading is a false positive
Healed(h) == IF h.why = "quota-exhausted" /\ HasHealthyQuota(h) THEN Uncooled(h) ELSE h

ClearExpired(h) ==
  LET live == [h EXCEPT !.limitUntil = [f \in Families |-> IF @[f] > now THEN @[f] ELSE 0]]
  IN  Healed(IF Cooling(live) THEN live ELSE Uncooled(live))

\* rankPoolCandidates: enabled, and not cooling, limited or measured at zero for the family
Unblocked(d, i, f) ==
  /\ i \in EnabledAt(d)
  /\ LET h == d.health[d.order[i]] IN ~Cooling(h) /\ ~Limited(h, f) /\ ~Spent(h, f)

\* isActiveUsable, and the same of a pin: isFamilyQuotaExhausted gives up a week's last percent
Usable(d, i, f) == Unblocked(d, i, f) /\ d.health[d.order[i]].nearly[f] <= now

\* pickNextAccountIndex: round robin from position i; AnyFamily skips the limit test
AnyFamily == "any"
NextPosition(d, i, f) ==
  LET others == {j \in EnabledAt(d) \ {i} :
                   /\ ~Cooling(d.health[d.order[j]])
                   /\ f # AnyFamily => ~Limited(d.health[d.order[j]], f)}
      after == {j \in others : j > i}
      First(S) == CHOOSE j \in S : \A k \in S : j <= k
  IN  IF others = {} THEN i
      ELSE IF after # {} THEN First(after) ELSE First(others)

\* streams holding an in-flight slot on account a
InFlight(a) == Cardinality({r \in Requests : pc[r] = "using" /\ acct[r] = a})

FreePins(a) == [c \in Conversations |-> IF affinity[c] = a THEN NoAccount ELSE affinity[c]]

-----------------------------------------------------------------------------
(* Requests.                                                                *)

NotPinned == 0      \* call.asked of an ordinary request; a test call names a position
Idle == [conv |-> NoAccount, fam |-> AnyFamily, asked |-> NotPinned]
NoLoop == [max |-> 0, attempt |-> 0, proxies |-> 0, transport |-> FALSE]
Attempts(n) == [NoLoop EXCEPT !.max = n]

Active == {"select", "pick", "save", "auth", "revoked", "skip", "reload", "serve"}
Outcomes == {"served", "no-credential", "failed", "blocked-quota", "blocked-retry"}

Init ==
  /\ now = 0
  /\ store \in {[order |-> Enrolled, active |-> i, health |-> [a \in Accounts |-> NewAccount]] :
                  i \in 1 .. Len(Enrolled)}
  /\ affinity = [c \in Conversations |-> NoAccount]
  /\ pc = [r \in Requests |-> "idle"]
  /\ call = [r \in Requests |-> Idle]
  /\ snap = [r \in Requests |-> EmptyDoc]
  /\ acct = [r \in Requests |-> NoAccount]
  /\ loop = [r \in Requests |-> NoLoop]
  /\ tried = [r \in Requests |-> {}]
  /\ probe = [p \in Probes |-> [step |-> "idle", at |-> 0, of |-> NoAccount]]
  /\ clearing = FALSE
  /\ edits = 0
  /\ behind = {}
  /\ unseen = {a \in Accounts : \A i \in 1 .. Len(Enrolled) : Enrolled[i] # a}
  /\ apart = [r \in Requests |-> {}]

Goto(r, l) == pc' = [pc EXCEPT ![r] = l]

\* the request is over: nothing is kept of it but its outcome
Finish(r, outcome) ==
  /\ Goto(r, outcome)
  /\ call' = [call EXCEPT ![r] = Idle]
  /\ snap' = [snap EXCEPT ![r] = EmptyDoc]
  /\ acct' = [acct EXCEPT ![r] = NoAccount]
  /\ loop' = [loop EXCEPT ![r] = NoLoop]
  /\ tried' = [tried EXCEPT ![r] = {}]

\* getSession(model, undefined, conversationKey) up to the first load
Begin(r, c, f) ==
  /\ pc[r] = "idle"
  /\ IF EnabledAt(store) = {}
       THEN Finish(r, "no-credential")
       ELSE /\ Goto(r, "select")
            /\ call' = [call EXCEPT ![r] = [conv |-> c, fam |-> f, asked |-> NotPinned]]
            /\ snap' = [snap EXCEPT ![r] = store]
            /\ loop' = [loop EXCEPT ![r] = Attempts(Cardinality(EnabledAt(store)))]
            /\ UNCHANGED <<acct, tried>>
  /\ UNCHANGED <<poolVars, envVars>>

\* getSession(model, accountIndex): the account asked about must be there, enabled
BeginTest(r, f, asked) ==
  /\ pc[r] = "idle"
  /\ IF asked \in EnabledAt(store)
       THEN /\ Goto(r, "pick")
            /\ call' = [call EXCEPT ![r] = [conv |-> NoAccount, fam |-> f, asked |-> asked]]
            /\ snap' = [snap EXCEPT ![r] = store]
            /\ loop' = [loop EXCEPT ![r] = Attempts(1)]
            /\ UNCHANGED <<acct, tried>>
       ELSE Finish(r, "failed")
  /\ UNCHANGED <<poolVars, envVars>>

\* refreshQuotaCache, only for a pool of several: `found` says what the accounts that were
\* stale and answered turned out to have, of every family.  The result lands, by key, on the
\* request's copy and on the document, and heals a contradicted quota cooldown on each; a
\* refresh token the probe found revoked disables its account.  (A refresh that another
\* request started is that request's finding; an answer that leaves something out is
\* QuotaReadings' matter.)
Readings ==
  {reading \in [Families -> Levels] :
     \A f, g \in Families : reading[f] = "revoked" => reading[g] = "revoked"}
Findings(d) == UNION {[S -> Readings] : S \in SUBSET Present(d)}

IsRevoked(reading) == \E f \in Families : reading[f] = "revoked"
Reset(reading, f, level) == IF reading[f] = level THEN now + LimitTicks ELSE 0

WithReading(h, reading) ==
  IF IsRevoked(reading)
    THEN [h EXCEPT !.enabled = FALSE]
    ELSE Healed([h EXCEPT !.quota = [f \in Families |-> Reset(reading, f, "spent")],
                          !.nearly = [f \in Families |-> Reset(reading, f, "nearly")]])

Measured(d, found) ==
  [d EXCEPT !.health = [a \in Accounts |->
     IF a \in DOMAIN found /\ a \in Present(d)
       THEN WithReading(d.health[a], found[a])
       ELSE d.health[a]]]

KeepsTheCopy(d, found) == d
Overlaid(d, found) == Measured(d, found)

Measure(r, found, saved) ==
  /\ pc[r] = "select"
  /\ Cardinality(EnabledAt(snap[r])) > 1
  /\ DOMAIN found \subseteq {snap[r].order[i] : i \in EnabledAt(snap[r])}
  /\ snap' = [snap EXCEPT ![r] = Overlaid(@, found)]
  /\ store' = Measured(store, saved)
  /\ Goto(r, "pick")
  /\ UNCHANGED <<affinity, unseen, envVars, call, acct, loop, tried>>

\* a write that fails loses the readings, not the revocations, which were saved on their own
Revocations(found) == [a \in {b \in DOMAIN found : IsRevoked(found[b])} |-> found[a]]

\* a solo pool is never measured on the request path
SkipMeasure(r) ==
  /\ pc[r] = "select"
  /\ Cardinality(EnabledAt(snap[r])) <= 1
  /\ Goto(r, "pick")
  /\ UNCHANGED <<poolVars, envVars, call, snap, acct, loop, tried>>

Take(r, d, i, l) ==
  /\ snap' = [snap EXCEPT ![r] = d]
  /\ acct' = [acct EXCEPT ![r] = d.order[i]]
  /\ Goto(r, l)
  /\ UNCHANGED <<call, loop, tried>>

\* the candidates, once the pin and the active account have been passed over:
\* unblocked accounts with headroom, else unblocked accounts.  Their order among
\* themselves (rankPoolCandidates) depends on quota fractions and is left open.
Candidates(d, f) ==
  LET unblocked == {i \in EnabledAt(d) : Unblocked(d, i, f)}
      roomy == {i \in unblocked : InFlight(d.order[i]) < MaxInFlight}
  IN  IF roomy # {} THEN roomy ELSE unblocked

\* AgyPoolBlockedError: quota-exhausted only when no candidate waits for anything else
BlockedKind(d, f) ==
  LET quotaSpent(h) == (h.why = "quota-exhausted" /\ Cooling(h)) \/ Spent(h, f)
  IN  IF \A i \in EnabledAt(d) : quotaSpent(d.health[d.order[i]])
        THEN "blocked-quota" ELSE "blocked-retry"

\* pickAccount: the conversation's pin, else the active account, else the pool
Pick(r) ==
  LET d == [snap[r] EXCEPT !.health = [a \in Accounts |-> ClearExpired(snap[r].health[a])]]
      f == call[r].fam
      pin == affinity[call[r].conv]
      pinned == {i \in Positions(d) : d.order[i] = pin /\ Usable(d, i, f)}
      act == d.active
  IN
  /\ pc[r] = "pick"
  /\ call[r].asked = NotPinned
  /\ IF pinned # {}
       THEN \E i \in pinned : Take(r, d, i, "auth")
     ELSE IF EnabledAt(d) = {}
       THEN Finish(r, "no-credential")
     ELSE IF act \in Positions(d) /\ Usable(d, act, f) /\ InFlight(d.order[act]) < MaxInFlight
       THEN Take(r, d, act, "auth")
     ELSE IF Candidates(d, f) = {}
       THEN Finish(r, BlockedKind(d, f))
     ELSE \E i \in Candidates(d, f) :
            Take(r, [d EXCEPT !.active = i], i, IF i = act THEN "auth" ELSE "save")
  /\ UNCHANGED <<poolVars, envVars>>

\* a test call takes exactly the account at the position it was asked about
PickAsked(r) ==
  /\ pc[r] = "pick"
  /\ call[r].asked # NotPinned
  /\ Take(r, snap[r], call[r].asked, "auth")
  /\ UNCHANGED <<poolVars, envVars>>

\* the mutate of pickAccount and skipAccount writes one field of the document: the
\* cursor, a position in the request's own copy
SavesWholeCopy(r) == snap[r]
WithCursor(r) == [store EXCEPT !.active = snap[r].active]

SaveActive(r) ==
  /\ pc[r] = "save"
  /\ store' = WithCursor(r)
  /\ Goto(r, "auth")
  /\ UNCHANGED <<affinity, unseen, envVars, call, snap, acct, loop, tried>>

NoteTried(r) == tried' = [tried EXCEPT ![r] = @ \cup {acct[r]}]

\* accessTokenFor answers
TokenOk(r) ==
  /\ pc[r] = "auth"
  /\ NoteTried(r)
  /\ Goto(r, "serve")
  /\ UNCHANGED <<poolVars, envVars, call, snap, acct, loop>>

\* only an ordinary request moves the pool: a test call asks about one account
TracksEveryCall(r) == TRUE
MovesPool(r) == call[r].asked = NotPinned

\* accessTokenFor throws: surfaced to a test call, otherwise skipAccount up to its
\* mutate, which moves the cursor off the account and leaves its state alone
TokenFails(r, proxyDead) ==
  LET a == acct[r]
      next == NextPosition(snap[r], PositionOf(snap[r], a), AnyFamily)
  IN
  /\ pc[r] = "auth"
  /\ proxyDead => a \in Proxied
  /\ IF MovesPool(r)
       THEN /\ NoteTried(r)
            /\ affinity' = FreePins(a)
            /\ snap' = [snap EXCEPT ![r].active = next]
            /\ loop' = IF proxyDead THEN [loop EXCEPT ![r].proxies = @ + 1]
                                    ELSE [loop EXCEPT ![r].transport = TRUE]
            /\ Goto(r, IF next # snap[r].active THEN "skip" ELSE "reload")
            /\ UNCHANGED <<call, acct>>
       ELSE Finish(r, "failed") /\ UNCHANGED affinity
  /\ UNCHANGED <<store, unseen, envVars>>

\* skipAccount swallows a failed write; pickAccount, and the tail of getSession that
\* saves a first fingerprint, let it fail the request
SaveFails(r) ==
  /\ DiskFails
  /\ \/ pc[r] \in {"save", "serve"} /\ Finish(r, "failed")
     \/ pc[r] = "skip" /\ Goto(r, "reload") /\ UNCHANGED <<call, snap, acct, loop, tried>>
  /\ UNCHANGED <<poolVars, envVars>>

SaveSkip(r) ==
  /\ pc[r] = "skip"
  /\ store' = WithCursor(r)
  /\ Goto(r, "reload")
  /\ UNCHANGED <<affinity, unseen, envVars, call, snap, acct, loop, tried>>

\* refreshToken found invalid_grant: the account is disabled in the document, by
\* key, and in the request's copy
Disabled(d, a) ==
  IF a \in Present(d) THEN [d EXCEPT !.health[a].enabled = FALSE] ELSE d

TokenRevoked(r) ==
  /\ pc[r] = "auth"
  /\ store' = Disabled(store, acct[r])
  /\ IF MovesPool(r)
       THEN /\ NoteTried(r)
            /\ snap' = [snap EXCEPT ![r] = Disabled(@, acct[r])]
            /\ Goto(r, "revoked")
            /\ UNCHANGED <<call, acct, loop>>
       ELSE Finish(r, "failed")
  /\ UNCHANGED <<affinity, unseen, envVars>>

DropRevoked(r) ==
  /\ pc[r] = "revoked"
  /\ affinity' = FreePins(acct[r])
  /\ Goto(r, "reload")
  /\ UNCHANGED <<store, unseen, envVars, call, snap, acct, loop, tried>>

\* the loop's bound, and what it reports when it runs out
NextAttempt(r) == loop[r].attempt + 1

GivenUpWith(r) ==
  IF loop[r].proxies = loop[r].max \/ loop[r].transport THEN "failed" ELSE "no-credential"

\* the next iteration of the loop, on a freshly loaded document
Reload(r) ==
  /\ pc[r] = "reload"
  /\ IF NextAttempt(r) < loop[r].max
       THEN /\ snap' = [snap EXCEPT ![r] = store]
            /\ loop' = [loop EXCEPT ![r].attempt = NextAttempt(r)]
            /\ Goto(r, "select")
            /\ UNCHANGED <<call, acct, tried>>
       ELSE Finish(r, GivenUpWith(r))
  /\ UNCHANGED <<poolVars, envVars>>

\* the tail of getSession: the conversation is pinned and the session handed out;
\* a chat request then takes its in-flight slot.  A test call does neither.
Serve(r) ==
  /\ pc[r] = "serve"
  /\ IF MovesPool(r)
       THEN /\ affinity' = [affinity EXCEPT ![call[r].conv] = acct[r]]
            /\ Goto(r, "using")
            /\ snap' = [snap EXCEPT ![r] = EmptyDoc]
            /\ loop' = [loop EXCEPT ![r] = NoLoop]
            /\ tried' = [tried EXCEPT ![r] = {}]
            /\ UNCHANGED <<call, acct>>
       ELSE Finish(r, "served") /\ UNCHANGED affinity
  /\ UNCHANGED <<store, unseen, envVars>>

\* the stream ended cleanly or its consumer left: the slot is released
Complete(r) ==
  /\ pc[r] = "using"
  /\ Finish(r, "served")
  /\ UNCHANGED <<poolVars, envVars>>

-----------------------------------------------------------------------------
(* reportFailure.                                                           *)

Least(m, n) == IF m < n THEN m ELSE n
Greatest(m, n) == IF m > n THEN m ELSE n

Parked(h, until, reason) == [h EXCEPT !.coolUntil = until, !.why = reason]

\* decideRotation: the new state of the failed account, for a backoff of `backoff`
\* ticks and a server-reported reset `reset` ticks away (0: none)
DecidedState(kind, h, backoff, reset) ==
  CASE kind = "quota" ->
         IF reset = 0 /\ HasHealthyQuota(h) THEN h
         ELSE Parked(h, now + (IF reset = 0 THEN QuotaTicks ELSE Least(reset, QuotaTicks)),
                     "quota-exhausted")
    [] kind = "auth-failure" -> [h EXCEPT !.enabled = FALSE]
    [] kind = "verification-required" -> Parked(h, now + VerifyTicks, "validation-required")
    [] kind \in {"network-error", "project-error"} -> Parked(h, now + backoff, kind)
    [] OTHER -> h

\* recordRateLimit keeps the latest reset; a reset time is taken as reported, an
\* unreported one is the short window
WithLimit(kind, h, f, reset) ==
  IF kind \in {"rate-limit", "quota"}
    THEN [h EXCEPT !.limitUntil[f] = Greatest(@, now + (IF reset = 0 THEN LimitTicks ELSE reset))]
    ELSE h

Rotates(kind) == kind \notin {"soft-limit", "request-error", "transient"}

\* a failed fetch or a broken stream is reported without its model, and a revoked
\* account is left for any other
RotationFamily(kind, f) ==
  IF kind \in {"network-error", "proxy-unreachable", "auth-failure"} THEN AnyFamily ELSE f

BlamesActive(r) == store.order[store.active]
Blamed(r) == acct[r]

\* reportFailure finds the account by key and gives up when it is gone.  The pins are freed
\* inside the mutation: before a write that fails, and not at all when the lock or the
\* reading does.  The adapter's `finally` releases the slot.
Report(r, kind, backoff, reset) ==
  LET a == Blamed(r)
      f == call[r].fam
      h == WithLimit(kind, DecidedState(kind, store.health[a], backoff, reset), f, reset)
      d == [store EXCEPT !.health[a] = h]
      freed == IF Rotates(kind) THEN FreePins(a) ELSE affinity
  IN
  /\ pc[r] = "using"
  /\ IF a \in Present(store)
       THEN \/ /\ store' = IF Rotates(kind)
                             THEN [d EXCEPT !.active = NextPosition(d, PositionOf(d, a), RotationFamily(kind, f))]
                             ELSE d
               /\ affinity' = freed
            \/ DiskFails /\ UNCHANGED store /\ affinity' \in {freed, affinity}
       ELSE UNCHANGED <<store, affinity>>
  /\ Finish(r, "served")
  /\ UNCHANGED <<unseen, envVars>>

-----------------------------------------------------------------------------
(* The user's edits, the health probes, and time.                           *)

Edit == edits < MaxEdits /\ edits' = edits + 1

\* the requests that judge by a copy of the document, and what sets the document apart from it
Judging == {"select", "pick", "save", "auth", "serve"}

SetsApart(changed) ==
  apart' = [q \in Requests |-> IF pc[q] \in Judging THEN apart[q] \cup changed ELSE {}]

\* activateAccount: the index is saved first, the pins are cleared once it is
ActivateSave(i) ==
  /\ Edit /\ ~clearing
  /\ i \in Positions(store)
  /\ store' = [store EXCEPT !.active = i]
  /\ clearing' = TRUE
  /\ UNCHANGED <<affinity, unseen, now, probe, behind, apart, reqVars>>

ActivateClear ==
  /\ clearing
  /\ affinity' = [c \in Conversations |-> NoAccount]
  /\ clearing' = FALSE
  /\ behind' = {r \in Requests : pc[r] \in {"save", "auth", "serve"}}
  /\ UNCHANGED <<store, unseen, now, probe, edits, apart, reqVars>>

\* account.delete splices the account out; the cursor moves only when it dangles
Delete(i) ==
  /\ Edit
  /\ i \in Positions(store)
  /\ LET rest == [j \in 1 .. Len(store.order) - 1 |-> store.order[IF j < i THEN j ELSE j + 1]]
     IN  store' = [order |-> rest,
                   active |-> IF store.active > Len(rest) THEN 1 ELSE store.active,
                   health |-> [store.health EXCEPT ![store.order[i]] = NewAccount]]
  /\ SetsApart({store.order[i]})
  /\ UNCHANGED <<affinity, unseen, now, probe, clearing, behind, reqVars>>

\* upsertImportedAccount: a new identity is appended, an existing one (the same
\* e-mail) replaced in place and enabled, its cooldown and limits kept
Appended(d, a) == [d EXCEPT !.order = Append(@, a),
                            !.active = IF d.order = <<>> THEN 1 ELSE @]
AlwaysAppends(d, a) == Appended(d, a)
Upserted(d, a) ==
  IF a \in Present(d) THEN [d EXCEPT !.health[a].enabled = TRUE] ELSE Appended(d, a)

Login(a) ==
  /\ Edit
  /\ a \in unseen \cup Present(store)
  /\ store' = Upserted(store, a)
  /\ unseen' = unseen \ {a}
  /\ SetsApart({a})
  /\ UNCHANGED <<affinity, now, probe, clearing, behind, reqVars>>

\* probeAccount remembers a position and the account that stood there
ProbeStart(p, i) ==
  /\ probe[p].step = "idle"
  /\ i \in Positions(store)
  /\ probe' = [probe EXCEPT ![p] = [step |-> "asking", at |-> i, of |-> store.order[i]]]
  /\ UNCHANGED <<poolVars, reqVars, now, clearing, edits, behind, apart>>

ProbeEnds(p) == probe' = [probe EXCEPT ![p].step = "done"]

ProbeFails(p) ==
  /\ probe[p].step = "asking"
  /\ ProbeEnds(p)
  /\ store' \in {store, Disabled(store, probe[p].of)}   \* unreachable, or revoked
  /\ SetsApart({probe[p].of})
  /\ UNCHANGED <<affinity, unseen, reqVars, now, clearing, edits, behind>>

\* a live credential clears everything that kept the account out of rotation, on
\* whichever account stands at the remembered position now
ProbeSucceeds(p) ==
  /\ probe[p].step = "asking"
  /\ ProbeEnds(p)
  /\ IF probe[p].at \in Positions(store)
       THEN LET a == store.order[probe[p].at]
                h == store.health[a]
            IN  /\ store' = [store EXCEPT !.health[a] =
                               [NewAccount EXCEPT !.quota = h.quota, !.nearly = h.nearly]]
                /\ SetsApart({a})
       ELSE UNCHANGED <<store, apart>>
  /\ UNCHANGED <<affinity, unseen, reqVars, now, clearing, edits, behind>>

\* SESSION_AFFINITY_WINDOW_MS, or eviction past MAX_AFFINITY_ENTRIES
PinLapses(c) ==
  /\ affinity[c] # NoAccount
  /\ affinity' = [affinity EXCEPT ![c] = NoAccount]
  /\ UNCHANGED <<store, unseen, envVars, apart, reqVars>>

Tick ==
  /\ now < Horizon
  /\ now' = now + 1
  /\ UNCHANGED <<poolVars, reqVars, probe, clearing, edits, behind, apart>>

-----------------------------------------------------------------------------

\* history: a step of r leaves the document apart, of what it `changed`, from the copies of the
\* others, and of what it `missed`, from its own
Note(r, changed, missed) ==
  apart' = [q \in Requests |->
              IF pc'[q] \notin Judging THEN {}
              ELSE apart[q] \cup (IF q = r THEN missed ELSE changed)]

\* the steps of getSession once it has begun: those that change no account's state, those that do
QuietStep(r) ==
  \/ SkipMeasure(r)
  \/ Pick(r)
  \/ PickAsked(r)
  \/ SaveActive(r)
  \/ TokenOk(r)
  \/ \E proxyDead \in BOOLEAN : TokenFails(r, proxyDead)
  \/ SaveSkip(r)
  \/ SaveFails(r)
  \/ DropRevoked(r)
  \/ Reload(r)
  \/ Serve(r)

SessionStep(r) ==
  \/ QuietStep(r) /\ Note(r, {}, {})
  \/ \E found \in Findings(snap[r]) :
       \/ Measure(r, found, found) /\ Note(r, DOMAIN found, {})
       \/ /\ DiskFails
          /\ Measure(r, found, Revocations(found))
          /\ Note(r, DOMAIN Revocations(found), DOMAIN found)
  \/ TokenRevoked(r) /\ Note(r, {acct[r]}, {})

RequestStep(r) ==
  \/ /\ \/ \E c \in Conversations, f \in Families : Begin(r, c, f)
        \/ \E f \in Families, asked \in Positions(store) : BeginTest(r, f, asked)
        \/ Complete(r)
     /\ Note(r, {}, {})
  \/ SessionStep(r)
  \/ /\ \E kind \in Kinds, backoff \in 1 .. BackoffTicks, reset \in Resets :
          Report(r, kind, backoff, reset)
     /\ Note(r, {acct[r]}, {})

EditStep ==
  \/ \E i \in Positions(store) : ActivateSave(i) \/ Delete(i)
  \/ ActivateClear
  \/ \E a \in Accounts : Login(a)

ProbeStep(p) ==
  \/ \E i \in Positions(store) : ProbeStart(p, i)
  \/ ProbeFails(p)
  \/ ProbeSucceeds(p)

Next ==
  \/ \E r \in Requests : RequestStep(r)
  \/ EditStep
  \/ \E p \in Probes : ProbeStep(p)
  \/ \E c \in Conversations : PinLapses(c)
  \/ Tick

Spec == Init /\ [][Next]_vars

-----------------------------------------------------------------------------
(* Properties.                                                              *)

\* The document, the copies and the bookkeeping have their shapes; no account is
\* enrolled twice (upsertImportedAccount dedupes by e-mail), and every request that
\* is past its pick holds an account.
Injective(s) == \A i, j \in 1 .. Len(s) : s[i] = s[j] => i = j

TypeOK ==
  /\ now \in Nat
  /\ store \in Doc /\ Injective(store.order)
  /\ affinity \in [Conversations -> Accounts \cup {NoAccount}]
  /\ pc \in [Requests -> Active \cup Outcomes \cup {"idle", "using"}]
  /\ call \in [Requests -> [conv: Conversations \cup {NoAccount},
                            fam: Families \cup {AnyFamily}, asked: Nat]]
  /\ snap \in [Requests -> Doc]
  /\ acct \in [Requests -> Accounts \cup {NoAccount}]
  /\ \A r \in Requests : pc[r] \in (Active \ {"select", "pick"}) \cup {"using"} => acct[r] # NoAccount
  /\ loop \in [Requests -> [max: Nat, attempt: Nat, proxies: Nat, transport: BOOLEAN]]
  /\ tried \in [Requests -> SUBSET Accounts]
  /\ probe \in [Probes -> [step: {"idle", "asking", "done"}, at: Nat, of: Accounts \cup {NoAccount}]]
  /\ clearing \in BOOLEAN /\ edits \in Nat /\ behind \subseteq Requests /\ unseen \subseteq Accounts
  /\ apart \in [Requests -> SUBSET Accounts]

\* A chat turn waits on the network between its judgement and the use it makes of it, and
\* judges by a copy it amends itself.  Unless somebody else changed the account meanwhile, or
\* its own readings could not be saved, the account it asks the token of and serves is still
\* there and, what has lapsed aside, unblocked for its family in the document itself: however
\* it was chosen, after whatever readings, skips, revocations and writes of the cursor.
StillFit(h, f) ==
  LET live == ClearExpired(h)
  IN  live.enabled /\ ~Cooling(live) /\ ~Limited(live, f) /\ ~Spent(live, f)

ServedIsStillFit ==
  \A r \in Requests :
    pc[r] \in {"save", "auth", "serve"} /\ call[r].asked = NotPinned /\ acct[r] \notin apart[r] =>
      acct[r] \in Present(store) /\ StillFit(store.health[acct[r]], call[r].fam)

RequestMoves(r) == pc'[r] # pc[r]

\* A management test call answers about one account and leaves the pool as it was:
\* no step of it moves a pin or the cursor, whatever becomes of its token.
TestCallsLeaveThePoolAlone ==
  [][\A r \in Requests : RequestMoves(r) /\ call[r].asked # NotPinned =>
       affinity' = affinity /\ store'.active = store.active]_vars

\* reportFailure finds the account by key: however accounts were deleted, added or
\* reordered while the stream ran, only the account that failed is parked, limited
\* or disabled.
BlameStaysOnTheAccount ==
  [][\A r \in Requests : RequestMoves(r) /\ pc[r] = "using" =>
       \A a \in Accounts \ {acct[r]} : store'.health[a] = store.health[a]]_vars

\* The selection loop works on a copy that others outdate: none of its writes
\* enrols, re-enables, un-limits or un-parks an account.  The one exception is a
\* quota cooldown that a healthy reading contradicts.
SelectionNeverLiftsAPark ==
  [][\A r \in Requests : RequestMoves(r) /\ pc[r] \in Active =>
       /\ store'.order = store.order
       /\ \A a \in Accounts :
            LET h == store.health[a]
                h2 == store'.health[a]
            IN  /\ h2.enabled => h.enabled
                /\ \A f \in Families : h2.limitUntil[f] >= h.limitUntil[f]
                /\ h2.coolUntil >= h.coolUntil \/ (h.why = "quota-exhausted" /\ HasHealthyQuota(h2))
    ]_vars

\* "Credentials are live again": a health probe brings back the account it probed.
ProbeTouchesOnlyItsAccount ==
  [][\A p \in Probes : probe[p].step = "asking" /\ probe'[p].step = "done" =>
       \A a \in Accounts \ {probe[p].of} : store'.health[a] = store.health[a]]_vars

\* "fall over to the next enabled account, remembering the failure in case none of
\* them succeeds": a request reports a failed token only when it has tried every
\* account that was fit to serve it.
FitAccountsAreTriedBeforeGivingUp ==
  [][\A r \in Requests : pc[r] = "reload" /\ pc'[r] = "failed" =>
       \A i \in Positions(store) :
         Usable(snap[r], i, call[r].fam) /\ Usable(store, i, call[r].fam)
           => store.order[i] \in tried[r]]_vars

\* clearAllAffinity: "all ongoing and upcoming conversations immediately steer to
\* the newly activated account rather than staying pinned to the previous one".
PinsFollowTheActivation ==
  [][\A r \in behind : pc[r] = "serve" /\ pc'[r] = "using" =>
       acct[r] = store.order[store.active]]_vars
=============================================================================
