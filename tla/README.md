# A TLA+ model of dsh-agy

dsh-agy gives a harness (DSH) access to Google Antigravity through a pool of
Google accounts: it logs accounts in, keeps their credentials in one encrypted
document, chooses an account for every chat turn, refreshes access tokens, and
moves on to another account when one fails, is limited or runs out of quota.
What is hard about it is not any single function but that everything happens at
once over shared, mutable state: many turns, quota probes, health probes, a user
clicking in a settings page, and several processes over one file.

Around that pool stand files that several processes share, caches with one
fetch under way, a translator that must keep a history well-formed, and a page
that shows all of it with a delay.

This directory models these parts of the program, checks them with TLC and
proves the properties that matter most with TLAPS. Paths below are relative to the
repository; positions are 1-based in the models and 0-based in the code.

## 1. Inventory

| part | state | operations | talks to | module |
|---|---|---|---|---|
| **Account pool** `session.ts`, `runtime/rotation.ts` | pins, in-flight counts, failure counts; the account document through the store | `getSession`, `pickAccount`, `skipAccount`, `reportFailure`, `activateAccount`, `testCall`, `probeAccount` | store, tokens, Google | `SessionPool` |
| **Quota readings** `runtime/quota.ts`, `adapter/quota-summary.ts` | `quotaRefreshInFlight`, `cachedQuota` in the document | `refreshQuotaCache`, `ingestFamilyQuotas`, `isQuotaStale` | two quota endpoints, store | `QuotaReadings` |
| **Ranking** `runtime/quota.ts`, `pickAccount` in `session.ts` | none of its own: parks, limits and readings of a document, slots | `rankPoolCandidates`, `requiredDrainFor`, `isFamilyQuotaExhausted`, the block announced | pool | `Ranking` |
| **Access tokens** `session.ts`, `oauth/refresh.ts` | `tokenCache`, `refreshInFlight` | `accessTokenFor`, `refreshToken` | token endpoint, store | `TokenRefresh` |
| **Account store** `store/accounts.ts` | `accounts.json`, two temporary files, the lock directory | `load`, `mutate`, `ensureFile`, `materializeIdsWithLock` | file system, other processes | `AccountStore`, `AtomicStore` |
| **Stream adapter** `adapter/adapter.ts`, `runtime/identity.ts` | slots, session generations | `stream`, `streamInner`, `sendAttempt` | pool, upstream, ledger | `AdapterStream` |
| **Translation** `adapter/parse.ts`, `adapter/translate.ts`, `runtime/signature-cache.ts` | open block, signatures by call id | `parseAgySse`, `toAgyRequestBody` | harness, upstream | `Conversation` |
| **Model list** `adapter/adapter.ts`, `adapter/models.ts` | cached list, discovery in flight | `listAllModels`, `invalidateModelCache` | pool, upstream | `ModelList` |
| **Usage ledger** `stats.ts` | pending records, timer, `agy-stats.json` | `record`, `flush`, `flushSync` | file, other processes | `UsageLedger` |
| **Recent ring** `recent-store.ts` | ring, pending rows, `agy-recent.json` | `capture`, `flush` | file, other processes | `RecentRing` |
| **Master key** `store/keyring.ts`, `plugin-common.ts` | a credentials document | `resolveCodec`, `loadMasterKey`, `persistMasterKey` | credentials service, file | `MasterKey` |
| **Model visibility** `model-visibility.ts` | map, memo, `agy-models.json` | `disabledFor`, `setDisabled` | file, other processes | `ModelVisibility` |
| **Thinking budgets** `thinking-budget.ts`, settings card in `client/index.ts` | throttled copy, `agy-thinking.json`; stored values and drafts of the card | `get`, the setters; load, type, save | file, RPC | `ThinkingBudgets` |
| **Accounts tab** `client/index.ts` | rows, selection, proxy draft, messages | activate, delete, verify, proxy; reload | RPC | `AccountsPanel` |
| **Logins** `web/management.ts`, `oauth/exchange.ts`, `cli/import.ts` | `pendingAuth` | `auth.url`, the OAuth callback | Google, store | `Logins` |
| **Proxy health** `proxy.ts` | verdicts, checks in flight | `isProxyReachable`, `proxiedFetch` | proxy | `ProxyHealth` |
| **Client version** `runtime/version.ts` | cache, fetch in flight, the published version | `resolveAntigravityVersion`, `peek` | release feed | `VersionFeed` |
| **Management** `web/management.ts`, `cli/import.ts` | none of its own but `pendingAuth` | activate, delete, import | store, session manager | `SessionPool`, `Logins`, `ThinkingBudgets` |
| **Failure classification** `runtime/classify.ts` | none | `classifyHttpError`, `classifyFetchError` | called by the adapter | constant `Kinds` |
| PKCE, fingerprints, redaction, preferences, CLI, other panels, styles, RPC types | little or none | sequential or pure | | none |

(Sources are under `src/src/`.)

How they interact. A chat turn enters `stream`, obtains a session (an account
and a token) from `getSession`, takes an in-flight slot, sends the translated
history, parses the answer into blocks, and either finishes or calls
`reportFailure`; it is booked in the ledger and in the ring, and the slot is
released in a `finally`. `getSession` works on a **copy** of the document loaded
at the start of each attempt, overlays its own measurements on it, and writes
back single fields under the store's lock. All turns share the cursor
(`activeIndex`), the pins, the token cache and the document. The settings page
activates, deletes and imports accounts, and starts health probes and test calls
in the same process; the CLI does so from another one. Nothing is locked across
an `await`. The files are written by every process that runs the plugin, each
in its own way: under a lock with retries (accounts), under a lock without
(ledger, ring), without a lock (visibility, budgets, credentials).

What makes each part correct, in a sentence:

- pool: an account that a turn is served from is still fit in the document, unless
  others changed that account while the turn was getting there; nothing a
  turn writes undoes what another turn learnt; a failure is charged to the
  account that failed; a test call changes nothing; a failed token leads to every
  other usable account before the request is given up;
- quota: a spent window is measured again soon whatever else was measured, no
  week is taken for a five-hour window, a probe that says nothing of the week
  leaves it as it was;
- ranking: a caller told to retry at a moment finds an account then; having more
  left never costs an account its turn;
- tokens: one refresh at a time per account, whoever joined it is answered, a
  token that is handed out is alive, a dead credential is disabled and a live one
  is not, the cache is never ahead of the disk;
- store: operations of all processes are atomic and survive crashes, ids are
  drawn once;
- adapter: a turn's slot comes back once, however the turn ends; a resend goes to
  another upstream session, where sessions have names;
- translation: blocks open, grow and end in order; the next request says what
  the history says;
- ledger, ring: every record counts once unless it is known as dropped, the ring
  holds the newest rows, as far as the files can be read and the lock removed;
- master key: all processes work with one key until two make one at once, and no
  other credential is lost but by a write that another one crossed;
- visibility, budgets: a change keeps what others changed before it, as long as
  the changes of two writers do not overlap;
- model list, proxy verdict, version: what is cached is what it is taken for, and
  no older than it may be;
- logins: an authorization is good once;
- accounts tab: after an action a click acts on the account it shows.

The hard behaviours, each at its line, are the `hazards` of `PROJECT.json`.

## 2. The modules

Every module named in the table models one part; `AtomicStore` is what the
`AccountStore` interface promises. `*_proofs` hold the theorems: four about a
component, four about a composite and its parts. `MC*` modules
give TLC its instances: `MCSessionPool` and `MCTokenRefresh` add symmetry,
`MCQuotaAnswers` the answers of the quota endpoints, and four modules let TLC
check several parts in one run:

| composite | parts, and the variable that tells which of them moves |
|---|---|
| `MCPools` | `SessionPool` under three stresses (concurrent requests, edits, readings of every level), `QuotaReadings`, `Ranking` (`stress`) |
| `MCHostFiles` | `AccountStore`, `RecentRing`, `ModelVisibility`, `MasterKey` (`part`) |
| `MCProcess` | `UsageLedger`, `ModelList`, `ProxyHealth`, `VersionFeed`, `Logins` (`part`) |
| `MCTurns` | `AdapterStream`, `Conversation`, `ThinkingBudgets`, `AccountsPanel` (`part`) |

The parts of a composite share no state, so every interleaving of them is a
shuffle of behaviours of each: a property of one part holds of the composition
exactly if it holds of the behaviours in which only that part moves. `part` is
chosen at the start and never changes, and the other parts keep their initial
state, which spares TLC the product.

Where parts do interact, one abstracts the other behind the interface the code
has: `SessionPool` treats `store.load()` and `store.mutate()` as atomic, which
`AccountStore` justifies by implementing `AtomicStore`; it treats the answer of
`accessTokenFor` as an input (a token, an exception, a revocation), which is what
`TokenRefresh` computes, and a measurement as an input, which is what
`QuotaReadings` computes; it takes any unblocked candidate, of which `Ranking`
says which; `AdapterStream` treats the pool's choice and its
`reportFailure` as inputs, which `SessionPool` models; `AccountsPanel` keeps the
host as an ordered list with a cursor, edited as `ActivateSave` and `Delete` of
`SessionPool` edit it.

### SessionPool

`pc[r]` is where request `r` stands. Each label is an `await` of the code:

| label | the code is about to | actions |
|---|---|---|
| `idle` | load the document (`session.ts:919`) | `Begin`, `BeginTest` |
| `select` | re-measure stale accounts (`:944`) | `Measure`, `SkipMeasure` |
| `pick` | choose (`:948`) | `Pick`, `PickAsked` |
| `save` | write the cursor (`:892`) | `SaveActive`, `SaveFails` |
| `auth` | learn what became of the token (`:958`) | `TokenOk`, `TokenFails`, `TokenRevoked` |
| `skip` | write the cursor after a failed token (`:1079`) | `SaveSkip`, `SaveFails` |
| `revoked` | free the pins of a revoked account (`:987`) | `DropRevoked` |
| `reload` | load again and go round the loop (`:941`) | `Reload` |
| `serve` | heal the project, create the fingerprint, pin, return (`:992-1053`) | `Serve`, `SaveFails` |
| `using` | stream over the session | `Complete`, `Report` |

`snap[r]` is the `storage` variable of `getSession`: the loaded copy **with the
overlays** the code makes on it (readings, cleared expiries, cursor, disabled
accounts). `acct[r]` is the picked account, `loop[r]` the attempt counter and
what the attempts ended in. The document (`store`) has the order of the accounts,
the cursor and, per account, `enabled`, the cooldown with its reason, the
family limits and the readings. Three history variables are read by one
property each: `tried[r]`; `behind`, the requests past their pick when an
activation completed; and `apart[r]`, the accounts that **others** changed in the
document since `r` loaded it, with those whose readings `r` could not save. What
`ServedIsStillFit` says of all other accounts is about the document, not about
the copy: that the overlays, the cleared expiries and the writes of the
request itself have not let the two come apart.

Two tests of an account differ, as in the code: `Unblocked` is the strict one of
`rankPoolCandidates` (nothing is cooling, limited, or measured at zero), `Usable`
that of the pin and of the active account, which also gives up the last percent
of a week. `Measure` writes the readings of all families, on the copy and on the
document; a write that fails loses the readings but not the revocations, which
were saved before. `Report` frees the pins inside the mutation, so that with a
failing disk they are freed or not, by whether the update was run.

Abstractions:

- a quota reading is none, `Headroom`, or a zero with the tick its window
  resets, and apart from it `nearly`, the tick at which a week that is down to
  its last percent resets, which steering and healing count and ranking does not;
  the two windows and the two caches (`cachedQuota`, `cachedLimits`) are one reading;
- the order `rankPoolCandidates` gives unblocked candidates is left open, so
  every property holds for any ranking; the in-flight preference and the
  blocked/unblocked split are kept;
- `failureCounts` only chooses the tier of `backoffFor`, so the backoff is any of
  `1..BackoffTicks`; the bounded version probe at the head of `reportFailure`
  only delays it and is merged;
- an account is its identity (`accountKey`, a UUID): deleting it is final, a
  later login is a new identity (`unseen`);
- in-flight counts are derived from the streams under way; the moment between
  obtaining the session and taking the slot, and the ten-minute sweep of leaked
  slots, are left out here and modelled in `AdapterStream`;
- a measurement or token refresh that was joined is the starter's: its finding
  is an input either way;
- several disabling writes of one measurement land together with its readings;
- the project and fingerprint writes at the end of `getSession` are not told
  apart: what is kept is that they may fail the request.

### TokenRefresh

One account suffices because accounts share none of this state. A caller loads
the account (`copy`), then either takes the cached token (`UseCached`, starting
a background refresh inside the skew) or waits for a refresh (`AwaitRefresh`),
its own or the one in flight. A flight goes `asking`, then `saving` (client id of
a legacy account) or `disabling` (invalid_grant), and settles, which answers
everyone waiting on it and frees the slot. `Relogin` replaces the credential
under the same key, with the client id that the login brings or the one that was
known, `RevokedAtGoogle` makes Google reject a credential,
`ReportRevoked` is the revoking branch of `reportFailure`. The candidate client
ids of one refresh are tried inside one `asking`. A token's life is counted from
the start of the asking, as in `calculateTokenExpiry`. Not modelled: a
malformed `expires_in`, and a refresh token rotated by the server (a hazard).

### AccountStore, AtomicStore

Each call runs in its own process, so all its file-system steps interleave with
all others': `load` reads without the lock and is done unless ids are missing;
otherwise, and in `mutate`, `ensureFile` looks, writes `tmp-init` and renames it,
then the lock is taken (or given up on), the document is read again, the update
written to `tmp` and renamed, and the lock released. Temporary names are shared,
as in the code. A process may die or fail at any step; a dead holder's lock is
taken over once stale. `MayStall` lets a live holder lose its lock too. The
document is the set of mutations applied to it and who drew its ids.

The refinement maps `file` to `doc` and the decided replies to `reply`. A
document that is being created on first use is exempt from `IsAtomic`
(`StoreDoc`), because there the promise does not hold: that is finding 5.

### QuotaReadings

`refreshQuotaCache` for one account. A reading is a fraction in permille and the
tick its window refills; `doc` is `cachedQuota` with its stamp. A request finds
the document stale (`Ask`), joins the probe of its process or starts one with
its copy; the two answers become one reading per family and window (`Measured`,
with `Found` for the merge and `Carried` for the week taken from the copy), or
the probe fails; whoever waited then writes the result over the cache (`Write`,
which may fail silently). `FamiliesOf`, `Agrees`, `FromGroups` are
`familiesForGroup`, `agreedWindowKind` and `ingestQuotaGroups`; `Ttls` is the
interval `isQuotaStale` takes from the most pressed family (a set, because among
equals the code takes whichever comes first). Bucket ids and labels are reduced
to the families they name and the window they advertise. Left out: the sharing
of the summary probe with the display path, the lifting of a park by a healthy
reading (that is in `SessionPool`), several accounts measured in one call.

### Ranking

What `pickAccount` makes of a document when no pin holds, for one model family.
An account has a wall (cooldown with its reason, limit) and a reading of each
window, as in `QuotaReadings`. `Choice` is the active account when `IsUsable` and
not saturated, else the first by `Precedes` of the unblocked candidates with
room, else of all unblocked ones; `Precedes` is the comparison of
`rankPoolCandidates`, with `Drain` as a fraction compared by cross-multiplying.
`Block` is the `AgyPoolBlockedError`. `Choose` moves the cursor or announces a
block; turns fill and free slots (`Saturate`, `Settle`), and readings, parks and
limits lapse as `Tick` passes. The document itself stays, so that a retry at the
announced moment meets what it was announced for. The order of blocked
candidates is left out: only the earliest of their moments is used. The four
judgements of "spent" are four definitions: `Exhausted` (steering),
`BlockedUntil` (ranking), `WaitsForQuota` (the class of the block), `IsHealthy`
(the lifting of parks, by `cachedQuota`; the display windows may lift one too).

### AdapterStream

A turn goes through image resolution, the session, the slot, one or two
attempts, the stream, the report and the record, with the consumer free to stop
it at any wait. `slots` is the in-flight counter with its stamp and the discard
of counters that nothing touched; `table` is the bounded table of session
generations, `full` the upstream sessions that refused. A session is named after
the conversation, the account's e-mail and the generation: an account without
one (`Nameless`) has no session id, its resends lead to no new session, and
`ResendsEscapeTheWall` is about the others. Which account the pool
gives and what the upstream answers are inputs.

### Conversation

The lines of an answer become blocks (`parser`), blocks become history, the
harness answers calls, and the history becomes the next request. A part of an
answer is text, reasoning or a call; of a text only its kind and emptiness
matter. `GivesIds` says whether the upstream gives its calls ids; without them
the code falls back to the block index, which is finding 6. `signatures` is the
cache of thought signatures, with one nondeterministic `Forget` for its bound
and its expiry. Schema cleaning, images and sampling settings are left out.

### UsageLedger, RecentRing

A flush is synchronous inside its process and is interleaved with other
processes at every system call: looking for the file, making it, taking the lock
(which is not retried), reading, writing aside, renaming, releasing. The disk may
refuse any of them, the process may die between any two, and a failed flush puts
its batch back. Three refusals have effects of their own. A file that cannot be
read is taken for an empty one and replaced: `replaced` notes it, and with it the
file's promises end. A lock that cannot be removed, by a flush that failed or by
one that had renamed, stays behind and goes stale. And in the second case the
error of the release sends a batch back that **has** been written, so that its
records count twice: `doubled` notes them, and no other record is excepted. The
ledger caps its backlog, prunes days and adds up windows; the
ring merges with other processes' rows and keeps the newest. A record is a
number, a row its capture key.

### ModelVisibility, MasterKey, ThinkingBudgets

Three files without a lock, each written by a temporary file whose name all
processes share. Their files are inodes: a writer that still has the temporary file
open after another has renamed it writes into the file itself. What is lost when
writers overlap is in the models, and each has history variables that say which
promises such a meeting ends, so that the rest can be stated: `overlapped` (two
toggles at once), `raced` (two starts were making a key at once) and `crossed`
(those starts, and every start whose text is older than the document it replaces),
`contested` (the budgets that two processes' saves at once put in doubt, until a
save of the field that nobody runs into).

`MasterKey` has the layouts of the credentials document (stamped, flat,
with the key at top level, and foreign, which a start reads but refuses to rewrite)
and resolves the key as the plugin does, with the credentials service (external),
and as the CLI does, without it. `ThinkingBudgets` has stores with throttled copies
in one process or several, and in the browser stored values apart from drafts. A
save is one synchronous call: the stores of its own process wait for it, those of
the others do not, and interleave with its reading, its opening and filling of the
temporary file, and its rename.

### AccountsPanel

`rows` is the last `account.list`, by position; `selected`, `detail` the selected
position and the mounted detail with its proxy draft; `action` the one action under
way, `reload` the list calls; `verdict` and `timers` the message channel of
verifications. The host answers in its own time, replies may be lost after the call
took effect, and others edit the pool, disable accounts and move its cursor. `Shown`
is the host's answer, in which a disabled account is not the active one, and
`Resolved` the selection, which is then clamped. `old` (lists taken before a change
they do not show) and `outdated` (others changed the pool, a reply was lost, an
action's list failed, an old list arrived) are set by these causes and not by
comparing the rows with the host.

### ModelList, ProxyHealth, VersionFeed, Logins

Three caches with one fetch under way that others join, and the pending
authorizations. `ModelList` adds the events that drop the list, each of which saves
the new account first and drops the list some steps later (`pending`), and the
active-account changes that do not drop it; `ProxyHealth` what a check may have met while
it ran; `VersionFeed` the bounded wait, and a feed that may answer late or with
something older; `Logins` expiry, pruning, the bound, and callbacks that arrive
twice.

## 3. Runs

The sets are small because each property needs only few actors to break; for
every property a mutant of the code it is about breaks it on the same instance.

| run | checks | instance | outcome |
|---|---|---|---|
| `pool` | `AllTypesOK`, `ServedIsStillFit`, `SelectionNeverLiftsAPark`, `TestCallsLeaveThePoolAlone`, `BlameStaysOnTheAccount`; `SpentFamiliesAreRemeasured`, `RollingWindowsAreShort`, `CarriedWeeksSurvive`; `RetriesFindAnAccount`, `MoreIsNeverWorse` | 3 identities, 2 enrolled; either 2 requests of one conversation with failing writes and revocations; or 1 request with a probe or an edit, and a tick; or 2 requests in turn over readings of every level; or 2 measurements in one process over 4 ticks; or 2 accounts ranked over 3 ticks | holds |
| `pool_failover` | `FitAccountsAreTriedBeforeGivingUp` | 2 accounts, 2 requests, no edits | **violated** |
| `pool_probe` | `ProbeTouchesOnlyItsAccount` | 1 probe, 1 edit | **violated** |
| `pool_activation` | `PinsFollowTheActivation` | 1 edit, 2 requests | **violated** |
| `token_refresh` | `TypeOK`, `OneRefreshAtATime`, `CacheFollowsDisk`, `ServedTokensAreLive`, `EveryCallerIsAnswered` | 2 callers, 2 credentials, 5 ticks | holds |
| `token_relogin` | `RejectionSparesANewLogin` | same | **violated** |
| `host_files` | `WritersExclude`, `IsAtomic`; `FileKeepsTheNewest`, `CapturesSurvive`; `NoToggleIsLost`, `AnswersFollowTheFile`; `AccountsStayReadable`, `CredentialsSurvive`; `AllTypesOK` | 2 loads and 3 mutations; 2 processes with 2 rows each, a ring of 2, a refusal and a death; 2 instances, 2 models, 3 toggles; 2 plugin starts and 1 of the CLI, one other reference, every layout | holds |
| `store_first_use` | `CommittedStays` | no file at start, 1 load, 2 mutations | **violated** |
| `process` | `EveryRecordCountsOnce`, `WindowsAreComplete`, `RecordsAreSettled`; `QuietSwitchesDropTheList`; `VerdictsAreRecent`; `AdvertisedIsTheNewestSeen`; `LoginsWorkOnce`; `AllTypesOK` | 2 processes with 2 records each, a backlog of 1, 3 days, a refusal and a death; 2 accounts, 2 askers, 2 switches whose drop is to come; 2 fetches, 9 ticks; 2 releases; 3 logins, 2 callbacks | holds |
| `turns` | `TurnsSettleOnce`, `ResendsEscapeTheWall`; `ChunksAreWellFormed`, `RequestsAreSound`; `SavedBudgetsStand`; `RowsFollowTheActions`, `VerdictsLast`; `AllTypesOK` | 2 turns in 1 conversation over 2 accounts, one of them nameless, a table of 1; 2 parts and 4 messages; 2 processes, 2 stores, 2 cards, 2 fields; 2 accounts, 2 reloads, 1 edit elsewhere, 2 ticks | holds |
| `conversation_ids` | `ResultsNameTheirFunction` | no ids, 3 parts, 4 messages | **violated** |
| `budget_drafts` | `OnlyTypedBudgetsAreSaved` | 1 store, 1 card, the tiered field | **violated** |

Bounds, all constants:

- Clocks: a pool tick lets backoffs, limits and readings of one tick expire
  between two steps of a request; `LastTick` 4 in the quota part lets a rolling
  window (2) lapse and every interval but the longest (3) run out after a
  measurement; 5 in `token_refresh`, enough for a token (4 ticks) to be issued,
  come due, expire and be refreshed again; 9 in the proxy part, three times the
  life of a good verdict; 2 days after the first for the ledger, one more than a
  window reaches back. The panel's 2 ticks let one message outlive another.
- `MaxInFlight` is 1 instead of 3, so that two streams saturate an account; the
  generation table holds 1 pair instead of 500, the ring 2 rows, the backlog 1
  record, the pending authorizations 1, so that all of these overflow.
- The pool's, the files' and the ledger's `MaxEdits`, `MaxFaults`, `MaxDeaths`, `MaxEnds` are 1: one edit, refusal or
  death at any point; the proofs of the pool and the store cover any number.
- Requests and operations of a run are used once, callers and turns repeatedly,
  two or three of each: the counterexamples found all need two.
- `LastGen` 2: the credential before and after one new login. `Resets` is {0}
  (limits without a reset time); the proofs cover any.
- The quota part has one process. Its answers are one pair of model reports and
  three summaries (none; a spent week in both families; a week declared as a
  rolling window with a bucket no id names), with gaps on either side.
- The ranking part has every pair of accounts that are disabled or have one of 4
  walls, 4 rolling and 4 weekly readings, with both cursors, over 3 ticks, in
  which walls and resets lapse in different orders. The comparison is pairwise, and
  the proofs cover any number of accounts.
- The composites fix what a part that keeps still starts with, and of several
  starts that are alike the moving part keeps one (budgets: no budget set; the
  ring's and the ledger's file is absent only in behaviours without faults).

`SYMMETRY` is over names that nothing distinguishes, in runs without a liveness
property. Deadlock is not checked where the finite instances do stop: requests,
loads and mutations are used once, and clocks end.

### Findings

1. **Failover can skip a fit account** (`session.ts:978`). The loop moves off a
   failed account only by moving the cursor that all requests share. With two
   accounts, request 1 fails on the active one and skips to the other; request 2
   saturates or re-points it; request 1 picks the failed account again, and
   reports a failure having never asked the fit one.
2. **A health probe heals its neighbour** (`session.ts:1379`): it writes by
   position after two network calls.
3. **A turn in flight re-pins the old account after an activation**
   (`session.ts:1047`), contrary to the comment on `clearAllAffinity`.
4. **A late rejection disables a new login** (`session.ts:500`).
5. **First use loses a mutation** (`store/accounts.ts:205`): the check for the
   file and its creation are outside the lock.
6. **A result is sent under another function's name** (`adapter/parse.ts:276`)
   when the upstream gives its calls no ids: the block index that stands in for
   them repeats.
7. **Leaving an untouched box clears a budget** (`client/index.ts:1210`): loading
   the card replaces the drafts without the tiered one.

More was met in modelling and has no run: a probe whose copy predates another
request's write erases the week that one learnt (`quota.ts:322`); a drained family can hide behind a lower number with
a lower threshold (`quota.ts:430`); the proxy draft stays in the box when another
account takes its position (`client/index.ts:902`); `requiredDrainFor` takes a
rolling reading whose reset has passed for one about to lapse, so the account
ranks by a window that no longer exists (`quota.ts:534`), which every other
judgement of the window ignores; and a block announced as "quota-exhausted"
carries the end of a shorter wall in place of the reset, which nobody reads
(`session.ts:887`).

### Fairness

`TokenRefresh` states weak fairness of each refresh's own steps (`FlightStep`).
The endpoint answers, refuses or the request times out (the HTTP client bounds
the wait), the store's lock is granted or given up on after ten retries, and the
promise then settles: the event loop runs it. No fairness is assumed of callers,
of the user or of the clock; the clock cannot pass the longest wait while a
refresh is under way, which is what a timeout means.

`UsageLedger` states weak fairness of the steps of a flush (it is synchronous
code), of the retry timer (`TimerFires`: the event loop of a live process) and of
`LockGoesStale` (nobody refreshes the lock of a dead holder, or one that could not be
removed). None is assumed of new
records, refusals, deaths or exits.

## 4. Proofs

Every theorem is for all values of the constants, under the named assumptions of
the modules or the hypotheses it states.

**SessionPool_proofs.** `TypeCorrect`, `ServedIsFit`, `BlameIsByKey`,
`TestCallsAreHarmless`, `SelectionIsSafe`, all from one inductive invariant
`IInv`: the shapes, plus for every request `Coherent(pc, call, snap, acct)`:
a picked account stands in the request's copy; a test call's position is one of
its copy; only chat turns measure, move the cursor or loop. That `TokenFails` keeps
types needs the account present in the copy (`PositionOf` is a `CHOOSE`), and that
`SaveActive` belongs to no test call needs the last conjunct. `ServedIsFit` needs a
second invariant over the first, `History`, which relates the copy to the document:
until the pick, an account that is not in `apart` is in the document and has there
the state it has in the copy; after it the picked account, if not in `apart`, is
enabled and free **in the document**. So every step has to be shown to change both
alike or to note the difference: the two overlays of `Measure` with the same
readings, its failed write, a revocation on both sides, the cursor's writes, which
touch no account, and everything others do. Cleared expiries exist in the copy only,
and `FitIsOpen` says that they change no judgement.
There is one lemma per action. The data lemmas say what `ClearExpired`,
`WithReading`, `DecidedState`, `Upserted` and the splice of `Delete` do to a
document; `NextPosition` returns an enabled position by well-foundedness of the
naturals. The proof of "no account twice" needs the initial document to satisfy
it (`EnrolledAssumption`), which the repository guarantees by drawing ids afresh
for duplicates (`ensureAccountIds`).

**TokenRefresh_proofs.** `TypeCorrect`, `SingleFlight`, `CacheIsBackedByDisk`
(strengthened by `KnownIsKept`: every copy that knows the client id is of a state
in which the document did), `TokensAreLive` (strengthened by `FlightsAreYoung`:
a refresh is no older than the longest wait and its token lives from the asking;
together with `LifeAssumption`, that a token outlives the wait, this is what
makes a late answer usable).

**AccountStore_proofs.** `TypeCorrect`, `Exclusion` and `Atomicity`, the last two
assuming that no live holder stalls past the staleness of its lock. `Exclusion`
rests on `HoldersHold` (whoever works under the lock holds it). `Atomicity` adds
that a writer's buffer is its update of the document **as it is now**
(`BuffersFollow`, true because of exclusion), that an existing document is never
taken for missing, and that nobody is answered before the rename; every step
then maps to `Take` of the abstract store or to a stutter.

**UsageLedger_proofs.** `LedgerTypeCorrect`, `RecordsCountOnce` and
`WindowsStayComplete`. `EveryRecordCountsOnce` needs three things to be
inductive. `DiskInv`: the live process that works under the lock has it, an empty
ledger is all that can be put in the place of a missing one, and what is about to
be renamed is the file of **now** with the batch added. `HeldOnce`: batch and
backlog of a process are sequences without repetition, apart from each other, of
records of its own that were made and not dropped (so that occurrences can be
counted by sets). `BookedOnce`: the file counts exactly what was made and is
neither held nor dropped, but for `doubled` records. Every step that moves records (a
new one, a flush that begins, one that fails) is a case of `MovingKeepsHeld` and
`FileKeepsRecords`; only a rename books (`BookedRecords`), and the one whose release
fails also puts back, which is why its records are excepted (`ReleaseFailsRecords`). `DatedOnce` adds the day, and that a batch is never of a
later day than today (`BatchesAreUnderway`), which is why pruning by the day of
the batch cuts nothing a window still shows.

The other four modules prove each part of a composite by itself, from an invariant
of its own, and then for the composite: a step of the composite is a step of the
part or leaves its variables alone (the `...ByItself` lemmas), so the part's
theorem carries over to `AllSpec`, whichever part moves.

**MCProcess_proofs** (`ProcessTypesAreCorrect` and):

- `LoginsAreGoodOnce`: an authorization that is pending has not been sent
  (`UnusedUntilConsumed`), a callback under way has its login to itself
  (`CallbackOwnsItsLogin`), and a stored credential came of a login that is over
  (`CredentialIsStoredOnce`). That pruning keeps the latest is a statement about
  cardinalities of intervals (`PrunedKeepsTheLatest`).
- `VerdictsStayRecent`: a check is never older than its time-out and whatever it may
  have met has been the case since it began (`CheckIsCurrent`); a verdict was true at
  most a check before it was stored (`VerdictWasTrue`). Whoever joins a check late is
  covered by the first, whoever uses the cache by the second.
- `AdvertisedStaysNewest`: what is published was told and bounds both what was told
  and what is remembered (`NewestPublished`).
- `QuietSwitchesAreSafe`: with no drop to come, and unless a switch went unnoticed, a
  discovery that has its session is the active account's (`FlightIsOfTheActive`).

**MCHostFiles_proofs** (`FileTypesAreCorrect` and):

- `TheFileKeepsTheNewest`, `CapturesAreNotLost`: of the processes that run one at most
  is inside the lock (`OneFlushes`), a flush under way has its batch
  (`RowsAreHeld`), what it is about to put in place is its batch merged into the file
  **as it still is** (`MergesAreCurrent`), and the file is a ring of all that was
  flushed to it (`FileIsARing`), until a ring that could not be read was replaced. A lock
  that was left behind is of nobody inside it. The lemmas about `Merged` say that the merge of a
  ring with a batch is the ring of both: a row that was cut once is never among the
  newest later.
- `TogglesAreNotLost`, `AnswersFollowTheSettings`: what an instance remembers is what
  it last read or wrote, and its memo is the set of that (`CopiesAgree`); as long as no
  two toggles overlapped, one is under way at most, has a temporary file to itself and
  is about to write the map that all toggles make (`Alone`).
- `AccountsAreReadable`, `OtherReferencesSurvive`: any two that are making a key at once
  are noted as such (`MakersCross`); until then accounts are sealed under the document's
  key only, which every running process has, and who makes a key found none (`OneKey`);
  a text about to be written has its maker's key and, unless crossed, the references of
  the document as it is, and gets into the temporary file undisturbed if its writer is
  alone (`TextsAreOwn`). Nothing is assumed about who starts when.

**MCTurns_proofs** (`TurnTypesAreCorrect` and):

- `TurnsAreSettledOnce`: a turn has a slot from its first attempt to its end
  (`SlotsAreHeld`), and the counter of an account counts exactly those, or fewer where
  it was discarded under them (`SlotsAreCounted`); reports and records follow the place
  where the turn stands (`TurnsAreBooked`).
- `ResendsAreEscapes`: as long as a conversation was not evicted, its generation in the
  table is above that of every session that was found full and no turn is ahead of
  it (`GenerationsGrow`); a bump therefore leads past all of them, on every account
  that names its sessions.
- `BlocksAreWellFormed`: while an answer is read, its chunks fit those before them,
  blocks opened and closed are as many as the index says, and every delta of the
  index is of the open block (`AnswerInv`); between two lines nothing is open but
  before the first block (`AnswerGoesOn`); then usage and the finish follow once
  (`AnswerIsOver`). The counts of the property are cardinalities; `CountOf` and its
  lemmas say what a chunk more does to them.
- `NextRequestsAreSound`: a call of the history is one that was made, under the id and
  the name it was given then (`IsOfMade`); a result is of a call of an earlier message
  or has no id and is not sent (`IsAnswered`); a signature is kept under the id of the
  call it came with (`SignaturesAreOwn`). So an id has one call (`IdsNameTheirCall`).
  About a request it is enough to know its parts: the recursive functions that flatten
  and coalesce exist (`AddingGoesOn`, `TurnsGoOn`), what flattening puts at a place
  and before it is what the sequences hold up to there (`FlatPlaces`), coalescing
  leaves turns of like parts with unlike neighbours that flatten to the same
  (`CoalescedIsRight`), and stripping takes only parts of the model
  (`StrippedIsRight`). Each of these is an induction over numbers or sequences,
  which takes a set in place of the predicate (`NumbersFollow`, `SequencesGrow`).
- `OtherBudgetsSurvive`: a process is in the middle of one save at most, and so is the
  machine while no two have met (`OneSavePerProcess`); then what a save is about to
  write is what was last saved for every other field, and the temporary file is its own
  and holds the text in full (`Sound`).
- `RowsAreWhatIsActedOn`: a list that is not old is what the host would hand out now
  (`ListsAreFresh`); an action's own reload comes after its effect (`OwnReloadsLast`);
  rows that are not outdated are the host's accounts, or will be after the reload that
  an action waits for (`RowsAreExpected`);
  `VerdictsAreSeen`: a verdict on screen has no dismissal pending but its own
  (`MessagesRight`).

**MCPools_proofs** (`PoolTypesAreCorrect` and):

- `NoWeekIsFiledAsRolling`, `WeeksAreCarried`: a probe is of someone who waits for it
  (`ProbesAreWaitedOn`), and an update is of one measurement: its rolling windows
  refill within the span of its stamp, its weeks that were not told are those of the
  copy it was made from (`UpdatesAreOfOneProbe`). `SpentFamiliesAreMeasuredAgain` then
  follows without induction: a family pressed to its last percent pulls the most
  pressed family to the shortest interval (`PressureShortens`).
- `HavingMoreIsNeverWorse`: the comparison of the candidates is that of six-part keys
  (`CandidatesAreKeys`), the keys are in a strict total order (`KeysAreOrdered`, which
  rests on the transitivity of cross-multiplied fractions, `FractionsCompare`), so every
  set of candidates has exactly one first (`SomeoneIsFirst`). An account with more left
  is judged no worse by any of the four rules (`NoWorseJudged`), loses no comparison
  it won (`FullerStillPrecede`) and stays chosen (`FullerIsChosen`). Choosing by
  `CHOOSE` is thereby shown to be no choice at all.
- `RetriesAreNotInVain`: whoever is told to retry is told so because of an account that
  is enabled, has no window at zero, and whose walls end by the announced moment
  (`WillBeFree`), which neither time nor other requests take back.

The theorems of these four take what they need of the constants as hypotheses
(`ProcessBounds`, `FileBounds`, `TurnBounds`, `PoolBounds`); the others use the
assumptions of their modules. The hypotheses say that bounds, moments and durations are
numbers, that lifetimes are positive, that the names of nobody and of nothing are of
nobody and nothing, and, for the readings, what an endpoint may state: a fraction in
permille or none, a rolling window within its span in the per-model answer, and
a bucket beyond that span labelled weekly in its id or its window. All of them
hold of the instances TLC checks.

Only model-checked: the liveness properties `EveryCallerIsAnswered` and
`RecordsAreSettled`, which are beyond the prover, and the seven violations, whose
point is a trace. Every safety invariant and every action property that a run
checks is stated by a theorem. No module uses a `RECURSIVE` operator.

## 5. Not modelled, and why

Wording, layout, styles and locales; header assembly, PKCE, redaction and the
fingerprint's fields; encryption and the v1-v4 migrations, which change how a
document is written, not when; which response text yields which failure kind;
image upload, schema cleaning and sampling settings; proxy URL parsing and
dispatchers: all of these are data or rendering, and nothing interleaves in them.
The display windows (`refreshLimits`, burn rate), the model
tab, the usage tab and the export of the browser client only show what the
modelled operations produce. The CLI calls the same operations. UI preferences
are one more settings file, written like the budgets but without copies. The
build output under `lib/` is generated from the sources above.

## 6. What is left

1. The display windows (`refreshLimits`, the shared summary probe, burn rates):
   an answer that comes late is written over a later one.
2. `AccountStore` with `MayStall`: how much is lost when a live holder stalls past the
   staleness of its lock. What two first starts or two saves at once lose is modelled
   and excepted from the properties; how it is bounded is not stated.
3. `SessionPool` over `TokenRefresh` and `QuotaReadings` for one account, so that a
   revocation or a reading of one request reaches the copies of the others, and
   `Ranking` in place of its free choice.
