------------------------------- MODULE ModelList -------------------------------
(***************************************************************************)
(* AgyAdapter.listAllModels: the models of the account that discovery      *)
(* rides, cached for a while, discovered once for everyone who asks, and    *)
(* dropped by the events that are known to switch the account.             *)
(*                                                                         *)
(* A list is named after its account; Catalog is the built-in one.         *)
(***************************************************************************)
EXTENDS Naturals

CONSTANTS
  Pool,         \* accounts
  Askers,       \* callers of listAllModels
  Catalog,
  NoList,
  Lifetime,     \* ticks a cached list is served for
  LastTick,     \* bound on the clock
  MaxSwitches,  \* bound on the switches whose drop has yet to come
  SilentMoves   \* whether the account may change by other ways than activation and rotation

VARIABLES
  active,   \* the account getSession would answer with
  cached,   \* cachedModels: a list and when it was stored
  flight,   \* inFlightModels: none, asking for a session, or fetching, and for whom
  asks,     \* idle, or waiting on the flight
  answer,   \* what each asker was last told
  tick,
  pending,  \* switches made whose call of invalidateModelCache has yet to come
  suspect   \* since the last drop the account changed unnoticed, or that drop found a
            \* discovery under way for another account

vars == <<active, cached, flight, asks, answer, tick, pending, suspect>>

Lists == Pool \cup {Catalog}
Empty == [models |-> NoList, at |-> 0]
NoFlight == [stage |-> "none", of |-> NoList]

Init ==
  /\ active \in Pool
  /\ cached = Empty
  /\ flight = NoFlight
  /\ asks = [k \in Askers |-> "idle"]
  /\ answer = [k \in Askers |-> NoList]
  /\ tick = 0
  /\ pending = 0
  /\ suspect = FALSE

IsFresh == cached.models # NoList /\ tick < cached.at + Lifetime

\* from the cache, by joining the discovery under way, or by starting one
Ask(k, force) ==
  /\ asks[k] = "idle"
  /\ IF ~force /\ IsFresh
       THEN answer' = [answer EXCEPT ![k] = cached.models] /\ UNCHANGED <<asks, flight>>
       ELSE /\ asks' = [asks EXCEPT ![k] = "waiting"]
            /\ flight' = IF flight = NoFlight THEN [stage |-> "session", of |-> NoList] ELSE flight
            /\ UNCHANGED answer
  /\ UNCHANGED <<active, cached, tick, pending, suspect>>

\* whoever waits is told, and the slot is free again
Settle(list) ==
  /\ answer' = [k \in Askers |-> IF asks[k] = "waiting" THEN list ELSE answer[k]]
  /\ asks' = [k \in Askers |-> "idle"]
  /\ flight' = NoFlight
  /\ UNCHANGED <<active, tick, pending, suspect>>

\* getSession has picked its account; what it still awaits for it, a token, comes after
GotSession ==
  /\ flight.stage = "session"
  /\ flight' = [stage |-> "fetching", of |-> active]
  /\ UNCHANGED <<active, cached, asks, answer, tick, pending, suspect>>

\* nobody is logged in: the built-in list, which is cached like any other
NoSession ==
  /\ flight.stage = "session"
  /\ cached' = [models |-> Catalog, at |-> tick]
  /\ Settle(Catalog)

\* the pool is blocked or the login is refused: the built-in list, not cached
PoolRefuses ==
  /\ flight # NoFlight
  /\ UNCHANGED cached
  /\ Settle(Catalog)

\* anything else: the last list however old, or else the error
SessionFails ==
  /\ flight # NoFlight
  /\ UNCHANGED cached
  /\ Settle(cached.models)

\* fetchAvailableModels tries its endpoints in turn; when all fail, or name nothing to
\* chat with, listAgyModels falls back to the built-in list
Fetched ==
  /\ flight.stage = "fetching"
  /\ \E list \in {flight.of, Catalog} :
       /\ cached' = [models |-> list, at |-> tick]
       /\ Settle(list)

\* account.activate and reportFailure have saved the cursor, on whichever account, the same
\* one too; the list is dropped when their caller goes on
Switch(a) ==
  /\ pending < MaxSwitches
  /\ active' = a
  /\ pending' = pending + 1
  /\ UNCHANGED <<cached, flight, asks, answer, tick, suspect>>

KeepsTheList == cached
Dropped == Empty

\* invalidateModelCache, which does not concern itself with the discovery under way
Drop ==
  /\ pending > 0
  /\ cached' = Dropped
  /\ pending' = pending - 1
  /\ suspect' = (flight.stage = "fetching" /\ flight.of # active)
  /\ UNCHANGED <<active, flight, asks, answer, tick>>

\* the account is deleted, disabled, or passed over by a selection: nobody is told
MoveSilently(a) ==
  /\ SilentMoves /\ a # active
  /\ active' = a
  /\ suspect' = TRUE
  /\ UNCHANGED <<cached, flight, asks, answer, tick, pending>>

Tick ==
  /\ tick < LastTick
  /\ tick' = tick + 1
  /\ UNCHANGED <<active, cached, flight, asks, answer, pending, suspect>>

Discovery == GotSession \/ NoSession \/ PoolRefuses \/ SessionFails \/ Fetched

Next ==
  \/ \E k \in Askers, force \in BOOLEAN : Ask(k, force)
  \/ Discovery
  \/ \E a \in Pool : Switch(a) \/ MoveSilently(a)
  \/ Drop
  \/ Tick

Spec == Init /\ [][Next]_vars

-----------------------------------------------------------------------------
(* Properties.                                                              *)

TypeOK ==
  /\ active \in Pool
  /\ cached \in [models: Lists \cup {NoList}, at: 0..LastTick]
  /\ flight \in [stage: {"none", "session", "fetching"}, of: Pool \cup {NoList}]
  /\ asks \in [Askers -> {"idle", "waiting"}]
  /\ answer \in [Askers -> Lists \cup {NoList}]
  /\ tick \in 0..LastTick /\ pending \in 0..MaxSwitches /\ suspect \in BOOLEAN

\* Once every activation and rotation has had its drop, what is cached is of the active
\* account or built in, whichever discovery ended meanwhile: unless the last drop came
\* during a discovery for another account, or the account has moved unnoticed since.
QuietSwitchesDropTheList ==
  pending = 0 /\ ~suspect => cached.models \in {active, Catalog, NoList}
=============================================================================
