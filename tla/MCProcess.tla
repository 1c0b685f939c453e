------------------------------- MODULE MCProcess -------------------------------
(***************************************************************************)
(* What the processes of the plugin keep beside the pool: the usage ledger *)
(* they share, and in each of them the model list, the verdict on a proxy, *)
(* the advertised version and the logins begun.  No step touches two of    *)
(* them, so that one moves in a behaviour and the others keep still.       *)
(***************************************************************************)
EXTENDS UsageLedger

CONSTANTS
  Part,   \* what moves
  Pool, Askers, Catalog, NoList, ListLife, Clock, MaxSwitches,
  Fetches, HealthyTtl, UnhealthyTtl, CheckTimeout, ProxyClock,
  LatestRelease, Fallback, VersionLife,
  Callbacks, Emails, NoEmail, LastLogin, LoginBound, LoginTtl

VARIABLES
  active, cached, flight, asks, answer, listTick, switching, suspect,
  up, health, check, fetch, proxyTick, lastUp, lastDown,
  cache, inFlight, asking, told, published, seen, feedTick,
  issuedAt, authPending, callback, exchanges, accounts, loginTick,
  part

listVars == <<active, cached, flight, asks, answer, listTick, switching, suspect>>
proxyVars == <<up, health, check, fetch, proxyTick, lastUp, lastDown>>
feedVars == <<cache, inFlight, asking, told, published, seen, feedTick>>
loginVars == <<issuedAt, authPending, callback, exchanges, accounts, loginTick>>
allVars == <<vars, listVars, proxyVars, feedVars, loginVars, part>>

List == INSTANCE ModelList WITH
  Lifetime <- ListLife, LastTick <- Clock, SilentMoves <- TRUE,
  pending <- switching, tick <- listTick
Proxy == INSTANCE ProxyHealth WITH LastTick <- ProxyClock, tick <- proxyTick
Feed == INSTANCE VersionFeed WITH
  Lifetime <- VersionLife, LastTick <- Clock, tick <- feedTick
Login == INSTANCE Logins WITH
  MaxPending <- LoginBound, Ttl <- LoginTtl, LastTick <- Clock,
  pending <- authPending, tick <- loginTick

AllInit ==
  /\ part \in Part
  /\ Init /\ List!Init /\ Proxy!Init /\ Feed!Init /\ Login!Init
  /\ part # "list" => active = CHOOSE a \in Pool : TRUE
  /\ part # "proxy" => up
  \* the ledger's file is made on first use in behaviours without faults, and else there
  /\ part # "ledger" => file # Absent
  /\ <<faults, deaths>> = IF file = Absent THEN <<MaxFaults, MaxDeaths>> ELSE <<0, 0>>

AllNext ==
  \/ part = "ledger" /\ Next /\ UNCHANGED <<listVars, proxyVars, feedVars, loginVars, part>>
  \/ part = "list" /\ List!Next /\ UNCHANGED <<vars, proxyVars, feedVars, loginVars, part>>
  \/ part = "proxy" /\ Proxy!Next /\ UNCHANGED <<vars, listVars, feedVars, loginVars, part>>
  \/ part = "feed" /\ Feed!Next /\ UNCHANGED <<vars, listVars, proxyVars, loginVars, part>>
  \/ part = "logins" /\ Login!Next /\ UNCHANGED <<vars, listVars, proxyVars, feedVars, part>>

\* the ledger's fairness, for the behaviours in which it moves
AllSpec ==
  /\ AllInit /\ [][AllNext]_allVars
  /\ \A p \in Procs : WF_vars(part = "ledger" /\ FlushStep(p)) /\ WF_vars(part = "ledger" /\ TimerFires(p))
  /\ WF_vars(part = "ledger" /\ LockGoesStale)

-----------------------------------------------------------------------------
(* The properties of the parts, under their own names.                      *)

\* Every variable of every part has its type.
AllTypesOK == TypeOK /\ List!TypeOK /\ Proxy!TypeOK /\ Feed!TypeOK /\ Login!TypeOK

\* No activation or rotation leaves the old account's models behind (ModelList).
QuietSwitchesDropTheList == List!QuietSwitchesDropTheList
\* No request is refused or sent on an outdated verdict (ProxyHealth).
VerdictsAreRecent == Proxy!VerdictsAreRecent
\* The advertised version is the newest the feed has told (VersionFeed).
AdvertisedIsTheNewestSeen == Feed!AdvertisedIsTheNewestSeen
\* An authorization is good once, and not lost to others (Logins).
LoginsWorkOnce == Login!LoginsWorkOnce
=============================================================================
