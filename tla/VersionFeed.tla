------------------------------ MODULE VersionFeed ------------------------------
(***************************************************************************)
(* The client version that every User-Agent advertises: read from the       *)
(* release feed of the claimed product, remembered for a while, fetched     *)
(* once for everyone who asks, and published only upwards.  The code keeps  *)
(* a second feed apart, which no request of the plugin or of the command    *)
(* line asks.                                                              *)
(***************************************************************************)
EXTENDS Naturals, FiniteSetsExt

CONSTANTS
  Askers,       \* callers of resolveAntigravityVersion, bounded or not, and of peek
  LatestRelease,       \* versions are 1..LatestRelease
  Fallback,     \* AGY_VERSION_FALLBACK
  Lifetime,     \* VERSION_CACHE_TTL_MS, in ticks
  LastTick      \* bound on the clock

VARIABLES
  cache,       \* the newest version the feed has told, and when; version 0 is none
  inFlight,
  asking,      \* idle, waiting, or waiting at most for the bound
  told,        \* what each asker was last told, 0 for nothing
  published,   \* publishedVersion: what User-Agents carry; 0 stands for the pinned fallback
  seen,        \* every version the feed has told this process
  tick

vars == <<cache, inFlight, asking, told, published, seen, tick>>

Versions == 1..LatestRelease

Init ==
  /\ cache = [version |-> 0, at |-> 0]
  /\ inFlight = FALSE
  /\ asking = [k \in Askers |-> "idle"]
  /\ told = [k \in Askers |-> 0]
  /\ published = 0
  /\ seen = {}
  /\ tick = 0

IsFresh == cache.version # 0 /\ tick < cache.at + Lifetime

Larger(a, b) == IF a >= b THEN a ELSE b
\* publishVersion: never below what was published
PublishesAnything(v) == v
Published(v) == Larger(v, published)

\* resolveObservedVersion: a fresh version at once (and published), or the fetch
Ask(k, way) ==
  /\ asking[k] = "idle"
  /\ IF IsFresh
       THEN /\ told' = [told EXCEPT ![k] = cache.version]
            /\ published' = Published(cache.version)
            /\ UNCHANGED <<asking, inFlight>>
       ELSE /\ asking' = [asking EXCEPT ![k] = way]
            /\ inFlight' = TRUE
            /\ UNCHANGED <<told, published>>
  /\ UNCHANGED <<cache, seen, tick>>

\* peekCachedAntigravityVersion
Peek(k) ==
  /\ asking[k] = "idle" /\ IsFresh
  /\ told' = [told EXCEPT ![k] = cache.version]
  /\ published' = Published(cache.version)
  /\ UNCHANGED <<cache, inFlight, asking, seen, tick>>

\* what a waiter is told: the newest version known, or the fallback, which is never
\* remembered nor published
Answers(v) ==
  /\ told' = [k \in Askers |-> IF asking[k] = "idle" THEN told[k]
                               ELSE IF v = 0 THEN Fallback ELSE v]
  /\ asking' = [k \in Askers |-> "idle"]
  /\ inFlight' = FALSE

\* the feed may serve an older release than it did before
FetchTells ==
  /\ inFlight
  /\ \E v \in Versions :
       LET observed == Larger(v, cache.version)
       IN  /\ cache' = [version |-> observed, at |-> tick]
           /\ published' = Published(v)
           /\ seen' = seen \cup {v}
           /\ Answers(observed)
  /\ UNCHANGED tick

\* no answer, not 2xx, or nothing that reads as a version
FetchFails ==
  /\ inFlight
  /\ Answers(cache.version)
  /\ UNCHANGED <<cache, published, seen, tick>>

\* resolveAntigravityVersionBounded gives up; the fetch goes on without it
GiveUp(k) ==
  /\ asking[k] = "bounded"
  /\ asking' = [asking EXCEPT ![k] = "idle"]
  /\ told' = [told EXCEPT ![k] = 0]
  /\ UNCHANGED <<cache, inFlight, published, seen, tick>>

Tick ==
  /\ tick < LastTick
  /\ tick' = tick + 1
  /\ UNCHANGED <<cache, inFlight, asking, told, published, seen>>

Next ==
  \/ \E k \in Askers : Ask(k, "waiting") \/ Ask(k, "bounded") \/ Peek(k) \/ GiveUp(k)
  \/ FetchTells \/ FetchFails \/ Tick

Spec == Init /\ [][Next]_vars

-----------------------------------------------------------------------------
(* Properties.                                                              *)

TypeOK ==
  /\ cache \in [version: 0..LatestRelease, at: 0..LastTick]
  /\ inFlight \in BOOLEAN
  /\ asking \in [Askers -> {"idle", "waiting", "bounded"}]
  /\ told \in [Askers -> 0..LatestRelease \cup {Fallback}]
  /\ published \in 0..LatestRelease
  /\ seen \subseteq Versions /\ tick \in 0..LastTick

\* What User-Agents advertise is the newest release the feed has told this process, in
\* whatever order fetches, failures, time-outs and peeks came: it never falls, and the
\* pinned fallback, which may be newer than the feed, never passes for evidence.
AdvertisedIsTheNewestSeen == published = Max(seen \cup {0})
=============================================================================
