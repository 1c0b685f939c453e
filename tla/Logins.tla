-------------------------------- MODULE Logins --------------------------------
(***************************************************************************)
(* Logins through the browser: auth.url issues an authorization and keeps   *)
(* it pending, the OAuth callback consumes it, exchanges its code for a     *)
(* credential and puts that into the account document under its e-mail.    *)
(*                                                                         *)
(* An authorization is its number.  Google's answers, the times at which   *)
(* callbacks arrive, and how often, are inputs.                            *)
(***************************************************************************)
EXTENDS Naturals, Sequences, FiniteSets

CONSTANTS
  Callbacks,   \* callback requests under way: one that is over is the next
  Emails,
  NoEmail,     \* userinfo did not answer
  LastLogin,   \* bound on the authorizations issued
  MaxPending,  \* the bound of prunePendingAuth
  Ttl,         \* PENDING_AUTH_TTL_MS, in ticks
  LastTick     \* bound on the clock

VARIABLES
  issuedAt,   \* when each authorization was issued: they are numbered in that order
  pending,    \* pendingAuth
  callback,   \* idle, exchanging, or saving with what the exchange told; and of which login
  exchanges,  \* how often the code of each authorization went to Google
  accounts,   \* the account document: who, and the login its credential is of
  tick

vars == <<issuedAt, pending, callback, exchanges, accounts, tick>>

Logins == 1..LastLogin
Issued == DOMAIN issuedAt
Idle == [stage |-> "idle", login |-> 0, email |-> NoEmail]

Init ==
  /\ issuedAt = <<>>
  /\ pending = {}
  /\ callback = [c \in Callbacks |-> Idle]
  /\ exchanges = [n \in Logins |-> 0]
  /\ accounts = <<>>
  /\ tick = 0

Expired(n) == issuedAt[n] + Ttl <= tick

\* prunePendingAuth: the expired go, then those that expire soonest, issued first
Bounded(live) == {n \in live : Cardinality({m \in live : m > n}) < MaxPending}
Pruned == Bounded({n \in pending : ~Expired(n)})

\* auth.url prunes before it adds: the map may hold one more than its bound
AuthUrl ==
  /\ Len(issuedAt) < LastLogin
  /\ issuedAt' = Append(issuedAt, tick)
  /\ pending' = Pruned \cup {Len(issuedAt) + 1}
  /\ UNCHANGED <<callback, exchanges, accounts, tick>>

\* handleCallback: the authorization is consumed before the exchange begins; nothing
\* here looks at its expiry, which is left to the next auth.url
KeptUntilSaved(n) == pending
Consumed(n) == pending \ {n}

Arrive(c, n) ==
  /\ callback[c] = Idle /\ n \in pending
  /\ pending' = Consumed(n)
  /\ callback' = [callback EXCEPT ![c] = [stage |-> "exchanging", login |-> n, email |-> NoEmail]]
  /\ exchanges' = [exchanges EXCEPT ![n] = @ + 1]
  /\ UNCHANGED <<issuedAt, accounts, tick>>

\* exchangeAntigravity: the credential, and the e-mail if userinfo answers
Exchanged(c, email) ==
  /\ callback[c].stage = "exchanging"
  /\ callback' = [callback EXCEPT ![c].stage = "saving", ![c].email = email]
  /\ UNCHANGED <<issuedAt, pending, exchanges, accounts, tick>>

\* Google refuses the code, sends no refresh token, or the project is not found
ExchangeFails(c) ==
  /\ callback[c].stage = "exchanging"
  /\ callback' = [callback EXCEPT ![c] = Idle]
  /\ UNCHANGED <<issuedAt, pending, exchanges, accounts, tick>>

\* upsertImportedAccount, in one mutate: over the account of that e-mail, or a new one;
\* without an e-mail always a new one
OfEmail(email) == {i \in DOMAIN accounts : email # NoEmail /\ accounts[i].email = email}
WithCredential(email, n) ==
  IF OfEmail(email) = {} THEN Append(accounts, [email |-> email, login |-> n])
  ELSE [accounts EXCEPT ![CHOOSE i \in OfEmail(email) : TRUE].login = n]

Save(c) ==
  /\ callback[c].stage = "saving"
  /\ accounts' = WithCredential(callback[c].email, callback[c].login)
  /\ callback' = [callback EXCEPT ![c] = Idle]
  /\ UNCHANGED <<issuedAt, pending, exchanges, tick>>

\* the document cannot be locked or written: the callback fails, the code is spent
SaveFails(c) ==
  /\ callback[c].stage = "saving"
  /\ callback' = [callback EXCEPT ![c] = Idle]
  /\ UNCHANGED <<issuedAt, pending, exchanges, accounts, tick>>

Tick ==
  /\ tick < LastTick
  /\ tick' = tick + 1
  /\ UNCHANGED <<issuedAt, pending, callback, exchanges, accounts>>

Next ==
  \/ AuthUrl
  \/ \E c \in Callbacks :
       \/ \E n \in Logins : Arrive(c, n)
       \/ \E email \in Emails \cup {NoEmail} : Exchanged(c, email)
       \/ ExchangeFails(c) \/ Save(c) \/ SaveFails(c)
  \/ Tick

Spec == Init /\ [][Next]_vars

-----------------------------------------------------------------------------
(* Properties.                                                              *)

TypeOK ==
  /\ issuedAt \in Seq(0..LastTick)
  /\ pending \subseteq Issued
  /\ callback \in [Callbacks -> [stage: {"idle", "exchanging", "saving"}, login: 0..LastLogin,
                                 email: Emails \cup {NoEmail}]]
  /\ exchanges \in [Logins -> Nat]
  /\ accounts \in Seq([email: Emails \cup {NoEmail}, login: Logins])
  /\ tick \in 0..LastTick

\* "One-time use": whatever callbacks arrive twice or at once, the code of an
\* authorization goes to Google once and its credential to at most one account; and a
\* login in good time is not lost to other logins begun meanwhile, up to the bound.
LoginsWorkOnce ==
  /\ \A n \in Issued : exchanges[n] <= 1
  /\ \A n \in Issued :
       exchanges[n] = 0 /\ ~Expired(n) /\ Len(issuedAt) - n <= MaxPending => n \in pending
  /\ \A i, j \in DOMAIN accounts : accounts[i].login = accounts[j].login => i = j
=============================================================================
