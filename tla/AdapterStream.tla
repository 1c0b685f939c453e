----------------------------- MODULE AdapterStream -----------------------------
(***************************************************************************)
(* AgyAdapter.stream: what one chat turn does around the pool.  It resolves *)
(* its images, asks for a session, takes a slot of the account, sends, may *)
(* send once more under the next session generation when the upstream      *)
(* session is full, streams the answer, reports how it ended, books it, and *)
(* gives the slot back on every path.  The session manager's slot counter  *)
(* and the table of session generations are part of it.                    *)
(*                                                                         *)
(* The account the pool picks, the upstream's answers and the consumer are *)
(* inputs.  A turn waits where the code awaits.                            *)
(***************************************************************************)
EXTENDS Naturals, FiniteSets, SequencesExt

CONSTANTS
  Turns,           \* how many may be under way: one that is over is the next
  Chats,           \* conversations
  Pool,            \* accounts
  Nameless,        \* those whose e-mail address is unknown
  Nowhere,         \* no conversation (the CLI), and no account yet
  SlotLife,        \* ticks after which an untouched slot counter is taken for leaked
  MaxGenerations,  \* (account, conversation) pairs the generation table holds
  MaxBumps,        \* bound on generations
  LastTick         \* bound on the clock

VARIABLES
  pc,
  chat,         \* the conversation of each turn
  acct,         \* the account its session is of
  generation,   \* the session generation of its latest attempt
  resent,
  holds,        \* holder.account is set: the turn has a slot
  slots,        \* the session manager's inFlight: a count and when it was touched
  table,        \* sessionGenerations: pairs with their generation, least recently bumped first
  full,         \* upstream sessions found full, of pairs never evicted
  evicted,      \* pairs the table has evicted
  reports,      \* what each turn reported to the pool
  records,      \* what it put in the usage ledger
  tick,
  leaked        \* accounts whose counter was discarded while streams still ran

turn == <<pc, chat, acct, generation, resent, holds>>
bumps == <<table, full, evicted>>
booking == <<reports, records>>
vars == <<pc, chat, acct, generation, resent, holds, slots, table, full, evicted,
          reports, records, tick, leaked>>

Pairs == Pool \X Chats
PairOf(t) == <<acct[t], chat[t]>>
Generations == 0..MaxBumps
Bumped(k) == {i \in DOMAIN table : table[i].pair = k}
\* currentSessionGeneration, 0 for a pair that is not in the table
Current(tb, k) == LET here == {i \in DOMAIN tb : tb[i].pair = k}
                  IN  IF here = {} THEN 0 ELSE tb[CHOOSE i \in here : TRUE].gen

\* deriveAntigravitySessionId names one upstream session per pair and generation, and none
\* for an account without an e-mail address, though its generations are counted all the same
Named(t) == acct[t] \notin Nameless
UpstreamSession(t) == <<acct[t], chat[t], generation[t]>>
SessionsOf(t) == IF Named(t) THEN {UpstreamSession(t)} ELSE {}

\* inFlightCount: a counter that nobody touched for SlotLife is discarded
Live(s) == tick <= s.at + SlotLife
Count(a) == IF Live(slots[a]) THEN slots[a].count ELSE 0
Holders(a) == {t \in Turns : holds[t] /\ acct[t] = a}

Init ==
  /\ pc = [t \in Turns |-> "over"]
  /\ chat = [t \in Turns |-> Nowhere]
  /\ acct = [t \in Turns |-> Nowhere]
  /\ generation = [t \in Turns |-> 0]
  /\ resent = [t \in Turns |-> FALSE]
  /\ holds = [t \in Turns |-> FALSE]
  /\ slots = [a \in Pool |-> [count |-> 0, at |-> 0]]
  /\ table = <<>>
  /\ full = {}
  /\ evicted = {}
  /\ reports = [t \in Turns |-> <<>>]
  /\ records = [t \in Turns |-> <<>>]
  /\ tick = 0
  /\ leaked = {}

Goto(t, l) == pc' = [pc EXCEPT ![t] = l]

\* images first: a turn that fails on them has not touched the pool
Begin(t, c) ==
  /\ pc[t] = "over"
  /\ reports' = [reports EXCEPT ![t] = <<>>]
  /\ records' = [records EXCEPT ![t] = <<>>]
  /\ \/ Goto(t, "asking") /\ chat' = [chat EXCEPT ![t] = c]
     \/ UNCHANGED <<pc, chat>>
  /\ UNCHANGED <<acct, generation, resent, holds, slots, bumps, tick, leaked>>

SessionRefused(t) ==
  /\ pc[t] = "asking"
  /\ Goto(t, "over")
  /\ chat' = [chat EXCEPT ![t] = Nowhere]
  /\ UNCHANGED <<acct, generation, resent, holds, slots, bumps, booking, tick, leaked>>

SessionGranted(t, a) ==
  /\ pc[t] = "asking"
  /\ acct' = [acct EXCEPT ![t] = a]
  /\ Goto(t, "reading")
  /\ UNCHANGED <<chat, generation, resent, holds, slots, bumps, booking, tick, leaked>>

\* the files are read (a missing one is left out); then the slot, and the first attempt
Send(t) ==
  /\ pc[t] = "reading"
  /\ holds' = [holds EXCEPT ![t] = TRUE]
  /\ slots' = [slots EXCEPT ![acct[t]] = [count |-> Count(acct[t]) + 1, at |-> tick]]
  /\ generation' = [generation EXCEPT ![t] = Current(table, PairOf(t))]
  /\ Goto(t, "sent")
  /\ UNCHANGED <<chat, acct, resent, bumps, booking, tick, leaked>>

\* bumpSessionGeneration: the pair moves to the end, and above the bound the first goes
BumpedOnce(k) == IF Bumped(k) = {} THEN Append(table, [pair |-> k, gen |-> 1]) ELSE table
Without(k) == IF Bumped(k) = {} THEN table ELSE RemoveAt(table, CHOOSE i \in Bumped(k) : TRUE)
TableWith(k) == Append(Without(k), [pair |-> k, gen |-> Current(table, k) + 1])

Unbounded(tb) == tb
Kept(tb) == IF Len(tb) > MaxGenerations THEN Tail(tb) ELSE tb

\* 400, the upstream session is full: not the account's fault.  Sent again, once, as
\* long as the turn has a conversation
Resend(t) ==
  /\ pc[t] = "sent" /\ ~resent[t] /\ chat[t] # Nowhere
  /\ Current(table, PairOf(t)) < MaxBumps
  /\ LET bumped == TableWith(PairOf(t))
     IN  /\ table' = Kept(bumped)
         /\ evicted' = evicted \cup (IF Kept(bumped) = bumped THEN {} ELSE {bumped[1].pair})
         /\ full' = {s \in full \cup SessionsOf(t) : <<s[1], s[2]>> \notin evicted'}
         /\ generation' = [generation EXCEPT ![t] = Current(Kept(bumped), PairOf(t))]
  /\ resent' = [resent EXCEPT ![t] = TRUE]
  /\ UNCHANGED <<pc, chat, acct, holds, slots, reports, records, tick, leaked>>

Report(t, kind) == reports' = [reports EXCEPT ![t] = Append(@, kind)]
Book(t, ok) == records' = [records EXCEPT ![t] = Append(@, ok)]

\* no answer, or not 2xx: report, which waits for the store
AttemptFails(t) ==
  /\ pc[t] = "sent"
  /\ Report(t, "failed")
  /\ Goto(t, "reporting")
  /\ UNCHANGED <<chat, acct, generation, resent, holds, slots, bumps, records, tick, leaked>>

Answered(t) ==
  /\ pc[t] = "sent"
  /\ Goto(t, "streaming")
  /\ UNCHANGED <<chat, acct, generation, resent, holds, slots, bumps, booking, tick, leaked>>

\* the stream breaks, or ends for a reason the parser does not know: the latter is
\* reported too, as a kind the pool takes no action on
StreamBreaks(t) ==
  /\ pc[t] = "streaming"
  /\ \E kind \in {"failed", "content"} : Report(t, kind)
  /\ Goto(t, "reporting")
  /\ UNCHANGED <<chat, acct, generation, resent, holds, slots, bumps, records, tick, leaked>>

\* noteRequestSettled, in the finally of stream
Discarded(a) == [count |-> 0, at |-> 0]
FreedUnlessStreaming(t) ==
  IF pc[t] = "streaming" THEN slots ELSE [slots EXCEPT ![acct[t]] = Discarded(acct[t])]
Freed(t) ==
  [slots EXCEPT ![acct[t]] = IF Count(acct[t]) <= 1 THEN Discarded(acct[t])
                             ELSE [count |-> Count(acct[t]) - 1, at |-> tick]]

Settle(t) ==
  /\ Goto(t, "over")
  /\ holds' = [holds EXCEPT ![t] = FALSE]
  /\ slots' = Freed(t)
  /\ leaked' = IF Holders(acct[t]) = {t} THEN leaked \ {acct[t]} ELSE leaked
  /\ chat' = [chat EXCEPT ![t] = Nowhere]
  /\ acct' = [acct EXCEPT ![t] = Nowhere]
  /\ generation' = [generation EXCEPT ![t] = 0]
  /\ resent' = [resent EXCEPT ![t] = FALSE]
  /\ UNCHANGED <<bumps, tick>>

\* reportFailure has come back, or thrown: then the turn fails without being booked
Reported(t) ==
  /\ pc[t] = "reporting"
  /\ Book(t, FALSE)
  /\ UNCHANGED reports
  /\ Settle(t)

ReportThrows(t) ==
  /\ pc[t] = "reporting"
  /\ UNCHANGED <<reports, records>>
  /\ Settle(t)

Completes(t) ==
  /\ pc[t] = "streaming"
  /\ Book(t, TRUE)
  /\ UNCHANGED reports
  /\ Settle(t)

\* the signal is aborted between two chunks, the consumer abandons the stream, or the
\* answer has no body: nobody is to blame and nothing is booked
Abandoned(t) ==
  /\ pc[t] = "streaming"
  /\ UNCHANGED <<reports, records>>
  /\ Settle(t)

Tick ==
  /\ tick < LastTick
  /\ tick' = tick + 1
  /\ leaked' = leaked \cup {a \in Pool : Holders(a) # {} /\ tick' > slots[a].at + SlotLife}
  /\ UNCHANGED <<turn, slots, bumps, booking>>

Next ==
  \/ \E t \in Turns :
       \/ \E c \in Chats \cup {Nowhere} : Begin(t, c)
       \/ \E a \in Pool : SessionGranted(t, a)
       \/ SessionRefused(t) \/ Send(t) \/ Resend(t) \/ AttemptFails(t) \/ Answered(t)
       \/ StreamBreaks(t) \/ Reported(t) \/ ReportThrows(t) \/ Completes(t) \/ Abandoned(t)
  \/ Tick

Spec == Init /\ [][Next]_vars

-----------------------------------------------------------------------------
(* Properties.                                                              *)

TypeOK ==
  /\ pc \in [Turns -> {"over", "asking", "reading", "sent", "reporting", "streaming"}]
  /\ chat \in [Turns -> Chats \cup {Nowhere}]
  /\ acct \in [Turns -> Pool \cup {Nowhere}]
  /\ generation \in [Turns -> Generations]
  /\ {resent, holds} \subseteq [Turns -> BOOLEAN]
  /\ slots \in [Pool -> [count: 0..Cardinality(Turns), at: 0..LastTick]]
  /\ table \in Seq([pair: Pairs, gen: Generations]) /\ Len(table) <= MaxGenerations
  /\ full \subseteq Pool \X (Chats \cup {Nowhere}) \X Generations
  /\ reports \in [Turns -> Seq({"failed", "content"})]
  /\ records \in [Turns -> Seq(BOOLEAN)]
  /\ tick \in 0..LastTick /\ leaked \subseteq Pool
  /\ evicted \subseteq Pairs

\* "noteRequestSettled MUST run on every path", and once: the counter the pool spreads
\* load by is the number of streams on the account, or less where a counter untouched for
\* too long was discarded under streams that still ran; a turn is reported and booked at
\* most once, a success is not reported, and a failure is booked only after its report.
TurnsSettleOnce ==
  /\ \A a \in Pool :
       /\ Count(a) <= Cardinality(Holders(a))
       /\ a \notin leaked => Count(a) = Cardinality(Holders(a))
  /\ \A t \in Turns :
       /\ Len(records[t]) <= 1 /\ Len(reports[t]) <= 1
       /\ records[t] = <<TRUE>> => reports[t] = <<>>
       /\ records[t] = <<FALSE>> => reports[t] # <<>>

\* "Bumping the generation names a fresh upstream session": a turn that is sent again
\* goes to a session nobody found full, however many turns of the conversation hit the
\* wall at once.  Nothing is said of conversations that the table has forgotten, and of
\* accounts without an e-mail address, whose requests name no session either time.
ResendsEscapeTheWall ==
  [][\A t \in Turns :
       ~resent[t] /\ resent'[t] /\ Named(t) => UpstreamSession(t)' \notin full']_vars
=============================================================================
