---------------------------- MODULE AccountsPanel ----------------------------
(***************************************************************************)
(* The accounts tab of the settings section in the browser: the rows of    *)
(* the last account.list, the selected one with its detail and the draft   *)
(* of its proxy, the actions that run one at a time and reload the rows    *)
(* after them, other reloads, and the messages about how an action ended.  *)
(* The host answers calls in its own time; others edit its pool too.       *)
(*                                                                         *)
(* Positions are 1-based.  The usage half of a reload, the quota windows   *)
(* merged into the rows and the standing banner are left out.              *)
(***************************************************************************)
EXTENDS Naturals, SequencesExt

CONSTANTS
  Accounts,
  Reloads, Own,   \* the reloads that may be under way, and the one of actions
  MessageTtl,     \* ACTION_MESSAGE_TTL_MS
  MaxEdits,       \* bound on the edits of others and on revocations found by a verification
  LastTick        \* bound on the clock

VARIABLES
  pool,       \* the host's accounts in order, the position of the cursor, and who is disabled
  rows,       \* what the panel shows of them
  selected,   \* the position the user selected, 0 for none
  detail,     \* the mounted detail: its key, and whether a proxy is typed in its box
  action,     \* the action under way, and its verdict
  reload,     \* the calls of account.list under way
  verdict,    \* since when the last action's failure is shown, 0 when it is not
  timers,     \* when the pending dismissals are due
  edits, tick,
  \* what a reader of the behaviour knows, and the panel does not
  old,        \* the reloads whose list was taken before a change that it should show
  outdated    \* others changed the pool, a reply was lost, a list failed or was old

hostVars == <<pool, edits>>
rowVars == <<rows, selected, detail>>
messageVars == <<verdict, timers>>
ghostVars == <<old, outdated>>
vars == <<hostVars, rowVars, messageVars, action, reload, tick, ghostVars>>

Views == [order: Seq(Accounts), active: Nat, disabled: SUBSET Accounts]
NoView == [order |-> <<>>, active |-> 0, disabled |-> {}]
NoAction == [kind |-> "none", at |-> 0, step |-> "none", ok |-> TRUE]
NoReload == [stage |-> "idle", list |-> NoView]

Kinds == {"activate", "delete", "proxy", "verify"}

Init ==
  /\ pool \in {[order |-> o, active |-> i, disabled |-> off] :
              o \in SetToSeqs(Accounts), i \in 1..Cardinality(Accounts), off \in SUBSET Accounts}
  /\ rows = NoView /\ selected = 0
  /\ detail = [key |-> 0, draft |-> FALSE]
  /\ action = NoAction
  /\ reload = [r \in Reloads |-> NoReload]
  /\ verdict = 0 /\ timers = {}
  /\ edits = 0 /\ tick = 1
  /\ old = {} /\ outdated = TRUE

Busy == action # NoAction

-----------------------------------------------------------------------------
(* Rows, selection, detail.                                                 *)

\* the host's answer to account.list: a disabled account is not the active one
Shown(host) ==
  [host EXCEPT !.active = IF @ \in DOMAIN host.order /\ host.order[@] \notin host.disabled
                          THEN @ ELSE 0]

\* resolveSelectedAccountIndex
Resolved(view, choice) ==
  CASE view.order = <<>> -> 0
    [] choice \in DOMAIN view.order -> choice
    [] view.order # <<>> /\ choice \notin DOMAIN view.order /\ view.active # 0 -> view.active
    [] OTHER -> IF choice = 0 THEN 1 ELSE Len(view.order)

\* the detail keeps its draft while its key, a position, stays the same
Render(view, choice) ==
  LET key == Resolved(view, choice)
  IN  /\ rows' = view /\ selected' = choice
      /\ detail' = [key |-> key, draft |-> IF key = detail.key THEN detail.draft ELSE FALSE]

Select(i) ==
  /\ i \in DOMAIN rows.order /\ i # selected
  /\ Render(rows, i)
  /\ UNCHANGED <<hostVars, messageVars, action, reload, tick, ghostVars>>

Type ==
  /\ detail.key # 0 /\ ~detail.draft
  /\ detail' = [detail EXCEPT !.draft = TRUE]
  /\ UNCHANGED <<hostVars, rows, selected, messageVars, action, reload, tick, ghostVars>>

\* another tab: the accounts tab unmounts
LeaveTab ==
  /\ selected # 0 \/ detail.draft
  /\ selected' = 0
  /\ detail' = [key |-> Resolved(rows, 0), draft |-> FALSE]
  /\ UNCHANGED <<hostVars, rows, messageVars, action, reload, tick, ghostVars>>

-----------------------------------------------------------------------------
(* Messages: timedChannel.                                                  *)

\* a new text cancels the dismissal of the one before
Uncancelled(shown) == timers \cup IF shown THEN {tick + MessageTtl} ELSE {}
Rearmed(shown) == IF shown THEN {tick + MessageTtl} ELSE {}

Say(shown) ==
  /\ verdict' = IF shown THEN tick ELSE 0
  /\ timers' = Rearmed(shown)

Dismiss ==
  /\ \E due \in timers : due <= tick /\ timers' = timers \ {due}
  /\ verdict' = 0
  /\ UNCHANGED <<hostVars, rowVars, action, reload, tick, ghostVars>>

-----------------------------------------------------------------------------
(* Actions: act for what mutates the pool, runAction for what reports a     *)
(* verdict.  Buttons are disabled while one runs.                           *)

\* what the buttons do to the selection and the draft before the call
Pressed(kind, i) ==
  CASE kind = "activate" -> Render(rows, i)
    [] kind = "delete" -> Render(rows, 0)
    [] kind = "proxy" -> detail' = [detail EXCEPT !.draft = FALSE] /\ UNCHANGED <<rows, selected>>
    [] OTHER -> UNCHANGED rowVars

Press(kind, i) ==
  /\ ~Busy /\ i \in DOMAIN rows.order
  /\ kind \in {"delete", "proxy"} => i = detail.key
  /\ kind = "proxy" => detail.draft
  /\ kind = "activate" => i # rows.active /\ rows.order[i] \notin rows.disabled
  /\ Pressed(kind, i)
  /\ action' = [kind |-> kind, at |-> i, step |-> "calling", ok |-> TRUE]
  \* act leaves a failed verdict of runAction where it is
  /\ IF kind = "verify" THEN Say(FALSE) ELSE UNCHANGED messageVars
  /\ UNCHANGED <<hostVars, reload, tick, ghostVars>>

\* account.activate, account.delete, and account.verify of a live credential; a proxy
\* changes nothing that is modelled here
Applied(kind, i) ==
  CASE kind = "activate" -> [pool EXCEPT !.active = i]
    [] kind = "delete" -> LET order == RemoveAt(pool.order, i)
                          IN  [order |-> order, disabled |-> pool.disabled \ {pool.order[i]},
                               active |-> IF pool.active > Len(order) THEN 1 ELSE pool.active]
    [] kind = "verify" -> [pool EXCEPT !.disabled = @ \ {pool.order[i]}]
    [] OTHER -> pool

\* the lists that are under way when the pool changes
Listed == {r \in Reloads : reload[r].stage = "listed"}
Changes(new, overtaken) ==
  /\ pool' = new
  /\ old' = IF new = pool THEN old ELSE old \cup overtaken

\* a refusal or a lost reply ends the action with its message; act does not reload then
Fail ==
  /\ action' = NoAction
  /\ IF action.kind = "verify" THEN Say(TRUE) ELSE UNCHANGED messageVars
  /\ UNCHANGED reload

Ends == action' = NoAction /\ UNCHANGED reload
Reloaded ==
  /\ action' = [action EXCEPT !.step = "reloading"]
  /\ reload' = [reload EXCEPT ![Own].stage = "asked"]

\* an action's own reload comes after its effect, so that its list is none of the old ones
CallAnswered ==
  /\ action.step = "calling"
  /\ LET there == action.at \in DOMAIN pool.order
         effect == IF there THEN Applied(action.kind, action.at) ELSE pool
     IN  \/ /\ there /\ Changes(effect, Listed \ {Own}) /\ Reloaded
            /\ UNCHANGED <<messageVars, outdated>>
         \/ \E new \in {pool, effect} :
              /\ Changes(new, Listed \ {Own}) /\ Fail
              /\ outdated' = (outdated \/ new # pool)
  /\ UNCHANGED <<rowVars, edits, tick>>

\* the verdict of a verification, which comes in band; a revoked credential is disabled, at
\* whatever position it is by then
CallAnsweredNo ==
  /\ action.step = "calling" /\ action.kind = "verify"
  /\ \/ Changes(pool, {}) /\ edits' = edits
     \/ \E a \in ToSet(pool.order) :
          /\ edits < MaxEdits /\ edits' = edits + 1
          /\ Changes([pool EXCEPT !.disabled = @ \cup {a}], Listed \ {Own})
  /\ action' = [action EXCEPT !.step = "reloading", !.ok = FALSE]
  /\ reload' = [reload EXCEPT ![Own].stage = "asked"]
  /\ UNCHANGED <<rowVars, messageVars, outdated, tick>>

-----------------------------------------------------------------------------
(* Reloads.                                                                 *)

\* the toolbar's button, and the message of a login's callback page
Ask(r) ==
  /\ r # Own /\ reload[r] = NoReload
  /\ reload' = [reload EXCEPT ![r].stage = "asked"]
  /\ UNCHANGED <<hostVars, rowVars, messageVars, action, tick, ghostVars>>

HostLists(r) ==
  /\ reload[r].stage = "asked"
  /\ reload' = [reload EXCEPT ![r] = [stage |-> "listed", list |-> Shown(pool)]]
  /\ UNCHANGED <<hostVars, rowVars, messageVars, action, tick, ghostVars>>

\* the end of an action: runAction reports now
Finish ==
  /\ action' = NoAction
  /\ IF action.kind = "verify" /\ ~action.ok THEN Say(TRUE) ELSE UNCHANGED messageVars

Settle(r) ==
  /\ reload' = [reload EXCEPT ![r] = NoReload] /\ old' = old \ {r}
  /\ IF r = Own THEN Finish ELSE UNCHANGED <<action, messageVars>>
  /\ UNCHANGED <<hostVars, tick>>

ListArrives(r) ==
  /\ reload[r].stage = "listed"
  /\ Render(reload[r].list, selected)
  /\ outdated' = (r \in old)
  /\ Settle(r)

ListFails(r) ==
  /\ reload[r].stage # "idle"
  /\ outdated' = (outdated \/ r = Own)
  /\ Settle(r)
  /\ UNCHANGED rowVars

-----------------------------------------------------------------------------

\* a login enrols an account, the command line or another window removes one, a request
\* moves the cursor or loses a revoked credential
Elsewhere ==
  /\ edits < MaxEdits
  /\ edits' = edits + 1
  /\ outdated' = TRUE
  /\ \/ \E i \in DOMAIN pool.order : Changes(Applied("delete", i), Listed)
     \/ \E a \in Accounts \ ToSet(pool.order) : Changes([pool EXCEPT !.order = Append(@, a)], Listed)
     \/ \E i \in DOMAIN pool.order : Changes([pool EXCEPT !.active = i], Listed)
     \/ \E a \in ToSet(pool.order) : Changes([pool EXCEPT !.disabled = @ \cup {a}], Listed)
  /\ UNCHANGED <<rowVars, messageVars, action, reload, tick>>

Tick ==
  /\ tick < LastTick
  /\ tick' = tick + 1
  /\ UNCHANGED <<hostVars, rowVars, messageVars, action, reload, ghostVars>>

Next ==
  \/ \E i \in 1..Cardinality(Accounts) : Select(i) \/ \E kind \in Kinds : Press(kind, i)
  \/ Type \/ LeaveTab \/ Dismiss
  \/ CallAnswered \/ CallAnsweredNo
  \/ \E r \in Reloads : Ask(r) \/ HostLists(r) \/ ListArrives(r) \/ ListFails(r)
  \/ Elsewhere \/ Tick

Spec == Init /\ [][Next]_vars

-----------------------------------------------------------------------------
(* Properties.                                                              *)

TypeOK ==
  /\ pool \in Views /\ rows \in Views
  /\ selected \in 0..Cardinality(Accounts)
  /\ detail.draft \in BOOLEAN
  /\ detail.key = Resolved(rows, selected)
  /\ action.kind \in Kinds \cup {"none"} /\ action.step \in {"none", "calling", "reloading"}
  /\ \A r \in Reloads : reload[r].stage \in {"idle", "asked", "listed"} /\ reload[r].list \in Views
  /\ verdict \in 0..LastTick /\ timers \subseteq 1..LastTick+MessageTtl
  /\ old \subseteq Reloads /\ outdated \in BOOLEAN

\* Once an action has ended and nothing is under way the rows are the host's accounts, with
\* the active and the disabled ones, whatever other reloads came in whatever order: a click
\* addresses an account by its position in these rows.  Excepted are rows since when others
\* changed the pool, a reply was lost, an action's list failed, or another reload brought a
\* list that was taken before a change; the next list that is not old ends that.
RowsFollowTheActions ==
  ~Busy /\ (\A r \in Reloads : reload[r] = NoReload) /\ ~outdated => rows = Shown(pool)

\* The verdict of an action is on screen for its whole time, whatever was shown before it: it
\* goes with its own timer, or when the next action begins (timedChannel).
VerdictsLast ==
  [][verdict # 0 /\ verdict' = 0 =>
       tick >= verdict + MessageTtl \/ (~Busy /\ Busy')]_vars
=============================================================================
