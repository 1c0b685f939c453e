-------------------------------- MODULE MCTurns --------------------------------
(***************************************************************************)
(* What a chat turn goes through beside the pool: the adapter's slots and   *)
(* session generations, the conversation on the wire, the thinking budgets *)
(* that requests read and settings cards write, and the accounts tab that  *)
(* stands beside those cards.  No step touches two of them, so that one    *)
(* moves in a behaviour and the others keep still.                         *)
(***************************************************************************)
EXTENDS AdapterStream

CONSTANTS
  Part,   \* what moves
  Names, NoName, MaxParts, MaxMessages,
  Processes, Stores, Cards, Levels, Fields, Budgets, Refused, Unset, Absent, MaxEdits,
  Accounts, Reloads, Own, MessageTtl, MaxElsewhere, PanelClock

VARIABLES
  history, streaming, parser, signatures, made, parts,
  file, tmp, handle, home, copy, recent, serves, loading, loaded, stored, draft, saving, touched,
  edits, owed, contested,
  pool, rows, selected, detail, action, reload, verdict, timers, elsewhere, panelTick,
  old, outdated,
  part

talkVars == <<history, streaming, parser, signatures, made, parts>>
budgetVars == <<file, tmp, handle, home, copy, recent, serves, loading, loaded, stored, draft, saving,
                touched, edits, owed, contested>>
panelVars == <<pool, rows, selected, detail, action, reload, verdict, timers, elsewhere,
               panelTick, old, outdated>>

Talk == INSTANCE Conversation WITH GivesIds <- TRUE
Budget == INSTANCE ThinkingBudgets
Panel == INSTANCE AccountsPanel WITH
  MaxEdits <- MaxElsewhere, LastTick <- PanelClock, edits <- elsewhere, tick <- panelTick

AllInit ==
  /\ part \in Part
  /\ Init /\ Talk!Init /\ Budget!Init /\ Panel!Init
  \* no budget is set yet; one card, store and process are as good as the others, a store
  \* serves one card, and one card is opened for the first time
  /\ \A f \in Fields : file[f] = Unset
  /\ \A c, d \in Cards : c # d => serves[c] # serves[d]
  /\ LET c == CHOOSE c \in Cards : TRUE
     IN  /\ serves[c] = CHOOSE s \in Stores : TRUE
         /\ home[serves[c]] = CHOOSE p \in Processes : TRUE
         /\ \A d \in Cards : loaded[d] <=> d # c
  \* accounts are alike, and one is disabled or none
  /\ pool.order = SetToSeq(Accounts) /\ pool.active = 1
  /\ pool.disabled \in {{}, {pool.order[1]}}
  \* what keeps still need not be in two states
  /\ part # "budgets" => \A s, r \in Stores : home[s] = home[r]
  /\ part # "panel" => pool.disabled = {}

AllNext ==
  \/ part = "adapter" /\ Next /\ UNCHANGED <<talkVars, budgetVars, panelVars, part>>
  \/ part = "talk" /\ Talk!Next /\ UNCHANGED <<vars, budgetVars, panelVars, part>>
  \/ part = "budgets" /\ Budget!Next /\ UNCHANGED <<vars, talkVars, panelVars, part>>
  \/ part = "panel" /\ Panel!Next /\ UNCHANGED <<vars, talkVars, budgetVars, part>>

AllSpec == AllInit /\ [][AllNext]_<<vars, talkVars, budgetVars, panelVars, part>>

-----------------------------------------------------------------------------
(* The properties of the parts, under their own names.                      *)

\* Every variable of every part has its type.
AllTypesOK ==
  /\ part = "adapter" => TypeOK
  /\ part = "talk" => Talk!TypeOK
  /\ part = "budgets" => Budget!TypeOK
  /\ part = "panel" => Panel!TypeOK

\* The answer reaches the harness as well-formed blocks (Conversation).
ChunksAreWellFormed == part = "talk" => Talk!ChunksAreWellFormed
\* The next request says what the history says (Conversation).
RequestsAreSound == part = "talk" => Talk!RequestsAreSound
\* The file holds what was last saved for each budget (ThinkingBudgets).
SavedBudgetsStand == part = "budgets" => Budget!SavedBudgetsStand
\* What a click acts on by position is what the host has there (AccountsPanel).
RowsFollowTheActions == part = "panel" => Panel!RowsFollowTheActions
\* A verdict is on screen for its whole time (AccountsPanel).
VerdictsLast == Panel!VerdictsLast
=============================================================================
