---------------------------- MODULE ThinkingBudgets ----------------------------
(***************************************************************************)
(* The thinking budgets: stores over one file, in as many processes as run *)
(* the plugin, and the settings card of each browser, which keeps the       *)
(* stored budgets and, apart from them, the drafts in its input boxes.  A   *)
(* box is saved when it loses the focus and differs from what is stored.   *)
(*                                                                         *)
(* A save reads the file, writes the new text to a temporary file and       *)
(* renames it.  It is one synchronous call: the stores of the same process *)
(* wait for it.  Nothing makes another process wait, and all of them use    *)
(* one temporary name, so that their saves may run into each other.        *)
(***************************************************************************)
EXTENDS Naturals

CONSTANTS
  Processes, \* those that run the plugin
  Stores,    \* ThinkingBudgetStore instances
  Cards,     \* open settings cards: each is served by one of the stores
  Levels,    \* the fields that thinking.set addresses and answers together
  Fields,    \* those, and the tiered and the Claude budget if they are used
  Budgets,   \* numbers the host accepts
  Refused,   \* a number it does not
  Unset,     \* no budget, an empty box
  Absent,    \* no temporary file
  MaxEdits   \* bound: texts typed

VARIABLES
  file,      \* agy-thinking.json; a text that does not parse configures nothing
  tmp,       \* agy-thinking.json.tmp, or Absent
  handle,    \* where the file is that a process has open for writing
  home,      \* the process a store lives in
  copy,      \* doc of each store
  recent,    \* the store looked at the file within revalidateIntervalMs
  serves,    \* the store that answers a card
  loading,   \* no thinking.get, one on its way, or its answer
  loaded,    \* the card has had an answer
  stored,    \* budgets, tieredBudget, claudeBudget of each card
  draft,     \* the text in each box
  saving,    \* each field's save: on its way, at some step of write, or answered
  touched,   \* the user wrote the text that is in the box
  edits,
  \* what a reader of the behaviour knows, and no process does
  owed,      \* the value that was last saved for each field
  contested  \* fields that saves of two processes at once may have lost

vars == <<file, tmp, handle, home, copy, recent, serves, loading, loaded, stored, draft, saving,
          touched, edits, owed, contested>>
diskVars == <<file, tmp, handle, owed, contested>>
cardVars == <<home, serves, loading, loaded, stored, draft, touched, edits>>
hostVars == <<diskVars, copy, recent, home, serves>>

Doc == [Fields -> Budgets \cup {Unset}]
Text == Budgets \cup {Refused, Unset}
Nothing == [f \in Fields |-> Unset]
Steps == {"read", "open", "full"}
NoSave == [stage |-> "none", value |-> Unset, doc |-> Nothing]
NoLoad == [stage |-> "none", doc |-> Nothing]

Init ==
  /\ file \in Doc /\ tmp = Absent
  /\ handle = [p \in Processes |-> "none"]
  /\ home \in [Stores -> Processes]
  /\ copy = [s \in Stores |-> file]
  /\ recent = [s \in Stores |-> TRUE]
  /\ serves \in [Cards -> Stores]
  /\ loading = [c \in Cards |-> NoLoad]
  \* a card that was opened before found no host
  /\ loaded \in [Cards -> BOOLEAN]
  /\ stored = [c \in Cards |-> Nothing]
  /\ draft = [c \in Cards |-> Nothing]
  /\ saving = [c \in Cards |-> [f \in Fields |-> NoSave]]
  /\ touched = [c \in Cards |-> [f \in Fields |-> FALSE]]
  /\ edits = 0
  /\ owed = file /\ contested = {}

-----------------------------------------------------------------------------
(* The stores.                                                              *)

\* reloadIfChanged: what a read finds, at most one look at the file per interval
Revalidated(s) == IF recent[s] THEN copy[s] ELSE file
Looks(s) == recent' = [recent EXCEPT ![s] = TRUE]

Writes(c, f) == saving[c][f].stage \in Steps
ProcessOf(c) == home[serves[c]]
\* no store of the process is in the middle of its synchronous write
Free(p) == \A c \in Cards, f \in Fields : Writes(c, f) => ProcessOf(c) # p

\* budgetFor, claudeBudget, tieredBudget of a request under way
Read(s) ==
  /\ ~recent[s] /\ Free(home[s])
  /\ copy' = [copy EXCEPT ![s] = Revalidated(s)]
  /\ Looks(s)
  /\ UNCHANGED <<diskVars, saving, cardVars>>

IntervalEnds(s) ==
  /\ recent[s]
  /\ recent' = [recent EXCEPT ![s] = FALSE]
  /\ UNCHANGED <<diskVars, copy, saving, cardVars>>

\* write reloads whenever it was last done, and makes the text to write of what it finds
OnTheThrottledCopy(s) == Revalidated(s)
Base(s) == file

BeginSet(c, f) ==
  LET s == serves[c]
      value == saving[c][f].value
  IN  /\ saving[c][f].stage = "asked" /\ value # Refused
      /\ Free(home[s])
      /\ copy' = [copy EXCEPT ![s] = file]
      /\ Looks(s)
      /\ saving' = [saving EXCEPT ![c][f] = [stage |-> "read", value |-> value,
                                             doc |-> [Base(s) EXCEPT ![f] = value]]]
      /\ contested' = IF \A p \in Processes : Free(p) THEN contested ELSE Fields
      /\ UNCHANGED <<file, tmp, handle, owed, cardVars>>

\* writeFileSync opens the temporary file, emptying the one that is there ...
OpenTmp(c, f) ==
  /\ saving[c][f].stage = "read"
  /\ tmp' = Nothing
  /\ handle' = [handle EXCEPT ![ProcessOf(c)] = "tmp"]
  /\ saving' = [saving EXCEPT ![c][f].stage = "open"]
  /\ UNCHANGED <<file, owed, contested, copy, recent, cardVars>>

\* ... and writes the text, over another process's when that was written in between, and
\* into the settings file itself when the other has renamed the temporary one
Over(before, text) == {text} \cup (IF before = Nothing THEN {} ELSE {Nothing})

FillTmp(c, f) ==
  LET text == saving[c][f].doc
      at == handle[ProcessOf(c)]
  IN  /\ saving[c][f].stage = "open"
      /\ IF at = "tmp" THEN tmp' \in Over(tmp, text) ELSE tmp' = tmp
      /\ IF at = "file" THEN file' \in Over(file, text) ELSE file' = file
      /\ handle' = [handle EXCEPT ![ProcessOf(c)] = "none"]
      /\ saving' = [saving EXCEPT ![c][f].stage = "full"]
      /\ UNCHANGED <<owed, contested, copy, recent, cardVars>>

\* renameSync; a save that no other process's ran into puts the field beyond doubt
AnswerSet(c, f) ==
  LET s == serves[c]
      text == saving[c][f].doc
  IN  /\ saving[c][f].stage = "full" /\ tmp # Absent
      /\ file' = tmp /\ tmp' = Absent
      /\ handle' = [p \in Processes |-> IF handle[p] = "tmp" THEN "file" ELSE "none"]
      /\ copy' = [copy EXCEPT ![s] = text]
      /\ owed' = [owed EXCEPT ![f] = saving[c][f].value]
      /\ contested' = IF tmp = text /\ \A p \in Processes \ {home[s]} : Free(p)
                      THEN contested \ {f} ELSE contested
      /\ saving' = [saving EXCEPT ![c][f].stage = "answered"]
      /\ UNCHANGED <<recent, cardVars>>

\* the disk refuses, the other process has taken the temporary file, or the process is
\* stopped in the middle
WriteFails(c, f) ==
  /\ Writes(c, f)
  /\ saving' = [saving EXCEPT ![c][f] = NoSave]
  /\ handle' = [handle EXCEPT ![ProcessOf(c)] = "none"]
  /\ UNCHANGED <<file, tmp, owed, contested, copy, recent, cardVars>>

-----------------------------------------------------------------------------
(* The cards.                                                               *)

\* the block is opened before it was loaded
Open(c) ==
  /\ ~loaded[c] /\ loading[c].stage = "none"
  /\ loading' = [loading EXCEPT ![c].stage = "asked"]
  /\ UNCHANGED <<hostVars, loaded, stored, draft, saving, touched, edits>>

AnswerGet(c) ==
  LET s == serves[c]
  IN  /\ loading[c].stage = "asked" /\ Free(home[s])
      /\ copy' = [copy EXCEPT ![s] = Revalidated(s)]
      /\ Looks(s)
      /\ loading' = [loading EXCEPT ![c] = [stage |-> "answered", doc |-> copy'[s]]]
      /\ UNCHANGED <<diskVars, home, serves, loaded, stored, draft, saving, touched, edits>>

\* load: the drafts of the levels replace all drafts there are in that record, the
\* tiered one among them; Claude's draft is a state of its own
DraftsOf(doc) == [f \in Fields |-> IF f = "tiered" THEN Unset ELSE doc[f]]

Load(c) ==
  /\ loading[c].stage = "answered"
  /\ stored' = [stored EXCEPT ![c] = loading[c].doc]
  /\ draft' = [draft EXCEPT ![c] = DraftsOf(loading[c].doc)]
  /\ touched' = [touched EXCEPT ![c] = [f \in Fields |-> FALSE]]
  /\ loading' = [loading EXCEPT ![c] = NoLoad]
  /\ loaded' = [loaded EXCEPT ![c] = TRUE]
  /\ UNCHANGED <<hostVars, saving, edits>>

\* the host does not answer: the card stops trying
LoadFails(c) ==
  /\ loading[c].stage # "none"
  /\ loading' = [loading EXCEPT ![c] = NoLoad]
  /\ loaded' = [loaded EXCEPT ![c] = TRUE]
  /\ UNCHANGED <<hostVars, stored, draft, saving, touched, edits>>

Type(c, f, text) ==
  /\ edits < MaxEdits /\ draft[c][f] # text
  /\ edits' = edits + 1
  /\ draft' = [draft EXCEPT ![c][f] = text]
  /\ touched' = [touched EXCEPT ![c][f] = TRUE]
  /\ UNCHANGED <<hostVars, loading, loaded, stored, saving>>

\* onBlur, and a chip after it has filled the box; one save of a field at a time
Blur(c, f) ==
  /\ draft[c][f] # stored[c][f] /\ saving[c][f] = NoSave
  /\ saving' = [saving EXCEPT ![c][f].stage = "asked", ![c][f].value = draft[c][f]]
  /\ UNCHANGED <<hostVars, loading, loaded, stored, draft, touched, edits>>

\* the host refuses the number, or nobody answers
SetFails(c, f) ==
  /\ saving[c][f].stage \in {"asked", "answered"}
  /\ saving' = [saving EXCEPT ![c][f] = NoSave]
  /\ UNCHANGED <<hostVars, loading, loaded, stored, draft, touched, edits>>

\* the answer to a level brings all levels, for the store but not for the drafts
Saved(c, f) ==
  /\ saving[c][f].stage = "answered"
  /\ stored' = [stored EXCEPT ![c] = [g \in Fields |->
                  IF g = f THEN saving[c][f].doc[f]
                  ELSE IF {f, g} \subseteq Levels THEN saving[c][f].doc[g] ELSE stored[c][g]]]
  /\ saving' = [saving EXCEPT ![c][f] = NoSave]
  /\ UNCHANGED <<hostVars, loading, loaded, draft, touched, edits>>

Next ==
  \/ \E s \in Stores : Read(s) \/ IntervalEnds(s)
  \/ \E c \in Cards :
       \/ Open(c) \/ AnswerGet(c) \/ Load(c) \/ LoadFails(c)
       \/ \E f \in Fields :
            \/ \E text \in Text : Type(c, f, text)
            \/ Blur(c, f) \/ SetFails(c, f) \/ Saved(c, f)
            \/ BeginSet(c, f) \/ OpenTmp(c, f) \/ FillTmp(c, f)
            \/ AnswerSet(c, f) \/ WriteFails(c, f)

Spec == Init /\ [][Next]_vars

-----------------------------------------------------------------------------
(* Properties.                                                              *)

TypeOK ==
  /\ file \in Doc /\ tmp \in Doc \cup {Absent} /\ handle \in [Processes -> {"none", "tmp", "file"}]
  /\ home \in [Stores -> Processes]
  /\ copy \in [Stores -> Doc] /\ recent \in [Stores -> BOOLEAN]
  /\ serves \in [Cards -> Stores]
  /\ loading \in [Cards -> [stage: {"none", "asked", "answered"}, doc: Doc]]
  /\ loaded \in [Cards -> BOOLEAN]
  /\ stored \in [Cards -> Doc]
  /\ draft \in [Cards -> [Fields -> Text]]
  /\ saving \in [Cards -> [Fields -> [stage: Steps \cup {"none", "asked", "answered"}, value: Text,
                                 doc: Doc]]]
  /\ touched \in [Cards -> [Fields -> BOOLEAN]] /\ edits \in 0..MaxEdits
  /\ owed \in [Fields -> Text] /\ contested \in SUBSET Fields

\* "A concurrent edit by the OTHER instance in this process is merged rather than
\* overwritten", and so is one of another process whose save is over: the file holds every
\* budget as it was last saved, whichever store saved it, however old the copies of the
\* others were, and wherever a write failed.  Only fields that two processes' saves at
\* once put in doubt are excepted, until a save of the field that nobody runs into.
SavedBudgetsStand == \A f \in Fields \ contested : file[f] = owed[f]

\* "Drafts mirror the stored values as strings": a box the user did not write in since it
\* was loaded is never saved.
OnlyTypedBudgetsAreSaved ==
  [][\A c \in Cards, f \in Fields :
       saving[c][f] = NoSave /\ saving'[c][f] # NoSave => touched[c][f]]_vars
=============================================================================
