------------------------------- MODULE MasterKey -------------------------------
(***************************************************************************)
(* The key that encrypts the account store: a reference in DSH's           *)
(* credentials document, resolved by every process that starts, made by    *)
(* the first that finds none.  A plugin asks DSH's credentials service     *)
(* first (external: it answers with the reference it sees, may refuse to   *)
(* write, rejects a document with top-level keys it does not know, and     *)
(* writes references of its own); the CLI reads and writes the document    *)
(* itself, with no lock, by a temporary file that all use.  A key is named  *)
(* after the start that drew it, or Earlier.                               *)
(***************************************************************************)
EXTENDS Naturals

CONSTANTS
  Plugins,   \* starts of a process that has the credentials service
  Tools,     \* starts of a process that has not: the CLI
  Earlier,   \* the key of an earlier installation
  NoKey,
  Absent,    \* there is no such file
  Others     \* references of other services

Starts == Plugins \cup Tools
Keys == Starts \cup {Earlier, NoKey}

VARIABLES
  document,   \* .credentials.yaml
  tmp,        \* .credentials.yaml.tmp-masterkey
  pc,
  key,        \* the key each process works with
  rendered,   \* the document a process is about to write
  handle,     \* where the file is that a process has open for writing
  encrypted,  \* the keys under which accounts have been stored
  \* what a reader of the behaviour knows, and no process does
  raced,      \* two starts were making a key at once
  crossed     \* those, and those that read a document which changed before they wrote theirs

ghostVars == <<raced, crossed>>
vars == <<document, tmp, pc, key, rendered, handle, encrypted, ghostVars>>

(* Layouts: "v1" has a version stamp and its references under refs; "flat" is  *)
(* older and has them, one at least, at the top level; "top" is v1 with the    *)
(* master key at the top level, as version 0.2.7 wrote it; "foreign" is what   *)
(* this build reads and cannot prove it understands: another version, another  *)
(* top-level key, a flat one that is empty or has a section or an empty value. *)
(* No start gets past a document that does not parse: there is none.           *)
Layouts == {"v1", "flat", "top", "foreign"}
Document == [layout: Layouts, key: Keys, refs: SUBSET Others]

\* readCredentialsDocument: a missing or empty document has no references, and the key is
\* found at the top level too
Blank == [layout |-> "v1", key |-> NoKey, refs |-> {}]
Content == IF document = Absent THEN Blank ELSE document
IgnoresTopLevel == IF Content.layout = "top" THEN NoKey ELSE Content.key
StoredKey == Content.key

\* the credentials service reads v1 and flat documents only
ServiceKey == IF Content.layout \in {"v1", "flat"} THEN Content.key ELSE NoKey

\* renderWithMasterKey: a flat document is migrated on the way
FromARebuiltView(d, k) == [layout |-> "v1", key |-> k, refs |-> {}]
WithKey(d, k) == [layout |-> "v1", key |-> k, refs |-> d.refs]

FirstDocuments ==
  {Absent}
    \cup [layout: {"v1", "foreign"}, key: {NoKey, Earlier}, refs: SUBSET Others]
    \cup {d \in [layout: {"flat"}, key: {NoKey, Earlier}, refs: SUBSET Others] :
            d.key # NoKey \/ d.refs # {}}
    \cup [layout: {"top"}, key: {Earlier}, refs: SUBSET Others]

Init ==
  /\ document \in FirstDocuments
  /\ tmp = Absent
  /\ pc = [s \in Starts |-> "off"]
  /\ key = [s \in Starts |-> NoKey]
  /\ rendered = [s \in Starts |-> Content]
  /\ handle = [s \in Starts |-> "none"]
  /\ encrypted = {Content.key} \ {NoKey}
  /\ raced = FALSE /\ crossed = {}

Goto(s, l) == pc' = [pc EXCEPT ![s] = l]
Writing == {"writing", "open", "renaming"}
Making == {"setting", "persisting"} \cup Writing
Makers == {s \in Starts : pc[s] \in Making}
Writers == {s \in Starts : pc[s] \in Writing}

\* resolveCodec, resolveMasterKeyCodec
Start(s) ==
  /\ pc[s] = "off"
  /\ Goto(s, IF s \in Plugins THEN "asking" ELSE "loading")
  /\ UNCHANGED <<document, tmp, key, rendered, handle, encrypted, ghostVars>>

Adopt(s, k) ==
  /\ key' = [key EXCEPT ![s] = k]
  /\ Goto(s, "running")

\* credentials.resolve
Ask(s) ==
  /\ pc[s] = "asking"
  /\ IF ServiceKey # NoKey
       THEN Adopt(s, ServiceKey)
       ELSE Goto(s, "loading") /\ UNCHANGED key
  /\ UNCHANGED <<document, tmp, rendered, handle, encrypted, ghostVars>>

\* loadMasterKey
Load(s) ==
  /\ pc[s] = "loading" /\ StoredKey # NoKey
  /\ Adopt(s, StoredKey)
  /\ UNCHANGED <<document, tmp, rendered, handle, encrypted, ghostVars>>

\* without a key in the document a fresh one is drawn, but for a command that only reads
Draw(s) ==
  /\ pc[s] = "loading" /\ StoredKey = NoKey
  /\ Goto(s, IF s \in Plugins THEN "setting" ELSE "persisting")
  /\ raced' = (raced \/ Makers # {})
  /\ crossed' = IF Makers = {} THEN crossed ELSE crossed \cup Makers \cup {s}
  /\ UNCHANGED <<document, tmp, key, rendered, handle, encrypted>>

GiveUp(s) ==
  /\ pc[s] = "loading" /\ StoredKey = NoKey /\ s \in Tools
  /\ Goto(s, "failed")
  /\ UNCHANGED <<document, tmp, key, rendered, handle, encrypted, ghostVars>>

\* the document is replaced: a writer's text is older than it, and who has it open writes
\* into a file that nobody sees any more
Replaced(new, s) ==
  /\ document' = new
  /\ crossed' = crossed \cup (Writers \ {s})
  /\ UNCHANGED raced

\* credentials.set: the service overwrites whatever is there, if it understands it
Set(s) ==
  /\ pc[s] = "setting" /\ Content.layout \in {"v1", "flat"}
  /\ Replaced(WithKey(Content, s), s)
  /\ handle' = [t \in Starts |-> IF handle[t] = "file" THEN "none" ELSE handle[t]]
  /\ Adopt(s, s)
  /\ UNCHANGED <<tmp, rendered, encrypted>>

SetRefused(s) ==
  /\ pc[s] = "setting"
  /\ Goto(s, "persisting")
  /\ UNCHANGED <<document, tmp, key, rendered, handle, encrypted, ghostVars>>

\* persistMasterKey: read, refuse a document that has a key or is not understood
Persist(s) ==
  /\ pc[s] = "persisting"
  /\ IF StoredKey = NoKey /\ Content.layout # "foreign"
       THEN Goto(s, "writing") /\ rendered' = [rendered EXCEPT ![s] = WithKey(Content, s)]
       ELSE Goto(s, "failed") /\ UNCHANGED rendered
  /\ UNCHANGED <<document, tmp, key, handle, encrypted, ghostVars>>

\* writeFileSync opens the temporary file, emptying the one that is there, and writes: into
\* the document itself, or into nothing, when others have renamed the file meanwhile
OpenAside(s) ==
  /\ pc[s] = "writing"
  /\ tmp' = Blank
  /\ handle' = [handle EXCEPT ![s] = "tmp"]
  /\ Goto(s, "open")
  /\ UNCHANGED <<document, key, rendered, encrypted, ghostVars>>

WriteAside(s) ==
  /\ pc[s] = "open"
  /\ tmp' = IF handle[s] = "tmp" THEN rendered[s] ELSE tmp
  /\ IF handle[s] = "file" THEN Replaced(rendered[s], s) ELSE UNCHANGED <<document, ghostVars>>
  /\ handle' = [handle EXCEPT ![s] = "none"]
  /\ Goto(s, "renaming")
  /\ UNCHANGED <<key, rendered, encrypted>>

Rename(s) ==
  /\ pc[s] = "renaming" /\ tmp # Absent
  /\ Replaced(tmp, s) /\ tmp' = Absent
  /\ handle' = [t \in Starts |-> IF handle[t] = "tmp" THEN "file" ELSE "none"]
  /\ Adopt(s, s)
  /\ UNCHANGED <<rendered, encrypted>>

\* another start has taken the temporary file
RenameFails(s) ==
  /\ pc[s] = "renaming" /\ tmp = Absent
  /\ Goto(s, "failed")
  /\ UNCHANGED <<document, tmp, key, rendered, handle, encrypted, ghostVars>>

\* a running process stores accounts under its key (encrypt in saveAccounts)
Store(s) ==
  /\ pc[s] = "running" /\ key[s] \notin encrypted
  /\ encrypted' = encrypted \cup {key[s]}
  /\ UNCHANGED <<document, tmp, pc, key, rendered, handle, ghostVars>>

Die(s) ==
  /\ pc[s] \in {"asking", "loading", "running"} \cup Making
  /\ Goto(s, "dead")
  /\ handle' = [handle EXCEPT ![s] = "none"]
  /\ UNCHANGED <<document, tmp, key, rendered, encrypted, ghostVars>>

\* another service stores a reference
ServiceWrites(r) ==
  /\ Content.layout \in {"v1", "flat"} /\ r \notin Content.refs
  /\ document' = [layout |-> "v1", key |-> Content.key, refs |-> Content.refs \cup {r}]
  /\ crossed' = crossed \cup Writers
  /\ handle' = [t \in Starts |-> IF handle[t] = "file" THEN "none" ELSE handle[t]]
  /\ UNCHANGED <<tmp, pc, key, rendered, encrypted, raced>>

Next ==
  \/ \E s \in Starts :
       \/ Start(s) \/ Ask(s) \/ Load(s) \/ Draw(s) \/ GiveUp(s) \/ Set(s) \/ SetRefused(s)
       \/ Persist(s) \/ OpenAside(s) \/ WriteAside(s) \/ Rename(s) \/ RenameFails(s)
       \/ Store(s) \/ Die(s)
  \/ \E r \in Others : ServiceWrites(r)

Spec == Init /\ [][Next]_vars

-----------------------------------------------------------------------------
(* Properties.                                                              *)

TypeOK ==
  /\ document \in {Absent} \cup Document /\ tmp \in {Absent} \cup Document
  /\ pc \in [Starts -> {"off", "asking", "loading", "running", "failed", "dead"} \cup Making]
  /\ key \in [Starts -> Keys]
  /\ rendered \in [Starts -> Document]
  /\ handle \in [Starts -> {"none", "tmp", "file"}]
  /\ encrypted \subseteq Keys \ {NoKey}
  /\ raced \in BOOLEAN /\ crossed \subseteq Starts

\* "So both the in-harness plugin and the standalone CLI can encrypt and decrypt the
\* same account store": a running process has the one key under which accounts have
\* been stored, whatever layout the document had, whoever else writes into it and wherever
\* earlier starts died, until two starts are making a key at the same time: then each may
\* keep one of its own.
AccountsStayReadable ==
  ~raced => \A s \in Starts : pc[s] = "running" => encrypted \subseteq {key[s]}

\* "Every other credential ... survives": no reference leaves the document but by the
\* write of a start that has been crossed: another was making a key together with it, or
\* the document changed between its reading and its rename.
CredentialsSurvive ==
  [][\/ Content.refs \subseteq Content'.refs
     \/ \E s \in crossed : pc[s] \in {"open", "renaming"} /\ pc'[s] # pc[s]]_vars
=============================================================================
