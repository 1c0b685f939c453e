---------------------------- MODULE ModelVisibility ----------------------------
(***************************************************************************)
(* The list of hidden models: a settings file that several instances of    *)
(* ModelVisibility read and rewrite, each with a copy of the map, the text *)
(* it last read or wrote, and a memo of the set it hands out.  There is no *)
(* lock.  A toggle reads, writes a temporary file whose name all instances *)
(* share, and renames it; every instance is taken to live in a process of  *)
(* its own, so that these steps interleave.                                *)
(*                                                                         *)
(* A file is an inode: a writer that still has the temporary file open     *)
(* after another has renamed it goes on writing into the settings file.    *)
(* The map of one provider is the set of the models it hides.              *)
(***************************************************************************)
EXTENDS Naturals, FiniteSets

CONSTANTS
  Instances,
  Models,
  Partial,     \* a text cut short, or mixed from two writers: it does not parse
  None,        \* no memo
  MaxToggles   \* bound

VARIABLES
  text,      \* what each inode holds
  fileNode,  \* the inode of agy-models.json, 0 if there is none
  tmpNode,   \* the inode of agy-models.json.tmp, 0 if there is none
  copy,      \* what each instance has in memory
  shown,     \* the set it last handed out
  pc,        \* where its toggle stands
  next,      \* the map its toggle is writing
  fd,        \* the inode its toggle has open
  toggles,
  expected,  \* the map that the toggles so far make, one after the other
  overlapped \* whether two toggles ever overlapped

files == <<text, fileNode, tmpNode>>
toggling == <<pc, next, fd>>
vars == <<text, fileNode, tmpNode, copy, shown, pc, next, fd, toggles, expected, overlapped>>

\* one for the settings file, and one for each instance's toggle
Nodes == 1..Cardinality(Instances) + 1
Sets == SUBSET Models
Texts == {Partial} \cup Sets

\* readFileSync: no file and no map read alike
Text == IF fileNode = 0 THEN {} ELSE text[fileNode]
\* parseModelVisibility: what does not parse hides nothing
Parsed(t) == IF t = Partial THEN {} ELSE t

Fresh == [disabled |-> {}, raw |-> {}, memo |-> None]

KeepsItsMemo(c) == [disabled |-> Parsed(Text), raw |-> Text, memo |-> c.memo]
KeepsItsCopy(c) == c
\* reload: read the file, drop the memo
Reloaded(c) == [disabled |-> Parsed(Text), raw |-> Text, memo |-> None]

\* reloadIfChanged: the texts are compared
Revalidated(c) == IF Text = c.raw THEN c ELSE Reloaded(c)

Init ==
  /\ text = [n \in Nodes |-> {}]
  /\ fileNode = 0
  /\ tmpNode = 0
  /\ copy = [i \in Instances |-> Fresh]
  /\ shown = [i \in Instances |-> {}]
  /\ pc = [i \in Instances |-> "idle"]
  /\ next = [i \in Instances |-> {}]
  /\ fd = [i \in Instances |-> 0]
  /\ toggles = 0
  /\ expected = {}
  /\ overlapped = FALSE

Goto(i, l) == pc' = [pc EXCEPT ![i] = l]

\* disabledFor: the memo, or the set of the map, which becomes the memo unless empty
DisabledFor(i) ==
  /\ pc[i] = "idle"
  /\ LET c == Revalidated(copy[i])
         answer == IF c.memo # None THEN c.memo ELSE c.disabled
     IN  /\ shown' = [shown EXCEPT ![i] = answer]
         /\ copy' = [copy EXCEPT ![i] = [c EXCEPT !.memo = IF answer = {} THEN @ ELSE answer]]
  /\ UNCHANGED <<files, toggling, toggles, expected, overlapped>>

\* setDisabled: the edit is applied to the map as the file has it now
Toggle(i, m, hide) ==
  /\ pc[i] = "idle" /\ toggles < MaxToggles
  /\ LET c == Reloaded(copy[i])
     IN  /\ copy' = [copy EXCEPT ![i] = c]
         /\ next' = [next EXCEPT ![i] = IF hide THEN c.disabled \cup {m} ELSE c.disabled \ {m}]
  /\ toggles' = toggles + 1
  /\ expected' = IF hide THEN expected \cup {m} ELSE expected \ {m}
  /\ overlapped' = (overlapped \/ \E j \in Instances : pc[j] # "idle")
  /\ Goto(i, "opening")
  /\ UNCHANGED <<files, shown, fd>>

\* writeFileSync opens: a temporary file that is there is truncated, or a new one made
Open(i) ==
  /\ pc[i] = "opening"
  /\ LET unused == CHOOSE n \in Nodes : n # fileNode /\ \A j \in Instances : n # fd[j]
         node == IF tmpNode # 0 THEN tmpNode ELSE unused
     IN  /\ text' = [text EXCEPT ![node] = Partial]
         /\ tmpNode' = node
         /\ fd' = [fd EXCEPT ![i] = node]
  /\ Goto(i, "writing")
  /\ UNCHANGED <<fileNode, copy, shown, next, toggles, expected, overlapped>>

\* and writes; over a text another has written meanwhile, the result may be a mixture
Write(i) ==
  /\ pc[i] = "writing"
  /\ \E t \in {next[i]} \cup (IF text[fd[i]] = Partial THEN {} ELSE {Partial}) :
       text' = [text EXCEPT ![fd[i]] = t]
  /\ Goto(i, "renaming")
  /\ UNCHANGED <<fileNode, tmpNode, copy, shown, next, fd, toggles, expected, overlapped>>

\* the instance then holds what it has written
Rename(i) ==
  /\ pc[i] = "renaming" /\ tmpNode # 0
  /\ fileNode' = tmpNode
  /\ tmpNode' = 0
  /\ copy' = [copy EXCEPT ![i] = [disabled |-> next[i], raw |-> next[i], memo |-> None]]
  /\ fd' = [fd EXCEPT ![i] = 0]
  /\ Goto(i, "idle")
  /\ UNCHANGED <<text, shown, next, toggles, expected, overlapped>>

\* another toggle has renamed the temporary file away: ENOENT
RenameFails(i) ==
  /\ pc[i] = "renaming" /\ tmpNode = 0
  /\ fd' = [fd EXCEPT ![i] = 0]
  /\ Goto(i, "idle")
  /\ UNCHANGED <<files, copy, shown, next, toggles, expected, overlapped>>

Next ==
  \E i \in Instances :
    \/ DisabledFor(i)
    \/ \E m \in Models, hide \in BOOLEAN : Toggle(i, m, hide)
    \/ Open(i)
    \/ Write(i)
    \/ Rename(i)
    \/ RenameFails(i)

Spec == Init /\ [][Next]_vars

-----------------------------------------------------------------------------
(* Properties.                                                              *)

TypeOK ==
  /\ text \in [Nodes -> Texts]
  /\ fileNode \in {0} \cup Nodes /\ tmpNode \in {0} \cup Nodes
  /\ copy \in [Instances -> [disabled: Sets, raw: Texts, memo: {None} \cup Sets]]
  /\ shown \in [Instances -> Sets]
  /\ pc \in [Instances -> {"idle", "opening", "writing", "renaming"}]
  /\ next \in [Instances -> Sets]
  /\ fd \in [Instances -> {0} \cup Nodes]
  /\ toggles \in 0..MaxToggles /\ expected \in Sets /\ overlapped \in BOOLEAN

\* "A toggle is written by the web instance while the model selector reads the main
\* instance": whoever asks is shown what the file says, whatever its copy and memo were.
AnswersFollowTheFile ==
  [][\A i \in Instances : DisabledFor(i) => shown'[i] = Parsed(Text)]_vars

\* Toggles that do not overlap are all kept, however many instances make them and
\* whatever copies they hold.
NoToggleIsLost ==
  (\A i \in Instances : pc[i] = "idle") /\ ~overlapped => Parsed(Text) = expected
=============================================================================
