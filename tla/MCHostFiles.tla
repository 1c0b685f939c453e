----------------------------- MODULE MCHostFiles -----------------------------
(***************************************************************************)
(* The files that the processes of one machine share: the account          *)
(* document, the recent requests, the hidden models and the credentials    *)
(* document.  No step touches two of them, so that nothing is lost in      *)
(* letting one of them move in a behaviour and keeping the others still.   *)
(***************************************************************************)
EXTENDS AccountStore, TLC

CONSTANTS
  Part,         \* the file that moves
  Procs, Ghost, Whats, LastTime, RingMax, FlushEvery, MaxCaptures, MaxFaults, MaxEnds,
  Instances, Models, Partial, None, MaxToggles,
  Plugins, Tools, Earlier, NoKey, Others

VARIABLES
  ringFile, ringTmp, ringLock, entries, pending, timer, failing, ringPc, batch, ringBuf, life,
  captures, flushed, ringReplaced, now, faults, ends,
  text, fileNode, tmpNode, copy, shown, togglePc, next, fd, toggles, expected, overlapped,
  document, keyTmp, keyPc, key, rendered, handle, encrypted, raced, crossed, part

ringVars == <<ringFile, ringTmp, ringLock, entries, pending, timer, failing, ringPc, batch,
              ringBuf, life, captures, flushed, ringReplaced, now, faults,
              ends>>
visibilityVars == <<text, fileNode, tmpNode, copy, shown, togglePc, next, fd, toggles, expected,
                    overlapped>>
keyVars == <<document, keyTmp, keyPc, key, rendered, handle, encrypted, raced, crossed>>

Ring == INSTANCE RecentRing WITH
  Nobody <- NoOp, replaced <- ringReplaced,
  file <- ringFile, tmp <- ringTmp, lock <- ringLock, pc <- ringPc, buf <- ringBuf
Visibility == INSTANCE ModelVisibility WITH pc <- togglePc
Credentials == INSTANCE MasterKey WITH tmp <- keyTmp, pc <- keyPc

AllInit ==
  /\ part \in Part
  /\ Init /\ Ring!Init /\ Visibility!Init /\ Credentials!Init
  /\ part # "accounts" => file = Absent
  /\ part # "credentials" => document = Absent
  \* the ring's file is made on first use in behaviours without faults, and else there
  /\ part # "recent" => ringFile # Absent
  /\ <<faults, ends>> = IF ringFile = Absent THEN <<MaxFaults, MaxEnds>> ELSE <<0, 0>>

AllNext ==
  \/ part = "accounts" /\ Next /\ UNCHANGED <<ringVars, visibilityVars, keyVars, part>>
  \/ part = "recent" /\ Ring!Next /\ UNCHANGED <<vars, visibilityVars, keyVars, part>>
  \/ part = "models" /\ Visibility!Next /\ UNCHANGED <<vars, ringVars, keyVars, part>>
  \/ part = "credentials" /\ Credentials!Next /\ UNCHANGED <<vars, ringVars, visibilityVars, part>>

AllSpec == AllInit /\ [][AllNext]_<<vars, ringVars, visibilityVars, keyVars, part>>

Symmetry == Permutations(Loads) \cup Permutations(Mutations)

-----------------------------------------------------------------------------
(* The properties of the parts, under their own names.                      *)

\* Every variable of every part has its type.
AllTypesOK == TypeOK /\ Ring!TypeOK /\ Visibility!TypeOK /\ Credentials!TypeOK

\* The recent list is the newest of what was flushed (RecentRing).
FileKeepsTheNewest == Ring!FileKeepsTheNewest
\* A captured row is not lost by a flush that fails (RecentRing).
CapturesSurvive == Ring!CapturesSurvive
\* Toggles of models that do not overlap are all kept (ModelVisibility).
NoToggleIsLost == Visibility!NoToggleIsLost
\* Whoever asks for the hidden models is told what the file says (ModelVisibility).
AnswersFollowTheFile == Visibility!AnswersFollowTheFile
\* All processes work with one key, but for starts that race (MasterKey).
AccountsStayReadable == Credentials!AccountsStayReadable
\* No reference of another service leaves the credentials document but by a write that
\* was crossed (MasterKey).
CredentialsSurvive == Credentials!CredentialsSurvive
=============================================================================
