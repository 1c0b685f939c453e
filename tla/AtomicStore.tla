----------------------------- MODULE AtomicStore -----------------------------
(***************************************************************************)
(* What the AccountStore interface promises: load answers the current      *)
(* document, mutate is "load-mutate-save atomically".  Each operation      *)
(* takes effect at one instant or, if it fails, not at all; the identity   *)
(* of an account that had none is chosen once, by whoever comes first.     *)
(***************************************************************************)
CONSTANTS
  Loads,      \* calls of load
  Mutations,  \* calls of mutate
  NoId,       \* the accounts of the document lack their ids
  FirstDoc,   \* the document at the start
  NoReply

VARIABLES
  doc,    \* the mutations applied, and who chose the account ids
  reply   \* the document each operation saw when it took effect

vars == <<doc, reply>>

Operations == Loads \cup Mutations

WithId(d, o) == [d EXCEPT !.id = IF @ = NoId THEN o ELSE @]
WithUpdate(d, o) == [d EXCEPT !.applied = IF o \in Mutations THEN @ \cup {o} ELSE @]

Take(o) ==
  /\ reply[o] = NoReply
  /\ doc' = WithUpdate(WithId(doc, o), o)
  /\ reply' = [reply EXCEPT ![o] = doc']

Init ==
  /\ doc = FirstDoc
  /\ reply = [o \in Operations |-> NoReply]

Next == \E o \in Operations : Take(o)
Spec == Init /\ [][Next]_vars
=============================================================================
