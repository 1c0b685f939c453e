-------------------------- MODULE MCHostFiles_proofs ---------------------------
(***************************************************************************)
(* Proofs about the files that the processes of one machine share, for     *)
(* every value of the constants: the credentials document, the hidden      *)
(* models and the recent requests; the account document has its own        *)
(* module.                                                                 *)
(***************************************************************************)
EXTENDS MCHostFiles, AccountStore_proofs, FiniteSetTheorems, SequenceTheorems, TLAPS

-----------------------------------------------------------------------------
(* The credentials document.                                                *)

\* A key is told from no key, and a document from none.
KeyNames ==
  /\ NoKey \notin Credentials!Starts /\ Earlier # NoKey
  /\ Absent \notin Credentials!Document

Stages == {"off", "asking", "loading", "running", "failed", "dead"} \cup Credentials!Making
DocumentKey == Credentials!Content.key

\* Starts that make a key together have raced and crossed each other.
MakersCross ==
  \A s, t \in Credentials!Starts :
    s # t /\ keyPc[s] \in Credentials!Making /\ keyPc[t] \in Credentials!Making =>
      raced /\ s \in crossed

\* Until two starts race, accounts are stored under the document's key only, which every
\* running process has, and who makes a key found none.
OneKey ==
  ~raced =>
    /\ encrypted \subseteq {DocumentKey} \ {NoKey}
    /\ \A s \in Credentials!Starts :
         /\ keyPc[s] = "running" => key[s] = DocumentKey /\ key[s] # NoKey
         /\ keyPc[s] \in Credentials!Making => DocumentKey = NoKey

\* Nobody else makes a key together with this start.
IsAlone(s) == ~raced \/ s \notin crossed

\* A start writes its own key into the document that it read, and by a temporary file of its
\* own as long as it is alone.
TextsAreOwn ==
  \A s \in Credentials!Starts :
    keyPc[s] \in Credentials!Writing =>
      /\ rendered[s].key = s
      /\ s \notin crossed => rendered[s].refs = Credentials!Content.refs
      /\ IsAlone(s) => /\ keyPc[s] = "open" => handle[s] = "tmp"
                       /\ keyPc[s] = "renaming" => keyTmp = rendered[s]

KeyInv == Credentials!TypeOK /\ MakersCross /\ OneKey /\ TextsAreOwn

\* What is read of the document is a document.
LEMMA CredentialsContent ==
  ASSUME Credentials!TypeOK
  PROVE  /\ Credentials!Content \in Credentials!Document
         /\ DocumentKey \in Credentials!Keys /\ Credentials!Content.refs \subseteq Others
<1>1. Credentials!Blank \in Credentials!Document
  BY DEF Credentials!Blank, Credentials!Document, Credentials!Layouts, Credentials!Keys
<1>2. Credentials!Content \in Credentials!Document
  BY <1>1 DEF Credentials!TypeOK, Credentials!Content
<1> QED
  BY <1>2 DEF Credentials!Document, DocumentKey

\* Putting a key into a document leaves its references (renderWithMasterKey).
LEMMA CredentialsWithKey ==
  ASSUME NEW d \in Credentials!Document, NEW s \in Credentials!Starts
  PROVE  /\ Credentials!WithKey(d, s) \in Credentials!Document
         /\ Credentials!WithKey(d, s).key = s /\ Credentials!WithKey(d, s).refs = d.refs
BY DEF Credentials!WithKey, Credentials!Document, Credentials!Keys, Credentials!Layouts

\* A document that is there is read as it is.
LEMMA CredentialsContentIsThere ==
  ASSUME KeyNames, document' \in Credentials!Document
  PROVE  Credentials!Content' = document'
BY DEF KeyNames, Credentials!Content

\* Nothing has been started, and what was stored was stored under the document's key.
LEMMA KeyInitInv == KeyNames /\ Credentials!Init => KeyInv
<1> SUFFICES ASSUME KeyNames, Credentials!Init PROVE KeyInv
  OBVIOUS
<1>1. document \in {Absent} \cup Credentials!Document
  BY DEF Credentials!Init, Credentials!FirstDocuments, Credentials!Document, Credentials!Layouts,
         Credentials!Keys
<1>2. Credentials!Content \in Credentials!Document
  BY <1>1 DEF Credentials!Content, Credentials!Blank, Credentials!Document, Credentials!Layouts,
              Credentials!Keys
<1>3. DocumentKey \in Credentials!Keys
  BY <1>2 DEF Credentials!Document, DocumentKey
<1>4. /\ encrypted \subseteq {DocumentKey} \ {NoKey}
      /\ \A s \in Credentials!Starts : keyPc[s] = "off"
  BY DEF Credentials!Init, DocumentKey
<1>5. Credentials!TypeOK
  BY <1>1, <1>2, <1>3, <1>4 DEF Credentials!Init, Credentials!TypeOK, Credentials!Keys
<1>6. MakersCross /\ OneKey /\ TextsAreOwn
  BY <1>4 DEF MakersCross, OneKey, TextsAreOwn, Credentials!Making, Credentials!Writing
<1> QED
  BY <1>5, <1>6 DEF KeyInv

\* Who is alone is the only one that makes a key.
LEMMA OthersMakeNone ==
  ASSUME KeyInv, NEW s \in Credentials!Starts, IsAlone(s), keyPc[s] \in Credentials!Making
  PROVE  \A t \in Credentials!Starts \ {s} : keyPc[t] \notin Credentials!Making
BY DEF KeyInv, MakersCross, IsAlone

\* A step of one start that leaves the document alone keeps the invariant, if what it comes
\* to know of the document is so.
LEMMA ResolverStep ==
  ASSUME KeyInv, NEW s \in Credentials!Starts, NEW l \in Stages,
         keyPc' = [keyPc EXCEPT ![s] = l], UNCHANGED <<document, encrypted, raced, crossed>>,
         keyTmp' \in {Absent} \cup Credentials!Document,
         key' \in [Credentials!Starts -> Credentials!Keys],
         rendered' \in [Credentials!Starts -> Credentials!Document],
         handle' \in [Credentials!Starts -> {"none", "tmp", "file"}],
         \A t \in Credentials!Starts \ {s} :
           key'[t] = key[t] /\ rendered'[t] = rendered[t] /\ handle'[t] = handle[t],
         keyTmp' = keyTmp \/ keyPc[s] \in Credentials!Making,
         l \in Credentials!Making => keyPc[s] \in Credentials!Making,
         l = "running" /\ ~raced => key'[s] = DocumentKey /\ key'[s] # NoKey,
         l \in Credentials!Writing =>
           /\ rendered'[s].key = s
           /\ s \notin crossed => rendered'[s].refs = Credentials!Content.refs
           /\ IsAlone(s) => /\ l = "open" => handle'[s] = "tmp"
                            /\ l = "renaming" => keyTmp' = rendered'[s]
  PROVE  KeyInv'
<1>1. \A t \in Credentials!Starts : keyPc'[t] = IF t = s THEN l ELSE keyPc[t]
  BY DEF KeyInv, Credentials!TypeOK
<1>2. Credentials!Content' = Credentials!Content /\ DocumentKey' = DocumentKey
  BY DEF Credentials!Content, DocumentKey
<1>3. Credentials!TypeOK'
  BY DEF KeyInv, Credentials!TypeOK, Stages
<1>4. MakersCross'
  BY <1>1 DEF KeyInv, MakersCross
<1>5. OneKey'
  <2> SUFFICES ASSUME ~raced
               PROVE  /\ encrypted \subseteq {DocumentKey} \ {NoKey}
                      /\ \A t \in Credentials!Starts :
                           /\ keyPc'[t] = "running" => key'[t] = DocumentKey /\ key'[t] # NoKey
                           /\ keyPc'[t] \in Credentials!Making => DocumentKey = NoKey
    BY <1>2 DEF OneKey
  <2> QED
    BY <1>1 DEF KeyInv, OneKey
<1>6. TextsAreOwn'
  <2> SUFFICES ASSUME NEW t \in Credentials!Starts, keyPc'[t] \in Credentials!Writing
               PROVE  /\ rendered'[t].key = t
                      /\ t \notin crossed => rendered'[t].refs = Credentials!Content.refs
                      /\ IsAlone(t) => /\ keyPc'[t] = "open" => handle'[t] = "tmp"
                                       /\ keyPc'[t] = "renaming" => keyTmp' = rendered'[t]
    BY <1>2 DEF TextsAreOwn, IsAlone
  <2>1. CASE t = s
    BY <1>1, <2>1
  <2>2. CASE t # s
    <3>1. /\ keyPc'[t] = keyPc[t] /\ rendered'[t] = rendered[t] /\ handle'[t] = handle[t]
          /\ keyPc[t] \in Credentials!Making
      BY <1>1, <2>2 DEF Credentials!Making
    <3>2. IsAlone(t) => keyTmp' = keyTmp
      BY <2>2, <3>1, OthersMakeNone
    <3> QED
      BY <3>1, <3>2 DEF KeyInv, TextsAreOwn
  <2> QED
    BY <2>1, <2>2
<1> QED
  BY <1>3, <1>4, <1>5, <1>6 DEF KeyInv

\* What a start finds before it makes a key: the service's answer, the document's, or that
\* there is none.
LEMMA LookingKeepsKeyInv ==
  ASSUME KeyNames, KeyInv, NEW s \in Credentials!Starts,
         \/ Credentials!Start(s) \/ Credentials!Ask(s) \/ Credentials!Load(s)
         \/ Credentials!GiveUp(s)
  PROVE  KeyInv' /\ document' = document
<1> USE DEF Credentials!Goto, Stages, Credentials!Making, Credentials!Writing
<1>1. /\ UNCHANGED <<document, keyTmp, rendered, handle, encrypted, raced, crossed>>
      /\ keyTmp \in {Absent} \cup Credentials!Document
      /\ rendered \in [Credentials!Starts -> Credentials!Document]
      /\ key \in [Credentials!Starts -> Credentials!Keys]
      /\ handle \in [Credentials!Starts -> {"none", "tmp", "file"}]
  BY DEF Credentials!Start, Credentials!Ask, Credentials!Load, Credentials!GiveUp, KeyInv,
         Credentials!TypeOK, Credentials!ghostVars
<1>2. DocumentKey \in Credentials!Keys
  BY CredentialsContent DEF KeyInv
<1>3. ASSUME NEW l \in {"asking", "loading", "failed"},
             keyPc' = [keyPc EXCEPT ![s] = l], key' = key
      PROVE  KeyInv'
  BY <1>1, <1>3, ResolverStep
<1>4. ASSUME DocumentKey # NoKey, Credentials!Adopt(s, DocumentKey)
      PROVE  KeyInv'
  <2>1. /\ keyPc' = [keyPc EXCEPT ![s] = "running"] /\ key' = [key EXCEPT ![s] = DocumentKey]
        /\ key' \in [Credentials!Starts -> Credentials!Keys] /\ key'[s] = DocumentKey
        /\ \A t \in Credentials!Starts \ {s} : key'[t] = key[t]
    BY <1>1, <1>2, <1>4 DEF Credentials!Adopt
  <2> QED
    BY <1>1, <1>4, <2>1, ResolverStep
<1>5. CASE Credentials!Start(s)
  <2>1. /\ keyPc' = [keyPc EXCEPT ![s] = IF s \in Plugins THEN "asking" ELSE "loading"]
        /\ key' = key
    BY <1>5 DEF Credentials!Start
  <2> QED
    BY <1>1, <1>3, <2>1
<1>6. CASE Credentials!Ask(s)
  <2>1. CASE Credentials!ServiceKey # NoKey
    <3>1. Credentials!ServiceKey = DocumentKey
      BY <2>1 DEF Credentials!ServiceKey, DocumentKey
    <3> QED
      BY <1>1, <1>4, <1>6, <2>1, <3>1 DEF Credentials!Ask
  <2>2. CASE Credentials!ServiceKey = NoKey
    BY <1>1, <1>3, <1>6, <2>2 DEF Credentials!Ask
  <2> QED
    BY <2>1, <2>2
<1>7. CASE Credentials!Load(s)
  BY <1>1, <1>4, <1>7 DEF Credentials!Load, Credentials!StoredKey, DocumentKey
<1>8. CASE Credentials!GiveUp(s)
  BY <1>1, <1>3, <1>8 DEF Credentials!GiveUp
<1> QED
  BY <1>1, <1>5, <1>6, <1>7, <1>8

\* A start draws a key: whoever makes one at that moment races with it.
LEMMA DrawingKeepsKeyInv ==
  ASSUME KeyInv, NEW s \in Credentials!Starts, Credentials!Draw(s)
  PROVE  KeyInv' /\ document' = document
<1> DEFINE l == IF s \in Plugins THEN "setting" ELSE "persisting"
<1>1. /\ keyPc[s] = "loading" /\ DocumentKey = NoKey
      /\ keyPc' = [keyPc EXCEPT ![s] = l]
      /\ raced' = (raced \/ Credentials!Makers # {})
      /\ crossed' = IF Credentials!Makers = {} THEN crossed
                    ELSE crossed \cup Credentials!Makers \cup {s}
      /\ UNCHANGED <<document, keyTmp, key, rendered, handle, encrypted>>
  BY DEF Credentials!Draw, Credentials!Goto, Credentials!StoredKey, DocumentKey
<1>2. l \in Credentials!Making /\ l \notin Credentials!Writing /\ l # "running"
  BY DEF Credentials!Making, Credentials!Writing
<1> HIDE DEF l
<1>3. \A t \in Credentials!Starts : keyPc'[t] = IF t = s THEN l ELSE keyPc[t]
  BY <1>1 DEF KeyInv, Credentials!TypeOK
<1>4. Credentials!Content' = Credentials!Content /\ DocumentKey' = DocumentKey
  BY <1>1 DEF Credentials!Content, DocumentKey
<1>5. /\ raced => raced'
      /\ Credentials!Makers # {} => raced'
      /\ crossed \subseteq crossed' /\ crossed' \subseteq Credentials!Starts
      /\ Credentials!Makers # {} => Credentials!Makers \cup {s} \subseteq crossed'
  BY <1>1 DEF KeyInv, Credentials!TypeOK, Credentials!Makers
<1>6. Credentials!TypeOK'
  <2>1. keyPc' \in [Credentials!Starts ->
                      {"off", "asking", "loading", "running", "failed", "dead"}
                        \cup Credentials!Making]
    BY <1>1, <1>2 DEF KeyInv, Credentials!TypeOK
  <2>2. raced' \in BOOLEAN
    BY <1>1
  <2> QED
    BY <1>1, <1>5, <2>1, <2>2 DEF KeyInv, Credentials!TypeOK
<1>7. MakersCross'
  <2> SUFFICES ASSUME NEW t \in Credentials!Starts, NEW u \in Credentials!Starts, t # u,
                      keyPc'[t] \in Credentials!Making, keyPc'[u] \in Credentials!Making
               PROVE  raced' /\ t \in crossed'
    BY DEF MakersCross
  <2>1. CASE t # s /\ u # s
    BY <1>3, <1>5, <2>1 DEF KeyInv, MakersCross
  <2>2. CASE t = s \/ u = s
    <3>1. Credentials!Makers # {} /\ (t = s \/ t \in Credentials!Makers)
      BY <1>3, <2>2 DEF Credentials!Makers
    <3> QED
      BY <1>5, <3>1
  <2> QED
    BY <2>1, <2>2
<1>8. OneKey'
  <2> SUFFICES ASSUME ~raced'
               PROVE  /\ encrypted \subseteq {DocumentKey} \ {NoKey}
                      /\ \A t \in Credentials!Starts :
                           /\ keyPc'[t] = "running" => key[t] = DocumentKey /\ key[t] # NoKey
                           /\ keyPc'[t] \in Credentials!Making => DocumentKey = NoKey
    BY <1>1, <1>4 DEF OneKey
  <2> QED
    BY <1>1, <1>2, <1>3, <1>5 DEF KeyInv, OneKey
<1>9. TextsAreOwn'
  <2> SUFFICES ASSUME NEW t \in Credentials!Starts, keyPc'[t] \in Credentials!Writing
               PROVE  /\ rendered[t].key = t
                      /\ t \notin crossed' => rendered[t].refs = Credentials!Content.refs
                      /\ IsAlone(t)' => /\ keyPc'[t] = "open" => handle[t] = "tmp"
                                        /\ keyPc'[t] = "renaming" => keyTmp = rendered[t]
    BY <1>1, <1>4 DEF TextsAreOwn
  <2>1. t # s /\ keyPc'[t] = keyPc[t]
    BY <1>2, <1>3
  <2>2. IsAlone(t)' => IsAlone(t)
    BY <1>5 DEF IsAlone
  <2> QED
    BY <1>5, <2>1, <2>2 DEF KeyInv, TextsAreOwn
<1> QED
  BY <1>1, <1>6, <1>7, <1>8, <1>9 DEF KeyInv

\* The service refuses, the document is read once more and rendered, the temporary file is
\* opened; the rename fails, or the process dies.
LEMMA MakingKeepsKeyInv ==
  ASSUME KeyNames, KeyInv, NEW s \in Credentials!Starts,
         \/ Credentials!SetRefused(s) \/ Credentials!Persist(s) \/ Credentials!OpenAside(s)
         \/ Credentials!RenameFails(s) \/ Credentials!Die(s)
  PROVE  KeyInv' /\ document' = document
<1> USE DEF Credentials!Goto, Stages, Credentials!Making, Credentials!Writing
<1>1. /\ key' = key /\ UNCHANGED <<document, encrypted, raced, crossed>>
      /\ keyTmp \in {Absent} \cup Credentials!Document
      /\ rendered \in [Credentials!Starts -> Credentials!Document]
      /\ key \in [Credentials!Starts -> Credentials!Keys]
      /\ handle \in [Credentials!Starts -> {"none", "tmp", "file"}]
  BY DEF Credentials!SetRefused, Credentials!Persist, Credentials!OpenAside,
         Credentials!RenameFails, Credentials!Die, KeyInv, Credentials!TypeOK,
         Credentials!ghostVars
<1>2. ASSUME NEW l \in {"persisting", "failed", "dead"}, keyPc' = [keyPc EXCEPT ![s] = l],
             l = "persisting" => keyPc[s] \in Credentials!Making,
             UNCHANGED <<keyTmp, rendered>>,
             handle' \in [Credentials!Starts -> {"none", "tmp", "file"}],
             \A t \in Credentials!Starts \ {s} : handle'[t] = handle[t]
      PROVE  KeyInv'
  BY <1>1, <1>2, ResolverStep
<1>3. CASE Credentials!SetRefused(s)
  BY <1>1, <1>2, <1>3 DEF Credentials!SetRefused
<1>4. CASE Credentials!Persist(s)
  <2>1. keyPc[s] = "persisting" /\ UNCHANGED <<keyTmp, handle>>
    BY <1>4 DEF Credentials!Persist
  <2>2. CASE Credentials!StoredKey = NoKey /\ Credentials!Content.layout # "foreign"
    <3> DEFINE new == Credentials!WithKey(Credentials!Content, s)
    <3>1. /\ keyPc' = [keyPc EXCEPT ![s] = "writing"]
          /\ rendered' = [rendered EXCEPT ![s] = new]
      BY <1>4, <2>2 DEF Credentials!Persist
    <3>2. new \in Credentials!Document /\ new.key = s /\ new.refs = Credentials!Content.refs
      BY CredentialsContent, CredentialsWithKey DEF KeyInv
    <3> HIDE DEF new
    <3>3. /\ rendered' \in [Credentials!Starts -> Credentials!Document] /\ rendered'[s] = new
          /\ \A t \in Credentials!Starts \ {s} : rendered'[t] = rendered[t]
      BY <1>1, <3>1, <3>2
    <3> QED
      BY <1>1, <2>1, <3>1, <3>2, <3>3, ResolverStep
  <2>3. CASE ~(Credentials!StoredKey = NoKey /\ Credentials!Content.layout # "foreign")
    <3>1. keyPc' = [keyPc EXCEPT ![s] = "failed"] /\ UNCHANGED rendered
      BY <1>4, <2>3 DEF Credentials!Persist
    <3> QED
      BY <1>1, <1>2, <2>1, <3>1
  <2> QED
    BY <2>2, <2>3
<1>5. CASE Credentials!OpenAside(s)
  <2>1. /\ keyPc[s] = "writing" /\ keyPc' = [keyPc EXCEPT ![s] = "open"]
        /\ keyTmp' = Credentials!Blank /\ handle' = [handle EXCEPT ![s] = "tmp"]
        /\ UNCHANGED rendered
    BY <1>5 DEF Credentials!OpenAside
  <2>2. Credentials!Blank \in Credentials!Document
    BY DEF Credentials!Blank, Credentials!Document, Credentials!Layouts, Credentials!Keys
  <2>3. /\ handle' \in [Credentials!Starts -> {"none", "tmp", "file"}] /\ handle'[s] = "tmp"
        /\ \A t \in Credentials!Starts \ {s} : handle'[t] = handle[t]
    BY <1>1, <2>1
  <2>4. /\ rendered[s].key = s
        /\ s \notin crossed => rendered[s].refs = Credentials!Content.refs
    BY <2>1 DEF KeyInv, TextsAreOwn
  <2> QED
    BY <1>1, <2>1, <2>2, <2>3, <2>4, ResolverStep
<1>6. CASE Credentials!RenameFails(s)
  BY <1>1, <1>2, <1>6 DEF Credentials!RenameFails
<1>7. CASE Credentials!Die(s)
  <2>1. /\ keyPc' = [keyPc EXCEPT ![s] = "dead"] /\ UNCHANGED <<keyTmp, rendered>>
        /\ handle' = [handle EXCEPT ![s] = "none"]
    BY <1>7 DEF Credentials!Die
  <2>2. /\ handle' \in [Credentials!Starts -> {"none", "tmp", "file"}]
        /\ \A t \in Credentials!Starts \ {s} : handle'[t] = handle[t]
    BY <1>1, <2>1
  <2> QED
    BY <1>1, <1>2, <2>1, <2>2
<1> QED
  BY <1>1, <1>3, <1>4, <1>5, <1>6, <1>7

\* Whoever else makes a key when a document is replaced has raced.
LEMMA ReplacingKeepsKeyInv ==
  ASSUME KeyNames, KeyInv, NEW s \in Credentials!Starts, keyPc[s] \in Credentials!Making,
         NEW l \in {"running", "renaming"},
         keyPc' = [keyPc EXCEPT ![s] = l],
         document' \in Credentials!Document, UNCHANGED <<rendered, encrypted, raced>>,
         crossed' = crossed \cup (Credentials!Writers \ {s}),
         keyTmp' \in {Absent} \cup Credentials!Document,
         handle' \in [Credentials!Starts -> {"none", "tmp", "file"}],
         l = "running" => key' = [key EXCEPT ![s] = s] /\ (~raced => document'.key = s),
         l = "renaming" => /\ key' = key /\ raced /\ s \in crossed
                           /\ keyPc[s] \in Credentials!Writing
  PROVE  KeyInv'
<1>1. \A t \in Credentials!Starts : keyPc'[t] = IF t = s THEN l ELSE keyPc[t]
  BY DEF KeyInv, Credentials!TypeOK
<1>2. Credentials!Content' = document' /\ DocumentKey' = document'.key
  BY CredentialsContentIsThere DEF DocumentKey
<1>3. key' \in [Credentials!Starts -> Credentials!Keys]
  BY DEF KeyInv, Credentials!TypeOK, Credentials!Keys
<1>4. Credentials!TypeOK'
  <2>1. crossed' \subseteq Credentials!Starts
    BY DEF KeyInv, Credentials!TypeOK, Credentials!Writers
  <2>2. keyPc' \in [Credentials!Starts ->
                      {"off", "asking", "loading", "running", "failed", "dead"}
                        \cup Credentials!Making]
    BY DEF KeyInv, Credentials!TypeOK, Credentials!Making, Credentials!Writing
  <2> QED
    BY <1>3, <2>1, <2>2 DEF KeyInv, Credentials!TypeOK
<1>5. \A t \in Credentials!Starts \ {s} :
        keyPc[t] \in Credentials!Making => raced /\ t \in crossed
  BY DEF KeyInv, MakersCross
<1>6. MakersCross'
  <2>1. l = "renaming" => keyPc[s] \in Credentials!Making
    OBVIOUS
  <2>2. "running" \notin Credentials!Making
    BY DEF Credentials!Making, Credentials!Writing
  <2> QED
    BY <1>1, <2>1, <2>2 DEF KeyInv, MakersCross
<1>7. OneKey'
  <2> SUFFICES ASSUME ~raced
               PROVE  /\ encrypted \subseteq {document'.key} \ {NoKey}
                      /\ \A t \in Credentials!Starts :
                           /\ keyPc'[t] = "running" => key'[t] = document'.key /\ key'[t] # NoKey
                           /\ keyPc'[t] \in Credentials!Making => document'.key = NoKey
    BY <1>2 DEF OneKey
  <2>1. DocumentKey = NoKey /\ encrypted = {} /\ l = "running" /\ document'.key = s
    BY DEF KeyInv, OneKey
  <2>2. \A t \in Credentials!Starts \ {s} :
          keyPc[t] # "running" /\ keyPc[t] \notin Credentials!Making
    BY <1>5, <2>1 DEF KeyInv, OneKey
  <2>3. key'[s] = s /\ s # NoKey /\ "running" \notin Credentials!Making
    BY <2>1 DEF KeyInv, Credentials!TypeOK, KeyNames, Credentials!Making, Credentials!Writing
  <2> QED
    BY <1>1, <2>1, <2>2, <2>3
<1>8. TextsAreOwn'
  <2> SUFFICES ASSUME NEW t \in Credentials!Starts, keyPc'[t] \in Credentials!Writing
               PROVE  rendered[t].key = t /\ raced /\ t \in crossed
    BY DEF TextsAreOwn, IsAlone
  <2>1. CASE t = s
    <3>1. l = "renaming"
      BY <1>1, <2>1 DEF Credentials!Writing
    <3> QED
      BY <2>1, <3>1 DEF KeyInv, TextsAreOwn
  <2>2. CASE t # s
    <3>1. keyPc[t] \in Credentials!Writing /\ keyPc[t] \in Credentials!Making
      BY <1>1, <2>2 DEF Credentials!Making
    <3> QED
      BY <1>5, <2>2, <3>1 DEF KeyInv, TextsAreOwn
  <2> QED
    BY <2>1, <2>2
<1> QED
  BY <1>4, <1>6, <1>7, <1>8 DEF KeyInv

\* The key comes into the document through the service, or by the rename; of who is not
\* crossed the text is the document with the key.
LEMMA KeysAreMade ==
  ASSUME KeyNames, KeyInv, NEW s \in Credentials!Starts,
         Credentials!Set(s) \/ Credentials!WriteAside(s) \/ Credentials!Rename(s)
  PROVE  /\ KeyInv'
         /\ \/ Credentials!Content.refs \subseteq Credentials!Content'.refs
            \/ s \in crossed /\ keyPc[s] \in {"open", "renaming"} /\ keyPc'[s] # keyPc[s]
<1>1. /\ keyTmp \in {Absent} \cup Credentials!Document
      /\ rendered \in [Credentials!Starts -> Credentials!Document]
      /\ key \in [Credentials!Starts -> Credentials!Keys]
      /\ keyPc \in [Credentials!Starts ->
                      {"off", "asking", "loading", "running", "failed", "dead"}
                        \cup Credentials!Making]
      /\ handle \in [Credentials!Starts -> {"none", "tmp", "file"}]
  BY DEF KeyInv, Credentials!TypeOK
<1>2. CASE Credentials!Set(s)
  <2>1. /\ keyPc[s] = "setting" /\ document' = Credentials!WithKey(Credentials!Content, s)
        /\ crossed' = crossed \cup (Credentials!Writers \ {s})
        /\ handle' = [t \in Credentials!Starts |-> IF handle[t] = "file" THEN "none" ELSE handle[t]]
        /\ key' = [key EXCEPT ![s] = s] /\ keyPc' = [keyPc EXCEPT ![s] = "running"]
        /\ UNCHANGED <<keyTmp, rendered, encrypted, raced>>
    BY <1>2 DEF Credentials!Set, Credentials!Replaced, Credentials!Adopt, Credentials!Goto
  <2>2. /\ document' \in Credentials!Document /\ document'.key = s
        /\ document'.refs = Credentials!Content.refs
    BY <2>1, CredentialsContent, CredentialsWithKey DEF KeyInv
  <2>3. handle' \in [Credentials!Starts -> {"none", "tmp", "file"}]
    BY <1>1, <2>1
  <2>4. keyPc[s] \in Credentials!Making
    BY <2>1 DEF Credentials!Making
  <2>5. KeyInv'
    BY <1>1, <2>1, <2>2, <2>3, <2>4, ReplacingKeepsKeyInv
  <2>6. Credentials!Content' = document'
    BY <2>2, CredentialsContentIsThere
  <2> QED
    BY <2>2, <2>5, <2>6
<1>3. CASE Credentials!WriteAside(s)
  <2>1. /\ keyPc[s] = "open" /\ keyPc' = [keyPc EXCEPT ![s] = "renaming"]
        /\ handle' = [handle EXCEPT ![s] = "none"] /\ UNCHANGED <<key, rendered, encrypted>>
        /\ keyPc[s] \in Credentials!Writing /\ keyPc[s] \in Credentials!Making
    BY <1>3 DEF Credentials!WriteAside, Credentials!Goto, Credentials!Making, Credentials!Writing
  <2>2. /\ handle' \in [Credentials!Starts -> {"none", "tmp", "file"}]
        /\ \A t \in Credentials!Starts \ {s} : handle'[t] = handle[t]
    BY <1>1, <2>1
  <2>3. CASE handle[s] = "file"
    <3>1. document' = rendered[s] /\ keyTmp' = keyTmp /\ UNCHANGED raced
          /\ crossed' = crossed \cup (Credentials!Writers \ {s})
      BY <1>3, <2>3 DEF Credentials!WriteAside, Credentials!Replaced
    <3>2. raced /\ s \in crossed
      BY <2>1, <2>3 DEF KeyInv, TextsAreOwn, IsAlone
    <3>3. KeyInv'
      BY <1>1, <2>1, <2>2, <3>1, <3>2, ReplacingKeepsKeyInv
    <3>4. keyPc'[s] # keyPc[s]
      BY <1>1, <2>1
    <3> QED
      BY <2>1, <3>2, <3>3, <3>4
  <2>4. CASE handle[s] # "file"
    <3>1. /\ keyTmp' = IF handle[s] = "tmp" THEN rendered[s] ELSE keyTmp
          /\ UNCHANGED <<document, raced, crossed>>
      BY <1>3, <2>4 DEF Credentials!WriteAside, Credentials!ghostVars
    <3>2. /\ rendered[s].key = s
          /\ s \notin crossed => rendered[s].refs = Credentials!Content.refs
          /\ IsAlone(s) => handle[s] = "tmp"
      BY <2>1 DEF KeyInv, TextsAreOwn
    <3>3. "renaming" \in Stages /\ keyTmp' \in {Absent} \cup Credentials!Document
      BY <1>1, <3>1 DEF Stages, Credentials!Making, Credentials!Writing
    <3>4. KeyInv'
      BY <1>1, <2>1, <2>2, <3>1, <3>2, <3>3, ResolverStep
    <3>5. Credentials!Content' = Credentials!Content
      BY <3>1 DEF Credentials!Content
    <3> QED
      BY <3>4, <3>5
  <2> QED
    BY <2>3, <2>4
<1>4. CASE Credentials!Rename(s)
  <2>1. /\ keyPc[s] = "renaming" /\ keyTmp # Absent
        /\ document' = keyTmp /\ keyTmp' = Absent
        /\ crossed' = crossed \cup (Credentials!Writers \ {s})
        /\ handle' = [t \in Credentials!Starts |-> IF handle[t] = "tmp" THEN "file" ELSE "none"]
        /\ key' = [key EXCEPT ![s] = s] /\ keyPc' = [keyPc EXCEPT ![s] = "running"]
        /\ UNCHANGED <<rendered, encrypted, raced>>
    BY <1>4 DEF Credentials!Rename, Credentials!Replaced, Credentials!Adopt, Credentials!Goto
  <2>2. keyPc[s] \in Credentials!Writing /\ keyPc[s] \in Credentials!Making
    BY <2>1 DEF Credentials!Making, Credentials!Writing
  <2>3. /\ rendered[s].key = s
        /\ s \notin crossed => rendered[s].refs = Credentials!Content.refs
        /\ IsAlone(s) => keyTmp = rendered[s]
    BY <2>1, <2>2 DEF KeyInv, TextsAreOwn
  <2>4. handle' \in [Credentials!Starts -> {"none", "tmp", "file"}]
    BY <2>1
  <2>5. KeyInv'
    BY <1>1, <2>1, <2>2, <2>3, <2>4, ReplacingKeepsKeyInv DEF IsAlone
  <2>6. Credentials!Content' = keyTmp
    BY <1>1, <2>1, CredentialsContentIsThere
  <2>7. keyPc'[s] # keyPc[s]
    BY <1>1, <2>1
  <2> QED
    BY <2>1, <2>3, <2>5, <2>6, <2>7 DEF IsAlone
<1> QED
  BY <1>2, <1>3, <1>4

\* Accounts are stored under the key that everybody has.
LEMMA StoringKeepsKeyInv ==
  ASSUME KeyInv, NEW s \in Credentials!Starts, Credentials!Store(s), key[s] # NoKey
  PROVE  KeyInv'
<1>1. /\ encrypted' = encrypted \cup {key[s]} /\ keyPc[s] = "running"
      /\ UNCHANGED <<document, keyTmp, keyPc, key, rendered, handle, raced, crossed>>
  BY DEF Credentials!Store, Credentials!ghostVars
<1>2. encrypted' \subseteq Credentials!Keys \ {NoKey}
  BY <1>1 DEF KeyInv, Credentials!TypeOK
<1>3. Credentials!Content' = Credentials!Content /\ DocumentKey' = DocumentKey
  BY <1>1 DEF Credentials!Content, DocumentKey
<1>4. Credentials!TypeOK'
  BY <1>1, <1>2 DEF KeyInv, Credentials!TypeOK
<1>5. OneKey'
  <2>1. ~raced => encrypted' \subseteq {DocumentKey} \ {NoKey}
    BY <1>1 DEF KeyInv, OneKey
  <2> QED
    BY <1>1, <1>3, <2>1 DEF KeyInv, OneKey
<1>6. MakersCross' /\ TextsAreOwn'
  BY <1>1, <1>3 DEF KeyInv, MakersCross, TextsAreOwn, IsAlone
<1> QED
  BY <1>4, <1>5, <1>6 DEF KeyInv

\* Another service adds a reference to its own and leaves the key: texts rendered before are
\* crossed.
LEMMA ServiceWritesKeepsKeyInv ==
  ASSUME KeyNames, KeyInv, NEW r \in Others, Credentials!ServiceWrites(r)
  PROVE  KeyInv' /\ Credentials!Content.refs \subseteq Credentials!Content'.refs
<1> DEFINE new == [layout |-> "v1", key |-> DocumentKey, refs |-> Credentials!Content.refs \cup {r}]
<1>1. /\ document' = new /\ UNCHANGED <<keyTmp, keyPc, key, rendered, encrypted, raced>>
      /\ crossed' = crossed \cup Credentials!Writers
      /\ handle' = [t \in Credentials!Starts |-> IF handle[t] = "file" THEN "none" ELSE handle[t]]
  BY DEF Credentials!ServiceWrites, DocumentKey
<1>2. new \in Credentials!Document /\ new.key = DocumentKey /\ Credentials!Content.refs \subseteq new.refs
  BY CredentialsContent DEF KeyInv, Credentials!Document, Credentials!Layouts
<1> HIDE DEF new
<1>3. Credentials!Content' = new /\ DocumentKey' = DocumentKey
  BY <1>1, <1>2, CredentialsContentIsThere DEF DocumentKey
<1>4. \A t \in Credentials!Starts :
        /\ keyPc[t] \in Credentials!Writing => t \in crossed'
        /\ handle[t] = "tmp" => handle'[t] = "tmp"
  BY <1>1 DEF Credentials!Writers
<1>5. Credentials!TypeOK'
  <2>1. crossed' \subseteq Credentials!Starts
    BY <1>1 DEF KeyInv, Credentials!TypeOK, Credentials!Writers
  <2>2. handle' \in [Credentials!Starts -> {"none", "tmp", "file"}]
    BY <1>1 DEF KeyInv, Credentials!TypeOK
  <2> QED
    BY <1>1, <1>2, <2>1, <2>2 DEF KeyInv, Credentials!TypeOK
<1>6. MakersCross' /\ OneKey'
  BY <1>1, <1>3 DEF KeyInv, MakersCross, OneKey
<1>7. TextsAreOwn'
  <2> SUFFICES ASSUME NEW t \in Credentials!Starts, keyPc[t] \in Credentials!Writing
               PROVE  /\ rendered[t].key = t
                      /\ ~raced => /\ keyPc[t] = "open" => handle'[t] = "tmp"
                                   /\ keyPc[t] = "renaming" => keyTmp = rendered[t]
    BY <1>1, <1>4 DEF TextsAreOwn, IsAlone
  <2> QED
    BY <1>4 DEF KeyInv, TextsAreOwn, IsAlone
<1> QED
  BY <1>2, <1>3, <1>5, <1>6, <1>7 DEF KeyInv

\* No process runs without a key.
RunnersHaveKeys == \A s \in Credentials!Starts : keyPc[s] = "running" => key[s] # NoKey

LEMMA RunnersKeepKeys ==
  ASSUME KeyNames, KeyInv, RunnersHaveKeys, [Credentials!Next]_(Credentials!vars)
  PROVE  RunnersHaveKeys'
<1>0. /\ keyPc \in [Credentials!Starts ->
                      {"off", "asking", "loading", "running", "failed", "dead"}
                        \cup Credentials!Making]
      /\ key \in [Credentials!Starts -> Credentials!Keys]
      /\ "running" \notin Credentials!Making
  BY DEF KeyInv, Credentials!TypeOK, Credentials!Making, Credentials!Writing
<1>1. ASSUME NEW s \in Credentials!Starts, NEW k, k # NoKey, Credentials!Adopt(s, k)
      PROVE  RunnersHaveKeys'
  BY <1>0, <1>1 DEF Credentials!Adopt, Credentials!Goto, RunnersHaveKeys
<1>2. ASSUME NEW s \in Credentials!Starts, NEW l, l # "running", Credentials!Goto(s, l),
             UNCHANGED key
      PROVE  RunnersHaveKeys'
  BY <1>0, <1>2 DEF Credentials!Goto, RunnersHaveKeys
<1>3. ASSUME UNCHANGED <<keyPc, key>> PROVE RunnersHaveKeys'
  BY <1>3 DEF RunnersHaveKeys
<1>4. \A s \in Credentials!Starts : s # NoKey
  BY DEF KeyNames
<1>5. ASSUME NEW s \in Credentials!Starts, Credentials!Start(s) PROVE RunnersHaveKeys'
  <2>1. (IF s \in Plugins THEN "asking" ELSE "loading") # "running"
    OBVIOUS
  <2> QED
    BY <1>2, <1>5, <2>1 DEF Credentials!Start
<1>6. ASSUME NEW s \in Credentials!Starts,
             Credentials!Ask(s) \/ Credentials!Load(s) \/ Credentials!Set(s) \/ Credentials!Rename(s)
      PROVE  RunnersHaveKeys'
  BY <1>1, <1>2, <1>4, <1>6 DEF Credentials!Ask, Credentials!Load, Credentials!Set,
                                Credentials!Rename
<1>7. ASSUME NEW s \in Credentials!Starts, Credentials!Draw(s) PROVE RunnersHaveKeys'
  <2>1. (IF s \in Plugins THEN "setting" ELSE "persisting") # "running"
    OBVIOUS
  <2> QED
    BY <1>2, <1>7, <2>1 DEF Credentials!Draw
<1>8. ASSUME NEW s \in Credentials!Starts,
             \/ Credentials!GiveUp(s) \/ Credentials!SetRefused(s) \/ Credentials!Persist(s)
             \/ Credentials!OpenAside(s) \/ Credentials!WriteAside(s)
             \/ Credentials!RenameFails(s) \/ Credentials!Die(s)
      PROVE  RunnersHaveKeys'
  BY <1>2, <1>8 DEF Credentials!GiveUp, Credentials!SetRefused, Credentials!Persist,
                    Credentials!OpenAside, Credentials!WriteAside, Credentials!RenameFails,
                    Credentials!Die
<1>9. ASSUME NEW s \in Credentials!Starts, Credentials!Store(s) PROVE RunnersHaveKeys'
  BY <1>3, <1>9 DEF Credentials!Store
<1>10. ASSUME NEW r \in Others, Credentials!ServiceWrites(r) PROVE RunnersHaveKeys'
  BY <1>3, <1>10 DEF Credentials!ServiceWrites
<1>11. CASE UNCHANGED Credentials!vars
  BY <1>3, <1>11 DEF Credentials!vars
<1> QED
  BY <1>5, <1>6, <1>7, <1>8, <1>9, <1>10, <1>11 DEF Credentials!Next

\* Every step keeps the invariant, and only a crossed write loses a reference.
LEMMA NextKeepsKeyInv ==
  ASSUME KeyNames, KeyInv, RunnersHaveKeys, [Credentials!Next]_(Credentials!vars)
  PROVE  /\ KeyInv'
         /\ \/ Credentials!Content.refs \subseteq Credentials!Content'.refs
            \/ \E s \in crossed : keyPc[s] \in {"open", "renaming"} /\ keyPc'[s] # keyPc[s]
<1>1. ASSUME document' = document PROVE Credentials!Content' = Credentials!Content
  BY <1>1 DEF Credentials!Content
<1>2. ASSUME NEW s \in Credentials!Starts,
             \/ Credentials!Start(s) \/ Credentials!Ask(s) \/ Credentials!Load(s)
             \/ Credentials!GiveUp(s)
      PROVE  KeyInv' /\ document' = document
  BY <1>2, LookingKeepsKeyInv
<1>3. ASSUME NEW s \in Credentials!Starts, Credentials!Draw(s)
      PROVE  KeyInv' /\ document' = document
  BY <1>3, DrawingKeepsKeyInv
<1>4. ASSUME NEW s \in Credentials!Starts,
             \/ Credentials!SetRefused(s) \/ Credentials!Persist(s) \/ Credentials!OpenAside(s)
             \/ Credentials!RenameFails(s) \/ Credentials!Die(s)
      PROVE  KeyInv' /\ document' = document
  BY <1>4, MakingKeepsKeyInv
<1>5. ASSUME NEW s \in Credentials!Starts,
             Credentials!Set(s) \/ Credentials!WriteAside(s) \/ Credentials!Rename(s)
      PROVE  /\ KeyInv'
             /\ \/ Credentials!Content.refs \subseteq Credentials!Content'.refs
                \/ \E t \in crossed : keyPc[t] \in {"open", "renaming"} /\ keyPc'[t] # keyPc[t]
  BY <1>5, KeysAreMade
<1>6. ASSUME NEW s \in Credentials!Starts, Credentials!Store(s)
      PROVE  KeyInv' /\ document' = document
  BY <1>6, StoringKeepsKeyInv DEF Credentials!Store, RunnersHaveKeys
<1>7. ASSUME NEW r \in Others, Credentials!ServiceWrites(r)
      PROVE  KeyInv' /\ Credentials!Content.refs \subseteq Credentials!Content'.refs
  BY <1>7, ServiceWritesKeepsKeyInv
<1>8. CASE UNCHANGED Credentials!vars
  <2>1. /\ UNCHANGED <<document, keyTmp, keyPc, key, rendered, handle, encrypted, raced, crossed>>
        /\ Credentials!Content' = Credentials!Content /\ DocumentKey' = DocumentKey
    BY <1>1, <1>8 DEF Credentials!vars, Credentials!ghostVars, DocumentKey
  <2> QED
    BY <2>1 DEF KeyInv, Credentials!TypeOK, MakersCross, OneKey, TextsAreOwn, IsAlone
<1> QED
  BY <1>1, <1>2, <1>3, <1>4, <1>5, <1>6, <1>7, <1>8 DEF Credentials!Next

\* So all is kept in every behaviour.
LEMMA KeysAlways ==
  ASSUME KeyNames
  PROVE  Credentials!Spec => [](KeyInv /\ RunnersHaveKeys)
<1>1. Credentials!Init => KeyInv /\ RunnersHaveKeys
  BY KeyInitInv DEF Credentials!Init, RunnersHaveKeys
<1>2. KeyInv /\ RunnersHaveKeys /\ [Credentials!Next]_(Credentials!vars)
        => (KeyInv /\ RunnersHaveKeys)'
  BY NextKeepsKeyInv, RunnersKeepKeys
<1> QED
  BY <1>1, <1>2, PTL DEF Credentials!Spec

\* Every variable of the credentials keeps its type.
THEOREM CredentialsTypeCorrect ==
  ASSUME KeyNames
  PROVE  Credentials!Spec => []Credentials!TypeOK
<1>1. KeyInv => Credentials!TypeOK
  BY DEF KeyInv
<1> QED
  BY <1>1, KeysAlways, PTL

\* Whatever layout the document had, whoever else wrote into it and wherever earlier starts
\* died, a process that runs has the one key under which accounts have been stored, until
\* two starts are making a key at the same time.
THEOREM OneKeyForAll ==
  ASSUME KeyNames
  PROVE  Credentials!Spec => []Credentials!AccountsStayReadable
<1>1. KeyInv => Credentials!AccountsStayReadable
  BY DEF KeyInv, OneKey, Credentials!AccountsStayReadable
<1> QED
  BY <1>1, KeysAlways, PTL

\* No step, the migration of an older layout included, loses another service's reference,
\* but the write of a start whose reading of the document has been overtaken.
THEOREM ReferencesSurvive ==
  ASSUME KeyNames
  PROVE  Credentials!Spec => Credentials!CredentialsSurvive
<1>1. KeyInv /\ RunnersHaveKeys /\ [Credentials!Next]_(Credentials!vars) =>
        [\/ Credentials!Content.refs \subseteq Credentials!Content'.refs
         \/ \E s \in crossed : keyPc[s] \in {"open", "renaming"} /\ keyPc'[s] # keyPc[s]
        ]_(Credentials!vars)
  BY NextKeepsKeyInv
<1> QED
  BY <1>1, KeysAlways, PTL DEF Credentials!Spec, Credentials!CredentialsSurvive

-----------------------------------------------------------------------------
(* The hidden models.                                                       *)

\* There are finitely many instances, a bound on the toggles, and a text that does not parse
\* is no list.
ToggleBounds ==
  IsFiniteSet(Instances) /\ MaxToggles \in Nat /\ Partial \notin Visibility!Sets

\* A toggle has a file open from its opening to its end.
FilesAreOpen ==
  \A i \in Instances : togglePc[i] \in {"idle", "opening"} => fd[i] = 0

\* What an instance has in memory is what it last read or wrote, and its memo is the set
\* of that.
CopiesAgree ==
  \A i \in Instances :
    /\ copy[i].disabled = Visibility!Parsed(copy[i].raw)
    /\ copy[i].memo # None => copy[i].memo = copy[i].disabled

\* As long as no two toggles have overlapped, one is under way at most, it has a temporary
\* file to itself, and is about to write the map that all toggles make.
Alone ==
  ~overlapped =>
    /\ \A i, j \in Instances : togglePc[i] # "idle" /\ togglePc[j] # "idle" => i = j
    /\ (\A i \in Instances : togglePc[i] = "idle") =>
         tmpNode = 0 /\ Visibility!Parsed(Visibility!Text) = expected
    /\ \A i \in Instances :
         /\ togglePc[i] # "idle" => next[i] = expected
         /\ togglePc[i] = "opening" => tmpNode = 0
         /\ togglePc[i] \in {"writing", "renaming"} =>
              tmpNode = fd[i] /\ tmpNode # 0 /\ tmpNode # fileNode
         /\ togglePc[i] = "writing" => text[tmpNode] = Partial
         /\ togglePc[i] = "renaming" => text[tmpNode] = next[i]

ToggleInv == Visibility!TypeOK /\ FilesAreOpen /\ CopiesAgree /\ Alone

\* The instance counts as FiniteSets does.
LEMMA CardinalityOfVisibility ==
  ASSUME NEW S PROVE Visibility!Cardinality(S) = Cardinality(S)
BY DEF Visibility!Cardinality, Cardinality

\* What is read is a text, and parses to a set.
LEMMA TextTypes ==
  ASSUME Visibility!TypeOK
  PROVE  /\ Visibility!Text \in Visibility!Texts
         /\ \A t \in Visibility!Texts : Visibility!Parsed(t) \in Visibility!Sets
BY DEF Visibility!TypeOK, Visibility!Text, Visibility!Texts, Visibility!Sets, Visibility!Parsed

\* A set is read as it was written.
LEMMA SetsParse ==
  ASSUME ToggleBounds, NEW s \in Visibility!Sets
  PROVE  Visibility!Parsed(s) = s /\ s \in Visibility!Texts
BY DEF ToggleBounds, Visibility!Parsed, Visibility!Texts

\* There is always an inode for a new temporary file: one for the settings file and one
\* for every other toggle are not all there are.
LEMMA AnInodeIsFree ==
  ASSUME ToggleBounds, Visibility!TypeOK, NEW i \in Instances, fd[i] = 0
  PROVE  \E n \in Visibility!Nodes : n # fileNode /\ \A j \in Instances : n # fd[j]
<1> DEFINE others == Instances \ {i}
           open == {fd[j] : j \in others}
           used == open \cup {fileNode}
<1>1. /\ IsFiniteSet(others) /\ Cardinality(Instances) \in Nat
      /\ Cardinality(others) = Cardinality(Instances) - 1
  BY FS_RemoveElement, FS_CardinalityType DEF ToggleBounds
<1>2. IsFiniteSet(open) /\ Cardinality(open) <= Cardinality(others)
  <2> DEFINE f == [j \in others |-> fd[j]]
  <2>1. f \in Surjection(others, open)
    BY DEF Surjection
  <2> HIDE DEF f, open, others
  <2> QED
    BY <1>1, <2>1, FS_Surjection
<1>3. /\ IsFiniteSet(used) /\ Cardinality(open) \in Nat /\ Cardinality(used) \in Nat
      /\ Cardinality(used) <= Cardinality(open) + 1
  <2>1. IsFiniteSet(open \cup {fileNode})
    BY <1>2, FS_AddElement
  <2>2. Cardinality(open \cup {fileNode}) =
          IF fileNode \in open THEN Cardinality(open) ELSE Cardinality(open) + 1
    BY <1>2, FS_AddElement
  <2>3. Cardinality(open) \in Nat /\ Cardinality(used) \in Nat
    BY <1>2, <2>1, FS_CardinalityType
  <2> HIDE DEF open
  <2> QED
    BY <2>1, <2>2, <2>3
<1>4. Cardinality(used) <= Cardinality(Instances)
  BY <1>1, <1>2, <1>3
<1>5. Visibility!Nodes = 1..Cardinality(Instances) + 1
  BY CardinalityOfVisibility DEF Visibility!Nodes
<1>6. Cardinality(Visibility!Nodes) = Cardinality(Instances) + 1
  BY <1>1, <1>5, FS_Interval
<1>7. ~(Visibility!Nodes \subseteq used)
  BY <1>1, <1>3, <1>4, <1>6, FS_Subset
<1>8. PICK n \in Visibility!Nodes : n \notin used
  BY <1>7
<1>9. n # 0
  BY <1>1, <1>5
<1> QED
  BY <1>8, <1>9

\* At the start there is no file, and nothing is hidden.
LEMMA ToggleInitInv == ToggleBounds /\ Visibility!Init => ToggleInv
<1> SUFFICES ASSUME ToggleBounds, Visibility!Init PROVE ToggleInv
  OBVIOUS
<1>1. {} \in Visibility!Sets /\ {} \in Visibility!Texts /\ Visibility!Parsed({}) = {}
  BY SetsParse DEF Visibility!Sets
<1>2. Visibility!TypeOK
  <2>1. 0 \in 0..MaxToggles
    BY DEF ToggleBounds
  <2> QED
    BY <1>1, <2>1 DEF Visibility!Init, Visibility!TypeOK, Visibility!Fresh
<1>3. FilesAreOpen /\ CopiesAgree /\ Alone
  BY <1>1 DEF Visibility!Init, Visibility!Fresh, FilesAreOpen, CopiesAgree, Alone,
              Visibility!Text
<1> QED
  BY <1>2, <1>3 DEF ToggleInv

\* What an instance reads anew it holds as it stands in the file.
LEMMA Reloads ==
  ASSUME Visibility!TypeOK, CopiesAgree, NEW i \in Instances
  PROVE  LET c == Visibility!Reloaded(copy[i])
             v == Visibility!Revalidated(copy[i])
         IN  /\ c = [disabled |-> Visibility!Parsed(Visibility!Text), raw |-> Visibility!Text,
                     memo |-> None]
             /\ Visibility!Parsed(Visibility!Text) \in Visibility!Sets
             /\ Visibility!Text \in Visibility!Texts
             /\ v \in [disabled: Visibility!Sets, raw: Visibility!Texts,
                       memo: {None} \cup Visibility!Sets]
             /\ v.raw = Visibility!Text /\ v.disabled = Visibility!Parsed(Visibility!Text)
             /\ v.memo # None => v.memo = v.disabled
<1>1. Visibility!Parsed(Visibility!Text) \in Visibility!Sets
      /\ Visibility!Text \in Visibility!Texts
  BY TextTypes
<1>2. copy[i] \in [disabled: Visibility!Sets, raw: Visibility!Texts,
                   memo: {None} \cup Visibility!Sets]
  BY DEF Visibility!TypeOK
<1> QED
  BY <1>1, <1>2 DEF Visibility!Reloaded, Visibility!Revalidated, CopiesAgree

\* Whoever asks is told what the file says, whatever its copy and its memo were
\* (disabledFor).
LEMMA AskingTellsTheFile ==
  ASSUME Visibility!TypeOK, CopiesAgree, NEW i \in Instances, Visibility!DisabledFor(i)
  PROVE  /\ shown'[i] = Visibility!Parsed(Visibility!Text)
         /\ Visibility!Parsed(Visibility!Text) \in Visibility!Sets
<1> DEFINE c == Visibility!Revalidated(copy[i])
           answer == IF c.memo # None THEN c.memo ELSE c.disabled
<1>1. answer = Visibility!Parsed(Visibility!Text) /\ answer \in Visibility!Sets
  BY Reloads
<1>2. shown' = [shown EXCEPT ![i] = answer]
  BY DEF Visibility!DisabledFor
<1>3. shown \in [Instances -> Visibility!Sets]
  BY DEF Visibility!TypeOK
<1> QED
  BY <1>1, <1>2, <1>3

\* Asking changes only the copy, the memo and the answer of the one who asks.
LEMMA AskingKeeps ==
  ASSUME ToggleBounds, ToggleInv, NEW i \in Instances, Visibility!DisabledFor(i)
  PROVE  ToggleInv'
<1> DEFINE c == Visibility!Revalidated(copy[i])
           answer == IF c.memo # None THEN c.memo ELSE c.disabled
           held == [c EXCEPT !.memo = IF answer = {} THEN @ ELSE answer]
<1> USE DEF ToggleInv
<1>1. /\ shown' = [shown EXCEPT ![i] = answer] /\ copy' = [copy EXCEPT ![i] = held]
      /\ UNCHANGED <<text, fileNode, tmpNode, togglePc, next, fd, toggles, expected, overlapped>>
  BY DEF Visibility!DisabledFor, Visibility!files, Visibility!toggling
<1>2. /\ c \in [disabled: Visibility!Sets, raw: Visibility!Texts,
                memo: {None} \cup Visibility!Sets]
      /\ c.memo # None => c.memo = c.disabled
      /\ c.disabled = Visibility!Parsed(c.raw)
  BY Reloads
<1>3. /\ held \in [disabled: Visibility!Sets, raw: Visibility!Texts,
                   memo: {None} \cup Visibility!Sets]
      /\ held.disabled = c.disabled /\ held.raw = c.raw
      /\ held.memo # None => held.memo = held.disabled
      /\ answer \in Visibility!Sets
  <2> HIDE DEF c
  <2> QED
    BY <1>2
<1> HIDE DEF held, answer
<1>4. Visibility!TypeOK'
  BY <1>1, <1>3 DEF Visibility!TypeOK
<1>5. CopiesAgree'
  <2> SUFFICES ASSUME NEW j \in Instances
               PROVE  /\ copy'[j].disabled = Visibility!Parsed(copy'[j].raw)
                      /\ copy'[j].memo # None => copy'[j].memo = copy'[j].disabled
    BY DEF CopiesAgree, Visibility!Parsed
  <2>1. copy'[j] = IF j = i THEN held ELSE copy[j]
    BY <1>1 DEF Visibility!TypeOK
  <2> QED
    BY <1>2, <1>3, <2>1 DEF CopiesAgree
<1>6. FilesAreOpen' /\ Alone'
  BY <1>1 DEF FilesAreOpen, Alone, Visibility!Parsed, Visibility!Text
<1> QED
  BY <1>4, <1>5, <1>6

\* A toggle edits the map that the file has now (setDisabled); if no other is under way,
\* that is the map of all the toggles before.
LEMMA TogglingKeeps ==
  ASSUME ToggleBounds, ToggleInv, NEW i \in Instances, NEW m \in Models, NEW hide \in BOOLEAN,
         Visibility!Toggle(i, m, hide)
  PROVE  ToggleInv'
<1> DEFINE c == Visibility!Reloaded(copy[i])
           edited == IF hide THEN c.disabled \cup {m} ELSE c.disabled \ {m}
<1> USE DEF ToggleInv
<1>1. /\ togglePc[i] = "idle" /\ toggles < MaxToggles
      /\ copy' = [copy EXCEPT ![i] = c] /\ next' = [next EXCEPT ![i] = edited]
      /\ toggles' = toggles + 1
      /\ expected' = (IF hide THEN expected \cup {m} ELSE expected \ {m})
      /\ overlapped' = (overlapped \/ \E j \in Instances : togglePc[j] # "idle")
      /\ togglePc' = [togglePc EXCEPT ![i] = "opening"]
      /\ UNCHANGED <<text, fileNode, tmpNode, shown, fd>>
  BY Zenon DEF Visibility!Toggle, Visibility!Goto, Visibility!files
<1>2. /\ c = [disabled |-> Visibility!Parsed(Visibility!Text), raw |-> Visibility!Text,
              memo |-> None]
      /\ Visibility!Parsed(Visibility!Text) \in Visibility!Sets
      /\ Visibility!Text \in Visibility!Texts
  BY Reloads
<1> HIDE DEF c
<1>3. edited \in Visibility!Sets
      /\ edited = IF hide THEN Visibility!Parsed(Visibility!Text) \cup {m}
                          ELSE Visibility!Parsed(Visibility!Text) \ {m}
  BY <1>2 DEF Visibility!Sets
<1> HIDE DEF edited
<1>4. Visibility!TypeOK'
  <2>1. toggles + 1 \in 0..MaxToggles /\ expected' \in Visibility!Sets /\ overlapped' \in BOOLEAN
    BY <1>1 DEF Visibility!TypeOK, ToggleBounds, Visibility!Sets
  <2> QED
    BY <1>1, <1>2, <1>3, <2>1 DEF Visibility!TypeOK
<1>5. CopiesAgree'
  <2> SUFFICES ASSUME NEW j \in Instances
               PROVE  /\ copy'[j].disabled = Visibility!Parsed(copy'[j].raw)
                      /\ copy'[j].memo # None => copy'[j].memo = copy'[j].disabled
    BY DEF CopiesAgree, Visibility!Parsed
  <2>1. copy'[j] = IF j = i THEN c ELSE copy[j]
    BY <1>1 DEF Visibility!TypeOK
  <2> QED
    BY <1>2, <2>1 DEF CopiesAgree
<1>6. FilesAreOpen'
  BY <1>1 DEF FilesAreOpen, Visibility!TypeOK
<1>7. Alone'
  <2> SUFFICES ASSUME ~overlapped' PROVE Alone'
    BY DEF Alone
  <2>1. ~overlapped /\ \A j \in Instances : togglePc[j] = "idle"
    BY <1>1
  <2>2. tmpNode = 0 /\ Visibility!Parsed(Visibility!Text) = expected
    BY <2>1 DEF Alone
  <2>3. expected' = edited
    BY <1>1, <1>3, <2>2
  <2>4. /\ togglePc'[i] = "opening" /\ next'[i] = edited
        /\ \A j \in Instances : j # i => togglePc'[j] = "idle"
    BY <1>1, <2>1 DEF Visibility!TypeOK
  <2> QED
    BY <1>1, <2>2, <2>3, <2>4 DEF Alone
<1> QED
  BY <1>4, <1>5, <1>6, <1>7

\* A toggle opens the temporary file, the one that is there or a new one.
LEMMA OpeningKeeps ==
  ASSUME ToggleBounds, ToggleInv, NEW i \in Instances, Visibility!Open(i)
  PROVE  ToggleInv'
<1> DEFINE unused == CHOOSE n \in Visibility!Nodes : n # fileNode /\ \A j \in Instances : n # fd[j]
           node == IF tmpNode # 0 THEN tmpNode ELSE unused
<1> USE DEF ToggleInv
<1>1. /\ togglePc[i] = "opening"
      /\ text' = [text EXCEPT ![node] = Partial] /\ tmpNode' = node
      /\ fd' = [fd EXCEPT ![i] = node] /\ togglePc' = [togglePc EXCEPT ![i] = "writing"]
      /\ UNCHANGED <<fileNode, copy, shown, next, toggles, expected, overlapped>>
  BY Zenon DEF Visibility!Open, Visibility!Goto
<1>2. fd[i] = 0
  BY <1>1 DEF FilesAreOpen
<1>3. unused \in Visibility!Nodes /\ unused # fileNode
  BY <1>2, AnInodeIsFree
<1>4. 0 \notin Visibility!Nodes
  BY CardinalityOfVisibility, FS_CardinalityType DEF Visibility!Nodes, ToggleBounds
<1> HIDE DEF unused
<1>5. node \in Visibility!Nodes /\ (tmpNode = 0 => node # fileNode)
  BY <1>3 DEF Visibility!TypeOK
<1> HIDE DEF node
<1>6. Visibility!TypeOK'
  <2>1. Partial \in Visibility!Texts
    BY DEF Visibility!Texts
  <2> QED
    BY <1>1, <1>5, <2>1 DEF Visibility!TypeOK
<1>7. FilesAreOpen' /\ CopiesAgree'
  BY <1>1 DEF FilesAreOpen, CopiesAgree, Visibility!Parsed, Visibility!TypeOK
<1>8. Alone'
  <2> SUFFICES ASSUME ~overlapped PROVE Alone'
    BY <1>1 DEF Alone
  <2>1. \A j \in Instances : j # i => togglePc[j] = "idle"
    BY <1>1 DEF Alone
  <2>2. tmpNode = 0 /\ next[i] = expected
    BY <1>1 DEF Alone
  <2>3. /\ togglePc'[i] = "writing" /\ fd'[i] = node /\ text'[node] = Partial
        /\ \A j \in Instances : j # i => togglePc'[j] = "idle"
    BY <1>1, <1>5, <2>1 DEF Visibility!TypeOK
  <2> QED
    BY <1>1, <1>4, <1>5, <2>2, <2>3 DEF Alone
<1> QED
  BY <1>6, <1>7, <1>8

\* Into a file no other toggle has open goes the text as it is.
LEMMA TextWritesKeep ==
  ASSUME ToggleBounds, ToggleInv, NEW i \in Instances, Visibility!Write(i)
  PROVE  ToggleInv'
<1> USE DEF ToggleInv
<1>1. PICK t \in {next[i]} \cup (IF text[fd[i]] = Partial THEN {} ELSE {Partial}) :
        text' = [text EXCEPT ![fd[i]] = t]
  BY DEF Visibility!Write
<1>2. /\ togglePc[i] = "writing" /\ togglePc' = [togglePc EXCEPT ![i] = "renaming"]
      /\ UNCHANGED <<fileNode, tmpNode, copy, shown, next, fd, toggles, expected, overlapped>>
  BY DEF Visibility!Write, Visibility!Goto
<1>3. t \in Visibility!Texts
  BY DEF Visibility!TypeOK, Visibility!Texts
<1>4. Visibility!TypeOK'
  BY <1>1, <1>2, <1>3 DEF Visibility!TypeOK
<1>5. FilesAreOpen' /\ CopiesAgree'
  BY <1>2 DEF FilesAreOpen, CopiesAgree, Visibility!Parsed, Visibility!TypeOK
<1>6. Alone'
  <2> SUFFICES ASSUME ~overlapped PROVE Alone'
    BY <1>2 DEF Alone
  <2>1. \A j \in Instances : j # i => togglePc[j] = "idle"
    BY <1>2 DEF Alone
  <2>2. next[i] = expected /\ tmpNode = fd[i] /\ tmpNode # 0 /\ tmpNode # fileNode
        /\ text[tmpNode] = Partial
    BY <1>2 DEF Alone
  <2>3. tmpNode \in Visibility!Nodes
    BY <2>2 DEF Visibility!TypeOK
  <2>4. /\ togglePc'[i] = "renaming" /\ text'[tmpNode] = next[i]
        /\ \A j \in Instances : j # i => togglePc'[j] = "idle"
    BY <1>1, <1>2, <2>1, <2>2, <2>3 DEF Visibility!TypeOK
  <2> QED
    BY <1>2, <2>2, <2>4 DEF Alone
<1> QED
  BY <1>4, <1>5, <1>6

\* The renamed file is the map of the toggle, which the instance then holds.
LEMMA TextRenamesKeep ==
  ASSUME ToggleBounds, ToggleInv, NEW i \in Instances, Visibility!Rename(i)
  PROVE  ToggleInv'
<1> DEFINE held == [disabled |-> next[i], raw |-> next[i], memo |-> None]
<1> USE DEF ToggleInv
<1>1. /\ togglePc[i] = "renaming" /\ tmpNode # 0 /\ fileNode' = tmpNode /\ tmpNode' = 0
      /\ copy' = [copy EXCEPT ![i] = held]
      /\ fd' = [fd EXCEPT ![i] = 0] /\ togglePc' = [togglePc EXCEPT ![i] = "idle"]
      /\ UNCHANGED <<text, shown, next, toggles, expected, overlapped>>
  BY DEF Visibility!Rename, Visibility!Goto
<1>2. next[i] \in Visibility!Sets
  BY DEF Visibility!TypeOK
<1>3. Visibility!Parsed(next[i]) = next[i] /\ next[i] \in Visibility!Texts
  BY <1>2, SetsParse
<1>4. Visibility!TypeOK'
  BY <1>1, <1>2, <1>3 DEF Visibility!TypeOK
<1>5. CopiesAgree'
  <2> SUFFICES ASSUME NEW j \in Instances
               PROVE  /\ copy'[j].disabled = Visibility!Parsed(copy'[j].raw)
                      /\ copy'[j].memo # None => copy'[j].memo = copy'[j].disabled
    BY DEF CopiesAgree, Visibility!Parsed
  <2>1. copy'[j] = IF j = i THEN held ELSE copy[j]
    BY <1>1 DEF Visibility!TypeOK
  <2> QED
    BY <1>3, <2>1 DEF CopiesAgree
<1>6. FilesAreOpen'
  BY <1>1 DEF FilesAreOpen, Visibility!TypeOK
<1>7. Alone'
  <2> SUFFICES ASSUME ~overlapped PROVE Alone'
    BY <1>1 DEF Alone
  <2>1. \A j \in Instances : togglePc'[j] = "idle"
    BY <1>1 DEF Alone, Visibility!TypeOK
  <2>2. next[i] = expected /\ text[tmpNode] = next[i]
    BY <1>1 DEF Alone
  <2>3. (Visibility!Text)' = next[i]
    BY <1>1, <2>2 DEF Visibility!Text
  <2>4. Visibility!Parsed(Visibility!Text)' = expected'
    BY <1>1, <1>3, <2>2, <2>3 DEF Visibility!Parsed
  <2> QED
    BY <1>1, <2>1, <2>4 DEF Alone
<1> QED
  BY <1>4, <1>5, <1>6, <1>7

\* A toggle whose file another has renamed away fails, which takes two that overlap.
LEMMA FailedRenamesKeep ==
  ASSUME ToggleBounds, ToggleInv, NEW i \in Instances, Visibility!RenameFails(i)
  PROVE  ToggleInv'
<1> USE DEF ToggleInv
<1>1. /\ togglePc[i] = "renaming" /\ tmpNode = 0
      /\ fd' = [fd EXCEPT ![i] = 0] /\ togglePc' = [togglePc EXCEPT ![i] = "idle"]
      /\ UNCHANGED <<text, fileNode, tmpNode, copy, shown, next, toggles, expected, overlapped>>
  BY DEF Visibility!RenameFails, Visibility!Goto, Visibility!files
<1>2. Visibility!TypeOK'
  BY <1>1 DEF Visibility!TypeOK
<1>3. FilesAreOpen' /\ CopiesAgree'
  BY <1>1 DEF FilesAreOpen, CopiesAgree, Visibility!Parsed, Visibility!TypeOK
<1>4. overlapped
  BY <1>1 DEF Alone
<1> QED
  BY <1>1, <1>2, <1>3, <1>4 DEF Alone

\* Every step of the instances keeps the invariant.
LEMMA ToggleInvStep ==
  ASSUME ToggleBounds, ToggleInv, [Visibility!Next]_(Visibility!vars)
  PROVE  ToggleInv'
<1>1. CASE UNCHANGED Visibility!vars
  BY <1>1 DEF Visibility!vars, ToggleInv, Visibility!TypeOK, FilesAreOpen, CopiesAgree, Alone,
              Visibility!Parsed, Visibility!Text
<1>2. ASSUME NEW i \in Instances, Visibility!DisabledFor(i) PROVE ToggleInv'
  BY <1>2, AskingKeeps
<1>3. ASSUME NEW i \in Instances, NEW m \in Models, NEW hide \in BOOLEAN,
             Visibility!Toggle(i, m, hide)
      PROVE  ToggleInv'
  BY <1>3, TogglingKeeps
<1>4. ASSUME NEW i \in Instances, Visibility!Open(i) PROVE ToggleInv'
  BY <1>4, OpeningKeeps
<1>5. ASSUME NEW i \in Instances, Visibility!Write(i) PROVE ToggleInv'
  BY <1>5, TextWritesKeep
<1>6. ASSUME NEW i \in Instances, Visibility!Rename(i) PROVE ToggleInv'
  BY <1>6, TextRenamesKeep
<1>7. ASSUME NEW i \in Instances, Visibility!RenameFails(i) PROVE ToggleInv'
  BY <1>7, FailedRenamesKeep
<1> QED
  BY <1>1, <1>2, <1>3, <1>4, <1>5, <1>6, <1>7 DEF Visibility!Next

\* The invariant of the hidden models.
LEMMA TogglesAreSafe ==
  ASSUME ToggleBounds PROVE Visibility!Spec => []ToggleInv
<1>1. Visibility!Init => ToggleInv
  BY ToggleInitInv
<1>2. ToggleInv /\ [Visibility!Next]_(Visibility!vars) => ToggleInv'
  BY ToggleInvStep
<1> QED
  BY <1>1, <1>2, PTL DEF Visibility!Spec

\* The hidden models have their types.
THEOREM VisibilityTypeCorrect ==
  ASSUME ToggleBounds PROVE Visibility!Spec => []Visibility!TypeOK
<1>1. ToggleInv => Visibility!TypeOK
  BY DEF ToggleInv
<1> QED
  BY <1>1, TogglesAreSafe, PTL

\* Toggles that do not overlap are all kept (setDisabled), whatever the instances had in
\* memory.
THEOREM TogglesAreKept ==
  ASSUME ToggleBounds PROVE Visibility!Spec => []Visibility!NoToggleIsLost
<1>1. ToggleInv => Visibility!NoToggleIsLost
  BY Zenon DEF ToggleInv, Alone, Visibility!NoToggleIsLost
<1> QED
  BY <1>1, TogglesAreSafe, PTL

\* Whoever asks for the hidden models is told what the file says (disabledFor).
THEOREM AnswersAreCurrent ==
  ASSUME ToggleBounds PROVE Visibility!Spec => Visibility!AnswersFollowTheFile
<1>1. ToggleInv /\ [Visibility!Next]_(Visibility!vars)
        => [\A i \in Instances : Visibility!DisabledFor(i) =>
              shown'[i] = Visibility!Parsed(Visibility!Text)]_(Visibility!vars)
  BY AskingTellsTheFile, Zenon DEF ToggleInv
<1> QED
  BY <1>1, TogglesAreSafe, PTL DEF Visibility!Spec, Visibility!AnswersFollowTheFile

-----------------------------------------------------------------------------
(* The recent requests.                                                     *)

\* The clock starts within its bounds, no process has the name of none or of a dead one,
\* and no file is no list.
RingBounds ==
  /\ RingMax \in Nat /\ LastTime \in Nat \ {0} /\ MaxFaults \in Nat /\ MaxEnds \in Nat
  /\ NoOp \notin Procs /\ Ghost \notin Procs
  /\ Absent \notin Seq(Ring!Rows)

\* A list that is a ring of the rows in a set: FileKeepsTheNewest says that the file is one
\* of what was flushed.
RingOf(c, rows) ==
  /\ Len(c) <= RingMax
  /\ \A i, j \in 1..Len(c) : c[i] = c[j] => i = j
  /\ \A i \in 1..Len(c) : c[i] \in rows
  /\ \A i, j \in 1..Len(c) : i < j => c[i].at <= c[j].at
  /\ \A e \in rows :
       \/ \E i \in 1..Len(c) : c[i] = e
       \/ Len(c) = RingMax /\ \A i \in 1..Len(c) : c[i].at >= e.at

\* The ring counts as FiniteSets does.
LEMMA CardinalityOfRing ==
  ASSUME NEW S PROVE Ring!Cardinality(S) = Cardinality(S)
BY DEF Ring!Cardinality, Cardinality

\* Every set of numbers has a least one.
LEMMA LeastNumber ==
  ASSUME NEW S, S \subseteq Nat, S # {}
  PROVE  \E j \in S : \A k \in S : j <= k
<1>1. \E j \in S : \A k \in S : <<k, j>> \notin OpToRel(<, Nat)
  BY WFMin, NatLessThanWellFounded, Zenon
<1>2. \E j \in S : \A k \in S : ~(k < j)
  BY <1>1, Zenon DEF OpToRel
<1> QED
  BY <1>2

\* The rows of a list are ordered by time, and those of one time by their first places
\* (mergeRecentEntries sorts stably).
LEMMA RowsAreOrdered ==
  ASSUME NEW all \in Seq(Ring!Rows)
  PROVE  LET rows == Ring!ToSet(all)
         IN  /\ IsFiniteSet(rows) /\ rows \subseteq Ring!Rows
             /\ \A e \in rows : ~Ring!Before(all, e, e)
             /\ \A e, f \in rows : e # f => Ring!Before(all, e, f) \/ Ring!Before(all, f, e)
             /\ \A e, f, g \in rows :
                  Ring!Before(all, e, f) /\ Ring!Before(all, f, g) => Ring!Before(all, e, g)
             /\ \A e, f \in rows : Ring!Before(all, e, f) => e.at <= f.at
<1> DEFINE rows == Ring!ToSet(all)
<1>1. /\ Len(all) \in Nat /\ DOMAIN all = 1..Len(all) /\ all \in [1..Len(all) -> Ring!Rows]
  BY LenProperties
<1>2. rows \subseteq Ring!Rows
  BY <1>1 DEF Ring!ToSet
<1>3. IsFiniteSet(rows)
  <2>1. all \in Surjection(1..Len(all), rows)
    BY <1>1 DEF Surjection, Ring!ToSet
  <2>2. IsFiniteSet(1..Len(all))
    BY <1>1, FS_Interval
  <2> QED
    BY <2>1, <2>2, FS_Surjection
<1>4. ASSUME NEW e \in rows
      PROVE  Ring!FirstIn(all, e) \in 1..Len(all) /\ all[Ring!FirstIn(all, e)] = e
  <2> DEFINE S == {i \in 1..Len(all) : all[i] = e}
  <2>1. S # {} /\ S \subseteq Nat
    BY <1>1 DEF Ring!ToSet
  <2>2. PICK i \in S : \A k \in S : i <= k
    BY <2>1, LeastNumber
  <2>3. i \in DOMAIN all /\ all[i] = e /\ \A j \in 1..i - 1 : all[j] # e
    BY <1>1, <2>2
  <2> QED
    BY <1>1, <2>3 DEF Ring!FirstIn
<1>5. \A e \in rows : e.at \in Int
  BY <1>2 DEF Ring!Rows
<1>6. \A e \in rows : Ring!FirstIn(all, e) \in Int
  BY <1>1, <1>4
<1>7. \A e, f \in rows : Ring!FirstIn(all, e) = Ring!FirstIn(all, f) => e = f
  BY <1>4
<1> HIDE DEF rows
<1>8. \A e \in rows : ~Ring!Before(all, e, e)
  BY <1>5, <1>6 DEF Ring!Before
<1>9. \A e, f \in rows : e # f => Ring!Before(all, e, f) \/ Ring!Before(all, f, e)
  BY <1>5, <1>6, <1>7 DEF Ring!Before
<1>10. \A e, f, g \in rows :
         Ring!Before(all, e, f) /\ Ring!Before(all, f, g) => Ring!Before(all, e, g)
  BY <1>5, <1>6 DEF Ring!Before
<1>11. \A e, f \in rows : Ring!Before(all, e, f) => e.at <= f.at
  BY <1>5 DEF Ring!Before
<1> QED
  BY <1>2, <1>3, <1>8, <1>9, <1>10, <1>11 DEF rows

\* Sorting puts every row of the list at one place, in their order: a row's place is the
\* number of rows before it, which no two rows share.
LEMMA RowsAreSorted ==
  ASSUME NEW all \in Seq(Ring!Rows)
  PROVE  LET rows == Ring!ToSet(all)
             s == Ring!Sorted(all)
         IN  /\ s \in Seq(rows) /\ Len(s) = Cardinality(rows)
             /\ \A e \in rows : \E i \in 1..Len(s) : s[i] = e
             /\ \A i, j \in 1..Len(s) : i < j => s[i].at <= s[j].at
             /\ \A i, j \in 1..Len(s) : s[i] = s[j] => i = j
<1> DEFINE rows == Ring!ToSet(all)
           n == Cardinality(rows)
           under(e) == {f \in rows : Ring!Before(all, f, e)}
           below == [e \in rows |-> Cardinality(under(e))]
           s == Ring!Sorted(all)
<1>1. /\ IsFiniteSet(rows) /\ rows \subseteq Ring!Rows
      /\ \A e \in rows : ~Ring!Before(all, e, e)
      /\ \A e, f \in rows : e # f => Ring!Before(all, e, f) \/ Ring!Before(all, f, e)
      /\ \A e, f, g \in rows :
           Ring!Before(all, e, f) /\ Ring!Before(all, f, g) => Ring!Before(all, e, g)
      /\ \A e, f \in rows : Ring!Before(all, e, f) => e.at <= f.at
  BY RowsAreOrdered
<1>2. s = [k \in 1..n |-> CHOOSE e \in rows : Cardinality(under(e)) = k - 1]
  BY Zenon DEF Ring!Sorted, Ring!Cardinality, Cardinality
<1> HIDE DEF rows, s
<1>3. n \in Nat
  BY <1>1, FS_CardinalityType
<1>4. ASSUME NEW e \in rows
      PROVE  /\ IsFiniteSet(under(e)) /\ Cardinality(under(e)) \in 0..n - 1
             /\ below[e] = Cardinality(under(e))
  <2>1. under(e) \in SUBSET rows /\ under(e) # rows
    BY <1>1
  <2>2. IsFiniteSet(under(e)) /\ Cardinality(under(e)) <= n /\ Cardinality(under(e)) # n
    BY <1>1, <2>1, FS_Subset
  <2>3. Cardinality(under(e)) \in Nat
    BY <2>2, FS_CardinalityType
  <2> QED
    BY <1>3, <2>2, <2>3
<1>5. ASSUME NEW e \in rows, NEW f \in rows, Ring!Before(all, e, f)
      PROVE  below[e] < below[f]
  <2>1. under(e) \in SUBSET under(f) /\ under(e) # under(f)
    BY <1>1, <1>5
  <2>2. Cardinality(under(e)) <= Cardinality(under(f))
        /\ Cardinality(under(e)) # Cardinality(under(f))
    BY <1>4, <2>1, FS_Subset
  <2>3. Cardinality(under(e)) \in Nat /\ Cardinality(under(f)) \in Nat
    BY <1>4, FS_CardinalityType
  <2> HIDE DEF under
  <2> QED
    BY <1>4, <2>2, <2>3
<1>6. below \in [rows -> 0..n - 1]
  BY <1>4
<1>7. \A k \in 1..n : \A e \in rows : Cardinality(under(e)) = k - 1 <=> below[e] = k - 1
  BY <1>4
<1> HIDE DEF n, under, below
<1>8. \A e, f \in rows : below[e] = below[f] => e = f
  <2> SUFFICES ASSUME NEW e \in rows, NEW f \in rows, below[e] = below[f], e # f PROVE FALSE
    OBVIOUS
  <2>1. below[e] \in Int /\ below[f] \in Int
    BY <1>3, <1>6
  <2>2. below[e] < below[f] \/ below[f] < below[e]
    BY <1>1, <1>5
  <2> QED
    BY <2>1, <2>2
<1>9. \A k \in 1..n : \E e \in rows : below[e] = k - 1
  <2>1. below \in Injection(rows, 0..n - 1)
    BY <1>6, <1>8 DEF Injection, IsInjective
  <2>2. IsFiniteSet(0..n - 1) /\ Cardinality(0..n - 1) = n
    <3>1. 0 \in Int /\ n - 1 \in Int
      BY <1>3
    <3>2. /\ IsFiniteSet(0..n - 1)
          /\ Cardinality(0..n - 1) = IF 0 > n - 1 THEN 0 ELSE n - 1 - 0 + 1
      BY <3>1, FS_Interval
    <3> QED
      BY <1>3, <3>2
  <2>3. below \in Surjection(rows, 0..n - 1)
    BY <2>1, <2>2, FS_Injection DEF n
  <2>4. \A k \in 1..n : k - 1 \in 0..n - 1
    BY <1>3
  <2> QED
    BY <2>3, <2>4 DEF Surjection
<1>10. \A k \in 1..n : s[k] \in rows /\ Cardinality(under(s[k])) = k - 1
  BY <1>2, <1>7, <1>9
<1>11. \A k \in 1..n : s[k] \in rows /\ below[s[k]] = k - 1
  BY <1>7, <1>10
<1>12. s \in Seq(rows) /\ Len(s) = n
  <2>1. s \in [1..n -> rows]
    BY <1>2, <1>11
  <2> QED
    BY <1>3, <2>1
<1>13. \A e \in rows : \E i \in 1..n : s[i] = e
  <2> SUFFICES ASSUME NEW e \in rows PROVE \E i \in 1..n : s[i] = e
    OBVIOUS
  <2>1. PICK i \in 1..n : i - 1 = below[e]
    <3>1. below[e] + 1 \in 1..n /\ (below[e] + 1) - 1 = below[e]
      BY <1>3, <1>6
    <3> QED
      BY <3>1
  <2>2. s[i] \in rows /\ below[s[i]] = below[e]
    BY <1>11, <2>1
  <2> QED
    BY <1>8, <2>2
<1>14. \A i, j \in 1..n : s[i] = s[j] => i = j
  <2> SUFFICES ASSUME NEW i \in 1..n, NEW j \in 1..n, s[i] = s[j] PROVE i = j
    OBVIOUS
  <2>1. i - 1 = j - 1
    BY <1>11, Zenon
  <2> QED
    BY <1>3, <2>1
<1>15. ASSUME NEW i \in 1..n, NEW j \in 1..n, i < j PROVE s[i].at <= s[j].at
  <2>1. s[i] \in rows /\ s[j] \in rows /\ below[s[i]] = i - 1 /\ below[s[j]] = j - 1
    BY <1>11
  <2>2. s[i] # s[j]
    BY <1>3, <1>14, <1>15
  <2>3. ~Ring!Before(all, s[j], s[i])
    BY <1>3, <1>5, <1>15, <2>1
  <2> QED
    BY <1>1, <2>1, <2>2, <2>3
<1> QED
  BY <1>12, <1>13, <1>14, <1>15 DEF n, s, rows

\* The newest of a list are its last ones.
LEMMA NewestAreLast ==
  ASSUME NEW S, NEW s \in Seq(S), NEW n \in Nat
  PROVE  LET r == Ring!NewestOf(s, n)
         IN  /\ r \in Seq(S)
             /\ Len(r) = IF Len(s) > n THEN n ELSE Len(s)
             /\ \A i \in 1..Len(r) : r[i] = s[Len(s) - Len(r) + i]
<1>1. Len(s) \in Nat /\ s \in [1..Len(s) -> S]
  BY LenProperties
<1>2. CASE Len(s) > n
  <2>1. /\ Ring!NewestOf(s, n) = SubSeq(s, Len(s) - n + 1, Len(s))
        /\ \A i \in Len(s) - n + 1..Len(s) : s[i] \in S
    BY <1>1, <1>2 DEF Ring!NewestOf
  <2> DEFINE m == Len(s) - n + 1
             r == SubSeq(s, m, Len(s))
  <2>2. m \in Int /\ Len(s) \in Int
    BY <1>1
  <2>3. /\ r \in Seq(S)
        /\ Len(r) = IF m <= Len(s) THEN Len(s) - m + 1 ELSE 0
        /\ \A i \in 1..Len(s) - m + 1 : r[i] = s[m + i - 1]
    <3> HIDE DEF m
    <3> QED
      BY <2>1, <2>2, SubSeqProperties DEF m
  <2>4. Len(s) - m + 1 = n /\ Len(r) = n /\ \A i \in 1..n : m + i - 1 = Len(s) - n + i
    BY <1>1, <1>2, <2>3
  <2>5. \A i \in 1..n : r[i] = s[Len(s) - n + i]
    BY <2>3, <2>4
  <2> HIDE DEF m, r
  <2> QED
    BY <1>1, <1>2, <2>1, <2>3, <2>4, <2>5 DEF m, r
<1>3. CASE ~(Len(s) > n)
  BY <1>1, <1>3 DEF Ring!NewestOf
<1> QED
  BY <1>2, <1>3

\* So many different places do not fit into fewer.
LEMMA PlacesFit ==
  ASSUME NEW m \in Nat, NEW a \in Nat, NEW b \in Nat, a <= b + 1,
         NEW p \in [1..m -> a..b], \A i, j \in 1..m : p[i] = p[j] => i = j
  PROVE  m <= b - a + 1
<1>1. p \in Injection(1..m, a..b)
  BY DEF Injection, IsInjective
<1>2. IsFiniteSet(a..b) /\ Cardinality(a..b) = b - a + 1
  BY FS_Interval
<1>3. Cardinality(1..m) = m
  BY FS_Interval
<1> QED
  BY <1>1, <1>2, <1>3, FS_Injection

\* What is merged are the rows of both lists.
LEMMA RowsOfBoth ==
  ASSUME NEW c \in Seq(Ring!Rows), NEW b \in Seq(Ring!Rows)
  PROVE  /\ c \o b \in Seq(Ring!Rows)
         /\ Ring!ToSet(c \o b) = Ring!ToSet(c) \cup Ring!ToSet(b)
<1>1. /\ Len(c) \in Nat /\ DOMAIN c = 1..Len(c) /\ Len(b) \in Nat /\ DOMAIN b = 1..Len(b)
  BY LenProperties
<1>2. /\ c \o b \in Seq(Ring!Rows) /\ Len(c \o b) = Len(c) + Len(b)
      /\ \A i \in 1..Len(c) + Len(b) : (c \o b)[i] = IF i <= Len(c) THEN c[i] ELSE b[i - Len(c)]
  BY ConcatProperties
<1>3. DOMAIN (c \o b) = 1..Len(c) + Len(b)
  BY <1>2, LenProperties
<1> DEFINE all == c \o b
<1> HIDE DEF all
<1>4. \A i \in 1..Len(c) + Len(b) : all[i] = IF i <= Len(c) THEN c[i] ELSE b[i - Len(c)]
  BY <1>2 DEF all
<1>5. DOMAIN all = 1..Len(c) + Len(b)
  BY <1>3 DEF all
<1>6. ASSUME NEW e \in Ring!ToSet(all) PROVE e \in Ring!ToSet(c) \cup Ring!ToSet(b)
  <2>1. PICK i \in 1..Len(c) + Len(b) : e = all[i]
    BY <1>5 DEF Ring!ToSet
  <2>2. CASE i <= Len(c)
    BY <1>1, <1>4, <2>1, <2>2 DEF Ring!ToSet
  <2>3. CASE ~(i <= Len(c))
    <3>1. i - Len(c) \in DOMAIN b /\ e = b[i - Len(c)]
      BY <1>1, <1>4, <2>1, <2>3
    <3> QED
      BY <3>1 DEF Ring!ToSet
  <2> QED
    BY <2>2, <2>3
<1>7. ASSUME NEW i \in 1..Len(c) PROVE c[i] \in Ring!ToSet(all)
  <2>1. i \in DOMAIN all /\ all[i] = c[i]
    BY <1>1, <1>4, <1>5
  <2> QED
    BY <2>1 DEF Ring!ToSet
<1>8. ASSUME NEW i \in 1..Len(b) PROVE b[i] \in Ring!ToSet(all)
  <2>1. /\ Len(c) + i \in 1..Len(c) + Len(b) /\ ~(Len(c) + i <= Len(c)) /\ Len(c) + i - Len(c) = i
    BY <1>1
  <2>2. Len(c) + i \in DOMAIN all /\ all[Len(c) + i] = b[i]
    BY <1>4, <1>5, <2>1
  <2> QED
    BY <2>2 DEF Ring!ToSet
<1>9. Ring!ToSet(c) \cup Ring!ToSet(b) \subseteq Ring!ToSet(all)
  BY <1>1, <1>7, <1>8 DEF Ring!ToSet
<1> QED
  BY <1>2, <1>6, <1>9 DEF all

\* Merging a batch into a ring of some rows makes a ring of these rows and the batch
\* (mergeRecentEntries).
LEMMA MergesAreRings ==
  ASSUME RingBounds, NEW c \in Seq(Ring!Rows), NEW b \in Seq(Ring!Rows)
  PROVE  /\ Ring!Merged(c, b) \in Seq(Ring!Rows)
         /\ \A rows \in SUBSET Ring!Rows :
              RingOf(c, rows) => RingOf(Ring!Merged(c, b), rows \cup Ring!ToSet(b))
<1> DEFINE all == c \o b
           both == Ring!ToSet(all)
           s == Ring!Sorted(all)
           r == Ring!Merged(c, b)
<1>1. all \in Seq(Ring!Rows) /\ both = Ring!ToSet(c) \cup Ring!ToSet(b)
  BY RowsOfBoth
<1>2. both \subseteq Ring!Rows
  BY <1>1, RowsAreOrdered
<1>3. /\ s \in Seq(both)
      /\ \A e \in both : \E i \in 1..Len(s) : s[i] = e
      /\ \A i, j \in 1..Len(s) : i < j => s[i].at <= s[j].at
      /\ \A i, j \in 1..Len(s) : s[i] = s[j] => i = j
  BY <1>1, RowsAreSorted
<1>4. r = Ring!NewestOf(s, RingMax)
  BY DEF Ring!Merged
<1> HIDE DEF all, both, s, r
<1>5. /\ r \in Seq(both) /\ Len(r) = IF Len(s) > RingMax THEN RingMax ELSE Len(s)
      /\ \A i \in 1..Len(r) : r[i] = s[Len(s) - Len(r) + i]
  <2>1. RingMax \in Nat /\ s \in Seq(both)
    BY <1>3 DEF RingBounds
  <2> QED
    BY <1>4, <2>1, NewestAreLast
<1>6. Len(s) \in Nat /\ Len(r) \in Nat /\ RingMax \in Nat /\ Len(r) <= RingMax /\ Len(r) <= Len(s)
      /\ (Len(r) < Len(s) => Len(r) = RingMax)
  BY <1>3, <1>5, LenProperties DEF RingBounds
<1>7. r \in Seq(Ring!Rows)
  BY <1>2, <1>5, SeqMonotonic
<1>8. /\ \A i \in 1..Len(s) : s[i] \in both /\ s[i].at \in Int
      /\ \A i \in 1..Len(r) : r[i] \in both /\ r[i].at \in Int
  <2>1. \A e \in both : e.at \in Int
    BY <1>2 DEF Ring!Rows
  <2> QED
    BY <1>3, <1>5, <2>1, ElementOfSeq
<1>9. ASSUME NEW rows \in SUBSET Ring!Rows, RingOf(c, rows)
      PROVE  RingOf(r, rows \cup Ring!ToSet(b))
  <2>1. /\ Len(c) \in Nat /\ DOMAIN c = 1..Len(c) /\ Ring!ToSet(c) \subseteq rows
        /\ \A i \in 1..Len(c) : c[i] \in both
    <3>1. Len(c) \in Nat /\ DOMAIN c = 1..Len(c)
      BY LenProperties
    <3> QED
      BY <1>1, <1>9, <3>1 DEF RingOf, Ring!ToSet
  <2>2. \A i \in 1..Len(r) : Len(s) - Len(r) + i \in 1..Len(s)
    BY <1>6
  <2>3. \A i, j \in 1..Len(r) : r[i] = r[j] => i = j
    <3> SUFFICES ASSUME NEW i \in 1..Len(r), NEW j \in 1..Len(r), r[i] = r[j] PROVE i = j
      OBVIOUS
    <3>1. s[Len(s) - Len(r) + i] = s[Len(s) - Len(r) + j]
      BY <1>5
    <3>2. Len(s) - Len(r) + i = Len(s) - Len(r) + j
      BY <1>3, <2>2, <3>1
    <3> QED
      BY <1>6, <3>2
  <2>4. \A i \in 1..Len(r) : r[i] \in rows \cup Ring!ToSet(b)
    BY <1>1, <1>8, <2>1
  <2>5. ASSUME NEW i \in 1..Len(r), NEW j \in 1..Len(r), i < j PROVE r[i].at <= r[j].at
    <3>1. Len(s) - Len(r) + i < Len(s) - Len(r) + j
      BY <1>6, <2>5
    <3>2. s[Len(s) - Len(r) + i].at <= s[Len(s) - Len(r) + j].at
      BY <1>3, <2>2, <3>1, Zenon
    <3> QED
      BY <1>5, <3>2
  <2>6. ASSUME NEW e \in both
        PROVE  \/ \E i \in 1..Len(r) : r[i] = e
               \/ Len(r) = RingMax /\ \A i \in 1..Len(r) : r[i].at >= e.at
    <3>1. PICK k \in 1..Len(s) : s[k] = e
      BY <1>3
    <3>2. CASE k > Len(s) - Len(r)
      <4>1. PICK i \in 1..Len(r) : Len(s) - Len(r) + i = k
        <5>1. k - (Len(s) - Len(r)) \in 1..Len(r)
              /\ Len(s) - Len(r) + (k - (Len(s) - Len(r))) = k
          BY <1>6, <3>2
        <5> QED
          BY <5>1
      <4> QED
        BY <1>5, <3>1, <4>1
    <3>3. CASE ~(k > Len(s) - Len(r))
      <4>1. Len(r) = RingMax
        BY <1>6, <3>3
      <4>2. ASSUME NEW i \in 1..Len(r) PROVE r[i].at >= e.at
        <5>1. k < Len(s) - Len(r) + i
          BY <1>6, <3>3
        <5>2. s[k].at <= s[Len(s) - Len(r) + i].at
          BY <1>3, <2>2, <5>1
        <5>3. r[i].at \in Int /\ s[k].at \in Int
          BY <1>8
        <5> QED
          BY <1>5, <3>1, <5>2, <5>3
      <4> QED
        BY <4>1, <4>2
    <3> QED
      BY <3>2, <3>3
  <2>7. ASSUME NEW e \in rows, e \notin both
        PROVE  Len(r) = RingMax /\ \A i \in 1..Len(r) : r[i].at >= e.at
    <3>1. Len(c) = RingMax /\ \A i \in 1..Len(c) : c[i].at >= e.at
      BY <1>9, <2>1, <2>7 DEF RingOf
    <3> DEFINE p == [j \in 1..RingMax |-> CHOOSE k \in 1..Len(s) : s[k] = c[j]]
    <3>2. \A j \in 1..RingMax : p[j] \in 1..Len(s) /\ s[p[j]] = c[j]
      BY <1>3, <2>1, <3>1
    <3>3. \A i, j \in 1..RingMax : p[i] = p[j] => i = j
      <4>1. \A i, j \in 1..RingMax : p[i] = p[j] => c[i] = c[j]
        BY <3>2, Zenon
      <4> QED
        BY <1>9, <3>1, <4>1 DEF RingOf
    <3> HIDE DEF p
    <3>4. p \in [1..RingMax -> 1..Len(s)]
      BY <3>2 DEF p
    <3>5. RingMax <= Len(s)
      <4>1. 1 \in Nat /\ 1 <= Len(s) + 1
        BY <1>6
      <4>2. RingMax <= Len(s) - 1 + 1
        BY <1>6, <3>3, <3>4, <4>1, PlacesFit
      <4> QED
        BY <1>6, <4>2
    <3>6. Len(r) = RingMax
      BY <1>6, <3>5
    <3>7. ASSUME NEW i \in 1..Len(r), ~(r[i].at >= e.at) PROVE FALSE
      <4> DEFINE q == Len(s) - Len(r) + i
      <4>1. q \in 1..Len(s) /\ s[q] = r[i]
        BY <1>5, <2>2, Zenon
      <4>2. e.at \in Int /\ r[i].at \in Int
        BY <1>8 DEF Ring!Rows
      <4> HIDE DEF q
      <4>3. ASSUME NEW j \in 1..RingMax PROVE p[j] \in q + 1..Len(s)
        <5>1. c[j].at >= e.at /\ s[p[j]] = c[j] /\ p[j] \in 1..Len(s) /\ s[p[j]].at \in Int
          BY <1>8, <3>1, <3>2
        <5>2. ~(s[p[j]].at <= s[q].at)
          BY <3>7, <4>1, <4>2, <5>1
        <5>3. ~(p[j] < q)
          BY <1>3, <4>1, <5>1, <5>2, Zenon
        <5>4. p[j] # q
          BY <4>1, <4>2, <5>2
        <5> QED
          BY <1>6, <4>1, <5>1, <5>3, <5>4
      <4>4. p \in [1..RingMax -> q + 1..Len(s)]
        BY <3>4, <4>3
      <4>5. q + 1 \in Nat /\ q + 1 <= Len(s) + 1
        BY <1>6, <4>1
      <4>6. RingMax <= Len(s) - (q + 1) + 1
        BY <1>6, <3>3, <4>4, <4>5, PlacesFit
      <4> QED
        BY <1>6, <3>6, <4>6 DEF q
    <3> QED
      BY <3>6, <3>7
  <2> QED
    BY <1>1, <1>6, <2>3, <2>4, <2>5, <2>6, <2>7 DEF RingOf
<1> QED
  BY <1>7, <1>9 DEF r

\* Of the processes that run, one at most is inside the lock.
OneFlushes ==
  \A p \in Procs : ringPc[p] \in Ring!Locked /\ life[p] # "down" => ringLock = p

\* A flush that has come to the lock has seen a file, or made one.
ListIsThere ==
  ringFile = Absent => \A p \in Procs : ringPc[p] \in {"idle", "ensuring", "creating"}

\* A row is pending or in a batch: no flush is under way without its batch, and while one is,
\* no row is captured.
RowsAreHeld ==
  \A p \in Procs :
    /\ ringPc[p] \in {"idle", "releasing"} => batch[p] = <<>>
    /\ ringPc[p] # "idle" => pending[p] = <<>>

\* What a flush is about to put in place is its batch merged into the file as it still is.
MergesAreCurrent ==
  \A p \in Procs : life[p] # "down" =>
    /\ ringPc[p] \in {"writing", "renaming"} /\ ~ringReplaced =>
         ringBuf[p] = Ring!Merged(Ring!Content, batch[p])
    /\ ringPc[p] = "renaming" => ringTmp = ringBuf[p]

\* The file is a ring of what was flushed.
FileIsARing == ~ringReplaced => RingOf(Ring!Content, flushed)

\* A captured row is flushed, or in a batch, or pending and the process will flush it.
RowsAreKept ==
  \A p \in Procs : life[p] = "up" => \A e \in captures[p] :
    \/ e \in flushed
    \/ e \in Ring!ToSet(batch[p])
    \/ e \in Ring!ToSet(pending[p]) /\ (ringPc[p] = "idle" => timer[p])

\* The types of the ring, one variable at a time.
RingTypes ==
  /\ ringFile \in Seq(Ring!Rows) \cup {Absent} /\ ringTmp \in Seq(Ring!Rows) \cup {Absent}
  /\ ringLock \in Procs \cup {NoOp, Ghost}
  /\ entries \in [Procs -> Seq(Ring!Rows)] /\ pending \in [Procs -> Seq(Ring!Rows)]
  /\ batch \in [Procs -> Seq(Ring!Rows)] /\ ringBuf \in [Procs -> Seq(Ring!Rows)]
  /\ timer \in [Procs -> BOOLEAN] /\ failing \in [Procs -> BOOLEAN]
  /\ life \in [Procs -> {"up", "leaving", "down"}]
  /\ captures \in [Procs -> SUBSET Ring!Rows]
  /\ ringPc \in [Procs -> {"idle"} \cup Ring!Underway]
  /\ flushed \subseteq Ring!Rows /\ ringReplaced \in BOOLEAN /\ now \in 1..LastTime
  /\ faults \in 0..MaxFaults /\ ends \in 0..MaxEnds

RingInv ==
  /\ RingTypes /\ OneFlushes /\ ListIsThere /\ RowsAreHeld /\ MergesAreCurrent
  /\ FileIsARing /\ RowsAreKept

\* The types of the ring are its types.
LEMMA RingTypesAreTypes == RingTypes <=> Ring!TypeOK
<1>1. {entries, pending, batch, ringBuf} \subseteq [Procs -> Seq(Ring!Rows)] <=>
        /\ entries \in [Procs -> Seq(Ring!Rows)] /\ pending \in [Procs -> Seq(Ring!Rows)]
        /\ batch \in [Procs -> Seq(Ring!Rows)] /\ ringBuf \in [Procs -> Seq(Ring!Rows)]
  OBVIOUS
<1>2. {timer, failing} \subseteq [Procs -> BOOLEAN] <=>
        timer \in [Procs -> BOOLEAN] /\ failing \in [Procs -> BOOLEAN]
  OBVIOUS
<1> QED
  BY <1>1, <1>2, Zenon DEF RingTypes, Ring!TypeOK

\* The rows of lists that are put together.
LEMMA RowsOfLists ==
  /\ <<>> \in Seq(Ring!Rows) /\ Ring!ToSet(<<>>) = {}
  /\ \A s \in Seq(Ring!Rows) : \A e \in Ring!Rows :
       /\ Append(s, e) \in Seq(Ring!Rows) /\ Append(s, e) # <<>>
       /\ Ring!ToSet(Append(s, e)) = Ring!ToSet(s) \cup {e}
  /\ \A s, t \in Seq(Ring!Rows) :
       s \o t \in Seq(Ring!Rows) /\ Ring!ToSet(s \o t) = Ring!ToSet(s) \cup Ring!ToSet(t)
<1>1. <<>> \in Seq(Ring!Rows) /\ Ring!ToSet(<<>>) = {}
  BY DEF Ring!ToSet
<1>2. ASSUME NEW s \in Seq(Ring!Rows), NEW e \in Ring!Rows
      PROVE  /\ Append(s, e) \in Seq(Ring!Rows) /\ Append(s, e) # <<>>
             /\ Ring!ToSet(Append(s, e)) = Ring!ToSet(s) \cup {e}
  <2>1. Len(s) \in Nat /\ DOMAIN s = 1..Len(s)
    BY LenProperties
  <2>2. /\ Append(s, e) \in Seq(Ring!Rows) /\ Append(s, e) # <<>>
        /\ DOMAIN Append(s, e) = 1..Len(s) + 1
        /\ \A i \in 1..Len(s) : Append(s, e)[i] = s[i]
        /\ Append(s, e)[Len(s) + 1] = e
    BY <2>1
  <2>3. \A i \in 1..Len(s) + 1 : i \in 1..Len(s) \/ i = Len(s) + 1
    BY <2>1
  <2>4. Len(s) + 1 \in 1..Len(s) + 1 /\ \A i \in 1..Len(s) : i \in 1..Len(s) + 1
    BY <2>1
  <2> DEFINE longer == Append(s, e)
  <2>5. \A i \in 1..Len(s) + 1 : longer[i] \in Ring!ToSet(s) \cup {e}
    <3> HIDE DEF longer
    <3> QED
      BY <2>1, <2>2, <2>3 DEF Ring!ToSet, longer
  <2>6. \A i \in 1..Len(s) : \E j \in 1..Len(s) + 1 : longer[j] = s[i]
    BY <2>2, <2>4
  <2>7. \E j \in 1..Len(s) + 1 : longer[j] = e
    BY <2>2, <2>4
  <2>8. DOMAIN longer = 1..Len(s) + 1
    BY <2>2
  <2> HIDE DEF longer
  <2>9. Ring!ToSet(longer) = Ring!ToSet(s) \cup {e}
    BY <2>1, <2>5, <2>6, <2>7, <2>8 DEF Ring!ToSet
  <2> QED
    BY <2>2, <2>9 DEF longer
<1> QED
  BY <1>1, <1>2, RowsOfBoth

\* What the steps of the ring are made of.
RingStages == {"idle"} \cup Ring!Underway

\* The stages, one by one.
LEMMA StagesOfTheRing ==
  /\ RingStages = {"idle", "ensuring", "creating", "locking", "reading", "writing", "renaming",
                   "releasing"}
  /\ Ring!Locked = {"reading", "writing", "renaming", "releasing"}
BY DEF RingStages, Ring!Underway, Ring!Locked

\* At the start the file is missing or empty and nothing is captured.
LEMMA RingInitInv == RingBounds /\ Ring!Init => RingInv
<1> SUFFICES ASSUME RingBounds, Ring!Init PROVE RingInv
  OBVIOUS
<1>1. RingTypes
  <2>1. <<>> \in Seq(Ring!Rows) /\ 1 \in 1..LastTime
    BY DEF RingBounds
  <2> QED
    BY <2>1 DEF RingTypes, Ring!Init
<1>2. Ring!Content = <<>> /\ Len(<<>>) = 0 /\ flushed = {}
  BY DEF Ring!Init, Ring!Content
<1>3. FileIsARing
  BY <1>2 DEF FileIsARing, RingOf, RingBounds
<1>4. OneFlushes /\ ListIsThere /\ RowsAreHeld /\ MergesAreCurrent /\ RowsAreKept
  BY DEF Ring!Init, Ring!Locked, OneFlushes, ListIsThere, RowsAreHeld, MergesAreCurrent,
         RowsAreKept
<1> QED
  BY <1>1, <1>3, <1>4 DEF RingInv

\* What is read of the file is a list.
LEMMA ContentOfTheRing ==
  ASSUME RingTypes PROVE Ring!Content \in Seq(Ring!Rows)
BY DEF RingTypes, Ring!Content

\* A flush takes all the rows there are, if any, into its batch.
LEMMA FlushesBegin ==
  ASSUME RingInv, NEW p \in Procs, ringPc[p] = "idle", NEW backlog,
         backlog = <<>> => pending[p] = <<>>, Ring!BeginFlush(p, backlog)
  PROVE  /\ timer' = [timer EXCEPT ![p] = FALSE]
         /\ pending' = [pending EXCEPT ![p] = <<>>]
         /\ batch' = [batch EXCEPT ![p] = backlog]
         /\ ringPc' = [ringPc EXCEPT ![p] = IF backlog = <<>> THEN "idle" ELSE "ensuring"]
<1>1. batch[p] = <<>> /\ p \in DOMAIN batch /\ p \in DOMAIN pending /\ p \in DOMAIN ringPc
  BY DEF RingInv, RingTypes, RowsAreHeld
<1>2. CASE backlog = <<>>
  BY <1>1, <1>2 DEF Ring!BeginFlush, RingInv, RingTypes
<1>3. CASE backlog # <<>>
  BY <1>3 DEF Ring!BeginFlush, Ring!Goto
<1> QED
  BY <1>2, <1>3

\* A step in which a process takes its rows into a batch, or none of them, keeps the
\* invariant: a row it captured before is where it was, or in the batch.
LEMMA BatchingKeeps ==
  ASSUME RingBounds, RingInv, NEW p \in Procs, ringPc[p] = "idle", life[p] = "up",
         NEW backlog \in Seq(Ring!Rows),
         Ring!ToSet(pending[p]) \subseteq Ring!ToSet(backlog),
         pending' = [pending EXCEPT ![p] = <<>>],
         batch' = [batch EXCEPT ![p] = backlog],
         ringPc' = [ringPc EXCEPT ![p] = IF backlog = <<>> THEN "idle" ELSE "ensuring"],
         timer' = [timer EXCEPT ![p] = FALSE],
         entries' \in [Procs -> Seq(Ring!Rows)],
         captures' \in [Procs -> SUBSET Ring!Rows],
         \A q \in Procs : captures'[q] = captures[q] \/
           (q = p /\ captures'[q] \subseteq captures[q] \cup Ring!ToSet(backlog)),
         life' \in [Procs -> {"up", "leaving", "down"}],
         \A q \in Procs : q # p => life'[q] = life[q],
         UNCHANGED <<ringFile, ringTmp, ringLock, failing, ringBuf, flushed, ringReplaced, now,
                     faults>>,
         ends' \in 0..MaxEnds
  PROVE  RingInv'
<1> USE DEF RingInv
<1>1. RingTypes'
  BY StagesOfTheRing, RowsOfLists DEF RingTypes, RingStages
<1>2. /\ ringPc'[p] \in {"idle", "ensuring"} /\ (ringPc'[p] = "idle" => batch'[p] = <<>>)
      /\ pending'[p] = <<>> /\ batch'[p] = backlog
      /\ \A q \in Procs : q # p =>
           /\ ringPc'[q] = ringPc[q] /\ batch'[q] = batch[q] /\ pending'[q] = pending[q]
           /\ timer'[q] = timer[q]
  BY DEF RingTypes
<1>3. OneFlushes'
  BY <1>2 DEF OneFlushes, Ring!Locked
<1>4. ListIsThere'
  BY <1>2 DEF ListIsThere
<1>5. RowsAreHeld'
  BY <1>2 DEF RowsAreHeld
<1>6. Ring!Content' = Ring!Content
  BY DEF Ring!Content
<1>7. MergesAreCurrent'
  BY <1>2, <1>6 DEF MergesAreCurrent
<1>8. FileIsARing'
  BY <1>6 DEF FileIsARing
<1>9. RowsAreKept'
  <2> SUFFICES ASSUME NEW q \in Procs, life'[q] = "up", NEW e \in captures'[q]
               PROVE  \/ e \in flushed'
                      \/ e \in Ring!ToSet(batch'[q])
                      \/ e \in Ring!ToSet(pending'[q]) /\ (ringPc'[q] = "idle" => timer'[q])
    BY DEF RowsAreKept, Ring!ToSet
  <2>1. CASE q # p
    BY <1>2, <2>1 DEF RowsAreKept
  <2>2. CASE q = p
    <3>1. batch[p] = <<>> /\ Ring!ToSet(batch[p]) = {}
      BY RowsOfLists DEF RowsAreHeld
    <3> QED
      BY <1>2, <2>2, <3>1 DEF RowsAreKept
  <2> QED
    BY <2>1, <2>2
<1> QED
  BY <1>1, <1>3, <1>4, <1>5, <1>7, <1>8, <1>9

\* A row that is captured goes into a batch, or is pending with the timer on.
LEMMA CapturingKeeps ==
  ASSUME RingBounds, RingInv, NEW p \in Procs, NEW e \in Ring!Rows, Ring!Capture(p, e)
  PROVE  RingInv'
<1> DEFINE backlog == Append(pending[p], e)
<1> USE DEF RingInv
<1>1. /\ life[p] = "up" /\ ringPc[p] = "idle"
      /\ captures' = [captures EXCEPT ![p] = @ \cup {e}]
      /\ entries' = [entries EXCEPT ![p] = Ring!NewestOf(Append(@, e), RingMax)]
      /\ UNCHANGED <<ringFile, ringTmp, ringLock, failing, ringBuf, life, flushed, ringReplaced,
                     now, faults, ends>>
  BY DEF Ring!Capture, Ring!IsFree, Ring!disk, Ring!history, Ring!clock
<1>2. \/ Ring!BeginFlush(p, backlog)
      \/ /\ pending' = [pending EXCEPT ![p] = backlog]
         /\ timer' = [timer EXCEPT ![p] = TRUE] /\ ringPc' = ringPc /\ batch' = batch
  BY Zenon DEF Ring!Capture
<1>3. /\ backlog \in Seq(Ring!Rows) /\ backlog # <<>>
      /\ Ring!ToSet(backlog) = Ring!ToSet(pending[p]) \cup {e}
  BY RowsOfLists DEF RingTypes
<1> HIDE DEF backlog
<1>4. entries' \in [Procs -> Seq(Ring!Rows)] /\ captures' \in [Procs -> SUBSET Ring!Rows]
  <2>1. entries[p] \in Seq(Ring!Rows) /\ Append(entries[p], e) \in Seq(Ring!Rows)
    BY RowsOfLists DEF RingTypes
  <2>2. Ring!NewestOf(Append(entries[p], e), RingMax) \in Seq(Ring!Rows)
    BY <2>1, NewestAreLast, Zenon DEF RingBounds
  <2> QED
    BY <1>1, <2>2 DEF RingTypes
<1>5. \A q \in Procs : captures'[q] = IF q = p THEN captures[p] \cup {e} ELSE captures[q]
  BY <1>1 DEF RingTypes
<1>6. CASE Ring!BeginFlush(p, backlog)
  <2>1. /\ timer' = [timer EXCEPT ![p] = FALSE]
        /\ pending' = [pending EXCEPT ![p] = <<>>]
        /\ batch' = [batch EXCEPT ![p] = backlog]
        /\ ringPc' = [ringPc EXCEPT ![p] = IF backlog = <<>> THEN "idle" ELSE "ensuring"]
    BY <1>1, <1>3, <1>6, FlushesBegin
  <2>2. /\ life' \in [Procs -> {"up", "leaving", "down"}] /\ ends' \in 0..MaxEnds
        /\ \A q \in Procs : q # p => life'[q] = life[q]
    BY <1>1 DEF RingTypes
  <2>3. \A q \in Procs : captures'[q] = captures[q] \/
          (q = p /\ captures'[q] \subseteq captures[q] \cup Ring!ToSet(backlog))
    BY <1>3, <1>5
  <2>4. Ring!ToSet(pending[p]) \subseteq Ring!ToSet(backlog)
    BY <1>3
  <2> QED
    BY <1>1, <1>3, <1>4, <2>1, <2>2, <2>3, <2>4, BatchingKeeps
<1>7. CASE /\ pending' = [pending EXCEPT ![p] = backlog]
           /\ timer' = [timer EXCEPT ![p] = TRUE] /\ ringPc' = ringPc /\ batch' = batch
  <2>1. RingTypes'
    BY <1>1, <1>3, <1>4, <1>7 DEF RingTypes
  <2>2. OneFlushes' /\ ListIsThere'
    BY <1>1, <1>7 DEF OneFlushes, ListIsThere
  <2>3. \A q \in Procs : pending'[q] = IF q = p THEN backlog ELSE pending[q]
    BY <1>7 DEF RingTypes
  <2>4. \A q \in Procs : timer'[q] = IF q = p THEN TRUE ELSE timer[q]
    BY <1>7 DEF RingTypes
  <2>5. RowsAreHeld'
    BY <1>1, <1>7, <2>3 DEF RowsAreHeld
  <2>6. Ring!Content' = Ring!Content
    BY <1>1 DEF Ring!Content
  <2>7. MergesAreCurrent' /\ FileIsARing'
    BY <1>1, <1>7, <2>6 DEF MergesAreCurrent, FileIsARing
  <2>8. RowsAreKept'
    <3> SUFFICES ASSUME NEW q \in Procs, life'[q] = "up", NEW f \in captures'[q]
                 PROVE  \/ f \in flushed'
                        \/ f \in Ring!ToSet(batch'[q])
                        \/ f \in Ring!ToSet(pending'[q]) /\ (ringPc'[q] = "idle" => timer'[q])
      BY DEF RowsAreKept, Ring!ToSet
    <3>1. CASE q = p /\ f = e
      BY <1>3, <2>3, <2>4, <3>1
    <3>2. CASE f \in captures[q]
      <4>1. \/ f \in flushed
            \/ f \in Ring!ToSet(batch[q])
            \/ f \in Ring!ToSet(pending[q]) /\ (ringPc[q] = "idle" => timer[q])
        BY <1>1, <3>2 DEF RowsAreKept
      <4> QED
        BY <1>1, <1>3, <1>7, <2>3, <2>4, <4>1
    <3> QED
      BY <1>5, <3>1, <3>2
  <2> QED
    BY <2>1, <2>2, <2>5, <2>7, <2>8
<1> QED
  BY <1>2, <1>6, <1>7

\* When its timer fires, or it exits, a process takes what is pending.
LEMMA FlushingStarts ==
  ASSUME RingBounds, RingInv, NEW p \in Procs, Ring!TimerFires(p) \/ Ring!Exit(p)
  PROVE  RingInv'
<1> USE DEF RingInv
<1>1. /\ life[p] = "up" /\ ringPc[p] = "idle" /\ Ring!BeginFlush(p, pending[p])
      /\ UNCHANGED <<ringFile, ringTmp, ringLock, entries, captures, failing, ringBuf, flushed,
                     ringReplaced, now, faults>>
  BY DEF Ring!TimerFires, Ring!Exit, Ring!IsFree, Ring!disk, Ring!history, Ring!clock
<1>2. /\ life' \in [Procs -> {"up", "leaving", "down"}] /\ ends' \in 0..MaxEnds
      /\ \A q \in Procs : q # p => life'[q] = life[q]
  <2>1. CASE Ring!TimerFires(p)
    BY <2>1 DEF Ring!TimerFires, RingTypes, Ring!clock
  <2>2. CASE Ring!Exit(p)
    <3>1. /\ ends' = ends + 1 /\ ends < MaxEnds
          /\ life' = [life EXCEPT ![p] = IF pending[p] = <<>> THEN "down" ELSE "leaving"]
      BY <2>2 DEF Ring!Exit
    <3> QED
      BY <3>1 DEF RingTypes, RingBounds
  <2> QED
    BY <2>1, <2>2
<1>3. /\ timer' = [timer EXCEPT ![p] = FALSE]
      /\ pending' = [pending EXCEPT ![p] = <<>>]
      /\ batch' = [batch EXCEPT ![p] = pending[p]]
      /\ ringPc' = [ringPc EXCEPT ![p] = IF pending[p] = <<>> THEN "idle" ELSE "ensuring"]
  BY <1>1, FlushesBegin
<1>4. /\ pending[p] \in Seq(Ring!Rows) /\ entries' \in [Procs -> Seq(Ring!Rows)]
      /\ captures' \in [Procs -> SUBSET Ring!Rows] /\ \A q \in Procs : captures'[q] = captures[q]
  BY <1>1 DEF RingTypes
<1> QED
  BY <1>1, <1>2, <1>3, <1>4, BatchingKeeps

\* What has settled runs only if it ran.
LEMMA SettledLives ==
  ASSUME RingTypes, NEW p \in Procs, Ring!Settled(p)
  PROVE  /\ life' \in [Procs -> {"up", "leaving", "down"}]
         /\ \A q \in Procs : q # p => life'[q] = life[q]
         /\ life'[p] = "up" => life[p] = "up"
         /\ life'[p] # "down" => life[p] # "down"
BY DEF RingTypes, Ring!Settled

\* Rows that are put back are pending again, with the timer on; nothing else has changed but
\* that the process may have let go of the lock, or left it behind.
LEMMA PuttingBackKeeps ==
  ASSUME RingBounds, RingInv, NEW p \in Procs, life[p] # "down", Ring!PutBack(p),
         ringLock' \in {ringLock, Ring!Unlocked(p), Ring!LeftBehind(p)},
         ringBuf' \in [Procs -> Seq(Ring!Rows)],
         \A q \in Procs : q # p => ringBuf'[q] = ringBuf[q],
         UNCHANGED <<ringFile, ringTmp, entries, captures, flushed, ringReplaced, now>>,
         faults' \in 0..MaxFaults, ends' \in 0..MaxEnds
  PROVE  RingInv'
<1> USE DEF RingInv
<1>1. /\ pending' = [pending EXCEPT ![p] = batch[p] \o @]
      /\ failing' = [failing EXCEPT ![p] = TRUE] /\ timer' = [timer EXCEPT ![p] = TRUE]
      /\ batch' = [batch EXCEPT ![p] = <<>>] /\ ringPc' = [ringPc EXCEPT ![p] = "idle"]
      /\ Ring!Settled(p)
  BY DEF Ring!PutBack, Ring!Goto
<1>2. /\ batch[p] \o pending[p] \in Seq(Ring!Rows)
      /\ Ring!ToSet(batch[p] \o pending[p]) = Ring!ToSet(batch[p]) \cup Ring!ToSet(pending[p])
      /\ <<>> \in Seq(Ring!Rows) /\ Ring!ToSet(<<>>) = {}
  BY RowsOfLists DEF RingTypes
<1>3. /\ \A q \in Procs : q # p =>
           /\ ringPc'[q] = ringPc[q] /\ batch'[q] = batch[q] /\ pending'[q] = pending[q]
           /\ timer'[q] = timer[q]
      /\ ringPc'[p] = "idle" /\ batch'[p] = <<>> /\ timer'[p] = TRUE
      /\ pending'[p] = batch[p] \o pending[p]
  BY <1>1 DEF RingTypes
<1>4. /\ life' \in [Procs -> {"up", "leaving", "down"}]
      /\ \A q \in Procs : q # p => life'[q] = life[q]
      /\ life'[p] = "up" => life[p] = "up"
  BY <1>1, SettledLives
<1>5. RingTypes'
  <2>1. ringLock' \in Procs \cup {NoOp, Ghost}
    BY DEF RingTypes, Ring!Unlocked, Ring!LeftBehind
  <2>2. /\ pending' \in [Procs -> Seq(Ring!Rows)] /\ batch' \in [Procs -> Seq(Ring!Rows)]
        /\ timer' \in [Procs -> BOOLEAN] /\ failing' \in [Procs -> BOOLEAN]
        /\ ringPc' \in [Procs -> {"idle"} \cup Ring!Underway]
    BY <1>1, <1>2 DEF RingTypes
  <2> QED
    BY <1>4, <2>1, <2>2 DEF RingTypes
<1>6. OneFlushes'
  BY <1>3, <1>4 DEF OneFlushes, Ring!Unlocked, Ring!LeftBehind, Ring!Locked
<1>7. ListIsThere' /\ RowsAreHeld'
  BY <1>3 DEF ListIsThere, RowsAreHeld
<1>8. Ring!Content' = Ring!Content
  BY DEF Ring!Content
<1>9. MergesAreCurrent' /\ FileIsARing'
  BY <1>3, <1>4, <1>8 DEF MergesAreCurrent, FileIsARing
<1>10. RowsAreKept'
  <2> SUFFICES ASSUME NEW q \in Procs, life'[q] = "up", NEW f \in captures'[q]
               PROVE  \/ f \in flushed'
                      \/ f \in Ring!ToSet(batch'[q])
                      \/ f \in Ring!ToSet(pending'[q]) /\ (ringPc'[q] = "idle" => timer'[q])
    BY DEF RowsAreKept, Ring!ToSet
  <2>1. \/ f \in flushed
        \/ f \in Ring!ToSet(batch[q])
        \/ f \in Ring!ToSet(pending[q]) /\ (ringPc[q] = "idle" => timer[q])
    BY <1>4 DEF RowsAreKept
  <2> QED
    BY <1>2, <1>3, <2>1
<1> QED
  BY <1>5, <1>6, <1>7, <1>9, <1>10

\* A flush that finds the lock taken, or that the disk refuses, puts its rows back.
LEMMA FailingKeeps ==
  ASSUME RingBounds, RingInv, NEW p \in Procs, life[p] # "down",
         Ring!Contended(p) \/ Ring!Refused(p)
  PROVE  RingInv'
<1> USE DEF RingInv
<1>1. CASE Ring!Contended(p)
  <2>1. /\ Ring!PutBack(p)
        /\ UNCHANGED <<ringFile, ringTmp, ringLock, ringBuf, entries, captures, flushed,
                       ringReplaced, now, faults, ends>>
    BY <1>1 DEF Ring!Contended, Ring!disk, Ring!history, Ring!clock
  <2>2. /\ ringBuf' \in [Procs -> Seq(Ring!Rows)]
        /\ faults' \in 0..MaxFaults /\ ends' \in 0..MaxEnds
    BY <2>1 DEF RingTypes
  <2> QED
    BY <2>1, <2>2, PuttingBackKeeps
<1>2. CASE Ring!Refused(p)
  <2>1. /\ Ring!PutBack(p) /\ ringLock' \in {Ring!Unlocked(p), Ring!LeftBehind(p)}
        /\ ringBuf' = [ringBuf EXCEPT ![p] = <<>>] /\ faults < MaxFaults /\ faults' = faults + 1
        /\ UNCHANGED <<ringFile, ringTmp, entries, captures, flushed, ringReplaced, now, ends>>
    BY <1>2 DEF Ring!Refused, Ring!history
  <2>2. /\ ringBuf' \in [Procs -> Seq(Ring!Rows)]
        /\ \A q \in Procs : q # p => ringBuf'[q] = ringBuf[q]
        /\ faults' \in 0..MaxFaults /\ ends' \in 0..MaxEnds
    BY <2>1, RowsOfLists DEF RingTypes, RingBounds
  <2> QED
    BY <2>1, <2>2, PuttingBackKeeps
<1> QED
  BY <1>1, <1>2

\* The rows of a step that touches neither them nor the timer are where they were.
LEMMA RowsStay ==
  ASSUME RingInv, NEW p \in Procs,
         UNCHANGED <<pending, batch, captures, flushed, timer>>, ringPc[p] # "idle",
         ringPc' \in [Procs -> RingStages], ringPc'[p] # "idle",
         \A q \in Procs : q # p => ringPc'[q] = ringPc[q],
         \A q \in Procs : life'[q] = "up" => life[q] = "up"
  PROVE  RowsAreKept'
BY DEF RingInv, RowsAreKept, Ring!ToSet

\* A flush looks for the file before it waits for the lock.
LEMMA EnsuringKeeps ==
  ASSUME RingBounds, RingInv, NEW p \in Procs, Ring!Ensure(p)
  PROVE  RingInv'
<1> USE DEF RingInv
<1> DEFINE l == IF ringFile = Absent THEN "creating" ELSE "locking"
<1>1. /\ ringPc[p] = "ensuring" /\ ringPc' = [ringPc EXCEPT ![p] = l]
      /\ UNCHANGED <<ringFile, ringTmp, ringLock, entries, pending, timer, failing, captures,
                     batch, ringBuf, life, flushed, ringReplaced, now, faults, ends>>
  BY DEF Ring!Ensure, Ring!Goto, Ring!disk, Ring!memory, Ring!history, Ring!clock
<1>2. /\ l \in RingStages /\ l \in {"creating", "locking"}
      /\ (l = "creating" <=> ringFile = Absent)
  BY StagesOfTheRing
<1> HIDE DEF l
<1>3. /\ ringPc' \in [Procs -> RingStages] /\ ringPc'[p] = l
      /\ \A q \in Procs : q # p => ringPc'[q] = ringPc[q]
  BY <1>1, <1>2 DEF RingTypes, RingStages
<1>4. RingTypes'
  BY <1>1, <1>3 DEF RingTypes, RingStages
<1>5. OneFlushes' /\ ListIsThere' /\ RowsAreHeld'
  BY <1>1, <1>2, <1>3 DEF OneFlushes, ListIsThere, RowsAreHeld, Ring!Locked
<1>6. Ring!Content' = Ring!Content
  BY <1>1 DEF Ring!Content
<1>7. MergesAreCurrent' /\ FileIsARing'
  BY <1>1, <1>2, <1>3, <1>6 DEF MergesAreCurrent, FileIsARing
<1>8. RowsAreKept'
  BY <1>1, <1>2, <1>3, RowsStay
<1> QED
  BY <1>4, <1>5, <1>7, <1>8

\* A file that is made where there is none holds the same rows; one that is put over
\* another's is noted.
LEMMA CreatingKeeps ==
  ASSUME RingBounds, RingInv, NEW p \in Procs, Ring!Create(p)
  PROVE  RingInv'
<1> USE DEF RingInv
<1>1. /\ ringPc[p] = "creating" /\ ringPc' = [ringPc EXCEPT ![p] = "locking"]
      /\ ringFile' = <<>> /\ ringReplaced' = (ringReplaced \/ ringFile # Absent)
      /\ UNCHANGED <<ringTmp, ringLock, entries, pending, timer, failing, captures, batch,
                     ringBuf, life, flushed, now, faults, ends>>
  BY DEF Ring!Create, Ring!Goto, Ring!memory, Ring!clock
<1>2. /\ ringPc' \in [Procs -> RingStages] /\ ringPc'[p] = "locking"
      /\ \A q \in Procs : q # p => ringPc'[q] = ringPc[q]
  BY <1>1, StagesOfTheRing DEF RingTypes, RingStages
<1>3. <<>> \in Seq(Ring!Rows) /\ Absent # <<>>
  BY RowsOfLists DEF RingBounds
<1>4. RingTypes'
  BY <1>1, <1>2, <1>3 DEF RingTypes, RingStages
<1>5. OneFlushes' /\ ListIsThere' /\ RowsAreHeld'
  BY <1>1, <1>2, <1>3 DEF OneFlushes, ListIsThere, RowsAreHeld, Ring!Locked
<1>6. ~ringReplaced' => ~ringReplaced /\ ringFile = Absent /\ Ring!Content' = Ring!Content
  BY <1>1, <1>3 DEF Ring!Content
<1>7. MergesAreCurrent' /\ FileIsARing'
  BY <1>1, <1>2, <1>6 DEF MergesAreCurrent, FileIsARing
<1>8. RowsAreKept'
  BY <1>1, <1>2, RowsStay
<1> QED
  BY <1>4, <1>5, <1>7, <1>8

\* A flush takes the lock when it is free, or was left behind.
LEMMA AcquiringKeeps ==
  ASSUME RingBounds, RingInv, NEW p \in Procs, Ring!Acquire(p)
  PROVE  RingInv'
<1> USE DEF RingInv
<1>1. /\ ringPc[p] = "locking" /\ ringLock \in {NoOp, Ghost} /\ ringLock' = p
      /\ ringPc' = [ringPc EXCEPT ![p] = "reading"]
      /\ UNCHANGED <<ringFile, ringTmp, entries, pending, timer, failing, captures, batch,
                     ringBuf, life, flushed, ringReplaced, now, faults, ends>>
  BY DEF Ring!Acquire, Ring!Goto, Ring!memory, Ring!history, Ring!clock
<1>2. /\ ringPc' \in [Procs -> RingStages] /\ ringPc'[p] = "reading"
      /\ \A q \in Procs : q # p => ringPc'[q] = ringPc[q]
  BY <1>1, StagesOfTheRing DEF RingTypes, RingStages
<1>3. RingTypes'
  BY <1>1, <1>2 DEF RingTypes, RingStages
<1>4. \A q \in Procs : ringLock # q
  BY <1>1 DEF RingBounds
<1>5. OneFlushes' /\ ListIsThere' /\ RowsAreHeld'
  BY <1>1, <1>2, <1>4 DEF OneFlushes, ListIsThere, RowsAreHeld
<1>6. Ring!Content' = Ring!Content
  BY <1>1 DEF Ring!Content
<1>7. MergesAreCurrent' /\ FileIsARing'
  BY <1>1, <1>2, <1>6 DEF MergesAreCurrent, FileIsARing
<1>8. RowsAreKept'
  BY <1>1, <1>2, RowsStay
<1> QED
  BY <1>3, <1>5, <1>7, <1>8

\* Under the lock the batch is merged into what the file holds.
LEMMA RingReadsKeep ==
  ASSUME RingBounds, RingInv, NEW p \in Procs, Ring!Read(p)
  PROVE  RingInv'
<1> USE DEF RingInv
<1>1. /\ ringPc[p] = "reading" /\ ringPc' = [ringPc EXCEPT ![p] = "writing"]
      /\ ringBuf' = [ringBuf EXCEPT ![p] = Ring!Merged(Ring!Content, batch[p])]
      /\ UNCHANGED <<ringFile, ringTmp, ringLock, entries, pending, timer, failing, captures,
                     batch, life, flushed, ringReplaced, now, faults, ends>>
  BY DEF Ring!Read, Ring!Goto, Ring!disk, Ring!memory, Ring!history, Ring!clock
<1>2. /\ ringPc' \in [Procs -> RingStages] /\ ringPc'[p] = "writing"
      /\ \A q \in Procs : q # p => ringPc'[q] = ringPc[q]
  BY <1>1, StagesOfTheRing DEF RingTypes, RingStages
<1>3. Ring!Merged(Ring!Content, batch[p]) \in Seq(Ring!Rows)
  BY ContentOfTheRing, MergesAreRings DEF RingTypes
<1>4. RingTypes'
  BY <1>1, <1>2, <1>3 DEF RingTypes, RingStages
<1>5. OneFlushes' /\ ListIsThere' /\ RowsAreHeld'
  BY <1>1, <1>2 DEF OneFlushes, ListIsThere, RowsAreHeld, Ring!Locked
<1>6. Ring!Content' = Ring!Content
  BY <1>1 DEF Ring!Content
<1>7. \A q \in Procs :
        ringBuf'[q] = IF q = p THEN Ring!Merged(Ring!Content, batch[p]) ELSE ringBuf[q]
  BY <1>1 DEF RingTypes
<1>8. MergesAreCurrent' /\ FileIsARing'
  BY <1>1, <1>2, <1>6, <1>7 DEF MergesAreCurrent, FileIsARing
<1>9. RowsAreKept'
  BY <1>1, <1>2, RowsStay
<1> QED
  BY <1>4, <1>5, <1>8, <1>9

\* A list that cannot be read is replaced by one of the batch alone, which is noted.
LEMMA RingReadsMayFail ==
  ASSUME RingBounds, RingInv, NEW p \in Procs, Ring!ReadFails(p)
  PROVE  RingInv'
<1> USE DEF RingInv
<1>1. /\ ringPc[p] = "reading" /\ ringPc' = [ringPc EXCEPT ![p] = "writing"]
      /\ ringBuf' = [ringBuf EXCEPT ![p] = Ring!Merged(<<>>, batch[p])]
      /\ ringReplaced' = TRUE /\ faults < MaxFaults /\ faults' = faults + 1
      /\ UNCHANGED <<ringFile, ringTmp, ringLock, entries, pending, timer, failing, captures,
                     batch, life, flushed, now, ends>>
  BY DEF Ring!ReadFails, Ring!Goto, Ring!disk, Ring!memory
<1>2. /\ ringPc' \in [Procs -> RingStages] /\ ringPc'[p] = "writing"
      /\ \A q \in Procs : q # p => ringPc'[q] = ringPc[q]
  BY <1>1, StagesOfTheRing DEF RingTypes, RingStages
<1>3. Ring!Merged(<<>>, batch[p]) \in Seq(Ring!Rows)
  BY RowsOfLists, MergesAreRings DEF RingTypes
<1>4. RingTypes'
  BY <1>1, <1>2, <1>3 DEF RingTypes, RingStages, RingBounds
<1>5. OneFlushes' /\ ListIsThere' /\ RowsAreHeld'
  BY <1>1, <1>2 DEF OneFlushes, ListIsThere, RowsAreHeld, Ring!Locked
<1>6. \A q \in Procs : q # p => ringBuf'[q] = ringBuf[q]
  BY <1>1 DEF RingTypes
<1>7. MergesAreCurrent' /\ FileIsARing'
  BY <1>1, <1>2, <1>6 DEF MergesAreCurrent, FileIsARing
<1>8. RowsAreKept'
  BY <1>1, <1>2, RowsStay
<1> QED
  BY <1>4, <1>5, <1>7, <1>8

\* The list is written aside, where only the holder of the lock writes.
LEMMA RingWritesKeep ==
  ASSUME RingBounds, RingInv, NEW p \in Procs, life[p] # "down", Ring!WriteAside(p)
  PROVE  RingInv'
<1> USE DEF RingInv
<1>1. /\ ringPc[p] = "writing" /\ ringPc' = [ringPc EXCEPT ![p] = "renaming"]
      /\ ringTmp' = ringBuf[p]
      /\ UNCHANGED <<ringFile, ringLock, entries, pending, timer, failing, captures, batch,
                     ringBuf, life, flushed, ringReplaced, now, faults, ends>>
  BY DEF Ring!WriteAside, Ring!Goto, Ring!memory, Ring!history, Ring!clock
<1>2. /\ ringPc' \in [Procs -> RingStages] /\ ringPc'[p] = "renaming"
      /\ \A q \in Procs : q # p => ringPc'[q] = ringPc[q]
  BY <1>1, StagesOfTheRing DEF RingTypes, RingStages
<1>3. RingTypes'
  BY <1>1, <1>2 DEF RingTypes, RingStages
<1>4. OneFlushes' /\ ListIsThere' /\ RowsAreHeld'
  BY <1>1, <1>2 DEF OneFlushes, ListIsThere, RowsAreHeld, Ring!Locked
<1>5. Ring!Content' = Ring!Content
  BY <1>1 DEF Ring!Content
<1>6. \A q \in Procs : q # p /\ life[q] # "down" => ringPc[q] \notin Ring!Locked
  BY <1>1 DEF OneFlushes, Ring!Locked
<1>7. MergesAreCurrent' /\ FileIsARing'
  BY <1>1, <1>2, <1>5, <1>6 DEF MergesAreCurrent, FileIsARing, Ring!Locked
<1>8. RowsAreKept'
  BY <1>1, <1>2, RowsStay
<1> QED
  BY <1>3, <1>4, <1>7, <1>8

\* Renamed into place, the list is a ring of what was flushed before and of the batch.
LEMMA PlacedIsARing ==
  ASSUME RingBounds, RingInv, NEW p \in Procs, life[p] # "down", Ring!Place(p),
         ringReplaced' = ringReplaced
  PROVE  /\ FileIsARing'
         /\ ringFile' \in Seq(Ring!Rows) /\ ringFile' # Absent /\ flushed' \subseteq Ring!Rows
<1> USE DEF RingInv
<1>1. /\ ringPc[p] = "renaming" /\ ringFile' = ringTmp
      /\ flushed' = flushed \cup Ring!ToSet(batch[p])
  BY DEF Ring!Place
<1>2. ringTmp = ringBuf[p] /\ ringTmp \in Seq(Ring!Rows) /\ ringTmp # Absent
  BY <1>1 DEF MergesAreCurrent, RingTypes, RingBounds
<1>3. Ring!ToSet(batch[p]) \subseteq Ring!Rows /\ flushed' \subseteq Ring!Rows
  <2>1. batch[p] \in Seq(Ring!Rows)
    BY DEF RingTypes
  <2> QED
    BY <1>1, <2>1, RowsAreOrdered DEF RingTypes
<1>4. FileIsARing'
  <2> SUFFICES ASSUME ~ringReplaced PROVE FileIsARing'
    BY DEF FileIsARing
  <2>1. Ring!Content' = Ring!Merged(Ring!Content, batch[p])
    BY <1>1, <1>2 DEF MergesAreCurrent, Ring!Content
  <2>2. RingOf(Ring!Content, flushed) /\ flushed \subseteq Ring!Rows
    BY DEF FileIsARing, RingTypes
  <2>3. Ring!Content \in Seq(Ring!Rows) /\ batch[p] \in Seq(Ring!Rows)
    BY ContentOfTheRing DEF RingTypes
  <2>4. RingOf(Ring!Merged(Ring!Content, batch[p]), flushed \cup Ring!ToSet(batch[p]))
    BY <2>2, <2>3, MergesAreRings
  <2> QED
    BY <1>1, <2>1, <2>4 DEF FileIsARing
<1> QED
  BY <1>1, <1>2, <1>3, <1>4

\* The rename takes a batch out of a process's hands and puts it in the file.
LEMMA RingRenamesKeep ==
  ASSUME RingBounds, RingInv, NEW p \in Procs, life[p] # "down", Ring!Rename(p)
  PROVE  RingInv'
<1> USE DEF RingInv
<1>1. /\ ringPc[p] = "renaming" /\ ringPc' = [ringPc EXCEPT ![p] = "releasing"]
      /\ Ring!Place(p) /\ ringTmp' = Absent
      /\ flushed' = flushed \cup Ring!ToSet(batch[p]) /\ batch' = [batch EXCEPT ![p] = <<>>]
      /\ UNCHANGED <<ringLock, entries, pending, timer, failing, captures, ringBuf, life,
                     ringReplaced, now, faults, ends>>
  BY DEF Ring!Rename, Ring!Place, Ring!Goto, Ring!memory, Ring!clock
<1>2. /\ ringPc' \in [Procs -> RingStages] /\ ringPc'[p] = "releasing"
      /\ \A q \in Procs : q # p => ringPc'[q] = ringPc[q] /\ batch'[q] = batch[q]
      /\ batch'[p] = <<>>
  BY <1>1, StagesOfTheRing DEF RingTypes, RingStages
<1>3. /\ FileIsARing'
      /\ ringFile' \in Seq(Ring!Rows) /\ ringFile' # Absent /\ flushed' \subseteq Ring!Rows
  BY <1>1, PlacedIsARing
<1>4. <<>> \in Seq(Ring!Rows)
  BY RowsOfLists
<1>5. RingTypes'
  BY <1>1, <1>2, <1>3, <1>4 DEF RingTypes, RingStages
<1>6. OneFlushes' /\ ListIsThere' /\ RowsAreHeld'
  BY <1>1, <1>2, <1>3 DEF OneFlushes, ListIsThere, RowsAreHeld, Ring!Locked
<1>7. \A q \in Procs : q # p /\ life[q] # "down" => ringPc[q] \notin Ring!Locked
  BY <1>1 DEF OneFlushes, Ring!Locked
<1>8. MergesAreCurrent'
  BY <1>1, <1>2, <1>7 DEF MergesAreCurrent, Ring!Locked
<1>9. RowsAreKept'
  <2> SUFFICES ASSUME NEW q \in Procs, life'[q] = "up", NEW f \in captures'[q]
               PROVE  \/ f \in flushed'
                      \/ f \in Ring!ToSet(batch'[q])
                      \/ f \in Ring!ToSet(pending'[q]) /\ (ringPc'[q] = "idle" => timer'[q])
    BY DEF RowsAreKept, Ring!ToSet
  <2>1. \/ f \in flushed
        \/ f \in Ring!ToSet(batch[q])
        \/ f \in Ring!ToSet(pending[q]) /\ (ringPc[q] = "idle" => timer[q])
    BY <1>1 DEF RowsAreKept
  <2> QED
    BY <1>1, <1>2, <2>1
<1> QED
  BY <1>3, <1>5, <1>6, <1>8, <1>9

\* With a lock that cannot be removed, the batch is in the file and pending again.
LEMMA RingReleasesMayFail ==
  ASSUME RingBounds, RingInv, NEW p \in Procs, life[p] # "down", Ring!ReleaseFails(p)
  PROVE  RingInv'
<1> USE DEF RingInv
<1>1. /\ ringPc[p] = "renaming" /\ Ring!Place(p) /\ ringTmp' = Absent
      /\ flushed' = flushed \cup Ring!ToSet(batch[p])
      /\ ringLock' = Ring!LeftBehind(p) /\ ringBuf' = [ringBuf EXCEPT ![p] = <<>>]
      /\ pending' = [pending EXCEPT ![p] = batch[p] \o @]
      /\ failing' = [failing EXCEPT ![p] = TRUE] /\ timer' = [timer EXCEPT ![p] = TRUE]
      /\ batch' = [batch EXCEPT ![p] = <<>>] /\ ringPc' = [ringPc EXCEPT ![p] = "idle"]
      /\ Ring!Settled(p) /\ faults < MaxFaults /\ faults' = faults + 1
      /\ UNCHANGED <<entries, captures, ringReplaced, now, ends>>
  BY DEF Ring!ReleaseFails, Ring!Place, Ring!PutBack, Ring!Goto
<1>2. /\ batch[p] \o pending[p] \in Seq(Ring!Rows)
      /\ Ring!ToSet(batch[p] \o pending[p]) = Ring!ToSet(batch[p]) \cup Ring!ToSet(pending[p])
      /\ <<>> \in Seq(Ring!Rows) /\ Ring!ToSet(<<>>) = {}
  BY RowsOfLists DEF RingTypes
<1>3. /\ \A q \in Procs : q # p =>
           /\ ringPc'[q] = ringPc[q] /\ batch'[q] = batch[q] /\ pending'[q] = pending[q]
           /\ timer'[q] = timer[q] /\ ringBuf'[q] = ringBuf[q]
      /\ ringPc'[p] = "idle" /\ batch'[p] = <<>> /\ timer'[p] = TRUE
      /\ pending'[p] = batch[p] \o pending[p]
  BY <1>1 DEF RingTypes
<1>4. /\ life' \in [Procs -> {"up", "leaving", "down"}]
      /\ \A q \in Procs : q # p => life'[q] = life[q]
      /\ life'[p] = "up" => life[p] = "up"
  BY <1>1, SettledLives
<1>5. /\ FileIsARing'
      /\ ringFile' \in Seq(Ring!Rows) /\ ringFile' # Absent /\ flushed' \subseteq Ring!Rows
  BY <1>1, PlacedIsARing
<1>6. RingTypes'
  <2>1. ringLock' \in Procs \cup {NoOp, Ghost} /\ faults' \in 0..MaxFaults
    BY <1>1 DEF RingTypes, RingBounds, Ring!LeftBehind
  <2>2. /\ pending' \in [Procs -> Seq(Ring!Rows)] /\ batch' \in [Procs -> Seq(Ring!Rows)]
        /\ timer' \in [Procs -> BOOLEAN] /\ failing' \in [Procs -> BOOLEAN]
        /\ ringPc' \in [Procs -> {"idle"} \cup Ring!Underway]
        /\ ringBuf' \in [Procs -> Seq(Ring!Rows)]
    BY <1>1, <1>2 DEF RingTypes
  <2> QED
    BY <1>1, <1>4, <1>5, <2>1, <2>2 DEF RingTypes
<1>7. \A q \in Procs : q # p /\ life[q] # "down" => ringPc[q] \notin Ring!Locked
  BY <1>1 DEF OneFlushes, Ring!Locked
<1>8. OneFlushes' /\ MergesAreCurrent'
  BY <1>3, <1>4, <1>7 DEF OneFlushes, MergesAreCurrent, Ring!Locked
<1>9. ListIsThere' /\ RowsAreHeld'
  BY <1>3, <1>5 DEF ListIsThere, RowsAreHeld
<1>10. RowsAreKept'
  <2> SUFFICES ASSUME NEW q \in Procs, life'[q] = "up", NEW f \in captures'[q]
               PROVE  \/ f \in flushed'
                      \/ f \in Ring!ToSet(batch'[q])
                      \/ f \in Ring!ToSet(pending'[q]) /\ (ringPc'[q] = "idle" => timer'[q])
    BY DEF RowsAreKept, Ring!ToSet
  <2>1. \/ f \in flushed
        \/ f \in Ring!ToSet(batch[q])
        \/ f \in Ring!ToSet(pending[q]) /\ (ringPc[q] = "idle" => timer[q])
    BY <1>1, <1>4 DEF RowsAreKept
  <2> QED
    BY <1>1, <1>2, <1>3, <2>1
<1> QED
  BY <1>5, <1>6, <1>8, <1>9, <1>10

\* A flush ends with nothing left in its hands: its rows are in the file.
LEMMA ReleasingKeeps ==
  ASSUME RingBounds, RingInv, NEW p \in Procs, life[p] # "down", Ring!Release(p)
  PROVE  RingInv'
<1> USE DEF RingInv
<1>1. /\ ringPc[p] = "releasing" /\ ringPc' = [ringPc EXCEPT ![p] = "idle"]
      /\ ringLock' = Ring!Unlocked(p) /\ failing' = [failing EXCEPT ![p] = FALSE]
      /\ ringBuf' = [ringBuf EXCEPT ![p] = <<>>] /\ Ring!Settled(p)
      /\ UNCHANGED <<ringFile, ringTmp, entries, pending, timer, captures, batch, flushed,
                     ringReplaced, now, faults, ends>>
  BY DEF Ring!Release, Ring!Goto, Ring!history, Ring!clock
<1>2. /\ ringPc' \in [Procs -> RingStages] /\ ringPc'[p] = "idle"
      /\ \A q \in Procs : q # p => ringPc'[q] = ringPc[q] /\ ringBuf'[q] = ringBuf[q]
  BY <1>1, StagesOfTheRing DEF RingTypes, RingStages
<1>3. /\ life' \in [Procs -> {"up", "leaving", "down"}]
      /\ \A q \in Procs : q # p => life'[q] = life[q]
      /\ life'[p] = "up" => life[p] = "up"
  BY <1>1, SettledLives
<1>4. RingTypes'
  <2>1. ringLock' \in Procs \cup {NoOp, Ghost}
    BY <1>1 DEF RingTypes, Ring!Unlocked
  <2>2. <<>> \in Seq(Ring!Rows)
    BY RowsOfLists
  <2> QED
    BY <1>1, <1>2, <1>3, <2>1, <2>2 DEF RingTypes, RingStages
<1>5. OneFlushes' /\ ListIsThere' /\ RowsAreHeld'
  BY <1>1, <1>2, <1>3 DEF OneFlushes, ListIsThere, RowsAreHeld, Ring!Unlocked, Ring!Locked
<1>6. Ring!Content' = Ring!Content
  BY <1>1 DEF Ring!Content
<1>7. MergesAreCurrent' /\ FileIsARing'
  BY <1>1, <1>2, <1>3, <1>6 DEF MergesAreCurrent, FileIsARing
<1>8. RowsAreKept'
  <2>1. Ring!ToSet(pending[p]) = {} /\ Ring!ToSet(batch[p]) = {}
    BY <1>1, RowsOfLists DEF RowsAreHeld
  <2> QED
    BY <1>1, <1>2, <1>3, <2>1 DEF RowsAreKept, Ring!ToSet
<1> QED
  BY <1>4, <1>5, <1>7, <1>8

\* A process that is killed leaves its lock to whoever finds it stale.
LEMMA DyingKeeps ==
  ASSUME RingBounds, RingInv, NEW p \in Procs, Ring!Die(p)
  PROVE  RingInv'
<1> USE DEF RingInv
<1>1. /\ ends < MaxEnds /\ ends' = ends + 1 /\ life' = [life EXCEPT ![p] = "down"]
      /\ ringLock' = (IF ringLock = p THEN Ghost ELSE ringLock)
      /\ UNCHANGED <<ringFile, ringTmp, entries, pending, timer, failing, captures, ringPc,
                     batch, ringBuf, flushed, ringReplaced, now, faults>>
  BY Zenon DEF Ring!Die, Ring!LeftBehind, Ring!memory, Ring!flushing, Ring!history
<1>2. \A q \in Procs : life'[q] = IF q = p THEN "down" ELSE life[q]
  BY <1>1 DEF RingTypes
<1>3. RingTypes'
  <2>1. ends' \in 0..MaxEnds /\ ringLock' \in Procs \cup {NoOp, Ghost}
    BY <1>1 DEF RingTypes, RingBounds
  <2> QED
    BY <1>1, <2>1 DEF RingTypes
<1>4. OneFlushes' /\ ListIsThere' /\ RowsAreHeld'
  BY <1>1, <1>2 DEF OneFlushes, ListIsThere, RowsAreHeld
<1>5. Ring!Content' = Ring!Content
  BY <1>1 DEF Ring!Content
<1>6. MergesAreCurrent' /\ FileIsARing'
  BY <1>1, <1>2, <1>5 DEF MergesAreCurrent, FileIsARing
<1>7. RowsAreKept'
  BY <1>1, <1>2 DEF RowsAreKept, Ring!ToSet
<1> QED
  BY <1>3, <1>4, <1>6, <1>7

\* A process that is started again has captured nothing yet.
LEMMA RestartingKeeps ==
  ASSUME RingBounds, RingInv, NEW p \in Procs, Ring!Restart(p)
  PROVE  RingInv'
<1> USE DEF RingInv
<1>1. /\ life[p] = "down" /\ life' = [life EXCEPT ![p] = "up"]
      /\ entries' = [entries EXCEPT ![p] = Ring!NewestOf(Ring!Content, RingMax)]
      /\ pending' = [pending EXCEPT ![p] = <<>>] /\ captures' = [captures EXCEPT ![p] = {}]
      /\ timer' = [timer EXCEPT ![p] = FALSE] /\ failing' = [failing EXCEPT ![p] = FALSE]
      /\ batch' = [batch EXCEPT ![p] = <<>>] /\ ringBuf' = [ringBuf EXCEPT ![p] = <<>>]
      /\ ringPc' = [ringPc EXCEPT ![p] = "idle"]
      /\ UNCHANGED <<ringFile, ringTmp, ringLock, flushed, ringReplaced, now, faults, ends>>
  BY DEF Ring!Restart, Ring!Goto, Ring!disk, Ring!history, Ring!clock
<1>2. /\ \A q \in Procs : q # p =>
           /\ ringPc'[q] = ringPc[q] /\ batch'[q] = batch[q] /\ pending'[q] = pending[q]
           /\ timer'[q] = timer[q] /\ life'[q] = life[q] /\ captures'[q] = captures[q]
           /\ ringBuf'[q] = ringBuf[q]
      /\ ringPc'[p] = "idle" /\ batch'[p] = <<>> /\ pending'[p] = <<>> /\ captures'[p] = {}
  BY <1>1 DEF RingTypes
<1>3. RingTypes'
  <2>1. Ring!Content \in Seq(Ring!Rows) /\ RingMax \in Nat
    BY ContentOfTheRing DEF RingBounds
  <2>2. Ring!NewestOf(Ring!Content, RingMax) \in Seq(Ring!Rows)
    BY <2>1, NewestAreLast
  <2>3. <<>> \in Seq(Ring!Rows)
    BY RowsOfLists
  <2> QED
    BY <1>1, <2>2, <2>3 DEF RingTypes
<1>4. OneFlushes' /\ ListIsThere' /\ RowsAreHeld'
  BY <1>1, <1>2 DEF OneFlushes, ListIsThere, RowsAreHeld, Ring!Locked
<1>5. Ring!Content' = Ring!Content
  BY <1>1 DEF Ring!Content
<1>6. MergesAreCurrent' /\ FileIsARing'
  BY <1>1, <1>2, <1>5 DEF MergesAreCurrent, FileIsARing
<1>7. RowsAreKept'
  BY <1>1, <1>2 DEF RowsAreKept, Ring!ToSet
<1> QED
  BY <1>3, <1>4, <1>6, <1>7

\* Every step of the processes keeps the invariant.
LEMMA RingInvStep ==
  ASSUME RingBounds, RingInv, [Ring!Next]_(Ring!vars)
  PROVE  RingInv'
<1>1. CASE UNCHANGED Ring!vars
  BY <1>1 DEF Ring!vars, RingInv, RingTypes, OneFlushes, ListIsThere, RowsAreHeld,
              MergesAreCurrent, FileIsARing, RowsAreKept, Ring!Content, Ring!ToSet
<1>2. CASE Ring!Tick
  <2>1. now' \in 1..LastTime
    BY <1>2 DEF Ring!Tick, RingInv, RingTypes, RingBounds
  <2>2. UNCHANGED <<ringFile, ringTmp, ringLock, entries, pending, timer, failing, captures,
                    ringPc, batch, ringBuf, life, flushed, ringReplaced, faults, ends>>
    BY <1>2 DEF Ring!Tick, Ring!disk, Ring!memory, Ring!flushing, Ring!history
  <2> QED
    BY <2>1, <2>2 DEF RingInv, RingTypes, OneFlushes, ListIsThere, RowsAreHeld,
                      MergesAreCurrent, FileIsARing, RowsAreKept, Ring!Content, Ring!ToSet
<1>3. ASSUME NEW p \in Procs, NEW e \in Ring!Rows, Ring!Capture(p, e) PROVE RingInv'
  BY <1>3, CapturingKeeps
<1>4. ASSUME NEW p \in Procs, Ring!TimerFires(p) \/ Ring!Exit(p) PROVE RingInv'
  BY <1>4, FlushingStarts
<1>5. ASSUME NEW p \in Procs, Ring!Die(p) PROVE RingInv'
  BY <1>5, DyingKeeps
<1>6. ASSUME NEW p \in Procs, Ring!Restart(p) PROVE RingInv'
  BY <1>6, RestartingKeeps
<1>7. ASSUME NEW p \in Procs, Ring!FlushStep(p) PROVE RingInv'
  <2>1. life[p] # "down"
    BY <1>7 DEF Ring!FlushStep
  <2>2. CASE Ring!Ensure(p)
    BY <2>2, EnsuringKeeps
  <2>3. CASE Ring!Create(p)
    BY <2>3, CreatingKeeps
  <2>4. CASE Ring!Acquire(p)
    BY <2>4, AcquiringKeeps
  <2>5. CASE Ring!Contended(p) \/ Ring!Refused(p)
    BY <2>1, <2>5, FailingKeeps
  <2>6. CASE Ring!Read(p)
    BY <2>6, RingReadsKeep
  <2>7. CASE Ring!WriteAside(p)
    BY <2>1, <2>7, RingWritesKeep
  <2>8. CASE Ring!Rename(p)
    BY <2>1, <2>8, RingRenamesKeep
  <2>9. CASE Ring!Release(p)
    BY <2>1, <2>9, ReleasingKeeps
  <2>10. CASE Ring!ReadFails(p)
    BY <2>10, RingReadsMayFail
  <2>11. CASE Ring!ReleaseFails(p)
    BY <2>1, <2>11, RingReleasesMayFail
  <2> QED
    BY <1>7, <2>2, <2>3, <2>4, <2>5, <2>6, <2>7, <2>8, <2>9, <2>10, <2>11 DEF Ring!FlushStep
<1> QED
  BY <1>1, <1>2, <1>3, <1>4, <1>5, <1>6, <1>7 DEF Ring!Next

\* The invariant of the recent requests.
LEMMA TheRingIsSafe ==
  ASSUME RingBounds PROVE Ring!Spec => []RingInv
<1>1. Ring!Init => RingInv
  BY RingInitInv
<1>2. RingInv /\ [Ring!Next]_(Ring!vars) => RingInv'
  BY RingInvStep
<1> QED
  BY <1>1, <1>2, PTL DEF Ring!Spec

\* The recent requests have their types.
THEOREM RingTypeCorrect ==
  ASSUME RingBounds PROVE Ring!Spec => []Ring!TypeOK
<1>1. RingInv => Ring!TypeOK
  BY RingTypesAreTypes DEF RingInv
<1> QED
  BY <1>1, TheRingIsSafe, PTL

\* However many processes flush, fail, die or start again, the file is a ring of the newest
\* rows that were flushed, unless it was created twice.
THEOREM TheRingKeepsTheNewest ==
  ASSUME RingBounds PROVE Ring!Spec => []Ring!FileKeepsTheNewest
<1>1. RingInv => Ring!FileKeepsTheNewest
  <2> SUFFICES ASSUME RingInv, ~ringReplaced
               PROVE  /\ Len(Ring!Content) <= RingMax /\ Ring!IsInjective(Ring!Content)
                      /\ Ring!ToSet(Ring!Content) \subseteq flushed
                      /\ \A i, j \in DOMAIN Ring!Content :
                           i < j => Ring!Content[i].at <= Ring!Content[j].at
                      /\ \A e \in flushed :
                           e \in Ring!ToSet(Ring!Content) \/ Ring!Outranked(e)
    BY Zenon DEF Ring!FileKeepsTheNewest
  <2> DEFINE c == Ring!Content
  <2>1. DOMAIN c = 1..Len(c)
    BY ContentOfTheRing, LenProperties DEF RingInv
  <2>2. RingOf(c, flushed)
    BY DEF RingInv, FileIsARing
  <2>3. \A e : Ring!Outranked(e) <=> Len(c) = RingMax /\ \A i \in DOMAIN c : c[i].at >= e.at
    BY Zenon DEF Ring!Outranked
  <2> HIDE DEF c
  <2>4. \A e : e \in Ring!ToSet(c) <=> \E i \in DOMAIN c : c[i] = e
    BY DEF Ring!ToSet
  <2>5. Ring!IsInjective(c)
    BY <2>1, <2>2 DEF RingOf, Ring!IsInjective
  <2>6. Len(c) <= RingMax /\ Ring!ToSet(c) \subseteq flushed
    BY <2>1, <2>2, <2>4 DEF RingOf
  <2>7. \A i, j \in DOMAIN c : i < j => c[i].at <= c[j].at
    BY <2>1, <2>2 DEF RingOf
  <2>8. \A e \in flushed : e \in Ring!ToSet(c) \/ Ring!Outranked(e)
    BY <2>1, <2>2, <2>3, <2>4 DEF RingOf
  <2> QED
    BY <2>5, <2>6, <2>7, <2>8 DEF c
<1> QED
  BY <1>1, TheRingIsSafe, PTL

\* A captured row of a process that runs is flushed, or in its hands with a flush to come.
THEOREM CapturedRowsSurvive ==
  ASSUME RingBounds PROVE Ring!Spec => []Ring!CapturesSurvive
<1>1. RingInv => Ring!CapturesSurvive
  BY Zenon DEF RingInv, RowsAreKept, Ring!CapturesSurvive
<1> QED
  BY <1>1, TheRingIsSafe, PTL

-----------------------------------------------------------------------------
(* The files of one machine together.                                       *)

FileBounds == KeyNames /\ ToggleBounds /\ RingBounds
fileVars == <<vars, ringVars, visibilityVars, keyVars, part>>

\* The account document moves by its own steps or keeps still.
LEMMA AccountsMoveByThemselves == AllSpec => Spec
<1>1. AllInit => Init
  BY DEF AllInit
<1>2. [AllNext]_fileVars => [Next]_vars
  BY Zenon DEF AllNext, fileVars
<1> QED
  BY <1>1, <1>2, PTL DEF AllSpec, Spec, fileVars

\* So do the recent requests.
LEMMA TheRingMovesByItself == AllSpec => Ring!Spec
<1>1. AllInit => Ring!Init
  BY DEF AllInit
<1>2. [AllNext]_fileVars => [Ring!Next]_(Ring!vars)
  BY Zenon DEF AllNext, fileVars, ringVars, Ring!vars
<1> QED
  BY <1>1, <1>2, PTL DEF AllSpec, Ring!Spec, fileVars

\* So do the hidden models.
LEMMA TogglesMoveByThemselves == AllSpec => Visibility!Spec
<1>1. AllInit => Visibility!Init
  BY DEF AllInit
<1>2. [AllNext]_fileVars => [Visibility!Next]_(Visibility!vars)
  BY Zenon DEF AllNext, fileVars, visibilityVars, Visibility!vars
<1> QED
  BY <1>1, <1>2, PTL DEF AllSpec, Visibility!Spec, fileVars

\* So do the credentials.
LEMMA CredentialsMoveByThemselves == AllSpec => Credentials!Spec
<1>1. AllInit => Credentials!Init
  BY DEF AllInit
<1>2. [AllNext]_fileVars => [Credentials!Next]_(Credentials!vars)
  BY Zenon DEF AllNext, fileVars, keyVars, Credentials!vars, Credentials!ghostVars
<1> QED
  BY <1>1, <1>2, PTL DEF AllSpec, Credentials!Spec, fileVars

\* Every variable of every file's processes keeps its type.
THEOREM FileTypesAreCorrect ==
  ASSUME FileBounds
  PROVE  AllSpec => []AllTypesOK
<1>1. AllSpec => []TypeOK
  BY AccountsMoveByThemselves, TypeCorrect, PTL
<1>2. AllSpec => []Ring!TypeOK
  BY TheRingMovesByItself, RingTypeCorrect, PTL DEF FileBounds
<1>3. AllSpec => []Visibility!TypeOK
  BY TogglesMoveByThemselves, VisibilityTypeCorrect, PTL DEF FileBounds
<1>4. AllSpec => []Credentials!TypeOK
  BY CredentialsMoveByThemselves, CredentialsTypeCorrect, PTL DEF FileBounds
<1>5. TypeOK /\ Ring!TypeOK /\ Visibility!TypeOK /\ Credentials!TypeOK => AllTypesOK
  BY DEF AllTypesOK
<1> QED
  BY <1>1, <1>2, <1>3, <1>4, <1>5, PTL

\* The list of recent requests is a ring of the newest rows of all the processes that ever
\* flushed into it, whatever failed or was killed in between, unless two of them created it.
THEOREM TheFileKeepsTheNewest ==
  ASSUME FileBounds
  PROVE  AllSpec => []FileKeepsTheNewest
BY TheRingMovesByItself, TheRingKeepsTheNewest, PTL DEF FileBounds, FileKeepsTheNewest

\* A flush that fails, or another process's, loses no captured row of a process that runs.
THEOREM CapturesAreNotLost ==
  ASSUME FileBounds
  PROVE  AllSpec => []CapturesSurvive
BY TheRingMovesByItself, CapturedRowsSurvive, PTL DEF FileBounds, CapturesSurvive

\* However many instances toggle, one after the other and whatever copies they hold, the
\* settings file hides the models of all the toggles.
THEOREM TogglesAreNotLost ==
  ASSUME FileBounds
  PROVE  AllSpec => []NoToggleIsLost
BY TogglesMoveByThemselves, TogglesAreKept, PTL DEF FileBounds, NoToggleIsLost

\* Whoever asks for the hidden models is told what the file says at that moment.
THEOREM AnswersFollowTheSettings ==
  ASSUME FileBounds
  PROVE  AllSpec => AnswersFollowTheFile
BY TogglesMoveByThemselves, AnswersAreCurrent, PTL DEF FileBounds, AnswersFollowTheFile

\* Whatever layout the document had, whoever else wrote into it and wherever earlier starts
\* died, every process that runs has the key the accounts are stored under, until two starts
\* are making a key at the same time.
THEOREM AccountsAreReadable ==
  ASSUME FileBounds
  PROVE  AllSpec => []AccountsStayReadable
BY CredentialsMoveByThemselves, OneKeyForAll, PTL DEF FileBounds, AccountsStayReadable

\* No start of a process, the migration of an older layout included, loses a reference that
\* another service keeps in the document, unless another start or a change of the document
\* came between its reading and its rename.
THEOREM OtherReferencesSurvive ==
  ASSUME FileBounds
  PROVE  AllSpec => CredentialsSurvive
BY CredentialsMoveByThemselves, ReferencesSurvive, PTL DEF FileBounds, CredentialsSurvive
=============================================================================
