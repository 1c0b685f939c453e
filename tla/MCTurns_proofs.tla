---------------------------- MODULE MCTurns_proofs -----------------------------
(***************************************************************************)
(* Proofs about what a chat turn goes through beside the pool, for every   *)
(* value of the constants: the adapter's slots and session generations,    *)
(* the thinking budgets, the accounts tab, and the conversation's blocks   *)
(* and requests.                                                           *)
(***************************************************************************)
EXTENDS MCTurns, WellFoundedInduction, FiniteSetTheorems, SequenceTheorems, TLAPS

-----------------------------------------------------------------------------
(* The adapter.                                                             *)

\* There are finitely many turns, no account and no conversation is nowhere, and the bounds
\* are numbers.
AdapterBounds ==
  /\ IsFiniteSet(Turns) /\ Nowhere \notin Pool /\ Nowhere \notin Chats
  /\ SlotLife \in Nat /\ MaxGenerations \in Nat /\ MaxBumps \in Nat /\ LastTick \in Nat

Entry == [pair: Pairs, gen: Generations]
Stages == {"over", "asking", "reading", "sent", "reporting", "streaming"}

\* A turn has a slot from its first attempt to its end, and an account before that.
SlotsAreHeld ==
  \A t \in Turns :
    /\ holds[t] <=> pc[t] \in {"sent", "reporting", "streaming"}
    /\ pc[t] \in {"reading", "sent", "reporting", "streaming"} => acct[t] \in Pool
    /\ pc[t] \notin {"sent", "reporting", "streaming"} => ~resent[t]

\* The counter of an account is the number of its turns, or less where it was discarded
\* under them; a counter that was not is alive as long as it counts something.
SlotsAreCounted ==
  \A a \in Pool :
    /\ slots[a].count <= Cardinality(Holders(a))
    /\ a \notin leaked =>
         /\ slots[a].count = Cardinality(Holders(a))
         /\ Holders(a) # {} => Live(slots[a])

\* A turn reports when it fails, and is booked when it is over.
TurnIsBooked(t) ==
  /\ pc[t] \in {"asking", "reading", "sent", "streaming"} =>
       Len(reports[t]) = 0 /\ Len(records[t]) = 0
  /\ pc[t] = "reporting" => Len(reports[t]) = 1 /\ Len(records[t]) = 0
  /\ Len(reports[t]) <= 1 /\ Len(records[t]) <= 1
  /\ Len(records[t]) = 1 =>
       \/ records[t][1] = TRUE /\ Len(reports[t]) = 0
       \/ records[t][1] = FALSE /\ Len(reports[t]) = 1
TurnsAreBooked == \A t \in Turns : TurnIsBooked(t)

\* A pair is in the table once, and as long as it was never evicted its generation is above
\* that of every session that was found full, and none of its turns is ahead of it.
OnceEach(tb) == \A i, j \in 1..Len(tb) : tb[i].pair = tb[j].pair => i = j
GenerationsGrow ==
  /\ OnceEach(table)
  /\ \A s \in full : <<s[1], s[2]>> \notin evicted /\ s[3] < Current(table, <<s[1], s[2]>>)
  /\ \A t \in Turns :
       pc[t] = "sent" /\ chat[t] # Nowhere /\ PairOf(t) \notin evicted =>
         generation[t] <= Current(table, PairOf(t))

AdapterTypes ==
  /\ pc \in [Turns -> Stages]
  /\ chat \in [Turns -> Chats \cup {Nowhere}]
  /\ acct \in [Turns -> Pool \cup {Nowhere}]
  /\ generation \in [Turns -> Generations]
  /\ resent \in [Turns -> BOOLEAN] /\ holds \in [Turns -> BOOLEAN]
  /\ slots \in [Pool -> [count: 0..Cardinality(Turns), at: 0..LastTick]]
  /\ table \in Seq(Entry) /\ Len(table) <= MaxGenerations
  /\ full \subseteq Pool \X (Chats \cup {Nowhere}) \X Generations
  /\ reports \in [Turns -> Seq({"failed", "content"})]
  /\ records \in [Turns -> Seq(BOOLEAN)]
  /\ tick \in 0..LastTick /\ leaked \subseteq Pool /\ evicted \subseteq Pairs

AdapterInv ==
  AdapterTypes /\ SlotsAreHeld /\ SlotsAreCounted /\ TurnsAreBooked /\ GenerationsGrow

\* These types are TypeOK.
LEMMA AdapterTypesAreTypes == AdapterTypes <=> TypeOK
<1>1. {resent, holds} \subseteq [Turns -> BOOLEAN] <=>
        resent \in [Turns -> BOOLEAN] /\ holds \in [Turns -> BOOLEAN]
  OBVIOUS
<1> QED
  BY <1>1, Zenon DEF AdapterTypes, TypeOK, Entry, Stages

\* The turns of an account are finitely many, none more than there are turns.
LEMMA HoldersAreFinite ==
  ASSUME AdapterBounds, NEW a
  PROVE  /\ IsFiniteSet(Holders(a)) /\ Cardinality(Holders(a)) \in Nat
         /\ Cardinality(Turns) \in Nat /\ Cardinality(Holders(a)) <= Cardinality(Turns)
<1>1. Holders(a) \in SUBSET Turns /\ IsFiniteSet(Turns)
  BY DEF Holders, AdapterBounds
<1> QED
  BY <1>1, FS_Subset, FS_CardinalityType

\* What a counter says is no more than what it holds.
LEMMA CountsAreNumbers ==
  ASSUME AdapterBounds, AdapterTypes, NEW a \in Pool
  PROVE  /\ slots[a].count \in Nat /\ slots[a].at \in Nat /\ Count(a) \in Nat
         /\ Count(a) <= slots[a].count
         /\ Live(slots[a]) => Count(a) = slots[a].count
<1>1. Cardinality(Turns) \in Nat
  BY HoldersAreFinite
<1>2. slots[a] \in [count: 0..Cardinality(Turns), at: 0..LastTick]
  BY DEF AdapterTypes
<1> QED
  BY <1>1, <1>2 DEF Count, AdapterBounds

\* What the code counts follows from the invariant.
LEMMA CountsAreRight ==
  ASSUME AdapterBounds, AdapterInv, NEW a \in Pool
  PROVE  /\ Count(a) <= Cardinality(Holders(a))
         /\ a \notin leaked => Count(a) = Cardinality(Holders(a))
<1> DEFINE n == Cardinality(Holders(a))
<1>1. /\ slots[a].count \in Nat /\ Count(a) \in Nat /\ Count(a) <= slots[a].count
      /\ Live(slots[a]) => Count(a) = slots[a].count
  BY CountsAreNumbers DEF AdapterInv
<1>2. n \in Nat /\ slots[a].count <= n
  BY HoldersAreFinite DEF AdapterInv, SlotsAreCounted
<1>3. Holders(a) = {} => n = 0
  BY FS_EmptySet
<1>4. a \notin leaked => slots[a].count = n /\ (Holders(a) # {} => Live(slots[a]))
  BY DEF AdapterInv, SlotsAreCounted
<1> HIDE DEF n
<1>5. Count(a) <= n /\ (a \notin leaked => Count(a) = n)
  BY <1>1, <1>2, <1>3, <1>4
<1> QED
  BY <1>5 DEF n

\* Adding a turn to those of an account makes one more, and taking it away one less.
LEMMA HoldersChange ==
  ASSUME AdapterBounds, NEW a, NEW t \in Turns
  PROVE  /\ t \notin Holders(a) => Cardinality(Holders(a) \cup {t}) = Cardinality(Holders(a)) + 1
         /\ t \in Holders(a) => /\ Cardinality(Holders(a) \ {t}) = Cardinality(Holders(a)) - 1
                                /\ Cardinality(Holders(a)) \in Nat \ {0}
                                /\ Cardinality(Holders(a)) = 1 <=> Holders(a) = {t}
<1>1. IsFiniteSet(Holders(a)) /\ Cardinality(Holders(a)) \in Nat
  BY HoldersAreFinite
<1>2. t \notin Holders(a) => Cardinality(Holders(a) \cup {t}) = Cardinality(Holders(a)) + 1
  BY <1>1, FS_AddElement
<1>3. t \in Holders(a) => Cardinality(Holders(a) \ {t}) = Cardinality(Holders(a)) - 1
  BY <1>1, FS_RemoveElement
<1>4. Cardinality(Holders(a)) = 0 <=> Holders(a) = {}
  BY <1>1, FS_EmptySet
<1>5. IsFiniteSet(Holders(a) \ {t})
  BY <1>1, FS_RemoveElement
<1>6. Cardinality(Holders(a) \ {t}) = 0 <=> Holders(a) \ {t} = {}
  BY <1>5, FS_EmptySet
<1> QED
  BY <1>1, <1>2, <1>3, <1>4, <1>6

-----------------------------------------------------------------------------
(* The table of session generations.                                        *)

\* The generation of a pair is that of its entry, or 0.
LEMMA CurrentIsTheEntry ==
  ASSUME NEW tb \in Seq(Entry), NEW k
  PROVE  /\ \A i \in 1..Len(tb) : OnceEach(tb) /\ tb[i].pair = k => Current(tb, k) = tb[i].gen
         /\ (\A i \in 1..Len(tb) : tb[i].pair # k) => Current(tb, k) = 0
         /\ AdapterBounds => Current(tb, k) \in Generations
<1> DEFINE here == {i \in DOMAIN tb : tb[i].pair = k}
<1>1. DOMAIN tb = 1..Len(tb) /\ \A i \in 1..Len(tb) : tb[i] \in Entry
  BY LenProperties, ElementOfSeq
<1>2. Current(tb, k) = IF here = {} THEN 0 ELSE tb[CHOOSE i \in here : TRUE].gen
  BY DEF Current
<1>3. CASE here = {}
  BY <1>1, <1>2, <1>3 DEF Generations, AdapterBounds
<1>4. CASE here # {}
  <2> DEFINE c == CHOOSE i \in here : TRUE
  <2>1. c \in here
    BY <1>4
  <2> HIDE DEF c
  <2>2. Current(tb, k) = tb[c].gen
    BY <1>2, <1>4 DEF c
  <2>3. c \in 1..Len(tb) /\ tb[c].pair = k /\ tb[c] \in Entry
    BY <1>1, <2>1
  <2> QED
    BY <1>1, <2>2, <2>3 DEF OnceEach, Entry
<1> QED
  BY <1>3, <1>4

\* Taking out a pair leaves all other entries, in their order.
LEMMA OthersStay ==
  ASSUME AdapterTypes, OnceEach(table), NEW k
  PROVE  LET w == Without(k)
         IN  /\ w \in Seq(Entry) /\ Len(w) <= Len(table) /\ OnceEach(w)
             /\ \A i \in 1..Len(w) : w[i].pair # k /\ \E j \in 1..Len(table) : w[i] = table[j]
             /\ \A j \in 1..Len(table) :
                  table[j].pair # k => \E i \in 1..Len(w) : w[i] = table[j]
<1>1. /\ table \in Seq(Entry) /\ Len(table) \in Nat /\ DOMAIN table = 1..Len(table)
      /\ \A i \in 1..Len(table) : table[i] \in Entry
  BY LenProperties, ElementOfSeq DEF AdapterTypes
<1>2. CASE Bumped(k) = {}
  <2>1. Without(k) = table /\ \A i \in 1..Len(table) : table[i].pair # k
    BY <1>1, <1>2 DEF Without, Bumped
  <2> QED
    BY <1>1, <2>1
<1>3. CASE Bumped(k) # {}
  <2> DEFINE p == CHOOSE i \in Bumped(k) : TRUE
  <2>1. p \in 1..Len(table) /\ table[p].pair = k
    BY <1>1, <1>3 DEF Bumped
  <2>2. Without(k) = RemoveAt(table, p)
    BY <1>3 DEF Without
  <2> HIDE DEF p
  <2> DEFINE l == SubSeq(table, 1, p - 1)
             r == SubSeq(table, p + 1, Len(table))
             w == l \o r
  <2>3. /\ l \in Seq(Entry) /\ Len(l) = p - 1
        /\ \A i \in 1..p - 1 : l[i] = table[i]
    <3>1. 1 \in Int /\ p - 1 \in Int /\ \A i \in 1..p - 1 : table[i] \in Entry
      BY <1>1, <2>1
    <3>2. /\ l \in Seq(Entry) /\ Len(l) = IF 1 <= p - 1 THEN p - 1 - 1 + 1 ELSE 0
          /\ \A i \in 1..p - 1 - 1 + 1 : l[i] = table[1 + i - 1]
      BY <3>1, SubSeqProperties
    <3> QED
      BY <1>1, <2>1, <3>2
  <2>4. /\ r \in Seq(Entry) /\ Len(r) = Len(table) - p
        /\ \A i \in 1..Len(table) - p : r[i] = table[p + i]
    <3>1. p + 1 \in Int /\ Len(table) \in Int /\ \A i \in p + 1..Len(table) : table[i] \in Entry
      BY <1>1, <2>1
    <3>2. /\ r \in Seq(Entry)
          /\ Len(r) = IF p + 1 <= Len(table) THEN Len(table) - (p + 1) + 1 ELSE 0
          /\ \A i \in 1..Len(table) - (p + 1) + 1 : r[i] = table[p + 1 + i - 1]
      BY <3>1, SubSeqProperties
    <3>3. /\ Len(table) - (p + 1) + 1 = Len(table) - p
          /\ p + 1 <= Len(table) \/ Len(table) - p = 0
          /\ \A i \in 1..Len(table) - p : p + 1 + i - 1 = p + i
      <4>1. Len(table) \in Int /\ p \in Int /\ p <= Len(table)
        BY <1>1, <2>1
      <4>2. \A i \in 1..Len(table) - p : p + 1 + i - 1 = p + i
        BY <4>1
      <4> QED
        BY <4>1, <4>2
    <3> HIDE DEF l, r
    <3>4. Len(r) = Len(table) - p
      BY <3>2, <3>3
    <3>5. \A i \in 1..Len(table) - p : r[i] = table[p + i]
      BY <3>2, <3>3
    <3> QED
      BY <3>2, <3>4, <3>5
  <2> HIDE DEF l, r
  <2>5. /\ w \in Seq(Entry) /\ Len(w) = Len(table) - 1
        /\ \A i \in 1..Len(table) - 1 : w[i] = IF i <= p - 1 THEN l[i] ELSE r[i - (p - 1)]
    <3>1. /\ w \in Seq(Entry) /\ Len(w) = Len(l) + Len(r)
          /\ \A i \in 1..Len(l) + Len(r) :
               w[i] = IF i <= Len(l) THEN l[i] ELSE r[i - Len(l)]
      BY <2>3, <2>4, ConcatProperties
    <3>2. Len(l) = p - 1 /\ Len(l) + Len(r) = Len(table) - 1
      BY <1>1, <2>1, <2>3, <2>4
    <3> HIDE DEF w
    <3> QED
      BY <3>1, <3>2
  <2> HIDE DEF w
  <2>6. \A i \in 1..Len(w) : w[i] = IF i < p THEN table[i] ELSE table[i + 1]
    <3> SUFFICES ASSUME NEW i \in 1..Len(w) PROVE w[i] = IF i < p THEN table[i] ELSE table[i + 1]
      OBVIOUS
    <3>1. CASE i < p
      BY <1>1, <2>1, <2>3, <2>5, <3>1
    <3>2. CASE ~(i < p)
      <4>1. i - (p - 1) \in 1..Len(table) - p /\ p + (i - (p - 1)) = i + 1 /\ ~(i <= p - 1)
        BY <1>1, <2>1, <2>5, <3>2
      <4> QED
        BY <2>4, <2>5, <3>2, <4>1
    <3> QED
      BY <3>1, <3>2
  <2>7. \A i \in 1..Len(w) : \E j \in 1..Len(table) :
          /\ w[i] = table[j] /\ j # p /\ j = IF i < p THEN i ELSE i + 1
    BY <1>1, <2>1, <2>5, <2>6
  <2>8. \A i \in 1..Len(w) : w[i].pair # k
    BY <2>1, <2>7 DEF OnceEach
  <2>9. OnceEach(w)
    <3> SUFFICES ASSUME NEW i \in 1..Len(w), NEW j \in 1..Len(w), w[i].pair = w[j].pair
                 PROVE  i = j
      BY DEF OnceEach
    <3>1. PICK ii \in 1..Len(table) : w[i] = table[ii] /\ ii = IF i < p THEN i ELSE i + 1
      BY <2>7
    <3>2. PICK jj \in 1..Len(table) : w[j] = table[jj] /\ jj = IF j < p THEN j ELSE j + 1
      BY <2>7
    <3>3. ii = jj
      BY <3>1, <3>2 DEF OnceEach
    <3> QED
      BY <1>1, <2>1, <2>5, <3>1, <3>2, <3>3
  <2>10. ASSUME NEW j \in 1..Len(table), table[j].pair # k
         PROVE  \E i \in 1..Len(w) : w[i] = table[j]
    <3>1. j # p
      BY <2>1, <2>10
    <3>2. CASE j < p
      <4>1. j \in 1..Len(w)
        BY <1>1, <2>1, <2>5, <3>2
      <4> QED
        BY <2>6, <3>2, <4>1
    <3>3. CASE j > p
      <4>1. j - 1 \in 1..Len(w) /\ ~(j - 1 < p) /\ j - 1 + 1 = j
        BY <1>1, <2>1, <2>5, <3>3
      <4>2. w[j - 1] = table[j]
        BY <2>6, <4>1
      <4> QED
        BY <4>1, <4>2
    <3> QED
      BY <1>1, <2>1, <3>1, <3>2, <3>3
  <2>11. Without(k) = w /\ Len(w) <= Len(table)
    BY <1>1, <2>2, <2>5 DEF RemoveAt, w, l, r
  <2> QED
    BY <2>5, <2>7, <2>8, <2>9, <2>10, <2>11
<1> QED
  BY <1>2, <1>3

\* A bump raises the generation of its pair by one and leaves those of the others, but for
\* the pair that the table gives up if it has become too long (bumpSessionGeneration).
LEMMA BumpsRaise ==
  ASSUME AdapterBounds, AdapterTypes, OnceEach(table), NEW k \in Pairs,
         Current(table, k) < MaxBumps
  PROVE  LET b == TableWith(k)
             gone == IF Kept(b) = b THEN {} ELSE {b[1].pair}
         IN  /\ Kept(b) \in Seq(Entry) /\ Len(Kept(b)) <= MaxGenerations /\ OnceEach(Kept(b))
             /\ gone \subseteq Pairs
             /\ k \notin gone => Current(Kept(b), k) = Current(table, k) + 1
             /\ \A q : q # k /\ q \notin gone => Current(Kept(b), q) = Current(table, q)
             /\ Current(Kept(b), k) \in Generations
<1> DEFINE w == Without(k)
           e == [pair |-> k, gen |-> Current(table, k) + 1]
           b == Append(w, e)
           kept == Kept(b)
           gone == IF kept = b THEN {} ELSE {b[1].pair}
<1>1. /\ w \in Seq(Entry) /\ Len(w) <= Len(table) /\ OnceEach(w)
      /\ \A i \in 1..Len(w) : w[i].pair # k /\ \E j \in 1..Len(table) : w[i] = table[j]
      /\ \A j \in 1..Len(table) : table[j].pair # k => \E i \in 1..Len(w) : w[i] = table[j]
  BY OthersStay
<1>2. table \in Seq(Entry) /\ Len(table) <= MaxGenerations /\ Len(table) \in Nat
      /\ MaxGenerations \in Nat
  BY LenProperties DEF AdapterTypes, AdapterBounds
<1>3. Current(table, k) \in Nat /\ Current(table, k) + 1 \in Generations
  BY <1>2, CurrentIsTheEntry DEF Generations, AdapterBounds
<1>4. e \in Entry /\ e.pair = k /\ e.gen = Current(table, k) + 1
  BY <1>3 DEF Entry
<1> HIDE DEF w, e
<1>5. /\ b \in Seq(Entry) /\ Len(b) = Len(w) + 1 /\ Len(w) \in Nat
      /\ \A i \in 1..Len(w) : b[i] = w[i]
      /\ b[Len(w) + 1] = e
  BY <1>1, <1>4
<1> HIDE DEF b
<1>6. \A i \in 1..Len(b) : i \in 1..Len(w) \/ i = Len(w) + 1
  BY <1>5
<1>7. OnceEach(b)
  BY <1>1, <1>4, <1>5, <1>6 DEF OnceEach
<1>8. Current(b, k) = Current(table, k) + 1
  <2>1. Len(w) + 1 \in 1..Len(b)
    BY <1>5
  <2>2. b[Len(w) + 1].pair = k
    BY <1>4, <1>5
  <2> QED
    BY <1>4, <1>5, <1>7, <2>1, <2>2, CurrentIsTheEntry
<1>9. ASSUME NEW q, q # k PROVE Current(b, q) = Current(table, q)
  <2>1. CASE \E j \in 1..Len(table) : table[j].pair = q
    <3>1. PICK j \in 1..Len(table) : table[j].pair = q
      BY <2>1
    <3>2. PICK i \in 1..Len(w) : w[i] = table[j]
      BY <1>1, <1>9, <3>1
    <3>3. i \in 1..Len(b) /\ b[i] = table[j]
      BY <1>5, <3>2
    <3>4. Current(table, q) = table[j].gen
      BY <1>2, <3>1, CurrentIsTheEntry
    <3>5. Current(b, q) = b[i].gen
      BY <1>5, <1>7, <3>1, <3>3, CurrentIsTheEntry
    <3> QED
      BY <3>3, <3>4, <3>5
  <2>2. CASE ~\E j \in 1..Len(table) : table[j].pair = q
    <3>1. \A i \in 1..Len(b) : b[i].pair # q
      BY <1>1, <1>4, <1>5, <1>6, <1>9, <2>2
    <3>2. Current(b, q) = 0
      BY <1>5, <3>1, CurrentIsTheEntry
    <3>3. Current(table, q) = 0
      BY <1>2, <2>2, CurrentIsTheEntry
    <3> QED
      BY <3>2, <3>3
  <2> QED
    BY <2>1, <2>2
<1>10. CASE ~(Len(b) > MaxGenerations)
  <2>1. kept = b /\ gone = {}
    BY <1>10 DEF Kept
  <2>2. Len(b) <= MaxGenerations
    BY <1>2, <1>5, <1>10
  <2>3. /\ kept \in Seq(Entry) /\ Len(kept) <= MaxGenerations /\ OnceEach(kept)
        /\ gone \subseteq Pairs
        /\ k \notin gone => Current(kept, k) = Current(table, k) + 1
        /\ \A q : q # k /\ q \notin gone => Current(kept, q) = Current(table, q)
        /\ Current(kept, k) \in Generations
    BY <1>3, <1>5, <1>7, <1>8, <1>9, <2>1, <2>2
  <2> QED
    BY <2>3, Zenon DEF TableWith, w, b, e
<1>11. CASE Len(b) > MaxGenerations
  <2>1. kept = Tail(b) /\ b # <<>> /\ 1 \in 1..Len(b)
    BY <1>5, <1>11 DEF Kept
  <2>2. /\ kept \in Seq(Entry) /\ Len(kept) = Len(b) - 1
        /\ \A i \in 1..Len(kept) : kept[i] = b[i + 1]
    BY <1>5, <2>1, HeadTailProperties
  <2>3. Len(kept) <= MaxGenerations /\ kept # b
    BY <1>1, <1>2, <1>5, <2>2
  <2>4. gone = {b[1].pair} /\ gone \subseteq Pairs
    <3>1. b[1] \in Entry
      BY <1>5, <2>1, ElementOfSeq
    <3>2. b[1].pair \in Pairs
      BY <3>1 DEF Entry
    <3> HIDE DEF kept
    <3> QED
      BY <2>3, <3>2
  <2> HIDE DEF kept, gone
  <2>5. OnceEach(kept)
    <3> SUFFICES ASSUME NEW i \in 1..Len(kept), NEW j \in 1..Len(kept),
                        kept[i].pair = kept[j].pair
                 PROVE  i = j
      BY DEF OnceEach
    <3>1. i + 1 \in 1..Len(b) /\ j + 1 \in 1..Len(b)
      BY <1>5, <2>2
    <3>2. b[i + 1].pair = b[j + 1].pair
      BY <2>2
    <3>3. i + 1 = j + 1
      BY <1>7, <3>1, <3>2 DEF OnceEach
    <3> QED
      BY <3>3
  <2>6. ASSUME NEW q, q \notin gone PROVE Current(kept, q) = Current(b, q)
    <3>1. CASE \E j \in 1..Len(b) : b[j].pair = q
      <4>1. PICK j \in 1..Len(b) : b[j].pair = q
        BY <3>1
      <4>2. j # 1
        BY <2>4, <2>6, <4>1
      <4>3. PICK i \in 1..Len(kept) : i + 1 = j
        <5>1. j - 1 \in 1..Len(kept) /\ (j - 1) + 1 = j
          BY <1>5, <2>2, <4>2
        <5> QED
          BY <5>1
      <4>4. kept[i] = b[j]
        BY <2>2, <4>3
      <4>5. Current(kept, q) = kept[i].gen
        BY <2>2, <2>5, <4>1, <4>4, CurrentIsTheEntry
      <4>6. Current(b, q) = b[j].gen
        BY <1>5, <1>7, <4>1, CurrentIsTheEntry
      <4> QED
        BY <4>4, <4>5, <4>6
    <3>2. CASE ~\E j \in 1..Len(b) : b[j].pair = q
      <4>1. \A i \in 1..Len(kept) : kept[i].pair # q
        <5> SUFFICES ASSUME NEW i \in 1..Len(kept) PROVE kept[i].pair # q
          OBVIOUS
        <5>1. i + 1 \in 1..Len(b)
          BY <1>5, <2>2
        <5> QED
          BY <2>2, <3>2, <5>1
      <4>2. Current(b, q) = 0
        BY <1>5, <3>2, CurrentIsTheEntry
      <4>3. Current(kept, q) = 0
        BY <2>2, <4>1, CurrentIsTheEntry
      <4> QED
        BY <4>2, <4>3
    <3> QED
      BY <3>1, <3>2
  <2>7. Current(kept, k) \in Generations
    BY <2>2, CurrentIsTheEntry
  <2>8. /\ kept \in Seq(Entry) /\ Len(kept) <= MaxGenerations /\ OnceEach(kept)
        /\ gone \subseteq Pairs
        /\ k \notin gone => Current(kept, k) = Current(table, k) + 1
        /\ \A q : q # k /\ q \notin gone => Current(kept, q) = Current(table, q)
        /\ Current(kept, k) \in Generations
    BY <1>8, <1>9, <2>2, <2>3, <2>4, <2>5, <2>6, <2>7
  <2> QED
    BY <2>8, Zenon DEF TableWith, w, b, e, kept, gone
<1> QED
  BY <1>10, <1>11

-----------------------------------------------------------------------------
(* The adapter's steps.                                                     *)

\* Counters that nobody touched are as right as they were, when the turns that hold a slot
\* are the same.
LEMMA CountersKept ==
  ASSUME SlotsAreCounted, UNCHANGED <<slots, tick, leaked>>,
         \A a \in Pool : Holders(a)' = Holders(a)
  PROVE  SlotsAreCounted'
  BY DEF SlotsAreCounted, Live

\* The table is as right as it was when no turn was sent or moved.
LEMMA TableKept ==
  ASSUME GenerationsGrow, UNCHANGED bumps,
         \A t \in Turns : pc'[t] = "sent" =>
           /\ pc[t] = "sent" /\ chat'[t] = chat[t] /\ acct'[t] = acct[t]
           /\ generation'[t] = generation[t]
  PROVE  GenerationsGrow'
<1>1. table' = table /\ full' = full /\ evicted' = evicted
  BY DEF bumps
<1>2. \A q : Current(table', q) = Current(table, q)
  BY <1>1
<1>3. OnceEach(table)'
  BY <1>1 DEF GenerationsGrow, OnceEach
<1>4. (\A s \in full : <<s[1], s[2]>> \notin evicted /\ s[3] < Current(table, <<s[1], s[2]>>))'
  BY <1>1 DEF GenerationsGrow
<1>5. ASSUME NEW t \in Turns, pc'[t] = "sent", chat'[t] # Nowhere, PairOf(t)' \notin evicted'
      PROVE  generation'[t] <= Current(table', PairOf(t)')
  <2>1. /\ pc[t] = "sent" /\ chat'[t] = chat[t] /\ acct'[t] = acct[t]
        /\ generation'[t] = generation[t]
    BY <1>5
  <2>2. PairOf(t)' = PairOf(t)
    BY <2>1 DEF PairOf
  <2> QED
    BY <1>1, <1>5, <2>1, <2>2 DEF GenerationsGrow
<1> QED
  BY <1>3, <1>4, <1>5 DEF GenerationsGrow

\* What is appended to an empty list is all that it holds.
LEMMA FirstOfAList ==
  ASSUME NEW S, NEW l \in Seq(S), NEW x \in S
  PROVE  /\ Append(l, x) \in Seq(S) /\ Len(Append(l, x)) = Len(l) + 1
         /\ Len(l) = 0 => Append(l, x)[1] = x
  BY AppendProperties, LenProperties

\* The books of the turns that did not move are right.
LEMMA OtherBooksKept ==
  ASSUME TurnsAreBooked, NEW t \in Turns, TurnIsBooked(t)',
         \A u \in Turns : u # t =>
           pc'[u] = pc[u] /\ reports'[u] = reports[u] /\ records'[u] = records[u]
  PROVE  TurnsAreBooked'
  BY DEF TurnsAreBooked, TurnIsBooked

\* At the start no turn is under way.
LEMMA AdapterStarts ==
  ASSUME AdapterBounds, Init
  PROVE  AdapterInv
<1>1. \A a \in Pool : Holders(a) = {}
  BY DEF Init, Holders
<1>2. Cardinality({}) = 0 /\ Cardinality(Turns) \in Nat
  BY FS_EmptySet, HoldersAreFinite
<1>3. AdapterTypes
  <2>1. slots \in [Pool -> [count: 0..Cardinality(Turns), at: 0..LastTick]]
    BY <1>2 DEF Init, AdapterBounds
  <2> QED
    BY <2>1 DEF AdapterTypes, Init, Stages, Generations, AdapterBounds
<1>4. SlotsAreHeld
  BY DEF SlotsAreHeld, Init
<1>5. SlotsAreCounted
  <2>1. \A a \in Pool : slots[a].count = 0 /\ Holders(a) = {} /\ Cardinality(Holders(a)) = 0
    BY <1>1, <1>2 DEF Init
  <2> QED
    BY <2>1 DEF SlotsAreCounted
<1>6. TurnsAreBooked
  BY DEF TurnsAreBooked, TurnIsBooked, Init
<1>7. GenerationsGrow
  BY DEF GenerationsGrow, Init, OnceEach
<1> QED
  BY <1>3, <1>4, <1>5, <1>6, <1>7 DEF AdapterInv

\* A turn begins with nothing reported or booked.
LEMMA BeginKeeps ==
  ASSUME AdapterBounds, AdapterInv, NEW t \in Turns, NEW c \in Chats \cup {Nowhere}, Begin(t, c)
  PROVE  AdapterInv'
<1> USE DEF Begin, Goto, bumps
<1>1. AdapterTypes'
  <2>1. <<>> \in Seq({"failed", "content"}) /\ <<>> \in Seq(BOOLEAN)
    OBVIOUS
  <2> QED
    BY <2>1 DEF AdapterInv, AdapterTypes, Stages
<1>2. SlotsAreHeld'
  BY DEF AdapterInv, AdapterTypes, SlotsAreHeld
<1>3. SlotsAreCounted'
  <2>1. \A a \in Pool : Holders(a)' = Holders(a)
    BY DEF Holders
  <2> QED
    BY <2>1, CountersKept DEF AdapterInv
<1>4. TurnsAreBooked'
  <2>1. TurnIsBooked(t)'
    BY DEF AdapterInv, AdapterTypes, TurnsAreBooked, TurnIsBooked, Stages
  <2> QED
    BY <2>1, OtherBooksKept DEF AdapterInv, AdapterTypes
<1>5. GenerationsGrow'
  <2>1. \A u \in Turns : pc'[u] = "sent" =>
          /\ pc[u] = "sent" /\ chat'[u] = chat[u] /\ acct'[u] = acct[u]
          /\ generation'[u] = generation[u]
    BY DEF AdapterInv, AdapterTypes
  <2> QED
    BY <2>1, TableKept DEF AdapterInv
<1> QED
  BY <1>1, <1>2, <1>3, <1>4, <1>5 DEF AdapterInv

\* A session is refused, or granted on an account: no slot is taken yet.
LEMMA AskingKeeps ==
  ASSUME AdapterBounds, AdapterInv, NEW t \in Turns,
         SessionRefused(t) \/ \E a \in Pool : SessionGranted(t, a)
  PROVE  AdapterInv'
<1> USE DEF SessionRefused, SessionGranted, Goto, bumps, booking
<1>1. AdapterTypes'
  BY DEF AdapterInv, AdapterTypes, Stages
<1>2. SlotsAreHeld'
  BY DEF AdapterInv, AdapterTypes, SlotsAreHeld
<1>3. SlotsAreCounted'
  <2>1. \A a \in Pool : Holders(a)' = Holders(a)
    <3>1. ~holds[t] /\ holds' = holds
      BY DEF AdapterInv, SlotsAreHeld
    <3>2. \A u \in Turns : u # t => acct'[u] = acct[u]
      BY DEF AdapterInv, AdapterTypes
    <3> QED
      BY <3>1, <3>2 DEF Holders
  <2> QED
    BY <2>1, CountersKept DEF AdapterInv
<1>4. TurnsAreBooked'
  <2>1. TurnIsBooked(t)'
    BY DEF AdapterInv, AdapterTypes, TurnsAreBooked, TurnIsBooked, Stages
  <2> QED
    BY <2>1, OtherBooksKept DEF AdapterInv, AdapterTypes
<1>5. GenerationsGrow'
  <2>1. \A u \in Turns : pc'[u] = "sent" =>
          /\ pc[u] = "sent" /\ chat'[u] = chat[u] /\ acct'[u] = acct[u]
          /\ generation'[u] = generation[u]
    BY DEF AdapterInv, AdapterTypes
  <2> QED
    BY <2>1, TableKept DEF AdapterInv
<1> QED
  BY <1>1, <1>2, <1>3, <1>4, <1>5 DEF AdapterInv

\* The upstream answers, or the turn fails and reports it: the slot stays.
LEMMA AnswersKeep ==
  ASSUME AdapterBounds, AdapterInv, NEW t \in Turns,
         AttemptFails(t) \/ Answered(t) \/ StreamBreaks(t)
  PROVE  AdapterInv'
<1> USE DEF AttemptFails, Answered, StreamBreaks, Goto, bumps, booking
<1>1. AdapterTypes'
  <2>1. ASSUME NEW kind \in {"failed", "content"}, Report(t, kind)
        PROVE  reports' \in [Turns -> Seq({"failed", "content"})]
    <3>1. reports \in [Turns -> Seq({"failed", "content"})]
      BY DEF AdapterInv, AdapterTypes
    <3>2. Append(reports[t], kind) \in Seq({"failed", "content"})
      BY <3>1, FirstOfAList
    <3> QED
      BY <2>1, <3>1, <3>2 DEF Report
  <2>2. reports' \in [Turns -> Seq({"failed", "content"})]
    BY <2>1 DEF AdapterInv, AdapterTypes
  <2>3. pc' \in [Turns -> Stages]
    BY DEF AdapterInv, AdapterTypes, Stages
  <2> QED
    BY <2>2, <2>3 DEF AdapterInv, AdapterTypes
<1>2. SlotsAreHeld'
  BY DEF AdapterInv, AdapterTypes, SlotsAreHeld
<1>3. SlotsAreCounted'
  <2>1. \A a \in Pool : Holders(a)' = Holders(a)
    BY DEF Holders
  <2> QED
    BY <2>1, CountersKept DEF AdapterInv
<1>4. TurnsAreBooked'
  <2>1. Len(reports[t]) = 0 /\ Len(records[t]) = 0 /\ records'[t] = records[t]
    BY DEF AdapterInv, TurnsAreBooked, TurnIsBooked
  <2>2. ASSUME NEW kind \in {"failed", "content"}, Report(t, kind)
        PROVE  Len(reports'[t]) = 1
    <3>1. reports \in [Turns -> Seq({"failed", "content"})]
      BY DEF AdapterInv, AdapterTypes
    <3>2. Len(Append(reports[t], kind)) = 1
      BY <2>1, <3>1, FirstOfAList
    <3> QED
      BY <2>2, <3>1, <3>2 DEF Report
  <2>3. \/ pc'[t] = "streaming" /\ reports'[t] = reports[t]
        \/ pc'[t] = "reporting" /\ Len(reports'[t]) = 1
    BY <2>2 DEF AdapterInv, AdapterTypes
  <2>4. \A u \in Turns : u # t =>
           pc'[u] = pc[u] /\ reports'[u] = reports[u] /\ records'[u] = records[u]
    BY DEF AdapterInv, AdapterTypes, Report
  <2> HIDE DEF AttemptFails, Answered, StreamBreaks
  <2>5. Len(records'[t]) = 0 /\ (Len(reports'[t]) = 0 \/ Len(reports'[t]) = 1)
    BY <2>1, <2>3
  <2>6. pc'[t] = "streaming" => Len(reports'[t]) = 0
    BY <2>1, <2>3
  <2>7. pc'[t] # "streaming" => pc'[t] = "reporting" /\ Len(reports'[t]) = 1
    BY <2>1, <2>3
  <2>8. TurnIsBooked(t)'
    <3> DEFINE n == Len(reports'[t])
               m == Len(records'[t])
    <3>1. m = 0 /\ (n = 0 \/ n = 1)
      BY <2>5
    <3>2. /\ pc'[t] \in {"asking", "reading", "sent", "streaming"} => n = 0
          /\ pc'[t] = "reporting" => n = 1
      BY <2>6, <2>7
    <3> HIDE DEF n, m
    <3>3. n <= 1 /\ m <= 1 /\ m # 1
      BY <3>1
    <3> QED
      BY <3>1, <3>2, <3>3, Zenon DEF TurnIsBooked, n, m
  <2> QED
    BY <2>4, <2>8, OtherBooksKept DEF AdapterInv
<1>5. GenerationsGrow'
  <2>1. \A u \in Turns : pc'[u] = "sent" =>
          /\ pc[u] = "sent" /\ chat'[u] = chat[u] /\ acct'[u] = acct[u]
          /\ generation'[u] = generation[u]
    BY DEF AdapterInv, AdapterTypes
  <2> QED
    BY <2>1, TableKept DEF AdapterInv
<1> QED
  BY <1>1, <1>2, <1>3, <1>4, <1>5 DEF AdapterInv

\* Some of the turns are not more than all of them.
LEMMA SomeTurnsAreFewer ==
  ASSUME AdapterBounds, NEW S \in SUBSET Turns
  PROVE  /\ IsFiniteSet(S) /\ Cardinality(S) \in Nat /\ Cardinality(Turns) \in Nat
         /\ Cardinality(S) <= Cardinality(Turns)
  BY FS_Subset, FS_CardinalityType DEF AdapterBounds

\* A turn takes its slot and is sent under the generation the table has (noteRequestStarted).
LEMMA SendKeeps ==
  ASSUME AdapterBounds, AdapterInv, NEW t \in Turns, Send(t)
  PROVE  AdapterInv'
<1> DEFINE a == acct[t]
           k == PairOf(t)
<1>0. /\ AdapterTypes /\ SlotsAreHeld /\ SlotsAreCounted /\ TurnsAreBooked /\ GenerationsGrow
      /\ pc[t] = "reading" /\ a \in Pool /\ ~holds[t] /\ t \notin Holders(a)
  BY DEF AdapterInv, Send, SlotsAreHeld, Holders
<1>1. /\ pc' = [pc EXCEPT ![t] = "sent"] /\ holds' = [holds EXCEPT ![t] = TRUE]
      /\ slots' = [slots EXCEPT ![a] = [count |-> Count(a) + 1, at |-> tick]]
      /\ generation' = [generation EXCEPT ![t] = Current(table, k)]
      /\ UNCHANGED <<chat, acct, resent, table, full, evicted, reports, records, tick, leaked>>
  BY DEF Send, Goto, bumps, booking
<1>2. /\ Holders(a)' = Holders(a) \cup {t}
      /\ \A b \in Pool : b # a => Holders(b)' = Holders(b)
  BY <1>0, <1>1 DEF Holders, AdapterTypes
<1>3. /\ Count(a) \in Nat /\ Count(a) <= Cardinality(Holders(a))
      /\ a \notin leaked => Count(a) = Cardinality(Holders(a))
      /\ Cardinality(Holders(a)) \in Nat
      /\ Cardinality(Holders(a)') = Cardinality(Holders(a)) + 1
      /\ Cardinality(Holders(a)') <= Cardinality(Turns) /\ Cardinality(Turns) \in Nat
  <2>1. Holders(a) \cup {t} \in SUBSET Turns
    BY DEF Holders
  <2> QED
    BY <1>0, <1>2, <2>1, CountsAreNumbers, CountsAreRight, HoldersAreFinite, HoldersChange,
       SomeTurnsAreFewer
<1>4. /\ slots'[a] = [count |-> Count(a) + 1, at |-> tick]
      /\ \A b \in Pool : b # a => slots'[b] = slots[b]
      /\ Count(a) + 1 \in 0..Cardinality(Turns) /\ tick \in 0..LastTick /\ tick \in Nat
  <2>1. slots \in [Pool -> [count: 0..Cardinality(Turns), at: 0..LastTick]]
        /\ tick \in 0..LastTick
    BY <1>0 DEF AdapterTypes
  <2>2. tick \in Nat
    BY <2>1 DEF AdapterBounds
  <2>3. Count(a) + 1 \in 0..Cardinality(Turns)
    BY <1>3
  <2> QED
    BY <1>0, <1>1, <2>1, <2>2, <2>3
<1>5. Current(table, k) \in Generations
  BY <1>0, CurrentIsTheEntry DEF AdapterTypes
<1>6. AdapterTypes'
  <2>1. slots' \in [Pool -> [count: 0..Cardinality(Turns), at: 0..LastTick]]
    BY <1>0, <1>1, <1>4 DEF AdapterTypes
  <2>2. generation' \in [Turns -> Generations]
    BY <1>0, <1>1, <1>5 DEF AdapterTypes
  <2>3. pc' \in [Turns -> Stages] /\ holds' \in [Turns -> BOOLEAN]
    BY <1>0, <1>1 DEF AdapterTypes, Stages
  <2> QED
    BY <1>0, <1>1, <2>1, <2>2, <2>3 DEF AdapterTypes
<1>7. SlotsAreHeld'
  BY <1>0, <1>1 DEF AdapterTypes, SlotsAreHeld
<1>8. SlotsAreCounted'
  <2> SUFFICES ASSUME NEW b \in Pool
               PROVE  /\ slots'[b].count <= Cardinality(Holders(b)')
                      /\ b \notin leaked' =>
                           /\ slots'[b].count = Cardinality(Holders(b)')
                           /\ Holders(b)' # {} => tick' <= slots'[b].at + SlotLife
    BY DEF SlotsAreCounted, Live
  <2>1. CASE b = a
    <3>1. slots'[b].count = Count(a) + 1 /\ slots'[b].at = tick
      BY <1>4, <2>1
    <3>2. tick' <= slots'[b].at + SlotLife
      BY <1>1, <1>4, <3>1 DEF AdapterBounds
    <3> QED
      BY <1>1, <1>3, <2>1, <3>1, <3>2
  <2>2. CASE b # a
    BY <1>0, <1>1, <1>2, <1>4, <2>2 DEF SlotsAreCounted, Live
  <2> QED
    BY <2>1, <2>2
<1>9. TurnsAreBooked'
  <2>1. TurnIsBooked(t)'
    BY <1>0, <1>1 DEF AdapterTypes, TurnsAreBooked, TurnIsBooked
  <2> QED
    BY <1>0, <1>1, <2>1, OtherBooksKept DEF AdapterTypes
<1>10. GenerationsGrow'
  <2>1. \A q : Current(table', q) = Current(table, q)
    BY <1>1
  <2>2. OnceEach(table)'
    BY <1>0, <1>1 DEF GenerationsGrow, OnceEach
  <2>3. (\A s \in full : <<s[1], s[2]>> \notin evicted /\ s[3] < Current(table, <<s[1], s[2]>>))'
    BY <1>0, <1>1 DEF GenerationsGrow
  <2>4. ASSUME NEW u \in Turns, pc'[u] = "sent", chat'[u] # Nowhere, PairOf(u)' \notin evicted'
        PROVE  generation'[u] <= Current(table', PairOf(u)')
    <3>1. PairOf(u)' = PairOf(u)
      BY <1>1 DEF PairOf
    <3>2. CASE u = t
      BY <1>0, <1>1, <1>5, <2>1, <3>1, <3>2 DEF AdapterTypes, Generations, AdapterBounds
    <3>3. CASE u # t
      BY <1>0, <1>1, <2>1, <2>4, <3>1, <3>3 DEF AdapterTypes, GenerationsGrow
    <3> QED
      BY <3>2, <3>3
  <2> QED
    BY <2>2, <2>3, <2>4 DEF GenerationsGrow
<1> QED
  BY <1>6, <1>7, <1>8, <1>9, <1>10 DEF AdapterInv

\* Time passes: a counter that dies under its turns is one that was discarded.
LEMMA TickKeeps ==
  ASSUME AdapterBounds, AdapterInv, Tick
  PROVE  AdapterInv'
<1>0. /\ AdapterTypes /\ SlotsAreHeld /\ SlotsAreCounted /\ TurnsAreBooked /\ GenerationsGrow
      /\ UNCHANGED <<pc, chat, acct, generation, resent, holds, slots, table, full, evicted,
                     reports, records>>
      /\ tick' = tick + 1 /\ tick < LastTick
      /\ leaked' = leaked \cup {a \in Pool : Holders(a) # {} /\ tick' > slots[a].at + SlotLife}
  BY DEF AdapterInv, Tick, turn, bumps, booking
<1>1. \A a \in Pool : Holders(a)' = Holders(a)
  BY <1>0 DEF Holders
<1>2. tick' \in 0..LastTick
  BY <1>0 DEF AdapterTypes, AdapterBounds
<1>3. AdapterTypes'
  BY <1>0, <1>2 DEF AdapterTypes
<1>4. SlotsAreHeld' /\ TurnsAreBooked'
  BY <1>0 DEF SlotsAreHeld, TurnsAreBooked, TurnIsBooked
<1>5. SlotsAreCounted'
  <2> SUFFICES ASSUME NEW a \in Pool
               PROVE  /\ slots[a].count <= Cardinality(Holders(a))
                      /\ a \notin leaked' =>
                           /\ slots[a].count = Cardinality(Holders(a))
                           /\ Holders(a) # {} => tick' <= slots[a].at + SlotLife
    BY <1>0, <1>1 DEF SlotsAreCounted, Live
  <2>1. slots[a].at \in Nat /\ tick' \in Nat
    BY <1>0, <1>2, CountsAreNumbers DEF AdapterBounds
  <2>2. a \notin leaked' => a \notin leaked /\ ~(Holders(a) # {} /\ tick' > slots[a].at + SlotLife)
    BY <1>0
  <2>3. ~(tick' > slots[a].at + SlotLife) => tick' <= slots[a].at + SlotLife
    BY <2>1 DEF AdapterBounds
  <2> QED
    BY <1>0, <2>2, <2>3 DEF SlotsAreCounted
<1>6. GenerationsGrow'
  BY <1>0, TableKept DEF AdapterTypes, bumps
<1> QED
  BY <1>3, <1>4, <1>5, <1>6 DEF AdapterInv

\* However a turn ends, it gives its slot back, once (noteRequestSettled).
LEMMA SettleKeeps ==
  ASSUME AdapterBounds, AdapterInv, NEW t \in Turns,
         Reported(t) \/ ReportThrows(t) \/ Completes(t) \/ Abandoned(t)
  PROVE  AdapterInv'
<1>a. PICK a \in Pool : a = acct[t]
  BY DEF AdapterInv, SlotsAreHeld, Reported, ReportThrows, Completes, Abandoned
<1>0. /\ AdapterTypes /\ SlotsAreHeld /\ SlotsAreCounted /\ TurnsAreBooked /\ GenerationsGrow
      /\ pc[t] \in {"reporting", "streaming"} /\ Settle(t) /\ reports' = reports
      /\ \/ records' = records
         \/ pc[t] = "streaming" /\ Book(t, TRUE)
         \/ pc[t] = "reporting" /\ Book(t, FALSE)
  BY DEF AdapterInv, Reported, ReportThrows, Completes, Abandoned
<1>1. /\ pc' = [pc EXCEPT ![t] = "over"] /\ holds' = [holds EXCEPT ![t] = FALSE]
      /\ slots' = Freed(t)
      /\ leaked' = IF Holders(a) = {t} THEN leaked \ {a} ELSE leaked
      /\ chat' = [chat EXCEPT ![t] = Nowhere] /\ acct' = [acct EXCEPT ![t] = Nowhere]
      /\ generation' = [generation EXCEPT ![t] = 0] /\ resent' = [resent EXCEPT ![t] = FALSE]
      /\ UNCHANGED <<table, full, evicted, tick>>
  BY <1>a, <1>0 DEF Settle, Goto, bumps
<1>2. a \in Pool /\ holds[t] /\ t \in Holders(a)
  BY <1>a, <1>0 DEF SlotsAreHeld, Holders
<1>3. /\ Holders(a)' = Holders(a) \ {t}
      /\ \A b \in Pool : b # a => Holders(b)' = Holders(b)
  <2>1. /\ ~holds'[t] /\ acct'[t] \notin Pool
        /\ \A u \in Turns : u # t => holds'[u] = holds[u] /\ acct'[u] = acct[u]
    BY <1>0, <1>1 DEF AdapterTypes, AdapterBounds
  <2>2. ASSUME NEW b \in Pool, b # a PROVE Holders(b)' = Holders(b)
    BY <1>a, <2>1, <2>2 DEF Holders
  <2> QED
    BY <1>a, <2>1, <2>2 DEF Holders
<1> DEFINE c == Count(a)
           h == Cardinality(Holders(a))
<1>4. /\ c \in Nat /\ c <= h /\ (a \notin leaked => c = h)
      /\ h \in Nat \ {0} /\ Cardinality(Holders(a)') = h - 1 /\ (h = 1 <=> Holders(a) = {t})
      /\ h <= Cardinality(Turns) /\ Cardinality(Turns) \in Nat
  BY <1>0, <1>2, <1>3, CountsAreNumbers, CountsAreRight, HoldersAreFinite, HoldersChange
<1>5. /\ slots'[a] = IF c <= 1 THEN [count |-> 0, at |-> 0] ELSE [count |-> c - 1, at |-> tick]
      /\ \A b \in Pool : b # a => slots'[b] = slots[b]
      /\ tick \in 0..LastTick /\ tick \in Nat
  <2>1. slots \in [Pool -> [count: 0..Cardinality(Turns), at: 0..LastTick]]
        /\ tick \in 0..LastTick
    BY <1>0 DEF AdapterTypes
  <2> QED
    BY <1>a, <1>1, <1>2, <2>1 DEF Freed, Discarded, AdapterBounds
<1> HIDE DEF c, h
<1>6. slots'[a] \in [count: 0..Cardinality(Turns), at: 0..LastTick]
  <2>1. CASE c <= 1
    BY <1>4, <1>5, <2>1 DEF AdapterBounds
  <2>2. CASE ~(c <= 1)
    <3>1. c - 1 \in 0..Cardinality(Turns)
      BY <1>4, <2>2
    <3> QED
      BY <1>5, <2>2, <3>1
  <2> QED
    BY <2>1, <2>2
<1>7. AdapterTypes'
  <2>1. slots' \in [Pool -> [count: 0..Cardinality(Turns), at: 0..LastTick]]
    <3>1. slots \in [Pool -> [count: 0..Cardinality(Turns), at: 0..LastTick]]
      BY <1>0 DEF AdapterTypes
    <3> DEFINE new == IF Count(a) <= 1 THEN Discarded(a) ELSE [count |-> Count(a) - 1, at |-> tick]
    <3>2. slots' = [slots EXCEPT ![a] = new]
      BY <1>a, <1>1 DEF Freed
    <3>3. new \in [count: 0..Cardinality(Turns), at: 0..LastTick]
      <4>1. slots'[a] = new
        BY <1>2, <3>1, <3>2
      <4> QED
        BY <1>6, <4>1
    <3> HIDE DEF new
    <3> QED
      BY <1>2, <3>1, <3>2, <3>3
  <2>2. records' \in [Turns -> Seq(BOOLEAN)]
    <3>1. ASSUME NEW ok \in BOOLEAN, Book(t, ok) PROVE records' \in [Turns -> Seq(BOOLEAN)]
      <4>1. records \in [Turns -> Seq(BOOLEAN)]
        BY <1>0 DEF AdapterTypes
      <4>2. Append(records[t], ok) \in Seq(BOOLEAN)
        BY <4>1, FirstOfAList
      <4> QED
        BY <3>1, <4>1, <4>2 DEF Book
    <3> QED
      BY <1>0, <3>1 DEF AdapterTypes
  <2>3. generation' \in [Turns -> Generations]
    BY <1>0, <1>1 DEF AdapterTypes, Generations, AdapterBounds
  <2>4. /\ pc' \in [Turns -> Stages] /\ holds' \in [Turns -> BOOLEAN]
        /\ resent' \in [Turns -> BOOLEAN] /\ chat' \in [Turns -> Chats \cup {Nowhere}]
        /\ acct' \in [Turns -> Pool \cup {Nowhere}] /\ leaked' \subseteq Pool
    BY <1>0, <1>1 DEF AdapterTypes, Stages
  <2> QED
    BY <1>0, <1>1, <2>1, <2>2, <2>3, <2>4 DEF AdapterTypes
<1>8. SlotsAreHeld'
  BY <1>0, <1>1 DEF AdapterTypes, SlotsAreHeld
<1>9. SlotsAreCounted'
  <2> DEFINE Right(b) ==
        /\ slots'[b].count <= Cardinality(Holders(b)')
        /\ b \notin leaked' =>
             /\ slots'[b].count = Cardinality(Holders(b)')
             /\ Holders(b)' # {} => tick' <= slots'[b].at + SlotLife
  <2>1. Right(a)
    <3> DEFINE H == Holders(a)'
    <3>0. H = Holders(a) \ {t} /\ Cardinality(H) = h - 1
      BY <1>3, <1>4
    <3> HIDE DEF H
    <3>1. CASE c <= 1
      <4>1. slots'[a].count = 0
        BY <1>5, <3>1
      <4>2. a \notin leaked' => h = 1
        <5>1. CASE Holders(a) = {t}
          BY <1>4, <5>1
        <5>2. CASE Holders(a) # {t}
          <6>1. a \notin leaked' => c = h
            BY <1>1, <1>4, <5>2
          <6> QED
            BY <1>4, <3>1, <6>1
        <5> QED
          BY <5>1, <5>2
      <4>3. h = 1 => H = {}
        BY <1>4, <3>0
      <4>4. 0 <= h - 1 /\ (h = 1 => 0 = h - 1)
        BY <1>4
      <4>5. /\ slots'[a].count <= Cardinality(H)
            /\ a \notin leaked' =>
                 /\ slots'[a].count = Cardinality(H)
                 /\ H # {} => tick' <= slots'[a].at + SlotLife
        BY <3>0, <4>1, <4>2, <4>3, <4>4
      <4> QED
        BY <4>5 DEF H
    <3>2. CASE ~(c <= 1)
      <4>1. slots'[a].count = c - 1 /\ slots'[a].at = tick
        BY <1>5, <3>2
      <4>2. c - 1 <= h - 1 /\ Holders(a) # {t}
        BY <1>4, <3>2
      <4>3. a \notin leaked' => c - 1 = h - 1
        BY <1>1, <1>4, <4>2
      <4>4. tick' <= tick + SlotLife
        BY <1>1, <1>5 DEF AdapterBounds
      <4>5. /\ slots'[a].count <= Cardinality(H)
            /\ a \notin leaked' =>
                 /\ slots'[a].count = Cardinality(H)
                 /\ H # {} => tick' <= slots'[a].at + SlotLife
        BY <3>0, <4>1, <4>2, <4>3, <4>4
      <4> QED
        BY <4>5 DEF H
    <3> QED
      BY <3>1, <3>2
  <2>2. ASSUME NEW b \in Pool, b # a PROVE Right(b)
    BY <1>0, <1>1, <1>3, <1>5, <2>2 DEF SlotsAreCounted, Live
  <2>3. \A b \in Pool : Right(b)
    <3> SUFFICES ASSUME NEW b \in Pool PROVE Right(b)
      OBVIOUS
    <3> HIDE DEF Right
    <3> QED
      BY <2>1, <2>2
  <2> QED
    BY <2>3 DEF SlotsAreCounted, Live
<1>10. TurnsAreBooked'
  <2>1. /\ TurnIsBooked(t) /\ pc'[t] = "over" /\ reports'[t] = reports[t]
        /\ \A u \in Turns : u # t =>
             pc'[u] = pc[u] /\ reports'[u] = reports[u] /\ records'[u] = records[u]
    BY <1>0, <1>1 DEF AdapterTypes, TurnsAreBooked, Book
  <2>2. CASE records' = records
    <3>1. TurnIsBooked(t)'
      BY <1>0, <2>1, <2>2 DEF TurnIsBooked
    <3> QED
      BY <1>0, <2>1, <3>1, OtherBooksKept
  <2>3. ASSUME NEW ok \in BOOLEAN, Book(t, ok),
               \/ pc[t] = "streaming" /\ ok = TRUE
               \/ pc[t] = "reporting" /\ ok = FALSE
        PROVE  TurnsAreBooked'
    <3> DEFINE n == Len(reports[t])
               m == Len(records'[t])
    <3>1. records \in [Turns -> Seq(BOOLEAN)] /\ Len(records[t]) = 0
      BY <1>0, <2>1 DEF AdapterTypes, TurnIsBooked
    <3>2. records'[t] = Append(records[t], ok)
      BY <2>3, <3>1 DEF Book
    <3>3. m = 1 /\ records'[t][1] = ok
      BY <3>1, <3>2, FirstOfAList
    <3>4. \/ ok = TRUE /\ n = 0
          \/ ok = FALSE /\ n = 1
      BY <2>1, <2>3 DEF TurnIsBooked
    <3> HIDE DEF n, m
    <3>5. n <= 1 /\ m <= 1
      BY <3>3, <3>4
    <3>6. TurnIsBooked(t)'
      <4>1. /\ pc'[t] \notin {"asking", "reading", "sent", "streaming"}
            /\ pc'[t] # "reporting"
        BY <2>1
      <4> QED
        BY <2>1, <3>3, <3>4, <3>5, <4>1, Zenon DEF TurnIsBooked, n, m
    <3> QED
      BY <1>0, <2>1, <3>6, OtherBooksKept
  <2> QED
    BY <1>0, <2>2, <2>3
<1>11. GenerationsGrow'
  BY <1>0, <1>1, TableKept DEF AdapterTypes, bumps
<1> QED
  BY <1>7, <1>8, <1>9, <1>10, <1>11 DEF AdapterInv

\* A turn is sent again under a generation that no session was found full under, unless the
\* table has forgotten its pair at once.
LEMMA ResendKeeps ==
  ASSUME AdapterBounds, AdapterInv, NEW t \in Turns, Resend(t)
  PROVE  AdapterInv' /\ (Named(t) => UpstreamSession(t)' \notin full')
<1> DEFINE k == PairOf(t)
           b == TableWith(k)
           gone == IF Kept(b) = b THEN {} ELSE {b[1].pair}
           new == Current(Kept(b), k)
<1>0. /\ AdapterTypes /\ SlotsAreHeld /\ SlotsAreCounted /\ TurnsAreBooked /\ GenerationsGrow
      /\ pc[t] = "sent" /\ acct[t] \in Pool /\ chat[t] \in Chats /\ k \in Pairs
      /\ chat[t] # Nowhere /\ Current(table, k) < MaxBumps
  BY DEF AdapterInv, AdapterTypes, Resend, SlotsAreHeld, PairOf, Pairs
<1>1. /\ table' = Kept(b) /\ evicted' = evicted \cup gone
      /\ full' = {s \in full \cup SessionsOf(t) : <<s[1], s[2]>> \notin evicted'}
      /\ SessionsOf(t) \subseteq {UpstreamSession(t)}
      /\ generation' = [generation EXCEPT ![t] = new]
      /\ resent' = [resent EXCEPT ![t] = TRUE]
      /\ UNCHANGED <<pc, chat, acct, holds, slots, reports, records, tick, leaked>>
  BY DEF Resend, SessionsOf
<1>2. /\ Kept(b) \in Seq(Entry) /\ Len(Kept(b)) <= MaxGenerations /\ OnceEach(Kept(b))
      /\ gone \subseteq Pairs
      /\ k \notin gone => new = Current(table, k) + 1
      /\ \A q : q # k /\ q \notin gone => Current(Kept(b), q) = Current(table, q)
      /\ new \in Generations
  BY <1>0, BumpsRaise DEF GenerationsGrow
<1> HIDE DEF b, gone, new
<1>3. \A tb \in Seq(Entry) : \A q : Current(tb, q) \in Nat
  BY CurrentIsTheEntry DEF Generations, AdapterBounds
<1>4. \A q : q \notin evicted' => Current(table, q) <= Current(table', q)
  <2>1. table \in Seq(Entry) /\ new = Current(Kept(b), k)
    BY <1>0 DEF AdapterTypes, new
  <2> QED
    BY <1>1, <1>2, <1>3, <2>1
<1>5. k \notin evicted' => /\ new = Current(table, k) + 1 /\ new = Current(table', k)
                           /\ generation[t] <= Current(table, k)
  BY <1>0, <1>1, <1>2 DEF GenerationsGrow, new
<1>6. /\ UpstreamSession(t)[1] = acct[t] /\ UpstreamSession(t)[2] = chat[t]
      /\ UpstreamSession(t)[3] = generation[t] /\ k = <<acct[t], chat[t]>>
      /\ UpstreamSession(t) \in Pool \X (Chats \cup {Nowhere}) \X Generations
  BY <1>0 DEF UpstreamSession, PairOf, AdapterTypes
<1>7. /\ generation'[t] = new /\ \A u \in Turns : u # t => generation'[u] = generation[u]
      /\ \A u \in Turns : PairOf(u)' = PairOf(u) /\ generation[u] \in Nat
  BY <1>0, <1>1 DEF AdapterTypes, PairOf, Generations, AdapterBounds
<1>8. AdapterTypes'
  <2>1. full' \subseteq Pool \X (Chats \cup {Nowhere}) \X Generations
    BY <1>0, <1>1, <1>6 DEF AdapterTypes
  <2>2. generation' \in [Turns -> Generations] /\ resent' \in [Turns -> BOOLEAN]
    BY <1>0, <1>1, <1>2 DEF AdapterTypes
  <2>3. evicted' \subseteq Pairs
    BY <1>0, <1>1, <1>2 DEF AdapterTypes
  <2> QED
    BY <1>0, <1>1, <1>2, <2>1, <2>2, <2>3 DEF AdapterTypes
<1>9. SlotsAreHeld'
  BY <1>0, <1>1 DEF AdapterTypes, SlotsAreHeld
<1>10. SlotsAreCounted'
  <2>1. \A a \in Pool : Holders(a)' = Holders(a)
    BY <1>1 DEF Holders
  <2> QED
    BY <1>0, <1>1, <2>1, CountersKept
<1>11. TurnsAreBooked'
  BY <1>0, <1>1 DEF TurnsAreBooked, TurnIsBooked
<1>12. ASSUME NEW s \in full' PROVE s[3] < Current(table', <<s[1], s[2]>>)
  <2> DEFINE q == <<s[1], s[2]>>
  <2>1. q \notin evicted' /\ (s \in full \/ s = UpstreamSession(t))
    BY <1>1
  <2>2. Current(table, q) <= Current(table', q)
        /\ Current(table, q) \in Nat /\ Current(table', q) \in Nat
    BY <1>0, <1>1, <1>2, <1>3, <1>4, <2>1 DEF AdapterTypes
  <2>3. CASE s \in full
    <3>1. s[3] < Current(table, q) /\ s[3] \in Nat
      BY <1>0, <2>3 DEF GenerationsGrow, AdapterTypes, Generations, AdapterBounds
    <3> QED
      BY <2>2, <3>1
  <2>4. CASE s = UpstreamSession(t)
    <3>1. q = k /\ s[3] = generation[t] /\ s[3] \in Nat
      BY <1>6, <1>7, <2>4
    <3> QED
      BY <1>5, <2>1, <2>2, <3>1
  <2> QED
    BY <2>1, <2>3, <2>4
<1>13. GenerationsGrow'
  <2>1. OnceEach(table)'
    BY <1>1, <1>2 DEF OnceEach
  <2>2. \A s \in full' : <<s[1], s[2]>> \notin evicted'
    BY <1>1
  <2>3. ASSUME NEW u \in Turns, pc'[u] = "sent", chat'[u] # Nowhere, PairOf(u)' \notin evicted'
        PROVE  generation'[u] <= Current(table', PairOf(u)')
    <3>1. CASE u = t
      <4>1. generation'[u] = Current(table', PairOf(u)')
        BY <1>5, <1>7, <2>3, <3>1
      <4>2. generation'[u] \in Nat
        BY <1>1, <1>2, <1>3, <4>1
      <4> QED
        BY <4>1, <4>2
    <3>2. CASE u # t
      <4>1. generation[u] <= Current(table, PairOf(u)) /\ generation'[u] = generation[u]
        BY <1>0, <1>1, <1>7, <2>3, <3>2 DEF GenerationsGrow
      <4>2. /\ Current(table, PairOf(u)) <= Current(table', PairOf(u)')
            /\ Current(table, PairOf(u)) \in Nat /\ Current(table', PairOf(u)') \in Nat
        BY <1>0, <1>1, <1>2, <1>3, <1>4, <1>7, <2>3 DEF AdapterTypes
      <4>3. generation[u] \in Nat
        BY <1>7
      <4> QED
        BY <4>1, <4>2, <4>3
    <3> QED
      BY <3>1, <3>2
  <2> QED
    BY <1>12, <2>1, <2>2, <2>3 DEF GenerationsGrow
<1>14. UpstreamSession(t)' \notin full'
  <2> SUFFICES ASSUME UpstreamSession(t)' \in full' PROVE FALSE
    OBVIOUS
  <2>1. UpstreamSession(t)' = <<acct[t], chat[t], new>>
    BY <1>1, <1>7 DEF UpstreamSession
  <2>2. k \notin evicted' /\ new < Current(table', k)
    BY <1>1, <1>6, <1>12, <2>1
  <2>3. new \in Nat
    BY <1>2 DEF Generations, AdapterBounds
  <2> QED
    BY <1>5, <2>2, <2>3
<1> QED
  BY <1>8, <1>9, <1>10, <1>11, <1>13, <1>14 DEF AdapterInv

\* Every step of the adapter keeps its invariant.
LEMMA AdapterStepKeeps ==
  ASSUME AdapterBounds, AdapterInv, [Next]_vars
  PROVE  AdapterInv'
<1>1. ASSUME NEW t \in Turns, NEW c \in Chats \cup {Nowhere}, Begin(t, c) PROVE AdapterInv'
  BY <1>1, BeginKeeps
<1>2. ASSUME NEW t \in Turns, SessionRefused(t) \/ \E a \in Pool : SessionGranted(t, a)
      PROVE  AdapterInv'
  BY <1>2, AskingKeeps
<1>3. ASSUME NEW t \in Turns, Send(t) PROVE AdapterInv'
  BY <1>3, SendKeeps
<1>4. ASSUME NEW t \in Turns, Resend(t) PROVE AdapterInv'
  BY <1>4, ResendKeeps
<1>5. ASSUME NEW t \in Turns, AttemptFails(t) \/ Answered(t) \/ StreamBreaks(t)
      PROVE  AdapterInv'
  BY <1>5, AnswersKeep
<1>6. ASSUME NEW t \in Turns, Reported(t) \/ ReportThrows(t) \/ Completes(t) \/ Abandoned(t)
      PROVE  AdapterInv'
  BY <1>6, SettleKeeps
<1>7. CASE Tick
  BY <1>7, TickKeeps
<1>8. CASE UNCHANGED vars
  <2>1. UNCHANGED <<pc, chat, acct, generation, resent, holds, slots, table, full, evicted,
                    reports, records, tick, leaked>>
    BY <1>8 DEF vars
  <2>2. AdapterTypes' /\ SlotsAreHeld' /\ TurnsAreBooked'
    BY <2>1 DEF AdapterInv, AdapterTypes, SlotsAreHeld, TurnsAreBooked, TurnIsBooked
  <2>3. SlotsAreCounted'
    BY <2>1, CountersKept DEF AdapterInv, Holders
  <2>4. GenerationsGrow'
    BY <2>1, TableKept DEF AdapterInv, bumps
  <2> QED
    BY <2>2, <2>3, <2>4 DEF AdapterInv
<1> QED
  BY <1>1, <1>2, <1>3, <1>4, <1>5, <1>6, <1>7, <1>8 DEF Next

\* In every behaviour of the adapter its invariant holds.
LEMMA AdapterAlways ==
  ASSUME AdapterBounds
  PROVE  Spec => []AdapterInv
<1>1. Init => AdapterInv
  BY AdapterStarts
<1>2. AdapterInv /\ [Next]_vars => AdapterInv'
  BY AdapterStepKeeps
<1> QED
  BY <1>1, <1>2, PTL DEF Spec

\* Lists as the properties speak of them.
LEMMA ListsOfOne ==
  ASSUME NEW S, NEW l \in Seq(S)
  PROVE  /\ l = <<TRUE>> => Len(l) = 1 /\ l[1] = TRUE
         /\ l = <<FALSE>> => Len(l) = 1 /\ l[1] = FALSE
         /\ l = <<>> <=> Len(l) = 0
<1>1. l = <<>> <=> Len(l) = 0
  BY EmptySeq, LenProperties
<1>2. ASSUME NEW x, l = <<x>> PROVE Len(l) = 1 /\ l[1] = x
  BY <1>2
<1> QED
  BY <1>1, <1>2

\* The invariant says what a turn's end promises.
LEMMA SettledOnce ==
  ASSUME AdapterBounds, AdapterInv
  PROVE  TurnsSettleOnce
<1>1. \A a \in Pool :
        /\ Count(a) <= Cardinality(Holders(a))
        /\ a \notin leaked => Count(a) = Cardinality(Holders(a))
  BY CountsAreRight
<1>2. ASSUME NEW t \in Turns
      PROVE  /\ Len(records[t]) <= 1 /\ Len(reports[t]) <= 1
             /\ records[t] = <<TRUE>> => reports[t] = <<>>
             /\ records[t] = <<FALSE>> => reports[t] # <<>>
  <2>1. reports[t] \in Seq({"failed", "content"}) /\ records[t] \in Seq(BOOLEAN)
    BY DEF AdapterInv, AdapterTypes
  <2>2. /\ Len(records[t]) <= 1 /\ Len(reports[t]) <= 1
        /\ Len(records[t]) = 1 =>
             \/ records[t][1] = TRUE /\ Len(reports[t]) = 0
             \/ records[t][1] = FALSE /\ Len(reports[t]) = 1
    BY DEF AdapterInv, TurnsAreBooked, TurnIsBooked
  <2>3. ASSUME records[t] = <<TRUE>> PROVE reports[t] = <<>>
    <3>1. Len(records[t]) = 1 /\ records[t][1] = TRUE
      BY <2>1, <2>3, ListsOfOne
    <3>2. Len(reports[t]) = 0
      BY <2>2, <3>1
    <3> QED
      BY <2>1, <3>2, ListsOfOne
  <2>4. ASSUME records[t] = <<FALSE>> PROVE reports[t] # <<>>
    <3>1. Len(records[t]) = 1 /\ records[t][1] = FALSE
      BY <2>1, <2>4, ListsOfOne
    <3>2. Len(reports[t]) = 1
      BY <2>2, <3>1
    <3> QED
      BY <2>1, <3>2, ListsOfOne
  <2> QED
    BY <2>2, <2>3, <2>4
<1> QED
  BY <1>1, <1>2 DEF TurnsSettleOnce

\* Only sending again marks a turn as sent again.
LEMMA OnlyResendsMark ==
  ASSUME AdapterBounds, AdapterInv, [Next]_vars, NEW t \in Turns, ~resent[t], resent'[t]
  PROVE  Named(t) => UpstreamSession(t)' \notin full'
<1>0. resent \in [Turns -> BOOLEAN]
  BY DEF AdapterInv, AdapterTypes
<1>1. ASSUME NEW u \in Turns,
             \/ \E c \in Chats \cup {Nowhere} : Begin(u, c)
             \/ SessionRefused(u) \/ \E a \in Pool : SessionGranted(u, a)
             \/ Send(u) \/ AttemptFails(u) \/ Answered(u) \/ StreamBreaks(u)
      PROVE  FALSE
  BY <1>1 DEF Begin, SessionRefused, SessionGranted, Send, AttemptFails, Answered, StreamBreaks
<1>2. ASSUME NEW u \in Turns, Reported(u) \/ ReportThrows(u) \/ Completes(u) \/ Abandoned(u)
      PROVE  FALSE
  BY <1>0, <1>2 DEF Reported, ReportThrows, Completes, Abandoned, Settle
<1>3. ASSUME NEW u \in Turns, Resend(u)
      PROVE  Named(t) => UpstreamSession(t)' \notin full'
  <2>1. u = t
    BY <1>0, <1>3 DEF Resend
  <2> QED
    BY <1>3, <2>1, ResendKeeps
<1>4. ~Tick /\ ~UNCHANGED vars
  BY DEF Tick, vars, turn
<1> QED
  BY <1>1, <1>2, <1>3, <1>4 DEF Next

\* Every variable of the adapter has its type.
THEOREM AdapterTypeCorrect ==
  ASSUME AdapterBounds
  PROVE  Spec => []TypeOK
<1>1. AdapterInv => TypeOK
  BY AdapterTypesAreTypes DEF AdapterInv
<1> QED
  BY <1>1, AdapterAlways, PTL

\* On whatever path a turn ends it gives its slot back once: the counters by which the pool
\* spreads load say how many streams an account has, or less where one was discarded under
\* them, and a turn is reported and booked at most once (noteRequestSettled in the finally
\* of stream).
THEOREM SlotsComeBack ==
  ASSUME AdapterBounds
  PROVE  Spec => []TurnsSettleOnce
<1>1. AdapterInv => TurnsSettleOnce
  BY SettledOnce
<1> QED
  BY <1>1, AdapterAlways, PTL

\* A turn that is sent again goes to an upstream session that nobody found full, however
\* many turns of its conversation hit the wall at once (bumpSessionGeneration), if the
\* account has the e-mail address that names sessions.
THEOREM ResendsReachAFreshSession ==
  ASSUME AdapterBounds
  PROVE  Spec => ResendsEscapeTheWall
<1>1. AdapterInv /\ [Next]_vars =>
        [\A t \in Turns : ~resent[t] /\ resent'[t] /\ Named(t)
                           => UpstreamSession(t)' \notin full']_vars
  BY OnlyResendsMark
<1> QED
  BY <1>1, AdapterAlways, PTL DEF Spec, ResendsEscapeTheWall

-----------------------------------------------------------------------------
(* The thinking budgets.                                                    *)

\* The texts that may be typed are counted.
EditBounds == MaxEdits \in Nat

Save == [stage: Budget!Steps \cup {"none", "asked", "answered"}, value: Budget!Text,
         doc: Budget!Doc]

\* The steps of a save.
SaveSteps(c, f) ==
  \/ Budget!Blur(c, f) \/ Budget!SetFails(c, f) \/ Budget!Saved(c, f)
  \/ Budget!BeginSet(c, f) \/ Budget!OpenTmp(c, f) \/ Budget!FillTmp(c, f)
  \/ Budget!AnswerSet(c, f) \/ Budget!WriteFails(c, f)

\* What each of them makes of the save.
SaveAfter(c, f, save) ==
  /\ Budget!Blur(c, f) => save.stage = "asked"
  /\ Budget!SetFails(c, f) \/ Budget!Saved(c, f) \/ Budget!WriteFails(c, f) => save.stage = "none"
  /\ Budget!BeginSet(c, f) =>
       save = [stage |-> "read", value |-> saving[c][f].value,
               doc |-> [file EXCEPT ![f] = saving[c][f].value]]
  /\ Budget!OpenTmp(c, f) => save = [saving[c][f] EXCEPT !.stage = "open"]
  /\ Budget!FillTmp(c, f) => save = [saving[c][f] EXCEPT !.stage = "full"]
  /\ Budget!AnswerSet(c, f) => save = [saving[c][f] EXCEPT !.stage = "answered"]

\* A step of a save changes that save and no other.
LEMMA SavesMoveAlone ==
  ASSUME Budget!TypeOK, NEW c \in Cards, NEW f \in Fields, SaveSteps(c, f)
  PROVE  /\ saving' \in [Cards -> [Fields -> Save]]
         /\ \A d \in Cards, h \in Fields : d # c \/ h # f => saving'[d][h] = saving[d][h]
         /\ SaveAfter(c, f, saving'[c][f])
<1>0. /\ file \in Budget!Doc /\ saving \in [Cards -> [Fields -> Save]]
      /\ draft \in [Cards -> [Fields -> Budget!Text]]
      /\ saving[c][f] \in Save /\ draft[c][f] \in Budget!Text
  BY DEF Budget!TypeOK, Save
<1> DEFINE Moved(save) == saving' = [saving EXCEPT ![c] = [saving[c] EXCEPT ![f] = save]]
<1>1. ASSUME NEW save \in Save, Moved(save)
      PROVE  /\ saving' \in [Cards -> [Fields -> Save]] /\ saving'[c][f] = save
             /\ \A d \in Cards, h \in Fields : d # c \/ h # f => saving'[d][h] = saving[d][h]
  BY <1>0, <1>1
<1> DEFINE Alone == /\ saving' \in [Cards -> [Fields -> Save]]
                    /\ \A d \in Cards, h \in Fields : d # c \/ h # f => saving'[d][h] = saving[d][h]
<1>2. ASSUME Budget!Blur(c, f) PROVE Alone /\ saving'[c][f].stage = "asked"
  <2> DEFINE save == [saving[c][f] EXCEPT !.stage = "asked", !.value = draft[c][f]]
  <2>1. save \in Save /\ save.stage = "asked"
    BY <1>0 DEF Save
  <2>2. Moved(save)
    BY <1>0, <1>2 DEF Budget!Blur
  <2> HIDE DEF save, Moved
  <2> QED
    BY <1>1, <2>1, <2>2
<1>3. ASSUME Budget!BeginSet(c, f)
      PROVE  Alone /\ saving'[c][f] = [stage |-> "read", value |-> saving[c][f].value,
                                       doc |-> [file EXCEPT ![f] = saving[c][f].value]]
  <2> DEFINE value == saving[c][f].value
             save == [stage |-> "read", value |-> value, doc |-> [file EXCEPT ![f] = value]]
  <2>1. /\ value \in Budgets \cup {Unset}
        /\ saving' = [saving EXCEPT ![c][f] = [stage |-> "read", value |-> value,
                                               doc |-> [file EXCEPT ![f] = value]]]
    BY <1>0, <1>3 DEF Budget!BeginSet, Budget!Base, Budget!Text, Save
  <2>2. [file EXCEPT ![f] = value] \in Budget!Doc
    BY <1>0, <2>1 DEF Budget!Doc
  <2>3. save \in Save
    BY <1>0, <2>1, <2>2 DEF Save, Budget!Steps, Budget!Text
  <2>4. Moved(save)
    BY <1>0, <2>1 DEF Save
  <2>5. save = [stage |-> "read", value |-> saving[c][f].value,
                doc |-> [file EXCEPT ![f] = saving[c][f].value]]
    OBVIOUS
  <2> HIDE DEF save, Moved
  <2> QED
    BY <1>1, <2>3, <2>4, <2>5
<1>4. ASSUME NEW stage \in Budget!Steps \cup {"answered"},
             saving' = [saving EXCEPT ![c][f].stage = stage]
      PROVE  Alone /\ saving'[c][f] = [saving[c][f] EXCEPT !.stage = stage]
  <2> DEFINE save == [saving[c][f] EXCEPT !.stage = stage]
  <2>1. save \in Save /\ Moved(save)
    BY <1>0, <1>4 DEF Save
  <2>2. save = [saving[c][f] EXCEPT !.stage = stage]
    OBVIOUS
  <2> HIDE DEF save, Moved
  <2> QED
    BY <1>1, <2>1, <2>2
<1>5. ASSUME Budget!OpenTmp(c, f)
      PROVE  Alone /\ saving'[c][f] = [saving[c][f] EXCEPT !.stage = "open"]
  <2>1. "open" \in Budget!Steps \cup {"answered"} /\ saving' = [saving EXCEPT ![c][f].stage = "open"]
    BY <1>5 DEF Budget!OpenTmp, Budget!Steps
  <2> QED
    BY <1>4, <2>1
<1>6. ASSUME Budget!FillTmp(c, f)
      PROVE  Alone /\ saving'[c][f] = [saving[c][f] EXCEPT !.stage = "full"]
  <2>1. "full" \in Budget!Steps \cup {"answered"} /\ saving' = [saving EXCEPT ![c][f].stage = "full"]
    BY <1>6 DEF Budget!FillTmp, Budget!Steps
  <2> QED
    BY <1>4, <2>1
<1>7. ASSUME Budget!AnswerSet(c, f)
      PROVE  Alone /\ saving'[c][f] = [saving[c][f] EXCEPT !.stage = "answered"]
  <2>1. "answered" \in Budget!Steps \cup {"answered"}
        /\ saving' = [saving EXCEPT ![c][f].stage = "answered"]
    BY <1>7 DEF Budget!AnswerSet
  <2> QED
    BY <1>4, <2>1
<1>8. ASSUME Budget!SetFails(c, f) \/ Budget!Saved(c, f) \/ Budget!WriteFails(c, f)
      PROVE  Alone /\ saving'[c][f].stage = "none"
  <2>1. Budget!NoSave \in Save /\ Budget!NoSave.stage = "none"
    BY DEF Save, Budget!NoSave, Budget!Nothing, Budget!Doc, Budget!Text
  <2>2. Moved(Budget!NoSave)
    BY <1>0, <1>8 DEF Budget!SetFails, Budget!Saved, Budget!WriteFails
  <2> HIDE DEF Moved
  <2> QED
    BY <1>1, <2>1, <2>2
<1> HIDE DEF Alone
<1>9. Alone
  BY <1>2, <1>3, <1>5, <1>6, <1>7, <1>8, SaveSteps(c, f) DEF SaveSteps
<1>10. SaveAfter(c, f, saving'[c][f])
  BY <1>2, <1>3, <1>5, <1>6, <1>7, <1>8 DEF SaveAfter
<1> QED
  BY <1>9, <1>10 DEF Alone

\* Every variable of the thinking budgets keeps its type.
LEMMA BudgetTypesAreKept ==
  ASSUME EditBounds, Budget!TypeOK, [Budget!Next]_(Budget!vars)
  PROVE  Budget!TypeOK'
<1> USE DEF Budget!TypeOK, Budget!Doc, Budget!Text
<1>1. ASSUME NEW s \in Stores, Budget!Read(s) \/ Budget!IntervalEnds(s) PROVE Budget!TypeOK'
  <2>1. UNCHANGED <<file, tmp, handle, home, owed, contested, serves, loading, loaded, stored,
                    draft, saving, touched, edits>>
    <3>1. UNCHANGED Budget!cardVars /\ UNCHANGED Budget!diskVars /\ saving' = saving
      BY <1>1 DEF Budget!Read, Budget!IntervalEnds
    <3> QED
      BY <3>1 DEF Budget!cardVars, Budget!diskVars
  <2>2. copy' \in [Stores -> Budget!Doc]
    <3>1. Budget!Revalidated(s) \in Budget!Doc
      BY DEF Budget!Revalidated
    <3> QED
      BY <1>1, <3>1 DEF Budget!Read, Budget!IntervalEnds
  <2>3. recent' \in [Stores -> BOOLEAN]
    BY <1>1 DEF Budget!Read, Budget!IntervalEnds, Budget!Looks
  <2> QED
    BY <2>1, <2>2, <2>3
<1>2. ASSUME NEW c \in Cards,
             Budget!Open(c) \/ Budget!AnswerGet(c) \/ Budget!Load(c) \/ Budget!LoadFails(c)
      PROVE  Budget!TypeOK'
  <2> USE DEF Budget!hostVars, Budget!diskVars
  <2>1. CASE Budget!Open(c)
    BY <2>1 DEF Budget!Open
  <2>2. CASE Budget!AnswerGet(c)
    BY <2>2 DEF Budget!AnswerGet, Budget!Revalidated, Budget!Looks
  <2>3. CASE Budget!Load(c)
    <3>1. loading[c].doc \in Budget!Doc
      OBVIOUS
    <3>2. Budget!DraftsOf(loading[c].doc) \in [Fields -> Budgets \cup {Refused, Unset}]
      BY <3>1 DEF Budget!DraftsOf
    <3> QED
      BY <2>3, <3>1, <3>2 DEF Budget!Load, Budget!NoLoad, Budget!Nothing
  <2>4. CASE Budget!LoadFails(c)
    BY <2>4 DEF Budget!LoadFails, Budget!NoLoad, Budget!Nothing
  <2> QED
    BY <1>2, <2>1, <2>2, <2>3, <2>4
<1>3. ASSUME NEW c \in Cards, NEW f \in Fields,
             \E text \in Budget!Text : Budget!Type(c, f, text)
      PROVE  Budget!TypeOK'
  BY <1>3 DEF Budget!Type, EditBounds, Budget!hostVars, Budget!diskVars
<1>4. ASSUME NEW c \in Cards, NEW f \in Fields, SaveSteps(c, f)
      PROVE  Budget!TypeOK'
  <2>1. saving' \in [Cards -> [Fields -> [stage: Budget!Steps \cup {"none", "asked", "answered"},
                                          value: Budget!Text, doc: Budget!Doc]]]
    BY <1>4, SavesMoveAlone DEF Save
  <2>2. saving[c][f].doc \in Budget!Doc /\ saving[c][f].value \in Budget!Text
    OBVIOUS
  <2>3. CASE Budget!Blur(c, f) \/ Budget!SetFails(c, f)
    BY <2>1, <2>3 DEF Budget!Blur, Budget!SetFails, Budget!hostVars, Budget!diskVars
  <2>4. CASE Budget!Saved(c, f)
    <3>1. stored' \in [Cards -> Budget!Doc]
      BY <2>4 DEF Budget!Saved
    <3> QED
      BY <2>1, <2>4, <3>1 DEF Budget!Saved, Budget!hostVars, Budget!diskVars
  <2>5. CASE Budget!BeginSet(c, f)
    <3>1. contested' \in SUBSET Fields /\ copy' \in [Stores -> Budget!Doc]
          /\ recent' \in [Stores -> BOOLEAN]
      BY <2>5 DEF Budget!BeginSet, Budget!Looks
    <3>2. UNCHANGED <<file, tmp, handle, owed, Budget!cardVars>>
      BY <2>5 DEF Budget!BeginSet
    <3> QED
      BY <2>1, <2>5, <3>1, <3>2 DEF Budget!BeginSet, Budget!cardVars
  <2>6. CASE Budget!OpenTmp(c, f)
    <3>1. UNCHANGED <<file, owed, contested, copy, recent, Budget!cardVars>> /\ tmp' \in Budget!Doc
          /\ handle' \in [Processes -> {"none", "tmp", "file"}]
      BY <2>6 DEF Budget!OpenTmp, Budget!Nothing
    <3> QED
      BY <2>1, <2>6, <3>1 DEF Budget!OpenTmp, Budget!cardVars
  <2>7. CASE Budget!FillTmp(c, f)
    <3>1. UNCHANGED <<owed, contested, copy, recent, Budget!cardVars>>
          /\ handle' \in [Processes -> {"none", "tmp", "file"}]
      BY <2>7 DEF Budget!FillTmp
    <3>2. \A was, text : text \in Budget!Doc => Budget!Over(was, text) \subseteq Budget!Doc
      BY DEF Budget!Over, Budget!Nothing
    <3>3. tmp' \in Budget!Doc \cup {Absent} /\ file' \in Budget!Doc
      BY <2>2, <2>7, <3>2 DEF Budget!FillTmp
    <3> QED
      BY <2>1, <2>7, <3>1, <3>3 DEF Budget!FillTmp, Budget!cardVars
  <2>8. CASE Budget!AnswerSet(c, f)
    <3>1. UNCHANGED <<recent, Budget!cardVars>> /\ tmp' = Absent
          /\ handle' \in [Processes -> {"none", "tmp", "file"}]
      BY <2>8 DEF Budget!AnswerSet
    <3>2. file' \in Budget!Doc /\ copy' \in [Stores -> Budget!Doc] /\ contested' \in SUBSET Fields
      BY <2>2, <2>8 DEF Budget!AnswerSet
    <3>3. owed' \in [Fields -> Budget!Text]
      <4>1. owed' = [owed EXCEPT ![f] = saving[c][f].value]
        BY <2>8 DEF Budget!AnswerSet
      <4>2. owed \in [Fields -> Budget!Text]
        OBVIOUS
      <4> QED
        BY <2>2, <4>1, <4>2
    <3> QED
      BY <2>1, <2>8, <3>1, <3>2, <3>3 DEF Budget!AnswerSet, Budget!cardVars
  <2>9. CASE Budget!WriteFails(c, f)
    BY <2>1, <2>9 DEF Budget!WriteFails, Budget!cardVars
  <2> QED
    BY <1>4, <2>3, <2>4, <2>5, <2>6, <2>7, <2>8, <2>9 DEF SaveSteps
<1>6. CASE UNCHANGED Budget!vars
  BY <1>6 DEF Budget!vars
<1> QED
  BY <1>1, <1>2, <1>3, <1>4, <1>6 DEF Budget!Next, SaveSteps

\* The thinking budgets start with the types they keep.
LEMMA BudgetTypesStart ==
  ASSUME EditBounds, Budget!Init
  PROVE  Budget!TypeOK
  BY DEF Budget!Init, Budget!TypeOK, Budget!Doc, Budget!Text, Budget!NoLoad, Budget!NoSave,
         Budget!Nothing, Budget!Steps, EditBounds

\* In every behaviour of the thinking budgets the types hold.
THEOREM BudgetTypesCorrect ==
  ASSUME EditBounds
  PROVE  Budget!Spec => []Budget!TypeOK
<1>1. Budget!Init => Budget!TypeOK
  BY BudgetTypesStart
<1>2. Budget!TypeOK /\ [Budget!Next]_(Budget!vars) => Budget!TypeOK'
  BY BudgetTypesAreKept
<1> QED
  BY <1>1, <1>2, PTL DEF Budget!Spec

\* A process is in the middle of one save at most, and so is the machine as long as no two
\* processes have run into each other.
Same(c, d, f, h) == c = d /\ f = h
OneSavePerProcess ==
  \A c, d \in Cards : \A f, h \in Fields :
    Budget!Writes(c, f) /\ Budget!Writes(d, h)
      /\ (contested # Fields \/ Budget!ProcessOf(c) = Budget!ProcessOf(d)) => Same(c, d, f, h)

\* What is written in field f has its new value and, when nobody runs into the save, the
\* last saved values of the others, and gets into the temporary file in full.
Sound(c, f) ==
  LET text == saving[c][f].doc
  IN  /\ text[f] = saving[c][f].value
      /\ contested # Fields =>
           /\ \A g \in Fields \ contested : g # f => text[g] = owed[g]
           /\ saving[c][f].stage = "open" =>
                tmp = Budget!Nothing /\ handle[Budget!ProcessOf(c)] = "tmp"
           /\ saving[c][f].stage = "full" => tmp = text

BudgetInv ==
  /\ Budget!TypeOK
  /\ OneSavePerProcess
  /\ \A c \in Cards, f \in Fields : Budget!Writes(c, f) => Sound(c, f)
  /\ Budget!SavedBudgetsStand

\* What the invariant rests on when a step is none of a save being written.
LEMMA BudgetsRest ==
  ASSUME BudgetInv, Budget!TypeOK',
         UNCHANGED <<file, tmp, handle, home, serves, owed, contested>>,
         \A c \in Cards, f \in Fields : Budget!Writes(c, f)' => saving'[c][f] = saving[c][f]
  PROVE  BudgetInv'
<1>1. \A c \in Cards : Budget!ProcessOf(c)' = Budget!ProcessOf(c)
  BY DEF Budget!ProcessOf
<1>2. \A c \in Cards, f \in Fields : Budget!Writes(c, f)' => Budget!Writes(c, f)
  BY DEF Budget!Writes
<1>3. OneSavePerProcess'
  BY <1>1, <1>2 DEF BudgetInv, OneSavePerProcess
<1>4. \A c \in Cards, f \in Fields : Budget!Writes(c, f)' => Sound(c, f)'
  BY <1>1, <1>2 DEF BudgetInv, Sound, Budget!Nothing
<1>5. Budget!SavedBudgetsStand'
  BY DEF BudgetInv, Budget!SavedBudgetsStand
<1> QED
  BY <1>3, <1>4, <1>5 DEF BudgetInv

\* The invariant is kept by the steps of a save being written.
LEMMA BudgetsAreSaved ==
  ASSUME BudgetInv, Budget!TypeOK', NEW c \in Cards, NEW f \in Fields,
         Budget!BeginSet(c, f) \/ Budget!OpenTmp(c, f) \/ Budget!FillTmp(c, f)
           \/ Budget!AnswerSet(c, f) \/ Budget!WriteFails(c, f)
  PROVE  BudgetInv'
<1>0. /\ Budget!TypeOK /\ file \in [Fields -> Budgets \cup {Unset}]
      /\ owed \in [Fields -> Budget!Text] /\ contested \in SUBSET Fields
      /\ handle \in [Processes -> {"none", "tmp", "file"}]
      /\ home \in [Stores -> Processes] /\ serves \in [Cards -> Stores]
      /\ saving[c][f] \in Save /\ saving \in [Cards -> [Fields -> Save]]
  BY DEF BudgetInv, Budget!TypeOK, Budget!Doc, Save
<1>1. /\ UNCHANGED <<home, serves>>
      /\ \A d \in Cards : Budget!ProcessOf(d)' = Budget!ProcessOf(d)
                          /\ Budget!ProcessOf(d) \in Processes
  <2>1. UNCHANGED Budget!cardVars
    BY DEF Budget!BeginSet, Budget!OpenTmp, Budget!FillTmp, Budget!AnswerSet, Budget!WriteFails
  <2> QED
    BY <1>0, <2>1 DEF Budget!cardVars, Budget!ProcessOf
<1>2. /\ \A d \in Cards, h \in Fields : d # c \/ h # f => saving'[d][h] = saving[d][h]
      /\ SaveAfter(c, f, saving'[c][f])
  BY <1>0, SavesMoveAlone DEF SaveSteps
<1>3. \A d \in Cards, h \in Fields :
        d # c \/ h # f => (Budget!Writes(d, h)' <=> Budget!Writes(d, h))
  BY <1>2 DEF Budget!Writes
<1>4. /\ OneSavePerProcess /\ Budget!SavedBudgetsStand
      /\ \A d \in Cards, h \in Fields : Budget!Writes(d, h) => Sound(d, h)
  BY DEF BudgetInv
<1>5. CASE Budget!BeginSet(c, f)
  <2>1. /\ UNCHANGED <<file, tmp, handle, owed>> /\ Budget!Free(Budget!ProcessOf(c))
        /\ contested' = IF \A p \in Processes : Budget!Free(p) THEN contested ELSE Fields
        /\ saving'[c][f] = [stage |-> "read", value |-> saving[c][f].value,
                            doc |-> [file EXCEPT ![f] = saving[c][f].value]]
    BY <1>2, <1>5 DEF Budget!BeginSet, Budget!ProcessOf, SaveAfter
  <2>2. CASE \A p \in Processes : Budget!Free(p)
    <3>1. \A d \in Cards, h \in Fields : Budget!Writes(d, h)' => Same(c, d, f, h)
      BY <1>1, <1>3, <2>2 DEF Budget!Free, Same
    <3>2. OneSavePerProcess'
      BY <3>1 DEF OneSavePerProcess, Same
    <3>3. Budget!SavedBudgetsStand'
      BY <1>4, <2>1, <2>2 DEF Budget!SavedBudgetsStand
    <3>4. Sound(c, f)'
      BY <1>0, <1>4, <2>1, <2>2 DEF Sound, Budget!SavedBudgetsStand
    <3> QED
      BY <3>1, <3>2, <3>3, <3>4 DEF BudgetInv, Same
  <2>3. CASE ~\A p \in Processes : Budget!Free(p)
    <3>1. contested' = Fields
      BY <2>1, <2>3
    <3>2. OneSavePerProcess'
      <4>1. ASSUME NEW d \in Cards, NEW h \in Fields, Budget!Writes(d, h)',
                   Budget!ProcessOf(d) = Budget!ProcessOf(c)
            PROVE  Same(c, d, f, h)
        BY <1>3, <2>1, <4>1 DEF Budget!Free, Same
      <4> QED
        BY <1>1, <1>3, <1>4, <3>1, <4>1 DEF OneSavePerProcess, Same
    <3>3. \A d \in Cards, h \in Fields : Budget!Writes(d, h)' => Sound(d, h)'
      BY <1>0, <1>2, <1>3, <1>4, <2>1, <3>1 DEF Sound
    <3> QED
      BY <3>1, <3>2, <3>3 DEF BudgetInv, Budget!SavedBudgetsStand
  <2> QED
    BY <2>2, <2>3
<1>6. ASSUME Budget!OpenTmp(c, f) \/ Budget!FillTmp(c, f)
      PROVE  /\ Budget!Writes(c, f) /\ UNCHANGED <<owed, contested>>
             /\ saving'[c][f].value = saving[c][f].value /\ saving'[c][f].doc = saving[c][f].doc
             /\ OneSavePerProcess'
  <2>1. /\ Budget!Writes(c, f) /\ UNCHANGED <<owed, contested>>
        /\ saving'[c][f].value = saving[c][f].value /\ saving'[c][f].doc = saving[c][f].doc
    BY <1>0, <1>2, <1>6 DEF Budget!OpenTmp, Budget!FillTmp, Budget!Writes, Budget!Steps, SaveAfter,
       Save
  <2>2. \A d \in Cards, h \in Fields : Budget!Writes(d, h)' => Budget!Writes(d, h)
    BY <1>3, <2>1
  <2> QED
    BY <1>1, <1>4, <2>1, <2>2 DEF OneSavePerProcess
<1>7. ASSUME contested # Fields, Budget!Writes(c, f),
             NEW d \in Cards, NEW h \in Fields, Budget!Writes(d, h)
      PROVE  Same(c, d, f, h)
  BY <1>4, <1>7 DEF OneSavePerProcess
<1>8. CASE Budget!OpenTmp(c, f)
  <2>1. /\ tmp' = Budget!Nothing /\ handle' = [handle EXCEPT ![Budget!ProcessOf(c)] = "tmp"]
        /\ file' = file /\ saving'[c][f].stage = "open"
    BY <1>0, <1>2, <1>8 DEF Budget!OpenTmp, SaveAfter, Save
  <2>2. Sound(c, f)'
    BY <1>0, <1>1, <1>4, <1>6, <1>8, <2>1 DEF Sound, Budget!Nothing
  <2>3. ASSUME NEW d \in Cards, NEW h \in Fields, Budget!Writes(d, h)', d # c \/ h # f
        PROVE  Sound(d, h)'
    <3>1. contested = Fields /\ Budget!Writes(d, h)
      BY <1>3, <1>6, <1>7, <1>8, <2>3 DEF Same
    <3> QED
      BY <1>2, <1>4, <1>6, <1>8, <2>3, <3>1 DEF Sound
  <2>4. Budget!SavedBudgetsStand'
    BY <1>4, <1>6, <1>8, <2>1 DEF Budget!SavedBudgetsStand
  <2> QED
    BY <1>6, <1>8, <2>2, <2>3, <2>4 DEF BudgetInv
<1>9. CASE Budget!FillTmp(c, f)
  <2>1. /\ saving'[c][f].stage = "full" /\ saving[c][f].stage = "open"
        /\ handle[Budget!ProcessOf(c)] = "tmp" /\ tmp = Budget!Nothing =>
             file' = file /\ tmp' = saving[c][f].doc
    BY <1>0, <1>2, <1>9 DEF Budget!FillTmp, Budget!Over, SaveAfter, Save
  <2>2. contested # Fields => file' = file /\ tmp' = saving[c][f].doc
    BY <1>4, <1>6, <1>9, <2>1 DEF Sound
  <2>3. Sound(c, f)'
    BY <1>0, <1>4, <1>6, <1>9, <2>1, <2>2 DEF Sound
  <2>4. ASSUME NEW d \in Cards, NEW h \in Fields, Budget!Writes(d, h)', d # c \/ h # f
        PROVE  Sound(d, h)'
    <3>1. contested = Fields /\ Budget!Writes(d, h)
      BY <1>3, <1>6, <1>7, <1>9, <2>4 DEF Same
    <3> QED
      BY <1>2, <1>4, <1>6, <1>9, <2>4, <3>1 DEF Sound
  <2>5. Budget!SavedBudgetsStand'
    BY <1>4, <1>6, <1>9, <2>2 DEF Budget!SavedBudgetsStand
  <2> QED
    BY <1>6, <1>9, <2>3, <2>4, <2>5 DEF BudgetInv
<1>10. CASE Budget!WriteFails(c, f)
  <2>1. /\ UNCHANGED <<file, tmp, owed, contested>> /\ Budget!Writes(c, f)
        /\ saving'[c][f].stage = "none"
    BY <1>2, <1>10 DEF Budget!WriteFails, SaveAfter
  <2>2. ~Budget!Writes(c, f)'
    BY <2>1 DEF Budget!Writes, Budget!Steps
  <2>3. OneSavePerProcess'
    BY <1>1, <1>3, <1>4, <2>1, <2>2 DEF OneSavePerProcess
  <2>4. ASSUME NEW d \in Cards, NEW h \in Fields, Budget!Writes(d, h)' PROVE Sound(d, h)'
    <3>1. Budget!Writes(d, h) /\ (d # c \/ h # f)
      BY <1>3, <2>2, <2>4
    <3>2. contested = Fields
      BY <1>7, <2>1, <3>1 DEF Same
    <3> QED
      BY <1>2, <1>4, <2>1, <3>1, <3>2 DEF Sound
  <2>5. Budget!SavedBudgetsStand'
    BY <1>4, <2>1 DEF Budget!SavedBudgetsStand
  <2> QED
    BY <2>3, <2>4, <2>5 DEF BudgetInv
<1>11. CASE Budget!AnswerSet(c, f)
  <2> DEFINE text == saving[c][f].doc
             others == \A p \in Processes \ {Budget!ProcessOf(c)} : Budget!Free(p)
  <2>1. /\ file' = tmp /\ owed' = [owed EXCEPT ![f] = saving[c][f].value]
        /\ contested' = IF tmp = text /\ others THEN contested \ {f} ELSE contested
        /\ saving'[c][f].stage = "answered" /\ saving[c][f].stage = "full"
    BY <1>0, <1>2, <1>11 DEF Budget!AnswerSet, Budget!ProcessOf, SaveAfter, Save
  <2>2. Budget!Writes(c, f) /\ ~Budget!Writes(c, f)'
    BY <2>1 DEF Budget!Writes, Budget!Steps
  <2>3. text[f] = saving[c][f].value
    BY <1>4, <2>2 DEF Sound
  <2> HIDE DEF text, others
  <2>4. CASE contested # Fields
    <3>1. tmp = text /\ \A g \in Fields \ contested : g # f => text[g] = owed[g]
      BY <1>4, <2>1, <2>2, <2>4 DEF Sound, text
    <3>2. others
      BY <1>7, <2>2, <2>4 DEF others, Budget!Free, Same
    <3>3. contested' = contested \ {f}
      BY <2>1, <3>1, <3>2
    <3>4. \A d \in Cards, h \in Fields : ~Budget!Writes(d, h)'
      BY <1>3, <1>7, <2>2, <2>4 DEF Same
    <3>5. Budget!SavedBudgetsStand'
      BY <1>0, <2>1, <2>3, <3>1, <3>3 DEF Budget!SavedBudgetsStand
    <3> QED
      BY <3>4, <3>5 DEF BudgetInv, OneSavePerProcess
  <2>5. CASE contested = Fields /\ tmp = text /\ others
    <3>1. \A d \in Cards, h \in Fields : ~Budget!Writes(d, h)'
      <4>1. ASSUME NEW d \in Cards, NEW h \in Fields, Budget!Writes(d, h)' PROVE FALSE
        <5>1. Budget!Writes(d, h) /\ (d # c \/ h # f)
          BY <1>3, <2>2, <4>1
        <5>2. Budget!ProcessOf(d) = Budget!ProcessOf(c)
          BY <1>1, <2>5, <5>1 DEF others, Budget!Free
        <5> QED
          BY <1>4, <2>2, <5>1, <5>2 DEF OneSavePerProcess, Same
      <4> QED
        BY <4>1
    <3>2. Budget!SavedBudgetsStand'
      BY <1>0, <2>1, <2>3, <2>5 DEF Budget!SavedBudgetsStand
    <3> QED
      BY <3>1, <3>2 DEF BudgetInv, OneSavePerProcess
  <2>6. CASE contested = Fields /\ ~(tmp = text /\ others)
    <3>1. contested' = Fields
      BY <2>1, <2>6
    <3>2. OneSavePerProcess'
      BY <1>1, <1>3, <1>4, <2>2, <3>1 DEF OneSavePerProcess
    <3>3. ASSUME NEW d \in Cards, NEW h \in Fields, Budget!Writes(d, h)' PROVE Sound(d, h)'
      <4>1. Budget!Writes(d, h) /\ (d # c \/ h # f)
        BY <1>3, <2>2, <3>3
      <4> QED
        BY <1>2, <1>4, <3>1, <4>1 DEF Sound
    <3> QED
      BY <3>1, <3>2, <3>3 DEF BudgetInv, Budget!SavedBudgetsStand
  <2> QED
    BY <2>4, <2>5, <2>6
<1> QED
  BY <1>5, <1>8, <1>9, <1>10, <1>11

\* The invariant is kept by every step.
LEMMA BudgetInvKept ==
  ASSUME EditBounds, BudgetInv, [Budget!Next]_(Budget!vars)
  PROVE  BudgetInv'
<1>0. Budget!TypeOK /\ Budget!TypeOK'
  BY BudgetTypesAreKept DEF BudgetInv
<1>1. ASSUME NEW s \in Stores, Budget!Read(s) \/ Budget!IntervalEnds(s) PROVE BudgetInv'
  <2>1. UNCHANGED Budget!cardVars /\ UNCHANGED Budget!diskVars /\ saving' = saving
    BY <1>1 DEF Budget!Read, Budget!IntervalEnds
  <2> QED
    BY <1>0, <2>1, BudgetsRest DEF Budget!cardVars, Budget!diskVars
<1>2. ASSUME NEW c \in Cards,
             Budget!Open(c) \/ Budget!AnswerGet(c) \/ Budget!Load(c) \/ Budget!LoadFails(c)
      PROVE  BudgetInv'
  <2>1. UNCHANGED <<file, tmp, handle, home, serves, owed, contested, saving>>
    BY <1>2 DEF Budget!Open, Budget!AnswerGet, Budget!Load, Budget!LoadFails, Budget!hostVars,
       Budget!diskVars
  <2> QED
    BY <1>0, <2>1, BudgetsRest
<1>3. ASSUME NEW c \in Cards, NEW f \in Fields,
             \E text \in Budget!Text : Budget!Type(c, f, text)
      PROVE  BudgetInv'
  <2>1. UNCHANGED <<file, tmp, handle, home, serves, owed, contested, saving>>
    BY <1>3 DEF Budget!Type, Budget!hostVars, Budget!diskVars
  <2> QED
    BY <1>0, <2>1, BudgetsRest
<1>4. ASSUME NEW c \in Cards, NEW f \in Fields,
             Budget!Blur(c, f) \/ Budget!SetFails(c, f) \/ Budget!Saved(c, f)
      PROVE  BudgetInv'
  <2>1. UNCHANGED <<file, tmp, handle, home, serves, owed, contested>>
    BY <1>4 DEF Budget!Blur, Budget!SetFails, Budget!Saved, Budget!hostVars, Budget!diskVars
  <2>2. /\ \A d \in Cards, h \in Fields : d # c \/ h # f => saving'[d][h] = saving[d][h]
        /\ SaveAfter(c, f, saving'[c][f])
    BY <1>0, <1>4, SavesMoveAlone DEF SaveSteps
  <2>3. ~Budget!Writes(c, f)'
    BY <1>4, <2>2 DEF SaveAfter, Budget!Writes, Budget!Steps
  <2>4. \A d \in Cards, h \in Fields : Budget!Writes(d, h)' => saving'[d][h] = saving[d][h]
    BY <2>2, <2>3
  <2> QED
    BY <1>0, <2>1, <2>4, BudgetsRest
<1>5. CASE UNCHANGED Budget!vars
  BY <1>0, <1>5, BudgetsRest DEF Budget!vars
<1> QED
  BY <1>0, <1>1, <1>2, <1>3, <1>4, <1>5, BudgetsAreSaved DEF Budget!Next

\* The file holds every budget as it was last saved, by whichever store and whatever copies
\* the others had, but for the fields that the saves of two processes at once have put in
\* doubt (ThinkingBudgetStore.write).
THEOREM SavedBudgetsAreKept ==
  ASSUME EditBounds
  PROVE  Budget!Spec => []Budget!SavedBudgetsStand
<1>1. Budget!Init => BudgetInv
  <2>1. Budget!Init => Budget!TypeOK
    BY BudgetTypesStart
  <2>2. Budget!Init => \A c \in Cards, f \in Fields : ~Budget!Writes(c, f)
    BY DEF Budget!Init, Budget!Writes, Budget!NoSave, Budget!Steps
  <2>3. Budget!Init => Budget!SavedBudgetsStand
    BY DEF Budget!Init, Budget!SavedBudgetsStand
  <2> QED
    BY <2>1, <2>2, <2>3 DEF BudgetInv, OneSavePerProcess
<1>2. BudgetInv /\ [Budget!Next]_(Budget!vars) => BudgetInv'
  BY BudgetInvKept
<1>3. BudgetInv => Budget!SavedBudgetsStand
  BY DEF BudgetInv
<1> QED
  BY <1>1, <1>2, <1>3, PTL DEF Budget!Spec

-----------------------------------------------------------------------------
(* The accounts tab.                                                        *)

\* There are finitely many accounts, a message stays for some time, and the clock runs.
PanelBounds == IsFiniteSet(Accounts) /\ MessageTtl \in Nat /\ PanelClock \in Nat \ {0}

\* A list of accounts as the host hands it out: the active one is one of them, or there is
\* none.
ViewRight(v) == v \in Panel!Views /\ v.active \in 0..Len(v.order)

HostRight == pool \in Panel!Views
RowsRight ==
  /\ ViewRight(rows) /\ selected \in 0..Panel!Cardinality(Accounts)
  /\ detail \in [key: Nat, draft: BOOLEAN]
  /\ detail.key = Panel!Resolved(rows, selected)
ActionRight ==
  action \in [kind: Panel!Kinds \cup {"none"}, at: Nat, step: {"none", "calling", "reloading"},
              ok: BOOLEAN]
ReloadsRight ==
  /\ reload \in [Reloads -> [stage: {"idle", "asked", "listed"}, list: Panel!Views]]
  /\ \A r \in Reloads : ViewRight(reload[r].list)
\* A verdict on screen has no dismissal pending but its own.
MessagesRight ==
  /\ verdict \in 0..PanelClock /\ timers \subseteq 1..PanelClock+MessageTtl
  /\ panelTick \in 1..PanelClock
  /\ verdict # 0 => timers \subseteq {verdict + MessageTtl}

\* A list that is not an old one is what the host would hand out now.
ListsAreFresh ==
  /\ old \subseteq Reloads /\ outdated \in BOOLEAN
  /\ \A r \in Reloads :
       reload[r].stage = "listed" /\ r \notin old => reload[r].list = Panel!Shown(pool)
\* An action's own reload is under way only after its effect.
OwnReloadsLast ==
  \A r \in Reloads : r = Own /\ reload[r].stage # "idle" => action.step = "reloading"
\* Rows that are not outdated are the host's accounts, or will be after the reload that an
\* action waits for.
RowsAreExpected == ~outdated => rows = Panel!Shown(pool) \/ action.step = "reloading"

PanelInv ==
  /\ HostRight /\ RowsRight /\ ActionRight /\ ReloadsRight /\ MessagesRight
  /\ ListsAreFresh /\ OwnReloadsLast /\ RowsAreExpected

\* The invariant has the types in it.
LEMMA PanelTypesHold ==
  ASSUME PanelInv
  PROVE  Panel!TypeOK
<1>1. pool \in Panel!Views /\ rows \in Panel!Views /\ \A r \in Reloads : reload[r].list \in Panel!Views
  BY DEF PanelInv, HostRight, RowsRight, ReloadsRight, ViewRight
<1>2. \A r \in Reloads : reload[r].stage \in {"idle", "asked", "listed"}
  BY DEF PanelInv, ReloadsRight
<1>3. action.kind \in Panel!Kinds \cup {"none"} /\ action.step \in {"none", "calling", "reloading"}
  BY DEF PanelInv, ActionRight
<1>4. detail.draft \in BOOLEAN /\ detail.key = Panel!Resolved(rows, selected)
      /\ selected \in 0..Panel!Cardinality(Accounts)
  BY DEF PanelInv, RowsRight
<1>5. old \subseteq Reloads /\ outdated \in BOOLEAN
  BY DEF PanelInv, ListsAreFresh
<1> QED
  BY <1>1, <1>2, <1>3, <1>4, <1>5 DEF Panel!TypeOK, PanelInv, MessagesRight

\* The accounts are counted.
LEMMA AccountsAreCounted ==
  ASSUME PanelBounds
  PROVE  Panel!Cardinality(Accounts) = Cardinality(Accounts) /\ Panel!Cardinality(Accounts) \in Nat
<1>1. Panel!Cardinality(Accounts) = Cardinality(Accounts)
  BY DEF Panel!Cardinality, Cardinality
<1> QED
  BY <1>1, FS_CardinalityType DEF PanelBounds

\* What the host hands out is a list with an active account, or none.
LEMMA ShownIsRight ==
  ASSUME NEW host \in Panel!Views
  PROVE  ViewRight(Panel!Shown(host))
<1>1. host.order \in Seq(Accounts) /\ host.active \in Nat /\ host.disabled \in SUBSET Accounts
  BY DEF Panel!Views
<1>2. DOMAIN host.order = 1..Len(host.order) /\ Len(host.order) \in Nat
  BY <1>1, LenProperties
<1> DEFINE at == IF host.active \in DOMAIN host.order /\ host.order[host.active] \notin host.disabled
                 THEN host.active ELSE 0
<1>3. at \in 0..Len(host.order)
  BY <1>1, <1>2
<1>4. Panel!Shown(host) = [host EXCEPT !.active = at]
  BY DEF Panel!Shown
<1> HIDE DEF at
<1>5. /\ Panel!Shown(host) \in Panel!Views
      /\ Panel!Shown(host).active = at /\ Panel!Shown(host).order = host.order
  BY <1>2, <1>3, <1>4 DEF Panel!Views
<1> QED
  BY <1>3, <1>5 DEF ViewRight

\* What is selected is a row, or nothing where there are none.
LEMMA SelectionIsARow ==
  ASSUME NEW v, ViewRight(v), NEW choice
  PROVE  /\ Panel!Resolved(v, choice) \in Nat
         /\ Panel!Resolved(v, choice) # 0 => Panel!Resolved(v, choice) \in 1..Len(v.order)
<1>1. v.order \in Seq(Accounts) /\ v.active \in 0..Len(v.order)
  BY DEF ViewRight, Panel!Views
<1>2. Len(v.order) \in Nat /\ DOMAIN v.order = 1..Len(v.order)
  BY <1>1, LenProperties
<1>3. v.order # <<>> => Len(v.order) > 0
  BY <1>1, <1>2, EmptySeq
<1> DEFINE key == IF v.order = <<>> THEN 0
                  ELSE IF choice \in DOMAIN v.order THEN choice
                  ELSE IF v.active # 0 THEN v.active
                  ELSE IF choice = 0 THEN 1 ELSE Len(v.order)
<1>4. Panel!Resolved(v, choice) = key
  BY DEF Panel!Resolved
<1>5. key \in Nat /\ (key # 0 => key \in 1..Len(v.order))
  BY <1>1, <1>2, <1>3
<1> QED
  BY <1>4, <1>5

\* Showing a view leaves a selection and a detail that fit it (resolveSelectedAccountIndex).
LEMMA RenderFits ==
  ASSUME RowsRight, NEW v, ViewRight(v), NEW choice \in 0..Panel!Cardinality(Accounts),
         Panel!Render(v, choice)
  PROVE  RowsRight' /\ rows' = v
<1> DEFINE key == Panel!Resolved(v, choice)
<1>1. key \in Nat /\ detail.draft \in BOOLEAN
  BY SelectionIsARow DEF RowsRight
<1>2. /\ rows' = v /\ selected' = choice
      /\ detail' = [key |-> key, draft |-> IF key = detail.key THEN detail.draft ELSE FALSE]
  BY DEF Panel!Render
<1>3. Panel!Resolved(rows', selected') = key
  BY <1>2
<1>4. Panel!Resolved(rows, selected)' = Panel!Resolved(rows', selected')
  BY DEF Panel!Resolved
<1> HIDE DEF key
<1>5. detail' \in [key: Nat, draft: BOOLEAN] /\ detail'.key = key
  BY <1>1, <1>2
<1> QED
  BY <1>2, <1>3, <1>4, <1>5 DEF RowsRight, ViewRight, Panel!Views

\* What an account's removal, activation, verification or proxy leaves is a pool.
LEMMA AppliedIsRight ==
  ASSUME HostRight, NEW kind, NEW i \in DOMAIN pool.order
  PROVE  Panel!Applied(kind, i) \in Panel!Views
<1>1. /\ pool \in [order: Seq(Accounts), active: Nat, disabled: SUBSET Accounts]
      /\ pool.order \in Seq(Accounts) /\ pool.disabled \in SUBSET Accounts /\ pool.active \in Nat
  BY DEF HostRight, Panel!Views
<1>2. Len(pool.order) \in Nat /\ i \in 1..Len(pool.order)
  BY <1>1, LenProperties
<1>3. CASE kind = "activate"
  <2>1. Panel!Applied(kind, i) = [pool EXCEPT !.active = i]
    BY <1>3 DEF Panel!Applied
  <2> QED
    BY <1>1, <1>2, <2>1 DEF Panel!Views
<1>4. CASE kind = "delete"
  <2> DEFINE order == Panel!RemoveAt(pool.order, i)
             active == IF pool.active > Len(order) THEN 1 ELSE pool.active
             off == pool.disabled \ {pool.order[i]}
  <2>1. order \in Seq(Accounts)
    <3>1. SubSeq(pool.order, 1, i - 1) \in Seq(Accounts)
          /\ SubSeq(pool.order, i + 1, Len(pool.order)) \in Seq(Accounts)
      <4>1. \A j \in 1..Len(pool.order) : pool.order[j] \in Accounts
        BY <1>1, ElementOfSeq
      <4>2. /\ 1 \in Int /\ i - 1 \in Int /\ i + 1 \in Int /\ Len(pool.order) \in Int
            /\ \A j \in 1..i - 1 : pool.order[j] \in Accounts
            /\ \A j \in i + 1..Len(pool.order) : pool.order[j] \in Accounts
        BY <1>2, <4>1
      <4> QED
        BY <1>1, <4>2, SubSeqProperties
    <3> QED
      BY <3>1, ConcatProperties DEF Panel!RemoveAt
  <2>2. active \in Nat /\ off \in SUBSET Accounts
    BY <1>1
  <2>3. Panel!Applied(kind, i) = [order |-> order, disabled |-> off, active |-> active]
    BY <1>4 DEF Panel!Applied
  <2> HIDE DEF order, active, off
  <2> QED
    BY <2>1, <2>2, <2>3 DEF Panel!Views
<1>5. CASE kind = "verify"
  <2>1. Panel!Applied(kind, i) = [pool EXCEPT !.disabled = pool.disabled \ {pool.order[i]}]
    BY <1>5 DEF Panel!Applied
  <2> QED
    BY <1>1, <2>1 DEF Panel!Views
<1>6. CASE kind \notin {"activate", "delete", "verify"}
  <2>1. Panel!Applied(kind, i) = pool
    BY <1>6 DEF Panel!Applied
  <2> QED
    BY <2>1 DEF HostRight
<1> QED
  BY <1>3, <1>4, <1>5, <1>6

\* An action that shows what it did, for the messages (timedChannel).
LEMMA SayingIsRight ==
  ASSUME PanelBounds, MessagesRight, NEW shown \in BOOLEAN, Panel!Say(shown)
  PROVE  /\ verdict' \in 0..PanelClock /\ timers' \subseteq 1..PanelClock+MessageTtl
         /\ verdict' # 0 => timers' \subseteq {verdict' + MessageTtl}
         /\ shown => verdict' = panelTick /\ verdict' # 0
<1>1. panelTick \in 1..PanelClock /\ PanelClock \in Nat /\ MessageTtl \in Nat
  BY DEF MessagesRight, PanelBounds
<1>2. panelTick \in 0..PanelClock /\ panelTick + MessageTtl \in 1..PanelClock+MessageTtl
      /\ panelTick # 0
  BY <1>1
<1>3. CASE shown
  BY <1>2, <1>3 DEF Panel!Say, Panel!Rearmed
<1>4. CASE ~shown
  BY <1>1, <1>4 DEF Panel!Say, Panel!Rearmed
<1> QED
  BY <1>3, <1>4

\* The parts of the invariant that a step leaves alone.
LEMMA PanelPartsKept ==
  /\ HostRight /\ pool' = pool => HostRight'
  /\ RowsRight /\ UNCHANGED <<rows, selected, detail>> => RowsRight'
  /\ ActionRight /\ action' = action => ActionRight'
  /\ ReloadsRight /\ reload' = reload => ReloadsRight'
  /\ MessagesRight /\ UNCHANGED <<verdict, timers, panelTick>> => MessagesRight'
  /\ ListsAreFresh /\ UNCHANGED <<old, outdated, reload, pool>> => ListsAreFresh'
  /\ OwnReloadsLast /\ UNCHANGED <<reload, action>> => OwnReloadsLast'
  /\ RowsAreExpected /\ UNCHANGED <<outdated, rows, pool, action>> => RowsAreExpected'
<1>1. ASSUME RowsRight, UNCHANGED <<rows, selected, detail>> PROVE RowsRight'
  <2>1. Panel!Resolved(rows, selected)' = Panel!Resolved(rows, selected)
    BY <1>1 DEF Panel!Resolved
  <2> QED
    BY <1>1, <2>1 DEF RowsRight, ViewRight, Panel!Views
<1>2. ASSUME HostRight, pool' = pool PROVE HostRight'
  BY <1>2 DEF HostRight, Panel!Views
<1>3. ASSUME ReloadsRight, reload' = reload PROVE ReloadsRight'
  BY <1>3 DEF ReloadsRight, ViewRight, Panel!Views
<1>4. pool' = pool => Panel!Shown(pool)' = Panel!Shown(pool)
  BY DEF Panel!Shown
<1>5. ASSUME ListsAreFresh, UNCHANGED <<old, outdated, reload, pool>> PROVE ListsAreFresh'
  BY <1>4, <1>5 DEF ListsAreFresh
<1>6. ASSUME RowsAreExpected, UNCHANGED <<outdated, rows, pool, action>> PROVE RowsAreExpected'
  BY <1>4, <1>6 DEF RowsAreExpected
<1> QED
  BY <1>1, <1>2, <1>3, <1>5, <1>6 DEF ActionRight, MessagesRight, OwnReloadsLast

\* What is in the invariant, one by one.
LEMMA PanelParts ==
  PanelInv <=> /\ HostRight /\ RowsRight /\ ActionRight /\ ReloadsRight /\ MessagesRight
               /\ ListsAreFresh /\ OwnReloadsLast /\ RowsAreExpected
  BY DEF PanelInv

\* The user selects a row, types a proxy, leaves the tab; a message is dismissed; time
\* passes.
LEMMA LookingKeeps ==
  ASSUME PanelBounds, PanelInv,
         \/ \E i \in 1..Panel!Cardinality(Accounts) : Panel!Select(i)
         \/ Panel!Type \/ Panel!LeaveTab \/ Panel!Dismiss \/ Panel!Tick
  PROVE  PanelInv'
<1>0. /\ HostRight /\ RowsRight /\ ActionRight /\ ReloadsRight /\ MessagesRight
      /\ ListsAreFresh /\ OwnReloadsLast /\ RowsAreExpected
  BY DEF PanelInv
<1>a. ASSUME RowsRight', MessagesRight', UNCHANGED <<pool, rows, action, reload, old, outdated>>
      PROVE  PanelInv'
  BY <1>0, <1>a, PanelPartsKept DEF PanelInv
<1>1. ASSUME NEW i \in 1..Panel!Cardinality(Accounts), Panel!Select(i) PROVE PanelInv'
  <2>1. i \in 0..Panel!Cardinality(Accounts)
    BY AccountsAreCounted
  <2>2. /\ Panel!Render(rows, i)
        /\ UNCHANGED <<pool, elsewhere, verdict, timers, action, reload, old, outdated, panelTick>>
    BY <1>1 DEF Panel!Select, Panel!hostVars, Panel!messageVars, Panel!ghostVars
  <2>3. RowsRight' /\ rows' = rows
    BY <1>0, <2>1, <2>2, RenderFits DEF RowsRight
  <2> QED
    BY <1>0, <1>a, <2>2, <2>3, PanelPartsKept
<1>2. CASE Panel!Type
  <2>1. /\ detail' = [detail EXCEPT !.draft = TRUE]
        /\ UNCHANGED <<pool, rows, selected, verdict, timers, action, reload, old, outdated,
                       panelTick>>
    BY <1>2 DEF Panel!Type, Panel!hostVars, Panel!messageVars, Panel!ghostVars
  <2>2. ViewRight(rows) /\ detail \in [key: Nat, draft: BOOLEAN]
        /\ detail.key = Panel!Resolved(rows, selected)
    BY <1>0 DEF RowsRight
  <2>5. detail' \in [key: Nat, draft: BOOLEAN] /\ detail'.key = detail.key
    BY <2>1, <2>2
  <2>6. Panel!Resolved(rows, selected)' = Panel!Resolved(rows, selected)
    BY <2>1 DEF Panel!Resolved
  <2>7. RowsRight'
    BY <1>0, <2>1, <2>5, <2>6 DEF RowsRight, ViewRight, Panel!Views
  <2> QED
    BY <1>0, <1>a, <2>1, <2>7, PanelPartsKept
<1>3. CASE Panel!LeaveTab
  <2>1. /\ selected' = 0
        /\ detail' = [key |-> Panel!Resolved(rows, 0), draft |-> FALSE]
        /\ UNCHANGED <<pool, rows, verdict, timers, action, reload, old, outdated, panelTick>>
    BY <1>3 DEF Panel!LeaveTab, Panel!hostVars, Panel!messageVars, Panel!ghostVars
  <2>2. Panel!Resolved(rows, 0) \in Nat
    BY <1>0, SelectionIsARow DEF RowsRight
  <2>3. Panel!Resolved(rows, selected)' = Panel!Resolved(rows, 0)
    BY <2>1 DEF Panel!Resolved
  <2>4. detail' \in [key: Nat, draft: BOOLEAN]
        /\ detail'.key = Panel!Resolved(rows, 0)
    BY <2>1, <2>2
  <2>5. 0 \in 0..Panel!Cardinality(Accounts)
    BY AccountsAreCounted
  <2>6. RowsRight'
    BY <1>0, <2>1, <2>3, <2>4, <2>5 DEF RowsRight, ViewRight, Panel!Views
  <2> QED
    BY <1>0, <1>a, <2>1, <2>6, PanelPartsKept
<1>4. CASE Panel!Dismiss
  <2>1. /\ timers' \subseteq timers /\ verdict' = 0
        /\ UNCHANGED <<pool, rows, selected, detail, action, reload, old, outdated, panelTick>>
    BY <1>4 DEF Panel!Dismiss, Panel!hostVars, Panel!rowVars, Panel!ghostVars
  <2>2. MessagesRight'
    BY <1>0, <2>1 DEF MessagesRight, PanelBounds
  <2> QED
    BY <1>0, <1>a, <2>1, <2>2, PanelPartsKept
<1>5. CASE Panel!Tick
  <2>1. /\ panelTick < PanelClock /\ panelTick' = panelTick + 1
        /\ UNCHANGED <<pool, rows, selected, detail, verdict, timers, action, reload, old, outdated>>
    BY <1>5 DEF Panel!Tick, Panel!hostVars, Panel!rowVars, Panel!messageVars, Panel!ghostVars
  <2>2. panelTick' \in 1..PanelClock
    BY <1>0, <2>1 DEF MessagesRight, PanelBounds
  <2>3. MessagesRight'
    BY <1>0, <2>1, <2>2 DEF MessagesRight
  <2> QED
    BY <1>0, <1>a, <2>1, <2>3, PanelPartsKept
<1> QED
  BY <1>1, <1>2, <1>3, <1>4, <1>5

\* A button is pressed while no action runs, so that the rows are those the host is
\* expected to have (act, runAction).
LEMMA PressKeeps ==
  ASSUME PanelBounds, PanelInv, NEW kind \in Panel!Kinds,
         NEW i \in 1..Panel!Cardinality(Accounts), Panel!Press(kind, i)
  PROVE  PanelInv'
<1>0. /\ HostRight /\ RowsRight /\ ActionRight /\ ReloadsRight /\ MessagesRight
      /\ ListsAreFresh /\ OwnReloadsLast /\ RowsAreExpected
      /\ i \in Nat /\ i \in 0..Panel!Cardinality(Accounts)
      /\ 0 \in 0..Panel!Cardinality(Accounts)
  BY AccountsAreCounted DEF PanelInv
<1>1. /\ action = Panel!NoAction /\ Panel!Pressed(kind, i)
      /\ action' = [kind |-> kind, at |-> i, step |-> "calling", ok |-> TRUE]
      /\ IF kind = "verify" THEN Panel!Say(FALSE) ELSE UNCHANGED <<verdict, timers>>
      /\ UNCHANGED <<pool, reload, old, outdated, panelTick>>
  BY DEF Panel!Press, Panel!Busy, Panel!hostVars, Panel!messageVars, Panel!ghostVars
<1>2. RowsRight' /\ rows' = rows
  <2>1. CASE kind = "activate"
    BY <1>0, <1>1, <2>1, RenderFits DEF Panel!Pressed, RowsRight
  <2>2. CASE kind = "delete"
    BY <1>0, <1>1, <2>2, RenderFits DEF Panel!Pressed, RowsRight
  <2>3. CASE kind = "proxy"
    <3>1. detail' = [detail EXCEPT !.draft = FALSE] /\ UNCHANGED <<rows, selected>>
      BY <1>1, <2>3 DEF Panel!Pressed
    <3>2. detail \in [key: Nat, draft: BOOLEAN]
          /\ detail.key = Panel!Resolved(rows, selected)
      BY <1>0 DEF RowsRight
    <3>3. detail' \in [key: Nat, draft: BOOLEAN] /\ detail'.key = detail.key
      BY <3>1, <3>2
    <3>4. Panel!Resolved(rows, selected)' = Panel!Resolved(rows, selected)
      BY <3>1 DEF Panel!Resolved
    <3> QED
      BY <1>0, <3>1, <3>2, <3>3, <3>4 DEF RowsRight, ViewRight, Panel!Views
  <2>4. CASE kind \notin {"activate", "delete", "proxy"}
    <3>1. UNCHANGED <<rows, selected, detail>>
      BY <1>1, <2>4 DEF Panel!Pressed, Panel!rowVars
    <3> QED
      BY <1>0, <3>1, PanelPartsKept
  <2> QED
    BY <2>1, <2>2, <2>3, <2>4
<1>3. ActionRight'
  BY <1>0, <1>1 DEF ActionRight
<1>4. MessagesRight'
  <2>1. CASE kind = "verify"
    BY <1>0, <1>1, <2>1, SayingIsRight DEF MessagesRight
  <2>2. CASE kind # "verify"
    BY <1>0, <1>1, <2>2 DEF MessagesRight
  <2> QED
    BY <2>1, <2>2
<1>5. action.step = "none"
  BY <1>1 DEF Panel!NoAction
<1>6. Panel!Shown(pool)' = Panel!Shown(pool)
  BY <1>1 DEF Panel!Shown
<1>7. RowsAreExpected'
  BY <1>0, <1>1, <1>2, <1>5, <1>6 DEF RowsAreExpected
<1>8. OwnReloadsLast'
  BY <1>0, <1>1, <1>5 DEF OwnReloadsLast
<1> QED
  BY <1>0, <1>1, <1>2, <1>3, <1>4, <1>7, <1>8, PanelPartsKept DEF PanelInv

\* An action that fails shows it, and ends (Fail).
LEMMA FailingIsRight ==
  ASSUME PanelBounds, PanelInv, Panel!Fail, panelTick' = panelTick
  PROVE  /\ ActionRight' /\ ReloadsRight' /\ MessagesRight'
         /\ action'.step = "none" /\ reload' = reload
<1>0. ActionRight /\ ReloadsRight /\ MessagesRight
  BY DEF PanelInv
<1>1. action' = Panel!NoAction /\ reload' = reload
  BY DEF Panel!Fail
<1>2. ActionRight' /\ action'.step = "none"
  BY <1>1 DEF ActionRight, Panel!NoAction
<1>3. MessagesRight'
  <2>1. CASE Panel!Say(TRUE)
    BY <1>0, <2>1, SayingIsRight DEF MessagesRight
  <2>2. CASE UNCHANGED <<verdict, timers>>
    BY <1>0, <2>2 DEF MessagesRight
  <2> QED
    BY <2>1, <2>2 DEF Panel!Fail, Panel!messageVars
<1> QED
  BY <1>0, <1>1, <1>2, <1>3, PanelPartsKept

\* A reload goes on with another stage and list.
LEMMA ReloadMoves ==
  ASSUME ReloadsRight, NEW r \in Reloads, NEW stage \in {"idle", "asked", "listed"},
         NEW list, ViewRight(list),
         reload' = [reload EXCEPT ![r] = [stage |-> stage, list |-> list]]
  PROVE  /\ ReloadsRight' /\ reload'[r] = [stage |-> stage, list |-> list]
         /\ \A q \in Reloads \ {r} : reload'[q] = reload[q]
<1> DEFINE Call == [stage: {"idle", "asked", "listed"}, list: Panel!Views]
           call == [stage |-> stage, list |-> list]
<1>0. reload \in [Reloads -> Call] /\ call \in Call /\ call.list = list
  BY DEF ReloadsRight, ViewRight
<1>1. reload' = [reload EXCEPT ![r] = call]
  OBVIOUS
<1> HIDE DEF call
<1>2. /\ reload' \in [Reloads -> Call] /\ reload'[r] = call
      /\ \A q \in Reloads \ {r} : reload'[q] = reload[q]
  BY <1>0, <1>1
<1>3. \A q \in Reloads : ViewRight(reload'[q].list)
  BY <1>0, <1>2 DEF ReloadsRight
<1>4. ReloadsRight'
  BY <1>2, <1>3 DEF ReloadsRight, ViewRight, Panel!Views
<1> QED
  BY <1>2, <1>4 DEF call

\* Asking leaves the list of a call where it is.
LEMMA AskingIsOfTheStage ==
  ASSUME NEW r \in Reloads,
         reload[r] \in [stage: {"idle", "asked", "listed"}, list: Panel!Views],
         reload' = [reload EXCEPT ![r].stage = "asked"]
  PROVE  reload' = [reload EXCEPT ![r] = [stage |-> "asked", list |-> reload[r].list]]
<1>1. \A call \in [stage: {"idle", "asked", "listed"}, list: Panel!Views] :
        [call EXCEPT !.stage = "asked"] = [stage |-> "asked", list |-> call.list]
  OBVIOUS
<1>2. [reload[r] EXCEPT !.stage = "asked"] = [stage |-> "asked", list |-> reload[r].list]
  BY <1>1
<1>3. reload' = [reload EXCEPT ![r] = [reload[r] EXCEPT !.stage = "asked"]]
  OBVIOUS
<1> QED
  BY <1>2, <1>3, Zenon

\* An action's own reload is asked for.
LEMMA OwnIsAsked ==
  ASSUME PanelInv, reload' = [reload EXCEPT ![Own].stage = "asked"], action'.step = "reloading"
  PROVE  /\ ReloadsRight' /\ OwnReloadsLast'
         /\ \A r \in Reloads : reload'[r].stage = "listed" => r # Own /\ reload'[r] = reload[r]
<1>0. ReloadsRight
  BY DEF PanelInv
<1>1. CASE Own \notin Reloads
  <2>1. reload' = reload
    BY <1>0, <1>1 DEF ReloadsRight
  <2> QED
    BY <1>0, <1>1, <2>1, PanelPartsKept DEF OwnReloadsLast
<1>2. CASE Own \in Reloads
  <2>1. ViewRight(reload[Own].list) /\ reload[Own] \in [stage: {"idle", "asked", "listed"}, list: Panel!Views]
    BY <1>0, <1>2 DEF ReloadsRight
  <2>2. reload' = [reload EXCEPT ![Own] = [stage |-> "asked", list |-> reload[Own].list]]
    BY <1>2, <2>1, AskingIsOfTheStage
  <2>3. /\ ReloadsRight' /\ reload'[Own] = [stage |-> "asked", list |-> reload[Own].list]
        /\ \A q \in Reloads \ {Own} : reload'[q] = reload[q]
    BY <1>0, <1>2, <2>1, <2>2, ReloadMoves
  <2> QED
    BY <2>3 DEF OwnReloadsLast
<1> QED
  BY <1>1, <1>2

\* A change of the pool makes the lists under way old ones.
LEMMA ChangesAreNoted ==
  ASSUME PanelInv, NEW new \in Panel!Views, NEW overtaken \in SUBSET Reloads,
         Panel!Changes(new, overtaken), outdated' \in BOOLEAN,
         \A r \in Reloads : reload'[r].stage = "listed" =>
           reload'[r] = reload[r] /\ (new = pool \/ r \in overtaken)
  PROVE  HostRight' /\ ListsAreFresh'
<1>0. ListsAreFresh
  BY DEF PanelInv
<1>1. pool' = new /\ old' = IF new = pool THEN old ELSE old \cup overtaken
  BY DEF Panel!Changes
<1>2. HostRight'
  BY <1>1 DEF HostRight, Panel!Views
<1>3. CASE new = pool
  <2>1. Panel!Shown(pool)' = Panel!Shown(pool)
    BY <1>1, <1>3 DEF Panel!Shown
  <2> QED
    BY <1>0, <1>1, <1>2, <1>3, <2>1 DEF ListsAreFresh
<1>4. CASE new # pool
  BY <1>0, <1>1, <1>2, <1>4 DEF ListsAreFresh
<1> QED
  BY <1>3, <1>4

\* The call of an action is answered: what it did to the pool the rows learn from the reload
\* that follows, or are known not to show.
LEMMA AnsweredKeeps ==
  ASSUME PanelBounds, PanelInv, Panel!CallAnswered \/ Panel!CallAnsweredNo
  PROVE  PanelInv'
<1>0. /\ HostRight /\ RowsRight /\ ActionRight /\ ReloadsRight /\ MessagesRight
      /\ ListsAreFresh /\ OwnReloadsLast /\ RowsAreExpected /\ outdated \in BOOLEAN
  BY DEF PanelInv, ListsAreFresh
<1>1. action.step = "calling" /\ UNCHANGED <<rows, selected, detail, panelTick>> /\ RowsRight'
  <2>1. action.step = "calling" /\ UNCHANGED <<rows, selected, detail, panelTick>>
    BY DEF Panel!CallAnswered, Panel!CallAnsweredNo, Panel!rowVars
  <2> QED
    BY <1>0, <2>1, PanelPartsKept
<1> DEFINE foreign == Panel!Listed \ {Own}
<1>2. foreign \in SUBSET Reloads
      /\ \A r \in Reloads : reload[r].stage = "listed" /\ r # Own => r \in foreign
  BY DEF Panel!Listed
<1>3. \A r \in Reloads : reload[r].stage = "listed" => r # Own
  BY <1>0, <1>1 DEF OwnReloadsLast
<1> HIDE DEF foreign
<1>4. ASSUME NEW new \in Panel!Views, Panel!Changes(new, foreign), UNCHANGED <<verdict, timers, outdated>>,
             \/ action' = [action EXCEPT !.step = "reloading"]
             \/ action' = [action EXCEPT !.step = "reloading", !.ok = FALSE],
             reload' = [reload EXCEPT ![Own].stage = "asked"]
      PROVE  PanelInv'
  <2>1. ActionRight' /\ action'.step = "reloading"
    BY <1>0, <1>4 DEF ActionRight
  <2>2. /\ ReloadsRight' /\ OwnReloadsLast'
        /\ \A r \in Reloads : reload'[r].stage = "listed" => r # Own /\ reload'[r] = reload[r]
    BY <1>4, <2>1, OwnIsAsked
  <2>3. HostRight' /\ ListsAreFresh'
    <3>1. \A r \in Reloads : reload'[r].stage = "listed" =>
            reload'[r] = reload[r] /\ r \in foreign
      BY <1>2, <2>2
    <3>2. outdated' \in BOOLEAN
      BY <1>0, <1>4
    <3> QED
      BY <1>2, <1>4, <3>1, <3>2, ChangesAreNoted
  <2>4. RowsAreExpected'
    BY <2>1 DEF RowsAreExpected
  <2>5. MessagesRight'
    BY <1>0, <1>1, <1>4, PanelPartsKept
  <2> QED
    BY <1>1, <2>1, <2>2, <2>3, <2>4, <2>5 DEF PanelInv
<1>5. CASE Panel!CallAnsweredNo
  <2>1. /\ UNCHANGED <<verdict, timers, outdated>>
        /\ action' = [action EXCEPT !.step = "reloading", !.ok = FALSE]
        /\ reload' = [reload EXCEPT ![Own].stage = "asked"]
        /\ \/ Panel!Changes(pool, {})
           \/ \E a \in Panel!ToSet(pool.order) :
                Panel!Changes([pool EXCEPT !.disabled = pool.disabled \cup {a}], foreign)
    BY <1>5 DEF Panel!CallAnsweredNo, Panel!messageVars, foreign
  <2>2. CASE Panel!Changes(pool, {})
    <3>1. Panel!Changes(pool, foreign)
      BY <2>2 DEF Panel!Changes
    <3> QED
      BY <1>0, <1>4, <2>1, <3>1 DEF HostRight
  <2>3. ASSUME NEW a \in Panel!ToSet(pool.order),
               Panel!Changes([pool EXCEPT !.disabled = pool.disabled \cup {a}], foreign)
        PROVE  PanelInv'
    <3>1. pool.order \in Seq(Accounts)
      BY <1>0 DEF HostRight, Panel!Views
    <3>2. a \in Accounts
      <4>1. PICK i \in DOMAIN pool.order : a = pool.order[i]
        BY <2>3 DEF Panel!ToSet
      <4> QED
        BY <3>1, <4>1, ElementOfSeq, LenProperties
    <3>3. [pool EXCEPT !.disabled = pool.disabled \cup {a}] \in Panel!Views
      BY <1>0, <3>2 DEF HostRight, Panel!Views
    <3> QED
      BY <1>4, <2>1, <2>3, <3>3
  <2> QED
    BY <2>1, <2>2, <2>3
<1>6. CASE Panel!CallAnswered
  <2> DEFINE there == action.at \in DOMAIN pool.order
             effect == IF there THEN Panel!Applied(action.kind, action.at) ELSE pool
  <2>1. effect \in Panel!Views /\ pool \in Panel!Views
    BY <1>0, AppliedIsRight DEF HostRight
  <2>2. \/ Panel!Changes(effect, foreign) /\ Panel!Reloaded /\ UNCHANGED <<verdict, timers, outdated>>
        \/ \E new \in {pool, effect} :
             Panel!Changes(new, foreign) /\ Panel!Fail /\ outdated' = (outdated \/ new # pool)
    BY <1>6 DEF Panel!CallAnswered, Panel!messageVars, foreign
  <2> HIDE DEF there, effect
  <2>3. CASE Panel!Changes(effect, foreign) /\ Panel!Reloaded /\ UNCHANGED <<verdict, timers, outdated>>
    BY <1>4, <2>1, <2>3 DEF Panel!Reloaded
  <2>4. ASSUME NEW new \in {pool, effect}, Panel!Changes(new, foreign), Panel!Fail,
               outdated' = (outdated \/ new # pool)
        PROVE  PanelInv'
    <3>1. /\ ActionRight' /\ ReloadsRight' /\ MessagesRight' /\ action'.step = "none"
          /\ reload' = reload
      BY <1>1, <2>4, FailingIsRight
    <3>2. new \in Panel!Views /\ outdated' \in BOOLEAN
      BY <2>1, <2>4
    <3>3. \A r \in Reloads : reload'[r].stage = "listed" => reload'[r] = reload[r] /\ r \in foreign
      BY <1>2, <1>3, <3>1
    <3>4. HostRight' /\ ListsAreFresh'
      BY <1>2, <2>4, <3>2, <3>3, ChangesAreNoted
    <3>5. RowsAreExpected'
      <4>1. ~outdated' => ~outdated /\ pool' = pool
        BY <2>4 DEF Panel!Changes
      <4>2. pool' = pool => Panel!Shown(pool)' = Panel!Shown(pool)
        BY DEF Panel!Shown
      <4> QED
        BY <1>0, <1>1, <4>1, <4>2 DEF RowsAreExpected
    <3>6. OwnReloadsLast'
      BY <1>0, <1>1, <3>1 DEF OwnReloadsLast
    <3> QED
      BY <1>1, <3>1, <3>4, <3>5, <3>6 DEF PanelInv
  <2> QED
    BY <2>2, <2>3, <2>4
<1> QED
  BY <1>5, <1>6

\* How a reload ends is what the messages and the action are told (Settle).
LEMMA SettlingIsRight ==
  ASSUME PanelBounds, PanelInv, NEW r \in Reloads, Panel!Settle(r), outdated' \in BOOLEAN
  PROVE  /\ HostRight' /\ ActionRight' /\ ReloadsRight' /\ MessagesRight' /\ pool' = pool
         /\ ListsAreFresh' /\ OwnReloadsLast'
         /\ action' = action \/ r = Own
<1>0. /\ HostRight /\ ActionRight /\ ReloadsRight /\ MessagesRight /\ ListsAreFresh
      /\ OwnReloadsLast
  BY DEF PanelInv
<1>1. /\ reload' = [reload EXCEPT ![r] = Panel!NoReload] /\ old' = old \ {r}
      /\ IF r = Own THEN Panel!Finish ELSE UNCHANGED <<action, verdict, timers>>
      /\ UNCHANGED <<pool, panelTick>>
  BY DEF Panel!Settle, Panel!hostVars, Panel!messageVars
<1>2. /\ ReloadsRight' /\ reload'[r].stage = "idle"
      /\ \A q \in Reloads \ {r} : reload'[q] = reload[q]
  <2>1. ViewRight(Panel!NoView) /\ Panel!NoReload = [stage |-> "idle", list |-> Panel!NoView]
    BY DEF Panel!NoView, Panel!NoReload, ViewRight, Panel!Views
  <2>2. reload' = [reload EXCEPT ![r] = [stage |-> "idle", list |-> Panel!NoView]]
    BY <1>1, <2>1
  <2>3. /\ ReloadsRight' /\ reload'[r] = [stage |-> "idle", list |-> Panel!NoView]
        /\ \A q \in Reloads \ {r} : reload'[q] = reload[q]
    BY <1>0, <2>1, <2>2, ReloadMoves
  <2> QED
    BY <2>3
<1>3. HostRight' /\ ListsAreFresh'
  <2>1. Panel!Shown(pool)' = Panel!Shown(pool)
    BY <1>1 DEF Panel!Shown
  <2>2. old' \subseteq Reloads
    BY <1>0, <1>1 DEF ListsAreFresh
  <2>3. ASSUME NEW q \in Reloads, reload'[q].stage = "listed", q \notin old'
        PROVE  reload'[q].list = Panel!Shown(pool)
    BY <1>0, <1>1, <1>2, <2>3 DEF ListsAreFresh
  <2> QED
    BY <1>0, <1>1, <2>1, <2>2, <2>3, PanelPartsKept DEF ListsAreFresh
<1>4. CASE r = Own
  <2>1. action' = Panel!NoAction /\ (Panel!Say(TRUE) \/ UNCHANGED <<verdict, timers>>)
    BY <1>1, <1>4 DEF Panel!Finish, Panel!messageVars
  <2>2. ActionRight'
    BY <2>1 DEF ActionRight, Panel!NoAction
  <2>3. MessagesRight'
    <3>1. CASE UNCHANGED <<verdict, timers>>
      BY <1>0, <1>1, <3>1, PanelPartsKept
    <3>2. CASE Panel!Say(TRUE)
      BY <1>0, <1>1, <3>2, SayingIsRight DEF MessagesRight
    <3> QED
      BY <2>1, <3>1, <3>2
  <2>4. OwnReloadsLast'
    BY <1>2, <1>4 DEF OwnReloadsLast
  <2> QED
    BY <1>1, <1>2, <1>3, <1>4, <2>2, <2>3, <2>4
<1>5. CASE r # Own
  <2>1. UNCHANGED <<action, verdict, timers>>
    BY <1>1, <1>5
  <2>2. OwnReloadsLast'
    BY <1>0, <1>2, <1>5, <2>1 DEF OwnReloadsLast
  <2> QED
    BY <1>0, <1>1, <1>2, <1>3, <2>1, <2>2, PanelPartsKept
<1> QED
  BY <1>4, <1>5

\* A reload is asked for, made out, shown or fails: rows that are not the host's are known
\* not to be.
LEMMA ReloadingKeeps ==
  ASSUME PanelBounds, PanelInv, NEW r \in Reloads,
         Panel!Ask(r) \/ Panel!HostLists(r) \/ Panel!ListArrives(r) \/ Panel!ListFails(r)
  PROVE  PanelInv'
<1>0. /\ HostRight /\ RowsRight /\ ActionRight /\ ReloadsRight /\ MessagesRight
      /\ ListsAreFresh /\ OwnReloadsLast /\ RowsAreExpected
      /\ reload[r] \in [stage: {"idle", "asked", "listed"}, list: Panel!Views]
      /\ ViewRight(reload[r].list) /\ ViewRight(Panel!Shown(pool))
  BY ShownIsRight DEF PanelInv, ReloadsRight, HostRight
<1>a. pool' = pool => Panel!Shown(pool)' = Panel!Shown(pool)
  BY DEF Panel!Shown
<1>1. CASE Panel!Ask(r)
  <2>1. /\ reload' = [reload EXCEPT ![r].stage = "asked"] /\ r # Own
        /\ UNCHANGED <<pool, rows, selected, detail, verdict, timers, action, old, outdated,
                       panelTick>>
    BY <1>1 DEF Panel!Ask, Panel!hostVars, Panel!rowVars, Panel!messageVars, Panel!ghostVars
  <2>2. reload' = [reload EXCEPT ![r] = [stage |-> "asked", list |-> reload[r].list]]
    BY <1>0, <2>1, AskingIsOfTheStage
  <2>a. /\ ReloadsRight' /\ reload'[r] = [stage |-> "asked", list |-> reload[r].list]
        /\ \A q \in Reloads \ {r} : reload'[q] = reload[q]
    BY <1>0, <2>2, ReloadMoves
  <2>3. /\ ReloadsRight' /\ reload'[r].stage = "asked"
        /\ \A q \in Reloads \ {r} : reload'[q] = reload[q]
    BY <2>a
  <2>4. ListsAreFresh'
    BY <1>0, <1>a, <2>1, <2>3 DEF ListsAreFresh
  <2>5. OwnReloadsLast'
    BY <1>0, <2>1, <2>3 DEF OwnReloadsLast
  <2> QED
    BY <1>0, <2>1, <2>3, <2>4, <2>5, PanelPartsKept DEF PanelInv
<1>2. CASE Panel!HostLists(r)
  <2>1. /\ reload' = [reload EXCEPT ![r] = [stage |-> "listed", list |-> Panel!Shown(pool)]]
        /\ reload[r].stage = "asked"
        /\ UNCHANGED <<pool, rows, selected, detail, verdict, timers, action, old, outdated,
                       panelTick>>
    BY <1>2 DEF Panel!HostLists, Panel!hostVars, Panel!rowVars, Panel!messageVars, Panel!ghostVars
  <2>2. /\ ReloadsRight' /\ reload'[r] = [stage |-> "listed", list |-> Panel!Shown(pool)]
        /\ \A q \in Reloads \ {r} : reload'[q] = reload[q]
    BY <1>0, <2>1, ReloadMoves
  <2>3. ListsAreFresh'
    BY <1>0, <1>a, <2>1, <2>2 DEF ListsAreFresh
  <2>4. OwnReloadsLast'
    BY <1>0, <2>1, <2>2 DEF OwnReloadsLast
  <2> QED
    BY <1>0, <2>1, <2>2, <2>3, <2>4, PanelPartsKept DEF PanelInv
<1>3. CASE Panel!ListArrives(r)
  <2>1. /\ Panel!Render(reload[r].list, selected) /\ outdated' = (r \in old)
        /\ Panel!Settle(r) /\ reload[r].stage = "listed"
    BY <1>3 DEF Panel!ListArrives
  <2>2. RowsRight' /\ rows' = reload[r].list
    BY <1>0, <2>1, RenderFits DEF RowsRight
  <2>3. /\ HostRight' /\ ActionRight' /\ ReloadsRight' /\ MessagesRight' /\ pool' = pool
        /\ ListsAreFresh' /\ OwnReloadsLast'
    BY <2>1, SettlingIsRight
  <2>4. ~outdated' => rows' = Panel!Shown(pool)
    BY <1>0, <2>1, <2>2 DEF ListsAreFresh
  <2>5. RowsAreExpected'
    BY <1>a, <2>3, <2>4 DEF RowsAreExpected
  <2> QED
    BY <2>2, <2>3, <2>5 DEF PanelInv
<1>4. CASE Panel!ListFails(r)
  <2>1. /\ outdated' = (outdated \/ r = Own) /\ Panel!Settle(r) /\ UNCHANGED <<rows, selected, detail>>
    BY <1>4 DEF Panel!ListFails, Panel!rowVars
  <2>2. /\ HostRight' /\ ActionRight' /\ ReloadsRight' /\ MessagesRight' /\ pool' = pool
        /\ ListsAreFresh' /\ OwnReloadsLast' /\ (action' = action \/ r = Own)
    BY <2>1, SettlingIsRight
  <2>3. RowsAreExpected'
    BY <1>0, <1>a, <2>1, <2>2 DEF RowsAreExpected
  <2> QED
    BY <1>0, <2>1, <2>2, <2>3, PanelPartsKept DEF PanelInv
<1> QED
  BY <1>1, <1>2, <1>3, <1>4

\* Others edit the pool: then the rows are known to differ, and lists under way are old.
LEMMA EditsElsewhereKeep ==
  ASSUME PanelBounds, PanelInv, Panel!Elsewhere
  PROVE  PanelInv'
<1>0. /\ HostRight /\ RowsRight /\ ActionRight /\ ReloadsRight /\ MessagesRight
      /\ OwnReloadsLast
  BY DEF PanelInv
<1>1. /\ outdated' = TRUE
      /\ UNCHANGED <<rows, selected, detail, verdict, timers, action, reload, panelTick>>
  BY DEF Panel!Elsewhere, Panel!rowVars, Panel!messageVars
<1> DEFINE all == Panel!Listed
<1>2. all \in SUBSET Reloads /\ \A r \in Reloads : reload[r].stage = "listed" => r \in all
  BY DEF Panel!Listed
<1>3. \/ \E i \in DOMAIN pool.order : Panel!Changes(Panel!Applied("delete", i), all)
      \/ \E a \in Accounts : Panel!Changes([pool EXCEPT !.order = Append(pool.order, a)], all)
      \/ \E i \in DOMAIN pool.order : Panel!Changes([pool EXCEPT !.active = i], all)
      \/ \E a \in Panel!ToSet(pool.order) :
           Panel!Changes([pool EXCEPT !.disabled = pool.disabled \cup {a}], all)
  BY DEF Panel!Elsewhere
<1> HIDE DEF all
<1>4. ASSUME NEW new \in Panel!Views, Panel!Changes(new, all) PROVE PanelInv'
  <2>1. \A r \in Reloads : reload'[r].stage = "listed" => reload'[r] = reload[r] /\ r \in all
    BY <1>1, <1>2
  <2>2. outdated' \in BOOLEAN
    BY <1>1
  <2>3. HostRight' /\ ListsAreFresh'
    BY <1>2, <1>4, <2>1, <2>2, ChangesAreNoted
  <2>4. RowsAreExpected'
    BY <1>1 DEF RowsAreExpected
  <2> QED
    BY <1>0, <1>1, <2>3, <2>4, PanelPartsKept DEF PanelInv
<1>5. /\ pool \in [order: Seq(Accounts), active: Nat, disabled: SUBSET Accounts]
      /\ pool.order \in Seq(Accounts)
  BY <1>0 DEF HostRight, Panel!Views
<1>6. DOMAIN pool.order = 1..Len(pool.order) /\ Len(pool.order) \in Nat
  BY <1>5, LenProperties
<1>7. ASSUME NEW a \in Panel!ToSet(pool.order) PROVE a \in Accounts
  <2>1. PICK i \in DOMAIN pool.order : a = pool.order[i]
    BY <1>7 DEF Panel!ToSet
  <2> QED
    BY <1>5, <1>6, <2>1, ElementOfSeq
<1>8. /\ \A i \in DOMAIN pool.order : Panel!Applied("delete", i) \in Panel!Views
      /\ \A i \in DOMAIN pool.order : [pool EXCEPT !.active = i] \in Panel!Views
      /\ \A a \in Panel!ToSet(pool.order) :
           [pool EXCEPT !.disabled = pool.disabled \cup {a}] \in Panel!Views
      /\ \A a \in Accounts : [pool EXCEPT !.order = Append(pool.order, a)] \in Panel!Views
  <2>1. \A i \in DOMAIN pool.order : Panel!Applied("delete", i) \in Panel!Views
    BY <1>0, AppliedIsRight
  <2>2. \A i \in DOMAIN pool.order : [pool EXCEPT !.active = i] \in Panel!Views
    BY <1>5, <1>6 DEF Panel!Views
  <2>3. ASSUME NEW a \in Panel!ToSet(pool.order)
        PROVE  [pool EXCEPT !.disabled = pool.disabled \cup {a}] \in Panel!Views
    BY <1>5, <1>7, <2>3 DEF Panel!Views
  <2>4. ASSUME NEW a \in Accounts PROVE [pool EXCEPT !.order = Append(pool.order, a)] \in Panel!Views
    <3>1. Append(pool.order, a) \in Seq(Accounts)
      BY <1>5, <2>4, FirstOfAList
    <3> QED
      BY <1>5, <3>1 DEF Panel!Views
  <2> QED
    BY <2>1, <2>2, <2>3, <2>4
<1> QED
  BY <1>3, <1>4, <1>8

\* The tab opens on no rows, and an order of all accounts.
LEMMA PanelStarts ==
  ASSUME PanelBounds, Panel!Init
  PROVE  PanelInv
<1>1. PICK o \in Panel!SetToSeqs(Accounts), i \in 1..Panel!Cardinality(Accounts),
           off \in SUBSET Accounts : pool = [order |-> o, active |-> i, disabled |-> off]
  BY DEF Panel!Init
<1>2. o \in [1..Panel!Cardinality(Accounts) -> Accounts]
  BY DEF Panel!SetToSeqs
<1>3. o \in Seq(Accounts) /\ i \in Nat
  <2>1. Panel!Cardinality(Accounts) \in Nat
    BY AccountsAreCounted
  <2> QED
    BY <1>2, <2>1
<1>4. HostRight
  BY <1>1, <1>3 DEF HostRight, Panel!Views
<1>5. ViewRight(Panel!NoView) /\ Panel!NoView \in Panel!Views
  BY DEF Panel!NoView, ViewRight, Panel!Views
<1>6. RowsRight
  <2>1. rows = Panel!NoView /\ selected = 0 /\ detail = [key |-> 0, draft |-> FALSE]
    BY DEF Panel!Init
  <2>2. Panel!Resolved(rows, selected) = 0
    BY <2>1 DEF Panel!Resolved, Panel!NoView
  <2> QED
    BY <1>5, <2>1, <2>2, AccountsAreCounted DEF RowsRight
<1>7. ActionRight /\ ReloadsRight
  BY <1>5 DEF Panel!Init, ActionRight, ReloadsRight, Panel!NoAction, Panel!NoReload
<1>8. MessagesRight /\ RowsAreExpected
  BY DEF Panel!Init, MessagesRight, RowsAreExpected, PanelBounds
<1>9. ListsAreFresh /\ OwnReloadsLast
  BY DEF Panel!Init, ListsAreFresh, OwnReloadsLast, Panel!NoReload
<1> QED
  BY <1>4, <1>6, <1>7, <1>8, <1>9 DEF PanelInv

\* Every step of the accounts tab keeps its invariant.
LEMMA PanelStepKeeps ==
  ASSUME PanelBounds, PanelInv, [Panel!Next]_(Panel!vars)
  PROVE  PanelInv'
<1>1. CASE UNCHANGED Panel!vars
  <2>1. UNCHANGED <<pool, rows, selected, detail, verdict, timers, action, reload, old,
                    outdated, panelTick>>
    BY <1>1 DEF Panel!vars, Panel!hostVars, Panel!rowVars, Panel!messageVars, Panel!ghostVars
  <2> QED
    BY <2>1, PanelPartsKept DEF PanelInv
<1>2. CASE Panel!Next
  BY <1>2, LookingKeeps, PressKeeps, AnsweredKeeps, ReloadingKeeps, EditsElsewhereKeep
     DEF Panel!Next
<1> QED
  BY <1>1, <1>2

\* In every behaviour of the accounts tab its invariant holds.
LEMMA PanelAlways ==
  ASSUME PanelBounds
  PROVE  Panel!Spec => []PanelInv
<1>1. Panel!Init => PanelInv
  BY PanelStarts
<1>2. PanelInv /\ [Panel!Next]_(Panel!vars) => PanelInv'
  BY PanelStepKeeps
<1> QED
  BY <1>1, <1>2, PTL DEF Panel!Spec

\* When no action runs, rows that are not known to differ are the host's.
LEMMA ExpectedRowsAreThere ==
  ASSUME PanelInv
  PROVE  Panel!RowsFollowTheActions
<1>1. Panel!NoAction.step = "none"
  BY DEF Panel!NoAction
<1> QED
  BY <1>1 DEF PanelInv, RowsAreExpected, Panel!RowsFollowTheActions, Panel!Busy

\* A verdict goes when its own time is over or the next action begins.
LEMMA VerdictsGoInTime ==
  ASSUME PanelBounds, PanelInv, [Panel!Next]_(Panel!vars), verdict # 0, verdict' = 0
  PROVE  panelTick >= verdict + MessageTtl \/ (~Panel!Busy /\ Panel!Busy')
<1>0. /\ MessagesRight /\ timers \subseteq {verdict + MessageTtl}
      /\ panelTick \in Nat /\ verdict \in Nat /\ MessageTtl \in Nat
  BY DEF PanelInv, MessagesRight, PanelBounds
<1>1. CASE Panel!Dismiss
  <2>1. PICK due \in timers : due <= panelTick
    BY <1>1 DEF Panel!Dismiss
  <2> QED
    BY <1>0, <2>1
<1>2. ASSUME NEW kind \in Panel!Kinds, NEW i \in 1..Panel!Cardinality(Accounts),
             Panel!Press(kind, i)
      PROVE  ~Panel!Busy /\ Panel!Busy'
  <2>1. /\ action = Panel!NoAction
        /\ action' = [kind |-> kind, at |-> i, step |-> "calling", ok |-> TRUE]
    BY <1>2 DEF Panel!Press, Panel!Busy
  <2>2. action'.step = "calling" /\ Panel!NoAction.step = "none"
    BY <2>1 DEF Panel!NoAction
  <2>3. action' # Panel!NoAction
    BY <2>2
  <2>4. Panel!Busy' <=> action' # Panel!NoAction'
    BY DEF Panel!Busy
  <2>5. Panel!NoAction' = Panel!NoAction
    BY DEF Panel!NoAction
  <2> QED
    BY <2>1, <2>3, <2>4, <2>5 DEF Panel!Busy
<1>3. ~Panel!Say(TRUE)
  BY <1>0, SayingIsRight
<1>4. ~UNCHANGED <<verdict, timers>>
  OBVIOUS
<1>5. /\ ~Panel!Type /\ ~Panel!LeaveTab /\ ~Panel!Elsewhere /\ ~Panel!Tick
      /\ ~UNCHANGED Panel!vars /\ \A i : ~Panel!Select(i)
  BY DEF Panel!Type, Panel!LeaveTab, Panel!Elsewhere, Panel!Tick, Panel!Select,
         Panel!messageVars, Panel!vars
<1>6. ~Panel!CallAnswered /\ ~Panel!CallAnsweredNo
  BY <1>3, <1>4 DEF Panel!CallAnswered, Panel!CallAnsweredNo, Panel!Fail, Panel!messageVars
<1>7. ASSUME NEW r PROVE ~Panel!Settle(r)
  BY <1>3, <1>4 DEF Panel!Settle, Panel!Finish, Panel!messageVars
<1>8. \A r : /\ ~Panel!Ask(r) /\ ~Panel!HostLists(r)
             /\ ~Panel!ListArrives(r) /\ ~Panel!ListFails(r)
  BY <1>7 DEF Panel!Ask, Panel!HostLists, Panel!ListArrives, Panel!ListFails, Panel!messageVars
<1> QED
  BY <1>1, <1>2, <1>5, <1>6, <1>8 DEF Panel!Next

\* Every variable of the accounts tab has its type: what is selected and shown in the detail
\* is a row that is there.
THEOREM PanelTypesCorrect ==
  ASSUME PanelBounds
  PROVE  Panel!Spec => []Panel!TypeOK
<1>1. PanelInv => Panel!TypeOK
  BY PanelTypesHold
<1> QED
  BY <1>1, PanelAlways, PTL

\* Once an action has ended and nothing is under way, the rows are the host's accounts, in
\* whatever order lists came: outdated they are only by what others did, a lost reply, an
\* action's failed list or another reload's list from before a change.
THEOREM RowsAreTheHosts ==
  ASSUME PanelBounds
  PROVE  Panel!Spec => []Panel!RowsFollowTheActions
<1>1. PanelInv => Panel!RowsFollowTheActions
  BY ExpectedRowsAreThere
<1> QED
  BY <1>1, PanelAlways, PTL

\* The verdict of an action is on screen for its whole time, whatever was shown before it: no
\* dismissal of an older message takes it away (timedChannel).
THEOREM VerdictsStayTheirTime ==
  ASSUME PanelBounds
  PROVE  Panel!Spec => Panel!VerdictsLast
<1>1. PanelInv /\ [Panel!Next]_(Panel!vars) =>
        [verdict # 0 /\ verdict' = 0 =>
           panelTick >= verdict + MessageTtl \/ (~Panel!Busy /\ Panel!Busy')]_(Panel!vars)
  BY VerdictsGoInTime
<1> QED
  BY <1>1, PanelAlways, PTL DEF Panel!Spec, Panel!VerdictsLast

-----------------------------------------------------------------------------
(* The answer of the conversation: its chunks.                              *)

\* Parts and messages are counted.
TalkBounds == MaxParts \in Nat /\ MaxMessages \in Nat

ChunkTypes == {"start", "delta", "end", "usage", "finish"}
BlockKinds == {"text", "thought", "call"}
Chunks == [type: ChunkTypes, index: Nat, kind: BlockKinds \cup {"none"}]
Parser == [open: Talk!Block, index: Nat, blocks: Seq(Talk!Block), chunks: Seq(Chunks),
           done: BOOLEAN, finished: BOOLEAN, usage: BOOLEAN]

\* How many chunks of a type stand before a place.
Earlier(cs, i, type) == {j \in 1..i - 1 : cs[j].type = type}
CountOf(cs, i, type) == Cardinality(Earlier(cs, i, type))
IsOpen(cs, i) == CountOf(cs, i, "start") # CountOf(cs, i, "end")

\* A chunk fits the ones before it.
ChunkFits(cs, i) ==
  /\ cs[i].type = "start" => ~IsOpen(cs, i) /\ cs[i].index = CountOf(cs, i, "start")
  /\ cs[i].type \in {"delta", "end"} =>
       IsOpen(cs, i) /\ cs[i].index + 1 = CountOf(cs, i, "start")
  /\ \A j \in 1..i - 1 :
       cs[i].type = "delta" /\ cs[j].type = "delta" /\ cs[j].index = cs[i].index =>
         cs[i].kind # "call" /\ cs[j].kind # "call"
  /\ \A j \in 1..i - 1 :
       j + 1 = i /\ cs[j].type = "end" /\ cs[i].type = "start" =>
         cs[j].kind # cs[i].kind \/ cs[j].kind = "call"

\* While an answer is read its chunks fit, the blocks that were opened and closed are as many
\* as its index says, and every delta of its index is of the open block.
AnswerInv(p) ==
  /\ p \in Parser
  /\ p.open = Talk!NoBlock \/ p.open.kind \in BlockKinds
  /\ \A i \in 1..Len(p.chunks) :
       p.chunks[i].type \in {"start", "delta", "end"} /\ ChunkFits(p.chunks, i)
  /\ CountOf(p.chunks, Len(p.chunks) + 1, "end") = p.index
  /\ CountOf(p.chunks, Len(p.chunks) + 1, "start") =
       IF p.open = Talk!NoBlock THEN p.index ELSE p.index + 1
  /\ \A i \in 1..Len(p.chunks) :
       p.chunks[i].type = "delta" =>
         /\ p.chunks[i].index <= p.index
         /\ p.chunks[i].index = p.index =>
              p.open # Talk!NoBlock /\ p.chunks[i].kind = p.open.kind

\* Counting reaches to the place before, and what is appended changes no count.
LEMMA CountsOfChunks ==
  ASSUME NEW cs \in Seq(Chunks), NEW c \in Chunks, NEW type
  PROVE  /\ \A i \in 1..Len(cs) + 1 : CountOf(cs, i, type) \in Nat
         /\ \A i \in 1..Len(cs) + 1 : CountOf(Append(cs, c), i, type) = CountOf(cs, i, type)
         /\ CountOf(Append(cs, c), Len(cs) + 2, type) =
              IF c.type = type THEN CountOf(cs, Len(cs) + 1, type) + 1
              ELSE CountOf(cs, Len(cs) + 1, type)
<1> DEFINE n == Len(cs)
           ds == Append(cs, c)
<1>1. /\ n \in Nat /\ ds \in Seq(Chunks) /\ Len(ds) = n + 1
      /\ \A i \in 1..n : ds[i] = cs[i]
      /\ ds[n + 1] = c
  BY AppendProperties, LenProperties
<1> HIDE DEF ds, n
<1>2. ASSUME NEW i \in 1..n + 1 PROVE IsFiniteSet(Earlier(cs, i, type))
  <2>1. i - 1 \in Nat /\ IsFiniteSet(1..i - 1)
    BY <1>1, FS_Interval
  <2> QED
    BY <2>1, FS_Subset DEF Earlier
<1>3. ASSUME NEW i \in 1..n + 1 PROVE Earlier(ds, i, type) = Earlier(cs, i, type)
  <2>1. \A j \in 1..i - 1 : j \in 1..n
    BY <1>1
  <2> QED
    BY <1>1, <2>1 DEF Earlier
<1>4. Earlier(ds, n + 2, type) =
        IF c.type = type THEN Earlier(cs, n + 1, type) \cup {n + 1} ELSE Earlier(cs, n + 1, type)
  <2>1. 1..(n + 2) - 1 = (1..(n + 1) - 1) \cup {n + 1}
    BY <1>1
  <2>2. \A j \in 1..(n + 1) - 1 : j \in 1..n
    BY <1>1
  <2> QED
    BY <1>1, <2>1, <2>2 DEF Earlier
<1>5. n + 1 \notin Earlier(cs, n + 1, type)
  BY <1>1 DEF Earlier
<1>6. n + 1 \in 1..n + 1
  BY <1>1
<1>7. Cardinality(Earlier(cs, n + 1, type) \cup {n + 1}) = Cardinality(Earlier(cs, n + 1, type)) + 1
  BY <1>2, <1>5, <1>6, FS_AddElement
<1>8. \A i \in 1..n + 1 : CountOf(cs, i, type) \in Nat
  BY <1>2, FS_CardinalityType DEF CountOf
<1>9. \A i \in 1..n + 1 : CountOf(ds, i, type) = CountOf(cs, i, type)
  BY <1>3 DEF CountOf
<1>10. CountOf(ds, n + 2, type) =
         IF c.type = type THEN CountOf(cs, n + 1, type) + 1 ELSE CountOf(cs, n + 1, type)
  BY <1>4, <1>7 DEF CountOf
<1> QED
  BY <1>8, <1>9, <1>10 DEF n, ds

\* Chunks that fit go on to when another is appended.
LEMMA FittingStays ==
  ASSUME NEW cs \in Seq(Chunks), NEW c \in Chunks, NEW i \in 1..Len(cs), ChunkFits(cs, i)
  PROVE  ChunkFits(Append(cs, c), i)
<1> DEFINE ds == Append(cs, c)
<1>1. /\ Len(cs) \in Nat /\ \A j \in 1..Len(cs) : ds[j] = cs[j]
  BY AppendProperties, LenProperties
<1>2. i \in 1..Len(cs) + 1 /\ \A j \in 1..i - 1 : j \in 1..Len(cs)
  BY <1>1
<1>3. /\ CountOf(ds, i, "start") = CountOf(cs, i, "start")
      /\ CountOf(ds, i, "end") = CountOf(cs, i, "end")
  BY <1>2, CountsOfChunks
<1>4. IsOpen(ds, i) <=> IsOpen(cs, i)
  BY <1>3 DEF IsOpen
<1>5. ds[i] = cs[i] /\ \A j \in 1..i - 1 : ds[j] = cs[j]
  BY <1>1, <1>2
<1> HIDE DEF ds
<1>6. ChunkFits(ds, i)
  BY <1>3, <1>4, <1>5 DEF ChunkFits
<1> QED
  BY <1>6 DEF ds

\* The last chunk fits when its own index and kind do.
LEMMA LastFits ==
  ASSUME NEW cs \in Seq(Chunks), NEW c \in Chunks,
         c.type = "start" => ~IsOpen(cs, Len(cs) + 1) /\ c.index = CountOf(cs, Len(cs) + 1, "start"),
         c.type \in {"delta", "end"} =>
           IsOpen(cs, Len(cs) + 1) /\ c.index + 1 = CountOf(cs, Len(cs) + 1, "start"),
         c.type = "delta" => \A j \in 1..Len(cs) :
           cs[j].type = "delta" /\ cs[j].index = c.index => c.kind # "call" /\ cs[j].kind # "call",
         c.type = "start" /\ Len(cs) > 0 /\ cs[Len(cs)].type = "end" =>
           cs[Len(cs)].kind # c.kind \/ cs[Len(cs)].kind = "call"
  PROVE  ChunkFits(Append(cs, c), Len(cs) + 1)
<1> DEFINE ds == Append(cs, c)
           n == Len(cs)
<1>1. /\ n \in Nat /\ ds[n + 1] = c /\ \A j \in 1..n : ds[j] = cs[j]
  BY AppendProperties, LenProperties
<1>2. /\ CountOf(ds, n + 1, "start") = CountOf(cs, n + 1, "start")
      /\ CountOf(ds, n + 1, "end") = CountOf(cs, n + 1, "end")
  <2>1. n + 1 \in 1..Len(cs) + 1
    BY <1>1
  <2> QED
    BY <2>1, CountsOfChunks
<1>3. IsOpen(ds, n + 1) <=> IsOpen(cs, n + 1)
  BY <1>2 DEF IsOpen
<1>4. \A j \in 1..(n + 1) - 1 : j \in 1..n /\ (j + 1 = n + 1 => j = n /\ n > 0)
  BY <1>1
<1> HIDE DEF ds
<1>5. \A j \in 1..(n + 1) - 1 :
        ds[n + 1].type = "delta" /\ ds[j].type = "delta" /\ ds[j].index = ds[n + 1].index =>
          ds[n + 1].kind # "call" /\ ds[j].kind # "call"
  BY <1>1, <1>4
<1>6. \A j \in 1..(n + 1) - 1 :
        j + 1 = n + 1 /\ ds[j].type = "end" /\ ds[n + 1].type = "start" =>
          ds[j].kind # ds[n + 1].kind \/ ds[j].kind = "call"
  BY <1>1, <1>4
<1>7. ChunkFits(ds, n + 1)
  BY <1>1, <1>2, <1>3, <1>5, <1>6 DEF ChunkFits
<1> QED
  BY <1>7 DEF ds

\* A chunk that is emitted is put behind the others and changes nothing else.
LEMMA EmitAppends ==
  ASSUME NEW p \in Parser, NEW type \in ChunkTypes, NEW kind \in BlockKinds \cup {"none"}
  PROVE  LET c == [type |-> type, index |-> p.index, kind |-> kind]
             q == Talk!Emit(p, type, kind)
         IN  /\ c \in Chunks /\ p.chunks \in Seq(Chunks) /\ q \in Parser
             /\ q.chunks = Append(p.chunks, c) /\ q.open = p.open /\ q.index = p.index
             /\ q.blocks = p.blocks /\ q.done = p.done /\ q.finished = p.finished
             /\ q.usage = p.usage /\ q = [p EXCEPT !.chunks = Append(p.chunks, c)]
<1> DEFINE c == [type |-> type, index |-> p.index, kind |-> kind]
<1>1. c \in Chunks /\ p.chunks \in Seq(Chunks)
  BY DEF Chunks, Parser
<1>2. Append(p.chunks, c) \in Seq(Chunks)
  BY <1>1, AppendProperties
<1>3. Talk!Emit(p, type, kind) = [p EXCEPT !.chunks = Append(p.chunks, c)]
  BY DEF Talk!Emit, Talk!Chunk
<1> HIDE DEF c
<1>4. LET q == [p EXCEPT !.chunks = Append(p.chunks, c)]
      IN  /\ q \in Parser /\ q.chunks = Append(p.chunks, c) /\ q.open = p.open
          /\ q.index = p.index /\ q.blocks = p.blocks /\ q.done = p.done
          /\ q.finished = p.finished /\ q.usage = p.usage
  BY <1>2 DEF Parser
<1> QED
  BY <1>1, <1>3, <1>4 DEF c

\* A block has a kind, and the one that is none has no kind of a block.
LEMMA NoBlockIsNone ==
  /\ Talk!NoBlock.kind = "none" /\ \A b : b.kind \in BlockKinds => b # Talk!NoBlock
  BY DEF Talk!NoBlock, BlockKinds

\* Closing the open block emits its end (closeBlock).
LEMMA ClosingFits ==
  ASSUME NEW p, AnswerInv(p), p.open # Talk!NoBlock, Talk!NoBlock \in Talk!Block
  PROVE  LET q == Talk!Closed(p)
             n == Len(q.chunks)
         IN  /\ AnswerInv(q) /\ q.open = Talk!NoBlock
             /\ n > 0 /\ q.chunks[n].type = "end" /\ q.chunks[n].kind = p.open.kind
             /\ q.done = p.done /\ q.finished = p.finished /\ q.usage = p.usage
<1> DEFINE c == [type |-> "end", index |-> p.index, kind |-> p.open.kind]
           cs == p.chunks
           ds == Append(cs, c)
           n == Len(cs)
           e == Talk!Emit(p, "end", p.open.kind)
           q == Talk!Closed(p)
<1>1. p \in Parser /\ p.open \in Talk!Block /\ p.open.kind \in BlockKinds /\ p.index \in Nat
  BY DEF AnswerInv, Parser
<1>2. /\ c \in Chunks /\ cs \in Seq(Chunks) /\ e \in Parser /\ e.chunks = ds
      /\ e.index = p.index /\ e.blocks = p.blocks
      /\ e.done = p.done /\ e.finished = p.finished /\ e.usage = p.usage
  BY <1>1, EmitAppends DEF ChunkTypes
<1>3. q = [e EXCEPT !.blocks = Append(@, p.open), !.open = Talk!NoBlock, !.index = @ + 1]
  BY DEF Talk!Closed
<1>4. Append(e.blocks, p.open) \in Seq(Talk!Block) /\ e.index + 1 \in Nat
  <2>1. e.blocks \in Seq(Talk!Block)
    BY <1>2 DEF Parser
  <2> QED
    BY <1>1, <1>2, <2>1, AppendProperties
<1>5. /\ c.type = "end" /\ c.index = p.index /\ c.kind = p.open.kind
  OBVIOUS
<1>6. /\ n \in Nat /\ Len(ds) = n + 1 /\ ds[n + 1] = c /\ \A j \in 1..n : ds[j] = cs[j]
      /\ \A i \in 1..n + 1 : i \in 1..n \/ i = n + 1
  BY <1>2, AppendProperties, LenProperties
<1> HIDE DEF c, ds, e, q, n, cs
<1>7. /\ q \in Parser /\ q.chunks = ds /\ q.open = Talk!NoBlock /\ q.index = p.index + 1
      /\ q.done = p.done /\ q.finished = p.finished /\ q.usage = p.usage
  BY <1>2, <1>3, <1>4 DEF Parser
<1>8. CountOf(cs, n + 1, "end") = p.index /\ CountOf(cs, n + 1, "start") = p.index + 1
  BY DEF AnswerInv, cs, n
<1>9. ChunkFits(ds, n + 1)
  <2>1. IsOpen(cs, n + 1)
    BY <1>1, <1>8 DEF IsOpen
  <2> QED
    BY <1>2, <1>5, <1>8, <2>1, LastFits DEF ds, n
<1>10. \A i \in 1..n : cs[i].type \in {"start", "delta", "end"} /\ ChunkFits(cs, i)
  BY DEF AnswerInv, cs, n
<1>11. ASSUME NEW i \in 1..Len(ds)
       PROVE  ds[i].type \in {"start", "delta", "end"} /\ ChunkFits(ds, i)
  <2>1. CASE i \in 1..n
    BY <1>2, <1>6, <1>10, <2>1, FittingStays DEF ds, n
  <2>2. CASE i = n + 1
    BY <1>5, <1>6, <1>9, <2>2
  <2> QED
    BY <1>6, <2>1, <2>2
<1>12. /\ CountOf(ds, Len(ds) + 1, "end") = p.index + 1
       /\ CountOf(ds, Len(ds) + 1, "start") = p.index + 1
  <2>1. Len(ds) + 1 = Len(cs) + 2 /\ n = Len(cs)
    BY <1>6 DEF n
  <2> QED
    BY <1>2, <1>5, <1>8, <2>1, CountsOfChunks DEF ds
<1>13. ASSUME NEW i \in 1..Len(ds), ds[i].type = "delta"
       PROVE  ds[i].index \in Nat /\ ds[i].index < p.index + 1
  <2>1. i \in 1..n /\ ds[i] = cs[i]
    BY <1>5, <1>6, <1>13
  <2>2. cs[i].index <= p.index /\ cs[i] \in Chunks
    BY <1>2, <1>13, <2>1, ElementOfSeq DEF AnswerInv, cs, n
  <2> QED
    BY <1>1, <2>1, <2>2 DEF Chunks
<1>14. \A i \in 1..Len(ds) : ds[i].type = "delta" =>
         ds[i].index <= p.index + 1 /\ ds[i].index # p.index + 1
  BY <1>1, <1>13
<1>15. AnswerInv(q)
  BY <1>7, <1>11, <1>12, <1>14 DEF AnswerInv
<1> QED
  BY <1>5, <1>6, <1>7, <1>15 DEF q

\* Opening a block where none is open emits its start, and no delta is of it yet.
LEMMA OpeningFits ==
  ASSUME NEW p, AnswerInv(p), p.open = Talk!NoBlock,
         NEW block \in Talk!Block, block.kind \in BlockKinds,
         LET last == p.chunks[Len(p.chunks)]
         IN  Len(p.chunks) > 0 /\ last.type = "end" => last.kind # block.kind \/ last.kind = "call"
  PROVE  LET q == Talk!Opened(p, block)
         IN  /\ AnswerInv(q) /\ q.open = block /\ q.index = p.index
             /\ \A i \in 1..Len(q.chunks) : q.chunks[i].type = "delta" => q.chunks[i].index # q.index
             /\ q.done = p.done /\ q.finished = p.finished /\ q.usage = p.usage
<1> DEFINE c == [type |-> "start", index |-> p.index, kind |-> block.kind]
           cs == p.chunks
           ds == Append(cs, c)
           n == Len(cs)
           e == Talk!Emit(p, "start", block.kind)
           q == Talk!Opened(p, block)
<1>1. p \in Parser /\ p.index \in Nat
  BY DEF AnswerInv, Parser
<1>2. /\ c \in Chunks /\ cs \in Seq(Chunks) /\ e \in Parser /\ e.chunks = ds
      /\ e.index = p.index
      /\ e.done = p.done /\ e.finished = p.finished /\ e.usage = p.usage
  BY <1>1, EmitAppends DEF ChunkTypes
<1>3. q = [e EXCEPT !.open = block]
  BY DEF Talk!Opened
<1>5. /\ c.type = "start" /\ c.index = p.index /\ c.kind = block.kind
  OBVIOUS
<1>6. /\ n \in Nat /\ Len(ds) = n + 1 /\ ds[n + 1] = c /\ \A j \in 1..n : ds[j] = cs[j]
      /\ \A i \in 1..n + 1 : i \in 1..n \/ i = n + 1
  BY <1>2, AppendProperties, LenProperties
<1>0. n > 0 /\ cs[n].type = "end" => cs[n].kind # c.kind \/ cs[n].kind = "call"
  OBVIOUS
<1> HIDE DEF c, ds, e, q, n, cs
<1>7. /\ q \in Parser /\ q.chunks = ds /\ q.open = block /\ q.index = p.index
      /\ q.done = p.done /\ q.finished = p.finished /\ q.usage = p.usage
  BY <1>2, <1>3 DEF Parser
<1>8. CountOf(cs, n + 1, "end") = p.index /\ CountOf(cs, n + 1, "start") = p.index
  BY DEF AnswerInv, cs, n
<1>9. ChunkFits(ds, n + 1)
  <2>1. ~IsOpen(cs, n + 1)
    BY <1>8 DEF IsOpen
  <2> QED
    BY <1>0, <1>2, <1>5, <1>8, <2>1, LastFits DEF ds, n
<1>10. \A i \in 1..n : cs[i].type \in {"start", "delta", "end"} /\ ChunkFits(cs, i)
  BY DEF AnswerInv, cs, n
<1>11. ASSUME NEW i \in 1..Len(ds)
       PROVE  ds[i].type \in {"start", "delta", "end"} /\ ChunkFits(ds, i)
  <2>1. CASE i \in 1..n
    BY <1>2, <1>6, <1>10, <2>1, FittingStays DEF ds, n
  <2>2. CASE i = n + 1
    BY <1>5, <1>6, <1>9, <2>2
  <2> QED
    BY <1>6, <2>1, <2>2
<1>12. /\ CountOf(ds, Len(ds) + 1, "end") = p.index
       /\ CountOf(ds, Len(ds) + 1, "start") = p.index + 1
  <2>1. Len(ds) + 1 = Len(cs) + 2 /\ n = Len(cs)
    BY <1>6 DEF n
  <2> QED
    BY <1>2, <1>5, <1>8, <2>1, CountsOfChunks DEF ds
<1>13. ASSUME NEW i \in 1..Len(ds), ds[i].type = "delta"
       PROVE  ds[i].index <= p.index /\ ds[i].index # p.index
  <2>1. i \in 1..n /\ ds[i] = cs[i]
    BY <1>5, <1>6, <1>13
  <2> QED
    BY <1>13, <2>1 DEF AnswerInv, cs, n
<1>14. AnswerInv(q)
  BY <1>7, <1>11, <1>12, <1>13, NoBlockIsNone DEF AnswerInv
<1> QED
  BY <1>7, <1>13, <1>14 DEF q

\* A delta of the open block fits, and the second one of a block is not a call's.
LEMMA DeltaFits ==
  ASSUME NEW p, AnswerInv(p), NEW kind \in BlockKinds, p.open.kind = kind,
         kind = "call" =>
           \A i \in 1..Len(p.chunks) : p.chunks[i].type = "delta" => p.chunks[i].index # p.index
  PROVE  LET q == Talk!Emit(p, "delta", kind)
         IN  /\ AnswerInv(q) /\ q.open = p.open
             /\ q.done = p.done /\ q.finished = p.finished /\ q.usage = p.usage
<1> DEFINE c == [type |-> "delta", index |-> p.index, kind |-> kind]
           cs == p.chunks
           ds == Append(cs, c)
           n == Len(cs)
           q == Talk!Emit(p, "delta", kind)
<1>1. p \in Parser /\ p.index \in Nat /\ p.open # Talk!NoBlock
  BY NoBlockIsNone DEF AnswerInv, Parser
<1>2. /\ c \in Chunks /\ cs \in Seq(Chunks) /\ q \in Parser /\ q.chunks = ds
      /\ q.index = p.index /\ q.open = p.open
      /\ q.done = p.done /\ q.finished = p.finished /\ q.usage = p.usage
  BY <1>1, EmitAppends DEF ChunkTypes
<1>5. /\ c.type = "delta" /\ c.index = p.index /\ c.kind = kind
  OBVIOUS
<1>6. /\ n \in Nat /\ Len(ds) = n + 1 /\ ds[n + 1] = c /\ \A j \in 1..n : ds[j] = cs[j]
      /\ \A i \in 1..n + 1 : i \in 1..n \/ i = n + 1
  BY <1>2, AppendProperties, LenProperties
<1>0. \A j \in 1..n : cs[j].type = "delta" /\ cs[j].index = c.index =>
        c.kind # "call" /\ cs[j].kind # "call"
  BY DEF AnswerInv
<1> HIDE DEF c, ds, q, n, cs
<1>8. CountOf(cs, n + 1, "end") = p.index /\ CountOf(cs, n + 1, "start") = p.index + 1
  BY <1>1 DEF AnswerInv, cs, n
<1>9. ChunkFits(ds, n + 1)
  <2>1. IsOpen(cs, n + 1)
    BY <1>1, <1>8 DEF IsOpen
  <2> QED
    BY <1>0, <1>2, <1>5, <1>8, <2>1, LastFits DEF ds, n
<1>10. \A i \in 1..n : cs[i].type \in {"start", "delta", "end"} /\ ChunkFits(cs, i)
  BY DEF AnswerInv, cs, n
<1>11. ASSUME NEW i \in 1..Len(ds)
       PROVE  ds[i].type \in {"start", "delta", "end"} /\ ChunkFits(ds, i)
  <2>1. CASE i \in 1..n
    BY <1>2, <1>6, <1>10, <2>1, FittingStays DEF ds, n
  <2>2. CASE i = n + 1
    BY <1>5, <1>6, <1>9, <2>2
  <2> QED
    BY <1>6, <2>1, <2>2
<1>12. /\ CountOf(ds, Len(ds) + 1, "end") = p.index
       /\ CountOf(ds, Len(ds) + 1, "start") = p.index + 1
  <2>1. Len(ds) + 1 = Len(cs) + 2 /\ n = Len(cs)
    BY <1>6 DEF n
  <2> QED
    BY <1>2, <1>5, <1>8, <2>1, CountsOfChunks DEF ds
<1>13. ASSUME NEW i \in 1..Len(ds), ds[i].type = "delta"
       PROVE  ds[i].index <= p.index /\ (ds[i].index = p.index => ds[i].kind = p.open.kind)
  <2>1. CASE i \in 1..n
    <3>1. ds[i] = cs[i]
      BY <1>6, <2>1
    <3> QED
      BY <1>13, <2>1, <3>1 DEF AnswerInv, cs, n
  <2>2. CASE i = n + 1
    BY <1>1, <1>5, <1>6, <2>2
  <2> QED
    BY <1>6, <2>1, <2>2
<1>14. p.open.kind \in BlockKinds
  OBVIOUS
<1>15. AnswerInv(q)
  BY <1>1, <1>2, <1>11, <1>12, <1>13, <1>14 DEF AnswerInv
<1> QED
  BY <1>2, <1>15 DEF q

\* The blocks that are named are blocks.
LEMMA BlocksAreBlocks ==
  ASSUME TalkBounds
  PROVE  /\ Talk!NoBlock \in Talk!Block /\ Talk!Fresh \in Parser /\ AnswerInv(Talk!Fresh)
         /\ \A kind \in {"text", "empty", "thought"} :
              Talk!Plain(kind) \in Talk!Block /\ Talk!Plain(kind).kind = kind
<1>1. Talk!NoBlock \in Talk!Block
  BY DEF TalkBounds, Talk!NoBlock, Talk!Block, Talk!NoId
<1>2. \A kind \in {"text", "empty", "thought"} :
        Talk!Plain(kind) \in Talk!Block /\ Talk!Plain(kind).kind = kind
  BY <1>1 DEF Talk!Plain, Talk!Block
<1>3. Talk!Fresh \in Parser /\ Talk!Fresh.chunks = <<>> /\ Talk!Fresh.index = 0
      /\ Talk!Fresh.open = Talk!NoBlock
  BY <1>1 DEF Talk!Fresh, Parser
<1>4. \A type : CountOf(<<>>, 1, type) = 0
  <2>1. \A type : Earlier(<<>>, 1, type) = {}
    BY DEF Earlier
  <2> QED
    BY <2>1, FS_EmptySet DEF CountOf
<1>5. Len(<<>>) = 0 /\ Len(<<>>) + 1 = 1 /\ 1..0 = {}
  OBVIOUS
<1>6. AnswerInv(Talk!Fresh)
  BY <1>3, <1>4, <1>5 DEF AnswerInv
<1> QED
  BY <1>1, <1>2, <1>3, <1>6

\* Between two lines nothing is open only before the first block.
AnswerGoesOn(p) == AnswerInv(p) /\ (p.open = Talk!NoBlock => Len(p.chunks) = 0)

\* One block after another: the kinds differ, or it is a call (ensureBlock, closeBlock).
LEMMA NextBlockFits ==
  ASSUME TalkBounds, NEW p, AnswerGoesOn(p), NEW block \in Talk!Block,
         block.kind \in BlockKinds, p.open.kind # block.kind \/ block.kind = "call"
  PROVE  LET q == Talk!Opened(Talk!Closed(p), block)
         IN  /\ AnswerInv(q) /\ q.open = block
             /\ \A i \in 1..Len(q.chunks) : q.chunks[i].type = "delta" => q.chunks[i].index # q.index
<1>1. CASE p.open = Talk!NoBlock
  <2>1. Talk!Closed(p) = p /\ ~(Len(p.chunks) > 0)
    BY <1>1 DEF Talk!Closed, AnswerGoesOn
  <2> QED
    BY <1>1, <2>1, OpeningFits DEF AnswerGoesOn
<1>2. CASE p.open # Talk!NoBlock
  <2> DEFINE c == Talk!Closed(p)
  <2>1. /\ AnswerInv(c) /\ c.open = Talk!NoBlock
        /\ c.chunks[Len(c.chunks)].kind = p.open.kind
    BY <1>2, ClosingFits, BlocksAreBlocks DEF AnswerGoesOn
  <2>2. c.chunks[Len(c.chunks)].kind # block.kind \/ c.chunks[Len(c.chunks)].kind = "call"
    BY <2>1
  <2> HIDE DEF c
  <2>3. LET q == Talk!Opened(c, block)
        IN  /\ AnswerInv(q) /\ q.open = block
            /\ \A i \in 1..Len(q.chunks) :
                 q.chunks[i].type = "delta" => q.chunks[i].index # q.index
    BY <2>1, <2>2, OpeningFits
  <2> QED
    BY <2>3 DEF c
<1> QED
  BY <1>1, <1>2

\* A call is a block of its own with one delta.
LEMMA CallFits ==
  ASSUME TalkBounds, NEW p, AnswerGoesOn(p), NEW call \in Talk!Block, call.kind = "call"
  PROVE  AnswerGoesOn(Talk!WithCall(p, call))
<1> DEFINE q == Talk!Opened(Talk!Closed(p), call)
<1>1. /\ AnswerInv(q) /\ q.open = call
      /\ \A i \in 1..Len(q.chunks) : q.chunks[i].type = "delta" => q.chunks[i].index # q.index
  BY NextBlockFits DEF BlockKinds
<1>2. Talk!WithCall(p, call) = Talk!Emit(q, "delta", "call")
  BY DEF Talk!WithCall
<1> HIDE DEF q
<1>3. LET r == Talk!Emit(q, "delta", "call") IN AnswerInv(r) /\ r.open = call
  BY <1>1, DeltaFits DEF BlockKinds
<1>4. call # Talk!NoBlock
  BY NoBlockIsNone DEF BlockKinds
<1> QED
  BY <1>2, <1>3, <1>4 DEF AnswerGoesOn

\* Text goes on in the open block of its kind, or opens one.
LEMMA TextFits ==
  ASSUME TalkBounds, NEW p, AnswerGoesOn(p), NEW kind \in {"text", "thought"}
  PROVE  AnswerGoesOn(Talk!WithText(p, kind))
<1> DEFINE q == Talk!Ensured(p, Talk!Plain(kind))
<1>1. Talk!Plain(kind) \in Talk!Block /\ Talk!Plain(kind).kind = kind /\ kind \in BlockKinds
  BY BlocksAreBlocks DEF BlockKinds
<1>2. AnswerInv(q) /\ q.open.kind = kind
  <2>1. CASE p.open.kind = kind
    BY <1>1, <2>1 DEF Talk!Ensured, AnswerGoesOn
  <2>2. CASE p.open.kind # kind
    <3>1. q = Talk!Opened(Talk!Closed(p), Talk!Plain(kind))
      BY <1>1, <2>2 DEF Talk!Ensured
    <3> HIDE DEF q
    <3> QED
      BY <1>1, <2>2, <3>1, NextBlockFits
  <2> QED
    BY <2>1, <2>2
<1>3. Talk!WithText(p, kind) = Talk!Emit(q, "delta", kind)
  BY DEF Talk!WithText
<1> HIDE DEF q
<1>4. LET r == Talk!Emit(q, "delta", kind) IN AnswerInv(r) /\ r.open = q.open
  BY <1>1, <1>2, DeltaFits
<1>5. q.open # Talk!NoBlock
  BY <1>1, <1>2, NoBlockIsNone
<1> QED
  BY <1>3, <1>4, <1>5 DEF AnswerGoesOn

\* The flags of an answer say nothing about its chunks.
LEMMA FlagsAreFree ==
  ASSUME NEW p, AnswerGoesOn(p), NEW done \in BOOLEAN, NEW finished \in BOOLEAN,
         NEW usage \in BOOLEAN,
         NEW q, q = [p EXCEPT !.done = done, !.finished = finished, !.usage = usage]
  PROVE  AnswerGoesOn(q)
<1>1. /\ q \in Parser /\ q.open = p.open /\ q.index = p.index /\ q.chunks = p.chunks
  BY DEF AnswerGoesOn, AnswerInv, Parser
<1> QED
  BY <1>1 DEF AnswerGoesOn, AnswerInv

-----------------------------------------------------------------------------
(* The answer of the conversation: what the harness has of it.              *)

\* The count of the property, which is that of the finite sets.
TalkCount(cs, i, type) == Talk!Cardinality({j \in 1..i - 1 : cs[j].type = type})

\* The property counts as the proofs do.
LEMMA TalkCounts ==
  \A cs, i, type : TalkCount(cs, i, type) = CountOf(cs, i, type)
<1>1. \A S : Talk!Cardinality(S) = Cardinality(S)
  BY DEF Talk!Cardinality, Cardinality
<1> QED
  BY <1>1 DEF TalkCount, CountOf, Earlier

\* Chunks that fit, with usage at most once and the finish at the end, are well-formed.
LEMMA FittingIsWellFormed ==
  ASSUME LET cs == parser.chunks
         IN  /\ cs \in Seq(Chunks) /\ \A i \in 1..Len(cs) : ChunkFits(cs, i)
             /\ \A i \in 1..Len(cs) :
                  /\ cs[i].type = "usage" => CountOf(cs, i, "usage") = 0
                  /\ cs[i].type = "finish" =>
                       i = Len(cs) /\ ~IsOpen(cs, i) /\ (parser.done \/ parser.finished)
             /\ ~streaming /\ cs # <<>> => cs[Len(cs)].type = "finish"
  PROVE  Talk!ChunksAreWellFormed
<1> DEFINE cs == parser.chunks
<1>a. /\ cs \in Seq(Chunks) /\ \A i \in 1..Len(cs) : ChunkFits(cs, i)
      /\ \A i \in 1..Len(cs) :
           /\ cs[i].type = "usage" => CountOf(cs, i, "usage") = 0
           /\ cs[i].type = "finish" =>
                i = Len(cs) /\ ~IsOpen(cs, i) /\ (parser.done \/ parser.finished)
      /\ ~streaming /\ cs # <<>> => cs[Len(cs)].type = "finish"
  OBVIOUS
<1> HIDE DEF cs
<1>0. Len(cs) \in Nat /\ DOMAIN cs = 1..Len(cs)
  BY <1>a, LenProperties
<1>1. ASSUME NEW i \in DOMAIN cs
      PROVE  /\ cs[i].type = "start" =>
                  /\ ~(TalkCount(cs, i, "start") # TalkCount(cs, i, "end"))
                  /\ cs[i].index = TalkCount(cs, i, "start")
             /\ cs[i].type \in {"delta", "end"} =>
                  /\ TalkCount(cs, i, "start") # TalkCount(cs, i, "end")
                  /\ cs[i].index + 1 = TalkCount(cs, i, "start")
             /\ cs[i].type = "usage" => TalkCount(cs, i, "usage") = 0
             /\ cs[i].type = "finish" =>
                  /\ i = Len(cs) /\ ~(TalkCount(cs, i, "start") # TalkCount(cs, i, "end"))
                  /\ parser.done \/ parser.finished
  BY <1>a, <1>0, <1>1, TalkCounts DEF ChunkFits, IsOpen
<1>2. ASSUME NEW i \in DOMAIN cs, cs[i].type = "delta", cs[i].kind = "call",
             NEW j \in DOMAIN cs, cs[j].type = "delta", cs[j].index = cs[i].index
      PROVE  j = i
  <2>1. CASE j \in 1..i - 1
    BY <1>a, <1>0, <1>2, <2>1 DEF ChunkFits
  <2>2. CASE i \in 1..j - 1
    BY <1>a, <1>0, <1>2, <2>2 DEF ChunkFits
  <2> QED
    BY <1>0, <2>1, <2>2
<1>3. ASSUME NEW i \in DOMAIN cs, cs[i].type = "end", i < Len(cs), cs[i + 1].type = "start"
      PROVE  cs[i].kind # cs[i + 1].kind \/ cs[i].kind = "call"
  <2>1. i + 1 \in 1..Len(cs) /\ i \in 1..(i + 1) - 1
    BY <1>0, <1>3
  <2>2. ChunkFits(cs, i + 1)
    BY <1>a, <2>1
  <2> QED
    BY <1>3, <2>1, <2>2 DEF ChunkFits
<1> HIDE DEF TalkCount
<1>4. /\ \A i \in DOMAIN cs :
           /\ cs[i].type = "start" =>
                /\ ~(TalkCount(cs, i, "start") # TalkCount(cs, i, "end"))
                /\ cs[i].index = TalkCount(cs, i, "start")
           /\ cs[i].type \in {"delta", "end"} =>
                /\ TalkCount(cs, i, "start") # TalkCount(cs, i, "end")
                /\ cs[i].index + 1 = TalkCount(cs, i, "start")
           /\ cs[i].type = "delta" /\ cs[i].kind = "call" =>
                \A j \in DOMAIN cs : cs[j].type = "delta" /\ cs[j].index = cs[i].index => j = i
           /\ cs[i].type = "end" /\ i < Len(cs) /\ cs[i + 1].type = "start" =>
                cs[i].kind # cs[i + 1].kind \/ cs[i].kind = "call"
           /\ cs[i].type = "usage" => TalkCount(cs, i, "usage") = 0
           /\ cs[i].type = "finish" =>
                /\ i = Len(cs) /\ ~(TalkCount(cs, i, "start") # TalkCount(cs, i, "end"))
                /\ parser.done \/ parser.finished
      /\ ~streaming /\ cs # <<>> => cs[Len(cs)].type = "finish"
  BY <1>a, <1>1, <1>2, <1>3
<1> QED
  BY <1>4, Zenon DEF Talk!ChunksAreWellFormed, TalkCount, cs

\* An answer that is over: its chunks fit, usage was told at most once and the finish is last,
\* unless there are none.
AnswerIsOver(p) ==
  /\ p \in Parser
  /\ \A i \in 1..Len(p.chunks) :
       /\ ChunkFits(p.chunks, i)
       /\ p.chunks[i].type = "usage" => CountOf(p.chunks, i, "usage") = 0
       /\ p.chunks[i].type = "finish" =>
            i = Len(p.chunks) /\ ~IsOpen(p.chunks, i) /\ (p.done \/ p.finished)
  /\ Len(p.chunks) > 0 => p.chunks[Len(p.chunks)].type = "finish"

\* All blocks are closed and only the finish is missing.
OnlyFinishMissing(p) ==
  /\ p \in Parser /\ ~IsOpen(p.chunks, Len(p.chunks) + 1)
  /\ \A i \in 1..Len(p.chunks) :
       /\ ChunkFits(p.chunks, i) /\ p.chunks[i].type # "finish"
       /\ p.chunks[i].type = "usage" => CountOf(p.chunks, i, "usage") = 0

\* Once the last block is closed usage may be told.
LEMMA UsageFits ==
  ASSUME NEW p, AnswerInv(p), p.open = Talk!NoBlock
  PROVE  OnlyFinishMissing(p) /\ OnlyFinishMissing(Talk!Emit(p, "usage", "none"))
<1> DEFINE c == [type |-> "usage", index |-> p.index, kind |-> "none"]
           cs == p.chunks
           ds == Append(cs, c)
           n == Len(cs)
           q == Talk!Emit(p, "usage", "none")
<1>1. p \in Parser
  BY DEF AnswerInv
<1>2. /\ c \in Chunks /\ cs \in Seq(Chunks) /\ q \in Parser /\ q.chunks = ds
  BY <1>1, EmitAppends DEF ChunkTypes
<1>3. c.type = "usage"
  OBVIOUS
<1>4. /\ n \in Nat /\ Len(ds) = n + 1 /\ ds[n + 1] = c /\ \A j \in 1..n : ds[j] = cs[j]
      /\ \A i \in 1..n + 1 : i \in 1..n \/ i = n + 1
  BY <1>2, AppendProperties, LenProperties
<1> HIDE DEF c, ds, n, cs, q
<1>5. \A i \in 1..n : cs[i].type \in {"start", "delta", "end"} /\ ChunkFits(cs, i)
  BY DEF AnswerInv, cs, n
<1>6. CountOf(cs, n + 1, "end") = p.index /\ CountOf(cs, n + 1, "start") = p.index
  BY DEF AnswerInv, cs, n
<1>7. CountOf(cs, n + 1, "usage") = 0
  <2>1. \A j \in 1..(n + 1) - 1 : j \in 1..n
    BY <1>4
  <2>2. Earlier(cs, n + 1, "usage") = {}
    BY <1>5, <2>1 DEF Earlier
  <2> QED
    BY <2>2, FS_EmptySet DEF CountOf
<1>8. OnlyFinishMissing(p)
  BY <1>1, <1>5, <1>6 DEF OnlyFinishMissing, IsOpen, cs, n
<1>9. ASSUME NEW i \in 1..Len(ds)
      PROVE  /\ ChunkFits(ds, i) /\ ds[i].type # "finish"
             /\ ds[i].type = "usage" => CountOf(ds, i, "usage") = 0
  <2>1. CASE i \in 1..n
    <3>1. ChunkFits(ds, i)
      BY <1>2, <1>5, <2>1, FittingStays DEF ds, n
    <3> QED
      BY <1>4, <1>5, <2>1, <3>1
  <2>2. CASE i = n + 1
    <3>1. ChunkFits(ds, n + 1)
      BY <1>2, <1>3, LastFits DEF ds, n
    <3>2. CountOf(ds, n + 1, "usage") = CountOf(cs, n + 1, "usage")
      <4>1. n + 1 \in 1..Len(cs) + 1
        BY <1>4 DEF n
      <4> QED
        BY <1>2, <4>1, CountsOfChunks DEF ds
    <3> QED
      BY <1>3, <1>4, <1>7, <2>2, <3>1, <3>2
  <2> QED
    BY <1>4, <2>1, <2>2
<1>10. ~IsOpen(ds, Len(ds) + 1)
  <2>1. Len(ds) + 1 = Len(cs) + 2 /\ n = Len(cs)
    BY <1>4 DEF n
  <2>2. /\ CountOf(ds, Len(cs) + 2, "start") = CountOf(cs, n + 1, "start")
        /\ CountOf(ds, Len(cs) + 2, "end") = CountOf(cs, n + 1, "end")
    BY <1>2, <1>3, <2>1, CountsOfChunks DEF ds
  <2> QED
    BY <1>6, <2>1, <2>2 DEF IsOpen
<1>11. OnlyFinishMissing(q)
  BY <1>2, <1>9, <1>10 DEF OnlyFinishMissing
<1> QED
  BY <1>8, <1>11 DEF q

\* The finish comes last.
LEMMA FinishFits ==
  ASSUME NEW p, OnlyFinishMissing(p), p.done \/ p.finished
  PROVE  AnswerIsOver(Talk!Emit(p, "finish", "none"))
<1> DEFINE c == [type |-> "finish", index |-> p.index, kind |-> "none"]
           cs == p.chunks
           ds == Append(cs, c)
           n == Len(cs)
           q == Talk!Emit(p, "finish", "none")
<1>1. p \in Parser
  BY DEF OnlyFinishMissing
<1>2. /\ c \in Chunks /\ cs \in Seq(Chunks) /\ q \in Parser /\ q.chunks = ds
      /\ q.done \/ q.finished
  BY <1>1, EmitAppends DEF ChunkTypes
<1>3. c.type = "finish"
  OBVIOUS
<1>4. /\ n \in Nat /\ Len(ds) = n + 1 /\ ds[n + 1] = c /\ \A j \in 1..n : ds[j] = cs[j]
      /\ \A i \in 1..n + 1 : i \in 1..n \/ i = n + 1
  BY <1>2, AppendProperties, LenProperties
<1> HIDE DEF c, ds, n, cs, q
<1>5. \A i \in 1..n : /\ cs[i].type # "finish" /\ ChunkFits(cs, i)
                      /\ cs[i].type = "usage" => CountOf(cs, i, "usage") = 0
  BY DEF OnlyFinishMissing, cs, n
<1>6. ASSUME NEW i \in 1..n + 1, NEW type PROVE CountOf(ds, i, type) = CountOf(cs, i, type)
  <2>1. i \in 1..Len(cs) + 1
    BY <1>6 DEF n
  <2> QED
    BY <1>2, <2>1, CountsOfChunks, Zenon DEF ds
<1>7. n + 1 \in 1..n + 1
  BY <1>4
<1>8. ~IsOpen(ds, n + 1)
  BY <1>6, <1>7 DEF IsOpen, OnlyFinishMissing, cs, n
<1>9. ASSUME NEW i \in 1..Len(ds)
      PROVE  /\ ChunkFits(ds, i)
             /\ ds[i].type = "usage" => CountOf(ds, i, "usage") = 0
             /\ ds[i].type = "finish" => i = Len(ds) /\ ~IsOpen(ds, i)
  <2>1. CASE i \in 1..n
    <3>1. ChunkFits(ds, i)
      BY <1>2, <1>5, <2>1, FittingStays DEF ds, n
    <3> QED
      BY <1>4, <1>5, <1>6, <2>1, <3>1
  <2>2. CASE i = n + 1
    <3>1. ChunkFits(ds, n + 1)
      BY <1>2, <1>3, LastFits DEF ds, n
    <3> QED
      BY <1>3, <1>4, <1>8, <2>2, <3>1
  <2> QED
    BY <1>4, <2>1, <2>2
<1>10. ds[Len(ds)].type = "finish"
  BY <1>3, <1>4
<1>11. AnswerIsOver(q)
  BY <1>2, <1>9, <1>10 DEF AnswerIsOver
<1> QED
  BY <1>11 DEF q

\* An answer that ends complete is over (the tail of parseAgySse).
LEMMA EndingFits ==
  ASSUME TalkBounds, AnswerGoesOn(parser), Talk!IsComplete
  PROVE  AnswerIsOver(Talk!Ended)
<1> DEFINE closed == Talk!Closed(parser)
           told == IF closed.usage THEN Talk!Emit(closed, "usage", "none") ELSE closed
<1>1. AnswerInv(parser) /\ (parser.done \/ parser.finished)
  BY DEF AnswerGoesOn, Talk!IsComplete
<1>2. /\ AnswerInv(closed) /\ closed.open = Talk!NoBlock
      /\ closed.done = parser.done /\ closed.finished = parser.finished
  <2>1. CASE parser.open = Talk!NoBlock
    BY <1>1, <2>1 DEF Talk!Closed
  <2>2. CASE parser.open # Talk!NoBlock
    BY <1>1, <2>2, ClosingFits, BlocksAreBlocks
  <2> QED
    BY <2>1, <2>2
<1>3. Talk!Ended = Talk!Emit(told, "finish", "none")
  BY DEF Talk!Ended
<1>4. OnlyFinishMissing(told) /\ (told.done \/ told.finished)
  <2> HIDE DEF closed
  <2>1. closed \in Parser
    BY <1>2 DEF AnswerInv
  <2>2. LET e == Talk!Emit(closed, "usage", "none")
        IN  OnlyFinishMissing(e) /\ e.done = closed.done /\ e.finished = closed.finished
    BY <1>2, <2>1, UsageFits, EmitAppends DEF ChunkTypes
  <2>3. OnlyFinishMissing(closed)
    BY <1>2, UsageFits
  <2> QED
    BY <1>1, <1>2, <2>2, <2>3
<1> HIDE DEF told
<1> QED
  BY <1>3, <1>4, FinishFits

-----------------------------------------------------------------------------
(* The conversation.                                                        *)

Messages == [role: {"user", "assistant", "tool"}, blocks: Seq(Talk!Block)]
TalkTypes ==
  /\ history \in Seq(Messages) /\ streaming \in BOOLEAN /\ parser \in Parser
  /\ signatures \in [Talk!Ids -> 0..MaxParts]
  /\ made \in Seq(Names) /\ Len(made) <= parts /\ parts \in 0..MaxParts

\* While an answer is read its blocks go on; else the last one is over, or dropped.
TalkInv ==
  /\ TalkTypes
  /\ streaming => AnswerGoesOn(parser)
  /\ ~streaming => AnswerIsOver(parser)

\* The parser starts an answer with nothing, which is an answer that goes on, and one that is
\* over.
LEMMA FreshIsBoth ==
  ASSUME TalkBounds
  PROVE  Talk!Fresh \in Parser /\ AnswerGoesOn(Talk!Fresh) /\ AnswerIsOver(Talk!Fresh)
<1>1. Talk!Fresh \in Parser /\ AnswerInv(Talk!Fresh)
  BY BlocksAreBlocks
<1>2. Talk!Fresh.chunks = <<>>
  BY DEF Talk!Fresh
<1>3. Len(Talk!Fresh.chunks) = 0
  BY <1>2
<1>4. AnswerIsOver(Talk!Fresh)
  BY <1>1, <1>3 DEF AnswerIsOver
<1> QED
  BY <1>1, <1>3, <1>4 DEF AnswerGoesOn

\* A conversation starts with no history.
LEMMA TalkStarts ==
  ASSUME TalkBounds, Talk!Init
  PROVE  TalkInv
<1>1. 0 \in 0..MaxParts
  BY DEF TalkBounds
<1>2. /\ history = <<>> /\ streaming = FALSE /\ parser = Talk!Fresh
      /\ signatures = [id \in Talk!Ids |-> 0] /\ made = <<>> /\ parts = 0
  BY DEF Talk!Init
<1>3. /\ history \in Seq(Messages) /\ made \in Seq(Names) /\ Len(made) = 0
  BY <1>2
<1>4. parser \in Parser /\ AnswerIsOver(parser)
  BY <1>2, FreshIsBoth
<1>5. signatures \in [Talk!Ids -> 0..MaxParts]
  BY <1>1, <1>2
<1>6. Len(made) <= parts /\ parts \in 0..MaxParts
  BY <1>1, <1>2, <1>3
<1> QED
  BY <1>2, <1>3, <1>4, <1>5, <1>6 DEF TalkInv, TalkTypes

\* A line of the answer brings at most one part: what it makes of the parser goes on, and a
\* call is made under an id of its own.
LEMMA LineKeeps ==
  ASSUME TalkBounds, TalkInv, Talk!Data
  PROVE  TalkInv'
<1>1. PICK kind \in {"text", "empty", "thought", "call", "none"}, name \in Names,
           signed \in BOOLEAN, finish \in BOOLEAN, usage \in BOOLEAN :
        (kind # "none" => parts < MaxParts) /\ Talk!Line(kind, name, signed, finish, usage)
  BY DEF Talk!Data
<1> DEFINE call == [kind |-> "call", id |-> Talk!IdOf(parser), name |-> name,
                    call |-> Len(made) + 1]
           with == CASE kind = "call" -> Talk!WithCall(parser, call)
                     [] kind \in {"text", "thought"} -> Talk!WithText(parser, kind)
                     [] kind \in {"empty", "none"} -> parser
<1>2. /\ streaming /\ streaming' = streaming /\ history' = history
      /\ parser' = [with EXCEPT !.finished = @ \/ finish, !.usage = @ \/ usage]
      /\ kind = "call" =>
           /\ made' = Append(made, name)
           /\ signatures' = IF signed THEN [signatures EXCEPT ![call.id] = call.call]
                            ELSE signatures
      /\ kind # "call" => made' = made /\ signatures' = signatures
      /\ parts' = IF kind = "none" THEN parts ELSE parts + 1
  BY <1>1 DEF Talk!Line
<1>3. /\ MaxParts \in Nat /\ parts \in 0..MaxParts /\ made \in Seq(Names) /\ Len(made) \in Nat
      /\ Len(made) <= parts /\ signatures \in [Talk!Ids -> 0..MaxParts]
  BY LenProperties DEF TalkBounds, TalkInv, TalkTypes
<1>4. ASSUME kind = "call"
      PROVE  /\ call \in Talk!Block /\ call.kind = "call" /\ call.id \in Talk!Ids
             /\ call.call \in 0..MaxParts
  <2>1. Talk!IdOf(parser) = <<Len(made), "given">>
    BY DEF Talk!IdOf
  <2>2. Len(made) \in 0..MaxParts /\ Len(made) + 1 \in 0..MaxParts
    BY <1>1, <1>3, <1>4
  <2>3. Talk!IdOf(parser) \in Talk!Ids
    BY <2>1, <2>2 DEF Talk!Ids
  <2> QED
    BY <2>2, <2>3 DEF Talk!Block
<1>5. AnswerGoesOn(parser)
  BY <1>2 DEF TalkInv
<1> HIDE DEF call
<1>6. AnswerGoesOn(with)
  <2>1. CASE kind = "call"
    BY <1>4, <1>5, <2>1, CallFits
  <2>2. CASE kind \in {"text", "thought"}
    BY <1>5, <2>2, TextFits
  <2>3. CASE kind \in {"empty", "none"}
    BY <1>5, <2>3
  <2> QED
    BY <2>1, <2>2, <2>3
<1> HIDE DEF with
<1>7. AnswerGoesOn(parser') /\ parser' \in Parser
  <2>1. with \in Parser
    BY <1>6 DEF AnswerGoesOn, AnswerInv
  <2> DEFINE f == with.finished \/ finish
             u == with.usage \/ usage
  <2>2. with.done \in BOOLEAN /\ f \in BOOLEAN /\ u \in BOOLEAN
    BY <2>1 DEF Parser
  <2>3. parser' = [with EXCEPT !.done = with.done, !.finished = f, !.usage = u]
    BY <1>2, <2>1 DEF Parser
  <2> HIDE DEF f, u
  <2>4. AnswerGoesOn(parser')
    BY <1>6, <2>2, <2>3, FlagsAreFree
  <2> QED
    BY <2>4 DEF AnswerGoesOn, AnswerInv
<1>8. made' \in Seq(Names) /\ Len(made') <= parts' /\ parts' \in 0..MaxParts
  <2>1. CASE kind = "call"
    <3>1. Append(made, name) \in Seq(Names) /\ Len(Append(made, name)) = Len(made) + 1
      BY <1>3, AppendProperties
    <3> QED
      BY <1>1, <1>2, <1>3, <2>1, <3>1
  <2>2. CASE kind # "call"
    BY <1>1, <1>2, <1>3, <2>2
  <2> QED
    BY <2>1, <2>2
<1>9. signatures' \in [Talk!Ids -> 0..MaxParts]
  BY <1>2, <1>3, <1>4
<1>10. history' \in Seq(Messages) /\ streaming' \in BOOLEAN
  BY <1>2 DEF TalkInv, TalkTypes
<1> QED
  BY <1>2, <1>7, <1>8, <1>9, <1>10 DEF TalkInv, TalkTypes

\* The answer breaks off, or ends complete and is kept if it has blocks.
LEMMA EndKeeps ==
  ASSUME TalkBounds, TalkInv, Talk!Break \/ Talk!Complete
  PROVE  TalkInv'
<1>1. /\ history \in Seq(Messages) /\ signatures' = signatures /\ made' = made /\ parts' = parts
      /\ streaming /\ streaming' = FALSE
  BY Zenon DEF Talk!Break, Talk!Complete, TalkInv, TalkTypes
<1>2. AnswerIsOver(parser') /\ history' \in Seq(Messages)
  <2>1. CASE Talk!Break
    <3>1. parser' = Talk!Fresh /\ history' = history
      BY <2>1 DEF Talk!Break
    <3> QED
      BY <1>1, <3>1, FreshIsBoth
  <2>2. CASE Talk!Complete
    <3> DEFINE ended == Talk!Ended
               m == [role |-> "assistant", blocks |-> ended.blocks]
    <3>1. AnswerIsOver(ended)
      BY <1>1, <2>2, EndingFits DEF Talk!Complete, TalkInv
    <3>2. /\ parser' = ended
          /\ history' = IF ended.blocks = <<>> THEN history ELSE Append(history, m)
      BY <2>2 DEF Talk!Complete
    <3> HIDE DEF ended
    <3>3. ended.blocks \in Seq(Talk!Block)
      BY <3>1 DEF AnswerIsOver, Parser
    <3>4. m \in Messages
      BY <3>3 DEF Messages
    <3>5. Append(history, m) \in Seq(Messages)
      BY <1>1, <3>4, AppendProperties
    <3> QED
      BY <1>1, <3>1, <3>2, <3>5
  <2> QED
    BY <2>1, <2>2
<1>3. parser' \in Parser
  BY <1>2 DEF AnswerIsOver
<1> QED
  BY <1>1, <1>2, <1>3 DEF TalkInv, TalkTypes

\* The tools of the last message answer, in whatever order and shape: the history grows by
\* messages.
LEMMA AnswersGrowHistory ==
  ASSUME TalkBounds, TalkInv, NEW shape, Talk!Answers(shape)
  PROVE  history' \in Seq(Messages)
<1> DEFINE last == Talk!Last(history).blocks
           calls == {b \in Talk!ToSet(last) : b.kind = "call"}
           Result(c) == [c EXCEPT !.kind = "result", !.name = NoName]
           Lost(c) == [Result(c) EXCEPT !.id = Talk!NoId]
           Told(c) == IF shape = "uncorrelated" THEN Lost(c) ELSE Result(c)
<1>1. PICK ended \in Talk!SetToSeqs(calls) :
        LET results == [i \in DOMAIN ended |-> Told(ended[i])]
        IN  history' = IF shape = "blocks"
                         THEN Append(history, [role |-> "user", blocks |-> results])
                         ELSE history \o [i \in DOMAIN results |->
                                            [role |-> "tool", blocks |-> <<results[i]>>]]
  BY DEF Talk!Answers
<1> DEFINE results == [i \in DOMAIN ended |-> Told(ended[i])]
           each == [i \in DOMAIN results |-> [role |-> "tool", blocks |-> <<results[i]>>]]
<1>2. history \in Seq(Messages) /\ history # <<>>
  BY DEF TalkInv, TalkTypes, Talk!Answers
<1>3. last \in Seq(Talk!Block)
  <2>1. Len(history) \in 1..Len(history) /\ Talk!Last(history) = history[Len(history)]
    BY <1>2, EmptySeq, LenProperties DEF Talk!Last
  <2>2. Talk!Last(history) \in Messages
    BY <1>2, <2>1, ElementOfSeq
  <2> QED
    BY <2>2 DEF Messages
<1> HIDE DEF last
<1>4. Talk!ToSet(last) \subseteq Talk!Block /\ IsFiniteSet(Talk!ToSet(last))
  <2>1. Len(last) \in Nat /\ DOMAIN last = 1..Len(last)
    BY <1>3, LenProperties
  <2>2. \A i \in 1..Len(last) : last[i] \in Talk!Block
    BY <1>3, ElementOfSeq
  <2>3. Talk!ToSet(last) = {last[i] : i \in 1..Len(last)}
    BY <2>1 DEF Talk!ToSet
  <2> DEFINE f == [i \in 1..Len(last) |-> last[i]]
  <2>4. f \in Surjection(1..Len(last), Talk!ToSet(last))
    BY <2>3 DEF Surjection
  <2>5. IsFiniteSet(1..Len(last))
    BY <2>1, FS_Interval
  <2> HIDE DEF f
  <2>6. IsFiniteSet(Talk!ToSet(last))
    BY <2>4, <2>5, FS_Surjection
  <2> QED
    BY <2>2, <2>3, <2>6
<1>5. IsFiniteSet(calls) /\ calls \subseteq Talk!Block
  BY <1>4, FS_Subset
<1> HIDE DEF calls
<1>6. Cardinality(calls) \in Nat /\ ended \in [1..Cardinality(calls) -> calls]
  <2>1. Talk!Cardinality(calls) = Cardinality(calls)
    BY DEF Talk!Cardinality, Cardinality
  <2> QED
    BY <1>5, <2>1, FS_CardinalityType DEF Talk!SetToSeqs
<1>7. \A b \in Talk!Block : Told(b) \in Talk!Block
  BY DEF Talk!Block, Talk!NoId
<1> HIDE DEF Told
<1>8. results \in [1..Cardinality(calls) -> Talk!Block]
  BY <1>5, <1>6, <1>7
<1>9. DOMAIN results = 1..Cardinality(calls) /\ results \in Seq(Talk!Block)
  BY <1>6, <1>8, SeqDef
<1>10. history' = IF shape = "blocks"
                    THEN Append(history, [role |-> "user", blocks |-> results])
                    ELSE history \o each
  BY <1>1
<1> HIDE DEF results
<1>11. each \in Seq(Messages)
  <2>1. \A i \in 1..Cardinality(calls) : <<results[i]>> \in Seq(Talk!Block)
    BY <1>8
  <2>2. each \in [1..Cardinality(calls) -> Messages]
    BY <1>9, <2>1 DEF Messages
  <2> HIDE DEF each
  <2> QED
    BY <1>6, <2>2, SeqDef
<1> HIDE DEF each
<1>12. [role |-> "user", blocks |-> results] \in Messages
  BY <1>9 DEF Messages
<1>13. /\ Append(history, [role |-> "user", blocks |-> results]) \in Seq(Messages)
       /\ history \o each \in Seq(Messages)
  BY <1>2, <1>11, <1>12, AppendProperties, ConcatProperties
<1> QED
  BY <1>10, <1>13

\* Every step of the conversation keeps its invariant.
LEMMA TalkStepKeeps ==
  ASSUME TalkBounds, TalkInv, [Talk!Next]_(Talk!vars)
  PROVE  TalkInv'
<1>1. CASE UNCHANGED Talk!vars
  <2>1. /\ history' = history /\ streaming' = streaming /\ parser' = parser
        /\ signatures' = signatures /\ made' = made /\ parts' = parts
    BY <1>1 DEF Talk!vars
  <2> QED
    BY <2>1 DEF TalkInv, TalkTypes
<1>2. CASE Talk!Data
  BY <1>2, LineKeeps
<1>3. CASE Talk!DoneLine
  <2>1. /\ streaming /\ streaming' = streaming /\ history' = history /\ parts' = parts
        /\ signatures' = signatures /\ made' = made /\ parser' = [parser EXCEPT !.done = TRUE]
    BY <1>3 DEF Talk!DoneLine
  <2>2. AnswerGoesOn(parser) /\ parser \in Parser
    BY <2>1 DEF TalkInv, TalkTypes
  <2>3. /\ parser.finished \in BOOLEAN /\ parser.usage \in BOOLEAN /\ TRUE \in BOOLEAN
        /\ parser' = [parser EXCEPT !.done = TRUE, !.finished = parser.finished,
                                    !.usage = parser.usage]
    BY <2>1, <2>2 DEF Parser
  <2>4. AnswerGoesOn(parser')
    BY <2>2, <2>3, FlagsAreFree
  <2>5. parser' \in Parser
    BY <2>4 DEF AnswerGoesOn, AnswerInv
  <2> QED
    BY <2>1, <2>4, <2>5 DEF TalkInv, TalkTypes
<1>4. CASE Talk!Break \/ Talk!Complete \/ Talk!CutShort
  BY <1>4, EndKeeps DEF Talk!CutShort
<1>5. CASE \E kind \in {"text", "empty"} : Talk!Says(kind)
  <2>1. PICK kind \in {"text", "empty"} : Talk!Says(kind)
    BY <1>5
  <2> DEFINE m == [role |-> "user", blocks |-> <<Talk!Plain(kind)>>]
  <2>2. Talk!Plain(kind) \in Talk!Block
    BY BlocksAreBlocks
  <2>3. m \in Messages
    BY <2>2 DEF Messages
  <2>4. /\ streaming' = streaming /\ history' = Append(history, m) /\ parser' = parser
        /\ parts' = parts /\ signatures' = signatures /\ made' = made
    BY <2>1 DEF Talk!Says
  <2> HIDE DEF m
  <2>5. history' \in Seq(Messages)
    BY <2>3, <2>4, AppendProperties DEF TalkInv, TalkTypes
  <2> QED
    BY <2>4, <2>5 DEF TalkInv, TalkTypes
<1>6. CASE \E shape \in {"blocks", "messages", "uncorrelated"} : Talk!Answers(shape)
  <2>1. PICK shape \in {"blocks", "messages", "uncorrelated"} : Talk!Answers(shape)
    BY <1>6
  <2>2. history' \in Seq(Messages)
    BY <2>1, AnswersGrowHistory
  <2>3. /\ streaming' = streaming /\ parser' = parser
        /\ parts' = parts /\ signatures' = signatures /\ made' = made
    BY <2>1 DEF Talk!Answers
  <2> QED
    BY <2>2, <2>3 DEF TalkInv, TalkTypes
<1>7. CASE Talk!Ask
  <2>1. /\ streaming' = TRUE /\ history' = history /\ parser' = Talk!Fresh
        /\ parts' = parts /\ signatures' = signatures /\ made' = made
    BY <1>7 DEF Talk!Ask
  <2> QED
    BY <2>1, FreshIsBoth DEF TalkInv, TalkTypes
<1>8. CASE \E id \in Talk!Ids : Talk!Forget(id)
  <2>1. PICK id \in Talk!Ids : Talk!Forget(id)
    BY <1>8
  <2>2. /\ streaming' = streaming /\ history' = history /\ parser' = parser
        /\ parts' = parts /\ made' = made /\ signatures' = [signatures EXCEPT ![id] = 0]
    BY <2>1 DEF Talk!Forget
  <2>3. 0 \in 0..MaxParts
    BY DEF TalkBounds
  <2> QED
    BY <2>2, <2>3 DEF TalkInv, TalkTypes
<1> QED
  BY <1>1, <1>2, <1>3, <1>4, <1>5, <1>6, <1>7, <1>8 DEF Talk!Next

\* The invariant of the conversation holds in every state.
LEMMA TalkAlways ==
  ASSUME TalkBounds
  PROVE  Talk!Spec => []TalkInv
<1>1. Talk!Init => TalkInv
  BY TalkStarts
<1>2. TalkInv /\ [Talk!Next]_(Talk!vars) => TalkInv'
  BY TalkStepKeeps
<1> QED
  BY <1>1, <1>2, PTL DEF Talk!Spec

\* Every variable of the conversation has its type: history is messages, of blocks.
THEOREM TalkTypesCorrect ==
  ASSUME TalkBounds
  PROVE  Talk!Spec => []Talk!TypeOK
<1>1. TalkInv => Talk!TypeOK
  BY DEF TalkInv, TalkTypes, Messages, Parser, Talk!TypeOK
<1> QED
  BY <1>1, TalkAlways, PTL

\* Whatever the lines of an answer, in whatever order, and wherever it breaks off, its blocks
\* open and close one at a time with ascending indices, a delta is of the open block, a call
\* has exactly one, neighbours of one kind are calls, usage is told at most once, and the
\* finish comes last and only when the stream was complete (parseAgySse).
THEOREM AnswersAreWellFormed ==
  ASSUME TalkBounds
  PROVE  Talk!Spec => []Talk!ChunksAreWellFormed
<1>1. TalkInv => Talk!ChunksAreWellFormed
  <2> SUFFICES ASSUME TalkInv PROVE Talk!ChunksAreWellFormed
    OBVIOUS
  <2> DEFINE cs == parser.chunks
  <2>1. cs \in Seq(Chunks)
    BY DEF TalkInv, TalkTypes, Parser
  <2>2. Len(cs) \in Nat /\ (cs # <<>> => Len(cs) > 0)
    BY <2>1, EmptySeq, LenProperties
  <2>3. CASE streaming
    <3>1. AnswerInv(parser)
      BY <2>3 DEF TalkInv, AnswerGoesOn
    <3>2. \A i \in 1..Len(cs) :
            /\ cs[i].type # "usage" /\ cs[i].type # "finish" /\ ChunkFits(cs, i)
      BY <3>1 DEF AnswerInv
    <3> QED
      BY <2>1, <2>3, <3>2, FittingIsWellFormed
  <2>4. CASE ~streaming
    <3>1. AnswerIsOver(parser)
      BY <2>4 DEF TalkInv
    <3>2. \A i \in 1..Len(cs) :
            /\ ChunkFits(cs, i)
            /\ cs[i].type = "usage" => CountOf(cs, i, "usage") = 0
            /\ cs[i].type = "finish" =>
                 i = Len(cs) /\ ~IsOpen(cs, i) /\ (parser.done \/ parser.finished)
      BY <3>1 DEF AnswerIsOver
    <3>3. Len(cs) > 0 => cs[Len(cs)].type = "finish"
      BY <3>1 DEF AnswerIsOver
    <3> QED
      BY <2>1, <2>2, <3>2, <3>3, FittingIsWellFormed
  <2> QED
    BY <2>3, <2>4
<1> QED
  BY <1>1, TalkAlways, PTL

-----------------------------------------------------------------------------
(* Sequences of sequences, end to end.                                      *)

\* A set with 0 that is closed under the successor has all numbers.
LEMMA NumbersFollow ==
  ASSUME NEW T, 0 \in T, \A n \in Nat : n \in T => n + 1 \in T
  PROVE  \A n \in Nat : n \in T
<1> SUFFICES ASSUME Nat \ T # {} PROVE FALSE
  OBVIOUS
<1>1. \E n \in Nat \ T : \A k \in Nat \ T : <<k, n>> \notin OpToRel(<, Nat)
  <2>1. Nat \ T \subseteq Nat
    OBVIOUS
  <2> QED
    BY <2>1, WFMin, NatLessThanWellFounded, Zenon
<1>2. PICK n \in Nat \ T : \A k \in Nat \ T : ~(k < n)
  BY <1>1, Zenon DEF OpToRel
<1>3. n # 0 /\ n - 1 \in Nat /\ n - 1 < n /\ (n - 1) + 1 = n
  BY <1>2
<1> QED
  BY <1>2, <1>3

\* The function by which FlattenSeq adds one sequence after the other.
Adds(g, ss, n) ==
  /\ g = [i \in 1..n |-> g[i]]
  /\ \A i \in 1..n : g[i] = IF i = 1 THEN ss[i] ELSE g[i - 1] \o ss[i]

\* There is such a function, however many there are to add.
LEMMA AddingGoesOn ==
  ASSUME NEW ss, NEW N \in Nat
  PROVE  \E g : g = [i \in 1..N |-> IF i = 1 THEN ss[i] ELSE g[i - 1] \o ss[i]]
<1> DEFINE T == {n \in Nat : \E g : Adds(g, ss, n)}
<1>1. 0 \in T
  <2>1. Adds([i \in 1..0 |-> ss], ss, 0)
    BY DEF Adds
  <2> QED
    BY <2>1
<1>2. ASSUME NEW n \in Nat, n \in T PROVE n + 1 \in T
  <2>1. PICK g : Adds(g, ss, n)
    BY <1>2
  <2> DEFINE h == [i \in 1..n + 1 |-> IF i <= n THEN g[i]
                                     ELSE IF i = 1 THEN ss[i] ELSE g[i - 1] \o ss[i]]
  <2>2. h = [i \in 1..n + 1 |-> h[i]]
    OBVIOUS
  <2>3. ASSUME NEW i \in 1..n + 1 PROVE h[i] = IF i = 1 THEN ss[i] ELSE h[i - 1] \o ss[i]
    <3>1. h[i] = IF i <= n THEN g[i] ELSE IF i = 1 THEN ss[i] ELSE g[i - 1] \o ss[i]
      OBVIOUS
    <3>2. ASSUME i # 1 PROVE h[i - 1] = g[i - 1]
      <4>1. i - 1 \in 1..n + 1 /\ i - 1 <= n
        BY <3>2
      <4> QED
        BY <4>1
    <3>3. i <= n => g[i] = IF i = 1 THEN ss[i] ELSE g[i - 1] \o ss[i]
      <4>1. i <= n => i \in 1..n
        OBVIOUS
      <4> QED
        BY <2>1, <4>1 DEF Adds
    <3> HIDE DEF h
    <3> QED
      BY <3>1, <3>2, <3>3
  <2> HIDE DEF h
  <2>4. Adds(h, ss, n + 1)
    BY <2>2, <2>3 DEF Adds
  <2> QED
    BY <2>4
<1> HIDE DEF T
<1>3. N \in T
  BY <1>1, <1>2, NumbersFollow
<1>4. PICK g : Adds(g, ss, N)
  BY <1>3 DEF T
<1>5. g = [i \in 1..N |-> IF i = 1 THEN ss[i] ELSE g[i - 1] \o ss[i]]
  BY <1>4 DEF Adds
<1> QED
  BY <1>5

\* What FlattenSeq makes of a sequence of sequences.
LEMMA FlatIsTheSum ==
  ASSUME NEW S, NEW ss \in Seq(Seq(S)), Len(ss) > 0
  PROVE  \E g : /\ \A i \in 1..Len(ss) : g[i] = IF i = 1 THEN ss[i] ELSE g[i - 1] \o ss[i]
                /\ Talk!FlattenSeq(ss) = g[Len(ss)]
<1> DEFINE g == CHOOSE g : g = [i \in 1..Len(ss) |-> IF i = 1 THEN ss[i] ELSE g[i - 1] \o ss[i]]
<1>1. Len(ss) \in Nat
  BY LenProperties
<1>2. g = [i \in 1..Len(ss) |-> IF i = 1 THEN ss[i] ELSE g[i - 1] \o ss[i]]
  BY <1>1, AddingGoesOn
<1>3. Talk!FlattenSeq(ss) = g[Len(ss)]
  BY DEF Talk!FlattenSeq
<1> HIDE DEF g
<1>4. \A i \in 1..Len(ss) : g[i] = IF i = 1 THEN ss[i] ELSE g[i - 1] \o ss[i]
  BY <1>2
<1> QED
  BY <1>3, <1>4

\* Nothing flattens to nothing, and one sequence more is added at the end.
LEMMA FlatGrows ==
  ASSUME NEW S
  PROVE  /\ Talk!FlattenSeq(<<>>) = <<>>
         /\ \A ss \in Seq(Seq(S)), x \in Seq(S) :
              Talk!FlattenSeq(Append(ss, x)) = Talk!FlattenSeq(ss) \o x
<1>1. Talk!FlattenSeq(<<>>) = <<>>
  BY DEF Talk!FlattenSeq
<1>2. ASSUME NEW ss \in Seq(Seq(S)), NEW x \in Seq(S)
      PROVE  Talk!FlattenSeq(Append(ss, x)) = Talk!FlattenSeq(ss) \o x
  <2> DEFINE n == Len(ss)
             tt == Append(ss, x)
  <2>1. /\ n \in Nat /\ tt \in Seq(Seq(S)) /\ Len(tt) = n + 1 /\ tt[n + 1] = x
        /\ \A i \in 1..n : tt[i] = ss[i]
    BY LenProperties, AppendProperties
  <2>2. PICK h : /\ \A i \in 1..n + 1 : h[i] = IF i = 1 THEN tt[i] ELSE h[i - 1] \o tt[i]
                 /\ Talk!FlattenSeq(tt) = h[n + 1]
    <3> HIDE DEF n, tt
    <3>1. Len(tt) > 0
      BY <2>1
    <3>2. \E h : /\ \A i \in 1..Len(tt) : h[i] = IF i = 1 THEN tt[i] ELSE h[i - 1] \o tt[i]
                 /\ Talk!FlattenSeq(tt) = h[Len(tt)]
      BY <2>1, <3>1, FlatIsTheSum
    <3> QED
      BY <2>1, <3>2
  <2>3. CASE n = 0
    <3>1. ss = <<>>
      BY <2>3, EmptySeq
    <3>2. Talk!FlattenSeq(tt) = x
      BY <2>1, <2>2, <2>3
    <3>3. <<>> \o x = x
      BY ConcatEmptySeq
    <3> QED
      BY <1>1, <3>1, <3>2, <3>3
  <2>4. CASE n > 0
    <3>1. PICK g : /\ \A i \in 1..n : g[i] = IF i = 1 THEN ss[i] ELSE g[i - 1] \o ss[i]
                   /\ Talk!FlattenSeq(ss) = g[n]
      BY <2>4, FlatIsTheSum
    <3> DEFINE T == {k \in Nat : k \in 1..n => g[k] = h[k]}
    <3> HIDE DEF n, tt
    <3>2. ASSUME NEW k \in Nat, k \in T PROVE k + 1 \in T
      <4> SUFFICES ASSUME k + 1 \in 1..n PROVE g[k + 1] = h[k + 1]
        OBVIOUS
      <4>1. k + 1 \in 1..n + 1 /\ (k + 1) - 1 = k /\ (k + 1 # 1 => k \in 1..n)
        BY <2>1
      <4>2. g[k + 1] = IF k + 1 = 1 THEN ss[k + 1] ELSE g[k] \o ss[k + 1]
        BY <3>1, <4>1
      <4>3. h[k + 1] = IF k + 1 = 1 THEN tt[k + 1] ELSE h[k] \o tt[k + 1]
        BY <2>2, <4>1
      <4>4. k \in 1..n => g[k] = h[k]
        BY <3>2
      <4> QED
        BY <2>1, <4>1, <4>2, <4>3, <4>4
    <3>3. 0 \in T
      OBVIOUS
    <3> HIDE DEF T
    <3>4. n \in T
      BY <2>1, <3>2, <3>3, NumbersFollow
    <3>5. g[n] = h[n]
      BY <2>1, <2>4, <3>4 DEF T
    <3>6. h[n + 1] = h[n] \o tt[n + 1]
      <4>1. n + 1 \in 1..n + 1 /\ n + 1 # 1 /\ (n + 1) - 1 = n
        BY <2>1, <2>4
      <4> QED
        BY <2>2, <4>1
    <3> QED
      BY <2>1, <2>2, <3>1, <3>5, <3>6 DEF tt
  <2> QED
    BY <2>1, <2>3, <2>4
<1> QED
  BY <1>1, <1>2

\* A set with the empty sequence that is closed under Append has them all.
LEMMA SequencesGrow ==
  ASSUME NEW S, NEW T, <<>> \in T, \A s \in Seq(S), e \in S : s \in T => Append(s, e) \in T
  PROVE  \A s \in Seq(S) : s \in T
<1> DEFINE L == {n \in Nat : \A s \in Seq(S) : Len(s) = n => s \in T}
<1>1. 0 \in L
  BY EmptySeq
<1>2. ASSUME NEW n \in Nat, n \in L PROVE n + 1 \in L
  <2> SUFFICES ASSUME NEW s \in Seq(S), Len(s) = n + 1 PROVE s \in T
    OBVIOUS
  <2>1. s # <<>>
    BY EmptySeq
  <2>2. PICK r \in Seq(S), e \in S : s = Append(r, e)
    BY <2>1, SequenceEmptyOrAppend
  <2>3. Len(r) \in Nat /\ Len(s) = Len(r) + 1
    BY <2>2, AppendProperties, LenProperties
  <2>4. Len(r) = n
    BY <2>3
  <2>5. r \in T
    BY <1>2, <2>4
  <2> QED
    BY <2>2, <2>5
<1> HIDE DEF L
<1>3. \A n \in Nat : n \in L
  BY <1>1, <1>2, NumbersFollow
<1> QED
  BY <1>3, LenProperties DEF L

\* An element of a sequence of sequences, and its place end to end.
Holds(ss, n, p) == \E k \in 1..Len(ss[n]) : ss[n][k] = p
Stands(fs, i, p) == \E j \in 1..i : fs[j] = p

\* What stands at a place end to end is of one of the sequences, and all that the sequences
\* before it hold stands before it.
PlacesAreRight(S, ss, fs) ==
  /\ fs \in Seq(S)
  /\ \A n \in 1..Len(ss), p \in S : Holds(ss, n, p) => Stands(fs, Len(fs), p)
  /\ \A i \in 1..Len(fs) : \E n \in 1..Len(ss) :
       /\ Holds(ss, n, fs[i])
       /\ \A m \in 1..n - 1 : \A p \in S : Holds(ss, m, p) => Stands(fs, i - 1, p)

\* One sequence more puts its elements behind those of the others.
LEMMA PlacesGrow ==
  ASSUME NEW S, NEW ss \in Seq(Seq(S)), NEW x \in Seq(S), NEW fs, PlacesAreRight(S, ss, fs)
  PROVE  PlacesAreRight(S, Append(ss, x), fs \o x)
<1> DEFINE tt == Append(ss, x)
           gs == fs \o x
           n == Len(ss)
           l == Len(fs)
<1>1. /\ n \in Nat /\ Len(tt) = n + 1 /\ tt[n + 1] = x
      /\ \A m \in 1..n : tt[m] = ss[m]
  BY LenProperties, AppendProperties
<1>2. /\ l \in Nat /\ gs \in Seq(S) /\ Len(x) \in Nat /\ Len(gs) = l + Len(x)
      /\ \A i \in 1..l + Len(x) : gs[i] = IF i <= l THEN fs[i] ELSE x[i - l]
  BY LenProperties, ConcatProperties DEF PlacesAreRight
<1> HIDE DEF tt, gs, n, l
<1>3. \A m \in 1..n, p \in S : Holds(tt, m, p) <=> Holds(ss, m, p)
  BY <1>1 DEF Holds
<1>4. \A i \in 0..l, p \in S : Stands(gs, i, p) <=> Stands(fs, i, p)
  <2>1. \A i \in 0..l : \A j \in 1..i : j \in 1..l + Len(x) /\ j <= l
    BY <1>2
  <2>2. \A i \in 0..l : \A j \in 1..i : gs[j] = fs[j]
    BY <1>2, <2>1
  <2> QED
    BY <2>2 DEF Stands
<1>5. /\ \A m \in 1..n, p \in S : Holds(ss, m, p) => Stands(fs, l, p)
      /\ \A i \in 1..l : \E m \in 1..n :
           /\ Holds(ss, m, fs[i])
           /\ \A k \in 1..m - 1 : \A p \in S : Holds(ss, k, p) => Stands(fs, i - 1, p)
  BY DEF PlacesAreRight, n, l
<1>6. \A i, j \in 0..Len(gs) : \A p : i <= j /\ Stands(gs, i, p) => Stands(gs, j, p)
  <2>1. \A i, j \in 0..Len(gs) : i <= j => 1..i \subseteq 1..j
    BY <1>2
  <2> QED
    BY <2>1 DEF Stands
<1>7. \A m \in 1..n, p \in S : Holds(tt, m, p) => Stands(gs, l, p)
  <2>1. l \in 0..l
    BY <1>2
  <2> QED
    BY <1>3, <1>4, <1>5, <2>1
<1>8. ASSUME NEW m \in 1..n + 1, NEW p \in S, Holds(tt, m, p) PROVE Stands(gs, Len(gs), p)
  <2>1. CASE m \in 1..n
    <3>1. l \in 0..Len(gs) /\ Len(gs) \in 0..Len(gs) /\ l <= Len(gs)
      BY <1>2
    <3> QED
      BY <1>6, <1>7, <1>8, <2>1, <3>1
  <2>2. CASE m = n + 1
    <3>1. PICK k \in 1..Len(x) : x[k] = p
      BY <1>1, <1>8, <2>2 DEF Holds
    <3>2. l + k \in 1..Len(gs) /\ gs[l + k] = x[k]
      <4>1. l + k \in 1..l + Len(x) /\ ~(l + k <= l) /\ (l + k) - l = k
        BY <1>2
      <4> QED
        BY <1>2, <4>1
    <3> QED
      BY <3>1, <3>2 DEF Stands
  <2> QED
    BY <1>1, <2>1, <2>2
<1>9. ASSUME NEW i \in 1..Len(gs)
      PROVE  \E m \in 1..n + 1 :
               /\ Holds(tt, m, gs[i])
               /\ \A k \in 1..m - 1 : \A p \in S : Holds(tt, k, p) => Stands(gs, i - 1, p)
  <2>1. i \in 1..l + Len(x) /\ gs[i] \in S
    BY <1>2, ElementOfSeq
  <2>2. CASE i <= l
    <3>1. i \in 1..l /\ i - 1 \in 0..l /\ gs[i] = fs[i]
      BY <1>2, <2>1, <2>2
    <3>2. PICK m \in 1..n :
            /\ Holds(ss, m, fs[i])
            /\ \A k \in 1..m - 1 : \A p \in S : Holds(ss, k, p) => Stands(fs, i - 1, p)
      BY <1>5, <3>1
    <3>3. m \in 1..n + 1 /\ \A k \in 1..m - 1 : k \in 1..n
      BY <1>1
    <3>4. Holds(tt, m, gs[i])
      BY <1>3, <2>1, <3>1, <3>2
    <3>5. \A k \in 1..m - 1 : \A p \in S : Holds(tt, k, p) => Stands(gs, i - 1, p)
      BY <1>3, <1>4, <3>1, <3>2, <3>3
    <3> QED
      BY <3>3, <3>4, <3>5
  <2>3. CASE i > l
    <3>1. i - l \in 1..Len(x) /\ gs[i] = x[i - l] /\ l \in 0..Len(gs) /\ i - 1 \in 0..Len(gs)
          /\ l <= i - 1 /\ n + 1 \in 1..n + 1 /\ (n + 1) - 1 = n
      BY <1>1, <1>2, <2>1, <2>3
    <3>2. Holds(tt, n + 1, gs[i])
      BY <1>1, <3>1 DEF Holds
    <3>3. \A k \in 1..n : \A p \in S : Holds(tt, k, p) => Stands(gs, i - 1, p)
      BY <1>6, <1>7, <3>1
    <3> QED
      BY <3>1, <3>2, <3>3
  <2> QED
    BY <1>2, <2>1, <2>2, <2>3
<1> QED
  BY <1>1, <1>2, <1>8, <1>9 DEF PlacesAreRight, tt, gs

\* So it is with FlattenSeq.
LEMMA FlatPlaces ==
  ASSUME NEW S
  PROVE  \A ss \in Seq(Seq(S)) : PlacesAreRight(S, ss, Talk!FlattenSeq(ss))
<1> DEFINE T == {ss \in Seq(Seq(S)) : PlacesAreRight(S, ss, Talk!FlattenSeq(ss))}
<1>1. <<>> \in T
  <2>1. /\ <<>> \in Seq(Seq(S)) /\ Talk!FlattenSeq(<<>>) = <<>> /\ <<>> \in Seq(S)
        /\ Len(<<>>) = 0
    BY EmptySeq, FlatGrows
  <2>2. PlacesAreRight(S, <<>>, <<>>)
    BY <2>1 DEF PlacesAreRight
  <2> QED
    BY <2>1, <2>2
<1>2. ASSUME NEW ss \in Seq(Seq(S)), NEW x \in Seq(S), ss \in T PROVE Append(ss, x) \in T
  <2>1. Talk!FlattenSeq(Append(ss, x)) = Talk!FlattenSeq(ss) \o x
    BY FlatGrows
  <2>2. Append(ss, x) \in Seq(Seq(S))
    BY AppendProperties
  <2> QED
    BY <1>2, <2>1, <2>2, PlacesGrow
<1> HIDE DEF T
<1>3. \A ss \in Seq(Seq(S)) : ss \in T
  BY <1>1, <1>2, SequencesGrow
<1> QED
  BY <1>3 DEF T

\* Two sequences of sequences, one after the other, flatten to the one and the other.
LEMMA FlatOfTwo ==
  ASSUME NEW S, NEW ss \in Seq(Seq(S))
  PROVE  \A tt \in Seq(Seq(S)) :
           Talk!FlattenSeq(ss \o tt) = Talk!FlattenSeq(ss) \o Talk!FlattenSeq(tt)
<1> DEFINE T == {tt \in Seq(Seq(S)) :
                   Talk!FlattenSeq(ss \o tt) = Talk!FlattenSeq(ss) \o Talk!FlattenSeq(tt)}
<1>1. <<>> \in T
  <2>1. <<>> \in Seq(Seq(S)) /\ Talk!FlattenSeq(<<>>) = <<>> /\ ss \o <<>> = ss
    BY EmptySeq, FlatGrows, ConcatEmptySeq
  <2>2. Talk!FlattenSeq(ss) \in Seq(S)
    BY FlatPlaces DEF PlacesAreRight
  <2>3. Talk!FlattenSeq(ss) \o <<>> = Talk!FlattenSeq(ss)
    BY <2>2, ConcatEmptySeq
  <2> QED
    BY <2>1, <2>3
<1>2. ASSUME NEW tt \in Seq(Seq(S)), NEW x \in Seq(S), tt \in T PROVE Append(tt, x) \in T
  <2>1. Append(tt, x) \in Seq(Seq(S)) /\ Append(tt, x) = tt \o <<x>>
    BY AppendProperties, AppendIsConcat
  <2>2. <<x>> \in Seq(Seq(S)) /\ ss \o tt \in Seq(Seq(S))
    BY ConcatProperties
  <2>3. ss \o Append(tt, x) = Append(ss \o tt, x)
    BY <2>1, <2>2, ConcatAssociative, AppendIsConcat
  <2>4. /\ Talk!FlattenSeq(ss) \in Seq(S) /\ Talk!FlattenSeq(tt) \in Seq(S)
    BY FlatPlaces DEF PlacesAreRight
  <2>5. /\ Talk!FlattenSeq(Append(ss \o tt, x)) = Talk!FlattenSeq(ss \o tt) \o x
        /\ Talk!FlattenSeq(Append(tt, x)) = Talk!FlattenSeq(tt) \o x
    BY <2>2, FlatGrows
  <2>6. (Talk!FlattenSeq(ss) \o Talk!FlattenSeq(tt)) \o x
          = Talk!FlattenSeq(ss) \o (Talk!FlattenSeq(tt) \o x)
    BY <2>4, ConcatAssociative
  <2> QED
    BY <1>2, <2>1, <2>3, <2>5, <2>6
<1> HIDE DEF T
<1>3. \A tt \in Seq(Seq(S)) : tt \in T
  BY <1>1, <1>2, SequencesGrow
<1> QED
  BY <1>3 DEF T

-----------------------------------------------------------------------------
(* The turns of a request.                                                  *)

\* Two parts that could be of one turn.
Alike(p, q) == p.role = q.role /\ (Talk!IsResult(p) <=> Talk!IsResult(q))

\* A part joins a turn whose last part is like it.
LEMMA JoiningIsAlike ==
  ASSUME NEW ps, NEW p
  PROVE  Talk!Joins(ps, p) <=> Alike(ps[Len(ps)], p)
BY DEF Talk!Joins, Talk!Last, Talk!IsResult, Alike

\* No turn is empty or of parts that are not alike, neighbours could not be one, and end to
\* end they are the parts.
TurnsAreRight(S, ts, ps) ==
  /\ ts \in Seq(Seq(S)) /\ Talk!FlattenSeq(ts) = ps
  /\ \A t \in 1..Len(ts) :
       Len(ts[t]) > 0 /\ \A i, j \in 1..Len(ts[t]) : Alike(ts[t][i], ts[t][j])
  /\ \A t \in 1..Len(ts) - 1 : ~Alike(ts[t][1], ts[t + 1][1])

\* A part that is not like the last turn's starts a turn.
LEMMA PartStartsATurn ==
  ASSUME NEW S, NEW ts, NEW ps, TurnsAreRight(S, ts, ps), NEW p \in S,
         Len(ts) = 0 \/ ~Alike(ts[Len(ts)][Len(ts[Len(ts)])], p)
  PROVE  TurnsAreRight(S, Append(ts, <<p>>), ps \o <<p>>)
<1> DEFINE us == Append(ts, <<p>>)
           n == Len(ts)
<1>1. /\ ts \in Seq(Seq(S)) /\ <<p>> \in Seq(S) /\ Talk!FlattenSeq(ts) = ps
      /\ Len(<<p>>) = 1 /\ <<p>>[1] = p
  BY DEF TurnsAreRight
<1>2. /\ n \in Nat /\ us \in Seq(Seq(S)) /\ Len(us) = n + 1 /\ us[n + 1] = <<p>>
      /\ \A t \in 1..n : us[t] = ts[t]
  BY <1>1, AppendProperties, LenProperties
<1>3. Talk!FlattenSeq(us) = ps \o <<p>>
  BY <1>1, FlatGrows
<1> HIDE DEF us, n
<1>4. ASSUME NEW t \in 1..n + 1
      PROVE  Len(us[t]) > 0 /\ \A i, j \in 1..Len(us[t]) : Alike(us[t][i], us[t][j])
  <2>1. CASE t \in 1..n
    BY <1>2, <2>1 DEF TurnsAreRight, n
  <2>2. CASE t = n + 1
    <3> DEFINE one == <<p>>
    <3>1. \A i \in 1..1 : i = 1
      OBVIOUS
    <3>2. Alike(p, p)
      BY DEF Alike
    <3>3. us[t] = one /\ Len(one) = 1 /\ one[1] = p
      BY <1>1, <1>2, <2>2
    <3> HIDE DEF one
    <3>4. \A i, j \in 1..Len(one) : Alike(one[i], one[j])
      BY <3>1, <3>2, <3>3
    <3> QED
      BY <3>3, <3>4
  <2> QED
    BY <1>2, <2>1, <2>2
<1>5. ASSUME NEW t \in 1..n PROVE ~Alike(us[t][1], us[t + 1][1])
  <2>1. CASE t \in 1..n - 1
    <3>1. t \in 1..n /\ t + 1 \in 1..n
      BY <1>2, <2>1
    <3> QED
      BY <1>2, <2>1, <3>1 DEF TurnsAreRight, n
  <2>2. CASE t = n
    <3>1. n \in 1..n
      BY <2>2
    <3> DEFINE l == ts[n]
    <3>2. l \in Seq(S) /\ Len(l) > 0 /\ \A i, j \in 1..Len(l) : Alike(l[i], l[j])
      BY <1>1, <3>1, ElementOfSeq DEF TurnsAreRight, n
    <3>3. 1 \in 1..Len(l) /\ Len(l) \in 1..Len(l)
      BY <3>2, LenProperties
    <3>4. Alike(l[1], l[Len(l)])
      BY <3>2, <3>3
    <3>5. ~Alike(l[Len(l)], p)
      BY <1>2, <3>1 DEF n
    <3>6. us[t] = l /\ us[t + 1][1] = p
      BY <1>1, <1>2, <2>2, <3>1
    <3> HIDE DEF l
    <3>7. ~Alike(l[1], p)
      BY <3>4, <3>5 DEF Alike
    <3> QED
      BY <3>6, <3>7
  <2> QED
    BY <1>2, <2>1, <2>2
<1>6. Len(us) - 1 = n
  BY <1>2
<1> QED
  BY <1>2, <1>3, <1>4, <1>5, <1>6 DEF TurnsAreRight, us

\* A part that is like the last turn's joins it.
LEMMA PartJoinsATurn ==
  ASSUME NEW S, NEW ts, NEW ps, TurnsAreRight(S, ts, ps), NEW p \in S, Len(ts) > 0,
         Alike(ts[Len(ts)][Len(ts[Len(ts)])], p)
  PROVE  TurnsAreRight(S, Talk!Front(ts) \o <<Append(Talk!Last(ts), p)>>, ps \o <<p>>)
<1> DEFINE n == Len(ts)
           last == ts[n]
           front == SubSeq(ts, 1, n - 1)
           more == Append(last, p)
           us == front \o <<more>>
<1>1. /\ ts \in Seq(Seq(S)) /\ Talk!FlattenSeq(ts) = ps /\ <<p>> \in Seq(S)
      /\ Talk!Front(ts) = front /\ Talk!Last(ts) = last
  BY DEF TurnsAreRight, Talk!Front, Talk!Last
<1>2. n \in Nat /\ n > 0 /\ n \in 1..n /\ n - 1 \in Nat
  BY <1>1, LenProperties
<1>3. last \in Seq(S) /\ Len(last) > 0 /\ \A i, j \in 1..Len(last) : Alike(last[i], last[j])
  BY <1>1, <1>2, ElementOfSeq DEF TurnsAreRight
<1>4. /\ front \in Seq(Seq(S)) /\ Len(front) = n - 1
      /\ \A t \in 1..n - 1 : front[t] = ts[t]
  <2>1. \A t \in 1..n - 1 : ts[t] \in Seq(S)
    <3>1. \A t \in 1..n - 1 : t \in 1..n
      BY <1>2
    <3> QED
      BY <1>1, <3>1, ElementOfSeq
  <2>2. /\ SubSeq(ts, 1, n - 1) \in Seq(Seq(S))
        /\ Len(SubSeq(ts, 1, n - 1)) = IF 1 <= n - 1 THEN (n - 1) - 1 + 1 ELSE 0
        /\ \A i \in 1..(n - 1) - 1 + 1 : SubSeq(ts, 1, n - 1)[i] = ts[1 + i - 1]
    <3>1. 1 \in Int /\ n - 1 \in Int
      BY <1>2
    <3> HIDE DEF n
    <3> QED
      BY <2>1, <3>1, SubSeqProperties
  <2>3. (n - 1) - 1 + 1 = n - 1 /\ \A i \in 1..n - 1 : 1 + i - 1 = i
    BY <1>2
  <2> HIDE DEF n
  <2> QED
    BY <1>2, <2>2, <2>3
<1>5. /\ more \in Seq(S) /\ Len(more) = Len(last) + 1 /\ more[Len(last) + 1] = p
      /\ \A i \in 1..Len(last) : more[i] = last[i]
  BY <1>3, AppendProperties
<1>6. ts = front \o <<last>>
  <2>1. 1 \in 1..n
    BY <1>2
  <2>2. SubSeq(ts, 1, n) = SubSeq(ts, 1, n - 1) \o <<ts[n]>>
    BY <1>1, <1>2, <2>1, SubSeqRecursiveSecond
  <2> QED
    BY <1>1, <2>2, SubSeqFull
<1> HIDE DEF more, front, last
<1>7. us = Append(front, more) /\ ts = Append(front, last)
  BY <1>3, <1>4, <1>5, <1>6, AppendIsConcat
<1>8. /\ us \in Seq(Seq(S)) /\ Len(us) = n /\ us[n] = more
      /\ \A t \in 1..n - 1 : us[t] = ts[t]
  <2>1. Len(us) = (n - 1) + 1 /\ us[(n - 1) + 1] = more
    BY <1>4, <1>5, <1>7, AppendProperties
  <2>2. us \in Seq(Seq(S)) /\ \A t \in 1..n - 1 : us[t] = front[t]
    BY <1>4, <1>5, <1>7, AppendProperties
  <2>3. (n - 1) + 1 = n
    BY <1>2
  <2> HIDE DEF us
  <2> QED
    BY <1>4, <2>1, <2>2, <2>3
<1>9. Talk!FlattenSeq(us) = ps \o <<p>>
  <2> DEFINE fs == Talk!FlattenSeq(front)
  <2>1. fs \in Seq(S)
    BY <1>4, FlatPlaces DEF PlacesAreRight
  <2>2. ps = fs \o last
    BY <1>1, <1>3, <1>4, <1>7, FlatGrows
  <2>3. Talk!FlattenSeq(us) = fs \o more
    BY <1>4, <1>5, <1>7, FlatGrows
  <2>4. more = last \o <<p>>
    BY <1>3, AppendIsConcat DEF more
  <2> HIDE DEF fs, us
  <2>5. fs \o (last \o <<p>>) = (fs \o last) \o <<p>>
    BY <1>1, <1>3, <2>1, ConcatAssociative
  <2> QED
    BY <2>2, <2>3, <2>4, <2>5
<1> HIDE DEF us
<1>10. \A i, j \in 1..Len(more) : Alike(more[i], more[j])
  <2>1. Len(last) \in 1..Len(last) /\ Len(last) \in Nat
    BY <1>3, LenProperties
  <2>2. Alike(last[Len(last)], p)
    BY DEF last
  <2>3. \A i \in 1..Len(more) : Alike(last[Len(last)], more[i])
    <3>1. \A i \in 1..Len(last) + 1 : i \in 1..Len(last) \/ i = Len(last) + 1
      BY <2>1
    <3> QED
      BY <1>3, <1>5, <2>1, <2>2, <3>1
  <2>4. \A r, q, s : Alike(r, q) /\ Alike(r, s) => Alike(q, s)
    BY DEF Alike
  <2> QED
    BY <2>3, <2>4
<1>11. more[1] = last[1] /\ Len(more) > 0
  <2>1. 1 \in 1..Len(last)
    BY <1>3, LenProperties
  <2> QED
    BY <1>3, <1>5, <2>1, LenProperties
<1>12. ASSUME NEW t \in 1..n
       PROVE  Len(us[t]) > 0 /\ \A i, j \in 1..Len(us[t]) : Alike(us[t][i], us[t][j])
  <2>1. CASE t \in 1..n - 1
    BY <1>8, <2>1 DEF TurnsAreRight, n
  <2>2. CASE t = n
    BY <1>8, <1>10, <1>11, <2>2
  <2> QED
    BY <1>2, <2>1, <2>2
<1>13. ASSUME NEW t \in 1..n - 1 PROVE ~Alike(us[t][1], us[t + 1][1])
  <2>1. ~Alike(ts[t][1], ts[t + 1][1])
    BY DEF TurnsAreRight, n
  <2>2. us[t + 1][1] = ts[t + 1][1]
    <3>1. CASE t + 1 \in 1..n - 1
      BY <1>8, <3>1
    <3>2. CASE t + 1 = n
      BY <1>8, <1>11, <3>2 DEF last
    <3> QED
      BY <1>2, <3>1, <3>2
  <2> QED
    BY <1>8, <2>1, <2>2
<1> QED
  BY <1>1, <1>8, <1>9, <1>12, <1>13 DEF TurnsAreRight, us, more

\* The parts become turns that are right, one part after the other.
LEMMA PartIsAdded ==
  ASSUME NEW S, NEW ts, NEW ps, TurnsAreRight(S, ts, ps), NEW p \in S
  PROVE  TurnsAreRight(S, Talk!WithPart(ts, p), ps \o <<p>>)
<1> DEFINE last == ts[Len(ts)]
<1>1. ts \in Seq(Seq(S))
  BY DEF TurnsAreRight
<1>2. (ts # <<>> => Len(ts) > 0) /\ (ts = <<>> => Len(ts) = 0)
  BY <1>1, EmptySeq, LenProperties
<1>3. Talk!Joins(Talk!Last(ts), p) <=> Alike(last[Len(last)], p)
  BY JoiningIsAlike DEF Talk!Last
<1>4. Talk!WithPart(ts, p) = IF ts # <<>> /\ Talk!Joins(Talk!Last(ts), p)
                               THEN Talk!Front(ts) \o <<Append(Talk!Last(ts), p)>>
                               ELSE Append(ts, <<p>>)
  BY DEF Talk!WithPart
<1>5. CASE ts # <<>> /\ Talk!Joins(Talk!Last(ts), p)
  <2>1. Len(ts) > 0 /\ Alike(ts[Len(ts)][Len(ts[Len(ts)])], p)
    BY <1>2, <1>3, <1>5
  <2>2. TurnsAreRight(S, Talk!Front(ts) \o <<Append(Talk!Last(ts), p)>>, ps \o <<p>>)
    BY <2>1, PartJoinsATurn
  <2> QED
    BY <1>4, <1>5, <2>2
<1>6. CASE ~(ts # <<>> /\ Talk!Joins(Talk!Last(ts), p))
  <2>1. Len(ts) = 0 \/ ~Alike(ts[Len(ts)][Len(ts[Len(ts)])], p)
    BY <1>2, <1>3, <1>6
  <2>2. TurnsAreRight(S, Append(ts, <<p>>), ps \o <<p>>)
    BY <2>1, PartStartsATurn
  <2> QED
    BY <1>4, <1>6, <2>2
<1> QED
  BY <1>5, <1>6

\* The function by which Coalesced adds one part after the other.
AddsParts(g, ps, n) ==
  /\ g = [i \in 0..n |-> g[i]]
  /\ \A i \in 0..n : g[i] = IF i = 0 THEN <<>> ELSE Talk!WithPart(g[i - 1], ps[i])

\* There is such a function, however many parts there are.
LEMMA TurnsGoOn ==
  ASSUME NEW ps, NEW N \in Nat
  PROVE  \E g : g = [i \in 0..N |-> IF i = 0 THEN <<>> ELSE Talk!WithPart(g[i - 1], ps[i])]
<1> DEFINE T == {n \in Nat : \E g : AddsParts(g, ps, n)}
<1>1. 0 \in T
  <2> DEFINE g == [i \in 0..0 |-> <<>>]
  <2>1. \A i \in 0..0 : i = 0
    OBVIOUS
  <2>2. g = [i \in 0..0 |-> g[i]] /\ g[0] = <<>>
    OBVIOUS
  <2> HIDE DEF g
  <2>3. AddsParts(g, ps, 0)
    BY <2>1, <2>2 DEF AddsParts
  <2> QED
    BY <2>3
<1>2. ASSUME NEW n \in Nat, n \in T PROVE n + 1 \in T
  <2>1. PICK g : AddsParts(g, ps, n)
    BY <1>2
  <2> DEFINE h == [i \in 0..n + 1 |-> IF i <= n THEN g[i]
                                     ELSE IF i = 0 THEN <<>> ELSE Talk!WithPart(g[i - 1], ps[i])]
  <2>2. h = [i \in 0..n + 1 |-> h[i]]
    OBVIOUS
  <2>3. ASSUME NEW i \in 0..n + 1
        PROVE  h[i] = IF i = 0 THEN <<>> ELSE Talk!WithPart(h[i - 1], ps[i])
    <3>1. h[i] = IF i <= n THEN g[i]
                 ELSE IF i = 0 THEN <<>> ELSE Talk!WithPart(g[i - 1], ps[i])
      OBVIOUS
    <3>2. ASSUME i # 0 PROVE h[i - 1] = g[i - 1]
      <4>1. i - 1 \in 0..n + 1 /\ i - 1 <= n
        BY <3>2
      <4> QED
        BY <4>1
    <3>3. i <= n => g[i] = IF i = 0 THEN <<>> ELSE Talk!WithPart(g[i - 1], ps[i])
      <4>1. i <= n => i \in 0..n
        OBVIOUS
      <4> QED
        BY <2>1, <4>1 DEF AddsParts
    <3> HIDE DEF h
    <3> QED
      BY <3>1, <3>2, <3>3
  <2> HIDE DEF h
  <2>4. AddsParts(h, ps, n + 1)
    BY <2>2, <2>3 DEF AddsParts
  <2> QED
    BY <2>4
<1> HIDE DEF T
<1>3. N \in T
  BY <1>1, <1>2, NumbersFollow
<1>4. PICK g : AddsParts(g, ps, N)
  BY <1>3 DEF T
<1>5. g = [i \in 0..N |-> IF i = 0 THEN <<>> ELSE Talk!WithPart(g[i - 1], ps[i])]
  BY <1>4 DEF AddsParts
<1> QED
  BY <1>5

\* All the parts become turns that are right (coalesceContents).
LEMMA CoalescedIsRight ==
  ASSUME NEW S, NEW ps \in Seq(S)
  PROVE  TurnsAreRight(S, Talk!Coalesced(ps), ps)
<1> DEFINE N == Len(ps)
           g == CHOOSE g : g = [i \in 0..Len(ps) |->
                                  IF i = 0 THEN <<>> ELSE Talk!WithPart(g[i - 1], ps[i])]
<1>1. N \in Nat
  BY LenProperties
<1>2. Talk!Coalesced(ps) = g[N]
  BY DEF Talk!Coalesced
<1>3. g = [i \in 0..N |-> IF i = 0 THEN <<>> ELSE Talk!WithPart(g[i - 1], ps[i])]
  BY <1>1, TurnsGoOn
<1> HIDE DEF g, N
<1>4. \A i \in 0..N : g[i] = IF i = 0 THEN <<>> ELSE Talk!WithPart(g[i - 1], ps[i])
  BY <1>3
<1> DEFINE T == {n \in Nat : n <= N => TurnsAreRight(S, g[n], SubSeq(ps, 1, n))}
<1>5. 0 \in T
  <2>1. g[0] = <<>>
    BY <1>1, <1>4
  <2>2. SubSeq(ps, 1, 0) = <<>>
    BY SubSeqEmpty
  <2>3. <<>> \in Seq(Seq(S)) /\ Len(<<>>) = 0 /\ Talk!FlattenSeq(<<>>) = <<>>
    BY EmptySeq, FlatGrows
  <2>4. TurnsAreRight(S, <<>>, <<>>)
    BY <2>3 DEF TurnsAreRight
  <2> QED
    BY <2>1, <2>2, <2>4
<1>6. ASSUME NEW n \in Nat, n \in T PROVE n + 1 \in T
  <2> SUFFICES ASSUME n + 1 <= N
               PROVE  TurnsAreRight(S, g[n + 1], SubSeq(ps, 1, n + 1))
    OBVIOUS
  <2>1. TurnsAreRight(S, g[n], SubSeq(ps, 1, n))
    BY <1>1, <1>6
  <2>2. n + 1 \in 1..N /\ 1 \in 1..N /\ n + 1 \in 0..N /\ n + 1 # 0 /\ (n + 1) - 1 = n
    BY <1>1
  <2>3. ps[n + 1] \in S
    BY <2>2, ElementOfSeq DEF N
  <2>4. g[n + 1] = Talk!WithPart(g[n], ps[n + 1])
    BY <1>4, <2>2
  <2>5. SubSeq(ps, 1, n + 1) = SubSeq(ps, 1, n) \o <<ps[n + 1]>>
    <3>1. 1 \in 1..Len(ps) /\ n + 1 \in 1..Len(ps)
      BY <2>2 DEF N
    <3>2. SubSeq(ps, 1, n + 1) = SubSeq(ps, 1, (n + 1) - 1) \o <<ps[n + 1]>>
      BY <3>1, SubSeqRecursiveSecond
    <3> QED
      BY <2>2, <3>2
  <2> QED
    BY <2>1, <2>3, <2>4, <2>5, PartIsAdded
<1> HIDE DEF T
<1>7. N \in T
  BY <1>1, <1>5, <1>6, NumbersFollow
<1>8. TurnsAreRight(S, g[N], SubSeq(ps, 1, N))
  BY <1>1, <1>7 DEF T
<1> QED
  BY <1>2, <1>8, SubSeqFull DEF N

\* Of some of the first numbers one is the greatest.
LEMMA SomeHaveAGreatest ==
  ASSUME NEW N \in Nat, NEW K, K \subseteq 1..N, K # {}
  PROVE  Talk!Max(K) \in K /\ \A k \in K : k <= Talk!Max(K)
<1> DEFINE T == {n \in Nat : (n <= N /\ \E x \in K : N - n <= x) =>
                             \E x \in K : \A y \in K : x >= y}
<1>1. 0 \in T
  <2>1. \A x \in K : N - 0 <= x => \A y \in K : x >= y
    OBVIOUS
  <2> QED
    BY <2>1
<1>2. ASSUME NEW n \in Nat, n \in T PROVE n + 1 \in T
  <2> SUFFICES ASSUME n + 1 <= N, NEW x \in K, N - (n + 1) <= x
               PROVE  \E z \in K : \A y \in K : z >= y
    OBVIOUS
  <2>1. CASE \E z \in K : N - n <= z
    BY <1>2, <2>1
  <2>2. CASE \A z \in K : ~(N - n <= z)
    <3>1. \A y \in K : x >= y
      BY <2>2
    <3> QED
      BY <3>1
  <2> QED
    BY <2>1, <2>2
<1> HIDE DEF T
<1>3. N \in T
  BY <1>1, <1>2, NumbersFollow
<1>4. \E x \in K : N - N <= x
  <2>1. PICK x : x \in K
    OBVIOUS
  <2>2. N - N <= x
    BY <2>1
  <2> QED
    BY <2>1, <2>2
<1>5. \E x \in K : \A y \in K : x >= y
  BY <1>3, <1>4 DEF T
<1>6. Talk!Max(K) \in K /\ \A y \in K : Talk!Max(K) >= y
  BY <1>5 DEF Talk!Max
<1> QED
  BY <1>6

\* What is missing at the end is the model's.
OnlyTheModelsIsMissing(S, fs, ps) ==
  \E rest \in Seq(S) : ps = fs \o rest /\ \A i \in 1..Len(rest) : rest[i].role = "model"

\* What stripTrailingModelTurn leaves are the first turns, and what it takes are parts of the
\* model; when more than one turn is left the last is the user's.
LEMMA StrippedIsRight ==
  ASSUME NEW S, \A p \in S : p.role \in {"model", "user"},
         NEW ts, NEW ps \in Seq(S), TurnsAreRight(S, ts, ps)
  PROVE  LET us == Talk!Stripped(ts)
             fs == Talk!FlattenSeq(us)
         IN  /\ TurnsAreRight(S, us, fs) /\ fs \in Seq(S)
             /\ Len(us) > 1 => us[Len(us)][1].role = "user"
             /\ OnlyTheModelsIsMissing(S, fs, ps)
<1> DEFINE us == Talk!Stripped(ts)
           fs == Talk!FlattenSeq(us)
           n == Len(ts)
           keep == {i \in 1..n : ts[i][Len(ts[i])].role # "model"} \cup {1}
           k == Talk!Max(keep)
           left == SubSeq(ts, k + 1, n)
           rest == Talk!FlattenSeq(left)
<1>1. ts \in Seq(Seq(S)) /\ n \in Nat /\ Talk!FlattenSeq(ts) = ps /\ DOMAIN ts = 1..n
  BY LenProperties DEF TurnsAreRight
<1>2. CASE ts = <<>>
  <2>1. us = <<>> /\ Len(<<>>) = 0 /\ <<>> \in Seq(S)
    BY <1>2, EmptySeq DEF Talk!Stripped
  <2>2. fs = <<>> /\ ps = <<>>
    BY <1>1, <1>2, <2>1, FlatGrows
  <2>3. TurnsAreRight(S, us, fs)
    BY <1>2, <2>1, <2>2
  <2>4. ps = fs \o <<>>
    BY <2>2, ConcatEmptySeq
  <2> HIDE DEF us, fs
  <2>5. /\ fs \in Seq(S) /\ ~(Len(us) > 1) /\ \A i \in 1..Len(<<>>) : <<>>[i].role = "model"
    BY <2>1, <2>2
  <2>6. OnlyTheModelsIsMissing(S, fs, ps)
    BY <2>1, <2>4, <2>5 DEF OnlyTheModelsIsMissing
  <2> QED
    BY <2>3, <2>5, <2>6 DEF us, fs
<1>3. CASE ts # <<>>
  <2>1. n > 0
    BY <1>1, <1>3, EmptySeq
  <2>2. us = SubSeq(ts, 1, k)
    <3>1. keep = {i \in DOMAIN ts : Talk!Last(ts[i]).role # "model"} \cup {1}
      BY <1>1 DEF Talk!Last
    <3> HIDE DEF keep
    <3> QED
      BY <1>3, <3>1 DEF Talk!Stripped
  <2>3. keep \subseteq 1..n /\ keep # {}
    BY <2>1
  <2> HIDE DEF keep
  <2>4. k \in keep /\ \A i \in keep : i <= k
    BY <1>1, <2>3, SomeHaveAGreatest
  <2>5. k \in 1..n
    BY <2>3, <2>4
  <2> HIDE DEF k
  <2>6. \A t \in 1..n : ts[t] \in Seq(S)
    BY <1>1, ElementOfSeq
  <2>7. /\ us \in Seq(Seq(S)) /\ Len(us) = k
        /\ \A t \in 1..k : us[t] = ts[t]
    <3>1. \A i \in 1..k : ts[i] \in Seq(S)
      BY <1>1, <2>5, <2>6
    <3>2. 1 \in Int /\ k \in Int /\ 1 <= k /\ k - 1 + 1 = k
      BY <1>1, <2>5
    <3>3. /\ SubSeq(ts, 1, k) \in Seq(Seq(S))
          /\ Len(SubSeq(ts, 1, k)) = IF 1 <= k THEN k - 1 + 1 ELSE 0
          /\ \A i \in 1..k - 1 + 1 : SubSeq(ts, 1, k)[i] = ts[1 + i - 1]
      BY <3>1, <3>2, SubSeqProperties
    <3>4. \A i \in 1..k : 1 + i - 1 = i
      BY <3>2
    <3> HIDE DEF us
    <3> QED
      BY <2>2, <3>2, <3>3, <3>4
  <2>8. /\ left \in Seq(Seq(S)) /\ Len(left) = n - k
        /\ \A t \in 1..n - k : left[t] = ts[k + t]
    <3>1. \A i \in k + 1..n : ts[i] \in Seq(S)
      BY <1>1, <2>5, <2>6
    <3> HIDE DEF n
    <3>2. /\ n \in Int /\ k + 1 \in Int /\ n - (k + 1) + 1 = n - k
          /\ ~(k + 1 <= n) => n - k = 0
      BY <1>1, <2>5
    <3>3. /\ SubSeq(ts, k + 1, n) \in Seq(Seq(S))
          /\ Len(SubSeq(ts, k + 1, n)) = IF k + 1 <= n THEN n - (k + 1) + 1 ELSE 0
          /\ \A i \in 1..n - (k + 1) + 1 : SubSeq(ts, k + 1, n)[i] = ts[k + 1 + i - 1]
      BY <3>1, <3>2, SubSeqProperties
    <3>4. \A i \in 1..n - k : k + 1 + i - 1 = k + i
      BY <1>1, <2>5
    <3> QED
      BY <3>2, <3>3, <3>4
  <2>9. ts = us \o left
    <3>1. 1 \in 1..n + 1 /\ k \in 0..n /\ n \in k..n /\ 1 - 1 = 0
      BY <1>1, <2>5
    <3>2. 1 \in 1..Len(ts) + 1 /\ k \in 1 - 1..Len(ts) /\ Len(ts) \in k..Len(ts)
      BY <3>1
    <3>3. SubSeq(ts, 1, k) \o SubSeq(ts, k + 1, Len(ts)) = SubSeq(ts, 1, Len(ts))
      BY <1>1, <3>2, ConcatAdjacentSubSeq
    <3> QED
      BY <1>1, <2>2, <3>3, SubSeqFull
  <2> HIDE DEF us, left
  <2>10. /\ fs \in Seq(S) /\ PlacesAreRight(S, left, rest) /\ rest \in Seq(S) /\ ps = fs \o rest
    <3>1. PlacesAreRight(S, us, fs) /\ PlacesAreRight(S, left, rest)
      BY <2>7, <2>8, FlatPlaces
    <3>2. Talk!FlattenSeq(us \o left) = fs \o rest
      BY <2>7, <2>8, FlatOfTwo
    <3> HIDE DEF fs, rest
    <3> QED
      BY <1>1, <2>9, <3>1, <3>2 DEF PlacesAreRight
  <2>11. \A t \in 1..n : \A i, j \in 1..Len(ts[t]) : Alike(ts[t][i], ts[t][j])
    BY DEF TurnsAreRight
  <2>12. \A t \in 1..n : Len(ts[t]) > 0 /\ 1 \in 1..Len(ts[t]) /\ Len(ts[t]) \in 1..Len(ts[t])
    <3>1. \A t \in 1..n : Len(ts[t]) > 0
      BY DEF TurnsAreRight
    <3> QED
      BY <2>6, <3>1, LenProperties
  <2>13. TurnsAreRight(S, us, fs)
    <3>1. \A t \in 1..k : t \in 1..n
      BY <1>1, <2>5
    <3>2. \A t \in 1..k - 1 : t \in 1..n - 1 /\ t \in 1..k /\ t + 1 \in 1..k
      BY <1>1, <2>5
    <3>3. \A t \in 1..n - 1 : ~Alike(ts[t][1], ts[t + 1][1])
      BY DEF TurnsAreRight
    <3>4. \A t \in 1..k : Len(us[t]) > 0 /\ \A i, j \in 1..Len(us[t]) : Alike(us[t][i], us[t][j])
      BY <2>7, <2>11, <2>12, <3>1
    <3>5. \A t \in 1..k - 1 : ~Alike(us[t][1], us[t + 1][1])
      BY <2>7, <3>2, <3>3
    <3> QED
      BY <2>7, <3>4, <3>5 DEF TurnsAreRight
  <2>14. ASSUME Len(us) > 1 PROVE us[Len(us)][1].role = "user"
    <3>1. k # 1
      BY <2>7, <2>14
    <3>2. ts[k][Len(ts[k])].role # "model"
      BY <2>4, <3>1 DEF keep
    <3>3. Alike(ts[k][Len(ts[k])], ts[k][1])
      BY <2>5, <2>11, <2>12
    <3>4. ts[k][1] \in S
      BY <2>5, <2>6, <2>12, ElementOfSeq
    <3>5. ts[k][1].role = "user"
      BY <3>2, <3>3, <3>4 DEF Alike
    <3> QED
      BY <2>5, <2>7, <3>5
  <2>15. ASSUME NEW i \in 1..Len(rest) PROVE rest[i].role = "model"
    <3>1. PICK t \in 1..Len(left) : Holds(left, t, rest[i])
      BY <2>10 DEF PlacesAreRight
    <3>2. k + t \in 1..n /\ t \in 1..n - k /\ ~(k + t <= k)
      BY <1>1, <2>5, <2>8
    <3>3. PICK j \in 1..Len(ts[k + t]) : ts[k + t][j] = rest[i]
      BY <2>8, <3>1, <3>2 DEF Holds
    <3>4. k + t \notin keep
      BY <2>4, <3>2
    <3>5. ts[k + t][Len(ts[k + t])].role = "model"
      BY <3>2, <3>4 DEF keep
    <3>6. Alike(ts[k + t][j], ts[k + t][Len(ts[k + t])])
      BY <2>11, <2>12, <3>2
    <3> QED
      BY <3>3, <3>5, <3>6 DEF Alike
  <2> HIDE DEF fs, rest
  <2>16. OnlyTheModelsIsMissing(S, fs, ps)
    BY <2>10, <2>15 DEF OnlyTheModelsIsMissing
  <2> QED
    BY <2>10, <2>13, <2>14, <2>16 DEF us, fs
<1> QED
  BY <1>2, <1>3

-----------------------------------------------------------------------------
(* What the blocks of the history go back to.                               *)

\* A call is one that was made: under the id it was given then and the name it has since.
IsOfMade(b, names) ==
  b.kind = "call" =>
    b.call \in 1..Len(names) /\ b.id = <<b.call - 1, "given">> /\ b.name = names[b.call]

\* The blocks of an answer are no results.
AnswerIsMade(p, names) ==
  /\ IsOfMade(p.open, names) /\ p.open.kind # "result"
  /\ \A i \in 1..Len(p.blocks) : IsOfMade(p.blocks[i], names) /\ p.blocks[i].kind # "result"

\* A result is of a call that was made, and has its id from a message before it or has none.
CallIn(m, b) ==
  \E l \in 1..Len(m.blocks) :
    m.blocks[l].kind = "call" /\ m.blocks[l].id = b.id /\ m.blocks[l].call = b.call
IsAnswered(h, n, b, names) ==
  b.kind = "result" =>
    b.call \in 1..Len(names) /\ (b.id = Talk!NoId \/ \E m \in 1..n - 1 : CallIn(h[m], b))
HistoryIsMade(h, names) ==
  \A n \in 1..Len(h) : \A k \in 1..Len(h[n].blocks) :
    IsOfMade(h[n].blocks[k], names) /\ IsAnswered(h, n, h[n].blocks[k], names)

\* A signature is kept under the id of the call it came with.
SignaturesAreOwn(kept) == \A id \in Talk!Ids : kept[id] = 0 \/ id = <<kept[id] - 1, "given">>

TalkMade == HistoryIsMade(history, made) /\ AnswerIsMade(parser, made) /\ SignaturesAreOwn(signatures)

\* One call more changes nothing for those that were made before.
LEMMA MadeStays ==
  ASSUME NEW names \in Seq(Names), NEW name \in Names
  PROVE  LET more == Append(names, name)
         IN  /\ \A b : IsOfMade(b, names) => IsOfMade(b, more)
             /\ \A p : AnswerIsMade(p, names) => AnswerIsMade(p, more)
             /\ \A h : HistoryIsMade(h, names) => HistoryIsMade(h, more)
<1> DEFINE more == Append(names, name)
<1>1. /\ Len(names) \in Nat /\ Len(more) = Len(names) + 1
      /\ \A i \in 1..Len(names) : more[i] = names[i]
  BY AppendProperties, LenProperties
<1> HIDE DEF more
<1>2. \A i \in 1..Len(names) : i \in 1..Len(more)
  BY <1>1
<1>3. \A b : IsOfMade(b, names) => IsOfMade(b, more)
  BY <1>1, <1>2 DEF IsOfMade
<1>4. \A p : AnswerIsMade(p, names) => AnswerIsMade(p, more)
  BY <1>3 DEF AnswerIsMade
<1>5. \A h, n, b : IsAnswered(h, n, b, names) => IsAnswered(h, n, b, more)
  BY <1>2, Zenon DEF IsAnswered
<1>6. \A h : HistoryIsMade(h, names) => HistoryIsMade(h, more)
  BY <1>3, <1>5, Zenon DEF HistoryIsMade
<1> QED
  BY <1>3, <1>4, <1>6 DEF more

\* A message more changes nothing for those before it.
LEMMA MessagesStay ==
  ASSUME NEW h \in Seq(Messages), NEW tail \in Seq(Messages), NEW names, HistoryIsMade(h, names),
         \A n \in 1..Len(tail) : \A k \in 1..Len(tail[n].blocks) :
           LET b == tail[n].blocks[k]
           IN  /\ IsOfMade(b, names)
               /\ b.kind = "result" =>
                    /\ b.call \in 1..Len(names)
                    /\ b.id = Talk!NoId \/ \E m \in 1..Len(h) : CallIn(h[m], b)
  PROVE  HistoryIsMade(h \o tail, names)
<1> DEFINE g == h \o tail
<1>1. /\ Len(h) \in Nat /\ Len(tail) \in Nat /\ Len(g) = Len(h) + Len(tail)
      /\ \A i \in 1..Len(h) + Len(tail) : g[i] = IF i <= Len(h) THEN h[i] ELSE tail[i - Len(h)]
  BY ConcatProperties, LenProperties
<1> HIDE DEF g
<1>2. \A m \in 1..Len(h) : g[m] = h[m]
  <2>1. \A m \in 1..Len(h) : m \in 1..Len(h) + Len(tail) /\ m <= Len(h)
    BY <1>1
  <2> QED
    BY <1>1, <2>1
<1>3. ASSUME NEW n \in 1..Len(g), NEW k \in 1..Len(g[n].blocks)
      PROVE  IsOfMade(g[n].blocks[k], names) /\ IsAnswered(g, n, g[n].blocks[k], names)
  <2>1. CASE n \in 1..Len(h)
    <3>1. g[n] = h[n] /\ \A m \in 1..n - 1 : g[m] = h[m]
      <4>1. \A m \in 1..n - 1 : m \in 1..Len(h)
        BY <1>1, <2>1
      <4> QED
        BY <1>2, <2>1, <4>1
    <3>2. IsOfMade(h[n].blocks[k], names) /\ IsAnswered(h, n, h[n].blocks[k], names)
      BY <1>3, <2>1, <3>1 DEF HistoryIsMade
    <3>3. IsAnswered(g, n, h[n].blocks[k], names)
      BY <3>1, <3>2, Zenon DEF IsAnswered
    <3> QED
      BY <3>1, <3>2, <3>3
  <2>2. CASE n \notin 1..Len(h)
    <3>1. n - Len(h) \in 1..Len(tail) /\ g[n] = tail[n - Len(h)] /\ 1..Len(h) \subseteq 1..n - 1
      BY <1>1, <2>2
    <3> DEFINE b == g[n].blocks[k]
    <3>2. /\ IsOfMade(b, names)
          /\ b.kind = "result" =>
               /\ b.call \in 1..Len(names)
               /\ b.id = Talk!NoId \/ \E m \in 1..Len(h) : CallIn(h[m], b)
      BY <1>3, <3>1
    <3>3. \A m \in 1..Len(h) : m \in 1..n - 1 /\ g[m] = h[m]
      BY <1>2, <3>1
    <3> HIDE DEF b
    <3>4. IsAnswered(g, n, b, names)
      BY <3>2, <3>3, Zenon DEF IsAnswered
    <3> QED
      BY <3>2, <3>4 DEF b
  <2> QED
    BY <2>1, <2>2
<1> QED
  BY <1>3 DEF HistoryIsMade, g

\* Closing a block keeps it.
LEMMA ClosingKeepsBlocks ==
  ASSUME TalkBounds, NEW p, AnswerInv(p), NEW names, AnswerIsMade(p, names)
  PROVE  LET q == Talk!Closed(p)
         IN  q \in Parser /\ q.open = Talk!NoBlock /\ AnswerIsMade(q, names)
<1> DEFINE q == Talk!Closed(p)
<1>1. p \in Parser /\ p.blocks \in Seq(Talk!Block) /\ p.open \in Talk!Block
  BY DEF AnswerInv, Parser
<1>2. CASE p.open = Talk!NoBlock
  BY <1>1, <1>2 DEF Talk!Closed
<1>3. CASE p.open # Talk!NoBlock
  <2>1. q \in Parser /\ q.open = Talk!NoBlock
    BY <1>3, ClosingFits, BlocksAreBlocks DEF AnswerInv
  <2>2. q.blocks = Append(p.blocks, p.open)
    <3> DEFINE e == Talk!Emit(p, "end", p.open.kind)
    <3>1. e \in Parser /\ e.blocks = p.blocks
      BY <1>1, <1>3, EmitAppends DEF AnswerInv, ChunkTypes
    <3>2. q = [e EXCEPT !.blocks = Append(@, p.open), !.open = Talk!NoBlock, !.index = @ + 1]
      BY <1>3 DEF Talk!Closed
    <3> HIDE DEF e, q
    <3> QED
      BY <3>1, <3>2 DEF Parser
  <2>3. /\ Len(q.blocks) = Len(p.blocks) + 1 /\ q.blocks[Len(p.blocks) + 1] = p.open
        /\ \A i \in 1..Len(p.blocks) : q.blocks[i] = p.blocks[i]
    BY <1>1, <2>2, AppendProperties
  <2>4. \A i \in 1..Len(p.blocks) + 1 : i \in 1..Len(p.blocks) \/ i = Len(p.blocks) + 1
    BY <1>1, LenProperties
  <2> HIDE DEF q
  <2>5. \A i \in 1..Len(q.blocks) : IsOfMade(q.blocks[i], names) /\ q.blocks[i].kind # "result"
    BY <2>3, <2>4 DEF AnswerIsMade
  <2>6. IsOfMade(Talk!NoBlock, names) /\ Talk!NoBlock.kind # "result"
    BY NoBlockIsNone DEF IsOfMade
  <2>7. AnswerIsMade(q, names)
    BY <2>1, <2>5, <2>6 DEF AnswerIsMade
  <2> QED
    BY <2>1, <2>7 DEF q
<1> QED
  BY <1>2, <1>3

\* Opening a block that was made, and what is emitted of it, changes no other.
LEMMA NextBlockIsMade ==
  ASSUME TalkBounds, NEW p, AnswerInv(p), NEW names, AnswerIsMade(p, names),
         NEW b \in Talk!Block, b.kind \in BlockKinds, IsOfMade(b, names)
  PROVE  LET q == Talk!Opened(Talk!Closed(p), b) IN q \in Parser /\ AnswerIsMade(q, names)
<1> DEFINE c == Talk!Closed(p)
           e == Talk!Emit(c, "start", b.kind)
           q == Talk!Opened(c, b)
<1>1. c \in Parser /\ AnswerIsMade(c, names)
  BY ClosingKeepsBlocks
<1> HIDE DEF c
<1>2. e \in Parser /\ e.blocks = c.blocks
  BY <1>1, EmitAppends DEF ChunkTypes
<1>3. q = [e EXCEPT !.open = b]
  BY DEF Talk!Opened
<1> HIDE DEF e, q
<1>4. q \in Parser /\ q.open = b /\ q.blocks = c.blocks
  BY <1>2, <1>3 DEF Parser
<1>5. b.kind # "result"
  BY DEF BlockKinds
<1>6. AnswerIsMade(q, names)
  BY <1>1, <1>4, <1>5 DEF AnswerIsMade
<1> QED
  BY <1>4, <1>6 DEF q, c

\* What is emitted changes no block.
LEMMA EmittingKeepsBlocks ==
  ASSUME NEW p \in Parser, NEW type \in ChunkTypes, NEW kind \in BlockKinds \cup {"none"},
         NEW names, AnswerIsMade(p, names)
  PROVE  LET q == Talk!Emit(p, type, kind) IN q \in Parser /\ AnswerIsMade(q, names)
BY EmitAppends DEF AnswerIsMade

\* A line of the answer makes a call under an id of its own, or none.
LEMMA LineIsMade ==
  ASSUME TalkBounds, TalkInv, TalkMade, Talk!Data
  PROVE  TalkMade'
<1>1. PICK kind \in {"text", "empty", "thought", "call", "none"}, name \in Names,
           signed \in BOOLEAN, finish \in BOOLEAN, usage \in BOOLEAN :
        (kind # "none" => parts < MaxParts) /\ Talk!Line(kind, name, signed, finish, usage)
  BY DEF Talk!Data
<1> DEFINE call == [kind |-> "call", id |-> Talk!IdOf(parser), name |-> name,
                    call |-> Len(made) + 1]
           with == CASE kind = "call" -> Talk!WithCall(parser, call)
                     [] kind \in {"text", "thought"} -> Talk!WithText(parser, kind)
                     [] kind \in {"empty", "none"} -> parser
           names == IF kind = "call" THEN Append(made, name) ELSE made
<1>2. /\ streaming /\ history' = history
      /\ parser' = [with EXCEPT !.finished = @ \/ finish, !.usage = @ \/ usage]
      /\ made' = names
      /\ signatures' = IF kind = "call" /\ signed THEN [signatures EXCEPT ![call.id] = call.call]
                       ELSE signatures
  BY <1>1 DEF Talk!Line
<1>3. /\ MaxParts \in Nat /\ parts \in 0..MaxParts /\ made \in Seq(Names) /\ Len(made) \in Nat
      /\ Len(made) <= parts /\ signatures \in [Talk!Ids -> 0..MaxParts] /\ AnswerGoesOn(parser)
      /\ AnswerInv(parser)
  BY <1>2, LenProperties DEF TalkBounds, TalkInv, TalkTypes, AnswerGoesOn
<1>4. /\ HistoryIsMade(history, made) /\ AnswerIsMade(parser, made) /\ SignaturesAreOwn(signatures)
  BY DEF TalkMade
<1>5. HistoryIsMade(history, names) /\ AnswerIsMade(parser, names)
  BY <1>3, <1>4, MadeStays
<1>6. /\ call.kind = "call" /\ call.id = <<Len(made), "given">> /\ call.call = Len(made) + 1
      /\ call.name = name
  BY DEF Talk!IdOf
<1>7. ASSUME kind = "call" PROVE call \in Talk!Block /\ IsOfMade(call, names)
  <2>1. Len(made) \in 0..MaxParts /\ Len(made) + 1 \in 0..MaxParts
    BY <1>1, <1>3, <1>7
  <2>2. call \in Talk!Block
    BY <1>6, <2>1 DEF Talk!Ids, Talk!Block
  <2>3. Len(names) = Len(made) + 1 /\ names[Len(made) + 1] = name
    BY <1>3, <1>7, AppendProperties
  <2> HIDE DEF call, names
  <2>4. call.call \in 1..Len(names) /\ call.call - 1 = Len(made)
    BY <1>3, <1>6, <2>3
  <2>5. IsOfMade(call, names)
    BY <1>6, <2>3, <2>4 DEF IsOfMade
  <2> QED
    BY <2>2, <2>5
<1> HIDE DEF call, names
<1>8. with \in Parser /\ AnswerIsMade(with, names)
  <2>1. CASE kind = "call"
    <3> DEFINE q == Talk!Opened(Talk!Closed(parser), call)
    <3>1. q \in Parser /\ AnswerIsMade(q, names)
      BY <1>3, <1>5, <1>6, <1>7, <2>1, NextBlockIsMade DEF BlockKinds
    <3>2. with = Talk!Emit(q, "delta", "call")
      BY <2>1 DEF Talk!WithCall
    <3> HIDE DEF q, with
    <3> QED
      BY <3>1, <3>2, EmittingKeepsBlocks DEF ChunkTypes, BlockKinds
  <2>2. CASE kind \in {"text", "thought"}
    <3> DEFINE q == Talk!Ensured(parser, Talk!Plain(kind))
    <3>1. Talk!Plain(kind) \in Talk!Block /\ Talk!Plain(kind).kind = kind
      BY <2>2, BlocksAreBlocks
    <3>2. IsOfMade(Talk!Plain(kind), names) /\ Talk!Plain(kind).kind \in BlockKinds
      BY <2>2, <3>1 DEF IsOfMade, BlockKinds
    <3>3. q = IF parser.open.kind = Talk!Plain(kind).kind THEN parser
              ELSE Talk!Opened(Talk!Closed(parser), Talk!Plain(kind))
      BY DEF Talk!Ensured
    <3> HIDE DEF q
    <3>4. q \in Parser /\ AnswerIsMade(q, names)
      BY <1>3, <1>5, <3>1, <3>2, <3>3, NextBlockIsMade DEF AnswerInv
    <3>5. with = Talk!Emit(q, "delta", kind)
      BY <2>2 DEF Talk!WithText, q
    <3> HIDE DEF with
    <3> QED
      BY <2>2, <3>4, <3>5, EmittingKeepsBlocks DEF ChunkTypes, BlockKinds
  <2>3. CASE kind \in {"empty", "none"}
    BY <1>3, <1>5, <2>3 DEF AnswerInv
  <2> QED
    BY <2>1, <2>2, <2>3
<1> HIDE DEF with
<1>9. AnswerIsMade(parser', names)
  <2>1. parser'.open = with.open /\ parser'.blocks = with.blocks
    BY <1>2, <1>8 DEF Parser
  <2> QED
    BY <1>8, <2>1 DEF AnswerIsMade
<1>10. SignaturesAreOwn(signatures')
  <2>1. CASE kind = "call" /\ signed
    <3>1. call.call - 1 = Len(made)
      BY <1>3, <1>6
    <3>2. signatures' = [signatures EXCEPT ![call.id] = call.call]
      BY <1>2, <2>1
    <3>3. ASSUME NEW id \in Talk!Ids
          PROVE  signatures'[id] = 0 \/ id = <<signatures'[id] - 1, "given">>
      <4>1. CASE id = call.id
        <5>1. signatures'[id] = call.call
          BY <1>3, <3>2, <4>1
        <5> QED
          BY <1>6, <3>1, <4>1, <5>1
      <4>2. CASE id # call.id
        <5>1. signatures'[id] = signatures[id]
          BY <1>3, <3>2, <4>2
        <5> QED
          BY <1>4, <5>1 DEF SignaturesAreOwn
      <4> QED
        BY <4>1, <4>2
    <3> QED
      BY <3>3 DEF SignaturesAreOwn
  <2>2. CASE ~(kind = "call" /\ signed)
    BY <1>2, <1>4, <2>2
  <2> QED
    BY <2>1, <2>2
<1>11. HistoryIsMade(history', made') /\ AnswerIsMade(parser', made')
  BY <1>2, <1>5, <1>9
<1> QED
  BY <1>10, <1>11 DEF TalkMade

\* A parser that starts has made nothing.
LEMMA FreshIsMade == \A names : AnswerIsMade(Talk!Fresh, names)
<1>1. Talk!Fresh.open = Talk!NoBlock /\ Talk!Fresh.blocks = <<>>
  BY DEF Talk!Fresh
<1>2. Len(<<>>) = 0
  OBVIOUS
<1> QED
  BY <1>1, <1>2, NoBlockIsNone DEF AnswerIsMade, IsOfMade

\* A conversation starts with nothing made.
LEMMA TalkStartsMade ==
  ASSUME TalkBounds, Talk!Init
  PROVE  TalkMade
<1>1. history = <<>> /\ parser = Talk!Fresh /\ signatures = [id \in Talk!Ids |-> 0] /\ Len(<<>>) = 0
  BY DEF Talk!Init
<1>2. HistoryIsMade(history, made)
  BY <1>1 DEF HistoryIsMade
<1>3. SignaturesAreOwn(signatures)
  BY <1>1 DEF SignaturesAreOwn
<1>4. AnswerIsMade(parser, made)
  BY <1>1, FreshIsMade
<1> QED
  BY <1>2, <1>3, <1>4 DEF TalkMade

\* A complete answer becomes a message of what was made.
LEMMA CompletedIsMade ==
  ASSUME TalkBounds, TalkInv, TalkMade, Talk!Complete
  PROVE  TalkMade'
<1> DEFINE ended == Talk!Ended
           m == [role |-> "assistant", blocks |-> ended.blocks]
           closed == Talk!Closed(parser)
           told == IF closed.usage THEN Talk!Emit(closed, "usage", "none") ELSE closed
<1>1. /\ streaming /\ parser' = ended /\ made' = made /\ signatures' = signatures
      /\ history' = IF ended.blocks = <<>> THEN history ELSE Append(history, m)
  BY DEF Talk!Complete
<1>2. /\ HistoryIsMade(history, made) /\ AnswerIsMade(parser, made) /\ SignaturesAreOwn(signatures)
      /\ history \in Seq(Messages) /\ AnswerInv(parser)
  BY <1>1 DEF TalkMade, TalkInv, TalkTypes, AnswerGoesOn
<1>3. ended = Talk!Emit(told, "finish", "none")
  BY DEF Talk!Ended
<1>4. closed \in Parser /\ AnswerIsMade(closed, made)
  BY <1>2, ClosingKeepsBlocks
<1> HIDE DEF closed
<1>5. told \in Parser /\ AnswerIsMade(told, made)
  BY <1>4, EmittingKeepsBlocks DEF ChunkTypes
<1> HIDE DEF told, ended
<1>6. ended \in Parser /\ AnswerIsMade(ended, made)
  BY <1>3, <1>5, EmittingKeepsBlocks DEF ChunkTypes
<1>7. m \in Messages
  BY <1>6 DEF Messages, Parser
<1>8. HistoryIsMade(Append(history, m), made)
  <2> DEFINE tail == <<m>>
  <2>1. tail \in Seq(Messages) /\ Len(tail) = 1 /\ tail[1] = m /\ Append(history, m) = history \o tail
    BY <1>2, <1>7, AppendIsConcat
  <2>2. \A k \in 1..Len(m.blocks) : IsOfMade(m.blocks[k], made) /\ m.blocks[k].kind # "result"
    BY <1>6 DEF AnswerIsMade
  <2> HIDE DEF tail, m
  <2>3. \A n \in 1..Len(tail) : n = 1
    BY <2>1
  <2> QED
    BY <1>2, <2>1, <2>2, <2>3, MessagesStay
<1>9. HistoryIsMade(history', made') /\ AnswerIsMade(parser', made')
  BY <1>1, <1>2, <1>6, <1>8
<1> QED
  BY <1>1, <1>2, <1>9 DEF TalkMade

\* The tools answer the calls of the last message.
LEMMA AnswersAreMade ==
  ASSUME TalkBounds, TalkInv, TalkMade, NEW shape, Talk!Answers(shape)
  PROVE  HistoryIsMade(history', made)
<1> DEFINE msg == Talk!Last(history)
           calls == {b \in Talk!ToSet(msg.blocks) : b.kind = "call"}
           Result(c) == [c EXCEPT !.kind = "result", !.name = NoName]
           Lost(c) == [Result(c) EXCEPT !.id = Talk!NoId]
           Told(c) == IF shape = "uncorrelated" THEN Lost(c) ELSE Result(c)
<1>1. PICK ended \in Talk!SetToSeqs(calls) :
        LET results == [i \in DOMAIN ended |-> Told(ended[i])]
        IN  history' = IF shape = "blocks"
                         THEN Append(history, [role |-> "user", blocks |-> results])
                         ELSE history \o [i \in DOMAIN results |->
                                            [role |-> "tool", blocks |-> <<results[i]>>]]
  BY DEF Talk!Answers
<1> DEFINE results == [i \in DOMAIN ended |-> Told(ended[i])]
           one == [role |-> "user", blocks |-> results]
           each == [i \in DOMAIN results |-> [role |-> "tool", blocks |-> <<results[i]>>]]
           N == Talk!Cardinality(calls)
<1>2. history \in Seq(Messages) /\ history # <<>> /\ HistoryIsMade(history, made)
  BY DEF TalkInv, TalkTypes, TalkMade, Talk!Answers
<1>3. Len(history) \in 1..Len(history) /\ msg = history[Len(history)] /\ msg \in Messages
  <2>1. Len(history) \in 1..Len(history) /\ msg = history[Len(history)]
    BY <1>2, EmptySeq, LenProperties DEF Talk!Last
  <2> QED
    BY <1>2, <2>1, ElementOfSeq
<1> HIDE DEF msg
<1>4. msg.blocks \in Seq(Talk!Block)
  BY <1>3 DEF Messages
<1>5. \A c \in calls : \E k \in 1..Len(msg.blocks) : c = msg.blocks[k] /\ c.kind = "call"
  <2>1. DOMAIN msg.blocks = 1..Len(msg.blocks)
    BY <1>4, LenProperties
  <2> QED
    BY <2>1 DEF Talk!ToSet
<1>6. \A c \in calls : c \in Talk!Block /\ c.call \in 1..Len(made) /\ CallIn(msg, c)
  <2> TAKE c \in calls
  <2>1. PICK k \in 1..Len(msg.blocks) : c = msg.blocks[k] /\ c.kind = "call"
    BY <1>5
  <2>2. c \in Talk!Block
    BY <1>4, <2>1, ElementOfSeq
  <2>3. IsOfMade(c, made)
    BY <1>2, <1>3, <2>1 DEF HistoryIsMade
  <2> QED
    BY <2>1, <2>2, <2>3 DEF IsOfMade, CallIn
<1>7. \A c \in calls :
        LET b == Told(c)
        IN  /\ b \in Talk!Block /\ b.kind = "result" /\ b.call \in 1..Len(made)
            /\ b.id = Talk!NoId \/ CallIn(msg, b)
  <2> TAKE c \in calls
  <2>1. c \in Talk!Block /\ c.call \in 1..Len(made) /\ CallIn(msg, c)
    BY <1>6
  <2> DEFINE b == Told(c)
  <2>2. /\ b \in Talk!Block /\ b.kind = "result" /\ b.call = c.call
        /\ b.id = Talk!NoId \/ b.id = c.id
    BY <2>1 DEF Talk!Block, Talk!NoId
  <2> HIDE DEF b
  <2>3. b.id = Talk!NoId \/ CallIn(msg, b)
    BY <2>1, <2>2 DEF CallIn
  <2> QED
    BY <2>1, <2>2, <2>3 DEF b
<1> HIDE DEF calls, Told
<1>8. N \in Nat /\ ended \in [1..N -> calls]
  <2>1. ended \in [1..N -> calls]
    BY DEF Talk!SetToSeqs
  <2>2. IsFiniteSet(calls)
    <3>1. Len(msg.blocks) \in Nat /\ DOMAIN msg.blocks = 1..Len(msg.blocks)
      BY <1>4, LenProperties
    <3> DEFINE f == [i \in 1..Len(msg.blocks) |-> msg.blocks[i]]
    <3>2. Talk!ToSet(msg.blocks) = {msg.blocks[i] : i \in 1..Len(msg.blocks)}
      BY <3>1 DEF Talk!ToSet
    <3>3. f \in Surjection(1..Len(msg.blocks), Talk!ToSet(msg.blocks))
      BY <3>2 DEF Surjection
    <3>4. IsFiniteSet(1..Len(msg.blocks))
      <4>1. \A n \in Nat : IsFiniteSet(1..n)
        BY FS_Interval
      <4> QED
        BY <3>1, <4>1
    <3> HIDE DEF f
    <3>5. IsFiniteSet(Talk!ToSet(msg.blocks))
      BY <3>3, <3>4, FS_Surjection
    <3>6. calls \subseteq Talk!ToSet(msg.blocks)
      BY DEF calls
    <3> QED
      BY <3>5, <3>6, FS_Subset
  <2>3. Talk!Cardinality(calls) = Cardinality(calls)
    BY DEF Talk!Cardinality, Cardinality
  <2> QED
    BY <2>1, <2>2, <2>3, FS_CardinalityType
<1> HIDE DEF N
<1>9. /\ DOMAIN results = 1..N /\ results \in Seq(Talk!Block) /\ Len(results) = N
      /\ \A i \in 1..N :
           LET b == results[i]
           IN  /\ b \in Talk!Block /\ b.kind = "result" /\ b.call \in 1..Len(made)
               /\ b.id = Talk!NoId \/ CallIn(msg, b)
  <2>1. \A i \in 1..N : ended[i] \in calls
    BY <1>8
  <2>2. DOMAIN results = 1..N /\ \A i \in 1..N : results[i] = Told(ended[i])
    BY <1>8
  <2>3. \A i \in 1..N : results[i] \in Talk!Block
    BY <1>7, <2>1, <2>2
  <2>4. results \in [1..N -> Talk!Block]
    BY <1>7, <1>8, <2>1
  <2> HIDE DEF results
  <2>5. results \in Seq(Talk!Block)
    BY <1>8, <2>4, SeqDef
  <2>6. Len(results) = N
    BY <1>8, <2>2, <2>5, LenProperties
  <2> QED
    BY <1>7, <2>1, <2>2, <2>5, <2>6
<1> HIDE DEF results
<1>10. history' = IF shape = "blocks" THEN Append(history, one) ELSE history \o each
  BY <1>1 DEF results
<1>11. \A i \in 1..N :
         LET b == results[i]
         IN  /\ IsOfMade(b, made)
             /\ b.kind = "result" =>
                  /\ b.call \in 1..Len(made)
                  /\ b.id = Talk!NoId \/ \E m \in 1..Len(history) : CallIn(history[m], b)
  BY <1>3, <1>9 DEF IsOfMade
<1>12. HistoryIsMade(Append(history, one), made)
  <2> DEFINE tail == <<one>>
  <2>1. one \in Messages /\ one.blocks = results
    BY <1>9 DEF Messages
  <2> HIDE DEF one
  <2>2. tail \in Seq(Messages) /\ Len(tail) = 1 /\ tail[1] = one /\ Append(history, one) = history \o tail
    BY <1>2, <2>1, AppendIsConcat
  <2> HIDE DEF tail
  <2>3. \A n \in 1..Len(tail) : n = 1
    BY <2>2
  <2>4. \A n \in 1..Len(tail) : tail[n].blocks = results
    BY <2>1, <2>2, <2>3
  <2> QED
    BY <1>2, <1>9, <1>11, <2>2, <2>4, MessagesStay
<1>13. HistoryIsMade(history \o each, made)
  <2>1. \A i \in 1..N : <<results[i]>> \in Seq(Talk!Block)
    BY <1>9
  <2>2. each \in [1..N -> Messages] /\ \A i \in 1..N : each[i].blocks = <<results[i]>>
    BY <1>9, <2>1 DEF Messages
  <2> HIDE DEF each
  <2>3. each \in Seq(Messages)
    BY <1>8, <2>2, SeqDef
  <2>4. Len(each) = N
    BY <1>8, <2>2, <2>3, LenProperties
  <2>5. \A i \in 1..N : \A k \in 1..Len(each[i].blocks) : each[i].blocks[k] = results[i]
    <3>1. \A i \in 1..N : Len(each[i].blocks) = 1 /\ each[i].blocks[1] = results[i]
      <4>1. \A x : Len(<<x>>) = 1 /\ <<x>>[1] = x
        OBVIOUS
      <4> QED
        BY <2>2, <4>1, Zenon
    <3>2. \A k \in 1..1 : k = 1
      OBVIOUS
    <3> QED
      BY <3>1, <3>2
  <2> QED
    BY <1>2, <1>11, <2>3, <2>4, <2>5, MessagesStay
<1> QED
  BY <1>10, <1>12, <1>13

\* Every step keeps what the blocks go back to.
LEMMA TalkStaysMade ==
  ASSUME TalkBounds, TalkInv, TalkMade, [Talk!Next]_(Talk!vars)
  PROVE  TalkMade'
<1>0. /\ HistoryIsMade(history, made) /\ AnswerIsMade(parser, made) /\ SignaturesAreOwn(signatures)
      /\ history \in Seq(Messages) /\ parser \in Parser
      /\ signatures \in [Talk!Ids -> 0..MaxParts]
  BY DEF TalkMade, TalkInv, TalkTypes
<1>1. CASE UNCHANGED Talk!vars
  <2>1. history' = history /\ parser' = parser /\ signatures' = signatures /\ made' = made
    BY <1>1 DEF Talk!vars
  <2> QED
    BY <1>0, <2>1 DEF TalkMade
<1>2. CASE Talk!Data
  BY <1>2, LineIsMade
<1>3. CASE Talk!DoneLine
  <2>1. /\ history' = history /\ signatures' = signatures /\ made' = made
        /\ parser' = [parser EXCEPT !.done = TRUE]
    BY <1>3 DEF Talk!DoneLine
  <2>2. parser'.open = parser.open /\ parser'.blocks = parser.blocks
    BY <1>0, <2>1 DEF Parser
  <2>3. AnswerIsMade(parser', made)
    BY <1>0, <2>2 DEF AnswerIsMade
  <2> QED
    BY <1>0, <2>1, <2>3 DEF TalkMade
<1>4. CASE Talk!Break \/ Talk!CutShort \/ Talk!Ask
  <2>1. /\ history' = history /\ parser' = Talk!Fresh /\ signatures' = signatures /\ made' = made
    BY <1>4, Zenon DEF Talk!Break, Talk!CutShort, Talk!Ask
  <2> QED
    BY <1>0, <2>1, FreshIsMade DEF TalkMade
<1>5. CASE Talk!Complete
  BY <1>5, CompletedIsMade
<1>6. CASE \E kind \in {"text", "empty"} : Talk!Says(kind)
  <2>1. PICK kind \in {"text", "empty"} : Talk!Says(kind)
    BY <1>6
  <2> DEFINE m == [role |-> "user", blocks |-> <<Talk!Plain(kind)>>]
             tail == <<m>>
  <2>2. Talk!Plain(kind) \in Talk!Block /\ Talk!Plain(kind).kind = kind
    BY BlocksAreBlocks
  <2>3. m \in Messages /\ \A k \in 1..Len(m.blocks) : m.blocks[k].kind = kind
    BY <2>2 DEF Messages
  <2>4. history' = Append(history, m) /\ parser' = parser /\ signatures' = signatures /\ made' = made
    BY <2>1 DEF Talk!Says
  <2> HIDE DEF m
  <2>5. tail \in Seq(Messages) /\ Len(tail) = 1 /\ tail[1] = m /\ Append(history, m) = history \o tail
    BY <1>0, <2>3, AppendIsConcat
  <2> HIDE DEF tail
  <2>6. \A n \in 1..Len(tail) : n = 1
    BY <2>5
  <2>7. HistoryIsMade(history \o tail, made)
    BY <1>0, <2>3, <2>5, <2>6, MessagesStay DEF IsOfMade
  <2> QED
    BY <1>0, <2>4, <2>5, <2>7 DEF TalkMade
<1>7. CASE \E shape \in {"blocks", "messages", "uncorrelated"} : Talk!Answers(shape)
  <2>1. PICK shape \in {"blocks", "messages", "uncorrelated"} : Talk!Answers(shape)
    BY <1>7
  <2>2. HistoryIsMade(history', made)
    BY <2>1, AnswersAreMade
  <2>3. parser' = parser /\ signatures' = signatures /\ made' = made
    BY <2>1 DEF Talk!Answers
  <2> QED
    BY <1>0, <2>2, <2>3 DEF TalkMade
<1>8. CASE \E id \in Talk!Ids : Talk!Forget(id)
  <2>1. PICK id \in Talk!Ids : Talk!Forget(id)
    BY <1>8
  <2>2. /\ history' = history /\ parser' = parser /\ made' = made
        /\ signatures' = [signatures EXCEPT ![id] = 0]
    BY <2>1 DEF Talk!Forget
  <2>3. \A i \in Talk!Ids : signatures'[i] = 0 \/ signatures'[i] = signatures[i]
    BY <1>0, <2>2
  <2>4. SignaturesAreOwn(signatures')
    BY <1>0, <2>3 DEF SignaturesAreOwn
  <2> QED
    BY <1>0, <2>2, <2>4 DEF TalkMade
<1> QED
  BY <1>1, <1>2, <1>3, <1>4, <1>5, <1>6, <1>7, <1>8 DEF Talk!Next

\* In every state the blocks go back to calls that were made.
LEMMA TalkIsMade ==
  ASSUME TalkBounds
  PROVE  Talk!Spec => [](TalkInv /\ TalkMade)
<1>1. Talk!Init => TalkInv /\ TalkMade
  BY TalkStarts, TalkStartsMade
<1>2. TalkInv /\ TalkMade /\ [Talk!Next]_(Talk!vars) => (TalkInv /\ TalkMade)'
  BY TalkStepKeeps, TalkStaysMade
<1> QED
  BY <1>1, <1>2, PTL DEF Talk!Spec

-----------------------------------------------------------------------------
(* The request.                                                             *)

SentParts == {Talk!Sent(b, r) : b \in Talk!Block, r \in {"user", "assistant", "tool"}}

\* An id that a call of the history has names the function of that call, because no other call
\* has it.
LEMMA IdsNameTheirCall ==
  ASSUME TalkInv, TalkMade, NEW n \in 1..Len(history), NEW b, CallIn(history[n], b)
  PROVE  Talk!NameOf(b.id) = made[b.call]
<1>1. history \in Seq(Messages) /\ HistoryIsMade(history, made) /\ made \in Seq(Names)
  BY DEF TalkInv, TalkTypes, TalkMade
<1>2. \A m \in 1..Len(history) : history[m] \in Messages /\ history[m].blocks \in Seq(Talk!Block)
  <2>1. \A m \in 1..Len(history) : history[m] \in Messages
    BY <1>1, ElementOfSeq
  <2>2. \A m \in Messages : m.blocks \in Seq(Talk!Block)
    BY DEF Messages
  <2> QED
    BY <2>1, <2>2, Zenon
<1>3. \A m \in 1..Len(history) :
        Talk!ToSet(history[m].blocks)
          = {history[m].blocks[k] : k \in 1..Len(history[m].blocks)}
  <2>1. \A m \in 1..Len(history) : DOMAIN history[m].blocks = 1..Len(history[m].blocks)
    BY <1>2, LenProperties
  <2> QED
    BY <2>1 DEF Talk!ToSet
<1>4. Talk!ToSet(history) = {history[m] : m \in 1..Len(history)}
  BY <1>1, LenProperties DEF Talk!ToSet
<1>5. Talk!Calls(b.id) = {c \in UNION {Talk!ToSet(m.blocks) : m \in Talk!ToSet(history)} :
                            c.kind = "call" /\ c.id = b.id}
  BY DEF Talk!Calls
<1>6. \A c \in Talk!Calls(b.id) :
        /\ \E m \in 1..Len(history) : \E k \in 1..Len(history[m].blocks) : c = history[m].blocks[k]
        /\ c.kind = "call" /\ c.id = b.id
  <2> TAKE c \in Talk!Calls(b.id)
  <2>1. c \in UNION {Talk!ToSet(m.blocks) : m \in Talk!ToSet(history)}
    BY <1>5
  <2>2. PICK h \in Talk!ToSet(history) : c \in Talk!ToSet(h.blocks)
    BY <2>1
  <2>3. PICK m \in 1..Len(history) : h = history[m]
    BY <1>4, <2>2
  <2>4. \E k \in 1..Len(history[m].blocks) : c = history[m].blocks[k]
    BY <1>3, <2>2, <2>3
  <2> QED
    BY <1>5, <2>4
<1>7. PICK l \in 1..Len(history[n].blocks) :
        LET c == history[n].blocks[l] IN c.kind = "call" /\ c.id = b.id /\ c.call = b.call
  BY DEF CallIn
<1> DEFINE own == history[n].blocks[l]
<1>8. own \in Talk!Calls(b.id)
  <2>1. own \in Talk!ToSet(history[n].blocks)
    BY <1>3
  <2>2. history[n] \in Talk!ToSet(history)
    BY <1>4
  <2> HIDE DEF own
  <2>3. own \in UNION {Talk!ToSet(m.blocks) : m \in Talk!ToSet(history)}
    BY <2>1, <2>2
  <2>4. own.kind = "call" /\ own.id = b.id
    BY <1>7 DEF own
  <2> QED
    BY <1>5, <2>3, <2>4
<1>9. \A c \in Talk!Calls(b.id) :
        c.call \in 1..Len(made) /\ c.id = <<c.call - 1, "given">> /\ c.name = made[c.call]
  BY <1>1, <1>6 DEF HistoryIsMade, IsOfMade
<1>10. own.call = b.call /\ own.id = b.id
  BY <1>7
<1> HIDE DEF own
<1>11. \A c \in Talk!Calls(b.id) : c.call = b.call
  <2>1. own.call \in 1..Len(made) /\ own.id = <<own.call - 1, "given">>
    BY <1>8, <1>9
  <2>2. \A c \in Talk!Calls(b.id) : c.call \in 1..Len(made) /\ c.call - 1 = own.call - 1
    BY <1>6, <1>9, <1>10, <2>1
  <2>3. \A c \in Talk!Calls(b.id) : c.call = own.call
    BY <2>1, <2>2
  <2> QED
    BY <1>10, <2>3
<1> DEFINE last == CHOOSE c \in Talk!Calls(b.id) : \A d \in Talk!Calls(b.id) : d.call <= c.call
<1>12. last \in Talk!Calls(b.id)
  <2>1. b.call \in 1..Len(made)
    BY <1>8, <1>9, <1>10
  <2>2. \E c \in Talk!Calls(b.id) : \A d \in Talk!Calls(b.id) : d.call <= c.call
    BY <1>8, <1>11, <2>1
  <2> QED
    BY <2>2
<1>13. Talk!NameOf(b.id) = last.name
  BY <1>8 DEF Talk!NameOf
<1> HIDE DEF last
<1> QED
  BY <1>9, <1>11, <1>12, <1>13

\* The parts of a message are what is sent of its blocks.
LEMMA PartsOfAMessage ==
  ASSUME NEW m \in Messages, NEW claude \in BOOLEAN
  PROVE  LET ps == Talk!MessageParts(m, claude)
         IN  /\ ps \in Seq(SentParts)
             /\ \A i \in 1..Len(ps) : \E k \in 1..Len(m.blocks) :
                  Talk!IsSent(m.blocks[k], claude) /\ ps[i] = Talk!Sent(m.blocks[k], m.role)
             /\ \A k \in 1..Len(m.blocks) : Talk!IsSent(m.blocks[k], claude) =>
                  Stands(ps, Len(ps), Talk!Sent(m.blocks[k], m.role))
<1> DEFINE bs == [i \in DOMAIN m.blocks |-> Talk!BlockParts(m.blocks[i], m.role, claude)]
           ps == Talk!MessageParts(m, claude)
           N == Len(m.blocks)
<1>1. /\ m.blocks \in Seq(Talk!Block) /\ m.role \in {"user", "assistant", "tool"}
      /\ N \in Nat /\ DOMAIN m.blocks = 1..N
  BY LenProperties DEF Messages
<1>2. \A k \in 1..N : Talk!Sent(m.blocks[k], m.role) \in SentParts
  BY <1>1, ElementOfSeq DEF SentParts
<1>3. ps = Talk!FlattenSeq(bs)
  BY DEF Talk!MessageParts
<1>4. \A k \in 1..N : bs[k] = IF Talk!IsSent(m.blocks[k], claude)
                                THEN <<Talk!Sent(m.blocks[k], m.role)>> ELSE <<>>
  BY <1>1 DEF Talk!BlockParts
<1>5. bs \in Seq(Seq(SentParts)) /\ Len(bs) = N
  <2>1. \A k \in 1..N : bs[k] \in Seq(SentParts)
    <3>1. \A p \in SentParts : <<p>> \in Seq(SentParts)
      OBVIOUS
    <3>2. <<>> \in Seq(SentParts)
      BY EmptySeq
    <3> HIDE DEF bs, N
    <3> QED
      BY <1>2, <1>4, <3>1, <3>2
  <2>2. bs \in [1..N -> Seq(SentParts)]
    <3>1. bs = [i \in 1..N |-> bs[i]]
      BY <1>1
    <3> HIDE DEF bs, N
    <3> QED
      BY <2>1, <3>1
  <2> HIDE DEF bs, N
  <2>3. bs \in Seq(Seq(SentParts))
    BY <1>1, <2>2, SeqDef
  <2> QED
    BY <1>1, <2>2, <2>3, LenProperties
<1> HIDE DEF bs, ps, N
<1>6. PlacesAreRight(SentParts, bs, ps)
  BY <1>3, <1>5, FlatPlaces
<1>7. ASSUME NEW i \in 1..Len(ps)
      PROVE  \E k \in 1..N :
               Talk!IsSent(m.blocks[k], claude) /\ ps[i] = Talk!Sent(m.blocks[k], m.role)
  <2>1. PICK k \in 1..N : Holds(bs, k, ps[i])
    BY <1>5, <1>6 DEF PlacesAreRight
  <2>2. PICK j \in 1..Len(bs[k]) : bs[k][j] = ps[i]
    BY <2>1 DEF Holds
  <2>3. CASE Talk!IsSent(m.blocks[k], claude)
    <3>1. bs[k] = <<Talk!Sent(m.blocks[k], m.role)>>
      BY <1>4, <2>3
    <3>2. j = 1
      BY <3>1
    <3> QED
      BY <2>2, <2>3, <3>1, <3>2
  <2>4. CASE ~Talk!IsSent(m.blocks[k], claude)
    <3>1. bs[k] = <<>> /\ Len(<<>>) = 0
      BY <1>4, <2>4
    <3> QED
      BY <3>1
  <2> QED
    BY <2>3, <2>4
<1>8. ASSUME NEW k \in 1..N, Talk!IsSent(m.blocks[k], claude)
      PROVE  Stands(ps, Len(ps), Talk!Sent(m.blocks[k], m.role))
  <2> DEFINE p == Talk!Sent(m.blocks[k], m.role)
  <2>1. p \in SentParts /\ bs[k] = <<p>>
    BY <1>2, <1>4, <1>8
  <2> HIDE DEF p
  <2>2. Holds(bs, k, p)
    BY <2>1 DEF Holds
  <2>3. Stands(ps, Len(ps), p)
    BY <1>5, <1>6, <2>1, <2>2 DEF PlacesAreRight
  <2> QED
    BY <2>3 DEF p
<1> QED
  BY <1>6, <1>7, <1>8 DEF PlacesAreRight, ps, N

\* What is sent of a block.
LEMMA SentSays ==
  /\ \A b, r : LET p == Talk!Sent(b, r)
               IN  /\ p.role = (IF r = "assistant" THEN "model" ELSE "user") /\ p.kind = b.kind
                   /\ p.call = b.call /\ p.id = b.id
                   /\ p.name = (IF b.kind = "result" THEN Talk!NameOf(b.id) ELSE b.name)
                   /\ p.signature = (IF b.kind = "call" THEN signatures[b.id] ELSE 0)
  /\ \A p \in SentParts : p.role \in {"model", "user"}
BY DEF Talk!Sent, SentParts

\* A call stands before its results, which have its name, and has its own signature or none.
PartIsSound(ps, i) ==
  /\ Talk!IsResult(ps[i]) =>
       /\ \E j \in 1..i - 1 : ps[j].kind = "call" /\ ps[j].id = ps[i].id
       /\ ps[i].name = made[ps[i].call]
  /\ ps[i].signature \in {0, ps[i].call}

\* Every part of the history is sound, in its place.
LEMMA AllPartsAreSound ==
  ASSUME TalkBounds, TalkInv, TalkMade, NEW claude \in BOOLEAN
  PROVE  LET all == Talk!AllParts(claude)
         IN  all \in Seq(SentParts) /\ \A i \in 1..Len(all) : PartIsSound(all, i)
<1> DEFINE ms == [i \in DOMAIN history |-> Talk!MessageParts(history[i], claude)]
           all == Talk!AllParts(claude)
           N == Len(history)
<1>1. /\ history \in Seq(Messages) /\ N \in Nat /\ DOMAIN history = 1..N /\ made \in Seq(Names)
      /\ HistoryIsMade(history, made) /\ SignaturesAreOwn(signatures) /\ Len(made) \in Nat
      /\ Len(made) <= MaxParts /\ MaxParts \in Nat /\ signatures \in [Talk!Ids -> 0..MaxParts]
  BY LenProperties DEF TalkBounds, TalkInv, TalkTypes, TalkMade
<1>2. \A n \in 1..N : history[n] \in Messages
  BY <1>1, ElementOfSeq
<1>3. all = Talk!FlattenSeq(ms)
  BY DEF Talk!AllParts
<1>4. \A n \in 1..N : ms[n] = Talk!MessageParts(history[n], claude) /\ ms[n] \in Seq(SentParts)
  BY <1>1, <1>2, PartsOfAMessage
<1>5. ms \in Seq(Seq(SentParts)) /\ Len(ms) = N
  <2>1. ms = [i \in 1..N |-> ms[i]]
    BY <1>1
  <2> HIDE DEF ms
  <2>2. ms \in [1..N -> Seq(SentParts)]
    BY <1>4, <2>1
  <2> HIDE DEF N
  <2>3. ms \in Seq(Seq(SentParts))
    BY <1>1, <2>2, SeqDef
  <2> QED
    BY <1>1, <2>2, <2>3, LenProperties
<1> HIDE DEF ms, all
<1>6. PlacesAreRight(SentParts, ms, all)
  BY <1>3, <1>5, FlatPlaces
<1>7. ASSUME NEW i \in 1..Len(all) PROVE PartIsSound(all, i)
  <2>1. PICK n \in 1..N :
          /\ Holds(ms, n, all[i])
          /\ \A m \in 1..n - 1 : \A p \in SentParts : Holds(ms, m, p) => Stands(all, i - 1, p)
    BY <1>5, <1>6 DEF PlacesAreRight
  <2>2. PICK j \in 1..Len(ms[n]) : ms[n][j] = all[i]
    BY <2>1 DEF Holds
  <2> DEFINE blocks == history[n].blocks
  <2>3. PICK k \in 1..Len(blocks) :
          Talk!IsSent(blocks[k], claude) /\ all[i] = Talk!Sent(blocks[k], history[n].role)
    <3>1. \E k \in 1..Len(history[n].blocks) :
            /\ Talk!IsSent(history[n].blocks[k], claude)
            /\ Talk!MessageParts(history[n], claude)[j]
                 = Talk!Sent(history[n].blocks[k], history[n].role)
      <4>1. history[n] \in Messages /\ ms[n] = Talk!MessageParts(history[n], claude)
        BY <1>2, <1>4
      <4>2. j \in 1..Len(Talk!MessageParts(history[n], claude))
        BY <4>1
      <4> QED
        BY <4>1, <4>2, PartsOfAMessage, Zenon
    <3> QED
      BY <1>4, <2>2, <3>1
  <2> DEFINE b == blocks[k]
             p == all[i]
  <2>4. IsOfMade(b, made) /\ IsAnswered(history, n, b, made)
    BY <1>1 DEF HistoryIsMade
  <2>5. /\ p.kind = b.kind /\ p.call = b.call /\ p.id = b.id
        /\ p.name = (IF b.kind = "result" THEN Talk!NameOf(b.id) ELSE b.name)
        /\ p.signature = (IF b.kind = "call" THEN signatures[b.id] ELSE 0)
    BY <2>3, SentSays
  <2>6. b.kind = "result" => b.id # Talk!NoId
    BY <2>3 DEF Talk!IsSent
  <2> HIDE DEF b, p, blocks
  <2>7. ASSUME b.kind = "result"
        PROVE  /\ \E l \in 1..i - 1 : all[l].kind = "call" /\ all[l].id = p.id
               /\ p.name = made[p.call]
    <3>1. PICK m \in 1..n - 1 : CallIn(history[m], b)
      BY <2>4, <2>6, <2>7 DEF IsAnswered
    <3>2. m \in 1..N
      BY <1>1
    <3>3. Talk!NameOf(b.id) = made[b.call]
      BY <3>1, <3>2, IdsNameTheirCall
    <3>4. PICK l \in 1..Len(history[m].blocks) :
            LET c == history[m].blocks[l] IN c.kind = "call" /\ c.id = b.id /\ c.call = b.call
      BY <3>1 DEF CallIn
    <3> DEFINE c == history[m].blocks[l]
               q == Talk!Sent(c, history[m].role)
    <3>5. Talk!IsSent(c, claude)
      BY <3>4 DEF Talk!IsSent
    <3>6. q.kind = "call" /\ q.id = b.id
      BY <3>4, SentSays
    <3>7. Stands(ms[m], Len(ms[m]), q)
      BY <1>2, <1>4, <3>2, <3>5, PartsOfAMessage
    <3> HIDE DEF q
    <3>8. PICK t \in 1..Len(ms[m]) : ms[m][t] = q
      BY <3>7 DEF Stands
    <3>9. q \in SentParts
      <4>1. ms[m] \in Seq(SentParts)
        BY <1>4, <3>2
      <4> QED
        BY <3>8, <4>1, ElementOfSeq
    <3>10. Holds(ms, m, q)
      BY <3>8 DEF Holds
    <3>11. Stands(all, i - 1, q)
      BY <2>1, <3>9, <3>10
    <3>12. \E s \in 1..i - 1 : all[s].kind = "call" /\ all[s].id = p.id
      BY <2>5, <3>6, <3>11 DEF Stands
    <3> QED
      BY <2>5, <2>7, <3>3, <3>12
  <2>8. p.signature \in {0, p.call}
    <3>1. CASE b.kind = "call"
      <4>1. b.call \in 1..Len(made) /\ b.id = <<b.call - 1, "given">>
        BY <2>4, <3>1 DEF IsOfMade
      <4>2. b.call - 1 \in 0..MaxParts
        BY <1>1, <4>1
      <4>3. b.id \in Talk!Ids
        BY <4>1, <4>2 DEF Talk!Ids
      <4>4. signatures[b.id] = 0 \/ b.id = <<signatures[b.id] - 1, "given">>
        BY <1>1, <4>3 DEF SignaturesAreOwn
      <4>5. signatures[b.id] \in 0..MaxParts
        BY <1>1, <4>3
      <4>6. signatures[b.id] = 0 \/ signatures[b.id] - 1 = b.call - 1
        BY <4>1, <4>4
      <4>7. signatures[b.id] = 0 \/ signatures[b.id] = b.call
        BY <1>1, <4>1, <4>5, <4>6
      <4> QED
        BY <2>5, <3>1, <4>7
    <3>2. CASE b.kind # "call"
      BY <2>5, <3>2
    <3> QED
      BY <3>1, <3>2
  <2> QED
    BY <2>5, <2>7, <2>8 DEF PartIsSound, Talk!IsResult, p
<1> QED
  BY <1>6, <1>7 DEF PlacesAreRight, all

\* The request of a state is sound, for a Claude model as for another.
LEMMA RequestIsSound ==
  ASSUME TalkBounds, TalkInv, TalkMade, NEW claude \in BOOLEAN
  PROVE  LET all == Talk!AllParts(claude)
             turns == Talk!Contents(claude)
             sent == Talk!FlattenSeq(turns)
         IN  /\ Talk!IsPrefix(sent, all)
             /\ \A i \in Len(sent) + 1..Len(all) : claude /\ all[i].role = "model"
             /\ \A t \in DOMAIN turns : \A p, q \in Talk!ToSet(turns[t]) :
                  p.role = q.role /\ Talk!IsResult(p) = Talk!IsResult(q)
             /\ \A t \in 1..Len(turns) - 1 :
                  \/ turns[t][1].role # turns[t + 1][1].role
                  \/ Talk!IsResult(turns[t][1]) # Talk!IsResult(turns[t + 1][1])
             /\ claude /\ Len(turns) > 1 => Talk!Last(turns)[1].role = "user"
             /\ \A i \in DOMAIN sent : Talk!IsResult(sent[i]) =>
                  \E j \in 1..i - 1 : sent[j].kind = "call" /\ sent[j].id = sent[i].id
             /\ \A p \in Talk!ToSet(sent) :
                  Talk!NamesTheFunction(p) /\ p.signature \in {0, p.call}
<1> DEFINE all == Talk!AllParts(claude)
           turns == Talk!Contents(claude)
           sent == Talk!FlattenSeq(turns)
           S == SentParts
<1>1. all \in Seq(S) /\ \A i \in 1..Len(all) : PartIsSound(all, i)
  BY AllPartsAreSound
<1>2. TurnsAreRight(S, Talk!Coalesced(all), all)
  BY <1>1, CoalescedIsRight
<1>3. turns = IF claude THEN Talk!Stripped(Talk!Coalesced(all)) ELSE Talk!Coalesced(all)
  BY DEF Talk!Contents
<1>4. /\ TurnsAreRight(S, turns, sent) /\ sent \in Seq(S)
      /\ claude /\ Len(turns) > 1 => turns[Len(turns)][1].role = "user"
      /\ \E rest \in Seq(S) :
           all = sent \o rest /\ \A i \in 1..Len(rest) : claude /\ rest[i].role = "model"
  <2>1. CASE claude
    <3> DEFINE ts == Talk!Coalesced(all)
    <3>1. \A p \in S : p.role \in {"model", "user"}
      BY SentSays
    <3>2. turns = Talk!Stripped(ts) /\ TurnsAreRight(S, ts, all)
      BY <1>2, <1>3, <2>1
    <3> HIDE DEF ts, all, S, turns
    <3>3. all \in Seq(S)
      BY <1>1
    <3>4. TurnsAreRight(S, turns, sent) /\ sent \in Seq(S)
      BY <3>1, <3>2, <3>3, StrippedIsRight
    <3>5. Len(turns) > 1 => turns[Len(turns)][1].role = "user"
      BY <3>1, <3>2, <3>3, StrippedIsRight
    <3>6. OnlyTheModelsIsMissing(S, sent, all)
      BY <3>1, <3>2, <3>3, StrippedIsRight
    <3> QED
      BY <2>1, <3>4, <3>5, <3>6 DEF OnlyTheModelsIsMissing
  <2>2. CASE ~claude
    <3>1. TurnsAreRight(S, turns, all)
      BY <1>2, <1>3, <2>2
    <3>2. sent = all
      BY <3>1 DEF TurnsAreRight
    <3>3. all = sent \o <<>> /\ <<>> \in Seq(S) /\ Len(<<>>) = 0
      BY <1>1, <3>2, ConcatEmptySeq
    <3> HIDE DEF all, sent, turns, S
    <3>4. \A i \in 1..Len(<<>>) : claude /\ <<>>[i].role = "model"
      BY <3>3
    <3> QED
      BY <1>1, <2>2, <3>1, <3>2, <3>3, <3>4
  <2> QED
    BY <2>1, <2>2
<1> HIDE DEF all, turns, sent, S
<1>5. PICK rest \in Seq(S) :
        all = sent \o rest /\ \A i \in 1..Len(rest) : claude /\ rest[i].role = "model"
  BY <1>4
<1>6. /\ Len(sent) \in Nat /\ Len(rest) \in Nat /\ Len(all) = Len(sent) + Len(rest)
      /\ \A i \in 1..Len(sent) + Len(rest) :
           all[i] = IF i <= Len(sent) THEN sent[i] ELSE rest[i - Len(sent)]
  BY <1>4, <1>5, LenProperties, ConcatProperties
<1>7. \A i \in 1..Len(sent) : i \in 1..Len(all) /\ all[i] = sent[i]
  BY <1>6
<1>8. Talk!IsPrefix(sent, all)
  <2>1. Len(sent) <= Len(all)
    BY <1>6
  <2>2. SubSeq(all, 1, Len(sent)) = SubSeq(sent, 1, Len(sent))
    <3>1. SubSeq(sent, 1, Len(sent)) = sent
      BY <1>4, SubSeqFull
    <3> DEFINE n == Len(sent)
    <3>2. \A i \in 1..n : all[i] \in S
      BY <1>1, <1>7, ElementOfSeq
    <3>3. 1 \in Int /\ n \in Int /\ n - 1 + 1 = n /\ (IF 1 <= n THEN n - 1 + 1 ELSE 0) = n
      BY <1>6
    <3> HIDE DEF n
    <3>4. /\ SubSeq(all, 1, n) \in Seq(S)
          /\ Len(SubSeq(all, 1, n)) = IF 1 <= n THEN n - 1 + 1 ELSE 0
          /\ \A i \in 1..n - 1 + 1 : SubSeq(all, 1, n)[i] = all[1 + i - 1]
      BY <3>2, <3>3, SubSeqProperties
    <3> DEFINE s == SubSeq(all, 1, n)
    <3>5. s \in Seq(S) /\ Len(s) = n /\ \A i \in 1..n : s[i] = all[i]
      <4>1. \A i \in 1..n : 1 + i - 1 = i
        BY <3>3
      <4> QED
        BY <3>3, <3>4, <4>1
    <3> HIDE DEF s
    <3>6. s = sent
      <4>1. Len(s) = Len(sent) /\ \A i \in 1..Len(s) : s[i] = sent[i]
        BY <1>7, <3>5 DEF n
      <4> QED
        BY <1>4, <3>5, <4>1, SeqEqual
    <3> QED
      BY <3>1, <3>6 DEF s, n
  <2> QED
    BY <2>1, <2>2 DEF Talk!IsPrefix
<1>9. \A i \in Len(sent) + 1..Len(all) : claude /\ all[i].role = "model"
  <2> TAKE i \in Len(sent) + 1..Len(all)
  <2>1. i - Len(sent) \in 1..Len(rest) /\ i \in 1..Len(sent) + Len(rest) /\ ~(i <= Len(sent))
    BY <1>6
  <2> QED
    BY <1>5, <1>6, <2>1
<1>10. /\ turns \in Seq(Seq(S)) /\ Len(turns) \in Nat /\ DOMAIN turns = 1..Len(turns)
       /\ \A t \in 1..Len(turns) : turns[t] \in Seq(S)
  BY <1>4, LenProperties, ElementOfSeq DEF TurnsAreRight
<1>11. \A t \in DOMAIN turns : \A p, q \in Talk!ToSet(turns[t]) :
         p.role = q.role /\ Talk!IsResult(p) = Talk!IsResult(q)
  <2> TAKE t \in DOMAIN turns
  <2> TAKE p, q \in Talk!ToSet(turns[t])
  <2>1. DOMAIN turns[t] = 1..Len(turns[t])
    BY <1>10, LenProperties
  <2>2. PICK i \in 1..Len(turns[t]) : p = turns[t][i]
    BY <2>1 DEF Talk!ToSet
  <2>3. PICK j \in 1..Len(turns[t]) : q = turns[t][j]
    BY <2>1 DEF Talk!ToSet
  <2>4. Alike(p, q)
    BY <1>4, <1>10, <2>2, <2>3 DEF TurnsAreRight
  <2> QED
    BY <2>4 DEF Alike, Talk!IsResult
<1>12. \A t \in 1..Len(turns) - 1 :
         \/ turns[t][1].role # turns[t + 1][1].role
         \/ Talk!IsResult(turns[t][1]) # Talk!IsResult(turns[t + 1][1])
  <2> TAKE t \in 1..Len(turns) - 1
  <2>1. ~Alike(turns[t][1], turns[t + 1][1])
    BY <1>4 DEF TurnsAreRight
  <2> QED
    BY <2>1 DEF Alike, Talk!IsResult
<1>13. claude /\ Len(turns) > 1 => Talk!Last(turns)[1].role = "user"
  BY <1>4 DEF Talk!Last
<1>14. \A i \in 1..Len(sent) : PartIsSound(sent, i)
  <2> TAKE i \in 1..Len(sent)
  <2>1. PartIsSound(all, i) /\ all[i] = sent[i]
    BY <1>1, <1>7
  <2>2. \A j \in 1..i - 1 : all[j] = sent[j]
    <3>1. \A j \in 1..i - 1 : j \in 1..Len(sent)
      BY <1>6
    <3> QED
      BY <1>7, <3>1
  <2> QED
    BY <2>1, <2>2 DEF PartIsSound
<1>15. DOMAIN sent = 1..Len(sent)
  BY <1>4, LenProperties
<1>16. \A i \in DOMAIN sent : Talk!IsResult(sent[i]) =>
         \E j \in 1..i - 1 : sent[j].kind = "call" /\ sent[j].id = sent[i].id
  BY <1>14, <1>15, Zenon DEF PartIsSound
<1>17. \A p \in Talk!ToSet(sent) :
         Talk!NamesTheFunction(p) /\ p.signature \in {0, p.call}
  <2> TAKE p \in Talk!ToSet(sent)
  <2>1. PICK i \in 1..Len(sent) : p = sent[i]
    BY <1>15 DEF Talk!ToSet
  <2> QED
    BY <1>14, <2>1 DEF PartIsSound, Talk!NamesTheFunction
<1> QED
  BY <1>8, <1>9, <1>11, <1>12, <1>13, <1>16, <1>17 DEF all, turns, sent

\* What is sent is the history, nothing lost or moved but a Claude model's last turns; no turn
\* mixes results with other parts, neighbours that could be one turn are one, a Claude model's
\* request ends with the user, every result answers a call before it under that call's name,
\* and a call carries its own signature or the sentinel (toAgyRequestBody), however answers
\* came and broke off, in whatever order tools ended and whatever signatures were forgotten.
THEOREM RequestsSayTheHistory ==
  ASSUME TalkBounds
  PROVE  Talk!Spec => []Talk!RequestsAreSound
<1>1. TalkInv /\ TalkMade => Talk!RequestsAreSound
  BY RequestIsSound DEF Talk!RequestsAreSound
<1> QED
  BY <1>1, TalkIsMade, PTL

-----------------------------------------------------------------------------
(* A chat turn's parts together.                                            *)

TurnBounds == AdapterBounds /\ EditBounds /\ PanelBounds /\ TalkBounds
turnVars == <<vars, talkVars, budgetVars, panelVars, part>>

\* The adapter moves by its own steps or keeps still.
LEMMA TheAdapterMovesByItself == AllSpec => Spec
<1>1. AllInit => Init
  BY DEF AllInit
<1>2. [AllNext]_turnVars => [Next]_vars
  BY Zenon DEF AllNext, turnVars
<1> QED
  BY <1>1, <1>2, PTL DEF AllSpec, Spec, turnVars

\* So does the conversation.
LEMMA TheTalkMovesByItself == AllSpec => Talk!Spec
<1>1. AllInit => Talk!Init
  BY DEF AllInit
<1>2. [AllNext]_turnVars => [Talk!Next]_(Talk!vars)
  BY Zenon DEF AllNext, turnVars, talkVars, Talk!vars
<1> QED
  BY <1>1, <1>2, PTL DEF AllSpec, Talk!Spec, turnVars

\* So do the budgets.
LEMMA BudgetsMoveByThemselves == AllSpec => Budget!Spec
<1>1. AllInit => Budget!Init
  BY DEF AllInit
<1>2. [AllNext]_turnVars => [Budget!Next]_(Budget!vars)
  BY Zenon DEF AllNext, turnVars, budgetVars, Budget!vars
<1> QED
  BY <1>1, <1>2, PTL DEF AllSpec, Budget!Spec, turnVars

\* So does the accounts tab.
LEMMA ThePanelMovesByItself == AllSpec => Panel!Spec
<1>1. AllInit => Panel!Init
  BY DEF AllInit
<1>2. [AllNext]_turnVars => [Panel!Next]_(Panel!vars)
  <2>1. UNCHANGED panelVars => UNCHANGED Panel!vars
    BY DEF panelVars, Panel!vars, Panel!hostVars, Panel!rowVars, Panel!messageVars, Panel!ghostVars
  <2>2. AllNext \/ UNCHANGED turnVars => Panel!Next \/ UNCHANGED panelVars
    BY Zenon DEF AllNext, turnVars
  <2> QED
    BY <2>1, <2>2
<1> QED
  BY <1>1, <1>2, PTL DEF AllSpec, Panel!Spec, turnVars

\* Every variable of every part of a turn keeps its type.
THEOREM TurnTypesAreCorrect ==
  ASSUME TurnBounds
  PROVE  AllSpec => []AllTypesOK
<1>1. AllSpec => []TypeOK
  BY TheAdapterMovesByItself, AdapterTypeCorrect, PTL DEF TurnBounds
<1>2. AllSpec => []Talk!TypeOK
  BY TheTalkMovesByItself, TalkTypesCorrect, PTL DEF TurnBounds
<1>3. AllSpec => []Budget!TypeOK
  BY BudgetsMoveByThemselves, BudgetTypesCorrect, PTL DEF TurnBounds
<1>4. AllSpec => []Panel!TypeOK
  BY ThePanelMovesByItself, PanelTypesCorrect, PTL DEF TurnBounds
<1>5. TypeOK /\ Talk!TypeOK /\ Budget!TypeOK /\ Panel!TypeOK => AllTypesOK
  BY DEF AllTypesOK
<1> QED
  BY <1>1, <1>2, <1>3, <1>4, <1>5, PTL

\* Every turn gives its slot back once and is reported and booked at most once, however it
\* ends, whatever other turns do meanwhile.
THEOREM TurnsAreSettledOnce ==
  ASSUME TurnBounds
  PROVE  AllSpec => []TurnsSettleOnce
BY TheAdapterMovesByItself, SlotsComeBack, PTL DEF TurnBounds

\* A turn that hit the wall of its upstream session is sent again outside of it.
THEOREM ResendsAreEscapes ==
  ASSUME TurnBounds
  PROVE  AllSpec => ResendsEscapeTheWall
BY TheAdapterMovesByItself, ResendsReachAFreshSession, PTL DEF TurnBounds

\* The harness is given well-formed blocks, whatever the upstream's lines.
THEOREM BlocksAreWellFormed ==
  ASSUME TurnBounds
  PROVE  AllSpec => []ChunksAreWellFormed
BY TheTalkMovesByItself, AnswersAreWellFormed, PTL DEF TurnBounds, ChunksAreWellFormed

\* The next request says what the history says, whatever the upstream brought and the tools
\* answered before.
THEOREM NextRequestsAreSound ==
  ASSUME TurnBounds
  PROVE  AllSpec => []RequestsAreSound
BY TheTalkMovesByItself, RequestsSayTheHistory, PTL DEF TurnBounds, RequestsAreSound

\* However many cards, stores and processes save budgets, and whichever of their writes fail,
\* the file holds every budget as it was last saved, but for those that the saves of two
\* processes at once have put in doubt.
THEOREM OtherBudgetsSurvive ==
  ASSUME TurnBounds
  PROVE  AllSpec => []SavedBudgetsStand
BY BudgetsMoveByThemselves, SavedBudgetsAreKept, PTL DEF TurnBounds, SavedBudgetsStand

\* What the accounts tab shows is the host's accounts in the host's order whenever nothing is
\* under way, in whatever order its reloads were answered: a click on a position acts on the
\* account that is shown there.  Excepted are rows since when others edited the pool, a reply
\* was lost, an action's list failed or a list from before a change arrived.
THEOREM RowsAreWhatIsActedOn ==
  ASSUME TurnBounds
  PROVE  AllSpec => []RowsFollowTheActions
BY ThePanelMovesByItself, RowsAreTheHosts, PTL DEF TurnBounds, RowsFollowTheActions

\* A verdict of the accounts tab is on screen for its whole time.
THEOREM VerdictsAreSeen ==
  ASSUME TurnBounds
  PROVE  AllSpec => VerdictsLast
BY ThePanelMovesByItself, VerdictsStayTheirTime, PTL DEF TurnBounds, VerdictsLast
=============================================================================
