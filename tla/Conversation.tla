------------------------------ MODULE Conversation ------------------------------
(***************************************************************************)
(* One conversation on the wire: parseAgySse turns the lines of an answer   *)
(* into blocks, the harness keeps the blocks as history and answers the    *)
(* tool calls in it, and toAgyRequestBody turns the history into the        *)
(* contents of the next request, for a Claude model or another.  Between   *)
(* the two stands the cache of thought signatures, keyed by call id.       *)
(*                                                                         *)
(* Wire lines are inputs; of a text only its kind and whether it is empty  *)
(* matter.  A line of several parts is as many lines of one.  A call also  *)
(* has a number of its own, which the code does not see.                   *)
(***************************************************************************)
EXTENDS Naturals, Sequences, SequencesExt, FiniteSetsExt

CONSTANTS
  Names,         \* functions the model may call
  NoName,
  GivesIds,      \* whether the upstream gives its calls ids
  MaxParts,      \* bound: parts that answers bring, over the whole conversation
  MaxMessages    \* bound on the history

VARIABLES
  history,    \* the harness's messages
  streaming,
  parser,     \* the state of parseAgySse over one answer
  signatures, \* the signature cache: the call whose signature an id replays, or 0
  made,       \* the name of every call the upstream made
  parts       \* parts brought so far

vars == <<history, streaming, parser, signatures, made, parts>>

Ids == (0..MaxParts) \X {"given", "own"}
NoId == <<0, "none">>
NoBlock == [kind |-> "none", id |-> NoId, name |-> NoName, call |-> 0]
Block == [kind: {"text", "empty", "thought", "call", "result", "none"}, id: Ids \cup {NoId},
          name: Names \cup {NoName}, call: 0..MaxParts]
Plain(kind) == [NoBlock EXCEPT !.kind = kind]

Fresh == [open |-> NoBlock, index |-> 0, blocks |-> <<>>, chunks |-> <<>>,
          done |-> FALSE, finished |-> FALSE, usage |-> FALSE]

Init ==
  /\ history = <<>>
  /\ streaming = FALSE
  /\ parser = Fresh
  /\ signatures = [id \in Ids |-> 0]
  /\ made = <<>>
  /\ parts = 0

-----------------------------------------------------------------------------
(* The answer.                                                              *)

Chunk(p, type, kind) == [type |-> type, index |-> p.index, kind |-> kind]
Emit(p, type, kind) == [p EXCEPT !.chunks = Append(@, Chunk(p, type, kind))]

\* closeBlock
Closed(p) ==
  IF p.open = NoBlock THEN p
  ELSE [Emit(p, "end", p.open.kind) EXCEPT !.blocks = Append(@, p.open), !.open = NoBlock, !.index = @ + 1]

Opened(p, block) == [Emit(p, "start", block.kind) EXCEPT !.open = block]
\* ensureBlock
Ensured(p, block) == IF p.open.kind = block.kind THEN p ELSE Opened(Closed(p), block)

\* text and thoughts extend the open block of their kind; an empty text touches none
WithText(p, kind) == Emit(Ensured(p, Plain(kind)), "delta", kind)

\* every call is a block of its own
Concatenated(p, call) == Emit(Ensured(p, call), "delta", "call")
WithCall(p, call) == Emit(Opened(Closed(p), call), "delta", "call")

\* without an id of the upstream's: the index of the block that is open, before it is closed
IdOf(p) == IF GivesIds THEN <<Len(made), "given">> ELSE <<p.index, "own">>

\* one data line: a finish reason that is known, a part, usage, each of them or not
Line(kind, name, signed, finish, usage) ==
  /\ streaming
  /\ LET call == [kind |-> "call", id |-> IdOf(parser), name |-> name, call |-> Len(made) + 1]
         with == CASE kind = "call" -> WithCall(parser, call)
                   [] kind \in {"text", "thought"} -> WithText(parser, kind)
                   [] kind \in {"empty", "none"} -> parser
     IN  /\ parser' = [with EXCEPT !.finished = @ \/ finish, !.usage = @ \/ usage]
         /\ IF kind = "call"
              THEN /\ made' = Append(made, name)
                   /\ signatures' = IF signed THEN [signatures EXCEPT ![call.id] = call.call]
                                    ELSE signatures
              ELSE UNCHANGED <<made, signatures>>
  /\ parts' = IF kind = "none" THEN parts ELSE parts + 1
  /\ UNCHANGED <<history, streaming>>

Data ==
  \E kind \in {"text", "empty", "thought", "call", "none"}, name \in Names, signed, finish, usage \in BOOLEAN :
    /\ kind # "none" => parts < MaxParts
    /\ kind # "call" => ~signed /\ name = CHOOSE n \in Names : TRUE
    /\ Line(kind, name, signed, finish, usage)

\* reading goes on after [DONE]
DoneLine ==
  /\ streaming
  /\ parser' = [parser EXCEPT !.done = TRUE]
  /\ UNCHANGED <<history, streaming, signatures, made, parts>>

\* an error line, bare or in the stream, a finish reason that is not known, an abort:
\* the answer is dropped by the harness
Break ==
  /\ streaming
  /\ streaming' = FALSE
  /\ parser' = Fresh
  /\ UNCHANGED <<history, signatures, made, parts>>

\* the completeness guard
IsComplete == parser.done \/ parser.finished

\* the stream ends: the last block is closed, usage is told once, finish comes last
Ended ==
  LET closed == Closed(parser)
      told == IF closed.usage THEN Emit(closed, "usage", "none") ELSE closed
  IN  Emit(told, "finish", "none")

Complete ==
  /\ streaming /\ IsComplete
  /\ parser' = Ended
  /\ streaming' = FALSE
  /\ history' = IF Ended.blocks = <<>> THEN history
                ELSE Append(history, [role |-> "assistant", blocks |-> Ended.blocks])
  /\ UNCHANGED <<signatures, made, parts>>

CutShort == ~IsComplete /\ Break

-----------------------------------------------------------------------------
(* The harness, external, and the signature cache.                          *)

Quiet == ~streaming /\ Len(history) < MaxMessages

Says(kind) ==
  /\ Quiet
  /\ history' = Append(history, [role |-> "user", blocks |-> <<Plain(kind)>>])
  /\ UNCHANGED <<streaming, parser, signatures, made, parts>>

\* the results of the last message's calls, as their tools end, in either vocabulary: blocks
\* of one user message, or a message each, which may have lost its call's id
Answers(shape) ==
  /\ Quiet /\ history # <<>> /\ Last(history).role = "assistant"
  /\ LET calls == {b \in ToSet(Last(history).blocks) : b.kind = "call"}
         Result(c) == [c EXCEPT !.kind = "result", !.name = NoName]
         Lost(c) == [Result(c) EXCEPT !.id = NoId]
     IN  /\ calls # {}
         /\ \E ended \in SetToSeqs(calls) :
              LET results == [i \in DOMAIN ended |->
                                IF shape = "uncorrelated" THEN Lost(ended[i]) ELSE Result(ended[i])]
              IN  history' = IF shape = "blocks"
                               THEN Append(history, [role |-> "user", blocks |-> results])
                               ELSE history \o [i \in DOMAIN results |->
                                                  [role |-> "tool", blocks |-> <<results[i]>>]]
  /\ UNCHANGED <<streaming, parser, signatures, made, parts>>

Ask ==
  /\ Quiet /\ history # <<>>
  /\ streaming' = TRUE
  /\ parser' = Fresh
  /\ UNCHANGED <<history, signatures, made, parts>>

\* a signature expires, is evicted, or the process restarts
Forget(id) ==
  /\ signatures[id] # 0
  /\ signatures' = [signatures EXCEPT ![id] = 0]
  /\ UNCHANGED <<history, streaming, parser, made, parts>>

Next ==
  \/ Data \/ DoneLine \/ Break \/ Complete \/ CutShort
  \/ \E kind \in {"text", "empty"} : Says(kind)
  \/ \E shape \in {"blocks", "messages", "uncorrelated"} : Answers(shape)
  \/ Ask
  \/ \E id \in Ids : Forget(id)

Spec == Init /\ [][Next]_vars

-----------------------------------------------------------------------------
(* The next request.                                                        *)

\* buildToolNameIndex: the name of the last call with the id
Calls(id) == {c \in UNION {ToSet(m.blocks) : m \in ToSet(history)} : c.kind = "call" /\ c.id = id}
NameOf(id) ==
  IF Calls(id) = {} THEN NoName
  ELSE (CHOOSE c \in Calls(id) : \A d \in Calls(id) : d.call <= c.call).name

\* blockToParts and messageToContent: empty text goes, on Claude thoughts go, a result
\* without an id goes; the rest are parts of a model or a user turn
IsSent(block, claude) ==
  /\ block.kind # "empty"
  /\ block.kind = "thought" => ~claude
  /\ block.kind = "result" => block.id # NoId
Sent(block, role) ==
  [role |-> IF role = "assistant" THEN "model" ELSE "user", kind |-> block.kind, call |-> block.call,
   id |-> block.id,
   name |-> IF block.kind = "result" THEN NameOf(block.id) ELSE block.name,
   signature |-> IF block.kind = "call" THEN signatures[block.id] ELSE 0]
BlockParts(block, role, claude) == IF IsSent(block, claude) THEN <<Sent(block, role)>> ELSE <<>>
MessageParts(m, claude) ==
  FlattenSeq([i \in DOMAIN m.blocks |-> BlockParts(m.blocks[i], m.role, claude)])
AllParts(claude) == FlattenSeq([i \in DOMAIN history |-> MessageParts(history[i], claude)])

\* coalesceContents
IsResult(part) == part.kind = "result"
AnyNeighbour(turn, part) == Last(turn).role = part.role
Joins(turn, part) == Last(turn).role = part.role /\ IsResult(Last(turn)) = IsResult(part)
WithPart(turns, part) ==
  IF turns # <<>> /\ Joins(Last(turns), part)
    THEN Front(turns) \o <<Append(Last(turns), part)>>
    ELSE Append(turns, <<part>>)
Coalesced(ps) ==
  LET upTo[n \in 0..Len(ps)] == IF n = 0 THEN <<>> ELSE WithPart(upTo[n - 1], ps[n])
  IN  upTo[Len(ps)]

\* stripTrailingModelTurn: the last turns that are the model's, but never the first one
Stripped(turns) ==
  LET keep == {i \in DOMAIN turns : Last(turns[i]).role # "model"} \cup {1}
  IN  IF turns = <<>> THEN turns ELSE SubSeq(turns, 1, Max(keep))

Contents(claude) ==
  LET turns == Coalesced(AllParts(claude)) IN IF claude THEN Stripped(turns) ELSE turns

-----------------------------------------------------------------------------
(* Properties.                                                              *)

TypeOK ==
  /\ history \in Seq([role: {"user", "assistant", "tool"}, blocks: Seq(Block)])
  /\ streaming \in BOOLEAN
  /\ parser.open \in Block /\ parser.blocks \in Seq(Block) /\ parser.index \in Nat
  /\ {parser.done, parser.finished, parser.usage} \subseteq BOOLEAN
  /\ signatures \in [Ids -> 0..MaxParts]
  /\ made \in Seq(Names) /\ parts \in 0..MaxParts

\* "The inbound mirror of assertUpstreamContract": whatever the lines, blocks open and
\* close one at a time with ascending indices, a delta is of the open block, a call has
\* exactly one, text that only empty parts interrupt stays one block, usage comes once,
\* finish last, and a stream cut short has none.
ChunksAreWellFormed ==
  LET cs == parser.chunks
      Is(i, type) == cs[i].type = type
      Before(i, type) == Cardinality({j \in 1..i - 1 : Is(j, type)})
      open(i) == Before(i, "start") # Before(i, "end")
  IN  /\ \A i \in DOMAIN cs :
           /\ Is(i, "start") => ~open(i) /\ cs[i].index = Before(i, "start")
           /\ cs[i].type \in {"delta", "end"} =>
                open(i) /\ cs[i].index + 1 = Before(i, "start")
           /\ Is(i, "delta") /\ cs[i].kind = "call" =>
                \A j \in DOMAIN cs : Is(j, "delta") /\ cs[j].index = cs[i].index => j = i
           /\ Is(i, "end") /\ i < Len(cs) /\ Is(i + 1, "start") =>
                cs[i].kind # cs[i + 1].kind \/ cs[i].kind = "call"
           /\ Is(i, "usage") => Before(i, "usage") = 0
           /\ Is(i, "finish") => i = Len(cs) /\ ~open(i) /\ (parser.done \/ parser.finished)
      /\ ~streaming /\ cs # <<>> => Is(Len(cs), "finish")

\* "So tool results can name their function": a result goes out under the name of the
\* function that was called, not under that of another call.
NamesTheFunction(part) == IsResult(part) => part.name = made[part.call]
ResultsNameTheirFunction ==
  ~streaming => \A part \in ToSet(AllParts(FALSE)) : NamesTheFunction(part)

\* What is sent is the history, nothing lost or moved but a Claude model's last turns;
\* no turn mixes results with other parts, neighbours that could be one turn are one,
\* a Claude model's request ends with the user, every result answers a call before it
\* under that call's name, and a call carries its own signature or the sentinel.
RequestsAreSound ==
  ~streaming => \A claude \in BOOLEAN :
    LET all == AllParts(claude)
        turns == Contents(claude)
        sent == FlattenSeq(turns)
    IN  /\ IsPrefix(sent, all)
        /\ \A i \in Len(sent) + 1..Len(all) : claude /\ all[i].role = "model"
        /\ \A t \in DOMAIN turns : \A p, q \in ToSet(turns[t]) :
             p.role = q.role /\ IsResult(p) = IsResult(q)
        /\ \A t \in 1..Len(turns) - 1 :
             \/ turns[t][1].role # turns[t + 1][1].role
             \/ IsResult(turns[t][1]) # IsResult(turns[t + 1][1])
        /\ claude /\ Len(turns) > 1 => Last(turns)[1].role = "user"
        /\ \A i \in DOMAIN sent : IsResult(sent[i]) =>
             \E j \in 1..i - 1 : sent[j].kind = "call" /\ sent[j].id = sent[i].id
        /\ \A part \in ToSet(sent) :
             NamesTheFunction(part) /\ part.signature \in {0, part.call}
=============================================================================
