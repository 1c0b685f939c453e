-------------------------------- MODULE MCPools --------------------------------
(***************************************************************************)
(* What a chat turn goes through, one stress in each behaviour:             *)
(*   requests - two requests interleave in the pool while writes of the     *)
(*              document fail and tokens are revoked;                       *)
(*   edits    - one request meets the user's edits or a health probe, and   *)
(*              pins and limits that lapse;                                 *)
(*   readings - two requests in turn meet readings of every level;          *)
(*   quotas   - requests re-measure an account;                             *)
(*   ranking  - requests choose by walls and readings as time passes.       *)
(* No step touches two of these modules.                                    *)
(***************************************************************************)
EXTENDS MCSessionPool

CONSTANTS
  Stresses,
  gemini, claude, QuotaFamilies, ModelAnswers, Summaries, Measurers, Measurements,
  RollingSpan, ShortTtl, LowTtl, BlindTtl, LongTtl, LastTick,
  Standing, Walls, Rolls, Weeks, Better, Day, RankTicks

VARIABLES
  doc, measuring, measurePc, home, update, quotaTick,
  ranked, cursor, full, answer, rankTick,
  stress

quotaVars == <<doc, measuring, measurePc, home, update, quotaTick>>
rankVars == <<ranked, cursor, full, answer, rankTick>>

Answers == INSTANCE MCQuotaAnswers
SomeModels == Answers!SomeModels
SomeSummaries == Answers!SomeSummaries
Quota == INSTANCE QuotaReadings WITH
  Procs <- Measurers, Requests <- Measurements, Families <- QuotaFamilies,
  probe <- measuring, pc <- measurePc, tick <- quotaTick

\* The accounts to choose from: free, backing off and limited, parked for their quota, and limited
\* too; with windows unread, spent, nearly spent, and comfortable.
Wall(cool, why, limit) == [cool |-> cool, why |-> why, limit |-> limit]
Window(left, reset) == [left |-> left, reset |-> reset]
SomeWalls == {Wall(0, "none", 0), Wall(1, "other", 2), Wall(3, "quota-exhausted", 0),
              Wall(3, "quota-exhausted", 2)}
SomeRolls == {Window(-1, 0), Window(0, 2), Window(100, 3), Window(500, 1)}
SomeWeeks == {Window(-1, 0), Window(0, 3), Window(5, 3), Window(400, 1)}
Rank == INSTANCE Ranking WITH
  Size <- Standing, LastTick <- RankTicks, pool <- ranked, active <- cursor, tick <- rankTick

AllInit ==
  /\ stress \in Stresses
  /\ Init /\ Quota!Init /\ Rank!Init
  /\ stress # "ranking" => ranked = [i \in Rank!Positions |-> Rank!Disabled] /\ cursor = 1
  /\ stress # "requests" => store.active = 1

Begun == {r \in Requests : pc[r] # "idle"}
Probing == {p \in Probes : probe[p].step # "idle"}
UnderWay == {r \in Begun : pc[r] \notin Outcomes}
TestCalls == {r \in Requests : call[r].asked # NotPinned}

\* in the other behaviours an account that is measured is spent or revoked
Roomy == {r \in Requests : \E a \in Accounts, f \in Families : snap[r].health[a].quota[f] = Headroom}

TwoRequests ==
  /\ stress = "requests"
  /\ \E r \in Requests : RequestStep(r)
  /\ Cardinality(TestCalls') <= 1 /\ Roomy' = {}

OneRequest ==
  /\ stress = "edits"
  /\ \/ \E r \in Requests : RequestStep(r)
     \/ EditStep
     \/ \E p \in Probes : ProbeStep(p)
     \/ \E c \in Conversations : PinLapses(c)
     \/ Tick
  /\ Cardinality(Begun') <= 1 /\ Roomy' = {} /\ (edits' = 0 \/ Probing' = {})

InTurn ==
  /\ stress = "readings"
  /\ (\E r \in Requests : RequestStep(r)) \/ Tick
  /\ Cardinality(UnderWay') <= 1 /\ TestCalls' = {}

AllNext ==
  \/ (TwoRequests \/ OneRequest \/ InTurn) /\ UNCHANGED <<quotaVars, rankVars, stress>>
  \/ stress = "quotas" /\ Quota!Next /\ UNCHANGED <<vars, rankVars, stress>>
  \/ stress = "ranking" /\ Rank!Next /\ UNCHANGED <<vars, quotaVars, stress>>

AllSpec == AllInit /\ [][AllNext]_<<vars, quotaVars, rankVars, stress>>

AllSymmetry == Symmetry \cup Permutations(Measurements)

-----------------------------------------------------------------------------
(* The properties of the modules composed, under their own names.           *)

\* Every variable has its type.
AllTypesOK ==
  /\ TypeOK
  /\ stress = "quotas" => Quota!TypeOK
  /\ stress = "ranking" => Rank!TypeOK

\* A spent window is measured again soon, whatever else was measured (QuotaReadings).
SpentFamiliesAreRemeasured == stress = "quotas" => Quota!SpentFamiliesAreRemeasured
\* No week is filed as a rolling window, no old reading as a new one (QuotaReadings).
RollingWindowsAreShort == stress = "quotas" => Quota!RollingWindowsAreShort
\* A probe that says nothing of the week leaves what was known of it (QuotaReadings).
CarriedWeeksSurvive == Quota!CarriedWeeksSurvive
\* A caller told to retry finds an account at the announced moment (Ranking).
RetriesFindAnAccount == stress = "ranking" => Rank!RetriesFindAnAccount
\* An account is never passed over for having more left (Ranking).
MoreIsNeverWorse == stress = "ranking" => Rank!MoreIsNeverWorse
=============================================================================
