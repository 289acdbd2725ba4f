------------------------- MODULE ChairQuorumProofs -------------------------
(***************************************************************************)
(* Proofs about the Approval Chair, for any number of runs and voters, any *)
(* stances and notes, and any expenses.  What Gateway guarantees is not    *)
(* proved again: a run is shown to be a client of the gateway, and the     *)
(* gateway's theorems are cited.                                           *)
(***************************************************************************)
EXTENDS ChairQuorum, TLAPS

GP == INSTANCE GatewayProofs WITH
  Calls <- Runs, Tools <- {WireTool}, WireNamed <- {WireTool}, Amounts <- Expenses

----------------------------------------------------------------------------
(* The inductive invariant. *)

\* What holds of a run: where it is, what it has asked the gateway, and what
\* it has told its caller.
RunOK(r) ==
  /\ phase[r] = "idle" => amount[r] = NoAmount
  /\ phase[r] # "idle" => amount[r] \in Expenses
  /\ phase[r] \in {"idle", "discovering", "polling"} => stage[r] = "idle"
  /\ stage[r] # "idle" =>
       /\ \A v \in Voters : ballot[r][v] # "asked"
       /\ req[r] = WireRequest(r)
  /\ report[r] # "none" => phase[r] = "reported"
  /\ report[r] = "blocked" => reply[r] = "violation" \/ payee[r] = "Plugin Violation"
  /\ panel[r] # "none" => payee[r] = "Acme LLC"
  /\ panel[r] = "BLOCKED" => report[r] = "blocked"

\* The inductive invariant behind the properties.
RunInv == \A r \in Runs : RunOK(r)

----------------------------------------------------------------------------
(* The chair as a client of the gateway. *)

\* GatewayProofs speaks of the same gateway as the chair does.
LEMMA SameGateway ==
  /\ GW!Init <=> GP!Init
  /\ [GW!Next]_(GW!vars) <=> [GP!Next]_(GP!vars)
  /\ (GW!TypeOK <=> GP!TypeOK) /\ (GW!TypeOK' <=> GP!TypeOK')
  /\ (GW!CallInv <=> GP!CallInv) /\ (GW!CallInv' <=> GP!CallInv')
  /\ \A c \in Runs : GW!GatewayStep(c) \/ GW!Drop(c) => GP!GatewayStep(c) \/ GP!Drop(c)
<1> USE DEF GW!Requests, GP!Requests, GW!IsWireCall, GP!IsWireCall, GW!HasAmount,
            GP!HasAmount, GW!Dollar, GP!Dollar, GW!AutoApproveLimit,
            GP!AutoApproveLimit, GW!HardCeiling, GP!HardCeiling, GW!over_ceiling,
            GP!over_ceiling, GW!needs_approval, GP!needs_approval, GW!allow,
            GP!allow, GW!NoReply, GP!NoReply, GW!Stages, GP!Stages, GW!Replies,
            GP!Replies, GW!InFlight, GP!InFlight
<1>1. GW!Init <=> GP!Init
  BY DEF GW!Init, GP!Init
<1>2. (GW!TypeOK <=> GP!TypeOK) /\ (GW!TypeOK' <=> GP!TypeOK')
  BY DEF GW!TypeOK, GP!TypeOK
<1>3. (GW!CallInv <=> GP!CallInv) /\ (GW!CallInv' <=> GP!CallInv')
  BY DEF GW!CallInv, GP!CallInv
<1>4. ASSUME NEW c \in Runs
      PROVE  GW!GatewayStep(c) <=> GP!GatewayStep(c)
  BY DEF GW!GatewayStep, GP!GatewayStep, GW!Go, GP!Go, GW!Answer, GP!Answer,
         GW!Refuse, GP!Refuse, GW!EnterPreHook, GP!EnterPreHook, GW!Verdict,
         GP!Verdict, GW!OpaAllows, GP!OpaAllows, GW!OpaDenies, GP!OpaDenies,
         GW!OpaFails, GP!OpaFails, GW!BackendRuns, GP!BackendRuns,
         GW!BackendFails, GP!BackendFails, GW!PostHook, GP!PostHook,
         GW!ResultLost, GP!ResultLost
<1>5. ASSUME NEW c \in Runs
      PROVE  (GW!ClientStep(c) <=> GP!ClientStep(c)) /\ (GW!Drop(c) <=> GP!Drop(c))
  BY DEF GW!ClientStep, GP!ClientStep, GW!Receive, GP!Receive, GW!GiveUp,
         GP!GiveUp, GW!Drop, GP!Drop
<1>6. GW!OpaChanges <=> GP!OpaChanges
  BY DEF GW!OpaChanges, GP!OpaChanges
<1>7. ASSUME NEW c \in Runs, NEW q
      PROVE  GW!Submit(c, q) <=> GP!Submit(c, q)
  BY DEF GW!Submit, GP!Submit, GW!Go, GP!Go
<1>8. GW!Next <=> GP!Next
  BY <1>4, <1>5, <1>6, <1>7 DEF GW!Next, GP!Next, GW!Serve, GP!Serve
<1>9. GW!vars = GP!vars /\ (GW!vars' = GW!vars <=> GP!vars' = GP!vars)
  BY DEF GW!vars, GP!vars
<1>10. QED
  BY <1>1, <1>2, <1>3, <1>4, <1>5, <1>8, <1>9

\* Every step of the composition is a step of the gateway or leaves it alone.
LEMMA StepIsGatewayStep == TypeOK /\ RunInv /\ [Next]_vars => [GW!Next]_(GW!vars)
<1> SUFFICES ASSUME TypeOK, RunInv, [Next]_vars
             PROVE  [GW!Next]_(GW!vars)
  OBVIOUS
<1>1. ASSUME UNCHANGED gatewayVars
      PROVE  UNCHANGED GW!vars
  BY <1>1 DEF gatewayVars, GW!vars
<1>2. CASE CatalogChanges \/ UNCHANGED vars
  BY <1>1, <1>2 DEF CatalogChanges, vars
<1>3. CASE GatewayWorks
  BY <1>3 DEF GatewayWorks, GW!Next, GW!Serve
<1>4. ASSUME NEW r \in Runs, NEW a \in Expenses, NEW p \in Payees, Start(r, a, p)
      PROVE  [GW!Next]_(GW!vars)
  BY <1>1, <1>4 DEF Start
<1>5. ASSUME NEW r \in Runs, ChairStep(r)
      PROVE  [GW!Next]_(GW!vars)
  <2>1. CASE Discover(r)
    BY <1>1, <2>1 DEF Discover
  <2>2. ASSUME NEW v \in Voters, VoteSettles(r, v)
        PROVE  [GW!Next]_(GW!vars)
    BY <1>1, <2>2 DEF VoteSettles, VoterAnswers, VoterSilent
  <2>3. CASE Tally(r)
    <3> DEFINE q == WireRequest(r)
    <3>1. phase[r] = "polling" /\ GW!Submit(r, q)
      BY <2>3 DEF Tally, Enter
    <3>2. amount[r] \in Expenses
      BY <3>1 DEF RunInv, RunOK
    <3>3. quorum_approved(r) \in BOOLEAN
      BY DEF quorum_approved
    <3>4. q \in GW!Requests
      BY <3>2, <3>3 DEF GW!Requests, WireRequest, GW!ByArguments, q
    <3> HIDE DEF q
    <3>5. QED
      BY <3>1, <3>4 DEF GW!Next
  <2>4. CASE WireSettles(r)
    BY <2>4 DEF WireSettles, WireAnswered, WireRaises, GW!Next, GW!Serve, GW!ClientStep
  <2>5. QED
    BY <1>5, <2>1, <2>2, <2>3, <2>4 DEF ChairStep
<1>6. ASSUME NEW r \in Runs, ChairDies(r)
      PROVE  [GW!Next]_(GW!vars)
  BY <1>1, <1>6 DEF ChairDies, GW!Next, GW!Serve, GW!ClientStep
<1>7. ASSUME NEW r \in Runs, PanelReads(r) \/ PanelGivesUp(r)
      PROVE  [GW!Next]_(GW!vars)
  BY <1>1, <1>7 DEF PanelReads, PanelGivesUp
<1>8. QED
  BY <1>2, <1>3, <1>4, <1>5, <1>6, <1>7 DEF Next

\* GP!GatewayFrame, of the chair's instance of the gateway.
LEMMA WhileGatewayWorks ==
  ASSUME GW!TypeOK, NEW c \in Runs, GW!GatewayStep(c) \/ GW!Drop(c)
  PROVE  /\ req' = req
         /\ \A r \in Runs : stage'[r] = "idle" <=> stage[r] = "idle"
         /\ \A r \in Runs : stage[r] = "replied" => reply'[r] = reply[r]
         /\ \/ executed' = executed
            \/ stage[c] = "forward" /\ executed' = executed \cup {c}
<1>1. GP!TypeOK /\ (GP!GatewayStep(c) \/ GP!Drop(c))
  BY SameGateway
<1>2. {WireTool} \subseteq {WireTool} /\ Expenses \subseteq Nat /\ NoAmount \notin Expenses
  BY ChairAssumption
<1>3. QED
  BY <1>1, <1>2, GP!GatewayFrame

----------------------------------------------------------------------------
(* Type correctness and the inductive invariant. *)

\* The gateway's own invariants survive a step of the composition.
LEMMA GatewayKept ==
  TypeOK /\ RunInv /\ GW!CallInv /\ [Next]_vars => GW!TypeOK' /\ GW!CallInv'
<1> SUFFICES ASSUME TypeOK, RunInv, GW!CallInv, [Next]_vars
             PROVE  GW!TypeOK' /\ GW!CallInv'
  OBVIOUS
<1>1. {WireTool} \subseteq {WireTool}
  OBVIOUS
<1>2. Expenses \subseteq Nat /\ NoAmount \notin Expenses
  BY ChairAssumption
<1>3. GP!TypeOK /\ GP!CallInv /\ [GP!Next]_(GP!vars)
  BY SameGateway, StepIsGatewayStep DEF TypeOK
<1>4. GP!TypeOK'
  BY <1>1, <1>2, <1>3, GP!TypeStep
<1>5. GP!CallInv'
  BY <1>1, <1>2, <1>3, GP!CallInvStep
<1>6. QED
  BY <1>4, <1>5, SameGateway

\* Every rule of vote.py votes one way or the other.
LEMMA VotesAreVotes ==
  ASSUME NEW v \in Voters, NEW dollars, NEW vote \in MayVote(v, dollars)
  PROVE  vote \in Votes
BY DEF MayVote, vote_with_corpus, vote_expense, Votes

\* No step of the composition breaks a type.
LEMMA TypeStep == TypeOK /\ RunInv /\ GW!CallInv /\ [Next]_vars => TypeOK'
<1> SUFFICES ASSUME TypeOK, RunInv, GW!CallInv, [Next]_vars
             PROVE  TypeOK'
  OBVIOUS
<1>1. GW!TypeOK'
  BY GatewayKept
<1> DEFINE ChairType ==
      /\ catalog \subseteq Voters
      /\ phase \in [Runs -> Phases]
      /\ amount \in [Runs -> Expenses \cup {NoAmount}]
      /\ payee \in [Runs -> Payees \cup {"none"}]
      /\ ballot \in [Runs -> [Voters -> Votes \cup {"none", "asked"}]]
      /\ report \in [Runs -> {"none", "blocked", "executed", "error"}]
      /\ panel \in [Runs -> {"none", "waiting", "BLOCKED", "ALLOWED", "SEE RAW"}]
<1>2. ChairType'
  <2>1. ChairType
    BY DEF TypeOK
  <2>2. CASE UNCHANGED chairVars
    BY <2>1, <2>2 DEF chairVars
  <2>3. CASE CatalogChanges
    BY <2>1, <2>3 DEF CatalogChanges
  <2>4. ASSUME NEW r \in Runs, NEW a \in Expenses, NEW p \in Payees, Start(r, a, p)
        PROVE  ChairType'
    BY <2>1, <2>4 DEF Start, Enter, Phases
  <2>5. ASSUME NEW r \in Runs, Discover(r)
        PROVE  ChairType'
    <3>1. PICK names : Ask(r, names)
      BY <2>5 DEF Discover
    <3>2. [v \in Voters |-> IF v \in names THEN "asked" ELSE "none"]
            \in [Voters -> Votes \cup {"none", "asked"}]
      OBVIOUS
    <3>3. ballot' \in [Runs -> [Voters -> Votes \cup {"none", "asked"}]]
      BY <2>1, <3>1, <3>2 DEF Ask
    <3>4. Enter(r, "discovering", "polling") /\ UNCHANGED <<catalog, amount, payee, report, panel>>
      BY <2>5 DEF Discover
    <3>5. QED
      BY <2>1, <3>3, <3>4 DEF Enter, Phases
  <2>6. ASSUME NEW r \in Runs, NEW v \in Voters, VoteSettles(r, v)
        PROVE  ChairType'
    <3>1. PICK vote \in Votes : With(r, v, vote)
      BY <2>6, VotesAreVotes DEF VoteSettles, VoterAnswers, VoterSilent, Votes
    <3>2. UNCHANGED <<catalog, phase, amount, payee, report, panel>>
      BY <2>6 DEF VoteSettles, VoterAnswers, VoterSilent
    <3>3. QED
      BY <2>1, <3>1, <3>2 DEF With
  <2>7. ASSUME NEW r \in Runs, Tally(r)
        PROVE  ChairType'
    BY <2>1, <2>7 DEF Tally, Enter, Phases
  <2>8. ASSUME NEW r \in Runs, WireSettles(r)
        PROVE  ChairType'
    <3>1. /\ Enter(r, "wiring", "reported")
          /\ \E line \in {"blocked", "executed", "error"} : report' = [report EXCEPT ![r] = line]
          /\ UNCHANGED <<catalog, amount, payee, ballot, panel>>
      BY <2>8 DEF WireSettles, WireAnswered, WireRaises, WireLines
    <3>2. QED
      BY <2>1, <3>1 DEF Enter, Phases
  <2>9. ASSUME NEW r \in Runs, ChairDies(r)
        PROVE  ChairType'
    BY <2>1, <2>9 DEF ChairDies, Phases
  <2>10. ASSUME NEW r \in Runs, PanelReads(r) \/ PanelGivesUp(r)
         PROVE  ChairType'
    BY <2>1, <2>10 DEF PanelReads, PanelGivesUp
  <2> HIDE DEF ChairType
  <2>11. CASE GatewayWorks \/ UNCHANGED vars
    BY <2>2, <2>11 DEF GatewayWorks, vars
  <2>12. QED
    BY <2>3, <2>4, <2>5, <2>6, <2>7, <2>8, <2>9, <2>10, <2>11 DEF Next, ChairStep
<1>3. QED
  BY <1>1, <1>2 DEF TypeOK

\* A run's ballots are counted alike as long as they stay the same.
LEMMA SameBallotSameCount ==
  ASSUME NEW r \in Runs, ballot'[r] = ballot[r]
  PROVE  /\ \A vote : Count(r, vote)' = Count(r, vote)
         /\ quorum_approved(r)' = quorum_approved(r)
<1>1. \A vote : {v \in Voters : ballot'[r][v] = vote} = {v \in Voters : ballot[r][v] = vote}
  OBVIOUS
<1>2. \A vote : Count(r, vote)' = Count(r, vote)
  BY <1>1 DEF Count
<1>3. QED
  BY <1>2 DEF quorum_approved

\* The wire of a run is the same call as long as its amount and its ballots are.
LEMMA SameRequest ==
  ASSUME NEW r \in Runs, amount'[r] = amount[r], ballot'[r] = ballot[r]
  PROVE  WireRequest(r)' = WireRequest(r)
<1>1. quorum_approved(r)' = quorum_approved(r)
  BY SameBallotSameCount
<1>2. QED
  BY <1>1 DEF WireRequest, GW!ByArguments

\* A step that touches nothing of a run keeps what RunInv says of it.
LEMMA UntouchedRun ==
  ASSUME NEW r \in Runs, RunOK(r),
         phase'[r] = phase[r], amount'[r] = amount[r], payee'[r] = payee[r],
         ballot'[r] = ballot[r],
         report'[r] = report[r], panel'[r] = panel[r], req'[r] = req[r],
         stage'[r] = "idle" <=> stage[r] = "idle",
         reply[r] = "violation" => reply'[r] = "violation"
  PROVE  RunOK(r)'
BY SameRequest DEF RunOK

\* Every step keeps the inductive invariant.
LEMMA RunInvStep == TypeOK /\ RunInv /\ GW!CallInv /\ [Next]_vars => RunInv'
<1> SUFFICES ASSUME TypeOK, RunInv, GW!CallInv, [Next]_vars, NEW r \in Runs
             PROVE  RunOK(r)'
  BY DEF RunInv
<1> RunOK(r)
  BY DEF RunInv
<1>t. /\ GW!TypeOK
      /\ phase \in [Runs -> Phases]
      /\ amount \in [Runs -> Expenses \cup {NoAmount}]
      /\ payee \in [Runs -> Payees \cup {"none"}]
      /\ ballot \in [Runs -> [Voters -> Votes \cup {"none", "asked"}]]
      /\ report \in [Runs -> {"none", "blocked", "executed", "error"}]
      /\ panel \in [Runs -> {"none", "waiting", "BLOCKED", "ALLOWED", "SEE RAW"}]
  BY DEF TypeOK
<1>g. /\ stage \in [Runs -> GW!Stages]
      /\ req \in [Runs -> GW!Requests \cup {NoRequest}]
      /\ reply \in [Runs -> GW!Replies \cup {GW!NoReply}]
  BY <1>t DEF GW!TypeOK
<1>1. CASE CatalogChanges \/ UNCHANGED vars
  BY <1>1, UntouchedRun DEF CatalogChanges, vars, chairVars, gatewayVars
<1>2. CASE GatewayWorks
  <2>1. UNCHANGED chairVars
    BY <1>2 DEF GatewayWorks
  <2>2. reply[r] = "violation" => stage[r] = "replied"
    BY <1>g DEF GW!CallInv, GW!NoReply
  <2>3. CASE GW!OpaChanges
    BY <2>1, <2>3, UntouchedRun DEF GW!OpaChanges, chairVars
  <2>4. ASSUME NEW c \in Runs, GW!GatewayStep(c) \/ GW!Drop(c)
        PROVE  RunOK(r)'
    BY <1>t, <2>1, <2>2, <2>4, WhileGatewayWorks, UntouchedRun DEF chairVars
  <2>5. QED
    BY <1>2, <2>3, <2>4 DEF GatewayWorks
<1>3. ASSUME NEW s \in Runs, NEW a \in Expenses, NEW p \in Payees, Start(s, a, p)
      PROVE  RunOK(r)'
  <2>1. CASE s = r
    BY <1>3, <1>t, <2>1 DEF Start, Enter, RunOK, gatewayVars
  <2>2. CASE s # r
    BY <1>3, <1>t, <2>2, UntouchedRun DEF Start, Enter, gatewayVars
  <2>3. QED
    BY <2>1, <2>2
<1>4. ASSUME NEW s \in Runs, Discover(s)
      PROVE  RunOK(r)'
  <2>1. CASE s = r
    BY <1>4, <1>t, <2>1 DEF Discover, Enter, RunOK, gatewayVars
  <2>2. CASE s # r
    BY <1>4, <1>t, <2>2, UntouchedRun DEF Discover, Enter, Ask, gatewayVars
  <2>3. QED
    BY <2>1, <2>2
<1>5. ASSUME NEW s \in Runs, NEW v \in Voters, VoteSettles(s, v)
      PROVE  RunOK(r)'
  <2>1. /\ phase[s] = "polling"
        /\ \E vote : With(s, v, vote)
        /\ UNCHANGED <<gatewayVars, catalog, phase, amount, payee, report, panel>>
    BY <1>5 DEF VoteSettles, VoterAnswers, VoterSilent
  <2>2. CASE s = r
    BY <1>t, <2>1, <2>2 DEF RunOK, gatewayVars
  <2>3. CASE s # r
    BY <1>t, <2>1, <2>3, UntouchedRun DEF With, gatewayVars
  <2>4. QED
    BY <2>2, <2>3
<1>6. ASSUME NEW s \in Runs, Tally(s)
      PROVE  RunOK(r)'
  <2> DEFINE q == WireRequest(s)
  <2>1. /\ Enter(s, "polling", "wiring")
        /\ \A v \in Voters : ballot[s][v] # "asked"
        /\ GW!Submit(s, q)
        /\ UNCHANGED <<catalog, amount, payee, ballot, report, panel>>
    BY <1>6 DEF Tally
  <2>2. WireRequest(r)' = WireRequest(r)
    BY <2>1, SameRequest
  <2>3. CASE s = r
    BY <1>t, <1>g, <2>1, <2>2, <2>3 DEF RunOK, Enter, GW!Submit, GW!Go
  <2> HIDE DEF q
  <2>4. CASE s # r
    BY <1>t, <1>g, <2>1, <2>4, UntouchedRun DEF Enter, GW!Submit, GW!Go
  <2>5. QED
    BY <2>3, <2>4
<1>7. ASSUME NEW s \in Runs, WireSettles(s)
      PROVE  RunOK(r)'
  <2>1. /\ Enter(s, "wiring", "reported")
        /\ UNCHANGED <<catalog, amount, payee, ballot, panel, stage, req, reply>>
        /\ \E line : report' = [report EXCEPT ![s] = line]
             /\ (line = "blocked" => reply[s] = "violation" \/ payee[s] = "Plugin Violation")
    BY <1>7 DEF WireSettles, WireAnswered, WireRaises, WireLines, GW!Receive, GW!GiveUp
  <2>2. WireRequest(r)' = WireRequest(r)
    BY <2>1, SameRequest
  <2>3. CASE s = r
    BY <1>t, <2>1, <2>2, <2>3 DEF RunOK, Enter
  <2>4. CASE s # r
    BY <1>t, <2>1, <2>4, UntouchedRun DEF Enter
  <2>5. QED
    BY <2>3, <2>4
<1>8. ASSUME NEW s \in Runs, ChairDies(s)
      PROVE  RunOK(r)'
  <2>1. /\ phase[s] \in {"discovering", "polling", "wiring"}
        /\ phase' = [phase EXCEPT ![s] = "dead"]
        /\ UNCHANGED <<catalog, amount, payee, ballot, report, panel, stage, req, reply>>
    BY <1>8 DEF ChairDies, GW!GiveUp, gatewayVars
  <2>2. WireRequest(r)' = WireRequest(r)
    BY <2>1, SameRequest
  <2>3. CASE s = r
    BY <1>t, <2>1, <2>2, <2>3 DEF RunOK
  <2>4. CASE s # r
    BY <1>t, <2>1, <2>4, UntouchedRun
  <2>5. QED
    BY <2>3, <2>4
<1>9. ASSUME NEW s \in Runs, PanelReads(s) \/ PanelGivesUp(s)
      PROVE  RunOK(r)'
  <2>1. UNCHANGED <<gatewayVars, catalog, phase, amount, payee, ballot, report>>
    BY <1>9 DEF PanelReads, PanelGivesUp
  <2>2. WireRequest(r)' = WireRequest(r)
    BY <2>1, SameRequest
  <2>3. \/ panel'[r] = panel[r]
        \/ panel[r] # "none" /\ (panel'[r] = "BLOCKED" => report[r] = "blocked")
    BY <1>9, <1>t DEF PanelReads, PanelGivesUp
  <2>4. QED
    BY <2>1, <2>2, <2>3 DEF RunOK, gatewayVars
<1>10. QED
  BY <1>1, <1>2, <1>3, <1>4, <1>5, <1>6, <1>7, <1>8, <1>9 DEF Next, ChairStep

Inv == TypeOK /\ RunInv /\ GW!CallInv

\* The three invariants are inductive together: the types need the amounts a
\* run can have, and the runs need what the gateway promises of its answers.
LEMMA Invariance == Spec => []Inv
<1>1. Init => Inv
  <2>1. ASSUME Init
        PROVE  TypeOK
    BY <2>1 DEF Init, TypeOK, GW!Init, GW!TypeOK, GW!Stages, Phases
  <2>2. ASSUME Init
        PROVE  RunInv /\ GW!CallInv
    BY <2>2 DEF Init, RunInv, RunOK, GW!Init, GW!CallInv, GW!NoReply
  <2>3. QED
    BY <2>1, <2>2 DEF Inv
<1>2. Inv /\ [Next]_vars => Inv'
  BY TypeStep, RunInvStep, GatewayKept DEF Inv
<1>3. QED
  BY <1>1, <1>2, PTL DEF Spec

\* Every variable of the composition keeps its type.
THEOREM TypeCorrect == Spec => []TypeOK
<1>1. QED
  BY Invariance, PTL DEF Inv

\* What a run asked of the gateway is what its ballots decide, and when it told
\* its caller of a block, the gateway answered with a violation or the payee's
\* name bears the words that make a violation.
THEOREM RunInvariant == Spec => []RunInv
<1>1. QED
  BY Invariance, PTL DEF Inv

----------------------------------------------------------------------------
(* The properties of the runs. *)

\* The chair is one more client of the gateway, and everything GatewayProofs
\* shows of the gateway holds of the chair's wires.
THEOREM Governed == Spec => GovernedByGateway
<1>1. Init => GW!Init
  BY DEF Init
<1>2. Inv /\ [Next]_vars => [GW!Next]_(GW!vars)
  BY StepIsGatewayStep DEF Inv
<1>3. QED
  BY <1>1, <1>2, Invariance, PTL DEF Spec, GovernedByGateway, GW!Spec

\* The money follows the room: at or over the ceiling no wire runs, and in the
\* dual-approval band only with more approvals than rejections.
THEOREM MoneyFollowsTheVote == Spec => []WireFollowsTheVote
<1>1. Inv => WireFollowsTheVote
  <2> SUFFICES ASSUME Inv, NEW r \in executed
               PROVE  /\ amount[r] < GW!HardCeiling
                      /\ amount[r] >= GW!AutoApproveLimit => quorum_approved(r)
    BY DEF WireFollowsTheVote, quorum_approved
  <2>1. r \in Runs /\ GW!allow(req[r]) /\ stage[r] # "idle"
    BY DEF Inv, TypeOK, GW!TypeOK, GW!CallInv
  <2>2. req[r] = WireRequest(r)
    BY <2>1 DEF Inv, RunInv, RunOK
  <2>3. amount[r] \in Nat /\ amount[r] # NoAmount
    BY <2>1, ChairAssumption DEF Inv, RunInv, RunOK
  <2>4. req[r].tool = WireTool /\ req[r].amount = amount[r] /\ req[r].approval = quorum_approved(r)
    BY <2>2 DEF WireRequest, GW!ByArguments
  <2>5. GW!IsWireCall(req[r]) /\ GW!HasAmount(req[r])
    BY <2>3, <2>4 DEF GW!IsWireCall, GW!HasAmount
  <2>6. /\ amount[r] >= GW!HardCeiling <=> ~(amount[r] < GW!HardCeiling)
    BY <2>3 DEF GW!HardCeiling, GW!Dollar
  <2>7. QED
    BY <2>1, <2>4, <2>5, <2>6, Zenon DEF GW!allow, GW!over_ceiling, GW!needs_approval
<1>2. QED
  BY <1>1, Invariance, PTL

\* No wire is attempted while a vote it was to wait for is outstanding.
THEOREM VotesCounted == Spec => []EveryVoteCounted
<1>1. RunInv => EveryVoteCounted
  BY DEF RunInv, RunOK, EveryVoteCounted
<1>2. QED
  BY <1>1, RunInvariant, PTL

\* A card that shows a block, and a report of one for a payee whose name does not
\* bear the violation's words, are of a run that moved no money and never will.
THEOREM BlocksAreTrue == Spec => []BlockedIsTrue
<1>1. Inv => BlockedIsTrue
  <2> SUFFICES ASSUME Inv, NEW r \in Runs,
                      \/ panel[r] = "BLOCKED"
                      \/ report[r] = "blocked" /\ payee[r] # "Plugin Violation"
               PROVE  r \notin executed /\ stage[r] \notin GW!InFlight
    BY DEF BlockedIsTrue
  <2>1. reply[r] = "violation"
    <3>1. report[r] = "blocked" /\ payee[r] # "Plugin Violation"
      BY DEF Inv, RunInv, RunOK
    <3>2. QED
      BY <3>1 DEF Inv, RunInv, RunOK
  <2>2. QED
    BY <2>1 DEF Inv, GW!CallInv, GW!NoReply, GW!InFlight
<1>2. QED
  BY <1>1, Invariance, PTL

----------------------------------------------------------------------------
(* The composition implements QuorumPayment. *)

\* A decision stands as long as no wire goes out and the ballots of the runs
\* whose wire is out stay the same.
LEMMA DecisionStands ==
  ASSUME \A r \in Runs : stage'[r] = "idle" <=> stage[r] = "idle",
         \A r \in Runs : stage[r] # "idle" => ballot'[r] = ballot[r]
  PROVE  decision' = decision
<1> DEFINE D(r) == IF stage[r] = "idle" THEN "open"
                   ELSE IF Count(r, "approve") > Count(r, "reject") THEN "approved"
                   ELSE "refused"
<1>1. ASSUME NEW r \in Runs
      PROVE  D(r)' = D(r)
  <2>1. CASE stage[r] = "idle"
    BY <2>1
  <2>2. CASE stage[r] # "idle"
    BY <2>2, SameBallotSameCount
  <2>3. QED
    BY <2>1, <2>2
<1> HIDE DEF D
<1>2. [r \in Runs |-> D(r)]' = [r \in Runs |-> D(r)]
  BY <1>1
<1>3. QED
  BY <1>2 DEF decision, D

\* Going out with its wire decides a run.
LEMMA TallyDecides ==
  ASSUME Inv, NEW r \in Runs, Tally(r)
  PROVE  QP!Decide(r)
<1>1. /\ phase[r] = "polling"
      /\ GW!Go(r, "idle", "received")
      /\ UNCHANGED <<amount, ballot, executed>>
  BY DEF Tally, Enter, GW!Submit
<1>2. amount[r] # NoAmount
  BY <1>1, ChairAssumption DEF Inv, RunInv, RunOK
<1>3. stage[r] = "idle" /\ stage' = [stage EXCEPT ![r] = "received"] /\ DOMAIN stage = Runs
  BY <1>1 DEF GW!Go, Inv, TypeOK, GW!TypeOK
<1>4. decision[r] = "open"
  BY <1>3 DEF decision
<1> DEFINE d == IF quorum_approved(r) THEN "approved" ELSE "refused"
<1>5. ASSUME NEW s \in Runs
      PROVE  decision'[s] = [decision EXCEPT ![r] = d][s]
  <2>1. /\ quorum_approved(s)' = quorum_approved(s)
        /\ \A vote : Count(s, vote)' = Count(s, vote)
    BY <1>1, SameBallotSameCount
  <2>2. CASE s = r
    BY <1>3, <2>1, <2>2 DEF decision, quorum_approved
  <2>3. CASE s # r
    BY <1>3, <2>1, <2>3 DEF decision
  <2>4. QED
    BY <2>2, <2>3
<1> HIDE DEF d
<1>6. decision' = [decision EXCEPT ![r] = d]
  <2>1. decision' = [s \in Runs |-> decision'[s]] /\ decision = [s \in Runs |-> decision[s]]
    BY DEF decision
  <2>2. QED
    BY <1>5, <2>1
<1>7. d \in {"approved", "refused"}
  BY DEF d
<1>8. QED
  BY <1>1, <1>2, <1>4, <1>6, <1>7 DEF QP!Decide

\* A tool that runs pays an expense its tier and its run's decision allow.
LEMMA BackendPays ==
  ASSUME Inv, NEW r \in Runs, stage[r] = "forward"
  PROVE  decision[r] # "open" /\ QP!Payable(r)
<1>1. GW!allow(req[r])
  BY DEF Inv, GW!CallInv
<1>2. req[r] = WireRequest(r)
  BY DEF Inv, RunInv, RunOK
<1>3. amount[r] \in Nat /\ amount[r] # NoAmount
  BY ChairAssumption DEF Inv, RunInv, RunOK
<1>4. req[r].tool = WireTool /\ req[r].amount = amount[r] /\ req[r].approval = quorum_approved(r)
  BY <1>2 DEF WireRequest, GW!ByArguments
<1>5. /\ amount[r] >= GW!HardCeiling <=> ~(amount[r] < GW!HardCeiling)
      /\ amount[r] >= GW!AutoApproveLimit <=> ~(amount[r] < GW!AutoApproveLimit)
  BY <1>3 DEF GW!HardCeiling, GW!AutoApproveLimit, GW!Dollar
<1>6. /\ amount[r] < GW!HardCeiling
      /\ amount[r] < GW!AutoApproveLimit \/ quorum_approved(r)
  BY <1>1, <1>3, <1>4, <1>5, Zenon DEF GW!allow, GW!over_ceiling, GW!needs_approval,
                                       GW!IsWireCall, GW!HasAmount
<1>7. quorum_approved(r) => decision[r] = "approved"
  BY DEF decision, quorum_approved
<1>8. decision[r] # "open"
  BY DEF decision
<1>9. QED
  BY <1>6, <1>7, <1>8, Zenon DEF QP!Payable

\* Every step of the composition is a step of QuorumPayment or a stutter.
LEMMA StepRefines == Inv /\ [Next]_vars => [QP!Next]_(QP!vars)
<1> SUFFICES ASSUME Inv, [Next]_vars
             PROVE  [QP!Next]_(QP!vars)
  OBVIOUS
<1>t. /\ GW!TypeOK
      /\ DOMAIN stage = Runs /\ DOMAIN ballot = Runs
      /\ \A r \in Runs : RunOK(r)
  BY DEF Inv, TypeOK, GW!TypeOK, RunInv
<1>s. ASSUME UNCHANGED <<amount, executed>>, decision' = decision
      PROVE  UNCHANGED QP!vars
  BY <1>s DEF QP!vars
<1>1. CASE UNCHANGED <<stage, ballot, amount, executed>>
  BY <1>1, <1>s, DecisionStands
<1>2. CASE CatalogChanges \/ UNCHANGED vars
  BY <1>1, <1>2 DEF CatalogChanges, vars, chairVars, gatewayVars
<1>3. CASE GatewayWorks
  <2>1. UNCHANGED <<amount, ballot>>
    BY <1>3 DEF GatewayWorks, chairVars
  <2>2. CASE GW!OpaChanges
    BY <1>1, <2>1, <2>2 DEF GW!OpaChanges
  <2>3. ASSUME NEW c \in Runs, GW!GatewayStep(c) \/ GW!Drop(c)
        PROVE  [QP!Next]_(QP!vars)
    <3>1. decision' = decision
      BY <1>t, <2>1, <2>3, WhileGatewayWorks, DecisionStands
    <3>2. CASE executed' = executed
      BY <1>s, <2>1, <3>1, <3>2
    <3>3. CASE stage[c] = "forward" /\ executed' = executed \cup {c}
      BY <2>1, <3>1, <3>3, BackendPays DEF QP!Next, QP!Pay
    <3>4. QED
      BY <1>t, <2>3, <3>2, <3>3, WhileGatewayWorks
  <2>4. QED
    BY <1>3, <2>2, <2>3 DEF GatewayWorks
<1>4. ASSUME NEW r \in Runs, NEW a \in Expenses, NEW p \in Payees, Start(r, a, p)
      PROVE  [QP!Next]_(QP!vars)
  <2>1. /\ amount[r] = NoAmount
        /\ amount' = [amount EXCEPT ![r] = a]
        /\ UNCHANGED <<stage, ballot, executed>>
    BY <1>4, <1>t DEF Start, Enter, gatewayVars, RunOK
  <2>2. decision' = decision
    BY <2>1, DecisionStands
  <2>3. QED
    BY <2>1, <2>2 DEF QP!Next, QP!Propose
<1>5. ASSUME NEW r \in Runs, Discover(r) \/ \E v \in Voters : VoteSettles(r, v)
      PROVE  [QP!Next]_(QP!vars)
  <2>1. /\ phase[r] \in {"discovering", "polling"}
        /\ \E b : ballot' = [ballot EXCEPT ![r] = b]
        /\ UNCHANGED <<stage, amount, executed>>
    BY <1>5 DEF Discover, Enter, Ask, VoteSettles, VoterAnswers, VoterSilent, With, gatewayVars
  <2>2. stage[r] = "idle"
    BY <1>t, <2>1 DEF RunOK
  <2>3. decision' = decision
    BY <1>t, <2>1, <2>2, DecisionStands
  <2>4. QED
    BY <1>s, <2>1, <2>3
<1>6. ASSUME NEW r \in Runs, Tally(r)
      PROVE  [QP!Next]_(QP!vars)
  BY <1>6, TallyDecides DEF QP!Next
<1>7. ASSUME NEW r \in Runs, WireSettles(r) \/ ChairDies(r)
      PROVE  [QP!Next]_(QP!vars)
  BY <1>1, <1>7 DEF WireSettles, WireAnswered, WireRaises, ChairDies, GW!Receive,
                    GW!GiveUp, gatewayVars
<1>8. ASSUME NEW r \in Runs, PanelReads(r) \/ PanelGivesUp(r)
      PROVE  [QP!Next]_(QP!vars)
  BY <1>1, <1>8 DEF PanelReads, PanelGivesUp, gatewayVars
<1>9. QED
  BY <1>2, <1>3, <1>4, <1>5, <1>6, <1>7, <1>8 DEF Next, ChairStep

\* Voters, registry, timeouts, gateway and policy engine together keep the
\* abstract promise: an expense is decided once and paid only as its tier and
\* the decision allow.
THEOREM KeepsThePromise == Spec => ImplementsQuorumPayment
<1>1. Init => QP!Init
  BY DEF Init, GW!Init, QP!Init, decision
<1>2. QED
  BY <1>1, StepRefines, Invariance, PTL DEF Spec, ImplementsQuorumPayment, QP!Spec
=============================================================================
