------------------------ MODULE CompanionQuorumProofs ------------------------
(***************************************************************************)
(* Proofs about the Companion's own quorum, for any number of cards and of *)
(* voters, any width of the pool, and whatever the voters and the gateway  *)
(* answer.  As the chair's, a card is a client of the gateway, whose       *)
(* invariants are cited from GatewayProofs.                                *)
(***************************************************************************)
EXTENDS CompanionQuorum, TLAPS

GP == INSTANCE GatewayProofs WITH
  Calls <- Cards, Tools <- {WireTool}, WireNamed <- {WireTool},
  Amounts <- {QUORUM_AMOUNT}

----------------------------------------------------------------------------
(* The inductive invariant. *)

\* The inductive invariant behind the properties: where a card is says how far its wire
\* is; what was counted is what its futures hold; nothing is left in the pool,
\* and nobody uncounted, once the wire is out; and a headline of a block repeats
\* the gateway's answer.
CardOK(c) ==
  /\ phase[c] \in {"wiring", "shown"} <=> stage[c] # "idle"
  /\ stage[c] # "idle" => req[c] = Request(c)
  /\ phase[c] = "idle" => \A v \in Voters : task[c][v] = "none"
  /\ phase[c] \in {"idle", "waiting"} => \A v \in Voters : counted[c][v] = "none"
  /\ \A v \in Voters : task[c][v] = "finished" => answer[c][v] # "none"
  /\ \A v \in Voters : counted[c][v] # "none" =>
       /\ task[c][v] \notin {"none", "queued"}
       /\ counted[c][v] = "abstain" \/ (task[c][v] = "finished" /\ counted[c][v] = answer[c][v])
  /\ stage[c] # "idle" => \A v \in Voters :
       /\ task[c][v] \notin {"queued", "running"}
       /\ task[c][v] # "none" => counted[c][v] # "none"
  /\ headline[c] \in {"APPROVED, blocked", "REJECTED, blocked"} =>
       phase[c] = "shown" /\ reply[c] = "violation" /\ headline[c] = Blocked(c)

CardInv == \A c \in Cards : CardOK(c)

----------------------------------------------------------------------------
(* The card as a client of the gateway. *)

\* GatewayProofs speaks of the same gateway as the card does.
LEMMA SameGateway ==
  /\ GW!Init <=> GP!Init
  /\ [GW!Next]_(GW!vars) <=> [GP!Next]_(GP!vars)
  /\ (GW!TypeOK <=> GP!TypeOK) /\ (GW!TypeOK' <=> GP!TypeOK')
  /\ (GW!CallInv <=> GP!CallInv) /\ (GW!CallInv' <=> GP!CallInv')
  /\ \A c \in Cards : GW!GatewayStep(c) \/ GW!Drop(c) => GP!GatewayStep(c) \/ GP!Drop(c)
<1>a. GW!Requests = GP!Requests /\ GW!NoReply = GP!NoReply
  BY DEF GW!Requests, GP!Requests, GW!NoReply, GP!NoReply
<1>b. \A q : GW!allow(q) <=> GP!allow(q)
  BY DEF GW!allow, GP!allow, GW!over_ceiling, GP!over_ceiling, GW!needs_approval,
         GP!needs_approval, GW!IsWireCall, GP!IsWireCall, GW!HasAmount, GP!HasAmount,
         GW!AutoApproveLimit, GP!AutoApproveLimit, GW!HardCeiling, GP!HardCeiling,
         GW!Dollar, GP!Dollar
<1> USE DEF GW!Requests, GP!Requests, GW!IsWireCall, GP!IsWireCall, GW!HasAmount,
            GP!HasAmount, GW!Dollar, GP!Dollar, GW!AutoApproveLimit,
            GP!AutoApproveLimit, GW!HardCeiling, GP!HardCeiling, GW!over_ceiling,
            GP!over_ceiling, GW!needs_approval, GP!needs_approval, GW!allow,
            GP!allow, GW!NoReply, GP!NoReply, GW!Stages, GP!Stages, GW!Replies,
            GP!Replies, GW!InFlight, GP!InFlight
<1>1. GW!Init <=> GP!Init
  BY DEF GW!Init, GP!Init
<1>2. (GW!TypeOK <=> GP!TypeOK) /\ (GW!TypeOK' <=> GP!TypeOK')
  BY DEF GW!TypeOK, GP!TypeOK
<1>3. (GW!CallInv <=> GP!CallInv) /\ (GW!CallInv' <=> GP!CallInv')
  BY <1>a, <1>b DEF GW!CallInv, GP!CallInv
<1>4. ASSUME NEW c \in Cards
      PROVE  GW!GatewayStep(c) <=> GP!GatewayStep(c)
  BY DEF GW!GatewayStep, GP!GatewayStep, GW!Go, GP!Go, GW!Answer, GP!Answer,
         GW!Refuse, GP!Refuse, GW!EnterPreHook, GP!EnterPreHook, GW!Verdict,
         GP!Verdict, GW!OpaAllows, GP!OpaAllows, GW!OpaDenies, GP!OpaDenies,
         GW!OpaFails, GP!OpaFails, GW!BackendRuns, GP!BackendRuns,
         GW!BackendFails, GP!BackendFails, GW!PostHook, GP!PostHook,
         GW!ResultLost, GP!ResultLost
<1>5. ASSUME NEW c \in Cards
      PROVE  (GW!ClientStep(c) <=> GP!ClientStep(c)) /\ (GW!Drop(c) <=> GP!Drop(c))
  BY DEF GW!ClientStep, GP!ClientStep, GW!Receive, GP!Receive, GW!GiveUp,
         GP!GiveUp, GW!Drop, GP!Drop
<1>6. GW!OpaChanges <=> GP!OpaChanges
  BY DEF GW!OpaChanges, GP!OpaChanges
<1>7. ASSUME NEW c \in Cards, NEW q
      PROVE  GW!Submit(c, q) <=> GP!Submit(c, q)
  BY DEF GW!Submit, GP!Submit, GW!Go, GP!Go
<1>8. GW!Next <=> GP!Next
  BY <1>4, <1>5, <1>6, <1>7 DEF GW!Next, GP!Next, GW!Serve, GP!Serve
<1>9. GW!vars = GP!vars /\ (GW!vars' = GW!vars <=> GP!vars' = GP!vars)
  BY DEF GW!vars, GP!vars
<1>10. QED
  BY <1>1, <1>2, <1>3, <1>4, <1>5, <1>8, <1>9

\* What GatewayProofs assumes of its constants.
LEMMA WireConstants ==
  /\ {WireTool} \subseteq {WireTool}
  /\ {QUORUM_AMOUNT} \subseteq Nat /\ NoAmount \notin {QUORUM_AMOUNT}
BY CompanionAssumption DEF QUORUM_AMOUNT

\* GP!GatewayFrame, of the cards' instance of the gateway.
LEMMA WhileGatewayWorks ==
  ASSUME GW!TypeOK, NEW c \in Cards, GW!GatewayStep(c) \/ GW!Drop(c)
  PROVE  /\ req' = req
         /\ \A d \in Cards : stage'[d] = "idle" <=> stage[d] = "idle"
         /\ \A d \in Cards : stage[d] = "replied" => reply'[d] = reply[d]
         /\ \/ executed' = executed
            \/ stage[c] = "forward" /\ executed' = executed \cup {c}
<1>1. GP!TypeOK /\ (GP!GatewayStep(c) \/ GP!Drop(c))
  BY SameGateway
<1>2. QED
  BY <1>1, WireConstants, GP!GatewayFrame

\* Every step of the composition is a step of the gateway or leaves it alone.
LEMMA StepIsGatewayStep == [Next]_vars => [GW!Next]_(GW!vars)
<1> SUFFICES ASSUME [Next]_vars
             PROVE  [GW!Next]_(GW!vars)
  OBVIOUS
<1>1. ASSUME UNCHANGED gatewayVars
      PROVE  UNCHANGED GW!vars
  BY <1>1 DEF gatewayVars, GW!vars
<1>2. CASE GatewayWorks
  BY <1>2 DEF GatewayWorks, GW!Next, GW!Serve
<1>3. ASSUME NEW c \in Cards, NEW names \in SUBSET Voters, Open(c, names)
      PROVE  UNCHANGED gatewayVars
  BY <1>3 DEF Open
<1>4. ASSUME NEW c \in Cards, NEW v \in Voters,
             ThreadTakes(c, v) \/ ThreadReturns(c, v) \/ Abstain(c, v)
      PROVE  UNCHANGED gatewayVars
  BY <1>4 DEF ThreadTakes, ThreadReturns, Abstain
<1>5. ASSUME NEW c \in Cards, Collect(c)
      PROVE  UNCHANGED gatewayVars
  BY <1>5 DEF Collect
<1>6. ASSUME NEW c \in Cards, Wire(c)
      PROVE  GW!Next
  <2>1. GW!Submit(c, Request(c))
    BY <1>6 DEF Wire
  <2>2. Request(c) \in GW!Requests
    BY DEF Request, quorum_approved, GW!Requests, GW!ByArguments
  <2>3. QED
    BY <2>1, <2>2 DEF GW!Next
<1>7. ASSUME NEW c \in Cards, WireAnswered(c) \/ WireFails(c)
      PROVE  GW!Next
  BY <1>7 DEF WireAnswered, WireFails, GW!Next, GW!Serve, GW!ClientStep
<1>8. CASE UNCHANGED vars
  BY <1>8, <1>1 DEF vars
<1>9. QED
  BY <1>1, <1>2, <1>3, <1>4, <1>5, <1>6, <1>7, <1>8 DEF Next, Pool, OwnStep

\* The gateway's own invariants survive a step of the composition.
LEMMA GatewayKept ==
  GW!TypeOK /\ GW!CallInv /\ [Next]_vars => GW!TypeOK' /\ GW!CallInv'
<1> SUFFICES ASSUME GW!TypeOK, GW!CallInv, [Next]_vars
             PROVE  GW!TypeOK' /\ GW!CallInv'
  OBVIOUS
<1>1. GP!TypeOK /\ GP!CallInv /\ [GP!Next]_(GP!vars)
  BY SameGateway, StepIsGatewayStep
<1>2. GP!TypeOK' /\ GP!CallInv'
  BY <1>1, WireConstants, GP!TypeStep, GP!CallInvStep
<1>3. QED
  BY <1>2, SameGateway

----------------------------------------------------------------------------
(* Type correctness and the inductive invariant. *)

\* No step of the composition breaks a type.
LEMMA TypeStep == TypeOK /\ GW!CallInv /\ [Next]_vars => TypeOK'
<1> SUFFICES ASSUME TypeOK, GW!CallInv, [Next]_vars
             PROVE  TypeOK'
  OBVIOUS
<1> DEFINE CardType ==
      /\ phase \in [Cards -> {"idle", "waiting", "settling", "wiring", "shown"}]
      /\ task \in [Cards -> [Voters -> {"none", "queued", "running", "finished", "cancelled"}]]
      /\ answer \in [Cards -> [Voters -> Votes \cup {"none"}]]
      /\ counted \in [Cards -> [Voters -> Votes \cup {"none"}]]
      /\ headline \in [Cards -> {"none", "APPROVED, executed", "APPROVED, blocked", "REJECTED, blocked"}]
<1>1. GW!TypeOK'
  BY GatewayKept DEF TypeOK
<1>2. CardType'
  <2>1. CardType
    BY DEF TypeOK
  <2>2. CASE GatewayWorks \/ UNCHANGED vars
    BY <2>1, <2>2 DEF GatewayWorks, vars, cardVars
  <2>3. ASSUME NEW c \in Cards, NEW names \in SUBSET Voters, Open(c, names)
        PROVE  CardType'
    BY <2>1, <2>3 DEF Open, Enter
  <2>4. ASSUME NEW c \in Cards, NEW v \in Voters,
               ThreadTakes(c, v) \/ ThreadReturns(c, v) \/ Abstain(c, v)
        PROVE  CardType'
    <3>1. CASE ThreadTakes(c, v)
      BY <2>1, <3>1 DEF ThreadTakes
    <3>2. CASE ThreadReturns(c, v)
      <4>1. PICK vote \in Votes : answer' = [answer EXCEPT ![c][v] = vote]
        BY <3>2 DEF ThreadReturns
      <4>2. answer' \in [Cards -> [Voters -> Votes \cup {"none"}]]
        BY <2>1, <4>1
      <4>3. task' = [task EXCEPT ![c][v] = "finished"] /\ UNCHANGED <<phase, counted, headline>>
        BY <3>2 DEF ThreadReturns
      <4>4. QED
        BY <2>1, <4>2, <4>3
    <3>3. CASE Abstain(c, v)
      BY <2>1, <3>3 DEF Abstain, Votes
    <3>4. QED
      BY <2>4, <3>1, <3>2, <3>3
  <2>5. ASSUME NEW c \in Cards, Collect(c)
        PROVE  CardType'
    <3>1. [v \in Voters |-> IF task[c][v] = "finished" THEN answer[c][v] ELSE "none"]
            \in [Voters -> Votes \cup {"none"}]
      BY <2>1
    <3>2. QED
      BY <2>1, <2>5, <3>1 DEF Collect, Enter
  <2>6. ASSUME NEW c \in Cards, Wire(c)
        PROVE  CardType'
    BY <2>1, <2>6 DEF Wire, Enter
  <2>7. ASSUME NEW c \in Cards, WireAnswered(c) \/ WireFails(c)
        PROVE  CardType'
    BY <2>1, <2>7 DEF WireAnswered, WireFails, Headline, Blocked, Enter
  <2>8. QED
    BY <2>2, <2>3, <2>4, <2>5, <2>6, <2>7 DEF Next, Pool, OwnStep
<1>3. QED
  BY <1>1, <1>2 DEF TypeOK

\* What the policy reads of a card's wire.
LEMMA RequestCarries ==
  ASSUME NEW c \in Cards, NEW q, q = Request(c)
  PROVE  /\ q.tool = WireTool
         /\ q.amount = QUORUM_AMOUNT
         /\ q.approval = quorum_approved(c)
BY DEF Request, GW!ByArguments

\* Cards that count alike decide alike.
LEMMA SameCountSameDecision ==
  ASSUME NEW c \in Cards, counted'[c] = counted[c]
  PROVE  /\ \A vote : Count(c, vote)' = Count(c, vote)
         /\ quorum_approved(c)' = quorum_approved(c)
         /\ Request(c)' = Request(c)
         /\ Blocked(c)' = Blocked(c)
<1>1. \A vote : {v \in Voters : counted'[c][v] = vote} = {v \in Voters : counted[c][v] = vote}
  OBVIOUS
<1>2. \A vote : Count(c, vote)' = Count(c, vote)
  BY <1>1 DEF Count
<1>3. quorum_approved(c)' = quorum_approved(c)
  BY <1>2 DEF quorum_approved
<1>4. QED
  BY <1>2, <1>3 DEF Request, GW!ByArguments, Blocked

\* A step that touches nothing of a card keeps what CardInv says of it.
LEMMA UntouchedCard ==
  ASSUME NEW c \in Cards, CardOK(c),
         phase'[c] = phase[c], task'[c] = task[c], answer'[c] = answer[c],
         counted'[c] = counted[c], headline'[c] = headline[c], req'[c] = req[c],
         stage'[c] = "idle" <=> stage[c] = "idle",
         reply[c] = "violation" => reply'[c] = "violation"
  PROVE  CardOK(c)'
BY SameCountSameDecision DEF CardOK

\* Every step keeps the inductive invariant.
LEMMA CardInvStep == TypeOK /\ CardInv /\ GW!CallInv /\ [Next]_vars => CardInv'
<1> SUFFICES ASSUME TypeOK, CardInv, GW!CallInv, [Next]_vars, NEW c \in Cards
             PROVE  CardOK(c)'
  BY DEF CardInv
<1> CardOK(c)
  BY DEF CardInv
<1>t. /\ GW!TypeOK
      /\ phase \in [Cards -> {"idle", "waiting", "settling", "wiring", "shown"}]
      /\ task \in [Cards -> [Voters -> {"none", "queued", "running", "finished", "cancelled"}]]
      /\ answer \in [Cards -> [Voters -> Votes \cup {"none"}]]
      /\ counted \in [Cards -> [Voters -> Votes \cup {"none"}]]
      /\ headline \in [Cards -> {"none", "APPROVED, executed", "APPROVED, blocked", "REJECTED, blocked"}]
  BY DEF TypeOK
<1>g. /\ stage \in [Cards -> GW!Stages]
      /\ req \in [Cards -> GW!Requests \cup {NoRequest}]
      /\ reply \in [Cards -> GW!Replies \cup {GW!NoReply}]
  BY <1>t DEF GW!TypeOK
<1>1. CASE UNCHANGED vars
  BY <1>1, UntouchedCard DEF vars, cardVars, gatewayVars
<1>2. CASE GatewayWorks
  <2>1. UNCHANGED cardVars
    BY <1>2 DEF GatewayWorks
  <2>2. reply[c] = "violation" => stage[c] = "replied"
    BY <1>g DEF GW!CallInv, GW!NoReply
  <2>3. CASE GW!OpaChanges
    BY <2>1, <2>3, UntouchedCard DEF GW!OpaChanges, cardVars
  <2>4. ASSUME NEW d \in Cards, GW!GatewayStep(d) \/ GW!Drop(d)
        PROVE  CardOK(c)'
    BY <1>t, <2>1, <2>2, <2>4, WhileGatewayWorks, UntouchedCard DEF cardVars
  <2>5. QED
    BY <1>2, <2>3, <2>4 DEF GatewayWorks
<1>3. ASSUME NEW d \in Cards, NEW names \in SUBSET Voters, Open(d, names)
      PROVE  CardOK(c)'
  <2>1. CASE d = c
    BY <1>3, <1>t, <2>1 DEF Open, Enter, CardOK, gatewayVars
  <2>2. CASE d # c
    BY <1>3, <1>t, <2>2, UntouchedCard DEF Open, Enter, gatewayVars
  <2>3. QED
    BY <2>1, <2>2
<1>4. ASSUME NEW d \in Cards, NEW v \in Voters, ThreadTakes(d, v) \/ ThreadReturns(d, v)
      PROVE  CardOK(c)'
  \* A thread has something to do only before the wire goes out.
  <2>1. /\ task[d][v] \in {"queued", "running"}
        /\ task' = [task EXCEPT ![d][v] = IF @ = "queued" THEN "running" ELSE "finished"]
        /\ UNCHANGED <<gatewayVars, phase, counted, headline>>
    BY <1>4, <1>t DEF ThreadTakes, ThreadReturns
  <2>2. \/ answer' = answer /\ task[d][v] = "queued"
        \/ \E vote \in Votes : answer' = [answer EXCEPT ![d][v] = vote] /\ task[d][v] = "running"
    BY <1>4 DEF ThreadTakes, ThreadReturns
  <2>3. CASE d = c
    <3>1. phase[c] \in {"waiting", "settling"}
      BY <1>t, <2>1, <2>3 DEF CardOK
    <3>2. stage[c] = "idle" /\ headline[c] \notin {"APPROVED, blocked", "REJECTED, blocked"}
      BY <3>1 DEF CardOK
    <3>3. /\ counted[c][v] \in {"none", "abstain"}
          /\ task[c][v] = "queued" => counted[c][v] = "none"
      BY <2>1, <2>3 DEF CardOK
    <3>4. /\ task'[c][v] = IF task[c][v] = "queued" THEN "running" ELSE "finished"
          /\ task[c][v] # "queued" => answer'[c][v] # "none"
          /\ \A w \in Voters \ {v} : task'[c][w] = task[c][w] /\ answer'[c][w] = answer[c][w]
      <4>1. /\ task'[c][v] = IF task[c][v] = "queued" THEN "running" ELSE "finished"
            /\ \A w \in Voters \ {v} : task'[c][w] = task[c][w]
        BY <1>t, <2>1, <2>3
      <4>2. CASE answer' = answer /\ task[c][v] = "queued"
        BY <4>1, <4>2
      <4>3. ASSUME NEW vote \in Votes,
                   answer' = [answer EXCEPT ![c][v] = vote] /\ task[c][v] = "running"
            PROVE  /\ answer'[c][v] # "none"
                   /\ \A w \in Voters \ {v} : answer'[c][w] = answer[c][w]
        BY <1>t, <4>3 DEF Votes
      <4>4. QED
        BY <2>2, <2>3, <4>1, <4>2, <4>3
    <3>5. /\ phase'[c] = phase[c] /\ counted'[c] = counted[c] /\ headline'[c] = headline[c]
          /\ stage'[c] = stage[c]
      BY <2>1 DEF gatewayVars
    <3>6. QED
      BY <3>1, <3>2, <3>3, <3>4, <3>5 DEF CardOK
  <2>4. CASE d # c
    BY <1>t, <2>1, <2>2, <2>4, UntouchedCard DEF gatewayVars
  <2>5. QED
    BY <2>3, <2>4
<1>5. ASSUME NEW d \in Cards, Collect(d)
      PROVE  CardOK(c)'
  <2>1. CASE d = c
    <3>1. /\ phase[c] = "waiting" /\ phase'[c] = "settling"
          /\ counted'[c] = [v \in Voters |-> IF task[c][v] = "finished" THEN answer[c][v] ELSE "none"]
      BY <1>5, <1>t, <2>1 DEF Collect, Enter
    <3>2. UNCHANGED <<stage, reply, task, answer, headline>>
      BY <1>5 DEF Collect, gatewayVars
    <3>3. stage[c] = "idle" /\ headline[c] \notin {"APPROVED, blocked", "REJECTED, blocked"}
      BY <3>1 DEF CardOK
    <3>4. \A v \in Voters : counted'[c][v] = IF task[c][v] = "finished" THEN answer[c][v] ELSE "none"
      BY <3>1
    <3>5. \A v \in Voters : task[c][v] = "finished" => answer[c][v] # "none"
      BY DEF CardOK
    <3>6. QED
      BY <3>1, <3>2, <3>3, <3>4, <3>5 DEF CardOK
  <2>2. CASE d # c
    BY <1>5, <1>t, <2>2, UntouchedCard DEF Collect, Enter, gatewayVars
  <2>3. QED
    BY <2>1, <2>2
<1>6. ASSUME NEW d \in Cards, NEW v \in Voters, Abstain(d, v)
      PROVE  CardOK(c)'
  <2>1. CASE d = c
    <3>1. phase[c] = "settling" /\ task[c][v] # "none" /\ counted[c][v] = "none"
      BY <1>6, <2>1 DEF Abstain, Asked
    <3>2. UNCHANGED <<stage, reply, phase, answer, headline>>
      BY <1>6 DEF Abstain, gatewayVars
    <3>3. stage[c] = "idle" /\ headline[c] \notin {"APPROVED, blocked", "REJECTED, blocked"}
      BY <3>1 DEF CardOK
    <3>4. /\ counted'[c][v] = "abstain"
          /\ \A w \in Voters \ {v} : counted'[c][w] = counted[c][w]
      BY <1>6, <1>t, <2>1 DEF Abstain
    <3>5. /\ task'[c][v] = IF task[c][v] = "queued" THEN "cancelled" ELSE task[c][v]
          /\ \A w \in Voters \ {v} : task'[c][w] = task[c][w]
      BY <1>6, <1>t, <2>1 DEF Abstain
    <3>6. ASSUME NEW w \in Voters
          PROVE  /\ task'[c][w] = "finished" => answer[c][w] # "none"
                 /\ counted'[c][w] # "none" =>
                      /\ task'[c][w] \notin {"none", "queued"}
                      /\ \/ counted'[c][w] = "abstain"
                         \/ task'[c][w] = "finished" /\ counted'[c][w] = answer[c][w]
      <4>1. CASE w = v
        BY <3>1, <3>4, <3>5, <4>1 DEF CardOK
      <4>2. CASE w # v
        <5>1. task'[c][w] = task[c][w] /\ counted'[c][w] = counted[c][w]
          BY <3>4, <3>5, <4>2
        <5>2. QED
          BY <5>1 DEF CardOK
      <4>3. QED
        BY <4>1, <4>2
    <3>7. phase'[c] = "settling" /\ stage'[c] = "idle" /\ headline'[c] = headline[c] /\ answer' = answer
      BY <3>1, <3>2, <3>3
    <3>8. QED
      BY <3>3, <3>6, <3>7 DEF CardOK
  <2>2. CASE d # c
    BY <1>6, <1>t, <2>2, UntouchedCard DEF Abstain, gatewayVars
  <2>3. QED
    BY <2>1, <2>2
<1>7. ASSUME NEW d \in Cards, Wire(d)
      PROVE  CardOK(c)'
  <2>1. /\ Enter(d, "settling", "wiring")
        /\ \A v \in Voters : task[d][v] # "none" => counted[d][v] # "none"
        /\ \A v \in Voters : task[d][v] # "running"
        /\ GW!Submit(d, Request(d))
        /\ UNCHANGED <<task, answer, counted, headline>>
    BY <1>7 DEF Wire, Asked, Having
  <2>2. Request(c)' = Request(c)
    BY <2>1, SameCountSameDecision
  <2>3. CASE d = c
    BY <1>t, <1>g, <2>1, <2>2, <2>3 DEF CardOK, Enter, GW!Submit, GW!Go
  <2>4. CASE d # c
    BY <1>t, <1>g, <2>1, <2>4, UntouchedCard DEF Enter, GW!Submit, GW!Go
  <2>5. QED
    BY <2>3, <2>4
<1>8. ASSUME NEW d \in Cards, WireAnswered(d) \/ WireFails(d)
      PROVE  CardOK(c)'
  <2>1. /\ Enter(d, "wiring", "shown")
        /\ UNCHANGED <<task, answer, counted, stage, req, reply>>
        /\ \E h : /\ headline' = [headline EXCEPT ![d] = h]
                  /\ h = "APPROVED, executed" \/ (h = Blocked(d) /\ reply[d] = "violation")
    BY <1>8 DEF WireAnswered, WireFails, Headline, GW!Receive, GW!GiveUp
  <2>2. Request(c)' = Request(c) /\ Blocked(c)' = Blocked(c)
    BY <2>1, SameCountSameDecision
  <2>3. CASE d = c
    BY <1>t, <2>1, <2>2, <2>3 DEF CardOK, Enter
  <2>4. CASE d # c
    BY <1>t, <2>1, <2>4, UntouchedCard DEF Enter
  <2>5. QED
    BY <2>3, <2>4
<1>9. QED
  BY <1>1, <1>2, <1>3, <1>4, <1>5, <1>6, <1>7, <1>8 DEF Next, Pool, OwnStep

Inv == TypeOK /\ CardInv /\ GW!CallInv

\* The three are inductive together: what a card's headline says is true because
\* the gateway does not take an answer back.
LEMMA Invariance == Spec => []Inv
<1>1. Init => Inv
  <2>1. ASSUME Init
        PROVE  TypeOK
    BY <2>1 DEF Init, EachVoter, TypeOK, GW!Init, GW!TypeOK, GW!Stages
  <2>2. ASSUME Init
        PROVE  CardInv /\ GW!CallInv
    BY <2>2 DEF Init, EachVoter, CardInv, CardOK, GW!Init, GW!CallInv, GW!NoReply
  <2>3. QED
    BY <2>1, <2>2 DEF Inv
<1>2. Inv /\ [Next]_vars => Inv'
  BY TypeStep, CardInvStep, GatewayKept DEF Inv, TypeOK
<1>3. QED
  BY <1>1, <1>2, PTL DEF Spec

\* Every variable of the composition keeps its type.
THEOREM TypeCorrect == Spec => []TypeOK
<1>1. QED
  BY Invariance, PTL DEF Inv

----------------------------------------------------------------------------
(* The properties of the cards. *)

\* No future is waiting or running when the wire goes out, for a pool of any
\* width: leaving its block (app.py:374) waits for all of them.
THEOREM PoolIsDrained == Spec => []NoStragglers
<1>1. CardInv => NoStragglers
  <2> SUFFICES ASSUME CardInv, NEW c \in Cards, stage[c] # "idle"
               PROVE  Having(c, "queued") \cup Having(c, "running") = {}
    BY DEF NoStragglers
  <2>1. \A v \in Voters : task[c][v] \notin {"queued", "running"}
    BY DEF CardInv, CardOK
  <2>2. QED
    BY <2>1 DEF Having
<1>2. QED
  BY <1>1, Invariance, PTL DEF Inv

\* A wire rests on votes that were given, each counted once, and on abstentions
\* of those who were late; the deadline never makes up a vote.
THEOREM VotesCounted == Spec => []CountedAsGiven
<1>1. CardInv => CountedAsGiven
  <2> SUFFICES ASSUME CardInv, NEW c \in Cards, stage[c] # "idle", NEW v \in Voters
               PROVE  counted[c][v] \in
                        IF v \in Asked(c) THEN {answer[c][v], "abstain"} \ {"none"} ELSE {"none"}
    BY DEF CountedAsGiven
  <2> CardOK(c)
    BY DEF CardInv
  <2>1. CASE v \in Asked(c)
    <3>1. counted[c][v] # "none"
      BY <2>1 DEF CardOK, Asked
    <3>2. counted[c][v] \in {answer[c][v], "abstain"}
      BY <3>1 DEF CardOK
    <3>3. QED
      BY <2>1, <3>1, <3>2
  <2>2. CASE v \notin Asked(c)
    <3>1. counted[c][v] = "none"
      BY <2>2 DEF CardOK, Asked
    <3>2. QED
      BY <2>2, <3>1
  <2>3. QED
    BY <2>1, <2>2
<1>2. QED
  BY <1>1, Invariance, PTL DEF Inv

\* A card that says blocked moved no money and never will, and names the side
\* of the quorum that the wire carried.
THEOREM BlocksAreTrue == Spec => []BlockedHeadlineIsTrue
<1>1. Inv => BlockedHeadlineIsTrue
  <2> SUFFICES ASSUME Inv, NEW c \in Cards,
                      headline[c] \in {"APPROVED, blocked", "REJECTED, blocked"}
               PROVE  /\ c \notin executed
                      /\ stage[c] \notin GW!InFlight
                      /\ req[c].approval <=> headline[c] = "APPROVED, blocked"
    BY DEF BlockedHeadlineIsTrue
  <2>1. /\ phase[c] = "shown" /\ reply[c] = "violation"
        /\ headline[c] = Blocked(c)
        /\ req[c] = Request(c)
    BY DEF Inv, CardInv, CardOK
  <2>2. c \notin executed /\ stage[c] \notin GW!InFlight
    BY <2>1 DEF Inv, GW!CallInv, GW!NoReply, GW!InFlight
  <2>3. req[c].approval = quorum_approved(c)
    BY <2>1, RequestCarries
  <2>4. quorum_approved(c) <=> headline[c] = "APPROVED, blocked"
    BY <2>1 DEF Blocked
  <2>5. QED
    BY <2>2, <2>3, <2>4
<1>2. QED
  BY <1>1, Invariance, PTL

----------------------------------------------------------------------------
(* The composition implements QuorumPayment. *)

\* A decision stands as long as no wire goes out and the counts of the cards
\* whose wire is out stay the same.
LEMMA DecisionStands ==
  ASSUME \A c \in Cards : stage'[c] = "idle" <=> stage[c] = "idle",
         \A c \in Cards : stage[c] # "idle" => counted'[c] = counted[c]
  PROVE  decision' = decision
<1> DEFINE D(c) == IF stage[c] = "idle" THEN "open"
                   ELSE IF Count(c, "approve") > Count(c, "reject") THEN "approved"
                   ELSE "refused"
<1>1. ASSUME NEW c \in Cards
      PROVE  D(c)' = D(c)
  <2>1. CASE stage[c] = "idle"
    BY <2>1
  <2>2. CASE stage[c] # "idle"
    BY <2>2, SameCountSameDecision
  <2>3. QED
    BY <2>1, <2>2
<1> HIDE DEF D
<1>2. [c \in Cards |-> D(c)]' = [c \in Cards |-> D(c)]
  BY <1>1
<1>3. QED
  BY <1>2 DEF decision, D

\* The amount of a card stands while the card is not opened.
LEMMA AmountStands ==
  ASSUME \A c \in Cards : phase'[c] = "idle" <=> phase[c] = "idle"
  PROVE  amount' = amount
BY DEF amount

\* Opening a card puts the expense to the room.
LEMMA OpenProposes ==
  ASSUME Inv, NEW c \in Cards, NEW names \in SUBSET Voters, Open(c, names)
  PROVE  QP!Propose(c, QUORUM_AMOUNT)
<1>1. /\ phase[c] = "idle" /\ phase' = [phase EXCEPT ![c] = "waiting"]
      /\ UNCHANGED <<stage, counted, executed>>
      /\ DOMAIN phase = Cards
  BY DEF Open, Enter, gatewayVars, Inv, TypeOK
<1>2. amount[c] = NoAmount
  BY <1>1 DEF amount
<1>3. amount' = [amount EXCEPT ![c] = QUORUM_AMOUNT]
  BY <1>1 DEF amount
<1>4. decision' = decision
  BY <1>1, DecisionStands
<1>5. QED
  BY <1>1, <1>2, <1>3, <1>4 DEF QP!Propose

\* Going out with its wire decides a card.
LEMMA WireDecides ==
  ASSUME Inv, NEW c \in Cards, Wire(c)
  PROVE  QP!Decide(c)
<1>1. /\ phase[c] = "settling" /\ phase' = [phase EXCEPT ![c] = "wiring"]
      /\ stage[c] = "idle" /\ stage' = [stage EXCEPT ![c] = "received"]
      /\ UNCHANGED <<counted, executed>>
      /\ DOMAIN stage = Cards /\ DOMAIN phase = Cards
  BY DEF Wire, Enter, GW!Submit, GW!Go, Inv, TypeOK, GW!TypeOK
<1>2. amount[c] # NoAmount
  BY <1>1, WireConstants DEF amount
<1>3. amount' = amount
  BY <1>1, AmountStands
<1>4. decision[c] = "open"
  BY <1>1 DEF decision
<1> DEFINE d == IF quorum_approved(c) THEN "approved" ELSE "refused"
<1>5. ASSUME NEW e \in Cards
      PROVE  decision'[e] = [decision EXCEPT ![c] = d][e]
  <2>1. /\ quorum_approved(e)' = quorum_approved(e)
        /\ \A vote : Count(e, vote)' = Count(e, vote)
    BY <1>1, SameCountSameDecision
  <2>2. CASE e = c
    BY <1>1, <2>1, <2>2 DEF decision, quorum_approved
  <2>3. CASE e # c
    BY <1>1, <2>1, <2>3 DEF decision
  <2>4. QED
    BY <2>2, <2>3
<1> HIDE DEF d
<1>6. decision' = [decision EXCEPT ![c] = d]
  <2>1. decision' = [e \in Cards |-> decision'[e]] /\ decision = [e \in Cards |-> decision[e]]
    BY DEF decision
  <2>2. QED
    BY <1>5, <2>1
<1>7. d \in {"approved", "refused"}
  BY DEF d
<1>8. QED
  BY <1>1, <1>2, <1>3, <1>4, <1>6, <1>7 DEF QP!Decide

\* A tool that runs pays what the card's decision allows: $50,000 is in the
\* band that needs an approval.
LEMMA BackendPays ==
  ASSUME Inv, NEW c \in Cards, stage[c] = "forward"
  PROVE  decision[c] # "open" /\ QP!Payable(c)
<1>1. GW!allow(req[c]) /\ req[c] = Request(c) /\ phase[c] # "idle"
  BY DEF Inv, GW!CallInv, CardInv, CardOK
<1>2. req[c].tool = WireTool /\ req[c].amount = QUORUM_AMOUNT /\ req[c].approval = quorum_approved(c)
  BY <1>1, RequestCarries
<1>3. /\ QUORUM_AMOUNT # NoAmount
      /\ QUORUM_AMOUNT >= GW!AutoApproveLimit
      /\ QUORUM_AMOUNT < GW!HardCeiling
  BY WireConstants DEF QUORUM_AMOUNT, GW!HardCeiling, GW!AutoApproveLimit, GW!Dollar
<1>4. quorum_approved(c)
  BY <1>1, <1>2, <1>3, Zenon DEF GW!allow, GW!needs_approval, GW!IsWireCall, GW!HasAmount
<1>5. decision[c] = "approved"
  BY <1>4 DEF decision, quorum_approved
<1>6. amount[c] < GW!HardCeiling
  BY <1>1, <1>3 DEF amount
<1>7. QED
  BY <1>5, <1>6 DEF QP!Payable

\* Every step of the composition is a step of QuorumPayment or a stutter.
LEMMA StepRefines == Inv /\ [Next]_vars => [QP!Next]_(QP!vars)
<1> SUFFICES ASSUME Inv, [Next]_vars
             PROVE  [QP!Next]_(QP!vars)
  OBVIOUS
<1>t. /\ GW!TypeOK
      /\ DOMAIN stage = Cards /\ DOMAIN counted = Cards /\ DOMAIN phase = Cards
      /\ \A c \in Cards : CardOK(c)
  BY DEF Inv, TypeOK, GW!TypeOK, CardInv
<1>1. ASSUME UNCHANGED <<stage, counted, executed>>,
             \A c \in Cards : phase'[c] = "idle" <=> phase[c] = "idle"
      PROVE  UNCHANGED QP!vars
  BY <1>1, DecisionStands, AmountStands DEF QP!vars
<1>2. CASE UNCHANGED vars
  BY <1>1, <1>2 DEF vars, cardVars, gatewayVars
<1>3. CASE GatewayWorks
  <2>1. UNCHANGED <<phase, counted>>
    BY <1>3 DEF GatewayWorks, cardVars
  <2>2. CASE GW!OpaChanges
    BY <1>1, <2>1, <2>2 DEF GW!OpaChanges
  <2>3. ASSUME NEW c \in Cards, GW!GatewayStep(c) \/ GW!Drop(c)
        PROVE  [QP!Next]_(QP!vars)
    <3>1. decision' = decision /\ amount' = amount
      BY <1>t, <2>1, <2>3, WhileGatewayWorks, DecisionStands, AmountStands
    <3>2. CASE executed' = executed
      BY <3>1, <3>2 DEF QP!vars
    <3>3. CASE stage[c] = "forward" /\ executed' = executed \cup {c}
      BY <3>1, <3>3, BackendPays DEF QP!Next, QP!Pay
    <3>4. QED
      BY <1>t, <2>3, <3>2, <3>3, WhileGatewayWorks
  <2>4. QED
    BY <1>3, <2>2, <2>3 DEF GatewayWorks
<1>4. ASSUME NEW c \in Cards, NEW names \in SUBSET Voters, Open(c, names)
      PROVE  [QP!Next]_(QP!vars)
  BY <1>4, OpenProposes DEF QP!Next
<1>5. ASSUME NEW c \in Cards, NEW v \in Voters, ThreadTakes(c, v) \/ ThreadReturns(c, v)
      PROVE  [QP!Next]_(QP!vars)
  BY <1>1, <1>5 DEF ThreadTakes, ThreadReturns, gatewayVars
<1>6. ASSUME NEW c \in Cards, Collect(c) \/ \E v \in Voters : Abstain(c, v)
      PROVE  [QP!Next]_(QP!vars)
  \* What is counted is not decided before the wire goes out.
  <2>1. /\ phase[c] \in {"waiting", "settling"}
        /\ \A d \in Cards : phase'[d] = "idle" <=> phase[d] = "idle"
        /\ \A d \in Cards \ {c} : counted'[d] = counted[d]
        /\ UNCHANGED <<stage, executed>>
    <3>1. CASE Collect(c)
      BY <3>1, <1>t DEF Collect, Enter, gatewayVars
    <3>2. CASE \E v \in Voters : Abstain(c, v)
      BY <3>2, <1>t DEF Abstain, gatewayVars
    <3>3. QED
      BY <1>6, <3>1, <3>2
  <2>2. stage[c] = "idle"
    BY <1>t, <2>1 DEF CardOK
  <2>3. decision' = decision
    BY <1>t, <2>1, <2>2, DecisionStands
  <2>4. amount' = amount
    BY <1>t, <2>1, AmountStands
  <2>5. QED
    BY <2>1, <2>3, <2>4 DEF QP!vars
<1>7. ASSUME NEW c \in Cards, Wire(c)
      PROVE  [QP!Next]_(QP!vars)
  BY <1>7, WireDecides DEF QP!Next
<1>8. ASSUME NEW c \in Cards, WireAnswered(c) \/ WireFails(c)
      PROVE  [QP!Next]_(QP!vars)
  BY <1>1, <1>8, <1>t DEF WireAnswered, WireFails, Enter, GW!Receive, GW!GiveUp
<1>9. QED
  BY <1>2, <1>3, <1>4, <1>5, <1>6, <1>7, <1>8 DEF Next, Pool, OwnStep

\* The Companion's pool, its deadline and the gateway together keep the promise
\* that the chair keeps: an expense is decided once and paid only as its tier
\* and the decision allow, whatever votes come late.
THEOREM KeepsThePromise == Spec => ImplementsQuorumPayment
<1>1. Init => QP!Init
  BY DEF Init, GW!Init, QP!Init, decision, amount
<1>2. QED
  BY <1>1, StepRefines, Invariance, PTL DEF Spec, ImplementsQuorumPayment, QP!Spec
=============================================================================
