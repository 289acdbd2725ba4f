--------------------------- MODULE EvidenceProofs ---------------------------
(***************************************************************************)
(* Proofs about the scenario cards and their evidence, for any number of   *)
(* runs, any cards on the dashboard, any length of the log that is read,   *)
(* and whatever other clients and the operator ask.  A run is a client of  *)
(* the gateway, whose invariants are cited from GatewayProofs.             *)
(***************************************************************************)
EXTENDS Evidence, WellFoundedInduction, TLAPS

GP == INSTANCE GatewayProofs WITH
  Calls <- Runs, WireNamed <- {Wire, Payments}, Amounts <- CardAmounts

----------------------------------------------------------------------------
(* The inductive invariant. *)

\* The inductive invariant behind the properties: a run asks for what its card shows, and
\* its verdict is one of that card; a line of the log repeats the policy, and
\* its text the question; and what is explained was asked for.
RunOK(r) ==
  /\ client[r] # "idle" => stage[r] # "idle"
  /\ stage[r] # "idle" => scenario[r] \in Shown /\ req[r] = RequestOf(scenario[r])
  /\ verdict[r] # None => stage[r] # "idle"
  /\ verdict[r] = "BLOCKED" => scenario[r] \in {"policy", "policy_ceiling"}
  /\ verdict[r] = "EXECUTED (Rust)" => reply[r] = "ok"

LineOK(e) ==
  /\ e.results \subseteq {GW!allow(e.q)}
  /\ e.q.approval \in BOOLEAN
  /\ e.text \in Writings(e.q)
  /\ e.by # "client" /\ e.text.approval = "True" => e.q.approval

EvidenceInv ==
  /\ \A r \in Runs : RunOK(r)
  /\ DOMAIN LAST = Shown /\ \A s \in Shown : LAST[s] \in Runs \cup {None}
  /\ \A k \in DOMAIN log : LineOK(log[k])
  /\ DOMAIN evidence = DOMAIN NoEvidence
  /\ evidence.at # "none" => evidence.run \in Runs /\ stage[evidence.run] # "idle"
  /\ evidence.at # "read" => evidence.decision = None
  /\ DecisionFitsTheRequest

----------------------------------------------------------------------------
(* The cards as clients of the gateway. *)

\* GatewayProofs speaks of the same gateway as the cards do.
LEMMA SameGateway ==
  /\ GW!Init <=> GP!Init
  /\ [GW!Next]_(GW!vars) <=> [GP!Next]_(GP!vars)
  /\ (GW!TypeOK <=> GP!TypeOK) /\ (GW!TypeOK' <=> GP!TypeOK')
  /\ (GW!CallInv <=> GP!CallInv) /\ (GW!CallInv' <=> GP!CallInv')
  /\ \A c \in Runs : GW!GatewayStep(c) \/ GW!Drop(c) => GP!GatewayStep(c) \/ GP!Drop(c)
<1>2. (GW!TypeOK <=> GP!TypeOK) /\ (GW!TypeOK' <=> GP!TypeOK')
  <2>1. GW!Requests = GP!Requests /\ GW!NoReply = GP!NoReply
    BY DEF GW!Requests, GP!Requests, GW!NoReply, GP!NoReply
  <2>2. GW!Stages = GP!Stages /\ GW!Replies = GP!Replies
    BY DEF GW!Stages, GP!Stages, GW!Replies, GP!Replies
  <2>3. QED
    BY <2>1, <2>2, Zenon DEF GW!TypeOK, GP!TypeOK
<1> USE DEF GW!Requests, GP!Requests, GW!IsWireCall, GP!IsWireCall, GW!HasAmount,
            GP!HasAmount, GW!Dollar, GP!Dollar, GW!AutoApproveLimit,
            GP!AutoApproveLimit, GW!HardCeiling, GP!HardCeiling, GW!over_ceiling,
            GP!over_ceiling, GW!needs_approval, GP!needs_approval, GW!allow,
            GP!allow, GW!NoReply, GP!NoReply, GW!Stages, GP!Stages, GW!Replies,
            GP!Replies, GW!InFlight, GP!InFlight
<1>1. GW!Init <=> GP!Init
  BY DEF GW!Init, GP!Init
<1>3. (GW!CallInv <=> GP!CallInv) /\ (GW!CallInv' <=> GP!CallInv')
  <2>1. /\ GW!Requests = GP!Requests /\ GW!NoReply = GP!NoReply
        /\ \A q : GW!allow(q) <=> GP!allow(q)
    OBVIOUS
  <2>2. QED
    BY <2>1 DEF GW!CallInv, GP!CallInv
<1>4. ASSUME NEW c \in Runs
      PROVE  GW!GatewayStep(c) <=> GP!GatewayStep(c)
  BY DEF GW!GatewayStep, GP!GatewayStep, GW!Go, GP!Go, GW!Answer, GP!Answer,
         GW!Refuse, GP!Refuse, GW!EnterPreHook, GP!EnterPreHook, GW!Verdict,
         GP!Verdict, GW!OpaAllows, GP!OpaAllows, GW!OpaDenies, GP!OpaDenies,
         GW!OpaFails, GP!OpaFails, GW!BackendRuns, GP!BackendRuns,
         GW!BackendFails, GP!BackendFails, GW!PostHook, GP!PostHook,
         GW!ResultLost, GP!ResultLost
<1>5. ASSUME NEW c \in Runs
      PROVE  (GW!ClientStep(c) <=> GP!ClientStep(c)) /\ (GW!Drop(c) <=> GP!Drop(c))
  BY DEF GW!ClientStep, GP!ClientStep, GW!Receive, GP!Receive, GW!GiveUp,
         GP!GiveUp, GW!Drop, GP!Drop
<1>6. GW!OpaChanges <=> GP!OpaChanges
  BY DEF GW!OpaChanges, GP!OpaChanges
<1>7. ASSUME NEW c \in Runs, NEW q
      PROVE  GW!Submit(c, q) <=> GP!Submit(c, q)
  BY DEF GW!Submit, GP!Submit, GW!Go, GP!Go
<1>8. GW!Next <=> GP!Next
  BY <1>4, <1>5, <1>6, <1>7 DEF GW!Next, GP!Next, GW!Serve, GP!Serve
<1>9. GW!vars = GP!vars /\ (GW!vars' = GW!vars <=> GP!vars' = GP!vars)
  BY DEF GW!vars, GP!vars
<1>10. QED
  BY <1>1, <1>2, <1>3, <1>4, <1>5, <1>8, <1>9

\* What GatewayProofs assumes of its constants.
LEMMA CallConstants ==
  /\ {Wire, Payments} \subseteq Tools
  /\ CardAmounts \subseteq Nat
  /\ NoAmount \notin CardAmounts
BY EvidenceAssumption, SMTT(30) DEF Tools, CardAmounts

\* GP!GatewayFrame, of the cards' instance of the gateway.
LEMMA WhileGatewayWorks ==
  ASSUME GW!TypeOK, NEW c \in Runs, GW!GatewayStep(c) \/ GW!Drop(c)
  PROVE  /\ req' = req /\ client' = client
         /\ \A d \in Runs : stage'[d] = "idle" <=> stage[d] = "idle"
         /\ \A d \in Runs : stage[d] = "replied" => reply'[d] = reply[d]
         /\ \/ executed' = executed
            \/ stage[c] = "forward" /\ executed' = executed \cup {c}
<1>1. GP!TypeOK /\ (GP!GatewayStep(c) \/ GP!Drop(c))
  BY SameGateway
<1>2. QED
  BY <1>1, CallConstants, GP!GatewayFrame

\* Every card asks for a call the gateway knows.
LEMMA RequestType ==
  ASSUME NEW s \in Shown
  PROVE  RequestOf(s) \in GW!Requests
<1>1. s \in Scenarios
  BY EvidenceAssumption
<1>2. CASE s = "baseline"
  <2>1. RequestOf(s) = Ask(Wire, 500000, FALSE)
    BY <1>2, SMTT(30) DEF RequestOf
  <2>2. QED
    BY <2>1, SMTT(30) DEF Ask, GW!ByArguments, GW!Requests, Tools, CardAmounts
<1>3. CASE s = "policy"
  <2>1. RequestOf(s) = Ask(Wire, 5000000, FALSE)
    BY <1>3, SMTT(30) DEF RequestOf
  <2>2. QED
    BY <2>1, SMTT(30) DEF Ask, GW!ByArguments, GW!Requests, Tools, CardAmounts
<1>4. CASE s = "policy_approved"
  <2>1. RequestOf(s) = Ask(Wire, 5000000, TRUE)
    BY <1>4, SMTT(30) DEF RequestOf
  <2>2. QED
    BY <2>1, SMTT(30) DEF Ask, GW!ByArguments, GW!Requests, Tools, CardAmounts
<1>5. CASE s = "policy_ceiling"
  <2>1. RequestOf(s) = Ask(Wire, 15000000, TRUE)
    BY <1>5, SMTT(30) DEF RequestOf
  <2>2. QED
    BY <2>1, SMTT(30) DEF Ask, GW!ByArguments, GW!Requests, Tools, CardAmounts
<1>6. CASE s \in {"pii", "injection"}
  <2>1. RequestOf(s) = Ask(Receipt, NoAmount, FALSE)
    <3>1. CASE s = "pii"
      BY <3>1, SMTT(30) DEF RequestOf
    <3>2. CASE s = "injection"
      BY <3>2, SMTT(30) DEF RequestOf
    <3>3. QED
      BY <1>6, <3>1, <3>2
  <2>2. QED
    BY <2>1, SMTT(30) DEF Ask, GW!ByArguments, GW!Requests, Tools, CardAmounts
<1>7. CASE s = "a2a"
  <2>1. RequestOf(s) = Message
    BY <1>7, SMTT(30) DEF RequestOf
  <2>2. QED
    BY <2>1, SMTT(30) DEF Message, GW!ByMessage, GW!Requests, Tools, CardAmounts
<1>8. QED
  BY <1>1, <1>2, <1>3, <1>4, <1>5, <1>6, <1>7 DEF Scenarios

\* Every step of the composition is a step of the gateway or leaves it alone.
LEMMA StepIsGatewayStep == [Next]_vars => [GW!Next]_(GW!vars)
<1> SUFFICES ASSUME [Next]_vars
             PROVE  [GW!Next]_(GW!vars)
  OBVIOUS
<1>1. ASSUME UNCHANGED gateway
      PROVE  UNCHANGED GW!vars
  BY <1>1 DEF gateway, GW!vars
<1>2. CASE GatewayWorks
  BY <1>2 DEF GatewayWorks, GW!Next, GW!Serve, GW!GatewayStep
<1>3. ASSUME NEW r \in Runs, NEW s \in Shown, Run(r, s)
      PROVE  GW!Next
  BY <1>3, RequestType DEF Run, GW!Next
<1>4. ASSUME NEW r \in Runs, RunAnswered(r) \/ RunFails(r)
      PROVE  GW!Next
  BY <1>4 DEF RunAnswered, RunFails, GW!Next, GW!Serve, GW!ClientStep
<1>5. CASE OpaChanges
  BY <1>5 DEF OpaChanges, GW!Next, GW!Serve
<1>6. CASE ReadLog \/ \E s \in Shown : LoadEvidence(s)
  BY <1>1, <1>6 DEF ReadLog, LoadEvidence
<1>7. ASSUME NEW q, NEW writing, NEW who, OthersLog(q, writing, who)
      PROVE  UNCHANGED gateway
  BY <1>7 DEF OthersLog
<1>8. CASE UNCHANGED vars
  BY <1>1, <1>8 DEF vars
<1>9. QED
  BY <1>1, <1>2, <1>3, <1>4, <1>5, <1>6, <1>7, <1>8 DEF Next, OtherCall, evaluate_policy

\* The gateway's own invariants survive a step of the composition.
LEMMA GatewayKept ==
  GW!TypeOK /\ GW!CallInv /\ [Next]_vars => GW!TypeOK' /\ GW!CallInv'
<1> SUFFICES ASSUME GW!TypeOK, GW!CallInv, [Next]_vars
             PROVE  GW!TypeOK' /\ GW!CallInv'
  OBVIOUS
<1>1. GP!TypeOK /\ GP!CallInv /\ [GP!Next]_(GP!vars)
  BY SameGateway, StepIsGatewayStep
<1>2. GP!TypeOK' /\ GP!CallInv'
  BY <1>1, CallConstants, GP!TypeStep, GP!CallInvStep
<1>3. QED
  BY <1>2, SameGateway

----------------------------------------------------------------------------
(* The log. *)

\* A set of natural numbers has a least.
LEMMA LeastOfNaturals ==
  ASSUME NEW T, T \subseteq Nat, T # {}
  PROVE  \E x \in T : \A y \in T : x <= y
<1>1. OpToRel(<, Nat) = {ss \in Nat \X Nat : ss[1] < ss[2]}
  BY DEF OpToRel
<1>2. PICK x \in T : \A y \in T : ~(<<y, x>> \in OpToRel(<, Nat))
  BY NatLessThanWellFounded, WFMin
<1>3. \A y \in T : ~(y < x)
  BY <1>1, <1>2
<1>4. QED
  BY <1>3

\* Of some indices of a sequence there is a last.
LEMMA LastOfIndices ==
  ASSUME NEW n \in Nat, NEW I, I \subseteq 1..n, I # {}
  PROVE  Max(I) \in I
<1> DEFINE T == {n - i : i \in I}
<1>1. T # {}
  OBVIOUS
<1>2. T \subseteq Nat
  <2> SUFFICES ASSUME NEW i \in I
               PROVE  n - i \in Nat
    OBVIOUS
  <2>1. i \in 1..n
    OBVIOUS
  <2>2. QED
    BY <2>1
<1> HIDE DEF T
<1>3. PICK x \in T : \A y \in T : x <= y
  BY <1>1, <1>2, LeastOfNaturals
<1>4. PICK i \in I : x = n - i
  BY DEF T
<1>5. \A j \in I : i >= j
  <2> TAKE j \in I
  <2>1. n - i <= n - j
    BY <1>3, <1>4 DEF T
  <2>2. QED
    BY <2>1
<1>6. QED
  BY <1>5 DEF Max

\* The decision shown is a line of the log that is about the request.
LEMMA DecisionIsALine ==
  ASSUME log \in Seq(Lines), NEW q, opa_decision(q) # None
  PROVE  \E k \in DOMAIN log :
           opa_decision(q) = log[k] /\ log[k].q.tool = q.tool /\ SameArguments(q, log[k])
<1> DEFINE I == {k \in 1..Len(log) : log[k].q.tool = q.tool /\ SameArguments(q, log[k])}
           last == IF I # {} THEN Max(I) ELSE 0
<1>1. opa_decision(q) = IF last = 0 THEN None ELSE log[last]
  BY DEF opa_decision, SelectLastInSeq
<1>2. Len(log) \in Nat
  OBVIOUS
<1>3. I # {} => Max(I) \in I
  BY <1>2, LastOfIndices
<1>4. I # {} /\ opa_decision(q) = log[Max(I)]
  BY <1>1
<1>5. Max(I) \in I
  BY <1>3, <1>4
<1>6. /\ Max(I) \in DOMAIN log
      /\ log[Max(I)].q.tool = q.tool /\ SameArguments(q, log[Max(I)])
  BY <1>5
<1>7. QED
  BY <1>4, <1>6

\* A new line takes the place of the oldest, if there is no room.
LEMMA LoggedLines ==
  ASSUME log \in Seq(Lines), NEW e \in Lines
  PROVE  /\ Logged(e) \in Seq(Lines)
         /\ \A k \in DOMAIN Logged(e) :
              Logged(e)[k] = e \/ \E j \in DOMAIN log : Logged(e)[k] = log[j]
<1>1. CASE Len(log) < LogTail
  <2>1. Logged(e) = Append(log, e)
    BY <1>1 DEF Logged
  <2>2. QED
    BY <2>1
<1>2. CASE ~(Len(log) < LogTail)
  <2>1. Logged(e) = Append(Tail(log), e)
    BY <1>2 DEF Logged
  <2>2. log # <<>>
    BY <1>2, EvidenceAssumption
  <2>3. Tail(log) \in Seq(Lines) /\ \A k \in DOMAIN Tail(log) : Tail(log)[k] = log[k + 1] /\ k + 1 \in DOMAIN log
    BY <2>2
  <2>4. QED
    BY <2>1, <2>3
<1>3. QED
  BY <1>1, <1>2

\* The policy and the posture answer yes or no, and by tool, amount and approval
\* only.
LEMMA AllowIsDecided ==
  /\ \A q, money : GW!allow(q) \in BOOLEAN /\ GW!PostureAllows(q, money) \in BOOLEAN
  /\ \A p, q : p.tool = q.tool /\ p.amount = q.amount /\ p.approval = q.approval =>
       /\ GW!allow(p) = GW!allow(q)
       /\ \A money : GW!PostureAllows(p, money) = GW!PostureAllows(q, money)
BY DEF GW!allow, GW!over_ceiling, GW!needs_approval, GW!IsWireCall, GW!HasAmount, GW!PostureAllows

\* A card's arguments are written in one of the ways its question can be.
LEMMA CardTextIsAWriting ==
  ASSUME NEW q, q.approval \in BOOLEAN
  PROVE  CardText(q) \in Writings(q) /\ (CardText(q).approval = "True" => q.approval)
BY DEF CardText, Writings

\* So are an operator's, with the amount as a float.
LEMMA FloatTextIsAWriting ==
  ASSUME NEW q, q.approval \in BOOLEAN
  PROVE  /\ [CardText(q) EXCEPT !.amount = AsFloat] \in Writings(q)
         /\ [CardText(q) EXCEPT !.amount = AsFloat].approval = "True" => q.approval
BY DEF CardText, Writings

\* What OPA logs repeats the policy.
LEMMA LineIsOK ==
  ASSUME NEW q \in Questions, NEW writing \in Writings(q),
         NEW by \in Runs \cup {"client", "operator"},
         q.approval \in BOOLEAN, by # "client" /\ writing.approval = "True" => q.approval
  PROVE  Line(q, writing, by) \in Lines /\ LineOK(Line(q, writing, by))
<1>1. GW!allow(q) \in BOOLEAN
  BY AllowIsDecided
<1>2. writing \in UNION {Writings(p) : p \in Questions}
  OBVIOUS
<1>3. QED
  BY <1>1, <1>2 DEF Line, Lines, LineOK

\* The gateway's view of the policy and the stated posture agree on a request
\* that states its amount as an argument.
LEMMA PolicyIsPosture ==
  ASSUME NEW q \in GW!Requests, HasAmount(q)
  PROVE  GW!allow(q) = GW!PostureAllows(q, q.amount)
<1>1. q \in GP!Requests /\ GP!HasAmount(q)
  BY DEF GW!Requests, GP!Requests, HasAmount, GP!HasAmount
<1>2. GP!allow(q) <=> GP!PostureAllows(q, q.amount)
  BY <1>1, CallConstants, GP!PolicyIsPosture
<1>3. GW!allow(q) <=> GP!allow(q)
  BY DEF GW!allow, GP!allow, GW!over_ceiling, GP!over_ceiling, GW!needs_approval,
         GP!needs_approval, GW!IsWireCall, GP!IsWireCall, GW!HasAmount, GP!HasAmount,
         GW!Dollar, GP!Dollar, GW!AutoApproveLimit, GP!AutoApproveLimit,
         GW!HardCeiling, GP!HardCeiling
<1>4. GW!PostureAllows(q, q.amount) <=> GP!PostureAllows(q, q.amount)
  BY DEF GW!PostureAllows, GP!PostureAllows, GW!IsWireCall, GP!IsWireCall,
         GW!HasAmount, GP!HasAmount, GW!Dollar, GP!Dollar, GW!wire_limit, GP!wire_limit
<1>5. QED
  BY <1>2, <1>3, <1>4, AllowIsDecided

----------------------------------------------------------------------------
(* The cards. *)

\* What a card can say, and when it says what the properties are about.
LEMMA VerdictType ==
  ASSUME NEW s \in Shown, NEW answer
  PROVE  /\ VerdictOf(s, answer) \in Verdicts
         /\ VerdictOf(s, answer) = "BLOCKED" => s \in {"policy", "policy_ceiling"}
         /\ VerdictOf(s, answer) = "EXECUTED (Rust)" => answer = "ok"
BY EvidenceAssumption DEF VerdictOf, Verdicts, Scenarios

\* The policy allows neither call of the cards that say BLOCKED.
LEMMA BlockedIsForbidden ==
  ASSUME NEW s \in {"policy", "policy_ceiling"}
  PROVE  ~GW!allow(RequestOf(s))
<1>1. CASE s = "policy"
  <2>1. RequestOf(s) = Ask(Wire, 5000000, FALSE)
    BY <1>1, SMTT(30) DEF RequestOf
  <2>2. QED
    BY <2>1, EvidenceAssumption, SMTT(30)
    DEF Ask, GW!ByArguments, GW!allow, GW!over_ceiling, GW!needs_approval, GW!IsWireCall, GW!HasAmount,
        GW!AutoApproveLimit, GW!HardCeiling, GW!Dollar
<1>2. CASE s = "policy_ceiling"
  <2>1. RequestOf(s) = Ask(Wire, 15000000, TRUE)
    BY <1>2, SMTT(30) DEF RequestOf
  <2>2. QED
    BY <2>1, EvidenceAssumption, SMTT(30)
    DEF Ask, GW!ByArguments, GW!allow, GW!over_ceiling, GW!needs_approval, GW!IsWireCall, GW!HasAmount,
        GW!AutoApproveLimit, GW!HardCeiling, GW!Dollar
<1>3. QED
  BY <1>1, <1>2

\* A step starts a card, ends one, or leaves the cards, the requests, the
\* positions a card looks at and the answers alone.
LEMMA CardFrame ==
  ASSUME TypeOK, [Next]_vars
  PROVE  \/ \E r \in Runs, s \in Shown : Run(r, s)
         \/ \E r \in Runs : RunAnswered(r) \/ RunFails(r)
         \/ /\ UNCHANGED cards /\ req' = req /\ client' = client
            /\ \A d \in Runs : stage'[d] = "idle" <=> stage[d] = "idle"
            /\ \A d \in Runs : stage[d] = "replied" => reply'[d] = reply[d]
<1>1. CASE GatewayWorks
  <2>1. PICK c \in Runs : GW!GatewayStep(c) \/ GW!Drop(c)
    BY <1>1 DEF GatewayWorks, GW!GatewayStep
  <2>2. QED
    BY <1>1, <2>1, WhileGatewayWorks DEF TypeOK, GatewayWorks
<1>2. CASE OpaChanges
  BY <1>2 DEF OpaChanges, GW!OpaChanges
<1>3. CASE ReadLog \/ \E s \in Shown : LoadEvidence(s)
  BY <1>3 DEF ReadLog, LoadEvidence, gateway
<1>4. ASSUME NEW q, NEW writing, NEW who, OthersLog(q, writing, who)
      PROVE  UNCHANGED <<gateway, cards>>
  BY <1>4 DEF OthersLog
<1>5. CASE UNCHANGED vars
  BY <1>5 DEF vars, gateway
<1>6. ASSUME NEW o \in OtherRequests, OtherCall(o)
      PROVE  UNCHANGED <<gateway, cards>>
  BY <1>4, <1>6 DEF OtherCall
<1>7. ASSUME NEW p \in Probes, evaluate_policy(p.amount, p.approval, p.tool)
      PROVE  UNCHANGED <<gateway, cards>>
  BY <1>4, <1>7 DEF evaluate_policy
<1>8. UNCHANGED <<gateway, cards>> =>
        /\ UNCHANGED cards /\ req' = req /\ client' = client
        /\ stage' = stage /\ reply' = reply
  BY DEF gateway
<1>9. QED
  BY <1>1, <1>2, <1>3, <1>5, <1>6, <1>7, <1>8 DEF Next

\* What is kept of the cards, part of the types and of EvidenceInv.
CardsOK ==
  /\ scenario \in [Runs -> Shown \cup {None}]
  /\ verdict \in [Runs -> Verdicts \cup {None}]
  /\ DOMAIN LAST = Shown
  /\ \A s \in Shown : LAST[s] \in Runs \cup {None}
  /\ \A s \in Shown : LAST[s] = None \/ (scenario[LAST[s]] = s /\ verdict[LAST[s]] # None)
  /\ \A r \in Runs : RunOK(r)

\* A run asks for what its card shows, and its verdict is one of that card.
LEMMA CardsStep ==
  ASSUME TypeOK, GW!CallInv, CardsOK, [Next]_vars
  PROVE  CardsOK'
<1>1. ASSUME NEW r \in Runs, NEW s \in Shown, Run(r, s)
      PROVE  CardsOK'
  <2> USE DEF Run, GW!Submit, GW!Go
  <2>1. /\ stage[r] = "idle" /\ client[r] = "idle"
        /\ stage' = [stage EXCEPT ![r] = "received"]
        /\ req' = [req EXCEPT ![r] = RequestOf(s)]
        /\ client' = [client EXCEPT ![r] = "waiting"]
        /\ scenario' = [scenario EXCEPT ![r] = s]
        /\ verdict' = verdict /\ LAST' = LAST /\ reply' = reply
    BY <1>1
  <2>2. verdict[r] = None
    BY <2>1 DEF CardsOK, RunOK
  <2>3. scenario' \in [Runs -> Shown \cup {None}] /\ verdict' \in [Runs -> Verdicts \cup {None}]
    BY <2>1 DEF CardsOK
  <2>4. ASSUME NEW z \in Shown
        PROVE  /\ LAST'[z] \in Runs \cup {None}
               /\ LAST'[z] = None \/ (scenario'[LAST'[z]] = z /\ verdict'[LAST'[z]] # None)
    BY <2>1, <2>2, <2>4 DEF CardsOK
  <2>5. ASSUME NEW d \in Runs
        PROVE  RunOK(d)'
    <3>1. CASE d = r
      BY <2>1, <2>2, <3>1, EvidenceAssumption, ZenonT(20) DEF RunOK, CardsOK, TypeOK, GW!TypeOK, Verdicts
    <3>2. CASE d # r
      BY <2>1, <3>2 DEF RunOK, CardsOK, TypeOK, GW!TypeOK
    <3>3. QED
      BY <3>1, <3>2
  <2>6. QED
    BY <2>1, <2>3, <2>4, <2>5 DEF CardsOK
<1>2. ASSUME NEW r \in Runs, RunAnswered(r) \/ RunFails(r)
      PROVE  CardsOK'
  <2>1. PICK answer : /\ Answered(r, answer)
                      /\ answer = "ok" => reply[r] = "ok"
    BY <1>2 DEF RunAnswered, RunFails
  <2>2. /\ client[r] = "waiting" /\ stage' = stage /\ req' = req /\ reply' = reply
        /\ \A d \in Runs : d # r => client'[d] = client[d]
    BY <1>2 DEF RunAnswered, RunFails, GW!Receive, GW!GiveUp, TypeOK, GW!TypeOK
  <2>3. stage[r] # "idle" /\ scenario[r] \in Shown
    BY <2>2 DEF CardsOK, RunOK
  <2> DEFINE v == VerdictOf(scenario[r], answer)
  <2>4. /\ v \in Verdicts
        /\ v = "BLOCKED" => scenario[r] \in {"policy", "policy_ceiling"}
        /\ v = "EXECUTED (Rust)" => answer = "ok"
    BY <2>3, VerdictType
  <2>5. /\ verdict' = [verdict EXCEPT ![r] = v]
        /\ LAST' = [LAST EXCEPT ![scenario[r]] = r]
        /\ scenario' = scenario
    BY <2>1 DEF Answered
  <2> HIDE DEF v
  <2>6. v # None
    BY <2>4, EvidenceAssumption
  <2>7. /\ scenario' \in [Runs -> Shown \cup {None}]
        /\ verdict' \in [Runs -> Verdicts \cup {None}]
        /\ DOMAIN LAST' = Shown
    BY <2>4, <2>5 DEF CardsOK
  <2>8. ASSUME NEW z \in Shown
        PROVE  /\ LAST'[z] \in Runs \cup {None}
               /\ LAST'[z] = None \/ (scenario'[LAST'[z]] = z /\ verdict'[LAST'[z]] # None)
    BY <2>3, <2>5, <2>6, <2>8 DEF CardsOK
  <2>9. ASSUME NEW d \in Runs
        PROVE  RunOK(d)'
    <3>1. CASE d = r
      BY <2>1, <2>2, <2>3, <2>4, <2>5, <3>1 DEF RunOK, CardsOK
    <3>2. CASE d # r
      BY <2>2, <2>5, <3>2 DEF RunOK, CardsOK
    <3>3. QED
      BY <3>1, <3>2
  <2>10. QED
    BY <2>7, <2>8, <2>9 DEF CardsOK
<1>3. ASSUME UNCHANGED cards, req' = req, client' = client,
             \A d \in Runs : stage'[d] = "idle" <=> stage[d] = "idle",
             \A d \in Runs : stage[d] = "replied" => reply'[d] = reply[d]
      PROVE  CardsOK'
  <2>1. scenario' = scenario /\ verdict' = verdict /\ LAST' = LAST
    BY <1>3 DEF cards
  <2>2. ASSUME NEW d \in Runs
        PROVE  RunOK(d)'
    <3>1. reply[d] = "ok" => reply'[d] = "ok"
      BY <1>3 DEF GW!CallInv, GW!NoReply
    <3>2. QED
      BY <1>3, <2>1, <3>1 DEF RunOK, CardsOK
  <2>3. QED
    BY <2>1, <2>2 DEF CardsOK
<1>4. QED
  BY <1>1, <1>2, <1>3, CardFrame

----------------------------------------------------------------------------
(* The log and the evidence. *)

\* What is kept of the log.
LogOK == log \in Seq(Lines) /\ \A k \in DOMAIN log : LineOK(log[k])

\* A line more leaves only lines that repeat the policy.
LEMMA LineMore ==
  ASSUME LogOK, NEW q \in Questions, NEW writing \in Writings(q),
         NEW by \in Runs \cup {"client", "operator"},
         q.approval \in BOOLEAN, by # "client" /\ writing.approval = "True" => q.approval,
         log' = Logged(Line(q, writing, by))
  PROVE  LogOK'
<1> DEFINE e == Line(q, writing, by)
<1>1. e \in Lines /\ LineOK(e)
  BY LineIsOK
<1> HIDE DEF e
<1>2. /\ log' \in Seq(Lines)
      /\ \A k \in DOMAIN log' : log'[k] = e \/ \E j \in DOMAIN log : log'[k] = log[j]
  <2>1. log' = Logged(e)
    BY DEF e
  <2>2. QED
    BY <1>1, <2>1, LoggedLines DEF LogOK
<1>3. ASSUME NEW k \in DOMAIN log'
      PROVE  LineOK(log'[k])
  BY <1>1, <1>2, <1>3 DEF LogOK
<1>4. QED
  BY <1>2, <1>3 DEF LogOK, LineOK

\* Whoever asks the policy, the log repeats it.
LEMMA LogStep ==
  ASSUME TypeOK, GW!CallInv, LogOK, [Next]_vars
  PROVE  LogOK'
<1>1. ASSUME log' = log
      PROVE  LogOK'
  BY <1>1 DEF LogOK, LineOK
<1>2. ASSUME NEW r \in Runs, NEW s \in Shown, Run(r, s) \/ RunAnswered(r) \/ RunFails(r)
      PROVE  log' = log
  BY <1>2 DEF Run, RunAnswered, RunFails, Answered
<1>3. ASSUME NEW r \in Runs, RunAnswered(r) \/ RunFails(r)
      PROVE  log' = log
  BY <1>3 DEF RunAnswered, RunFails, Answered
<1>4. CASE GatewayWorks
  <2>1. PICK c \in Runs :
          \/ GW!OpaAllows(c) /\ log' = Logged(Line(req[c], CardText(req[c]), c))
          \/ GW!OpaDenies(c) /\ log' = Logged(Line(req[c], CardText(req[c]), c))
          \/ GW!OpaFails(c) /\ (log' = log \/ log' = Logged(Line(req[c], CardText(req[c]), c)))
          \/ log' = log
    BY <1>4 DEF GatewayWorks
  <2>2. CASE log' = log
    BY <1>1, <2>2
  <2>3. CASE log' # log
    <3>1. PICK q : q = req[c]
      OBVIOUS
    <3>2. log' = Logged(Line(q, CardText(q), c)) /\ stage[c] = "policy"
      BY <2>1, <2>3, <3>1 DEF GW!OpaAllows, GW!OpaDenies, GW!OpaFails, GW!Answer, GW!Go
    <3>3. q \in GW!Requests
      BY <3>1, <3>2 DEF GW!CallInv
    <3>4. q \in Questions /\ q.approval \in BOOLEAN
      BY <3>3 DEF Questions, GW!Requests
    <3> DEFINE writing == CardText(q)
    <3>5. writing \in Writings(q) /\ (writing.approval = "True" => q.approval)
      BY <3>4, CardTextIsAWriting
    <3>6. log' = Logged(Line(q, writing, c))
      BY <3>2
    <3> HIDE DEF writing
    <3>7. QED
      BY <3>4, <3>5, <3>6, LineMore
  <2>4. QED
    BY <2>2, <2>3
<1>5. CASE OpaChanges \/ ReadLog \/ \E s \in Shown : LoadEvidence(s)
  BY <1>1, <1>5 DEF OpaChanges, ReadLog, LoadEvidence
<1>6. ASSUME NEW o \in OtherRequests, OtherCall(o)
      PROVE  LogOK'
  <2>1. o.q \in Questions /\ o.q.approval \in BOOLEAN /\ o.text \in Writings(o.q)
    BY OthersAssumption DEF Questions
  <2>2. log' = Logged(Line(o.q, o.text, "client"))
    BY <1>6 DEF OtherCall, OthersLog
  <2>3. QED
    BY <2>1, <2>2, LineMore
<1>7. ASSUME NEW p \in Probes, evaluate_policy(p.amount, p.approval, p.tool)
      PROVE  LogOK'
  <2> DEFINE q == Ask(p.tool, p.amount, p.approval)
             writing == [CardText(q) EXCEPT !.amount = AsFloat]
  <2>1. q \in Questions
    BY DEF Questions
  <2>2. q.approval \in BOOLEAN
    BY OthersAssumption DEF Ask, GW!ByArguments
  <2>3. log' = Logged(Line(q, writing, "operator"))
    BY <1>7 DEF evaluate_policy, OthersLog
  <2>4. writing \in Writings(q) /\ (writing.approval = "True" => q.approval)
    BY <2>2, FloatTextIsAWriting
  <2> HIDE DEF q, writing
  <2>5. QED
    BY <2>1, <2>2, <2>3, <2>4, LineMore
<1>8. CASE UNCHANGED vars
  BY <1>1, <1>8 DEF vars
<1>9. QED
  BY <1>1, <1>2, <1>3, <1>4, <1>5, <1>6, <1>7, <1>8 DEF Next

\* What is kept of the evidence a browser has loaded.
EvidenceOK ==
  /\ DOMAIN evidence = DOMAIN NoEvidence
  /\ evidence.at # "none" => evidence.run \in Runs /\ stage[evidence.run] # "idle"
  /\ evidence.at # "read" => evidence.decision = None
  /\ DecisionFitsTheRequest

\* A search of the log finds what the policy says of a call like the request, if
\* anything.
LEMMA DecisionRepeatsPolicy ==
  ASSUME LogOK, NEW q \in GW!Requests, HasAmount(q), NEW d, d = opa_decision(q), d # None
  PROVE  /\ d.q.tool = q.tool /\ d.q.amount = q.amount
         /\ d.q.approval = q.approval \/ (d.by = "client" /\ q.approval /\ d.text.approval = "True")
         /\ d.results \subseteq {GW!PostureAllows(d.q, q.amount)}
<1>1. d.q.tool = q.tool /\ SameArguments(q, d) /\ LineOK(d)
  BY DecisionIsALine DEF LogOK
<1>2. q.amount \in Nat /\ q.approval \in BOOLEAN /\ q.tool \in Tools /\ q.amount \in CardAmounts
  BY CallConstants DEF GW!Requests, HasAmount
<1>3. d.text = CardText(q)
  BY <1>1 DEF SameArguments
<1>4. d.text.amount = q.amount /\ (d.text.approval = "True" <=> q.approval)
  BY <1>2, <1>3 DEF CardText
<1>5. /\ d.text.amount \in {d.q.amount, AsFloat}
      /\ d.q.approval => d.text.approval = "True"
  BY <1>1 DEF LineOK, Writings
<1>6. d.q.amount = q.amount
  BY <1>2, <1>4, <1>5, EvidenceAssumption
<1>7. /\ d.q.approval \in BOOLEAN
      /\ d.by # "client" /\ d.text.approval = "True" => d.q.approval
  BY <1>1 DEF LineOK
<1>8. d.q.approval = q.approval \/ (d.by = "client" /\ q.approval /\ d.text.approval = "True")
  BY <1>2, <1>4, <1>5, <1>7
<1>9. d.results \subseteq {GW!PostureAllows(d.q, q.amount)}
  <2> DEFINE p == Ask(q.tool, q.amount, d.q.approval)
  <2>1. p.tool = d.q.tool /\ p.amount = d.q.amount /\ p.approval = d.q.approval
    BY <1>1, <1>6 DEF Ask, GW!ByArguments
  <2>2. p \in GW!Requests /\ HasAmount(p) /\ p.amount = q.amount
    BY <1>2, <1>7 DEF Ask, GW!ByArguments, GW!Requests, HasAmount
  <2> HIDE DEF p
  <2>3. GW!allow(p) = GW!PostureAllows(p, q.amount)
    BY <2>2, PolicyIsPosture
  <2>4. GW!allow(d.q) = GW!allow(p) /\ GW!PostureAllows(d.q, q.amount) = GW!PostureAllows(p, q.amount)
    BY <2>1, AllowIsDecided
  <2>5. d.results \subseteq {GW!allow(d.q)}
    BY <1>1 DEF LineOK
  <2>6. QED
    BY <2>3, <2>4, <2>5
<1>10. QED
  BY <1>1, <1>6, <1>8, <1>9

\* What is loaded stays about a call that was made, and fits it.
LEMMA EvidenceStep ==
  ASSUME TypeOK, GW!CallInv, CardsOK, LogOK, EvidenceOK, [Next]_vars
  PROVE  EvidenceOK'
<1>1. \A d \in Runs : stage[d] # "idle" => stage'[d] # "idle" /\ req'[d] = req[d]
  <2>1. ASSUME NEW r \in Runs, NEW s \in Shown, Run(r, s), NEW d \in Runs, stage[d] # "idle"
        PROVE  stage'[d] # "idle" /\ req'[d] = req[d]
    BY <2>1 DEF Run, GW!Submit, GW!Go, TypeOK, GW!TypeOK
  <2>2. ASSUME NEW r \in Runs, RunAnswered(r) \/ RunFails(r)
        PROVE  stage' = stage /\ req' = req
    BY <2>2 DEF RunAnswered, RunFails, GW!Receive, GW!GiveUp
  <2>3. QED
    BY <2>1, <2>2, CardFrame
<1>2. ASSUME evidence' = evidence
      PROVE  EvidenceOK'
  BY <1>1, <1>2 DEF EvidenceOK, DecisionFitsTheRequest, HasAmount, NoEvidence
<1>3. ASSUME NEW s \in Shown, LoadEvidence(s)
      PROVE  EvidenceOK'
  <2>1. /\ evidence' = [run |-> LAST[s], decision |-> None, lines |-> {}, at |-> "loading"]
        /\ stage' = stage /\ LAST[s] # None
    BY <1>3 DEF LoadEvidence, NoEvidence, gateway
  <2>2. LAST[s] \in Runs /\ stage[LAST[s]] # "idle"
    BY <2>1 DEF CardsOK, RunOK
  <2>3. QED
    BY <2>1, <2>2 DEF EvidenceOK, DecisionFitsTheRequest, NoEvidence
<1>4. CASE ReadLog
  <2> DEFINE q == req[evidence.run]
             lines == IF verdict[evidence.run] = "BLOCKED" THEN _gateway_logs(q.tool) ELSE {}
  <2>1. /\ evidence.at = "loading"
        /\ evidence' = [evidence EXCEPT !.at = "read", !.decision = opa_decision(q), !.lines = lines]
        /\ stage' = stage /\ req' = req
    BY <1>4 DEF ReadLog, gateway
  <2>2. evidence.run \in Runs /\ stage[evidence.run] # "idle" /\ q \in GW!Requests
    BY <2>1 DEF EvidenceOK, GW!CallInv
  <2> HIDE DEF lines
  <2>3. DOMAIN evidence = {"run", "decision", "lines", "at"}
    BY DEF EvidenceOK, NoEvidence
  <2>4. /\ DOMAIN evidence' = DOMAIN NoEvidence
        /\ evidence'.at = "read" /\ evidence'.run = evidence.run
        /\ evidence'.decision = opa_decision(q)
    BY <2>1, <2>3 DEF NoEvidence
  <2> DEFINE d == evidence'.decision
  <2>5. d # None /\ HasAmount(q) =>
          /\ d.q.tool = q.tool /\ d.q.amount = q.amount
          /\ d.q.approval = q.approval \/ (d.by = "client" /\ q.approval /\ d.text.approval = "True")
          /\ d.results \subseteq {GW!PostureAllows(d.q, q.amount)}
    BY <2>2, <2>4, DecisionRepeatsPolicy
  <2>6. DecisionFitsTheRequest'
    BY <2>1, <2>4, <2>5 DEF DecisionFitsTheRequest, HasAmount
  <2>7. QED
    BY <2>1, <2>2, <2>4, <2>6 DEF EvidenceOK, NoEvidence
<1>5. CASE GatewayWorks \/ OpaChanges
  BY <1>2, <1>5 DEF GatewayWorks, OpaChanges
<1>6. ASSUME NEW r \in Runs, RunAnswered(r) \/ RunFails(r) \/ \E s \in Shown : Run(r, s)
      PROVE  EvidenceOK'
  BY <1>2, <1>6 DEF Run, RunAnswered, RunFails, Answered
<1>7. ASSUME NEW q, NEW writing, NEW who, OthersLog(q, writing, who)
      PROVE  EvidenceOK'
  BY <1>2, <1>7 DEF OthersLog
<1>8. CASE UNCHANGED vars
  BY <1>2, <1>8 DEF vars
<1>9. QED
  BY <1>3, <1>4, <1>5, <1>6, <1>7, <1>8 DEF Next, OtherCall, evaluate_policy

----------------------------------------------------------------------------
(* The invariants of the composition. *)

\* The invariant of the whole.
Inv == TypeOK /\ GW!CallInv /\ EvidenceInv

\* It is made of the parts that the lemmas above keep.
LEMMA InvParts == Inv <=> GW!TypeOK /\ GW!CallInv /\ CardsOK /\ LogOK /\ EvidenceOK
BY DEF Inv, TypeOK, EvidenceInv, CardsOK, LogOK, EvidenceOK

\* It holds before anything happens.
LEMMA InvInit == Init => Inv
<1> SUFFICES ASSUME Init
             PROVE  Inv
  OBVIOUS
<1>1. GW!TypeOK /\ GW!CallInv
  BY DEF Init, GW!Init, GW!TypeOK, GW!CallInv, GW!NoReply, GW!Stages, GW!Replies
<1>2. CardsOK
  BY EvidenceAssumption DEF Init, GW!Init, CardsOK, RunOK, Verdicts
<1>3. LogOK
  BY DEF Init, LogOK
<1>4. EvidenceOK
  BY DEF Init, EvidenceOK, NoEvidence, DecisionFitsTheRequest
<1>5. QED
  BY <1>1, <1>2, <1>3, <1>4, InvParts

\* The parts, one step later.
LEMMA InvPartsNext ==
  (GW!TypeOK /\ GW!CallInv /\ CardsOK /\ LogOK /\ EvidenceOK)' => Inv'
BY DEF Inv, TypeOK, EvidenceInv, CardsOK, LogOK, EvidenceOK

\* The inductive invariant holds in every reachable state.
THEOREM Invariance == Spec => []Inv
<1>1. Inv /\ [Next]_vars => Inv'
  <2> SUFFICES ASSUME Inv, [Next]_vars
               PROVE  Inv'
    OBVIOUS
  <2>1. TypeOK /\ GW!TypeOK /\ GW!CallInv /\ CardsOK /\ LogOK /\ EvidenceOK
    BY InvParts DEF Inv
  <2>2. GW!TypeOK' /\ GW!CallInv'
    BY <2>1, GatewayKept
  <2>3. CardsOK' /\ LogOK' /\ EvidenceOK'
    BY <2>1, CardsStep, LogStep, EvidenceStep
  <2>4. QED
    BY <2>2, <2>3, InvPartsNext
<1>2. QED
  BY <1>1, InvInit, PTL DEF Spec

\* Types hold in every reachable state: in particular the last run of a scenario
\* is a run of that scenario that has its verdict, and what a browser has read
\* explains some run.
THEOREM TypeCorrect == Spec => []TypeOK
<1>1. Inv => TypeOK
  BY DEF Inv
<1>2. QED
  BY <1>1, Invariance, PTL

\* The decision under a wire's card is the policy's on a call of its tool and
\* amount, and of its approval unless another client wrote "True" for true,
\* whoever else wrote to the log and however little of it is read.
THEOREM DecisionFits == Spec => []DecisionFitsTheRequest
<1>1. Inv => DecisionFitsTheRequest
  BY DEF Inv, EvidenceInv
<1>2. QED
  BY <1>1, Invariance, PTL

\* A card that says BLOCKED is about a call that has not run and, this holding
\* for ever, never will; a card that says EXECUTED is about one that has.
THEOREM CardsTrue == Spec => []CardsAreTrue
<1>1. Inv => CardsAreTrue
  <2> SUFFICES ASSUME Inv, NEW r \in Runs
               PROVE  /\ verdict[r] = "BLOCKED" => r \notin executed
                      /\ verdict[r] = "EXECUTED (Rust)" => r \in executed
    BY DEF CardsAreTrue
  <2>1. RunOK(r) /\ GW!CallInv
    BY DEF Inv, EvidenceInv
  <2>2. CASE verdict[r] = "BLOCKED"
    <3>1. scenario[r] \in {"policy", "policy_ceiling"} /\ req[r] = RequestOf(scenario[r])
      BY <2>1, <2>2, EvidenceAssumption DEF RunOK, Verdicts
    <3>2. ~GW!allow(req[r])
      BY <3>1, BlockedIsForbidden
    <3>3. QED
      BY <2>1, <2>2, <3>2 DEF GW!CallInv
  <2>3. CASE verdict[r] = "EXECUTED (Rust)"
    BY <2>1, <2>3 DEF RunOK, GW!CallInv
  <2>4. QED
    BY <2>2, <2>3
<1>2. QED
  BY <1>1, Invariance, PTL
=============================================================================
