---------------------------- MODULE AuditorProofs ----------------------------
(***************************************************************************)
(* Proofs about the Auditor, for any number of audits, any amounts and     *)
(* payees, and whatever the gateway, the policy engine and the payments    *)
(* agent answer.  An audit is a client of the gateway, whose invariants    *)
(* are cited from GatewayProofs.  What a tool returns to it has passed     *)
(* the post-hook: the second half proves what the hook makes of any text,  *)
(* also when an agent passes it on.  The two specifications have no        *)
(* variable in common; the names of Sanitize are chosen so that both can   *)
(* be extended here.                                                       *)
(***************************************************************************)
EXTENDS Auditor, Sanitize,
        SequenceTheorems, WellFoundedInduction, NaturalsInduction, TLAPS

GP == INSTANCE GatewayProofs WITH
  Calls <- Audits, Tools <- {PaymentTool}, WireNamed <- {PaymentTool},
  Amounts <- Amounts \cup {0}

----------------------------------------------------------------------------
(* The inductive invariant. *)

\* The inductive invariant behind the properties, with the gateway's own: a call that was
\* made carries what the Auditor reads in the text, and a report of a payment
\* repeats an answer that is a result or one the Auditor cannot place.
AuditInv ==
  \A a \in Audits :
    /\ stage[a] # "idle" => req[a] = Arguments(text[a])
    /\ report[a] = "executed" => reply[a] \in {"ok", "notJson", "otherJson"}

----------------------------------------------------------------------------
(* The Auditor as a client of the gateway. *)

\* GatewayProofs speaks of the same gateway as the Auditor does.
LEMMA SameGateway ==
  /\ GW!Init <=> GP!Init
  /\ [GW!Next]_(GW!vars) <=> [GP!Next]_(GP!vars)
  /\ (GW!TypeOK <=> GP!TypeOK) /\ (GW!TypeOK' <=> GP!TypeOK')
  /\ (GW!CallInv <=> GP!CallInv) /\ (GW!CallInv' <=> GP!CallInv')
  /\ \A c \in Audits : GW!GatewayStep(c) \/ GW!Drop(c) => GP!GatewayStep(c) \/ GP!Drop(c)
<1>a. GW!Requests = GP!Requests /\ GW!NoReply = GP!NoReply
  BY DEF GW!Requests, GP!Requests, GW!NoReply, GP!NoReply
<1>b. \A q : GW!allow(q) <=> GP!allow(q)
  BY DEF GW!allow, GP!allow, GW!over_ceiling, GP!over_ceiling, GW!needs_approval,
         GP!needs_approval, GW!IsWireCall, GP!IsWireCall, GW!HasAmount, GP!HasAmount,
         GW!AutoApproveLimit, GP!AutoApproveLimit, GW!HardCeiling, GP!HardCeiling,
         GW!Dollar, GP!Dollar
<1> USE DEF GW!Requests, GP!Requests, GW!IsWireCall, GP!IsWireCall, GW!HasAmount,
            GP!HasAmount, GW!Dollar, GP!Dollar, GW!AutoApproveLimit,
            GP!AutoApproveLimit, GW!HardCeiling, GP!HardCeiling, GW!over_ceiling,
            GP!over_ceiling, GW!needs_approval, GP!needs_approval, GW!allow,
            GP!allow, GW!NoReply, GP!NoReply, GW!Stages, GP!Stages, GW!Replies,
            GP!Replies, GW!InFlight, GP!InFlight
<1>1. GW!Init <=> GP!Init
  BY DEF GW!Init, GP!Init
<1>2. (GW!TypeOK <=> GP!TypeOK) /\ (GW!TypeOK' <=> GP!TypeOK')
  BY DEF GW!TypeOK, GP!TypeOK
<1>3. (GW!CallInv <=> GP!CallInv) /\ (GW!CallInv' <=> GP!CallInv')
  BY <1>a, <1>b DEF GW!CallInv, GP!CallInv
<1>4. ASSUME NEW c \in Audits
      PROVE  GW!GatewayStep(c) <=> GP!GatewayStep(c)
  BY DEF GW!GatewayStep, GP!GatewayStep, GW!Go, GP!Go, GW!Answer, GP!Answer,
         GW!Refuse, GP!Refuse, GW!EnterPreHook, GP!EnterPreHook, GW!Verdict,
         GP!Verdict, GW!OpaAllows, GP!OpaAllows, GW!OpaDenies, GP!OpaDenies,
         GW!OpaFails, GP!OpaFails, GW!BackendRuns, GP!BackendRuns,
         GW!BackendFails, GP!BackendFails, GW!PostHook, GP!PostHook,
         GW!ResultLost, GP!ResultLost
<1>5. ASSUME NEW c \in Audits
      PROVE  (GW!ClientStep(c) <=> GP!ClientStep(c)) /\ (GW!Drop(c) <=> GP!Drop(c))
  BY DEF GW!ClientStep, GP!ClientStep, GW!Receive, GP!Receive, GW!GiveUp,
         GP!GiveUp, GW!Drop, GP!Drop
<1>6. GW!OpaChanges <=> GP!OpaChanges
  BY DEF GW!OpaChanges, GP!OpaChanges
<1>7. ASSUME NEW c \in Audits, NEW q
      PROVE  GW!Submit(c, q) <=> GP!Submit(c, q)
  BY DEF GW!Submit, GP!Submit, GW!Go, GP!Go
<1>8. GW!Next <=> GP!Next
  BY <1>4, <1>5, <1>6, <1>7 DEF GW!Next, GP!Next, GW!Serve, GP!Serve
<1>9. GW!vars = GP!vars /\ (GW!vars' = GW!vars <=> GP!vars' = GP!vars)
  BY DEF GW!vars, GP!vars
<1>10. QED
  BY <1>1, <1>2, <1>3, <1>4, <1>5, <1>8, <1>9

\* What GatewayProofs assumes of its constants.
LEMMA CallConstants ==
  /\ {PaymentTool} \subseteq {PaymentTool}
  /\ Amounts \cup {0} \subseteq Nat
  /\ NoAmount \notin Amounts \cup {0}
<1>1. Amounts \cup {0} \subseteq Nat
  BY AuditorAssumption
<1>2. QED
  BY <1>1, AuditorAssumption, Zenon

\* GP!GatewayFrame, of the audits' instance of the gateway.
LEMMA WhileGatewayWorks ==
  ASSUME GW!TypeOK, NEW c \in Audits, GW!GatewayStep(c) \/ GW!Drop(c)
  PROVE  /\ req' = req
         /\ \A d \in Audits : stage'[d] = "idle" <=> stage[d] = "idle"
         /\ \A d \in Audits : stage[d] = "replied" => reply'[d] = reply[d]
         /\ \/ executed' = executed
            \/ stage[c] = "forward" /\ executed' = executed \cup {c}
<1>1. GP!TypeOK /\ (GP!GatewayStep(c) \/ GP!Drop(c))
  BY SameGateway
<1>2. QED
  BY <1>1, CallConstants, GP!GatewayFrame

\* What is asked of the gateway is a call it knows.
LEMMA ArgumentsType ==
  ASSUME NEW t \in Texts
  PROVE  Arguments(t) \in GW!Requests
<1>1. parse_amount(t) \in Amounts \cup {0} \cup {NoAmount}
  BY DEF parse_amount, Texts
<1>2. parse_approval(t) \in BOOLEAN
  BY DEF parse_approval
<1>3. QED
  BY <1>1, <1>2 DEF Arguments, GW!ByArguments, GW!Requests

\* Every step of the composition is a step of the gateway or leaves it alone.
LEMMA StepIsGatewayStep == [Next]_vars => [GW!Next]_(GW!vars)
<1> SUFFICES ASSUME [Next]_vars
             PROVE  [GW!Next]_(GW!vars)
  OBVIOUS
<1>1. CASE GatewayWorks
  BY <1>1 DEF GatewayWorks, GW!Next, GW!Serve
<1>2. ASSUME NEW a \in Audits, NEW t \in Asked, Ask(a, t)
      PROVE  GW!Next
  BY <1>2, ArgumentsType, AskedAssumption DEF Ask, GW!Next
<1>3. ASSUME NEW a \in Audits, Answered(a) \/ Raised(a)
      PROVE  GW!Next
  BY <1>3 DEF Answered, Raised, GW!Next, GW!Serve, GW!ClientStep
<1>4. CASE UNCHANGED vars
  BY <1>4 DEF vars, gatewayVars, GW!vars
<1>5. QED
  BY <1>1, <1>2, <1>3, <1>4 DEF Next

\* The gateway's own invariants survive a step of the composition.
LEMMA GatewayKept ==
  GW!TypeOK /\ GW!CallInv /\ [Next]_vars => GW!TypeOK' /\ GW!CallInv'
<1> SUFFICES ASSUME GW!TypeOK, GW!CallInv, [Next]_vars
             PROVE  GW!TypeOK' /\ GW!CallInv'
  OBVIOUS
<1>1. GP!TypeOK /\ GP!CallInv /\ [GP!Next]_(GP!vars)
  BY SameGateway, StepIsGatewayStep
<1>2. GP!TypeOK' /\ GP!CallInv'
  BY <1>1, CallConstants, GP!TypeStep, GP!CallInvStep
<1>3. QED
  BY <1>2, SameGateway

----------------------------------------------------------------------------
(* Type correctness and the inductive invariant. *)

\* Every answer is sorted into one of the three reports.
LEMMA AuditReports ==
  ASSUME NEW r, NEW marks
  PROVE  audit(r, marks) \in Reports
BY DEF audit, ReadResult, Reports

\* No step of the composition breaks a type.
LEMMA TypeStep == TypeOK /\ GW!CallInv /\ [Next]_vars => TypeOK'
<1> SUFFICES ASSUME TypeOK, GW!CallInv, [Next]_vars
             PROVE  TypeOK'
  OBVIOUS
<1>1. GW!TypeOK'
  BY GatewayKept DEF TypeOK
<1> DEFINE OwnType == text \in [Audits -> Texts] /\ report \in [Audits -> Reports \cup {"none"}]
<1>2. OwnType'
  <2> USE DEF TypeOK
  <2>1. CASE GatewayWorks \/ UNCHANGED vars
    BY <2>1 DEF GatewayWorks, auditorVars, vars
  <2>2. ASSUME NEW a \in Audits, NEW t \in Asked, Ask(a, t)
        PROVE  OwnType'
    BY <2>2, AskedAssumption DEF Ask
  <2>3. ASSUME NEW a \in Audits, Answered(a)
        PROVE  OwnType'
    BY <2>3, AuditReports DEF Answered
  <2>4. ASSUME NEW a \in Audits, Raised(a)
        PROVE  OwnType'
    BY <2>4 DEF Raised, Reports
  <2>5. QED
    BY <2>1, <2>2, <2>3, <2>4 DEF Next
<1>3. QED
  BY <1>1, <1>2 DEF TypeOK

\* "Payment executed" is said of a result, of JSON that bears no mark, or of a
\* body that is no JSON: a violation bears the word policy, and an embedded error
\* the signs of one.
LEMMA ExecutedIsSaidOf ==
  ASSUME NEW a \in Audits, reply[a] \in GW!Replies, NEW marks \in Bears(a),
         audit(reply[a], marks) = "executed"
  PROVE  reply[a] \in {"ok", "notJson", "otherJson"}
BY DEF audit, ReadResult, looks_like_violation, embedded_error, Bears, GW!Replies

\* Every step keeps each audit's call to its text, and its report to the answer.
LEMMA AuditInvStep == TypeOK /\ GW!CallInv /\ AuditInv /\ [Next]_vars => AuditInv'
<1> SUFFICES ASSUME TypeOK, GW!CallInv, AuditInv, [Next]_vars
             PROVE  AuditInv'
  OBVIOUS
<1>t. GW!TypeOK /\ text \in [Audits -> Texts] /\ report \in [Audits -> Reports \cup {"none"}]
  BY DEF TypeOK
<1>1. CASE GatewayWorks
  <2>1. UNCHANGED <<text, report>>
    BY <1>1 DEF GatewayWorks, auditorVars
  <2>2. CASE GW!OpaChanges
    BY <2>1, <2>2 DEF AuditInv, GW!OpaChanges
  <2>3. ASSUME NEW c \in Audits, GW!GatewayStep(c) \/ GW!Drop(c)
        PROVE  AuditInv'
    \* An answer that was given stays: the report still repeats it.
    <3>1. \A a \in Audits : reply[a] \in {"ok", "notJson", "otherJson"} => reply'[a] = reply[a]
      BY <1>t, <2>3, WhileGatewayWorks DEF GW!CallInv, GW!NoReply
    <3>2. req' = req /\ \A a \in Audits : stage'[a] = "idle" <=> stage[a] = "idle"
      BY <1>t, <2>3, WhileGatewayWorks
    <3>3. QED
      BY <2>1, <3>1, <3>2 DEF AuditInv
  <2>4. QED
    BY <1>1, <2>2, <2>3 DEF GatewayWorks
<1>2. ASSUME NEW a \in Audits, NEW t \in Asked, Ask(a, t)
      PROVE  AuditInv'
  <2>1. /\ req' = [req EXCEPT ![a] = Arguments(t)] /\ text' = [text EXCEPT ![a] = t]
        /\ stage' = [stage EXCEPT ![a] = "received"] /\ UNCHANGED <<reply, report>>
    BY <1>2 DEF Ask, GW!Submit, GW!Go
  <2>2. req'[a] = Arguments(text'[a])
    BY <1>t, <2>1 DEF GW!TypeOK
  <2>3. \A b \in Audits \ {a} : req'[b] = req[b] /\ text'[b] = text[b] /\ stage'[b] = stage[b]
    BY <1>t, <2>1 DEF GW!TypeOK
  <2>4. QED
    BY <2>1, <2>2, <2>3 DEF AuditInv
<1>3. ASSUME NEW a \in Audits, Answered(a)
      PROVE  AuditInv'
  <2>1. PICK marks \in Bears(a) : report' = [report EXCEPT ![a] = audit(reply[a], marks)]
    BY <1>3 DEF Answered
  <2>2. UNCHANGED <<text, stage, req, reply>> /\ stage[a] = "replied"
    BY <1>3 DEF Answered, GW!Receive
  <2>3. reply[a] \in GW!Replies
    BY <1>t, <2>2 DEF GW!TypeOK, GW!CallInv
  <2>4. report'[a] = "executed" => reply[a] \in {"ok", "notJson", "otherJson"}
    BY <1>t, <2>1, <2>3, ExecutedIsSaidOf
  <2>5. \A b \in Audits \ {a} : report'[b] = report[b]
    BY <1>t, <2>1
  <2>6. QED
    BY <2>2, <2>4, <2>5 DEF AuditInv
<1>4. ASSUME NEW a \in Audits, Raised(a)
      PROVE  AuditInv'
  BY <1>t, <1>4 DEF AuditInv, Raised, GW!GiveUp
<1>5. CASE UNCHANGED vars
  BY <1>5 DEF AuditInv, vars, gatewayVars, auditorVars
<1>6. QED
  BY <1>1, <1>2, <1>3, <1>4, <1>5 DEF Next

Inv == TypeOK /\ GW!CallInv /\ AuditInv

\* The inductive invariant holds in every reachable state.
LEMMA Invariance == Spec => []Inv
<1>1. Init => Inv
  <2> SUFFICES ASSUME Init
               PROVE  Inv
    OBVIOUS
  <2>1. GW!TypeOK /\ GW!CallInv
    BY DEF Init, GW!Init, GW!TypeOK, GW!CallInv, GW!Stages, GW!NoReply
  <2>2. NoText \in Texts
    BY DEF NoText, Texts, Wordings
  <2>3. text \in [Audits -> Texts] /\ report \in [Audits -> Reports \cup {"none"}]
    BY <2>2 DEF Init
  <2>4. AuditInv
    BY DEF Init, GW!Init, AuditInv
  <2>5. QED
    BY <2>1, <2>3, <2>4 DEF Inv, TypeOK
<1>2. Inv /\ [Next]_vars => Inv'
  BY TypeStep, AuditInvStep, GatewayKept DEF Inv, TypeOK
<1>3. QED
  BY <1>1, <1>2, PTL DEF Spec

----------------------------------------------------------------------------
(* What an audit promises. *)

\* Every variable of the Auditor and of its gateway keeps its type.
THEOREM TypeCorrect == Spec => []TypeOK
<1>1. Inv => TypeOK
  BY DEF Inv
<1>2. QED
  BY <1>1, Invariance, PTL

\* "Payment executed" is never said of a payment that did not run when the answer
\* is one that audit can place: of those it lets only a tool's own result pass.
THEOREM ExecutedTrue == Spec => []ExecutedIsTrue
<1>1. Inv => ExecutedIsTrue
  BY DEF Inv, AuditInv, GW!CallInv, ExecutedIsTrue
<1>2. QED
  BY <1>1, Invariance, PTL

\* No payment whose amount is the first number of its text runs without ground in
\* the text: one in the dual-approval band is paid only if the text speaks of
\* approval, none at the ceiling, however the policy engine comes and goes.
THEOREM TextsAreObeyed == Spec => []PaidAsTheTextAllows
<1>1. ASSUME Inv, NEW a \in executed, text[a].amount # NoAmount,
             text[a].amount = text[a].first
      PROVE  /\ text[a].amount < GW!HardCeiling
             /\ text[a].wording = "no word of it" => text[a].amount < GW!AutoApproveLimit
  <2>1. a \in Audits /\ stage[a] # "idle" /\ GW!allow(req[a])
    BY <1>1 DEF Inv, TypeOK, GW!TypeOK, GW!CallInv
  <2>2. req[a] = Arguments(text[a]) /\ text[a] \in Texts
    BY <1>1, <2>1 DEF Inv, AuditInv, TypeOK
  <2>3. /\ req[a].tool = PaymentTool /\ req[a].amount = text[a].amount
        /\ req[a].approval = parse_approval(text[a])
    BY <1>1, <2>2 DEF Arguments, GW!ByArguments, parse_amount
  <2>4. text[a].amount \in Nat
    BY <1>1, <2>2, AuditorAssumption DEF Texts
  <2>5. /\ text[a].amount >= GW!HardCeiling <=> ~(text[a].amount < GW!HardCeiling)
        /\ text[a].amount >= GW!AutoApproveLimit <=> ~(text[a].amount < GW!AutoApproveLimit)
    BY <2>4 DEF GW!HardCeiling, GW!AutoApproveLimit, GW!Dollar
  <2>6. text[a].amount < GW!HardCeiling
    BY <1>1, <2>1, <2>3, <2>5, Zenon DEF GW!allow, GW!over_ceiling, GW!IsWireCall, GW!HasAmount
  <2>7. ASSUME text[a].wording = "no word of it"
        PROVE  text[a].amount < GW!AutoApproveLimit
    <3>1. ~parse_approval(text[a])
      BY <2>7 DEF parse_approval
    <3>2. QED
      BY <1>1, <2>1, <2>3, <2>5, <2>6, <3>1, Zenon
         DEF GW!allow, GW!needs_approval, GW!IsWireCall, GW!HasAmount
  <2>8. QED
    BY <2>6, <2>7
<1>2. Inv => PaidAsTheTextAllows
  BY <1>1 DEF PaidAsTheTextAllows
<1>3. QED
  BY <1>2, Invariance, PTL

----------------------------------------------------------------------------
(***************************************************************************)
(* The post-hook, for any texts of up to as many sentences as there are    *)
(* words, and any number of passes.                                        *)
(***************************************************************************)

\* What holds before a text and is handed on from place to place holds at every
\* place of it.
LEMMA PlaceByPlace ==
  ASSUME NEW a \in Nat, NEW b \in Nat, a <= b, NEW T, a \in T,
         \A k \in a..(b - 1) : k \in T => k + 1 \in T
  PROVE  \A k \in a..b : k \in T
<1> DEFINE Fails == {k \in Nat : k \in a..b /\ k \notin T}
<1>1. Fails \subseteq Nat /\ \A k \in Fails : k \in a..b /\ k \notin T
  OBVIOUS
<1>2. SUFFICES ASSUME Fails # {}
               PROVE  FALSE
  OBVIOUS
<1>3. \A k \in a..b : k \notin T => k \in Fails
  OBVIOUS
<1> HIDE DEF Fails
<1>4. OpToRel(<, Nat) = {ss \in Nat \X Nat : ss[1] < ss[2]}
  BY DEF OpToRel
<1>5. PICK k \in Fails : \A j \in Fails : ~(<<j, k>> \in OpToRel(<, Nat))
  BY <1>1, <1>2, NatLessThanWellFounded, WFMin
<1>6. \A j \in Fails : ~(j < k)
  BY <1>1, <1>4, <1>5
<1>7. k - 1 \in a..(b - 1) /\ (k - 1) + 1 = k /\ k - 1 \in a..b /\ k - 1 < k
  BY <1>1
<1>8. QED
  BY <1>1, <1>3, <1>6, <1>7

----------------------------------------------------------------------------
(* One pattern. *)

\* What a pattern has come to after each place of a text.
Steps(opener, words, f) ==
  /\ f[0] = [out |-> <<>>, from |-> 0]
  /\ \A k \in 1..Len(words) : f[k] = scan(opener, f[k - 1], words[k])

\* The same up to place k, as a recursive function on 0..k.
Before(k, opener, words, f) ==
  f = [i \in 0..k |-> IF i = 0 THEN [out |-> <<>>, from |-> 0]
                      ELSE scan(opener, f[i - 1], words[i])]

\* A pattern goes through every text.
LEMMA ScanSteps ==
  ASSUME NEW S, NEW words \in Seq(S), NEW opener
  PROVE  \E f : Steps(opener, words, f) /\ Scanned(opener, words) = f[Len(words)]
<1> DEFINE n == Len(words)
           T == {m \in 0..n : \E f : Before(m, opener, words, f)}
<1>0. n \in Nat
  OBVIOUS
<1> HIDE DEF n
<1>1. 0 \in T
  <2> DEFINE f == [i \in 0..0 |-> [out |-> <<>>, from |-> 0]]
  <2>1. Before(0, opener, words, f)
    <3>1. f = [i \in 0..0 |-> IF i = 0 THEN [out |-> <<>>, from |-> 0]
                              ELSE scan(opener, f[i - 1], words[i])]
      OBVIOUS
    <3>2. QED
      BY <3>1 DEF Before
  <2>2. QED
    BY <1>0, <2>1
<1>2. ASSUME NEW m \in 0..(n - 1), m \in T
      PROVE  m + 1 \in T
  <2>1. PICK f : Before(m, opener, words, f)
    BY <1>2
  <2> DEFINE g == [i \in 0..(m + 1) |-> IF i <= m THEN f[i]
                                        ELSE scan(opener, f[m], words[m + 1])]
             h == [i \in 0..(m + 1) |-> IF i = 0 THEN [out |-> <<>>, from |-> 0]
                                        ELSE scan(opener, g[i - 1], words[i])]
  <2>2. ASSUME NEW i \in 0..(m + 1)
        PROVE  g[i] = h[i]
    <3>1. CASE i = m + 1
      <4>1. m \in 0..(m + 1) /\ m <= m /\ i # 0 /\ i - 1 = m /\ ~(i <= m)
        BY <3>1
      <4>2. g[m] = f[m]
        BY <4>1
      <4>3. g[i] = scan(opener, f[m], words[m + 1])
        BY <4>1, Zenon
      <4>4. h[i] = scan(opener, g[i - 1], words[i])
        BY <4>1, Zenon
      <4> HIDE DEF g, h
      <4>5. QED
        BY <3>1, <4>1, <4>2, <4>3, <4>4
    <3>2. CASE i # m + 1
      <4>1. i \in 0..m /\ i <= m /\ (i # 0 => i - 1 \in 0..(m + 1) /\ i - 1 <= m)
        BY <3>2
      <4>2. g[i] = f[i]
        BY <4>1, Zenon
      <4>3. f[i] = IF i = 0 THEN [out |-> <<>>, from |-> 0]
                   ELSE scan(opener, f[i - 1], words[i])
        BY <2>1, <4>1, Zenon DEF Before
      <4>4. i # 0 => g[i - 1] = f[i - 1]
        BY <4>1, Zenon
      <4>5. h[i] = IF i = 0 THEN [out |-> <<>>, from |-> 0]
                   ELSE scan(opener, g[i - 1], words[i])
        BY Zenon
      <4> HIDE DEF g, h
      <4>6. QED
        BY <4>2, <4>3, <4>4, <4>5, Zenon
    <3>3. QED
      BY <3>1, <3>2
  <2>3. g = h
    BY <2>2
  <2>4. Before(m + 1, opener, words, g)
    BY <2>3, Zenon DEF Before
  <2> HIDE DEF g, h
  <2>5. QED
    BY <1>0, <2>4
<1>3. n \in T
  <2> HIDE DEF T
  <2>1. \A k \in 0..(n - 1) : k \in T => k + 1 \in T
    BY <1>2
  <2>2. \A k \in 0..n : k \in T
    BY <1>0, <1>1, <2>1, PlaceByPlace
  <2>3. QED
    BY <1>0, <2>2
<1>4. PICK f : Before(n, opener, words, f)
  BY <1>3
<1> DEFINE g == CHOOSE x : x = [k \in 0..n |-> IF k = 0 THEN [out |-> <<>>, from |-> 0]
                                         ELSE scan(opener, x[k - 1], words[k])]
<1>5. g = [k \in 0..n |-> IF k = 0 THEN [out |-> <<>>, from |-> 0]
                          ELSE scan(opener, g[k - 1], words[k])]
  BY <1>4, Zenon DEF Before
<1>6. Scanned(opener, words) = g[n]
  BY DEF Scanned, n
<1> HIDE DEF g
<1>7. g[0] = [out |-> <<>>, from |-> 0]
  BY <1>0, <1>5
<1>8. \A k \in 1..n : g[k] = scan(opener, g[k - 1], words[k])
  <2> TAKE k \in 1..n
  <2>1. k \in 0..n /\ k # 0
    BY <1>0
  <2>2. QED
    BY <1>5, <2>1, Zenon
<1>9. QED
  BY <1>6, <1>7, <1>8 DEF n, Steps

\* What a pattern is at: what it has written, and where its phrase began there.
States(S) == {s \in [out : Seq(S), from : Nat] : s.from <= Len(s.out)}

\* A step writes the next phrase behind what there is.
Longer(s, n, t) ==
  /\ Len(n.out) = Len(s.out) + 1 /\ n.out[Len(s.out) + 1] = t
  /\ \A i \in 1..Len(s.out) : n.out[i] = s.out[i]

\* A step at a stop takes all from the phrase on and puts its mark there.
Cut(s, n) ==
  /\ Len(n.out) = s.from /\ n.out[s.from] = Blocked
  /\ \A i \in 1..Len(s.out) : i < s.from => n.out[i] = s.out[i]

\* One step of a pattern, by its effect.
Goes(S, opener, s, n, t) ==
  /\ s \in States(S) /\ n \in States(S) /\ t \in S
  /\ \/ s.from # 0 /\ t = Stop /\ n.from = 0 /\ Cut(s, n)
     \/ s.from = 0 /\ t = opener /\ n.from = Len(n.out) /\ Longer(s, n, t)
     \/ /\ n.from = s.from /\ Longer(s, n, t)
        /\ s.from = 0 => t # opener
        /\ s.from # 0 => t # Stop

\* What a pattern does with the next of a text.
LEMMA OneStep ==
  ASSUME NEW S, Blocked \in S, NEW s \in States(S), NEW t \in S, NEW opener, opener # Stop,
         NEW n, n = scan(opener, s, t)
  PROVE  Goes(S, opener, s, n, t)
<1>1. s.out \in Seq(S) /\ s.from \in Nat /\ s.from <= Len(s.out) /\ Len(s.out) \in Nat
      /\ s = [out |-> s.out, from |-> s.from]
  BY DEF States
<1>2. /\ Append(s.out, t) \in Seq(S) /\ Len(Append(s.out, t)) = Len(s.out) + 1
      /\ \A i \in 1..Len(s.out) : Append(s.out, t)[i] = s.out[i]
      /\ Append(s.out, t)[Len(s.out) + 1] = t
  BY <1>1, AppendProperties
<1>3. CASE s.from # 0 /\ t = Stop
  <2> DEFINE cut == SubSeq(s.out, 1, s.from - 1)
  <2>1. n = [out |-> Append(cut, Blocked), from |-> 0]
    BY <1>3, Zenon DEF scan
  <2>2. cut \in Seq(S) /\ Len(cut) = s.from - 1 /\ \A i \in 1..(s.from - 1) : cut[i] = s.out[i]
    <3>1. \A i \in 1..(s.from - 1) : s.out[i] \in S
      BY <1>1
    <3>2. s.from - 1 \in Int /\ 1 \in Int
      BY <1>1
    <3>3. /\ cut \in Seq(S)
          /\ Len(cut) = IF 1 <= s.from - 1 THEN (s.from - 1) - 1 + 1 ELSE 0
          /\ \A i \in 1..((s.from - 1) - 1 + 1) : cut[i] = s.out[1 + i - 1]
      BY <3>1, <3>2, SubSeqProperties
    <3> HIDE DEF cut
    <3>4. Len(cut) = s.from - 1
      BY <1>1, <1>3, <3>3
    <3>5. ASSUME NEW i \in 1..(s.from - 1)
          PROVE  cut[i] = s.out[i]
      <4>1. i \in 1..((s.from - 1) - 1 + 1) /\ 1 + i - 1 = i
        BY <1>1
      <4>2. QED
        BY <3>3, <4>1
    <3>6. QED
      BY <3>3, <3>4, <3>5
  <2> HIDE DEF cut
  <2>3. /\ Append(cut, Blocked) \in Seq(S) /\ Len(Append(cut, Blocked)) = s.from
        /\ \A i \in 1..Len(cut) : Append(cut, Blocked)[i] = cut[i]
        /\ Append(cut, Blocked)[Len(cut) + 1] = Blocked
    BY <1>1, <2>2, AppendProperties
  <2> DEFINE c == Append(cut, Blocked)
  <2> HIDE DEF c
  <2>4. n.out = c /\ n.from = 0 /\ n = [out |-> c, from |-> 0]
    BY <2>1 DEF c
  <2>5. n \in States(S)
    BY <1>1, <2>3, <2>4 DEF States, c
  <2>6. Cut(s, n)
    <3>1. \A i \in 1..Len(s.out) : i < s.from => i \in 1..(s.from - 1) /\ i \in 1..Len(cut)
      BY <1>1, <2>2
    <3>2. Len(cut) + 1 = s.from
      BY <1>1, <2>2
    <3>3. QED
      BY <2>2, <2>3, <2>4, <3>1, <3>2 DEF Cut, c
  <2>7. QED
    BY <1>3, <2>4, <2>5, <2>6 DEF Goes
<1>4. CASE ~(s.from # 0 /\ t = Stop)
  <2> DEFINE a == Append(s.out, t)
  <2>1. CASE s.from = 0 /\ t = opener
    <3>1. n = [out |-> a, from |-> Len(s.out) + 1]
      BY <1>4, <2>1, Zenon DEF scan
    <3> HIDE DEF a
    <3>2. n \in States(S) /\ Longer(s, n, t) /\ n.from = Len(n.out)
      BY <1>1, <1>2, <3>1 DEF States, Longer, a
    <3>3. QED
      BY <2>1, <3>2 DEF Goes
  <2>2. CASE ~(s.from = 0 /\ t = opener)
    <3>1. n = [s EXCEPT !.out = a]
      BY <1>4, <2>2, Zenon DEF scan
    <3>2. n.out = a /\ n.from = s.from /\ n = [out |-> a, from |-> s.from]
      <4> HIDE DEF a
      <4>1. QED
        BY <1>1, <3>1
    <3> HIDE DEF a
    <3>3. n \in States(S) /\ Longer(s, n, t)
      BY <1>1, <1>2, <3>2 DEF States, Longer, a
    <3>4. QED
      BY <1>4, <2>2, <3>2, <3>3 DEF Goes
  <2>3. QED
    BY <2>1, <2>2
<1>5. QED
  BY <1>3, <1>4

\* A pattern keeps to what the text and the replacement are made of.
LEMMA StepsTyped ==
  ASSUME NEW S, Blocked \in S, NEW words \in Seq(S), NEW opener, opener # Stop,
         NEW f, Steps(opener, words, f)
  PROVE  \A k \in 0..Len(words) : f[k] \in States(S)
<1> DEFINE T == {k \in 0..Len(words) : f[k] \in States(S)}
<1>1. 0 \in T
  <2>1. f[0] = [out |-> <<>>, from |-> 0]
    BY DEF Steps
  <2>2. <<>> \in Seq(S) /\ Len(<<>>) = 0
    OBVIOUS
  <2>3. f[0] \in States(S)
    BY <2>1, <2>2 DEF States
  <2>4. 0 \in 0..Len(words)
    OBVIOUS
  <2>5. QED
    BY <2>3, <2>4
<1>2. ASSUME NEW k \in 0..(Len(words) - 1), k \in T
      PROVE  k + 1 \in T
  <2>1. k + 1 \in 1..Len(words) /\ (k + 1) - 1 = k /\ k + 1 \in 0..Len(words)
    OBVIOUS
  <2>2. f[k + 1] = scan(opener, f[k], words[k + 1]) /\ words[k + 1] \in S
    BY <2>1 DEF Steps
  <2>3. f[k + 1] \in States(S)
    <3>1. f[k] \in States(S)
      BY <1>2
    <3> HIDE DEF T
    <3>2. Goes(S, opener, f[k], f[k + 1], words[k + 1])
      BY <2>2, <3>1, OneStep
    <3>3. QED
      BY <3>2 DEF Goes
  <2>4. QED
    BY <2>1, <2>3
<1> HIDE DEF T
<1>3. \A k \in 0..Len(words) : k \in T
  <2>1. 0 <= Len(words) /\ Len(words) \in Nat
    OBVIOUS
  <2>2. \A k \in 0..(Len(words) - 1) : k \in T => k + 1 \in T
    BY <1>2
  <2>3. QED
    BY <1>1, <2>1, <2>2, PlaceByPlace
<1>4. QED
  BY <1>3 DEF T

\* What a pattern does at any place of a text.
LEMMA EachStep ==
  ASSUME NEW S, Blocked \in S, NEW words \in Seq(S), NEW opener, opener # Stop,
         NEW f, Steps(opener, words, f), NEW k \in 0..(Len(words) - 1)
  PROVE  Goes(S, opener, f[k], f[k + 1], words[k + 1])
<1>1. k + 1 \in 1..Len(words) /\ (k + 1) - 1 = k /\ k \in 0..Len(words)
  OBVIOUS
<1>2. f[k + 1] = scan(opener, f[k], words[k + 1]) /\ words[k + 1] \in S
  BY <1>1 DEF Steps
<1>3. f[k] \in States(S)
  BY <1>1, StepsTyped
<1>4. QED
  BY <1>2, <1>3, OneStep

\* No stop follows the pattern's phrase, anywhere in the text.
Free(opener, words) ==
  \A i, j \in 1..Len(words) : i < j /\ words[i] = opener => words[j] # Stop

\* A text that a pattern has gone through holds none of its phrases before a stop.
LEMMA SubFrees ==
  ASSUME NEW S, Blocked \in S, NEW words \in Seq(S),
         NEW opener, opener \notin {Stop, Blocked}
  PROVE  sub(opener, words) \in Seq(S) /\ Free(opener, sub(opener, words))
<1>1. PICK f : Steps(opener, words, f) /\ Scanned(opener, words) = f[Len(words)]
  BY ScanSteps
<1> DEFINE H(s) == /\ \A i \in 1..Len(s.out) : s.out[i] = opener => s.from # 0 /\ s.from <= i
                   /\ \A i \in 1..Len(s.out) : s.from # 0 /\ s.from <= i => s.out[i] # Stop
           T == {k \in 0..Len(words) : H(f[k])}
<1>2. 0 \in T
  BY <1>1 DEF Steps
<1>3. ASSUME NEW k \in 0..(Len(words) - 1), k \in T
      PROVE  k + 1 \in T
  <2> DEFINE s == f[k]
             n == f[k + 1]
             t == words[k + 1]
  <2> HIDE DEF s, n, t
  <2>1. Goes(S, opener, s, n, t)
    BY <1>1, EachStep DEF s, n, t
  <2>2. /\ Len(s.out) \in Nat /\ Len(n.out) \in Nat
        /\ s.from \in Nat /\ n.from \in Nat /\ s.from <= Len(s.out)
    BY <2>1 DEF Goes, States
  <2>3. H(s)
    BY <1>3 DEF s
  <2> HIDE DEF T
  <2>4. H(n)
    <3>1. CASE s.from # 0 /\ t = Stop /\ n.from = 0 /\ Cut(s, n)
      BY <2>2, <2>3, <3>1 DEF Cut
    <3>2. CASE s.from = 0 /\ t = opener /\ n.from = Len(n.out) /\ Longer(s, n, t)
      <4>1. Len(n.out) = Len(s.out) + 1 /\ n.out[Len(s.out) + 1] = opener
            /\ \A i \in 1..Len(s.out) : n.out[i] # opener
        BY <2>2, <2>3, <3>2 DEF Longer
      <4>2. \A i \in 1..Len(n.out) : i # Len(n.out) => i \in 1..Len(s.out)
        BY <2>2, <4>1
      <4>3. \A i \in 1..Len(n.out) : n.from <= i => i = Len(n.out)
        BY <2>2, <3>2
      <4>4. n.from # 0 /\ n.out[Len(n.out)] = opener /\ Len(n.out) <= Len(n.out)
        BY <2>2, <3>2, <4>1
      <4>5. QED
        BY <3>2, <4>1, <4>2, <4>3, <4>4
    <3>3. CASE /\ n.from = s.from /\ Longer(s, n, t)
               /\ s.from = 0 => t # opener
               /\ s.from # 0 => t # Stop
      <4>1. Len(n.out) = Len(s.out) + 1 /\ n.out[Len(s.out) + 1] = t
            /\ \A i \in 1..Len(s.out) : n.out[i] = s.out[i]
        BY <3>3 DEF Longer
      <4>2. \A i \in 1..Len(n.out) : i # Len(s.out) + 1 => i \in 1..Len(s.out)
        BY <2>2, <4>1
      <4>3. n.out[Len(s.out) + 1] = opener => n.from # 0 /\ n.from <= Len(s.out) + 1
        BY <2>2, <3>3, <4>1
      <4>4. n.from # 0 => n.out[Len(s.out) + 1] # Stop
        BY <3>3, <4>1
      <4>5. QED
        BY <2>3, <3>3, <4>1, <4>2, <4>3, <4>4
    <3>4. QED
      BY <2>1, <3>1, <3>2, <3>3 DEF Goes
  <2>5. k + 1 \in 0..Len(words)
    OBVIOUS
  <2>6. QED
    BY <2>4, <2>5 DEF n, T
<1>4. H(f[Len(words)])
  <2> HIDE DEF T
  <2>1. 0 <= Len(words) /\ Len(words) \in Nat
    OBVIOUS
  <2>2. \A k \in 0..(Len(words) - 1) : k \in T => k + 1 \in T
    BY <1>3
  <2>3. \A k \in 0..Len(words) : k \in T
    BY <1>2, <2>1, <2>2, PlaceByPlace
  <2>4. Len(words) \in T
    BY <2>1, <2>3
  <2>5. QED
    BY <2>4 DEF T
<1>5. f[Len(words)] \in States(S)
  BY <1>1, StepsTyped
<1> DEFINE r == f[Len(words)]
<1> HIDE DEF r
<1>6. r.out \in Seq(S) /\ r.from \in Nat /\ r.from <= Len(r.out)
  BY <1>5 DEF States, r
<1>7. Free(opener, r.out)
  BY <1>4, <1>6 DEF Free, r
<1>8. sub(opener, words) = r.out
  BY <1>1 DEF sub, r
<1>9. QED
  BY <1>6, <1>7, <1>8

\* What one pattern has cleared a text of, another does not bring back.
LEMMA SubKeepsFree ==
  ASSUME NEW S, Blocked \in S, NEW words \in Seq(S), NEW opener, opener # Stop,
         NEW other, other # Blocked, Free(other, words)
  PROVE  Free(other, sub(opener, words))
<1>1. PICK f : Steps(opener, words, f) /\ Scanned(opener, words) = f[Len(words)]
  BY ScanSteps
<1> DEFINE Met(k) == \E h \in 1..k : words[h] = other
           H(s, k) == /\ \A i \in 1..Len(s.out) : s.out[i] = other => Met(k)
                      /\ \A i, j \in 1..Len(s.out) : i < j /\ s.out[i] = other => s.out[j] # Stop
           T == {k \in 0..Len(words) : H(f[k], k)}
<1>2. 0 \in T
  BY <1>1 DEF Steps
<1>3. ASSUME NEW k \in 0..(Len(words) - 1), k \in T
      PROVE  k + 1 \in T
  <2> DEFINE s == f[k]
             n == f[k + 1]
             t == words[k + 1]
  <2> HIDE DEF s, n, t
  <2>1. Goes(S, opener, s, n, t)
    BY <1>1, EachStep DEF s, n, t
  <2>2. /\ Len(s.out) \in Nat /\ Len(n.out) \in Nat
        /\ s.from \in Nat /\ n.from \in Nat /\ s.from <= Len(s.out)
    BY <2>1 DEF Goes, States
  <2>3. H(s, k)
    BY <1>3 DEF s
  <2> HIDE DEF T
  <2>4. Met(k) => Met(k + 1)
    <3>1. 1..k \subseteq 1..(k + 1)
      OBVIOUS
    <3>2. QED
      BY <3>1
  <2>5. t = other => Met(k + 1)
    <3>1. k + 1 \in 1..(k + 1)
      OBVIOUS
    <3>2. QED
      BY <3>1 DEF t
  <2>6. t = Stop => ~Met(k)
    <3>1. \A h \in 1..k : h \in 1..Len(words) /\ h < k + 1
      OBVIOUS
    <3>2. k + 1 \in 1..Len(words)
      OBVIOUS
    <3>3. QED
      BY <3>1, <3>2 DEF Free, t
  <2> HIDE DEF Met
  <2>7. H(n, k + 1)
    <3>1. CASE s.from # 0 /\ t = Stop /\ n.from = 0 /\ Cut(s, n)
      <4>1. Len(n.out) = s.from /\ n.out[s.from] = Blocked
            /\ \A i \in 1..Len(s.out) : i < s.from => n.out[i] = s.out[i]
        BY <3>1 DEF Cut
      <4>2. \A i \in 1..Len(n.out) : i \in 1..Len(s.out) /\ (i < s.from \/ i = s.from)
        BY <2>2, <4>1
      <4>3. Blocked # Stop
        BY DEF Blocked, Stop
      <4>4. QED
        BY <2>3, <2>4, <4>1, <4>2, <4>3
    <3>2. CASE Longer(s, n, t)
      <4>1. Len(n.out) = Len(s.out) + 1 /\ n.out[Len(s.out) + 1] = t
            /\ \A i \in 1..Len(s.out) : n.out[i] = s.out[i]
        BY <3>2 DEF Longer
      <4>2. \A i \in 1..Len(n.out) : i # Len(s.out) + 1 => i \in 1..Len(s.out)
        BY <2>2, <4>1
      <4>3. \A i \in 1..Len(n.out) : n.out[i] = other => Met(k + 1)
        BY <2>3, <2>4, <2>5, <4>1, <4>2
      <4>4. \A i, j \in 1..Len(n.out) : i < j => i \in 1..Len(s.out)
        BY <2>2, <4>1
      <4>5. ASSUME NEW i \in 1..Len(n.out), NEW j \in 1..Len(n.out), i < j, n.out[i] = other
            PROVE  n.out[j] # Stop
        <5>1. i \in 1..Len(s.out) /\ s.out[i] = other
          BY <4>1, <4>4, <4>5
        <5>2. CASE j = Len(s.out) + 1
          BY <2>3, <2>6, <4>1, <5>1, <5>2
        <5>3. CASE j # Len(s.out) + 1
          BY <2>3, <4>1, <4>2, <4>5, <5>1, <5>3
        <5>4. QED
          BY <5>2, <5>3
      <4>6. QED
        BY <4>3, <4>5
    <3>3. QED
      BY <2>1, <3>1, <3>2 DEF Goes
  <2>8. k + 1 \in 0..Len(words)
    OBVIOUS
  <2>9. QED
    BY <2>7, <2>8 DEF n, T
<1>4. H(f[Len(words)], Len(words))
  <2> HIDE DEF T
  <2>1. 0 <= Len(words) /\ Len(words) \in Nat
    OBVIOUS
  <2>2. \A k \in 0..(Len(words) - 1) : k \in T => k + 1 \in T
    BY <1>3
  <2>3. \A k \in 0..Len(words) : k \in T
    BY <1>2, <2>1, <2>2, PlaceByPlace
  <2>4. Len(words) \in T
    BY <2>1, <2>3
  <2>5. QED
    BY <2>4 DEF T
<1> DEFINE r == f[Len(words)]
<1>5. \A i, j \in 1..Len(r.out) : i < j /\ r.out[i] = other => r.out[j] # Stop
  BY <1>4
<1>6. sub(opener, words) = r.out
  BY <1>1 DEF sub
<1> HIDE DEF r
<1>7. QED
  BY <1>5, <1>6 DEF Free

\* A pattern leaves a text as it is that holds none of its phrases before a stop.
LEMMA SubLeaves ==
  ASSUME NEW S, Blocked \in S, NEW words \in Seq(S),
         NEW opener, opener # Stop, Free(opener, words)
  PROVE  sub(opener, words) = words
<1>1. PICK f : Steps(opener, words, f) /\ Scanned(opener, words) = f[Len(words)]
  BY ScanSteps
<1> DEFINE H(s, k) == /\ Len(s.out) = k /\ \A i \in 1..k : s.out[i] = words[i]
                      /\ s.from # 0 => words[s.from] = opener
           T == {k \in 0..Len(words) : H(f[k], k)}
<1>2. 0 \in T
  BY <1>1 DEF Steps
<1>3. ASSUME NEW k \in 0..(Len(words) - 1), k \in T
      PROVE  k + 1 \in T
  <2> DEFINE s == f[k]
             n == f[k + 1]
             t == words[k + 1]
  <2> HIDE DEF s, n, t
  <2>1. Goes(S, opener, s, n, t)
    BY <1>1, EachStep DEF s, n, t
  <2>2. /\ Len(s.out) \in Nat /\ Len(n.out) \in Nat
        /\ s.from \in Nat /\ n.from \in Nat /\ s.from <= Len(s.out)
    BY <2>1 DEF Goes, States
  <2>3. H(s, k)
    BY <1>3 DEF s
  <2> HIDE DEF T
  <2>4. ~(s.from # 0 /\ t = Stop)
    <3> SUFFICES ASSUME s.from # 0, t = Stop
                 PROVE  FALSE
      OBVIOUS
    <3>1. s.from \in 1..Len(words) /\ k + 1 \in 1..Len(words) /\ s.from < k + 1
      BY <2>2, <2>3
    <3>2. words[s.from] = opener /\ words[k + 1] = Stop
      BY <2>3 DEF t
    <3>3. QED
      BY <3>1, <3>2 DEF Free
  <2>5. Longer(s, n, t)
    BY <2>1, <2>4 DEF Goes
  <2>6. Len(n.out) = k + 1 /\ n.out[k + 1] = words[k + 1] /\ \A i \in 1..k : n.out[i] = words[i]
    BY <2>3, <2>5 DEF Longer, t
  <2>7. \A i \in 1..(k + 1) : n.out[i] = words[i]
    <3>1. \A i \in 1..(k + 1) : i = k + 1 \/ i \in 1..k
      OBVIOUS
    <3>2. QED
      BY <2>6, <3>1
  <2>8. n.from # 0 => words[n.from] = opener
    <3>1. CASE s.from = 0 /\ t = opener /\ n.from = Len(n.out)
      BY <2>6, <3>1 DEF t
    <3>2. CASE n.from = s.from
      BY <2>3, <3>2
    <3>3. QED
      BY <2>1, <2>4, <3>1, <3>2 DEF Goes
  <2>9. k + 1 \in 0..Len(words)
    OBVIOUS
  <2>10. QED
    BY <2>6, <2>7, <2>8, <2>9 DEF n, T
<1>4. H(f[Len(words)], Len(words))
  <2> HIDE DEF T
  <2>1. 0 <= Len(words) /\ Len(words) \in Nat
    OBVIOUS
  <2>2. \A k \in 0..(Len(words) - 1) : k \in T => k + 1 \in T
    BY <1>3
  <2>3. \A k \in 0..Len(words) : k \in T
    BY <1>2, <2>1, <2>2, PlaceByPlace
  <2>4. Len(words) \in T
    BY <2>1, <2>3
  <2>5. QED
    BY <2>4 DEF T
<1> DEFINE r == f[Len(words)]
<1>5. r \in States(S)
  <2>1. Len(words) \in 0..Len(words)
    OBVIOUS
  <2>2. QED
    BY <1>1, <2>1, StepsTyped
<1>6. Len(r.out) = Len(words) /\ \A i \in 1..Len(words) : r.out[i] = words[i]
  BY <1>4
<1>7. sub(opener, words) = r.out
  BY <1>1 DEF sub
<1> HIDE DEF r
<1>8. r.out \in Seq(S)
  BY <1>5 DEF States
<1>9. r.out = words
  BY <1>6, <1>8, SeqEqual
<1>10. QED
  BY <1>7, <1>9

\* What stands between a stop and the pattern's next phrase is kept, in one piece.
LEMMA SubKeepsPiece ==
  ASSUME NEW S, Blocked \in S, NEW words \in Seq(S), NEW opener, opener # Stop,
         NEW a \in 0..Len(words), NEW b \in a..Len(words), a # 0 => words[a] = Stop,
         \A i \in (a + 1)..b : words[i] # opener
  PROVE  \E m \in Nat : /\ m + (b - a) <= Len(sub(opener, words))
                        /\ \A i \in 1..(b - a) : sub(opener, words)[m + i] = words[a + i]
                        /\ a = 0 => m = 0
<1>1. PICK f : Steps(opener, words, f) /\ Scanned(opener, words) = f[Len(words)]
  BY ScanSteps
<1> DEFINE m == Len(f[a].out)
<1>2. f[a] \in States(S)
  BY <1>1, StepsTyped
<1>3. m \in Nat
  BY <1>2 DEF States
<1>4. f[a].from = 0
  <2>1. CASE a = 0
    BY <1>1, <2>1 DEF Steps
  <2>2. CASE a # 0
    <3>1. a - 1 \in 0..(Len(words) - 1) /\ (a - 1) + 1 = a
      BY <2>2
    <3>2. Goes(S, opener, f[a - 1], f[(a - 1) + 1], words[(a - 1) + 1])
      BY <1>1, <3>1, EachStep
    <3> DEFINE s == f[a - 1]
               n == f[a]
    <3>3. Goes(S, opener, s, n, Stop)
      BY <2>2, <3>1, <3>2
    <3> HIDE DEF s, n
    <3>4. n.from = 0
      BY <3>3 DEF Goes
    <3>5. QED
      BY <3>4 DEF n
  <2>3. QED
    BY <2>1, <2>2
<1>5. a = 0 => m = 0
  BY <1>1 DEF Steps
<1> HIDE DEF m
<1> DEFINE H(s, k) == /\ s.from = 0 /\ Len(s.out) = m + (k - a)
                      /\ \A i \in 1..(k - a) : s.out[m + i] = words[a + i]
           T == {k \in a..b : H(f[k], k)}
<1>6. a \in T
  BY <1>3, <1>4 DEF m
<1>7. ASSUME NEW k \in a..(b - 1), k \in T
      PROVE  k + 1 \in T
  <2> DEFINE s == f[k]
             n == f[k + 1]
             t == words[k + 1]
  <2> HIDE DEF s, n, t
  <2>1. Goes(S, opener, s, n, t)
    <3>1. k \in 0..(Len(words) - 1)
      OBVIOUS
    <3>2. QED
      BY <1>1, <3>1, EachStep DEF s, n, t
  <2>2. /\ Len(s.out) \in Nat /\ Len(n.out) \in Nat
        /\ s.from \in Nat /\ n.from \in Nat /\ s.from <= Len(s.out)
    BY <2>1 DEF Goes, States
  <2>3. H(s, k)
    BY <1>7 DEF s
  <2> HIDE DEF T
  <2>4. t # opener
    <3>1. k + 1 \in (a + 1)..b
      OBVIOUS
    <3>2. QED
      BY <3>1 DEF t
  <2>5. n.from = 0 /\ Longer(s, n, t)
    BY <2>1, <2>3, <2>4 DEF Goes
  <2>6. Len(n.out) = m + ((k + 1) - a) /\ n.out[m + ((k + 1) - a)] = words[k + 1]
        /\ \A i \in 1..(k - a) : n.out[m + i] = words[a + i]
    <3>1. Len(s.out) + 1 = m + ((k + 1) - a)
      BY <1>3, <2>3
    <3>2. \A i \in 1..(k - a) : m + i \in 1..Len(s.out)
      BY <1>3, <2>3
    <3>3. QED
      BY <2>3, <2>5, <3>1, <3>2 DEF Longer, t
  <2>7. ASSUME NEW i \in 1..((k + 1) - a)
        PROVE  n.out[m + i] = words[a + i]
    <3>1. CASE i = (k + 1) - a
      <4>1. a + i = k + 1
        BY <3>1
      <4>2. QED
        BY <2>6, <3>1, <4>1
    <3>2. CASE i # (k + 1) - a
      <4>1. i \in 1..(k - a)
        BY <3>2
      <4>2. QED
        BY <2>6, <4>1
    <3>3. QED
      BY <3>1, <3>2
  <2>8. k + 1 \in a..b
    OBVIOUS
  <2>9. QED
    BY <2>5, <2>6, <2>7, <2>8 DEF n, T
<1>8. H(f[b], b)
  <2> HIDE DEF T
  <2>1. a <= b /\ a \in Nat /\ b \in Nat
    OBVIOUS
  <2>2. \A k \in a..(b - 1) : k \in T => k + 1 \in T
    BY <1>7
  <2>3. \A k \in a..b : k \in T
    BY <1>6, <2>1, <2>2, PlaceByPlace
  <2>4. b \in T
    BY <2>1, <2>3
  <2>5. QED
    BY <2>4 DEF T
<1> DEFINE l == m + (b - a)
           K(s) == /\ l <= Len(s.out) /\ (s.from = 0 \/ l < s.from)
                   /\ \A i \in 1..(b - a) : s.out[m + i] = words[a + i]
           U == {k \in b..Len(words) : K(f[k])}
<1>9. l \in Nat /\ \A i \in 1..(b - a) : m + i \in 1..l
  BY <1>3
<1>10. b \in U
  <2>1. l <= l
    BY <1>9
  <2>2. b \in b..Len(words)
    OBVIOUS
  <2>3. QED
    BY <1>8, <2>1, <2>2
<1> HIDE DEF T, H, l
<1>11. ASSUME NEW k \in b..(Len(words) - 1), k \in U
       PROVE  k + 1 \in U
  <2> DEFINE s == f[k]
             n == f[k + 1]
             t == words[k + 1]
  <2> HIDE DEF s, n, t
  <2>1. Goes(S, opener, s, n, t)
    <3>1. k \in 0..(Len(words) - 1)
      OBVIOUS
    <3>2. QED
      BY <1>1, <3>1, EachStep DEF s, n, t
  <2>2. /\ Len(s.out) \in Nat /\ Len(n.out) \in Nat
        /\ s.from \in Nat /\ n.from \in Nat /\ s.from <= Len(s.out)
    BY <2>1 DEF Goes, States
  <2>3. K(s)
    BY <1>11 DEF s
  <2> HIDE DEF U
  <2>4. l <= Len(n.out) /\ \A i \in 1..l : n.out[i] = s.out[i]
    <3>1. CASE s.from # 0 /\ Cut(s, n)
      <4>1. l < s.from
        BY <2>3, <3>1
      <4>2. \A i \in 1..l : i \in 1..Len(s.out) /\ i < s.from
        BY <1>9, <2>2, <4>1
      <4>3. l <= Len(n.out)
        BY <1>9, <2>2, <3>1, <4>1 DEF Cut
      <4>4. QED
        BY <3>1, <4>2, <4>3 DEF Cut
    <3>2. CASE Longer(s, n, t)
      <4>1. \A i \in 1..l : i \in 1..Len(s.out)
        BY <1>9, <2>2, <2>3
      <4>2. l <= Len(n.out)
        BY <1>9, <2>2, <2>3, <3>2 DEF Longer
      <4>3. QED
        BY <3>2, <4>1, <4>2 DEF Longer
    <3>3. QED
      BY <2>1, <3>1, <3>2 DEF Goes
  <2>5. n.from = 0 \/ l < n.from
    <3>1. CASE n.from = Len(n.out) /\ Longer(s, n, t)
      BY <1>9, <2>2, <2>3, <3>1 DEF Longer
    <3>2. CASE n.from = 0 \/ n.from = s.from
      BY <2>3, <3>2
    <3>3. QED
      BY <2>1, <3>1, <3>2 DEF Goes
  <2>6. \A i \in 1..(b - a) : n.out[m + i] = words[a + i]
    BY <1>9, <2>3, <2>4
  <2>7. k + 1 \in b..Len(words)
    OBVIOUS
  <2>8. QED
    BY <2>4, <2>5, <2>6, <2>7 DEF n, U
<1>12. K(f[Len(words)])
  <2> HIDE DEF U
  <2>1. b <= Len(words) /\ b \in Nat /\ Len(words) \in Nat
    OBVIOUS
  <2>2. \A k \in b..(Len(words) - 1) : k \in U => k + 1 \in U
    BY <1>11
  <2>3. \A k \in b..Len(words) : k \in U
    BY <1>10, <2>1, <2>2, PlaceByPlace
  <2>4. Len(words) \in U
    BY <2>1, <2>3
  <2>5. QED
    BY <2>4 DEF U
<1>13. sub(opener, words) = f[Len(words)].out
  BY <1>1 DEF sub
<1>14. QED
  BY <1>3, <1>5, <1>12, <1>13 DEF l

\* A word with c stops or more between it and the last phrase before it, or with
\* no phrase before it at all.
Zone(words, c, w) ==
  \E z \in [0..c -> 0..Len(words)], b \in 1..Len(words) :
    /\ words[b] = w
    /\ \A i \in 0..c : z[i] < b /\ (z[i] # 0 => words[z[i]] = Stop)
    /\ \A i, j \in 0..c : i < j => z[i] < z[j] \/ (z[i] = 0 /\ z[j] = 0)
    /\ \A i \in (z[0] + 1)..b : words[i] \notin Openers

\* A pattern takes no such word, and at most one of its stops.
LEMMA SubKeepsZone ==
  ASSUME NEW S, Blocked \in S, NEW words \in Seq(S), NEW opener \in Openers,
         NEW c \in Nat, NEW w, Zone(words, c, w)
  PROVE  /\ w \in ToSet(sub(opener, words))
         /\ c > 0 => Zone(sub(opener, words), c - 1, w)
<1>0. opener # Stop
  BY DEF Openers, Ignore, WireNow, NoteTo, Stop
<1>1. PICK z \in [0..c -> 0..Len(words)], b \in 1..Len(words) :
        /\ words[b] = w
        /\ \A i \in 0..c : z[i] < b /\ (z[i] # 0 => words[z[i]] = Stop)
        /\ \A i, j \in 0..c : i < j => z[i] < z[j] \/ (z[i] = 0 /\ z[j] = 0)
        /\ \A i \in (z[0] + 1)..b : words[i] \notin Openers
  BY DEF Zone
<1> DEFINE a == z[0]
           r == sub(opener, words)
<1>2. /\ a \in 0..Len(words) /\ b \in a..Len(words) /\ a < b
      /\ (a # 0 => words[a] = Stop) /\ Len(words) \in Nat
  BY <1>1
<1>3. \A i \in (a + 1)..b : words[i] # opener
  BY <1>1
<1>4. PICK m \in Nat : /\ m + (b - a) <= Len(r)
                       /\ \A i \in 1..(b - a) : r[m + i] = words[a + i]
                       /\ a = 0 => m = 0
  <2> HIDE DEF a
  <2>1. QED
    BY <1>0, <1>2, <1>3, SubKeepsPiece
<1>5. r \in Seq(S) /\ Len(r) \in Nat /\ DOMAIN r = 1..Len(r)
  <2>1. opener # Blocked
    BY DEF Openers, Ignore, WireNow, NoteTo, Blocked
  <2>2. r \in Seq(S)
    BY <1>0, <2>1, SubFrees
  <2> HIDE DEF r
  <2>3. QED
    BY <2>2
<1> HIDE DEF r
<1> DEFINE e == m + (b - a)
<1>6. e \in 1..Len(r) /\ r[e] = w
  <2>1. b - a \in 1..(b - a) /\ a + (b - a) = b
    BY <1>2
  <2>2. r[m + (b - a)] = words[b]
    BY <1>4, <2>1
  <2>3. e \in 1..Len(r)
    BY <1>2, <1>4, <1>5
  <2>4. QED
    BY <1>1, <2>2, <2>3
<1>7. w \in ToSet(r)
  BY <1>5, <1>6 DEF ToSet
<1>8. ASSUME c > 0
      PROVE  Zone(r, c - 1, w)
  <2> DEFINE y == [i \in 0..(c - 1) |-> m + (z[i + 1] - a)]
  <2>1. ASSUME NEW i \in 0..(c - 1)
        PROVE  /\ i + 1 \in 0..c /\ z[i + 1] \in 0..Len(words) /\ z[i + 1] < b
               /\ a < z[i + 1] \/ (z[i + 1] = 0 /\ a = 0 /\ m = 0)
    <3>1. 0 \in 0..c /\ i + 1 \in 0..c /\ 0 < i + 1
      OBVIOUS
    <3>2. a < z[i + 1] \/ (z[i + 1] = 0 /\ a = 0)
      BY <1>1, <3>1
    <3>3. QED
      BY <1>1, <1>4, <3>1, <3>2
  <2>2. ASSUME NEW i \in 0..(c - 1)
        PROVE  y[i] = m + (z[i + 1] - a)
    OBVIOUS
  <2>3. ASSUME NEW i \in 0..(c - 1)
        PROVE  y[i] \in 0..Len(r) /\ y[i] < e
    <3> DEFINE u == z[i + 1]
    <3>1. u \in Nat /\ u < b /\ a <= u /\ y[i] = m + (u - a)
      <4> HIDE DEF y, a
      <4>1. QED
        BY <1>2, <2>1, <2>2
    <3>2. a \in Nat /\ b \in Nat
      BY <1>2
    <3> HIDE DEF u, y, a
    <3>3. QED
      BY <1>4, <1>5, <3>1, <3>2
  <2>4. y \in [0..(c - 1) -> 0..Len(r)]
    BY <2>3
  <2> HIDE DEF y
  <2>5. ASSUME NEW i \in 0..(c - 1), y[i] # 0
        PROVE  r[y[i]] = Stop
    <3>1. a < z[i + 1]
      BY <2>1, <2>2, <2>5
    <3> DEFINE u == z[i + 1]
               d == u - a
    <3>2. d \in 1..(b - a) /\ a + d = u
      <4>1. u \in Nat /\ u < b /\ a < u
        BY <2>1, <3>1
      <4>2. a \in Nat /\ b \in Nat
        BY <1>2
      <4> HIDE DEF u, a
      <4>3. QED
        BY <4>1, <4>2
    <3> HIDE DEF d
    <3>3. r[m + d] = words[z[i + 1]]
      BY <1>4, <3>2
    <3>4. words[z[i + 1]] = Stop
      BY <1>1, <1>2, <2>1, <3>1
    <3>5. QED
      BY <2>2, <3>3, <3>4 DEF d
  <2>6. ASSUME NEW i \in 0..(c - 1), NEW j \in 0..(c - 1), i < j
        PROVE  y[i] < y[j] \/ (y[i] = 0 /\ y[j] = 0)
    <3>1. i + 1 \in 0..c /\ j + 1 \in 0..c /\ i + 1 < j + 1
      BY <2>6
    <3>2. z[i + 1] < z[j + 1] \/ (z[i + 1] = 0 /\ z[j + 1] = 0)
      BY <1>1, <3>1
    <3> DEFINE u == z[i + 1]
               v == z[j + 1]
    <3>u. /\ y[i] = m + (u - a) /\ y[j] = m + (v - a) /\ u \in Nat /\ v \in Nat /\ a \in Nat
          /\ a < u \/ (u = 0 /\ a = 0 /\ m = 0)
          /\ u < v \/ (u = 0 /\ v = 0)
      <4> HIDE DEF a
      <4>1. QED
        BY <1>2, <2>1, <2>2, <3>2
    <3> HIDE DEF u, v, a
    <3>3. CASE u < v
      BY <3>u, <3>3
    <3>4. CASE u = 0 /\ v = 0
      BY <3>u, <3>4
    <3>5. QED
      BY <3>u, <3>3, <3>4
  <2>7. ASSUME NEW i \in (y[0] + 1)..e
        PROVE  r[i] \notin Openers
    <3>1. 0 \in 0..(c - 1)
      BY <1>8
    <3> DEFINE u == z[1]
    <3>2. y[0] = m + (u - a) /\ u \in Nat /\ a \in Nat /\ b \in Nat /\ a <= u
      <4> DEFINE i0 == 0
      <4>1. i0 + 1 = 1
        OBVIOUS
      <4>2. /\ y[i0] = m + (z[i0 + 1] - a)
            /\ z[i0 + 1] \in 0..Len(words)
            /\ a < z[i0 + 1] \/ (z[i0 + 1] = 0 /\ a = 0 /\ m = 0)
        <5> HIDE DEF i0, a
        <5>1. i0 \in 0..(c - 1)
          BY <3>1 DEF i0
        <5>2. QED
          BY <5>1, <2>1, <2>2
      <4>3. y[0] = m + (u - a) /\ u \in Nat /\ (a < u \/ (u = 0 /\ a = 0))
        BY <1>2, <4>1, <4>2
      <4> HIDE DEF u, a
      <4>4. QED
        BY <1>2, <4>3
    <3> DEFINE d == i - m
    <3>3. d \in 1..(b - a) /\ a + d \in (a + 1)..b /\ m + d = i
      <4>1. i \in (m + (u - a) + 1)..(m + (b - a))
        BY <3>2
      <4> HIDE DEF u, a, e
      <4>2. QED
        BY <3>2, <4>1
    <3> HIDE DEF d
    <3>4. r[m + d] = words[a + d]
      BY <1>4, <3>3
    <3>5. QED
      BY <1>1, <3>3, <3>4
  <2> HIDE DEF e
  <2>8. /\ r[e] = w
        /\ \A i \in 0..(c - 1) : y[i] < e /\ (y[i] # 0 => r[y[i]] = Stop)
        /\ \A i, j \in 0..(c - 1) : i < j => y[i] < y[j] \/ (y[i] = 0 /\ y[j] = 0)
        /\ \A i \in (y[0] + 1)..e : r[i] \notin Openers
    BY <1>6, <2>3, <2>5, <2>6, <2>7
  <2>9. QED
    BY <1>6, <2>4, <2>8 DEF Zone
<1>9. QED
  BY <1>7, <1>8 DEF r

----------------------------------------------------------------------------
(* The whole of scrub_text. *)

\* The key goes, wherever it stands, and nothing else does.
LEMMA Redacts ==
  ASSUME NEW S, NEW words \in Seq(S)
  PROVE  /\ redact(words) \in Seq((S \ {Key}) \cup {Redacted})
         /\ Len(redact(words)) = Len(words)
         /\ \A i \in 1..Len(words) :
              redact(words)[i] = IF words[i] = Key THEN Redacted ELSE words[i]
<1>1. DOMAIN words = 1..Len(words) /\ Len(words) \in Nat /\ \A i \in 1..Len(words) : words[i] \in S
  OBVIOUS
<1>2. redact(words) =
        [i \in 1..Len(words) |-> IF words[i] = Key THEN Redacted ELSE words[i]]
  BY <1>1 DEF redact
<1>3. QED
  BY <1>1, <1>2

\* A text without the key stays as it is.
LEMMA RedactLeaves ==
  ASSUME NEW S, Key \notin S, NEW words \in Seq(S)
  PROVE  redact(words) = words
<1> DEFINE r == redact(words)
<1>1. /\ r \in Seq((S \ {Key}) \cup {Redacted}) /\ Len(r) = Len(words)
      /\ \A i \in 1..Len(words) : r[i] = IF words[i] = Key THEN Redacted ELSE words[i]
  BY Redacts
<1> HIDE DEF r
<1>2. \A i \in 1..Len(words) : words[i] \in S
  OBVIOUS
<1>3. \A i \in 1..Len(words) : r[i] = words[i]
  BY <1>1, <1>2
<1>4. r \in Seq(S \cup {Redacted}) /\ words \in Seq(S \cup {Redacted})
  BY <1>1, SeqMonotonic
<1>5. r = words
  BY <1>1, <1>3, <1>4, SeqEqual
<1>6. QED
  BY <1>5 DEF r

\* What is scrubbed is free of the key and of every phrase that a stop follows;
\* to scrub it again changes nothing.
LEMMA Scrubs ==
  ASSUME NEW S, NEW words \in Seq(S)
  PROVE  /\ \E U : Key \notin U /\ scrub_text(words) \in Seq(U)
         /\ \A opener \in Openers : Free(opener, scrub_text(words))
         /\ scrub_text(scrub_text(words)) = scrub_text(words)
<1> DEFINE U == (S \ {Key}) \cup {Redacted, Blocked}
           r0 == redact(words)
           r1 == sub(Ignore, r0)
           r2 == sub(WireNow, r1)
           r3 == sub(NoteTo, r2)
<1>1. Key \notin U /\ Blocked \in U
  BY DEF Key, Redacted, Blocked
<1>2. /\ {Ignore, WireNow, NoteTo} \cap {Stop, Blocked} = {}
      /\ Openers = {Ignore, WireNow, NoteTo}
  BY DEF Openers, Ignore, WireNow, NoteTo, Stop, Blocked
<1>3. r0 \in Seq(U)
  <2>1. r0 \in Seq((S \ {Key}) \cup {Redacted})
    BY Redacts
  <2>2. (S \ {Key}) \cup {Redacted} \subseteq U
    OBVIOUS
  <2> HIDE DEF r0, U
  <2>3. QED
    BY <2>1, <2>2, SeqMonotonic
<1> HIDE DEF U, r0
<1>4. r1 \in Seq(U) /\ Free(Ignore, r1)
  BY <1>1, <1>2, <1>3, SubFrees
<1> HIDE DEF r1
<1>5. r2 \in Seq(U) /\ Free(WireNow, r2) /\ Free(Ignore, r2)
  BY <1>1, <1>2, <1>4, SubFrees, SubKeepsFree
<1> HIDE DEF r2
<1>6. r3 \in Seq(U) /\ Free(NoteTo, r3)
  BY <1>1, <1>2, <1>5, SubFrees
<1>7. Free(WireNow, r3) /\ Free(Ignore, r3)
  BY <1>1, <1>2, <1>5, SubKeepsFree
<1> HIDE DEF r3
<1>8. scrub_text(words) = r3
  BY DEF scrub_text, r0, r1, r2, r3
<1>9. /\ redact(r3) = r3 /\ sub(Ignore, r3) = r3
      /\ sub(WireNow, r3) = r3 /\ sub(NoteTo, r3) = r3
  BY <1>1, <1>2, <1>6, <1>7, RedactLeaves, SubLeaves
<1>10. scrub_text(r3) = r3
  BY <1>9 DEF scrub_text
<1>11. \A opener \in Openers : Free(opener, r3)
  BY <1>2, <1>6, <1>7
<1>12. QED
  BY <1>1, <1>6, <1>8, <1>10, <1>11

\* A word that two stops and more stand between and the last phrase before it
\* survives the three patterns, of which each takes a stop at most.
LEMMA ScrubKeeps ==
  ASSUME NEW S, NEW words \in Seq(S), NEW w, w # Key, Zone(words, 2, w)
  PROVE  w \in ToSet(scrub_text(words))
<1> DEFINE U == S \cup {Redacted, Blocked}
           r0 == redact(words)
           r1 == sub(Ignore, r0)
           r2 == sub(WireNow, r1)
<1>1. /\ r0 \in Seq((S \ {Key}) \cup {Redacted}) /\ Len(r0) = Len(words)
      /\ \A i \in 1..Len(words) : r0[i] = IF words[i] = Key THEN Redacted ELSE words[i]
  BY Redacts
<1> HIDE DEF r0
<1>2. r0 \in Seq(U)
  <2>1. (S \ {Key}) \cup {Redacted} \subseteq U
    OBVIOUS
  <2> HIDE DEF U
  <2>2. QED
    BY <1>1, <2>1, SeqMonotonic
<1>3. Zone(r0, 2, w)
  <2>1. PICK z \in [0..2 -> 0..Len(words)], b \in 1..Len(words) :
          /\ words[b] = w
          /\ \A i \in 0..2 : z[i] < b /\ (z[i] # 0 => words[z[i]] = Stop)
          /\ \A i, j \in 0..2 : i < j => z[i] < z[j] \/ (z[i] = 0 /\ z[j] = 0)
          /\ \A i \in (z[0] + 1)..b : words[i] \notin Openers
    BY DEF Zone
  <2>2. Stop # Key /\ Redacted \notin Openers
    BY DEF Stop, Key, Redacted, Openers, Ignore, WireNow, NoteTo
  <2>3. r0[b] = w
    BY <1>1, <2>1
  <2>4. \A i \in 0..2 : z[i] < b /\ (z[i] # 0 => r0[z[i]] = Stop)
    <3> TAKE i \in 0..2
    <3>1. z[i] # 0 => z[i] \in 1..Len(words)
      OBVIOUS
    <3>2. QED
      BY <1>1, <2>1, <2>2, <3>1
  <2>5. \A i \in (z[0] + 1)..b : r0[i] \notin Openers
    <3> TAKE i \in (z[0] + 1)..b
    <3>1. i \in 1..Len(words)
      OBVIOUS
    <3>2. words[i] \notin Openers
      BY <2>1
    <3>3. QED
      BY <1>1, <2>2, <3>1, <3>2
  <2>6. QED
    BY <1>1, <2>1, <2>3, <2>4, <2>5 DEF Zone
<1>4. /\ Blocked \in U /\ Openers = {Ignore, WireNow, NoteTo}
      /\ \A opener \in Openers : opener \notin {Stop, Blocked}
  BY DEF Openers, Ignore, WireNow, NoteTo, Stop, Blocked
<1> HIDE DEF U
<1>5. r1 \in Seq(U) /\ Zone(r1, 1, w)
  <2>1. Zone(r1, 2 - 1, w)
    BY <1>2, <1>3, <1>4, SubKeepsZone
  <2>2. r1 \in Seq(U)
    BY <1>2, <1>4, SubFrees
  <2> HIDE DEF r1
  <2>3. QED
    BY <2>1, <2>2
<1> HIDE DEF r1
<1>6. r2 \in Seq(U) /\ Zone(r2, 0, w)
  <2>1. Zone(r2, 1 - 1, w)
    BY <1>4, <1>5, SubKeepsZone
  <2>2. r2 \in Seq(U)
    BY <1>4, <1>5, SubFrees
  <2> HIDE DEF r2
  <2>3. QED
    BY <2>1, <2>2
<1> HIDE DEF r2
<1>7. w \in ToSet(sub(NoteTo, r2))
  BY <1>4, <1>6, SubKeepsZone
<1>8. scrub_text(words) = sub(NoteTo, r2)
  BY DEF scrub_text, r0, r1, r2
<1>9. QED
  BY <1>7, <1>8

----------------------------------------------------------------------------
(* What was said. *)

\* The sequences joined, one after the other.
Joins(seqs, h) ==
  /\ h[0] = <<>>
  /\ \A k \in 1..Len(seqs) : h[k] = h[k - 1] \o seqs[k]

\* The same up to the k-th, as a recursive function on 0..k.
FlattensUpTo(k, seqs, f) ==
  f = [i \in 1..k |-> IF i = 1 THEN seqs[i] ELSE f[i - 1] \o seqs[i]]

\* A list of lists is put together list by list.
LEMMA JoinSteps ==
  ASSUME NEW S, NEW seqs \in Seq(Seq(S))
  PROVE  \E h : Joins(seqs, h) /\ FlattenSeq(seqs) = h[Len(seqs)]
<1> DEFINE n == Len(seqs)
           T == {m \in 1..n : \E f : FlattensUpTo(m, seqs, f)}
<1>0. n \in Nat /\ \A i \in 1..n : seqs[i] \in Seq(S)
  OBVIOUS
<1>1. CASE n = 0
  <2> DEFINE h == [k \in {0} |-> <<>>]
  <2>1. h[0] = <<>> /\ seqs = <<>>
    BY <1>1
  <2>2. FlattenSeq(seqs) = <<>>
    BY <2>1 DEF FlattenSeq
  <2> HIDE DEF h
  <2>3. QED
    BY <1>1, <2>1, <2>2 DEF Joins
<1>2. CASE n # 0
  <2> HIDE DEF n
  <2>1. 1 \in T
    <3> DEFINE f == [i \in 1..1 |-> seqs[1]]
    <3>1. f = [i \in 1..1 |-> IF i = 1 THEN seqs[i] ELSE f[i - 1] \o seqs[i]]
      OBVIOUS
    <3>2. FlattensUpTo(1, seqs, f)
      BY <3>1, Zenon DEF FlattensUpTo
    <3> HIDE DEF f
    <3>3. 1 \in 1..n
      BY <1>0, <1>2
    <3>4. QED
      BY <3>2, <3>3
  <2>2. ASSUME NEW m \in 1..(n - 1), m \in T
        PROVE  m + 1 \in T
    <3>1. PICK f : FlattensUpTo(m, seqs, f)
      BY <2>2
    <3> DEFINE g == [i \in 1..(m + 1) |-> IF i <= m THEN f[i] ELSE f[m] \o seqs[m + 1]]
               h == [i \in 1..(m + 1) |-> IF i = 1 THEN seqs[i] ELSE g[i - 1] \o seqs[i]]
    <3>2. ASSUME NEW i \in 1..(m + 1)
          PROVE  g[i] = h[i]
      <4>1. CASE i = m + 1
        <5>1. m \in 1..(m + 1) /\ m <= m /\ i # 1 /\ i - 1 = m /\ ~(i <= m)
          BY <4>1
        <5>2. g[m] = f[m]
          BY <5>1, Zenon
        <5>3. g[i] = f[m] \o seqs[m + 1]
          BY <5>1, Zenon
        <5>4. h[i] = g[i - 1] \o seqs[i]
          BY <5>1, Zenon
        <5> HIDE DEF g, h
        <5>5. QED
          BY <4>1, <5>1, <5>2, <5>3, <5>4
      <4>2. CASE i # m + 1
        <5>1. i \in 1..m /\ i <= m /\ (i # 1 => i - 1 \in 1..(m + 1) /\ i - 1 <= m)
          BY <4>2
        <5>2. g[i] = f[i]
          BY <5>1, Zenon
        <5>3. f[i] = IF i = 1 THEN seqs[i] ELSE f[i - 1] \o seqs[i]
          BY <3>1, <5>1, Zenon DEF FlattensUpTo
        <5>4. i # 1 => g[i - 1] = f[i - 1]
          BY <5>1, Zenon
        <5>5. h[i] = IF i = 1 THEN seqs[i] ELSE g[i - 1] \o seqs[i]
          BY Zenon
        <5> HIDE DEF g, h
        <5>6. QED
          BY <5>2, <5>3, <5>4, <5>5, Zenon
      <4>3. QED
        BY <4>1, <4>2
    <3>3. g = h
      BY <3>2
    <3>4. FlattensUpTo(m + 1, seqs, g)
      BY <3>3, Zenon DEF FlattensUpTo
    <3> HIDE DEF g, h
    <3>5. m + 1 \in 1..n
      BY <1>0
    <3>6. QED
      BY <3>4, <3>5
  <2>3. n \in T
    <3> HIDE DEF T
    <3>1. \A k \in 1..(n - 1) : k \in T => k + 1 \in T
      BY <2>2
    <3>2. 1 <= n /\ 1 \in Nat
      BY <1>0, <1>2
    <3>3. \A k \in 1..n : k \in T
      BY <1>0, <2>1, <3>1, <3>2, PlaceByPlace
    <3>4. QED
      BY <1>0, <3>2, <3>3
  <2>4. PICK f : FlattensUpTo(n, seqs, f)
    BY <2>3
  <2> DEFINE g == CHOOSE x : x = [i \in 1..n |-> IF i = 1 THEN seqs[i] ELSE x[i - 1] \o seqs[i]]
             h == [k \in 0..n |-> IF k = 0 THEN <<>> ELSE g[k]]
  <2>5. g = [i \in 1..n |-> IF i = 1 THEN seqs[i] ELSE g[i - 1] \o seqs[i]]
    BY <2>4, Zenon DEF FlattensUpTo
  <2>6. FlattenSeq(seqs) = g[n]
    BY <1>2 DEF FlattenSeq, n
  <2> HIDE DEF g
  <2>7. h[0] = <<>> /\ h[n] = g[n]
    BY <1>0, <1>2
  <2>8. ASSUME NEW k \in 1..n
        PROVE  h[k] = h[k - 1] \o seqs[k]
    <3>1. h[k] = g[k] /\ g[k] = IF k = 1 THEN seqs[k] ELSE g[k - 1] \o seqs[k]
      <4>1. k \in 0..n /\ k # 0
        BY <1>0
      <4>2. h[k] = g[k]
        BY <4>1, Zenon
      <4>3. QED
        BY <2>5, <4>2, Zenon
    <3>2. CASE k = 1
      <4>1. h[k - 1] = <<>>
        BY <2>7, <3>2
      <4>2. seqs[k] \in Seq(S)
        BY <1>0
      <4>3. <<>> \o seqs[k] = seqs[k]
        BY <4>2
      <4> HIDE DEF h
      <4>4. QED
        BY <3>1, <3>2, <4>1, <4>3
    <3>3. CASE k # 1
      <4>1. k - 1 \in 0..n /\ k - 1 # 0
        BY <1>0, <3>3
      <4>2. h[k - 1] = g[k - 1]
        BY <4>1, Zenon
      <4> HIDE DEF h
      <4>3. QED
        BY <3>1, <3>3, <4>2
    <3>4. QED
      BY <3>2, <3>3
  <2> HIDE DEF h
  <2>9. QED
    BY <2>6, <2>7, <2>8 DEF Joins, n
<1>3. QED
  BY <1>1, <1>2

\* c is b, put behind a.
Behind(a, b, c) ==
  /\ Len(c) = Len(a) + Len(b) /\ Len(a) \in Nat /\ Len(b) \in Nat
  /\ \A i \in 1..Len(a) : c[i] = a[i]
  /\ \A i \in 1..Len(b) : c[Len(a) + i] = b[i]

\* What two lists make together.
LEMMA OneBehind ==
  ASSUME NEW S, NEW a \in Seq(S), NEW b \in Seq(S)
  PROVE  Behind(a, b, a \o b)
<1> DEFINE c == a \o b
<1>1. /\ Len(c) = Len(a) + Len(b) /\ Len(a) \in Nat /\ Len(b) \in Nat
      /\ \A i \in 1..Len(a) + Len(b) : c[i] = IF i <= Len(a) THEN a[i] ELSE b[i - Len(a)]
  BY ConcatProperties
<1> HIDE DEF c
<1>2. \A i \in 1..Len(a) : c[i] = a[i]
  BY <1>1
<1>3. ASSUME NEW i \in 1..Len(b)
      PROVE  c[Len(a) + i] = b[i]
  <2>1. Len(a) + i \in 1..Len(a) + Len(b) /\ ~(Len(a) + i <= Len(a)) /\ (Len(a) + i) - Len(a) = i
    BY <1>1
  <2>2. QED
    BY <1>1, <2>1
<1>4. QED
  BY <1>1, <1>2, <1>3 DEF Behind, c

\* Where each sequence ends in the text they are joined to.
EndsAt(seqs, words, e) ==
  /\ e \in [0..Len(seqs) -> 0..Len(words)] /\ e[0] = 0
  /\ \A k \in 1..Len(seqs) :
       /\ e[k] = e[k - 1] + Len(seqs[k])
       /\ \A i \in 1..Len(seqs[k]) : words[e[k - 1] + i] = seqs[k][i]

\* Each list keeps its place in the whole: e[k] is where list k ends.
LEMMA Pieces ==
  ASSUME NEW S, NEW seqs \in Seq(Seq(S)), NEW words, words = FlattenSeq(seqs)
  PROVE  /\ words \in Seq(S)
         /\ \E e : EndsAt(seqs, words, e)
<1> DEFINE n == Len(seqs)
<1>1. n \in Nat /\ \A i \in 1..n : seqs[i] \in Seq(S)
  OBVIOUS
<1>2. PICK h : Joins(seqs, h) /\ words = h[n]
  BY JoinSteps
<1> HIDE DEF n
<1>3. \A k \in 1..n : h[k] = h[k - 1] \o seqs[k]
  BY <1>2 DEF Joins, n
<1>4. \A k \in 0..n : h[k] \in Seq(S)
  <2> DEFINE T == {k \in 0..n : h[k] \in Seq(S)}
  <2>1. 0 \in T
    <3>1. h[0] = <<>>
      BY <1>2 DEF Joins
    <3>2. h[0] \in Seq(S)
      BY <3>1
    <3>3. QED
      BY <1>1, <3>2
  <2>2. ASSUME NEW k \in 0..(n - 1), k \in T
        PROVE  k + 1 \in T
    <3>1. k + 1 \in 1..n /\ k + 1 \in 0..n /\ (k + 1) - 1 = k
      BY <1>1
    <3>2. h[k + 1] = h[k] \o seqs[k + 1] /\ h[k] \in Seq(S) /\ seqs[k + 1] \in Seq(S)
      BY <1>1, <1>3, <2>2, <3>1
    <3>3. h[k + 1] \in Seq(S)
      BY <3>2
    <3>4. QED
      BY <3>1, <3>3
  <2> HIDE DEF T
  <2>3. \A k \in 0..n : k \in T
    <3>1. 0 <= n
      BY <1>1
    <3>2. QED
      BY <1>1, <2>1, <2>2, <3>1, PlaceByPlace
  <2>4. QED
    BY <2>3 DEF T
<1>5. \A k \in 1..n : Behind(h[k - 1], seqs[k], h[k])
  <2> TAKE k \in 1..n
  <2>1. h[k - 1] \in Seq(S) /\ seqs[k] \in Seq(S) /\ h[k] = h[k - 1] \o seqs[k]
    <3>1. k - 1 \in 0..n
      BY <1>1
    <3> DEFINE whole == h[k - 1] \o seqs[k]
    <3>2. h[k] = whole
      BY <1>3
    <3> HIDE DEF whole
    <3>3. h[k - 1] \in Seq(S) /\ seqs[k] \in Seq(S)
      BY <1>1, <1>4, <3>1
    <3>4. QED
      BY <3>2, <3>3 DEF whole
  <2>2. QED
    BY <2>1, OneBehind
<1>6. ASSUME NEW k \in 0..n
      PROVE  Len(h[k]) <= Len(words) /\ \A i \in 1..Len(h[k]) : words[i] = h[k][i]
  <2> DEFINE T == {j \in k..n : Len(h[k]) <= Len(h[j]) /\ \A i \in 1..Len(h[k]) : h[j][i] = h[k][i]}
  <2>1. Len(h[k]) \in Nat /\ k \in k..n /\ k \in Nat /\ k <= n
    BY <1>1, <1>4
  <2>2. k \in T
    BY <2>1
  <2>3. ASSUME NEW j \in k..(n - 1), j \in T
        PROVE  j + 1 \in T
    <3>1. j + 1 \in 1..n /\ j + 1 \in k..n /\ (j + 1) - 1 = j
      BY <1>1
    <3> DEFINE a == h[j]
               b == h[j + 1]
               c == h[k]
    <3>2. Len(a) <= Len(b) /\ Len(a) \in Nat /\ Len(b) \in Nat /\ \A i \in 1..Len(a) : b[i] = a[i]
      <4>1. Behind(a, seqs[j + 1], b)
        BY <1>5, <3>1
      <4> HIDE DEF a, b
      <4>2. QED
        BY <4>1 DEF Behind
    <3>3. Len(c) <= Len(a) /\ Len(c) \in Nat /\ \A i \in 1..Len(c) : a[i] = c[i]
      BY <2>1, <2>3
    <3>4. Len(c) <= Len(b) /\ \A i \in 1..Len(c) : b[i] = c[i]
      <4> HIDE DEF a, b, c
      <4>1. Len(c) <= Len(b) /\ \A i \in 1..Len(c) : i \in 1..Len(a)
        BY <3>2, <3>3
      <4>2. QED
        BY <3>2, <3>3, <4>1
    <3>5. QED
      BY <3>1, <3>4
  <2> HIDE DEF T
  <2>4. \A j \in k..n : j \in T
    BY <1>1, <2>1, <2>2, <2>3, PlaceByPlace
  <2>5. n \in T
    BY <1>1, <2>1, <2>4
  <2>6. QED
    BY <1>2, <2>5 DEF T
<1> DEFINE e == [k \in 0..n |-> Len(h[k])]
<1>7. words \in Seq(S)
  BY <1>1, <1>2, <1>4
<1>8. e \in [0..n -> 0..Len(words)]
  <2>1. \A k \in 0..n : Len(h[k]) \in 0..Len(words)
    BY <1>4, <1>6, <1>7
  <2>2. QED
    BY <2>1
<1>9. e[0] = 0
  BY <1>1, <1>2 DEF Joins
<1>10. ASSUME NEW k \in 1..n
       PROVE  /\ e[k] = e[k - 1] + Len(seqs[k])
              /\ \A i \in 1..Len(seqs[k]) : words[e[k - 1] + i] = seqs[k][i]
  <2>1. k - 1 \in 0..n /\ k \in 0..n
    BY <1>1
  <2>2. e[k] = Len(h[k]) /\ e[k - 1] = Len(h[k - 1])
    BY <2>1
  <2> HIDE DEF e
  <2> DEFINE a == h[k - 1]
             b == seqs[k]
             c == h[k]
  <2>b. Behind(a, b, c)
    BY <1>5
  <2>t. Len(c) <= Len(words) /\ \A i \in 1..Len(c) : words[i] = c[i]
    BY <1>6, <2>1
  <2>3. e[k] = e[k - 1] + Len(seqs[k])
    BY <2>2, <2>b DEF Behind
  <2>4. ASSUME NEW i \in 1..Len(seqs[k])
        PROVE  words[e[k - 1] + i] = seqs[k][i]
    <3>1. i \in 1..Len(b) /\ e[k - 1] = Len(a)
      BY <2>2
    <3>2. words[Len(a) + i] = b[i]
      <4> HIDE DEF a, b, c
      <4>1. Len(a) + i \in 1..Len(c)
        BY <2>b, <3>1 DEF Behind
      <4>2. QED
        BY <2>b, <2>t, <3>1, <4>1 DEF Behind
    <3>3. QED
      BY <3>1, <3>2
  <2>5. QED
    BY <2>3, <2>4
<1> HIDE DEF e
<1>11. EndsAt(seqs, words, e)
  BY <1>8, <1>9, <1>10, Zenon DEF n, EndsAt
<1>12. QED
  BY <1>7, <1>11

\* All that texts are made of.
Sayable == STRING \cup Phrases

\* What is said has a word for each sentence.
LEMMA SaidWell ==
  ASSUME NEW s \in Outputs
  PROVE  /\ s.sentences \in Seq(Seq(Openers \cup {Key}))
         /\ Len(s.sentences) <= Len(Words)
<1>1. CASE s \in HookTexts
  BY <1>1, SanitizeAssumption
<1>2. CASE s \in {get_receipt(id) : id \in DOMAIN _RECEIPTS}
  <2> DEFINE P == Openers \cup {Key}
             e == <<>>
             both == <<NoteTo, Ignore>>
             wire == <<WireNow>>
             key == <<Key>>
  <2>1. e \in Seq(P) /\ both \in Seq(P) /\ wire \in Seq(P) /\ key \in Seq(P)
    BY DEF Openers
  <2>2. \/ s.sentences = <<e, e>>
        \/ s.sentences = <<e, e, e, key, e, e>>
        \/ s.sentences = <<e, both, e, wire, e, e>>
        \/ s.sentences = <<e, e, e, e>>
    BY <1>2 DEF get_receipt, _RECEIPTS, Said
  <2> HIDE DEF P, e, both, wire, key
  <2>3. s.sentences \in Seq(Seq(P)) /\ Len(s.sentences) <= 6
    <3>1. CASE s.sentences = <<e, e>>
      BY <2>1, <3>1
    <3>2. CASE s.sentences = <<e, e, e, key, e, e>>
      BY <2>1, <3>2
    <3>3. CASE s.sentences = <<e, both, e, wire, e, e>>
      BY <2>1, <3>3
    <3>4. CASE s.sentences = <<e, e, e, e>>
      BY <2>1, <3>4
    <3>5. QED
      BY <2>2, <3>1, <3>2, <3>3, <3>4
  <2>4. Words \in Seq(STRING \ Phrases) /\ Len(Words) >= 6
    BY SanitizeAssumption
  <2>5. Len(s.sentences) <= Len(Words)
    BY <2>3, <2>4
  <2>6. QED
    BY <2>3, <2>5 DEF P
<1>3. QED
  BY <1>1, <1>2 DEF Outputs

\* The sentences as TextOf says them.
Sentences(s) ==
  [k \in 1..Len(s.sentences) |->
     s.sentences[k] \o <<Words[k]>>
       \o (IF k < Len(s.sentences) \/ s.ends THEN <<Stop>> ELSE <<>>)]

\* A sentence is its phrases, then its word, then its stop.
LEMMA SentenceParts ==
  ASSUME NEW s \in Outputs, NEW k \in 1..Len(s.sentences)
  PROVE  LET t == Sentences(s)[k]
             l == Len(s.sentences[k])
         IN  /\ t \in Seq(Sayable) /\ Len(t) \in Nat /\ l \in Nat
             /\ \A i \in 1..l : t[i] = s.sentences[k][i]
             /\ l + 1 <= Len(t) /\ t[l + 1] = Words[k]
             /\ k < Len(s.sentences) => Len(t) = l + 2 /\ t[l + 2] = Stop
<1> DEFINE n == Len(s.sentences)
           a == s.sentences[k]
           w == <<Words[k]>>
           z == IF k < n \/ s.ends THEN <<Stop>> ELSE <<>>
<1>1. s.sentences \in Seq(Seq(Openers \cup {Key})) /\ n <= Len(Words) /\ n \in Nat
  BY SaidWell
<1>2. Openers \cup {Key} \subseteq Sayable /\ Stop \in Sayable
  BY DEF Sayable, Phrases
<1>3. a \in Seq(Sayable)
  <2>1. a \in Seq(Openers \cup {Key})
    BY <1>1
  <2> HIDE DEF a
  <2>2. QED
    BY <1>2, <2>1, SeqMonotonic
<1>4. w \in Seq(Sayable) /\ Len(w) = 1 /\ w[1] = Words[k]
  <2>1. k \in 1..Len(Words) /\ Words \in Seq(STRING \ Phrases)
    BY <1>1, SanitizeAssumption
  <2>2. Words[k] \in Sayable
    BY <2>1 DEF Sayable
  <2>3. QED
    BY <2>2
<1>5. z \in Seq(Sayable) /\ (k < n => Len(z) = 1 /\ z[1] = Stop)
  BY <1>2
<1>6. Sentences(s)[k] = (a \o w) \o z
  BY DEF Sentences
<1> HIDE DEF a, w, z, n
<1> DEFINE u == a \o w
<1>7. u \in Seq(Sayable) /\ Behind(a, w, u)
  BY <1>3, <1>4, OneBehind
<1> HIDE DEF u
<1> DEFINE t == u \o z
<1>8. t \in Seq(Sayable) /\ Behind(u, z, t)
  BY <1>5, <1>7, OneBehind
<1> HIDE DEF t
<1>9. Len(u) = Len(a) + 1 /\ Len(a) \in Nat /\ u[Len(a) + 1] = Words[k]
      /\ \A i \in 1..Len(a) : u[i] = a[i]
  BY <1>4, <1>7 DEF Behind
<1>10. \A i \in 1..(Len(a) + 1) : t[i] = u[i]
  BY <1>8, <1>9 DEF Behind
<1>11. /\ (\A i \in 1..Len(a) : t[i] = a[i]) /\ t[Len(a) + 1] = Words[k]
       /\ Len(a) + 1 <= Len(t) /\ Len(t) \in Nat
  <2>1. Len(a) + 1 \in 1..(Len(a) + 1) /\ \A i \in 1..Len(a) : i \in 1..(Len(a) + 1)
    BY <1>9
  <2>2. Len(a) + 1 <= Len(t) /\ Len(t) \in Nat
    BY <1>8, <1>9 DEF Behind
  <2>3. QED
    BY <1>9, <1>10, <2>1, <2>2
<1>12. ASSUME k < n
       PROVE  Len(t) = Len(a) + 2 /\ t[Len(a) + 2] = Stop
  <2>0. Len(z) = 1 /\ z[1] = Stop
    BY <1>5, <1>12, Zenon
  <2>1. Len(z) = 1 /\ z[1] = Stop /\ 1 \in 1..Len(z)
    BY <2>0
  <2>2. Len(t) = (Len(a) + 1) + 1 /\ t[(Len(a) + 1) + 1] = z[1]
    BY <1>8, <1>9, <2>1 DEF Behind
  <2>3. (Len(a) + 1) + 1 = Len(a) + 2
    BY <1>9
  <2>4. QED
    BY <2>1, <2>2, <2>3
<1>13. Sentences(s)[k] = t
  BY <1>6 DEF t, u
<1>14. QED
  BY <1>8, <1>9, <1>11, <1>12, <1>13 DEF a, n

\* What was said is a text, and holds every sentence's word; one that was said
\* after two sentences without phrases, and with none itself, has its zone.
LEMMA SaidText ==
  ASSUME NEW s \in Outputs
  PROVE  /\ TextOf(s) \in Seq(Sayable)
         /\ \A k \in 1..Len(s.sentences) :
              /\ Words[k] # Key /\ Words[k] \in ToSet(TextOf(s))
              /\ (\A j \in 1..k : j >= k - 2 => ToSet(s.sentences[j]) \cap Openers = {}) =>
                   Zone(TextOf(s), 2, Words[k])
<1> DEFINE n == Len(s.sentences)
           q == Sentences(s)
           words == TextOf(s)
<1>1. n \in Nat /\ q \in Seq(Seq(Sayable)) /\ Len(q) = n
  <2>1. s.sentences \in Seq(Seq(Openers \cup {Key}))
    BY SaidWell
  <2>2. n \in Nat
    BY <2>1
  <2>3. \A k \in 1..n : q[k] \in Seq(Sayable)
    BY SentenceParts
  <2>4. q = [k \in 1..n |-> q[k]]
    BY DEF Sentences
  <2> HIDE DEF q, n
  <2>5. QED
    BY <2>2, <2>3, <2>4
<1>2. words = FlattenSeq(q)
  BY DEF TextOf, Sentences
<1> HIDE DEF words, q
<1>3. words \in Seq(Sayable)
  BY <1>1, <1>2, Pieces
<1>4. PICK e \in [0..n -> 0..Len(words)] :
        /\ e[0] = 0
        /\ \A k \in 1..n : /\ e[k] = e[k - 1] + Len(q[k])
                           /\ \A i \in 1..Len(q[k]) : words[e[k - 1] + i] = q[k][i]
  <2>1. PICK e : EndsAt(q, words, e)
    BY <1>1, <1>2, Pieces
  <2> HIDE DEF n
  <2>2. QED
    BY <1>1, <2>1 DEF EndsAt
<1> DEFINE l(k) == Len(s.sentences[k])
<1>5. ASSUME NEW k \in 1..n
      PROVE  /\ k - 1 \in 0..n /\ k \in 0..n
             /\ e[k - 1] \in Nat /\ e[k] \in Nat /\ l(k) \in Nat
             /\ e[k - 1] + l(k) + 1 <= e[k] /\ e[k] <= Len(words)
             /\ \A i \in 1..l(k) : words[e[k - 1] + i] = s.sentences[k][i]
             /\ words[e[k - 1] + l(k) + 1] = Words[k]
             /\ k < n => e[k] = e[k - 1] + l(k) + 2 /\ words[e[k]] = Stop
  <2> DEFINE t == q[k]
             m == l(k)
             a == e[k - 1]
             b == e[k]
  <2>1. /\ Len(t) \in Nat /\ m \in Nat
        /\ \A i \in 1..m : t[i] = s.sentences[k][i]
        /\ m + 1 <= Len(t) /\ t[m + 1] = Words[k]
        /\ k < n => Len(t) = m + 2 /\ t[m + 2] = Stop
    BY SentenceParts DEF q
  <2>2. k - 1 \in 0..n /\ k \in 0..n
    BY <1>1
  <2>3. a \in Nat /\ b \in 0..Len(words) /\ Len(words) \in Nat
    <3>1. Len(words) \in Nat
      BY <1>3
    <3>2. e[k - 1] \in 0..Len(words) /\ e[k] \in 0..Len(words)
      <4> HIDE DEF n
      <4>1. QED
        BY <1>4, <2>2
    <3>3. QED
      BY <3>1, <3>2
  <2>4. b = a + Len(t) /\ \A i \in 1..Len(t) : words[a + i] = t[i]
    BY <1>4
  <2> HIDE DEF t, m, a, b, n
  <2>5. \A i \in 1..m : words[a + i] = s.sentences[k][i]
    <3>1. \A i \in 1..m : i \in 1..Len(t)
      BY <2>1, <2>3
    <3>2. \A i \in 1..m : t[i] = s.sentences[k][i]
      BY <2>1
    <3>3. QED
      BY <2>4, <3>1, <3>2, Zenon
  <2>6. words[a + m + 1] = Words[k] /\ a + m + 1 <= b
    <3>1. m + 1 \in 1..Len(t) /\ a + (m + 1) = a + m + 1
      BY <2>1, <2>3
    <3>2. QED
      BY <2>1, <2>3, <2>4, <3>1
  <2>7. ASSUME k < n
        PROVE  b = a + m + 2 /\ words[b] = Stop
    <3>1. Len(t) = m + 2 /\ t[m + 2] = Stop
      BY <2>1, <2>7, Zenon
    <3>2. m + 2 \in 1..Len(t) /\ a + (m + 2) = b /\ b = a + m + 2
      BY <2>1, <2>3, <2>4, <3>1
    <3>3. QED
      BY <2>4, <3>1, <3>2
  <2>8. QED
    BY <2>1, <2>2, <2>3, <2>5, <2>6, <2>7 DEF m, a, b
<1> HIDE DEF n
<1>6. ASSUME NEW k \in 1..n
      PROVE  Words[k] \notin Phrases
  <2>1. n <= Len(Words) /\ Words \in Seq(STRING \ Phrases)
    BY SaidWell, SanitizeAssumption DEF n
  <2>2. k \in 1..Len(Words)
    BY <1>1, <2>1
  <2>3. QED
    BY <2>1, <2>2
<1> DEFINE w(k) == e[k - 1] + l(k) + 1
<1>7. ASSUME NEW k \in 1..n
      PROVE  w(k) \in 1..Len(words) /\ words[w(k)] = Words[k]
  <2> DEFINE a == e[k - 1]
             b == e[k]
             m == l(k)
  <2>1. /\ a \in Nat /\ b \in Nat /\ m \in Nat /\ a + m + 1 <= b /\ b <= Len(words)
        /\ words[a + m + 1] = Words[k]
    BY <1>5
  <2>2. Len(words) \in Nat
    BY <1>3
  <2> HIDE DEF a, b, m
  <2>3. a + m + 1 \in 1..Len(words)
    BY <2>1, <2>2
  <2>4. QED
    BY <2>1, <2>3 DEF a, m
<1>8. ASSUME NEW k \in 1..n, ToSet(s.sentences[k]) \cap Openers = {}
      PROVE  /\ \A i \in (e[k - 1] + 1)..w(k) : words[i] \notin Openers
             /\ k < n => \A i \in (e[k - 1] + 1)..e[k] : words[i] \notin Openers
  <2> DEFINE a == e[k - 1]
             m == l(k)
             b == e[k]
             u == s.sentences[k]
  <2>1. /\ a \in Nat /\ b \in Nat /\ m \in Nat
        /\ \A i \in 1..m : words[a + i] = u[i]
        /\ words[a + m + 1] = Words[k]
        /\ k < n => b = a + m + 2 /\ words[b] = Stop
    BY <1>5
  <2>2. \A i \in 1..m : u[i] \notin Openers
    <3>1. u \in Seq(Openers \cup {Key})
      BY SaidWell DEF n
    <3>2. m = Len(u)
      OBVIOUS
    <3> HIDE DEF u, m
    <3>3. QED
      BY <1>8, <3>1, <3>2 DEF ToSet, u
  <2>3. Words[k] \notin Openers /\ Stop \notin Openers
    BY <1>6 DEF Phrases, Openers, Stop, Ignore, WireNow, NoteTo
  <2> HIDE DEF a, m, b, u
  <2>4. ASSUME NEW i \in (a + 1)..(a + m + 1)
        PROVE  words[i] \notin Openers
    <3>1. CASE i = a + m + 1
      BY <2>1, <2>3, <3>1
    <3>2. CASE i # a + m + 1
      <4> DEFINE j == i - a
      <4>1. j \in 1..m /\ a + j = i
        BY <2>1, <3>2
      <4> HIDE DEF j
      <4>2. words[a + j] = u[j] /\ u[j] \notin Openers
        BY <2>1, <2>2, <4>1
      <4>3. QED
        BY <4>1, <4>2
    <3>3. QED
      BY <3>1, <3>2
  <2>5. ASSUME k < n, NEW i \in (a + 1)..b
        PROVE  words[i] \notin Openers
    <3>1. b = a + m + 2 /\ words[b] = Stop
      BY <2>1, <2>5, Zenon
    <3>2. CASE i = b
      BY <2>3, <3>1, <3>2
    <3>3. CASE i # b
      <4>1. i \in (a + 1)..(a + m + 1)
        BY <2>1, <3>1, <3>3
      <4>2. QED
        BY <2>4, <4>1
    <3>4. QED
      BY <3>2, <3>3
  <2>6. QED
    BY <2>4, <2>5 DEF a, b, m
<1>9. ASSUME NEW k \in 1..n,
             \A j \in 1..k : j >= k - 2 => ToSet(s.sentences[j]) \cap Openers = {}
      PROVE  Zone(words, 2, Words[k])
  <2> DEFINE p == w(k)
             p2 == e[k - 1]
             p1 == IF k >= 2 THEN e[k - 2] ELSE 0
             p0 == IF k >= 3 THEN e[k - 3] ELSE 0
             y == [i \in 0..2 |-> IF i = 2 THEN p2 ELSE IF i = 1 THEN p1 ELSE p0]
  <2>0. ASSUME NEW j \in 1..n
        PROVE  /\ e[j - 1] \in Nat /\ e[j] \in Nat /\ e[j - 1] < e[j] /\ e[j - 1] < w(j)
               /\ j < n => words[e[j]] = Stop
    <3> DEFINE a == e[j - 1]
               b == e[j]
               m == l(j)
    <3>1. /\ a \in Nat /\ b \in Nat /\ m \in Nat /\ a + m + 1 <= b
          /\ j < n => words[b] = Stop
      BY <1>5
    <3> HIDE DEF a, b, m
    <3>2. a < b /\ a < a + m + 1
      BY <3>1
    <3>3. QED
      BY <3>1, <3>2 DEF a, b, m
  <2>1. p2 \in Nat /\ p2 < p /\ (k = 1 => p2 = 0) /\ (k >= 2 => words[p2] = Stop)
    <3>1. k >= 2 => k - 1 \in 1..n /\ k - 1 < n
      BY <1>1
    <3> HIDE DEF w
    <3>2. k >= 2 => words[e[k - 1]] = Stop
      BY <2>0, <3>1
    <3>3. p2 \in Nat /\ p2 < p
      BY <2>0
    <3>4. k = 1 => p2 = 0
      BY <1>4
    <3>5. QED
      BY <3>2, <3>3, <3>4
  <2>2. /\ p1 \in Nat /\ (k = 1 => p1 = 0) /\ (k >= 2 => p1 < p2)
        /\ (k = 2 => p1 = 0) /\ (k >= 3 => words[p1] = Stop)
    <3>1. k >= 2 => k - 1 \in 1..n /\ (k - 1) - 1 = k - 2
      BY <1>1
    <3>2. k >= 3 => k - 2 \in 1..n /\ k - 2 < n
      BY <1>1
    <3>3. k >= 2 => e[k - 2] \in Nat /\ e[k - 2] < e[k - 1]
      <4> SUFFICES ASSUME k >= 2
                   PROVE  e[k - 2] \in Nat /\ e[k - 2] < e[k - 1]
        OBVIOUS
      <4>1. e[(k - 1) - 1] \in Nat /\ e[(k - 1) - 1] < e[k - 1]
        BY <2>0, <3>1
      <4>2. QED
        BY <3>1, <4>1
    <3>4. k >= 3 => words[e[k - 2]] = Stop
      BY <2>0, <3>2
    <3>5. k = 2 => e[k - 2] = 0
      BY <1>4
    <3>6. QED
      BY <3>3, <3>4, <3>5
  <2>3. /\ p0 \in Nat /\ (k <= 2 => p0 = 0) /\ (k >= 3 => p0 < p1)
        /\ (k = 3 => p0 = 0) /\ (k >= 4 => words[p0] = Stop)
    <3>1. k >= 3 => k - 2 \in 1..n /\ (k - 2) - 1 = k - 3
      BY <1>1
    <3>2. k >= 4 => k - 3 \in 1..n /\ k - 3 < n
      BY <1>1
    <3>3. k >= 3 => e[k - 3] \in Nat /\ e[k - 3] < e[k - 2]
      <4> SUFFICES ASSUME k >= 3
                   PROVE  e[k - 3] \in Nat /\ e[k - 3] < e[k - 2]
        OBVIOUS
      <4>1. e[(k - 2) - 1] \in Nat /\ e[(k - 2) - 1] < e[k - 2]
        BY <2>0, <3>1
      <4>2. QED
        BY <3>1, <4>1
    <3>4. k >= 4 => words[e[k - 3]] = Stop
      BY <2>0, <3>2
    <3>5. k = 3 => e[k - 3] = 0
      BY <1>4
    <3>6. QED
      BY <3>3, <3>4, <3>5
  <2>4. ASSUME NEW i \in (p0 + 1)..p
        PROVE  words[i] \notin Openers
    <3> HIDE DEF w
    <3>1. CASE i > p2
      <4>1. i \in (e[k - 1] + 1)..w(k)
        BY <2>1, <2>3, <3>1
      <4>2. k >= k - 2 /\ k \in 1..k
        OBVIOUS
      <4>3. QED
        BY <1>8, <1>9, <4>1, <4>2
    <3>2. CASE i <= p2 /\ i > p1
      <4>1. k >= 2
        BY <2>1, <2>3, <3>2
      <4> DEFINE j == k - 1
      <4>2. j \in 1..n /\ j \in 1..k /\ j >= k - 2 /\ j < n /\ j - 1 = k - 2
        BY <1>1, <4>1
      <4>3. i \in (e[j - 1] + 1)..e[j]
        <5>1. p1 = e[k - 2]
          BY <4>1
        <5> HIDE DEF p1, p2, p0, p
        <5>2. i \in (p1 + 1)..p2
          BY <2>1, <2>2, <2>3, <3>2
        <5>3. QED
          BY <4>2, <5>1, <5>2 DEF p2
      <4> HIDE DEF j
      <4>4. ToSet(s.sentences[j]) \cap Openers = {}
        BY <1>9, <4>2
      <4>5. QED
        BY <1>8, <4>2, <4>3, <4>4
    <3>3. CASE i <= p2 /\ i <= p1
      <4>1. k >= 3
        <5> HIDE DEF p1, p2, p0, p
        <5>1. p1 # 0
          BY <2>2, <2>3, <3>3
        <5>2. QED
          BY <2>2, <5>1
      <4> DEFINE j == k - 2
      <4>2. j \in 1..n /\ j \in 1..k /\ j >= k - 2 /\ j < n /\ j - 1 = k - 3
        BY <1>1, <4>1
      <4>3. i \in (e[j - 1] + 1)..e[j]
        <5>1. p1 = e[k - 2] /\ p0 = e[k - 3]
          BY <4>1
        <5> HIDE DEF p1, p2, p0, p
        <5>2. i \in (p0 + 1)..p1
          BY <2>1, <2>2, <2>3, <3>3
        <5>3. QED
          BY <4>2, <5>1, <5>2
      <4> HIDE DEF j
      <4>4. ToSet(s.sentences[j]) \cap Openers = {}
        BY <1>9, <4>2
      <4>5. QED
        BY <1>8, <4>2, <4>3, <4>4
    <3>4. QED
      <4>1. p0 \in Nat /\ p1 \in Nat /\ p2 \in Nat
        BY <2>1, <2>2, <2>3
      <4> HIDE DEF p0, p1, p2, p
      <4>2. i > p2 \/ (i <= p2 /\ i > p1) \/ (i <= p2 /\ i <= p1)
        BY <4>1
      <4>3. QED
        BY <3>1, <3>2, <3>3, <4>2
  <2>5. p \in 1..Len(words) /\ words[p] = Words[k] /\ Len(words) \in Nat
    BY <1>3, <1>7
  <2> HIDE DEF p, p0, p1, p2
  <2>6. y[0] = p0 /\ y[1] = p1 /\ y[2] = p2
    OBVIOUS
  <2>7. /\ p0 < p1 \/ (p0 = 0 /\ p1 = 0)
        /\ p1 < p2 \/ (p1 = 0 /\ p2 = 0)
        /\ p0 < p2 \/ (p0 = 0 /\ p2 = 0)
        /\ p0 < p /\ p1 < p /\ p2 < p
    <3>1. CASE k = 1
      BY <2>1, <2>2, <2>3, <3>1
    <3>2. CASE k = 2
      <4>1. p2 \in Nat /\ p2 < p /\ p1 = 0 /\ p0 = 0 /\ p1 < p2
        BY <2>1, <2>2, <2>3, <3>2
      <4>2. p \in Nat
        BY <2>5
      <4>3. QED
        BY <4>1, <4>2
    <3>3. CASE k >= 3
      <4>1. k >= 2 /\ k \in Nat
        BY <1>1, <3>3
      <4>2. /\ p2 \in Nat /\ p1 \in Nat /\ p0 \in Nat
            /\ p2 < p /\ p1 < p2 /\ p0 < p1
        BY <2>1, <2>2, <2>3, <3>3, <4>1
      <4>3. p \in Nat
        BY <2>5
      <4>4. QED
        BY <4>2, <4>3
    <3>4. QED
      BY <1>1, <3>1, <3>2, <3>3
  <2>8. /\ p0 # 0 => words[p0] = Stop
        /\ p1 # 0 => words[p1] = Stop
        /\ p2 # 0 => words[p2] = Stop
    BY <1>1, <2>1, <2>2, <2>3
  <2>9. y \in [0..2 -> 0..Len(words)]
    <3>1. p0 \in 0..Len(words) /\ p1 \in 0..Len(words) /\ p2 \in 0..Len(words)
      BY <2>1, <2>2, <2>3, <2>5, <2>7
    <3>2. QED
      BY <3>1
  <2> HIDE DEF y
  <2>10. \A i \in 0..2 : i = 0 \/ i = 1 \/ i = 2
    OBVIOUS
  <2>11. \A i \in 0..2 : y[i] < p /\ (y[i] # 0 => words[y[i]] = Stop)
    BY <2>6, <2>7, <2>8, <2>10
  <2>12. \A i, j \in 0..2 : i < j => y[i] < y[j] \/ (y[i] = 0 /\ y[j] = 0)
    BY <2>6, <2>7, <2>10
  <2>13. \A i \in (y[0] + 1)..p : words[i] \notin Openers
    BY <2>4, <2>6
  <2>14. QED
    BY <2>5, <2>9, <2>11, <2>12, <2>13 DEF Zone
<1>10. ASSUME NEW k \in 1..n
       PROVE  Words[k] # Key /\ Words[k] \in ToSet(words)
  <2>1. Words[k] # Key
    BY <1>6 DEF Phrases
  <2>2. Words[k] \in ToSet(words)
    <3> HIDE DEF w
    <3>1. QED
      BY <1>3, <1>7 DEF ToSet
  <2>3. QED
    BY <2>1, <2>2
<1> HIDE DEF w, l
<1>11. QED
  BY <1>3, <1>9, <1>10 DEF words, n

----------------------------------------------------------------------------
(* The hook. *)

\* A result that the framework made of a text holds that text and no other
\* string, and the hook makes of it the result of the scrubbed text.
LEMMA ResultsHold ==
  ASSUME NEW x
  PROVE  /\ StringsIn(ToolResult(x)) = {x}
         /\ scrub(ToolResult(x)) = ToolResult(scrub_text(x))
<1> DEFINE P == {"content[0].type", "content[0].text", "structuredContent.result", "isError"}
           Q == {"content[0].text", "structuredContent.result"}
           v == ToolResult(x)
<1>1. /\ v = [place \in P |-> IF place \in Q THEN Str(x) ELSE Other]
      /\ Q \subseteq P /\ Q # {}
  BY DEF ToolResult
<1>2. /\ Str(x).is = "str" /\ Str(x).of = x
      /\ Other.is # "str"
  BY DEF Str, Other
<1>3. StringsIn(v) = {v[place].of : place \in {p \in DOMAIN v : v[p].is = "str"}}
  BY DEF StringsIn
<1>4. /\ scrub(v) = [place \in DOMAIN v |->
                          IF v[place].is = "str" THEN Str(scrub_text(v[place].of))
                          ELSE v[place]]
      /\ ToolResult(scrub_text(x)) =
           [place \in P |-> IF place \in Q THEN Str(scrub_text(x)) ELSE Other]
  BY DEF scrub, ToolResult
<1> HIDE DEF P, Q, v
<1>5. DOMAIN v = P /\ \A p \in P : v[p] = IF p \in Q THEN Str(x) ELSE Other
  BY <1>1
<1>6. {p \in DOMAIN v : v[p].is = "str"} = Q
  BY <1>1, <1>2, <1>5
<1>7. \A p \in Q : v[p].of = x
  BY <1>1, <1>2, <1>5
<1>8. StringsIn(v) = {x}
  BY <1>1, <1>3, <1>6, <1>7
<1>9. scrub(v) = [p \in P |-> IF p \in Q THEN Str(scrub_text(x)) ELSE Other]
  BY <1>1, <1>2, <1>4, <1>5
<1>10. QED
  BY <1>4, <1>8, <1>9 DEF v

\* A delivered result is the framework's, of what the hook makes of the text in
\* one pass, however often it has gone through.
HookInv ==
  /\ hops \in 0..MaxHops
  /\ source \in Outputs
  /\ result = ToolResult(IF hops = 0 THEN TextOf(source)
                         ELSE scrub_text(TextOf(source)))

\* The text is scrubbed by the first hook it passes, and no other changes it.
THEOREM OnePassIsEnough == HookSpec => []HookInv
<1>1. HookInit => HookInv
  BY SanitizeAssumption DEF HookInit, HookInv
<1>2. HookInv /\ [HookNext]_hookVars => HookInv'
  <2> SUFFICES ASSUME HookInv, [HookNext]_hookVars
               PROVE  HookInv'
    OBVIOUS
  <2> USE DEF HookInv
  <2>1. CASE tool_post_invoke
    <3> DEFINE words == TextOf(source)
               once == scrub_text(words)
    <3>1. words \in Seq(Sayable)
      BY SaidText
    <3>2. scrub_text(once) = once
      BY <3>1, Scrubs
    <3>3. /\ hops' = hops + 1 /\ hops < MaxHops /\ source' = source
          /\ result' = scrub(result)
      BY <2>1 DEF tool_post_invoke
    <3>4. hops' \in 0..MaxHops /\ hops' # 0
      BY <3>3, SanitizeAssumption
    <3>5. result' = ToolResult(once)
      <4>1. CASE hops = 0
        BY <3>3, <4>1, ResultsHold
      <4>2. CASE hops # 0
        <5>1. result = ToolResult(once)
          BY <4>2
        <5> HIDE DEF once
        <5>2. result' = ToolResult(scrub_text(once))
          BY <3>3, <5>1, ResultsHold
        <5>3. QED
          BY <3>2, <5>2
      <4>3. QED
        BY <4>1, <4>2
    <3>6. QED
      BY <3>3, <3>4, <3>5
  <2>2. CASE UNCHANGED hookVars
    BY <2>2 DEF hookVars
  <2>3. QED
    BY <2>1, <2>2 DEF HookNext
<1>3. QED
  BY <1>1, <1>2, PTL DEF HookSpec

\* Every delivered result is one the framework makes of a text, and what was said
\* is made of the phrases and the key.
THEOREM ResultsTyped == HookSpec => []HookTypeOK
<1>1. HookInv => HookTypeOK
  <2> SUFFICES ASSUME HookInv
               PROVE  HookTypeOK
    OBVIOUS
  <2> USE DEF HookInv
  <2>1. source.sentences \in Seq(Seq(Openers \cup {Key}))
    BY SaidWell
  <2>2. \A k \in DOMAIN source.sentences :
           ToSet(source.sentences[k]) \subseteq Openers \cup {Key}
    <3> DEFINE P == Openers \cup {Key}
    <3>1. \A k \in DOMAIN source.sentences : source.sentences[k] \in Seq(P)
      BY <2>1
    <3> HIDE DEF P
    <3>2. ASSUME NEW q \in Seq(P)
          PROVE  ToSet(q) \subseteq P
      BY <3>2 DEF ToSet
    <3>3. \A k \in DOMAIN source.sentences : ToSet(source.sentences[k]) \subseteq P
      BY <3>1, <3>2
    <3>4. QED
      BY <3>3 DEF P
  <2>3. \E words \in StringsIn(result) : result = ToolResult(words)
    BY ResultsHold
  <2>4. QED
    BY <2>2, <2>3 DEF HookTypeOK
<1>2. QED
  BY <1>1, OnePassIsEnough, PTL

\* Nothing the patterns describe is left in any string of a delivered result,
\* whatever the text and however often it passed the hook.
THEOREM NothingSlipsThrough == HookSpec => []Clean
<1>1. HookInv => Clean
  <2> SUFFICES ASSUME HookInv, hops > 0,
                      NEW words \in StringsIn(result)
               PROVE  /\ Key \notin ToSet(words)
                      /\ \A i, j \in DOMAIN words :
                           i < j /\ words[i] \in Openers => words[j] # Stop
    BY Zenon DEF Clean
  <2>1. hops # 0
    BY DEF HookInv
  <2>2. words = scrub_text(TextOf(source)) /\ source \in Outputs
    BY <2>1, ResultsHold DEF HookInv
  <2>3. TextOf(source) \in Seq(Sayable)
    BY <2>2, SaidText
  <2>4. /\ \E U : Key \notin U /\ words \in Seq(U)
        /\ \A opener \in Openers : Free(opener, words)
    BY <2>2, <2>3, Scrubs
  <2>5. PICK U : Key \notin U /\ words \in Seq(U)
    BY <2>4
  <2>6. Key \notin ToSet(words) /\ DOMAIN words = 1..Len(words)
    BY <2>5 DEF ToSet
  <2>7. ASSUME NEW i \in DOMAIN words, NEW j \in DOMAIN words, i < j, words[i] \in Openers
        PROVE  words[j] # Stop
    BY <2>4, <2>6, <2>7 DEF Free
  <2>8. QED
    BY <2>6, <2>7
<1>2. QED
  BY <1>1, OnePassIsEnough, PTL

\* A sentence is lost only to a phrase of its own or of one of the two before it,
\* whatever the text: three patterns take at most two stops from one another.
THEOREM ReceiptsStayReadable == HookSpec => []InnocentSentencesKept
<1>1. HookInv => InnocentSentencesKept
  <2> SUFFICES ASSUME HookInv,
                      NEW k \in DOMAIN source.sentences,
                      \A j \in 1..k : j >= k - 2 => Innocent(j),
                      NEW words \in StringsIn(result)
               PROVE  Words[k] \in ToSet(words)
    BY Zenon DEF InnocentSentencesKept
  <2>1. /\ source \in Outputs
        /\ words = IF hops = 0 THEN TextOf(source) ELSE scrub_text(TextOf(source))
    BY ResultsHold DEF HookInv
  <2>2. k \in 1..Len(source.sentences)
    BY <2>1, SaidWell
  <2>3. /\ TextOf(source) \in Seq(Sayable)
        /\ Words[k] # Key /\ Words[k] \in ToSet(TextOf(source))
        /\ Zone(TextOf(source), 2, Words[k])
    BY <2>1, <2>2, SaidText DEF Innocent
  <2>4. Words[k] \in ToSet(scrub_text(TextOf(source)))
    BY <2>3, ScrubKeeps
  <2>5. QED
    BY <2>1, <2>3, <2>4
<1>2. QED
  BY <1>1, OnePassIsEnough, PTL
=============================================================================
