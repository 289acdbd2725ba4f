--------------------------- MODULE GatewayProofs ---------------------------
(***************************************************************************)
(* Proofs about the wire policy and the governed tools/call path, for any  *)
(* set of calls, tools and amounts.                                        *)
(***************************************************************************)
EXTENDS Gateway, TLAPS

----------------------------------------------------------------------------
(* The policy. *)

\* The rules of finops.rego decide exactly what the posture says of the amount
\* argument, tier by tier and in the numbers that policy-docs gives out.
LEMMA PolicyIsPosture ==
  ASSUME NEW q \in Requests, HasAmount(q)
  PROVE  allow(q) <=> PostureAllows(q, q.amount)
<1>1. CASE ~IsWireCall(q)
  BY <1>1 DEF allow, over_ceiling, needs_approval, PostureAllows
<1>2. CASE IsWireCall(q)
  <2>1. q.amount \in Nat
    BY <1>2, AmountsAssumption DEF HasAmount, Requests
  <2>2. /\ AutoApproveLimit = 1000000
        /\ HardCeiling = 10000000
    BY DEF AutoApproveLimit, HardCeiling, Dollar
  <2>3. /\ wire_limit.auto_approve_under * Dollar = AutoApproveLimit
        /\ wire_limit.dual_approval_at_or_above * Dollar = AutoApproveLimit
        /\ wire_limit.hard_ceiling_at_or_above * Dollar = HardCeiling
    BY DEF wire_limit, AutoApproveLimit, HardCeiling, Dollar
  <2>4. /\ q.amount >= HardCeiling <=> ~(q.amount < HardCeiling)
        /\ q.amount >= AutoApproveLimit <=> ~(q.amount < AutoApproveLimit)
        /\ q.amount < AutoApproveLimit => q.amount < HardCeiling
    BY <2>1, <2>2
  <2>5. QED
    BY <1>2, <2>3, <2>4, Zenon DEF allow, over_ceiling, needs_approval, PostureAllows
<1>3. QED
  BY <1>1, <1>2

\* A denied call always comes with a reason, and an allowed one with none: the
\* plugin's "denied by policy" is left to an engine that gives no verdict.
LEMMA DenialHasReason ==
  ASSUME NEW q \in Requests
  PROVE  allow(q) <=> deny(q) = {}
BY DEF allow, deny

----------------------------------------------------------------------------
(* The path of a call. *)

\* No step of the client, the gateway or the policy engine breaks a type.
LEMMA TypeStep == TypeOK /\ [Next]_vars => TypeOK'
<1> SUFFICES ASSUME TypeOK, [Next]_vars
             PROVE  TypeOK'
  OBVIOUS
<1> USE DEF TypeOK, Go, Answer, Stages, Replies
<1>1. ASSUME NEW c \in Calls, NEW q \in Requests, Submit(c, q)
      PROVE  TypeOK'
  BY <1>1 DEF Submit
<1>2. ASSUME NEW c \in Calls, ClientStep(c) \/ Drop(c)
      PROVE  TypeOK'
  BY <1>2 DEF ClientStep, Receive, GiveUp, Drop
<1>3. ASSUME NEW c \in Calls, GatewayStep(c)
      PROVE  TypeOK'
  <2>1. CASE Refuse(c)
    BY <2>1 DEF Refuse
  <2>2. CASE EnterPreHook(c)
    BY <2>2 DEF EnterPreHook
  <2>3. CASE OpaAllows(c) \/ OpaDenies(c) \/ OpaFails(c)
    BY <2>3 DEF OpaAllows, OpaDenies, OpaFails
  <2>4. CASE BackendRuns(c) \/ BackendFails(c)
    BY <2>4 DEF BackendRuns, BackendFails
  <2>5. CASE PostHook(c) \/ ResultLost(c)
    BY <2>5 DEF PostHook, ResultLost
  <2>6. QED
    BY <1>3, <2>1, <2>2, <2>3, <2>4, <2>5 DEF GatewayStep
<1>4. CASE OpaChanges
  BY <1>4 DEF OpaChanges
<1>5. CASE UNCHANGED vars
  BY <1>5 DEF vars
<1>6. QED
  BY <1>1, <1>2, <1>3, <1>4, <1>5 DEF Next, Serve

\* Every variable keeps its type.
THEOREM TypeCorrect == Spec => []TypeOK
<1>1. Init => TypeOK
  BY DEF Init, TypeOK, Stages
<1>2. QED
  BY <1>1, TypeStep, PTL DEF Spec

\* A step that leaves call c alone keeps what CallInv says of it.
LEMMA CallInvStep == TypeOK /\ CallInv /\ [Next]_vars => CallInv'
<1> SUFFICES ASSUME TypeOK, CallInv, [Next]_vars
             PROVE  CallInv'
  OBVIOUS
<1> USE DEF TypeOK, CallInv, Go, Answer, NoReply
<1>1. ASSUME NEW c \in Calls, NEW q \in Requests, Submit(c, q)
      PROVE  CallInv'
  BY <1>1 DEF Submit
<1>2. ASSUME NEW c \in Calls, ClientStep(c)
      PROVE  CallInv'
  BY <1>2 DEF ClientStep, Receive, GiveUp
<1>3. ASSUME NEW c \in Calls, Drop(c)
      PROVE  CallInv'
  BY <1>3 DEF Drop, InFlight
<1>4. ASSUME NEW c \in Calls, GatewayStep(c)
      PROVE  CallInv'
  <2>1. CASE Refuse(c)
    BY <2>1 DEF Refuse
  <2>2. CASE EnterPreHook(c)
    \* A call the guard does not look at is one the policy has no rule for.
    <3>1. ~IsWireCall(req[c]) => allow(req[c])
      BY DEF allow, over_ceiling, needs_approval
    <3>2. QED
      BY <2>2, <3>1 DEF EnterPreHook
  <2>3. CASE OpaAllows(c)
    BY <2>3 DEF OpaAllows, Verdict
  <2>4. CASE OpaDenies(c) \/ OpaFails(c)
    BY <2>4 DEF OpaDenies, OpaFails
  <2>5. CASE BackendRuns(c)
    BY <2>5 DEF BackendRuns
  <2>6. CASE BackendFails(c)
    BY <2>6, ZenonT(20) DEF BackendFails
  <2>7. CASE PostHook(c) \/ ResultLost(c)
    BY <2>7, ZenonT(20) DEF PostHook, ResultLost
  <2>8. QED
    BY <1>4, <2>1, <2>2, <2>3, <2>4, <2>5, <2>6, <2>7 DEF GatewayStep
<1>5. CASE OpaChanges
  BY <1>5 DEF OpaChanges
<1>6. CASE UNCHANGED vars
  BY <1>6 DEF vars
<1>7. QED
  BY <1>1, <1>2, <1>3, <1>4, <1>5, <1>6 DEF Next, Serve

\* What the clients of the gateway may rely on while it works on a call: no
\* request changes, no call is made, no answer is replaced, and money moves only
\* for a call that was let through.
LEMMA GatewayFrame ==
  ASSUME TypeOK, NEW c \in Calls, GatewayStep(c) \/ Drop(c)
  PROVE  /\ req' = req /\ client' = client
         /\ \A d \in Calls : stage'[d] = "idle" <=> stage[d] = "idle"
         /\ \A d \in Calls : stage[d] = "replied" => reply'[d] = reply[d]
         /\ \/ executed' = executed
            \/ stage[c] = "forward" /\ executed' = executed \cup {c}
<1> USE DEF TypeOK, Go, Answer
<1>1. CASE Drop(c)
  BY <1>1 DEF Drop, InFlight
<1>2. CASE Refuse(c) \/ EnterPreHook(c)
  BY <1>2 DEF Refuse, EnterPreHook
<1>3. CASE OpaAllows(c) \/ OpaDenies(c) \/ OpaFails(c)
  BY <1>3 DEF OpaAllows, OpaDenies, OpaFails
<1>4. CASE BackendRuns(c) \/ BackendFails(c)
  BY <1>4 DEF BackendRuns, BackendFails
<1>5. CASE PostHook(c) \/ ResultLost(c)
  BY <1>5 DEF PostHook, ResultLost
<1>6. QED
  BY <1>1, <1>2, <1>3, <1>4, <1>5 DEF GatewayStep

\* A violation is the end of a call: it did not run and will not.
LEMMA ViolationIsFinal ==
  ASSUME CallInv, NEW c \in Calls, reply[c] = "violation"
  PROVE  c \notin executed /\ stage[c] \notin InFlight
BY DEF CallInv, NoReply, InFlight

\* The inductive invariant holds in every reachable state.
THEOREM CallInvariant == Spec => []CallInv
<1>1. Init => CallInv
  BY DEF Init, CallInv, NoReply
<1>2. QED
  BY <1>1, CallInvStep, TypeCorrect, PTL DEF Spec

\* No call that states its amount as an argument runs when its tier forbids it:
\* the posture of finops.rego holds of that money, for any number of concurrent
\* calls and any behaviour of OPA.
THEOREM TwoTier == Spec => []TwoTierHolds
<1>1. TypeOK /\ CallInv => TwoTierHolds
  <2> SUFFICES ASSUME TypeOK, CallInv, NEW c \in executed, HasAmount(req[c])
               PROVE  PostureAllows(req[c], req[c].amount)
    BY DEF TwoTierHolds
  <2>1. c \in Calls /\ allow(req[c]) /\ req[c] \in Requests
    BY DEF TypeOK, CallInv
  <2>2. QED
    BY <2>1, PolicyIsPosture
<1>2. QED
  BY <1>1, TypeCorrect, CallInvariant, PTL

\* A reported violation did not run and a returned result did.
THEOREM AnswersTrue == Spec => []AnswersAreTrue
<1>1. CallInv => AnswersAreTrue
  BY DEF CallInv, AnswersAreTrue
<1>2. QED
  BY <1>1, CallInvariant, PTL

\* No guarded call passes the pre-hook while the engine is absent or empty.
THEOREM FailsClosed == Spec => FailClosed
<1>1. TypeOK /\ [Next]_vars =>
        [\A c \in Calls : stage[c] = "policy" /\ stage'[c] = "forward" => opa = "ready"]_vars
  <2> SUFFICES ASSUME TypeOK, Next, NEW c \in Calls,
                      stage[c] = "policy", stage'[c] = "forward"
               PROVE  opa = "ready"
    OBVIOUS
  <2> USE DEF TypeOK, Go, Answer
  <2>1. PICK d \in Calls : GatewayStep(d) \/ ClientStep(d) \/ Drop(d) \/ \E q \in Requests : Submit(d, q)
    BY DEF Next, Serve, OpaChanges
  <2>2. ~(ClientStep(d) \/ Drop(d) \/ \E q \in Requests : Submit(d, q))
    BY DEF ClientStep, Receive, GiveUp, Drop, Submit
  <2>3. OpaAllows(d)
    <3>1. GatewayStep(d)
      BY <2>1, <2>2
    <3>2. ~(Refuse(d) \/ EnterPreHook(d) \/ OpaDenies(d) \/ OpaFails(d) \/ BackendRuns(d)
            \/ BackendFails(d) \/ PostHook(d) \/ ResultLost(d))
      BY DEF Refuse, EnterPreHook, OpaDenies, OpaFails, BackendRuns, BackendFails,
             PostHook, ResultLost
    <3>3. QED
      BY <3>1, <3>2 DEF GatewayStep
  <2>4. QED
    BY <2>3 DEF OpaAllows, Verdict
<1>2. QED
  BY <1>1, TypeCorrect, PTL DEF Spec, FailClosed
=============================================================================
