------------------------------ MODULE Gateway ------------------------------
(***************************************************************************)
(* The governed tools/call path: a client POSTs to the gateway's /rpc, the *)
(* gateway runs FinByteGuard's pre-hook, the hook asks OPA about calls     *)
(* whose name mentions a wire or a payment, the backend runs the tool, the *)
(* post-hook cleans the output, and the client reads the answer unless it  *)
(* stopped waiting first.                                                  *)
(*                                                                         *)
(* FinByteGuard and the policy are this repository's code.  The gateway    *)
(* that hosts them is ContextForge, an external image: its part is modelled *)
(* from what the code here relies on, with every failure left possible.    *)
(***************************************************************************)
EXTENDS WirePolicy

CONSTANTS
  Calls,      \* identities of the tools/call requests
  NoRequest   \* what a call not yet made asks for

VARIABLES
  opa,       \* the policy engine: "ready", "empty" (answers, no policy), "down"
  stage,     \* how far the gateway is with each call
  req,       \* what each call asks for
  reply,     \* what the gateway answered
  client,    \* whether the caller still waits
  executed   \* the calls whose tool ran: the money that moved

vars == <<opa, stage, req, reply, client, executed>>

NoReply == "no reply"

Replies == {"violation",   \* JSON-RPC error naming a plugin violation
            "rpcError",    \* JSON-RPC error of another kind
            "httpError",   \* a status outside 2xx
            "notJson",     \* a 2xx status and a body that is not JSON
            "toolError",   \* a result with isError set, or text like a denial's
            "embedded",    \* a result with the signs of a downstream error in its text
            "otherJson",   \* any other result or JSON that is not the tool's own
            "ok"}          \* the tool's own result

Stages == {"idle", "received", "policy", "forward", "ran", "replied", "dropped"}
InFlight == {"received", "policy", "forward", "ran"}

TypeOK ==
  /\ opa \in {"ready", "empty", "down"}
  /\ stage \in [Calls -> Stages]
  /\ req \in [Calls -> Requests \cup {NoRequest}]
  /\ reply \in [Calls -> Replies \cup {NoReply}]
  /\ client \in [Calls -> {"idle", "waiting", "answered", "gaveup"}]
  /\ executed \subseteq Calls

Init ==
  /\ opa \in {"ready", "empty", "down"}
  /\ stage = [c \in Calls |-> "idle"]
  /\ req = [c \in Calls |-> NoRequest]
  /\ reply = [c \in Calls |-> NoReply]
  /\ client = [c \in Calls |-> "idle"]
  /\ executed = {}

Go(c, from, to) == stage[c] = from /\ stage' = [stage EXCEPT ![c] = to]

Answer(c, from, r) == Go(c, from, "replied") /\ reply' = [reply EXCEPT ![c] = r]

----------------------------------------------------------------------------
(* The client. *)

Submit(c, q) ==
  /\ client[c] = "idle"
  /\ Go(c, "idle", "received")
  /\ req' = [req EXCEPT ![c] = q]
  /\ client' = [client EXCEPT ![c] = "waiting"]
  /\ UNCHANGED <<opa, reply, executed>>

Receive(c) ==
  /\ client[c] = "waiting"
  /\ stage[c] = "replied"
  /\ client' = [client EXCEPT ![c] = "answered"]
  /\ UNCHANGED <<opa, stage, req, reply, executed>>

\* The client's timeout, or a connection that broke: the gateway is not told.
GiveUp(c) ==
  /\ client[c] = "waiting"
  /\ client' = [client EXCEPT ![c] = "gaveup"]
  /\ UNCHANGED <<opa, stage, req, reply, executed>>

----------------------------------------------------------------------------
(* FinByteGuard's pre-hook. *)

\* Authentication or the tool lookup fails before any hook runs, or something
\* in front of the gateway answers in its place.
Refuse(c) ==
  /\ \E r \in {"httpError", "notJson", "rpcError", "otherJson"} : Answer(c, "received", r)
  /\ UNCHANGED <<opa, req, client, executed>>

EnterPreHook(c) ==
  /\ Go(c, "received", IF IsWireCall(req[c]) THEN "policy" ELSE "forward")
  /\ UNCHANGED <<opa, req, reply, client, executed>>

\* Deviation: an answer without a result counts as permission.
Verdict_AllowByDefault(q) == opa # "ready" \/ allow(q)

\* With no policy loaded OPA's answer has no result, which reads as a denial.
Verdict(q) == opa = "ready" /\ allow(q)

OpaAllows(c) ==
  /\ Go(c, "policy", "forward")
  /\ opa # "down"
  /\ Verdict(req[c])
  /\ UNCHANGED <<opa, req, reply, client, executed>>

OpaDenies(c) ==
  /\ Answer(c, "policy", "violation")
  /\ opa # "down"
  /\ ~Verdict(req[c])
  /\ UNCHANGED <<opa, req, client, executed>>

\* Deviation: the violation quotes the exception instead of the denial.
OpaFails_OwnReply(c) ==
  /\ Answer(c, "policy", "policy engine unavailable")
  /\ UNCHANGED <<opa, req, client, executed>>

\* Deviation: no timeout on the question, only a refused connection ends it.
OpaFails_NoTimeout(c) ==
  /\ opa = "empty"
  /\ Answer(c, "policy", "violation")
  /\ UNCHANGED <<opa, req, client, executed>>

\* No connection, a bad body, or no answer within five seconds: fail closed.
OpaFails(c) ==
  /\ Answer(c, "policy", "violation")
  /\ UNCHANGED <<opa, req, client, executed>>

----------------------------------------------------------------------------
(* The backend, the post-hook, and what can break around them. *)

BackendRuns(c) ==
  /\ Go(c, "forward", "ran")
  /\ executed' = executed \cup {c}
  /\ UNCHANGED <<opa, req, reply, client>>

\* The backend is unreachable or refuses the arguments: the tool does not run.
BackendFails(c) ==
  /\ \E r \in {"rpcError", "toolError", "embedded", "otherJson"} : Answer(c, "forward", r)
  /\ UNCHANGED <<opa, req, client, executed>>

\* Deviation: the post-hook blocks what it detects instead of rewriting it.
PostHook_Blocks(c) ==
  /\ Answer(c, "ran", "violation")
  /\ UNCHANGED <<opa, req, client, executed>>

\* FinByteGuard's post-hook rewrites text and always lets the result through.
PostHook(c) ==
  /\ Answer(c, "ran", "ok")
  /\ UNCHANGED <<opa, req, client, executed>>

\* The tool ran, and its answer is lost or garbled on the way back.
ResultLost(c) ==
  /\ \E r \in {"notJson", "rpcError", "otherJson"} : Answer(c, "ran", r)
  /\ UNCHANGED <<opa, req, client, executed>>

\* The gateway container goes away with the call in hand.
Drop(c) ==
  /\ stage[c] \in InFlight
  /\ stage' = [stage EXCEPT ![c] = "dropped"]
  /\ UNCHANGED <<opa, req, reply, client, executed>>

OpaChanges ==
  /\ opa' \in {"ready", "empty", "down"} \ {opa}
  /\ UNCHANGED <<stage, req, reply, client, executed>>

----------------------------------------------------------------------------
GatewayStep(c) ==
  \/ Refuse(c)
  \/ EnterPreHook(c)
  \/ OpaAllows(c)
  \/ OpaDenies(c)
  \/ OpaFails(c)
  \/ BackendRuns(c)
  \/ BackendFails(c)
  \/ PostHook(c)
  \/ ResultLost(c)

ClientStep(c) == Receive(c) \/ GiveUp(c)

Serve == OpaChanges \/ \E c \in Calls : GatewayStep(c) \/ ClientStep(c) \/ Drop(c)

Next == Serve \/ \E c \in Calls, q \in Requests : Submit(c, q)

Spec == Init /\ [][Next]_vars

\* The gateway keeps working on a call it has and its calls to OPA time out;
\* the policy engine owes nothing, and may come and go for ever.
Fairness == \A c \in Calls : WF_vars(GatewayStep(c))

FairSpec == Spec /\ Fairness

----------------------------------------------------------------------------
(* Properties. *)

\* The two-tier posture in the header of finops.rego holds of the money and
\* not only of the verdicts: no call that states its amount as an argument ran
\* when its tier forbids it, whatever the policy engine did while the call was
\* in flight (the fail-closed branch of tool_pre_invoke).  A call that states
\* it in a message is another matter: see MeshIsGoverned.
TwoTierHolds ==
  \A c \in executed : HasAmount(req[c]) => PostureAllows(req[c], req[c].amount)

\* An answer can be believed: a caller told of a plugin violation knows the
\* tool did not and will not run, and a caller given a result knows it did.
\* Of the other answers, and of silence, nothing follows.
AnswersAreTrue ==
  \A c \in Calls :
    /\ reply[c] = "violation" => c \notin executed
    /\ reply[c] = "ok" => c \in executed

\* The inductive invariant behind the two properties above: what the position
\* of a call says of its request, of the policy's view of it, and of the money.
CallInv ==
  \A c \in Calls :
    /\ stage[c] # "idle" => req[c] \in Requests
    /\ stage[c] \in {"forward", "ran"} => allow(req[c])
    /\ stage[c] = "ran" => c \in executed
    /\ c \in executed => allow(req[c]) /\ stage[c] \in {"ran", "replied", "dropped"}
    /\ reply[c] # NoReply <=> stage[c] = "replied"
    /\ reply[c] = "violation" => c \notin executed
    /\ reply[c] = "ok" => c \in executed

\* FinByteGuard fails closed: a guarded call gets past the pre-hook only at a
\* moment when the engine is there and has the policy, even a call so small
\* that the policy would allow it.
FailClosed ==
  [][\A c \in Calls : stage[c] = "policy" /\ stage'[c] = "forward" => opa = "ready"]_vars

\* The five-second timeout makes the guard's answer independent of OPA: every
\* call the gateway has is settled, though the engine may be down for good or
\* restart for ever.
EveryCallSettles ==
  \A c \in Calls : stage[c] = "received" ~> stage[c] \in {"replied", "dropped"}

----------------------------------------------------------------------------
(* What the repository says of the policy and the code does not do. *)

\* docs/SCENARIOS.md:75: a payment asked of the payments agent in a message is
\* held to the same tiers.  The policy reads the amount argument alone, so a
\* message's amount is no amount to it, and the agent executes the message.
MeshIsGoverned ==
  \A c \in executed : req[c].says # NoAmount => PostureAllows(req[c], req[c].says)
=============================================================================
