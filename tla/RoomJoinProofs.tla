--------------------------- MODULE RoomJoinProofs ---------------------------
(***************************************************************************)
(* Proofs about joining the room, for any number of requests and any       *)
(* initials, stances, caps and bounds on the tries, whatever becomes of    *)
(* the POSTs.                                                              *)
(***************************************************************************)
EXTENDS RoomJoin, FiniteSetTheorems, TLAPS

----------------------------------------------------------------------------
(* The inductive invariant. *)

\* The inductive invariant behind the properties: a request has no server, registered or
\* on its way, before it posts one, and one at most from then on; only a join goes
\* through the steps of a join; and nothing deletes a voter, reported or not.
Registered(r) == {e \in registry.gateways : e.by = r}
OnItsWay(r) == {p \in posts : p.by = r /\ p.to = "gateways"}
ServersOf(r) == Registered(r) \cup OnItsWay(r)

RequestOK(r) ==
  /\ \A x, y \in ServersOf(r) : x = y
  /\ Registered(r) = {} \/ OnItsWay(r) = {}
  /\ pc[r] \in {"idle", "cap", "a2a", "a2a sent", "gateways", "refused"} => ServersOf(r) = {}
  /\ out[r].a2a # None => [name |-> out[r].a2a, by |-> r] \in registry.a2a
  /\ pc[r] = "idle" <=> form[r] = None
  /\ pc[r] \in {"cap", "a2a", "a2a sent", "note", "note sent"} => r \in Joins

PostOK(p) ==
  /\ p.to = "a2a" => Len(p.name) \in {2, 3}
  /\ p.to = "gateways" => Len(p.name) \in {1, 2}
  /\ p.to = "corpus" => p.by \in Joins

RoomInv ==
  /\ DOMAIN registry = Kinds /\ DOMAIN form = Requests /\ DOMAIN out = Requests
  /\ \A r \in Requests : DOMAIN out[r] = Kinds /\ RequestOK(r)
  /\ \A p \in posts : PostOK(p)

----------------------------------------------------------------------------
(* Names. *)

\* A number behind a name makes it longer by one.
LEMMA AppendLen ==
  ASSUME NEW S, NEW s \in Seq(S), NEW e
  PROVE  Len(Append(s, e)) = Len(s) + 1
<1>1. s \in Seq(S \cup {e}) /\ e \in S \cup {e}
  OBVIOUS
<1>2. QED
  BY <1>1

\* unique_name leaves the base name or puts one number behind it, whatever it
\* was told of the registry.
LEMMA UniqueNameLen ==
  ASSUME NEW S, NEW base \in Seq(S), NEW existing
  PROVE  Len(unique_name(base, existing)) \in {Len(base), Len(base) + 1}
<1> DEFINE Free(i) == Append(base, i) \notin existing
           n == CHOOSE i \in 2..(Cardinality(existing) + 2) :
                  Free(i) /\ \A j \in 2..(i - 1) : ~Free(j)
<1>1. unique_name(base, existing) \in {base, Append(base, n)}
  BY DEF unique_name
<1>2. Len(Append(base, n)) = Len(base) + 1
  BY AppendLen
<1>3. QED
  BY <1>1, <1>2

\* The names a POST carries, by what it registers.
LEMMA PostedNameLen ==
  ASSUME NEW r \in Requests, NEW kind \in Kinds, NEW existing
  PROVE  Len(unique_name(Base(r, kind), existing)) \in IF kind = "a2a" THEN {2, 3} ELSE {1, 2}
<1>1. CASE kind = "a2a"
  <2> DEFINE S == {form[r].stance, form[r].initials}
  <2>1. Base(r, kind) \in Seq(S) /\ Len(Base(r, kind)) = 2
    BY <1>1 DEF Base
  <2>2. Len(unique_name(Base(r, kind), existing)) \in {2, 2 + 1}
    BY <2>1, UniqueNameLen
  <2>3. QED
    BY <1>1, <2>2
<1>2. CASE kind = "gateways"
  <2> DEFINE S == {form[r].initials}
  <2>1. Base(r, kind) \in Seq(S) /\ Len(Base(r, kind)) = 1
    BY <1>2 DEF Base
  <2>2. Len(unique_name(Base(r, kind), existing)) \in {1, 1 + 1}
    BY <2>1, UniqueNameLen
  <2>3. QED
    BY <1>2, <2>2
<1>3. QED
  BY <1>1, <1>2 DEF Kinds

----------------------------------------------------------------------------
(* The steps of a request. *)

\* What a step that does not concern a request leaves true of it.
LEMMA Untouched ==
  ASSUME NEW r \in Requests, RequestOK(r),
         pc'[r] = pc[r], form'[r] = form[r], out'[r].a2a = out[r].a2a,
         registry.a2a \subseteq registry'.a2a,
         Registered(r)' \subseteq Registered(r), OnItsWay(r)' \subseteq OnItsWay(r)
  PROVE  RequestOK(r)'
BY DEF RequestOK, ServersOf, Joins

\* The request s goes from one place to another; the others stay.
LEMMA GotoType ==
  ASSUME TypeOK, NEW s \in Requests, NEW from, NEW to, Goto(s, from, to)
  PROVE  /\ pc[s] = from /\ pc'[s] = to
         /\ \A r \in Requests \ {s} : pc'[r] = pc[r]
BY DEF TypeOK, Goto

\* Admitting a request.
LEMMA AdmitKeeps ==
  ASSUME TypeOK, RoomInv, NEW s \in Requests, NEW f \in Forms(s), Admit(s, f)
  PROVE  RoomInv'
<1>1. /\ form[s] = None /\ form' = [form EXCEPT ![s] = f]
      /\ UNCHANGED <<registry, posts, out>>
      /\ DOMAIN form = Requests
  BY DEF Admit, servers, RoomInv
<1>2. /\ pc[s] = "idle"
      /\ pc'[s] \in {"gateways", "refused"} \/ (pc'[s] = "cap" /\ f.api = "join")
      /\ \A r \in Requests \ {s} : pc'[r] = pc[r]
  <2>1. f.api \in {"join", "register-mcp"}
    BY DEF Forms
  <2>2. QED
    BY <2>1, GotoType DEF Admit
<1>3. f # None
  BY FormsAssumption
<1>4. RequestOK(s)'
  <2>1. RequestOK(s)
    BY DEF RoomInv
  <2>2. QED
    BY <1>1, <1>2, <1>3, <2>1 DEF RequestOK, ServersOf, Registered, OnItsWay, Joins
<1>5. \A r \in Requests \ {s} : RequestOK(r)'
  BY <1>1, <1>2, Untouched DEF RoomInv, Registered, OnItsWay
<1>6. Joins \subseteq Joins'
  BY <1>1 DEF Joins
<1>7. \A p \in posts' : PostOK(p)'
  BY <1>1, <1>6 DEF RoomInv, PostOK
<1>8. \A r \in Requests : DOMAIN out'[r] = Kinds /\ RequestOK(r)'
  BY <1>1, <1>4, <1>5 DEF RoomInv
<1>9. QED
  BY <1>1, <1>7, <1>8 DEF RoomInv

\* A step of s that leaves the registry, the forms and the reports alone keeps
\* the invariant, if it keeps what is said of s and of the POSTs.
LEMMA OwnStepKeeps ==
  ASSUME RoomInv, NEW s \in Requests, UNCHANGED <<registry, form, out>>,
         \A r \in Requests \ {s} : pc'[r] = pc[r] /\ OnItsWay(r)' \subseteq OnItsWay(r),
         RequestOK(s)', \A p \in posts' \ posts : PostOK(p)
  PROVE  RoomInv'
<1>1. \A r \in Requests \ {s} : RequestOK(r)'
  BY Untouched DEF RoomInv, Registered
<1>2. Joins' = Joins
  BY DEF Joins
<1>3. \A p \in posts' : PostOK(p)'
  BY <1>2 DEF RoomInv, PostOK
<1>4. \A r \in Requests : DOMAIN out'[r] = Kinds /\ RequestOK(r)'
  BY <1>1 DEF RoomInv
<1>5. QED
  BY <1>3, <1>4 DEF RoomInv

\* A request may go where its servers, and its being a join, let it.
LEMMA Goes ==
  ASSUME NEW r \in Requests, RequestOK(r), form' = form,
         Registered(r)' = Registered(r), OnItsWay(r)' = OnItsWay(r),
         out'[r].a2a # None => [name |-> out'[r].a2a, by |-> r] \in registry'.a2a,
         pc'[r] = "idle" <=> pc[r] = "idle",
         pc'[r] \in {"cap", "a2a", "a2a sent", "gateways", "refused"} =>
           pc[r] \in {"cap", "a2a", "a2a sent", "gateways", "refused"},
         pc'[r] \in {"cap", "a2a", "a2a sent", "note", "note sent"} => r \in Joins
  PROVE  RequestOK(r)'
<1>1. ServersOf(r)' = ServersOf(r) /\ Joins' = Joins
  BY DEF ServersOf, Joins
<1>2. QED
  BY <1>1 DEF RequestOK

\* The same of a step that leaves the registry and the reports alone.
LEMMA Moves ==
  ASSUME NEW r \in Requests, RequestOK(r), UNCHANGED <<registry, form, out>>,
         OnItsWay(r)' = OnItsWay(r), pc[r] # "idle", pc'[r] # "idle",
         pc'[r] \in {"cap", "a2a", "a2a sent", "gateways", "refused"} =>
           pc[r] \in {"cap", "a2a", "a2a sent", "gateways", "refused"},
         pc'[r] \in {"cap", "a2a", "a2a sent", "note", "note sent"} => r \in Joins
  PROVE  RequestOK(r)'
<1>1. Registered(r)' = Registered(r)
  BY DEF Registered
<1>2. out'[r].a2a # None => [name |-> out'[r].a2a, by |-> r] \in registry'.a2a
  BY DEF RequestOK
<1>3. QED
  BY <1>1, <1>2, Goes

\* The cap, a POST, silence, and the note.
LEMMA CheckCapKeeps ==
  ASSUME TypeOK, RoomInv, NEW s \in Requests, CheckCap(s)
  PROVE  RoomInv'
<1>1. UNCHANGED <<registry, posts, form, out>>
  BY DEF CheckCap, servers, companion
<1>2. /\ pc[s] = "cap" /\ pc'[s] \in {"refused", "a2a"}
      /\ \A r \in Requests \ {s} : pc'[r] = pc[r]
  BY GotoType DEF CheckCap
<1>3. RequestOK(s)'
  <2>1. RequestOK(s) /\ s \in Joins /\ OnItsWay(s)' = OnItsWay(s)
    BY <1>1, <1>2 DEF RoomInv, RequestOK, OnItsWay
  <2>2. QED
    BY <1>1, <1>2, <2>1, Moves
<1>4. QED
  BY <1>1, <1>2, <1>3, OwnStepKeeps DEF OnItsWay

\* A POST is the first for its sender's server: the sender has none, and none on
\* its way.
LEMMA PostKeeps ==
  ASSUME TypeOK, RoomInv, NEW s \in Requests, NEW kind \in Kinds, Post(s, kind)
  PROVE  RoomInv'
<1>1. PICK existing \in Read(kind) :
        posts' = posts \cup {[by |-> s, to |-> kind, name |-> unique_name(Base(s, kind), existing)]}
  BY DEF Post
<1> DEFINE q == [by |-> s, to |-> kind, name |-> unique_name(Base(s, kind), existing)]
<1>2. UNCHANGED <<registry, form, out>> /\ posts' = posts \cup {q}
  BY <1>1 DEF Post, servers, companion
<1>3. /\ pc[s] = kind /\ pc'[s] = Sent(kind)
      /\ \A r \in Requests \ {s} : pc'[r] = pc[r]
  BY GotoType DEF Post
<1>4. q.by = s /\ q.to = kind
  OBVIOUS
<1>5. PostOK(q)
  BY <1>4, PostedNameLen DEF PostOK, Kinds
<1>6. \A r \in Requests \ {s} : OnItsWay(r)' \subseteq OnItsWay(r)
  BY <1>2, <1>4 DEF OnItsWay
<1>o. RequestOK(s)
  BY DEF RoomInv
<1>r. Registered(s)' = Registered(s)
  BY <1>2 DEF Registered
<1>7. RequestOK(s)'
  <2>1. CASE kind = "a2a"
    <3>1. OnItsWay(s)' = OnItsWay(s)
      BY <1>2, <1>4, <2>1 DEF OnItsWay
    <3>2. QED
      BY <1>2, <1>3, <1>o, <1>r, <2>1, <3>1 DEF RequestOK, ServersOf, Sent, Joins
  <2>2. CASE kind = "gateways"
    <3>1. OnItsWay(s)' = {q} /\ Registered(s)' = {}
      BY <1>2, <1>3, <1>4, <1>o, <1>r, <2>2 DEF OnItsWay, RequestOK, ServersOf
    <3>2. pc'[s] = "gateways sent"
      BY <1>3, <2>2 DEF Sent
    <3>3. form[s] # None
      BY <1>3, <1>o, <2>2 DEF RequestOK
    <3>4. QED
      BY <1>2, <1>o, <3>1, <3>2, <3>3 DEF RequestOK, ServersOf
  <2>3. QED
    BY <2>1, <2>2 DEF Kinds
<1>8. QED
  BY <1>2, <1>3, <1>5, <1>6, <1>7, OwnStepKeeps

\* A request that gives up goes on or ends, and does not send again.
LEMMA GivesUpKeeps ==
  ASSUME TypeOK, RoomInv, NEW s \in Requests, GivesUp(s)
  PROVE  RoomInv'
<1>1. UNCHANGED <<registry, posts, form, out>>
  BY DEF GivesUp, servers, companion
<1>2. \/ s \in Joins /\ pc[s] = "a2a sent" /\ pc'[s] = "gateways"
      \/ s \in Joins /\ pc[s] = "gateways sent" /\ pc'[s] = "note"
      \/ pc[s] \in {"note sent", "gateways sent"} /\ pc'[s] = "done"
  BY GotoType DEF GivesUp, Sent, After, Kinds
<1>3. \A r \in Requests \ {s} : pc'[r] = pc[r]
  BY GotoType DEF GivesUp
<1>4. RequestOK(s)'
  <2>1. RequestOK(s) /\ OnItsWay(s)' = OnItsWay(s)
    BY <1>1 DEF RoomInv, OnItsWay
  <2>2. QED
    BY <1>1, <1>2, <2>1, Moves
<1>5. QED
  BY <1>1, <1>3, <1>4, OwnStepKeeps DEF OnItsWay

\* Only a join has a note to save.
LEMMA SaveNoteKeeps ==
  ASSUME TypeOK, RoomInv, NEW s \in Requests, SaveNote(s)
  PROVE  RoomInv'
<1>1. UNCHANGED <<registry, form, out>>
  BY DEF SaveNote, servers, companion
<1>2. /\ pc[s] = "note" /\ pc'[s] \in {"note sent", "done"}
      /\ \A r \in Requests \ {s} : pc'[r] = pc[r]
  BY GotoType DEF SaveNote
<1>3. s \in Joins
  BY <1>2 DEF RoomInv, RequestOK
<1> DEFINE q == [by |-> s, to |-> "corpus", name |-> <<form[s].initials>>]
<1>4. posts' = posts \/ posts' = posts \cup {q}
  BY DEF SaveNote
<1>5. q.by = s /\ q.to = "corpus"
  OBVIOUS
<1>6. \A r \in Requests : OnItsWay(r)' = OnItsWay(r)
  BY <1>4, <1>5 DEF OnItsWay
<1>7. PostOK(q)
  BY <1>3, <1>5 DEF PostOK
<1>8. RequestOK(s)'
  <2>1. RequestOK(s)
    BY DEF RoomInv
  <2>2. QED
    BY <1>1, <1>2, <1>3, <1>6, <2>1, Moves
<1>9. QED
  BY <1>1, <1>2, <1>4, <1>6, <1>7, <1>8, OwnStepKeeps

----------------------------------------------------------------------------
(* The steps of the servers. *)

\* A request learns only of its own POST, and what became of it.
LEMMA AnsweredMoves ==
  ASSUME TypeOK, RoomInv, NEW s \in Requests, NEW kind \in Kinds, NEW name,
         NEW answer \in {"created", "conflict", "refused"},
         pc[s] = Sent(kind), Answered(s, kind, name, answer)
  PROVE  /\ \A r \in Requests \ {s} : pc'[r] = pc[r]
         /\ out' = out \/ (answer = "created" /\ name # None /\ out' = [out EXCEPT ![s][kind] = name])
         /\ \/ s \in Joins /\ kind = "a2a" /\ pc'[s] = "gateways"
            \/ s \in Joins /\ kind = "gateways" /\ pc'[s] = "note"
            \/ kind = "gateways" /\ pc'[s] = "done"
            \/ kind = "gateways" /\ pc'[s] = "gateways" /\ answer = "conflict"
<1>1. CASE s \in Joins
  BY <1>1, GotoType DEF Answered, JoinAnswered, Sent, After, Kinds, Reports
<1>2. CASE s \notin Joins
  <2>1. kind = "gateways"
    BY <1>2 DEF RoomInv, RequestOK, Sent, Kinds
  <2>2. QED
    BY <1>2, <2>1, GotoType DEF Answered, RegistrationAnswered, Sent, Reports
<1>3. QED
  BY <1>1, <1>2

\* Handling a POST registers at most what it asks for, for whom it asks, and its
\* sender can send again only after a conflict, when nothing was registered.
LEMMA GatewayHandlesKeeps ==
  ASSUME TypeOK, RoomInv, NEW p \in posts, GatewayHandles(p)
  PROVE  RoomInv'
<1> DEFINE s == p.by
           e == [name |-> p.name, by |-> p.by]
<1>1. p.by \in Requests /\ p.to \in Kinds
  BY DEF TypeOK, GatewayHandles
<1>2. posts' = posts \ {p} /\ form' = form
  BY DEF GatewayHandles, companion
<1>3. PICK answer \in {"created", "conflict", "refused"} :
        /\ registry' = IF answer # "created" THEN registry
                       ELSE [registry EXCEPT ![p.to] = @ \cup {e}]
        /\ IF pc[p.by] = Sent(p.to) THEN Answered(p.by, p.to, p.name, answer)
                                    ELSE UNCHANGED <<pc, tries, out>>
  BY DEF GatewayHandles
<1>4. /\ DOMAIN registry = Kinds /\ DOMAIN out = Requests
      /\ \A r \in Requests : DOMAIN out[r] = Kinds /\ RequestOK(r)
  BY DEF RoomInv
\* What becomes of the registry.
<1>5. DOMAIN registry' = Kinds
  BY <1>1, <1>3, <1>4
<1>6. /\ p.to # "a2a" \/ answer # "created" => registry'.a2a = registry.a2a
      /\ p.to # "gateways" \/ answer # "created" => registry'.gateways = registry.gateways
      /\ p.to = "a2a" /\ answer = "created" => registry'.a2a = registry.a2a \cup {e}
      /\ p.to = "gateways" /\ answer = "created" => registry'.gateways = registry.gateways \cup {e}
  BY <1>1, <1>3, <1>4 DEF Kinds
<1>7. registry.a2a \subseteq registry'.a2a
  BY <1>6
<1>8. e.by = s /\ e.name = p.name
  OBVIOUS
\* What becomes of the sender.
<1>9. \/ pc[s] = Sent(p.to) /\ Answered(s, p.to, p.name, answer)
      \/ pc[s] # Sent(p.to) /\ UNCHANGED <<pc, out>>
  BY <1>3
<1>10. /\ \A r \in Requests \ {s} : pc'[r] = pc[r]
       /\ \/ out' = out
          \/ answer = "created" /\ p.name # None /\ out' = [out EXCEPT ![s][p.to] = p.name]
  BY <1>1, <1>9, AnsweredMoves
<1>a. ASSUME pc[s] = Sent(p.to)
      PROVE  \/ s \in Joins /\ p.to = "a2a" /\ pc'[s] = "gateways"
             \/ s \in Joins /\ p.to = "gateways" /\ pc'[s] = "note"
             \/ p.to = "gateways" /\ pc'[s] = "done"
             \/ p.to = "gateways" /\ pc'[s] = "gateways" /\ answer = "conflict"
  <2>1. Answered(s, p.to, p.name, answer)
    BY <1>9, <1>a
  <2>2. QED
    BY <1>1, <1>a, <2>1, AnsweredMoves
<1>11. \A r \in Requests : DOMAIN out'[r] = Kinds
  BY <1>1, <1>4, <1>10
<1>12. DOMAIN out' = Requests
  BY <1>4, <1>10
\* The other requests.
<1>13. ASSUME NEW r \in Requests \ {s}
       PROVE  RequestOK(r)'
  <2>1. Registered(r)' \subseteq Registered(r) /\ OnItsWay(r)' \subseteq OnItsWay(r)
    BY <1>1, <1>2, <1>6, <1>8, <1>13 DEF Registered, OnItsWay, Kinds
  <2>2. pc'[r] = pc[r] /\ form'[r] = form[r] /\ out'[r].a2a = out[r].a2a
    BY <1>2, <1>10, <1>4, <1>13
  <2>3. QED
    BY <1>4, <1>7, <1>13, <2>1, <2>2, Untouched
\* The sender of a POST for a voter.
<1>14. ASSUME p.to = "a2a"
       PROVE  RequestOK(s)'
  <2>1. Registered(s)' = Registered(s) /\ OnItsWay(s)' = OnItsWay(s)
    BY <1>2, <1>6, <1>14 DEF Registered, OnItsWay
  <2>2. RequestOK(s)
    BY <1>1, <1>4
  <2>3. out'[s].a2a # None => [name |-> out'[s].a2a, by |-> s] \in registry'.a2a
    <3>1. CASE out' = out
      BY <1>1, <1>4, <1>7, <3>1 DEF RequestOK
    <3>2. CASE answer = "created" /\ out' = [out EXCEPT ![s][p.to] = p.name]
      <4>1. out'[s].a2a = p.name
        BY <1>1, <1>4, <1>14, <3>2 DEF Kinds
      <4>2. QED
        BY <1>6, <1>14, <3>2, <4>1
    <3>3. QED
      BY <1>10, <3>1, <3>2
  <2>4. CASE pc[s] = "a2a sent"
    <3>1. s \in Joins /\ pc'[s] = "gateways"
      <4>1. pc[s] = Sent(p.to) /\ p.to # "gateways"
        BY <1>14, <2>4 DEF Sent
      <4>2. QED
        BY <1>a, <4>1
    <3>2. QED
      BY <1>1, <1>2, <2>1, <2>2, <2>3, <2>4, <3>1, Goes
  <2>5. CASE pc[s] # "a2a sent"
    <3>1. pc'[s] = pc[s]
      BY <1>9, <1>14, <2>5 DEF Sent
    <3>2. pc[s] \in {"cap", "a2a", "a2a sent", "note", "note sent"} => s \in Joins
      BY <2>2 DEF RequestOK
    <3>3. QED
      BY <1>1, <1>2, <2>1, <2>2, <2>3, <3>1, <3>2, Goes
  <2>6. QED
    BY <2>4, <2>5
\* The sender of a POST for a server had no other.
<1>15. ASSUME p.to = "gateways"
       PROVE  RequestOK(s)'
  <2>1. OnItsWay(s) = {p} /\ Registered(s) = {}
    <3>1. p \in OnItsWay(s)
      BY <1>15 DEF OnItsWay
    <3>2. /\ \A x, y \in Registered(s) \cup OnItsWay(s) : x = y
          /\ Registered(s) = {} \/ OnItsWay(s) = {}
      BY <1>1, <1>4 DEF RequestOK, ServersOf
    <3>3. QED
      BY <3>1, <3>2
  <2>2. OnItsWay(s)' = {}
    BY <1>2, <2>1 DEF OnItsWay
  <2>3. Registered(s)' = IF answer = "created" THEN {e} ELSE {}
    BY <1>6, <1>8, <1>15, <2>1 DEF Registered
  <2>4. (\A x, y \in ServersOf(s)' : x = y) /\ (answer # "created" => ServersOf(s)' = {})
    BY <2>2, <2>3 DEF ServersOf
  <2>5. out'[s].a2a # None => [name |-> out'[s].a2a, by |-> s] \in registry'.a2a
    <3>1. out'[s].a2a = out[s].a2a
      BY <1>1, <1>4, <1>10, <1>15 DEF Kinds
    <3>2. QED
      BY <1>1, <1>4, <1>7, <3>1 DEF RequestOK
  <2>6. pc[s] \notin {"idle", "cap", "a2a", "a2a sent", "gateways", "refused"}
    BY <1>1, <1>4, <2>1 DEF RequestOK, ServersOf
  <2>7. \/ pc'[s] = pc[s]
        \/ s \in Joins /\ pc'[s] = "note"
        \/ pc'[s] = "done"
        \/ pc'[s] = "gateways" /\ answer = "conflict"
    <3>1. CASE pc[s] = Sent(p.to)
      BY <1>15, <3>1, <1>a
    <3>2. CASE pc'[s] = pc[s]
      BY <3>2
    <3>3. QED
      BY <1>9, <3>1, <3>2
  <2>8. Joins' = Joins /\ form[s] # None
    BY <1>1, <1>2, <1>4, <2>6 DEF Joins, RequestOK
  <2>9. QED
    BY <1>1, <1>2, <1>4, <2>2, <2>4, <2>5, <2>6, <2>7, <2>8 DEF RequestOK
<1>16. \A r \in Requests : RequestOK(r)'
  BY <1>1, <1>13, <1>14, <1>15 DEF Kinds
<1>17. \A q \in posts' : PostOK(q)'
  BY <1>2 DEF RoomInv, PostOK, Joins
<1>18. DOMAIN form' = Requests
  BY <1>2 DEF RoomInv
<1>19. QED
  BY <1>5, <1>11, <1>12, <1>16, <1>17, <1>18 DEF RoomInv

\* A note that arrives lets its sender end, if it still waits.
LEMMA SetCorpusKeeps ==
  ASSUME TypeOK, RoomInv, NEW p \in posts, set_corpus(p)
  PROVE  RoomInv'
<1>1. p.by \in Requests
  BY DEF TypeOK
<1>2. p.to = "corpus" /\ posts' = posts \ {p} /\ UNCHANGED <<registry, form, out>>
  BY DEF set_corpus, companion
<1>3. pc' = IF pc[p.by] = "note sent" THEN [pc EXCEPT ![p.by] = "done"] ELSE pc
  BY DEF set_corpus
<1>4. \A r \in Requests : OnItsWay(r)' = OnItsWay(r)
  BY <1>2 DEF OnItsWay
<1>5. /\ \A r \in Requests \ {p.by} : pc'[r] = pc[r]
      /\ pc'[p.by] = pc[p.by] \/ (pc[p.by] = "note sent" /\ pc'[p.by] = "done")
  BY <1>1, <1>3 DEF TypeOK
<1>6. RequestOK(p.by)'
  <2>1. RequestOK(p.by) /\ Registered(p.by)' = Registered(p.by)
    BY <1>1, <1>2 DEF RoomInv, Registered
  <2>2. CASE pc'[p.by] = pc[p.by]
    BY <1>1, <1>2, <1>4, <2>1, <2>2, Untouched
  <2>3. CASE pc[p.by] = "note sent" /\ pc'[p.by] = "done"
    BY <1>1, <1>2, <1>4, <2>1, <2>3, Moves
  <2>4. QED
    BY <1>5, <2>2, <2>3
<1>7. QED
  BY <1>1, <1>2, <1>4, <1>5, <1>6, OwnStepKeeps

\* What neither a request nor a POST does touches no voter and adds no server.
LEMMA OthersKeep ==
  ASSUME RoomInv, joinfreeze \/ AgentsReset \/ CorpusRestarts \/ UNCHANGED vars
  PROVE  RoomInv'
<1>1. UNCHANGED <<posts, form, pc, out>>
  BY DEF joinfreeze, AgentsReset, CorpusRestarts, vars, companion
<1>2. /\ DOMAIN registry' = Kinds /\ registry'.a2a = registry.a2a
      /\ registry'.gateways \subseteq registry.gateways
  <2>1. CASE AgentsReset
    BY <2>1 DEF AgentsReset, RoomInv, Kinds
  <2>2. CASE registry' = registry
    BY <2>2 DEF RoomInv
  <2>3. QED
    BY <2>1, <2>2 DEF joinfreeze, CorpusRestarts, vars, servers
<1>3. ASSUME NEW r \in Requests
      PROVE  RequestOK(r)'
  <2>1. Registered(r)' \subseteq Registered(r) /\ OnItsWay(r)' = OnItsWay(r)
    BY <1>1, <1>2 DEF Registered, OnItsWay
  <2>2. QED
    BY <1>1, <1>2, <2>1, Untouched DEF RoomInv
<1>4. \A p \in posts' : PostOK(p)'
  BY <1>1 DEF RoomInv, PostOK, Joins
<1>5. QED
  BY <1>1, <1>2, <1>3, <1>4 DEF RoomInv

\* Every step keeps the invariant.
LEMMA RoomInvStep == TypeOK /\ RoomInv /\ [Next]_vars => RoomInv'
BY AdmitKeeps, CheckCapKeeps, PostKeeps, GivesUpKeeps, SaveNoteKeeps,
   GatewayHandlesKeeps, SetCorpusKeeps, OthersKeep DEF Next, OwnStep

----------------------------------------------------------------------------
(* Type correctness. *)

\* A join's form has a note, its own or none.
LEMMA NoteOfJoin ==
  ASSUME TypeOK, NEW r \in Joins
  PROVE  form[r].note \in Requests \cup {NoNote}
<1>1. r \in Requests /\ form[r] # None /\ form[r].api = "join"
  BY DEF Joins
<1>2. form[r] \in Forms(r)
  BY <1>1 DEF TypeOK
<1>3. form[r] \in [api: {"join"}, initials: Initials, stance: Stances, note: {NoNote, r}]
  BY <1>1, <1>2 DEF Forms
<1>4. QED
  BY <1>1, <1>3

\* The types of the registry and of the POSTs.
NamesOK ==
  /\ \A kind \in Kinds : \A e \in registry[kind] :
       /\ e.by \in Requests \cup {Seed}
       /\ Len(e.name) \in IF kind = "a2a" THEN {2, 3} ELSE {1, 2}
  /\ \A p \in posts : p.by \in Requests /\ p.to \in Kinds \cup {"corpus"}

\* What is registered is what was sent.
LEMMA NamesStep == NamesOK /\ RoomInv /\ [Next]_vars => NamesOK'
<1> SUFFICES ASSUME NamesOK, RoomInv, [Next]_vars
             PROVE  NamesOK'
  OBVIOUS
<1> USE DEF NamesOK
<1>1. ASSUME NEW r \in Requests, NEW f \in Forms(r), Admit(r, f)
      PROVE  NamesOK'
  BY <1>1 DEF Admit, servers
<1>2. ASSUME NEW r \in Requests, CheckCap(r) \/ GivesUp(r)
      PROVE  NamesOK'
  BY <1>2 DEF CheckCap, GivesUp, servers
<1>3. ASSUME NEW r \in Requests, NEW kind \in Kinds, Post(r, kind)
      PROVE  NamesOK'
  BY <1>3 DEF Post, servers
<1>4. ASSUME NEW r \in Requests, SaveNote(r)
      PROVE  NamesOK'
  <2> DEFINE q == [by |-> r, to |-> "corpus", name |-> <<form[r].initials>>]
  <2>1. registry' = registry /\ (posts' = posts \/ posts' = posts \cup {q})
    BY <1>4 DEF SaveNote, servers
  <2>2. q.by = r /\ q.to = "corpus"
    OBVIOUS
  <2>3. QED
    BY <2>1, <2>2
<1>5. ASSUME NEW p \in posts, GatewayHandles(p)
      PROVE  NamesOK'
  <2> DEFINE e == [name |-> p.name, by |-> p.by]
  <2>1. /\ posts' = posts \ {p} /\ p.to \in Kinds
        /\ registry' = registry \/ registry' = [registry EXCEPT ![p.to] = @ \cup {e}]
    BY <1>5 DEF GatewayHandles
  <2>2. p.by \in Requests /\ Len(p.name) \in IF p.to = "a2a" THEN {2, 3} ELSE {1, 2}
    BY <2>1 DEF RoomInv, PostOK, Kinds
  <2>3. DOMAIN registry = Kinds
    BY DEF RoomInv
  <2>4. \A kind \in Kinds : registry'[kind] \subseteq registry[kind] \cup IF kind = p.to THEN {e} ELSE {}
    BY <2>1, <2>3
  <2>5. QED
    BY <2>1, <2>2, <2>4
<1>6. ASSUME NEW p \in posts, set_corpus(p)
      PROVE  NamesOK'
  BY <1>6 DEF set_corpus
<1>7. CASE AgentsReset
  <2>1. posts' = posts /\ \A kind \in Kinds : registry'[kind] \subseteq registry[kind]
    BY <1>7 DEF AgentsReset, RoomInv, Kinds
  <2>2. QED
    BY <2>1
<1>8. CASE joinfreeze \/ CorpusRestarts \/ UNCHANGED vars
  BY <1>8 DEF joinfreeze, CorpusRestarts, vars, servers
<1>9. QED
  BY <1>1, <1>2, <1>3, <1>4, <1>5, <1>6, <1>7, <1>8 DEF Next, OwnStep

\* No step breaks a type.
LEMMA TypeStep == TypeOK /\ RoomInv /\ [Next]_vars => TypeOK'
<1> SUFFICES ASSUME TypeOK, RoomInv, [Next]_vars
             PROVE  TypeOK'
  OBVIOUS
<1> DEFINE Places == {"idle", "cap", "a2a", "gateways", "note", "done", "refused"} \cup Waiting
           OwnType ==
             /\ STORE \in [Initials -> Requests \cup {NoNote}]
             /\ JOIN_FROZEN \in BOOLEAN
             /\ pc \in [Requests -> Places]
             /\ \A r \in Requests : form[r] \in Forms(r) \cup {None}
             /\ tries \in [Requests -> 1..MaxTries]
<1>1. NamesOK'
  BY NamesStep DEF TypeOK, NamesOK
<1>2. OwnType /\ DOMAIN form = Requests
  BY DEF TypeOK, RoomInv
<1>3. \A kind \in Kinds : kind \in Places /\ Sent(kind) \in Places /\ After(kind) \in Places
  BY DEF Kinds, Sent, After, Waiting
<1>4. ASSUME NEW r \in Requests, NEW from, NEW to \in Places, Goto(r, from, to)
      PROVE  pc' \in [Requests -> Places]
  BY <1>2, <1>4 DEF Goto
<1> HIDE DEF Places
<1>p. {"idle", "cap", "a2a", "gateways", "note", "done", "refused", "note sent"} \subseteq Places
  BY DEF Places, Waiting
<1>5. OwnType'
  <2>1. ASSUME NEW r \in Requests, NEW f \in Forms(r), Admit(r, f)
        PROVE  OwnType'
    <3>1. pc' \in [Requests -> Places]
      BY <1>4, <1>p, <2>1 DEF Admit
    <3>2. \A q \in Requests : form'[q] \in Forms(q) \cup {None}
      BY <1>2, <2>1 DEF Admit
    <3>3. QED
      BY <1>2, <2>1, <3>1, <3>2 DEF Admit, servers
  <2>2. ASSUME NEW r \in Requests, CheckCap(r)
        PROVE  OwnType'
    <3>1. pc' \in [Requests -> Places]
      BY <1>4, <1>p, <2>2 DEF CheckCap
    <3>2. QED
      BY <1>2, <2>2, <3>1 DEF CheckCap, servers, companion
  <2>3. ASSUME NEW r \in Requests, NEW kind \in Kinds, Post(r, kind)
        PROVE  OwnType'
    <3>1. pc' \in [Requests -> Places]
      BY <1>3, <1>4, <2>3 DEF Post
    <3>2. QED
      BY <1>2, <2>3, <3>1 DEF Post, servers, companion
  <2>4. ASSUME NEW r \in Requests, GivesUp(r)
        PROVE  OwnType'
    <3>1. pc' \in [Requests -> Places]
      BY <1>3, <1>4, <1>p, <2>4 DEF GivesUp
    <3>2. QED
      BY <1>2, <2>4, <3>1 DEF GivesUp, servers, companion
  <2>5. ASSUME NEW r \in Requests, SaveNote(r)
        PROVE  OwnType'
    <3>1. pc' \in [Requests -> Places]
      BY <1>4, <1>p, <2>5 DEF SaveNote
    <3>2. QED
      BY <1>2, <2>5, <3>1 DEF SaveNote, servers, companion
  <2>6. ASSUME NEW p \in posts, GatewayHandles(p)
        PROVE  OwnType'
    <3>1. p.by \in Requests /\ p.to \in Kinds
      BY <2>6 DEF TypeOK, GatewayHandles
    <3>2. PICK answer \in {"created", "conflict", "refused"} :
            IF pc[p.by] = Sent(p.to) THEN Answered(p.by, p.to, p.name, answer)
                                     ELSE UNCHANGED <<pc, tries, out>>
      BY <2>6 DEF GatewayHandles
    <3>3. pc' \in [Requests -> Places] /\ tries' \in [Requests -> 1..MaxTries]
      <4>1. CASE UNCHANGED <<pc, tries>>
        BY <1>2, <4>1
      <4>2. CASE JoinAnswered(p.by, p.to, p.name, answer)
        BY <1>2, <1>3, <1>4, <3>1, <4>2 DEF JoinAnswered
      <4>3. CASE RegistrationAnswered(p.by, p.name, answer)
        <5>1. CASE answer = "conflict" /\ tries[p.by] < MaxTries
          <6>1. Goto(p.by, Sent("gateways"), "gateways") /\ tries' = [tries EXCEPT ![p.by] = @ + 1]
            BY <4>3, <5>1 DEF RegistrationAnswered
          <6>2. tries[p.by] + 1 \in 1..MaxTries
            BY <1>2, <3>1, <5>1, RoomAssumption
          <6>3. QED
            BY <1>2, <1>4, <1>p, <3>1, <6>1, <6>2
        <5>2. CASE ~(answer = "conflict" /\ tries[p.by] < MaxTries)
          <6>1. Goto(p.by, Sent("gateways"), "done") /\ tries' = tries
            BY <4>3, <5>2 DEF RegistrationAnswered
          <6>2. QED
            BY <1>2, <1>4, <1>p, <3>1, <6>1
        <5>3. QED
          BY <5>1, <5>2
      <4>4. QED
        BY <3>2, <4>1, <4>2, <4>3 DEF Answered
    <3>4. QED
      BY <1>2, <2>6, <3>3 DEF GatewayHandles, companion
  <2>7. ASSUME NEW p \in posts, set_corpus(p)
        PROVE  OwnType'
    <3>1. p.by \in Joins
      BY <2>7 DEF RoomInv, PostOK, set_corpus
    <3>2. STORE' \in [Initials -> Requests \cup {NoNote}]
      BY <1>2, <2>7, <3>1, NoteOfJoin DEF set_corpus
    <3>3. pc' \in [Requests -> Places]
      BY <1>2, <1>p, <2>7 DEF set_corpus
    <3>4. QED
      BY <1>2, <2>7, <3>2, <3>3 DEF set_corpus, companion
  <2>8. CASE joinfreeze \/ AgentsReset \/ CorpusRestarts \/ UNCHANGED vars
    BY <1>2, <2>8 DEF joinfreeze, AgentsReset, CorpusRestarts, vars, servers, companion
  <2>9. QED
    BY <2>1, <2>2, <2>3, <2>4, <2>5, <2>6, <2>7, <2>8 DEF Next, OwnStep
<1>6. QED
  BY <1>1, <1>5 DEF TypeOK, NamesOK, Places

Inv == TypeOK /\ RoomInv

\* The fixed voters have names of two parts.
LEMMA FixedVotersNames ==
  ASSUME NEW n \in FixedVoters
  PROVE  Len(n) = 2
<1>1. n \in Stances \X Digits
  BY RoomAssumption
<1>2. n = <<n[1], n[2]>>
  BY <1>1
<1>3. Len(<<n[1], n[2]>>) = 2
  OBVIOUS
<1>4. QED
  BY <1>2, <1>3

\* The inductive invariant holds in every reachable state.
LEMMA Invariance == Spec => []Inv
<1>1. Init => Inv
  <2> SUFFICES ASSUME Init
               PROVE  Inv
    OBVIOUS
  <2>1. /\ DOMAIN registry = Kinds /\ registry.gateways = {} /\ posts = {}
        /\ \A e \in registry.a2a : e.by = Seed /\ e.name \in FixedVoters
    BY DEF Init, Kinds
  <2>2. \A kind \in Kinds : \A e \in registry[kind] :
          /\ e.by \in Requests \cup {Seed}
          /\ Len(e.name) \in IF kind = "a2a" THEN {2, 3} ELSE {1, 2}
    BY <2>1, FixedVotersNames DEF Kinds
  <2>3. TypeOK
    <3>1. tries \in [Requests -> 1..MaxTries]
      <4>1. 1 \in 1..MaxTries
        BY RoomAssumption
      <4>2. QED
        BY <4>1 DEF Init
    <3>2. /\ STORE \in [Initials -> Requests \cup {NoNote}] /\ JOIN_FROZEN \in BOOLEAN
          /\ \A r \in Requests : form[r] \in Forms(r) \cup {None}
          /\ pc \in [Requests -> {"idle", "cap", "a2a", "gateways", "note", "done", "refused"} \cup Waiting]
      BY DEF Init
    <3>3. QED
      BY <2>1, <2>2, <3>1, <3>2 DEF TypeOK
  <2>4. \A r \in Requests : Registered(r) = {} /\ OnItsWay(r) = {}
    BY <2>1 DEF Registered, OnItsWay
  <2>5. \A r \in Requests : DOMAIN out[r] = Kinds /\ RequestOK(r)
    BY <2>4 DEF Init, RequestOK, ServersOf, Kinds
  <2>6. RoomInv
    BY <2>1, <2>5 DEF Init, RoomInv
  <2>7. QED
    BY <2>3, <2>6 DEF Inv
<1>2. Inv /\ [Next]_vars => Inv'
  BY TypeStep, RoomInvStep DEF Inv
<1>3. QED
  BY <1>1, <1>2, PTL DEF Spec

----------------------------------------------------------------------------
(* The notes. *)

\* The second inductive invariant, for the notes: what the corpus server keeps
\* was saved by a join of those initials that is done; a note on its way bears
\* the initials of the join that sent it, which has not gone back since; and the
\* owner in a voter's name is somebody's initials.
NotesKept ==
  \A i \in Initials :
    \/ STORE[i] = NoNote
    \/ STORE[i] \in Joins /\ form[STORE[i]].initials = i /\ pc[STORE[i]] = "done"

NotesSent ==
  \A p \in posts : p.to = "corpus" =>
    /\ p.by \in Joins /\ pc[p.by] \in {"note sent", "done"}
    /\ p.name[1] = form[p.by].initials
    /\ form[p.by].note = p.by

OwnersKnown ==
  /\ \A p \in posts : p.to = "a2a" => p.name[2] \in Initials
  /\ \A e \in registry.a2a : e.name[2] \in Initials

NoteInv == NotesKept /\ NotesSent /\ OwnersKnown

\* A join's initials are initials.
LEMMA InitialsOfJoin ==
  ASSUME TypeOK, NEW r \in Joins
  PROVE  form[r].initials \in Initials
<1>1. r \in Requests /\ form[r] # None
  BY DEF Joins
<1>2. form[r] \in Forms(r)
  BY <1>1 DEF TypeOK
<1>3. QED
  BY <1>2 DEF Forms

\* A number behind a name of two parts leaves its second part.
LEMMA AppendOwner ==
  ASSUME NEW s, NEW i, NEW n
  PROVE  Append(<<s, i>>, n)[2] = i
<1>1. <<s, i>> \in Seq({s, i, n}) /\ n \in {s, i, n}
  OBVIOUS
<1>2. QED
  BY <1>1

\* Whatever number unique_name adds, the name is read as its owner's.
LEMMA PostedOwner ==
  ASSUME NEW r \in Requests, NEW existing
  PROVE  unique_name(Base(r, "a2a"), existing)[2] = form[r].initials
<1> DEFINE s == form[r].stance
           i == form[r].initials
           Free(j) == Append(<<s, i>>, j) \notin existing
           n == CHOOSE j \in 2..(Cardinality(existing) + 2) :
                  Free(j) /\ \A k \in 2..(j - 1) : ~Free(k)
<1>1. Base(r, "a2a") = <<s, i>>
  BY DEF Base
<1>2. unique_name(Base(r, "a2a"), existing) \in {<<s, i>>, Append(<<s, i>>, n)}
  BY <1>1 DEF unique_name
<1> HIDE DEF n
<1>3. Append(<<s, i>>, n)[2] = i
  BY AppendOwner
<1>4. <<s, i>>[2] = i
  OBVIOUS
<1>5. QED
  BY <1>2, <1>3, <1>4

\* A join keeps its form and, once its note is sent, does nothing but end.
LEMMA JoinsStay ==
  ASSUME TypeOK, RoomInv, [Next]_vars, NEW r \in Joins
  PROVE  /\ r \in Joins' /\ form'[r] = form[r]
         /\ pc[r] = "done" => pc'[r] = "done"
         /\ pc[r] = "note sent" => pc'[r] \in {"note sent", "done"}
<1>1. r \in Requests /\ form[r] # None
  BY DEF Joins
<1>2. /\ form'[r] = form[r]
      /\ pc[r] \in {"note sent", "done"} => pc'[r] \in {pc[r], "done"}
  <2>1. ASSUME NEW s \in Requests, NEW f \in Forms(s), Admit(s, f)
        PROVE  form'[r] = form[r] /\ pc'[r] = pc[r]
    <3>1. r # s /\ form' = [form EXCEPT ![s] = f]
      BY <1>1, <2>1 DEF Admit
    <3>2. form'[r] = form[r]
      BY <1>1, <3>1 DEF RoomInv
    <3>3. \A q \in Requests \ {s} : pc'[q] = pc[q]
      BY <2>1, GotoType DEF Admit
    <3>4. QED
      BY <1>1, <3>1, <3>2, <3>3
  <2>2. ASSUME NEW s \in Requests, OwnStep(s)
        PROVE  form' = form /\ (pc[r] \in {"note sent", "done"} => pc'[r] \in {pc[r], "done"})
    <3>1. CASE CheckCap(s)
      BY <1>1, <3>1, GotoType DEF CheckCap, companion
    <3>2. ASSUME NEW kind \in Kinds, Post(s, kind)
          PROVE  form' = form /\ (pc[r] \in {"note sent", "done"} => pc'[r] = pc[r])
      BY <1>1, <3>2, GotoType DEF Post, companion, Kinds
    <3>3. CASE GivesUp(s)
      BY <1>1, <3>3, GotoType DEF GivesUp, companion, Kinds, Sent
    <3>4. CASE SaveNote(s)
      BY <1>1, <3>4, GotoType DEF SaveNote, companion
    <3>5. QED
      BY <2>2, <3>1, <3>2, <3>3, <3>4 DEF OwnStep
  <2>3. ASSUME NEW p \in posts, GatewayHandles(p)
        PROVE  form' = form /\ (pc[r] \in {"note sent", "done"} => pc'[r] = pc[r])
    <3>1. form' = form /\ p.by \in Requests /\ p.to \in Kinds
      BY <2>3 DEF GatewayHandles, companion, TypeOK
    <3>2. PICK answer \in {"created", "conflict", "refused"} :
            IF pc[p.by] = Sent(p.to) THEN Answered(p.by, p.to, p.name, answer)
                                     ELSE UNCHANGED <<pc, tries, out>>
      BY <2>3 DEF GatewayHandles
    <3>3. CASE pc[p.by] = Sent(p.to)
      <4>1. \A q \in Requests \ {p.by} : pc'[q] = pc[q]
        BY <3>1, <3>2, <3>3, AnsweredMoves
      <4>2. pc[p.by] \notin {"note sent", "done"}
        BY <3>1, <3>3 DEF Sent, Kinds
      <4>3. QED
        BY <1>1, <3>1, <4>1, <4>2
    <3>4. CASE pc[p.by] # Sent(p.to)
      BY <3>1, <3>2, <3>4
    <3>5. QED
      BY <3>3, <3>4
  <2>4. ASSUME NEW p \in posts, set_corpus(p)
        PROVE  form' = form /\ (pc[r] \in {"note sent", "done"} => pc'[r] \in {pc[r], "done"})
    BY <1>1, <2>4 DEF set_corpus, companion, TypeOK
  <2>5. CASE joinfreeze \/ AgentsReset \/ CorpusRestarts \/ UNCHANGED vars
    BY <2>5 DEF joinfreeze, AgentsReset, CorpusRestarts, vars, companion
  <2>6. QED
    BY <2>1, <2>2, <2>3, <2>4, <2>5 DEF Next
<1>3. r \in Joins'
  BY <1>1, <1>2 DEF Joins
<1>4. QED
  BY <1>2, <1>3

\* A step keeps what is said of the notes if it saves none and what it sends and
\* registers is in order.
LEMMA NotesStepOf ==
  ASSUME TypeOK, RoomInv, NoteInv, [Next]_vars,
         \A i \in Initials : STORE'[i] \in {STORE[i], NoNote},
         \A p \in posts' \ posts :
           /\ p.to = "corpus" => /\ p.by \in Joins /\ pc'[p.by] \in {"note sent", "done"}
                                 /\ p.name[1] = form[p.by].initials /\ form[p.by].note = p.by
           /\ p.to = "a2a" => p.name[2] \in Initials,
         \A e \in registry'.a2a \ registry.a2a : e.name[2] \in Initials
  PROVE  NoteInv'
<1>1. NotesKept'
  BY JoinsStay DEF NoteInv, NotesKept
<1>2. NotesSent'
  <2> SUFFICES ASSUME NEW p \in posts', p.to = "corpus"
               PROVE  /\ p.by \in Joins' /\ pc'[p.by] \in {"note sent", "done"}
                      /\ p.name[1] = form'[p.by].initials /\ form'[p.by].note = p.by
    BY DEF NotesSent
  <2>1. /\ p.by \in Joins
        /\ p.name[1] = form[p.by].initials /\ form[p.by].note = p.by
    BY DEF NoteInv, NotesSent
  <2>2. p.by \in Joins' /\ form'[p.by] = form[p.by]
    BY <2>1, JoinsStay
  <2>3. pc'[p.by] \in {"note sent", "done"}
    <3>1. CASE p \in posts
      BY <2>1, <3>1, JoinsStay DEF NoteInv, NotesSent
    <3>2. CASE p \notin posts
      BY <3>2
    <3>3. QED
      BY <3>1, <3>2
  <2>4. QED
    BY <2>1, <2>2, <2>3
<1>3. OwnersKnown'
  BY DEF NoteInv, OwnersKnown
<1>4. QED
  BY <1>1, <1>2, <1>3 DEF NoteInv

\* Every step keeps it.
LEMMA NoteInvStep == TypeOK /\ RoomInv /\ NoteInv /\ [Next]_vars => NoteInv'
<1> SUFFICES ASSUME TypeOK, RoomInv, NoteInv, [Next]_vars
             PROVE  NoteInv'
  OBVIOUS
<1>1. ASSUME NEW r \in Requests, NEW f \in Forms(r), Admit(r, f)
      PROVE  NoteInv'
  BY <1>1, NotesStepOf DEF Admit, servers
<1>2. ASSUME NEW r \in Requests, CheckCap(r) \/ GivesUp(r)
      PROVE  NoteInv'
  BY <1>2, NotesStepOf DEF CheckCap, GivesUp, servers
<1>3. ASSUME NEW r \in Requests, NEW kind \in Kinds, Post(r, kind)
      PROVE  NoteInv'
  <2>1. PICK existing \in Read(kind) :
          posts' = posts \cup {[by |-> r, to |-> kind, name |-> unique_name(Base(r, kind), existing)]}
    BY <1>3 DEF Post
  <2>2. UNCHANGED <<registry, STORE>> /\ pc[r] = kind
    BY <1>3 DEF Post, servers, Goto
  <2>3. kind = "a2a" => unique_name(Base(r, kind), existing)[2] \in Initials
    <3>1. kind = "a2a" => r \in Joins
      BY <2>2 DEF RoomInv, RequestOK
    <3>2. QED
      BY <3>1, InitialsOfJoin, PostedOwner
  <2>4. \A p \in posts' \ posts : p.to = kind /\ (p.to = "a2a" => p.name[2] \in Initials)
    <3> HIDE DEF unique_name
    <3>1. QED
      BY <2>1, <2>3
  <2>5. QED
    BY <2>2, <2>4, NotesStepOf DEF Kinds
<1>4. ASSUME NEW r \in Requests, SaveNote(r)
      PROVE  NoteInv'
  <2> DEFINE q == [by |-> r, to |-> "corpus", name |-> <<form[r].initials>>]
  <2>1. UNCHANGED <<registry, STORE>> /\ pc[r] = "note"
    BY <1>4 DEF SaveNote, servers
  <2>2. r \in Joins
    BY <2>1 DEF RoomInv, RequestOK
  <2>3. \/ posts' = posts
        \/ posts' = posts \cup {q} /\ form[r].note # NoNote /\ pc'[r] = "note sent"
    BY <1>4, GotoType DEF SaveNote
  <2>4. form[r].note \in {NoNote, r}
    <3>1. form[r] \in Forms(r) /\ form[r].api = "join"
      BY <2>2 DEF TypeOK, Joins
    <3>2. form[r] \in [api: {"join"}, initials: Initials, stance: Stances, note: {NoNote, r}]
      BY <3>1 DEF Forms
    <3>3. QED
      BY <3>2
  <2>5. q.by = r /\ q.to = "corpus" /\ q.name[1] = form[r].initials
    OBVIOUS
  <2> HIDE DEF q
  <2>6. QED
    BY <2>1, <2>2, <2>3, <2>4, <2>5, NotesStepOf
<1>5. ASSUME NEW p \in posts, GatewayHandles(p)
      PROVE  NoteInv'
  <2> DEFINE e == [name |-> p.name, by |-> p.by]
  <2>1. /\ posts' = posts \ {p} /\ p.to \in Kinds /\ STORE' = STORE
        /\ registry' = registry \/ registry' = [registry EXCEPT ![p.to] = @ \cup {e}]
    BY <1>5 DEF GatewayHandles
  <2>2. e.name = p.name
    OBVIOUS
  <2>3. DOMAIN registry = Kinds
    BY DEF RoomInv
  <2>4. registry'.a2a \subseteq registry.a2a \cup IF p.to = "a2a" THEN {e} ELSE {}
    BY <2>1, <2>3 DEF Kinds
  <2> HIDE DEF e
  <2>5. \A x \in registry'.a2a \ registry.a2a : x.name[2] \in Initials
    BY <2>2, <2>4 DEF NoteInv, OwnersKnown
  <2>6. QED
    BY <2>1, <2>5, NotesStepOf
<1>6. ASSUME NEW p \in posts, set_corpus(p)
      PROVE  NoteInv'
  <2>1. /\ p.to = "corpus" /\ posts' \subseteq posts /\ registry' = registry
        /\ STORE' = [STORE EXCEPT ![p.name[1]] = form[p.by].note]
    BY <1>6 DEF set_corpus
  <2>2. /\ p.by \in Joins /\ pc[p.by] \in {"note sent", "done"}
        /\ p.name[1] = form[p.by].initials /\ form[p.by].note = p.by
    BY <2>1 DEF NoteInv, NotesSent
  <2>3. p.by \in Joins' /\ form'[p.by] = form[p.by]
    BY <2>2, JoinsStay
  <2>4. pc'[p.by] = "done"
    <3>1. p.by \in Requests /\ p.by \in DOMAIN pc
      BY DEF TypeOK
    <3>2. QED
      BY <1>6, <2>2, <3>1 DEF set_corpus
  <2>5. NotesKept'
    <3> SUFFICES ASSUME NEW i \in Initials
                 PROVE  \/ STORE'[i] = NoNote
                        \/ /\ STORE'[i] \in Joins' /\ form'[STORE'[i]].initials = i
                           /\ pc'[STORE'[i]] = "done"
      BY DEF NotesKept
    <3>1. CASE i = p.name[1]
      <4>1. STORE'[i] = p.by
        BY <2>1, <2>2, <3>1 DEF TypeOK
      <4>2. QED
        BY <2>2, <2>3, <2>4, <3>1, <4>1
    <3>2. CASE i # p.name[1]
      <4>1. STORE'[i] = STORE[i]
        BY <2>1, <3>2 DEF TypeOK
      <4>2. QED
        BY <4>1, JoinsStay DEF NoteInv, NotesKept
    <3>3. QED
      BY <3>1, <3>2
  <2>6. NotesSent'
    <3> SUFFICES ASSUME NEW x \in posts', x.to = "corpus"
                 PROVE  /\ x.by \in Joins' /\ pc'[x.by] \in {"note sent", "done"}
                        /\ x.name[1] = form'[x.by].initials /\ form'[x.by].note = x.by
      BY DEF NotesSent
    <3>1. /\ x.by \in Joins /\ pc[x.by] \in {"note sent", "done"}
          /\ x.name[1] = form[x.by].initials /\ form[x.by].note = x.by
      BY <2>1 DEF NoteInv, NotesSent
    <3>2. QED
      BY <3>1, JoinsStay
  <2>7. OwnersKnown'
    BY <2>1 DEF NoteInv, OwnersKnown
  <2>8. QED
    BY <2>5, <2>6, <2>7 DEF NoteInv
<1>7. CASE joinfreeze \/ AgentsReset \/ UNCHANGED vars
  <2>1. UNCHANGED <<posts, STORE>> /\ registry'.a2a = registry.a2a
    BY <1>7 DEF joinfreeze, AgentsReset, vars, servers, RoomInv, Kinds
  <2>2. QED
    BY <2>1, NotesStepOf
<1>8. CASE CorpusRestarts
  BY <1>8, NotesStepOf DEF CorpusRestarts
<1>9. QED
  BY <1>1, <1>2, <1>3, <1>4, <1>5, <1>6, <1>7, <1>8 DEF Next, OwnStep

----------------------------------------------------------------------------
(* What attendees may rely on. *)

\* Every variable keeps its type.
THEOREM TypeCorrect == Spec => []TypeOK
<1>1. Inv => TypeOK
  BY DEF Inv
<1>2. QED
  BY <1>1, Invariance, PTL

\* The voter a join reports is the one it registered, though join chose its name
\* from a read of the registry that was stale or had failed.
THEOREM VoterIsOwn == Spec => []ReportedVoterIsOwn
<1>1. Inv => ReportedVoterIsOwn
  BY DEF Inv, RoomInv, RequestOK, Joins, ReportedVoterIsOwn
<1>2. QED
  BY <1>1, Invariance, PTL

\* No request ends up with two servers, whichever of its POSTs are handled late:
\* register_mcp sends again only after a conflict.
THEOREM OneServer == Spec => []OneServerPerRequest
<1>1. Inv => OneServerPerRequest
  <2> SUFFICES ASSUME Inv, NEW r \in Requests
               PROVE  Cardinality(ServersOf(r)) <= 1
    BY DEF OneServerPerRequest, ServersOf, Registered, OnItsWay
  <2>1. CASE ServersOf(r) = {}
    BY <2>1, FS_EmptySet
  <2>2. CASE ServersOf(r) # {}
    <3>1. PICK x \in ServersOf(r) : TRUE
      BY <2>2
    <3>2. ServersOf(r) = {x}
      BY ZenonT(20) DEF Inv, RoomInv, RequestOK
    <3>3. QED
      BY <3>2, FS_Singleton
  <2>3. QED
    BY <2>1, <2>2
<1>2. QED
  BY <1>1, Invariance, PTL
\* No voter hears the note of other initials than those in its name, however late
\* the notes arrive and whatever names the joins were given; none goes by a note
\* that its join has not finished saving, and the seed's voters hear none.
THEOREM NotesOfTheOwner == Spec => []NotesStayWithTheirOwners
<1>1. Init => NoteInv
  <2>1. ASSUME NEW n \in FixedVoters
        PROVE  n[2] \in Initials
    BY RoomAssumption
  <2>2. Init => OwnersKnown
    BY <2>1 DEF Init, OwnersKnown
  <2>3. QED
    BY <2>2 DEF Init, NoteInv, NotesKept, NotesSent
<1>2. Inv /\ NoteInv /\ [Next]_vars => NoteInv'
  BY NoteInvStep DEF Inv
<1>3. Inv /\ NoteInv => NotesStayWithTheirOwners
  <2> SUFFICES ASSUME Inv, NoteInv, NEW e \in registry.a2a
               PROVE  MayHear(e.name) \subseteq {NoNote, ErrorText} \cup
                        {r \in Joins : /\ form[r].initials = parse_owner(e.name)
                                       /\ parse_owner(e.name) \notin Digits /\ pc[r] = "done"}
    BY DEF NotesStayWithTheirOwners, NamesIn
  <2> DEFINE owner == parse_owner(e.name)
  <2>1. owner \in Initials
    BY DEF NoteInv, OwnersKnown, parse_owner
  <2> HIDE DEF owner
  <2>2. \/ STORE[owner] = NoNote
        \/ STORE[owner] \in Joins /\ form[STORE[owner]].initials = owner /\ pc[STORE[owner]] = "done"
    BY <2>1 DEF NoteInv, NotesKept
  <2>3. MayHear(e.name) \subseteq {NoNote, ErrorText} \cup
          IF owner \in Digits THEN {} ELSE {STORE[owner]}
    BY DEF MayHear, read_corpus, owner
  <2>4. QED
    BY <2>2, <2>3 DEF owner
<1>4. QED
  BY <1>1, <1>2, <1>3, Invariance, PTL DEF Spec
=============================================================================
