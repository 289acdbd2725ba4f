------------------------------ MODULE RoomJoin ------------------------------
(***************************************************************************)
(* Joining the room, companion/app.py: /api/join registers a voter (an A2A *)
(* agent) and a sales-tax server (an MCP gateway) for an attendee and puts *)
(* the attendee's note into the corpus server; /api/register-mcp registers *)
(* a server only.  The requests are served by threads of one process; the  *)
(* registries belong to ContextForge, which other requests change between  *)
(* any two calls, and which may handle a POST after its sender has stopped *)
(* waiting.  A registered voter reads its owner's note when it is asked.   *)
(*                                                                         *)
(* room-strict-AB is <<"strict", "AB">>, room-strict-AB-2 <<"strict",      *)
(* "AB", 2>>, and salestax-AB is <<"AB">>: initials are alphanumeric.      *)
(***************************************************************************)
EXTENDS Integers, Sequences, FiniteSets

CONSTANTS
  Requests,               \* to /api/join or to /api/register-mcp
  Initials, Digits,       \* sanitized initials, and those that are a number
  Stances,
  FixedVoters,            \* the names of the voters that the seed registers
  ATTENDEE_CAP, MaxTries,
  Seed, None, NoNote, ErrorText

ASSUME RoomAssumption == /\ Digits \subseteq Initials
                         /\ FixedVoters \subseteq Stances \X Digits
                         /\ ATTENDEE_CAP \in Nat /\ MaxTries \in Nat \ {0}

VARIABLES
  registry,       \* /a2a and /gateways: the room's names, and who registered each
  posts,          \* the POSTs that were sent and not handled yet
  STORE,          \* the corpus server: the note by initials
  JOIN_FROZEN,
  pc, form,       \* where a request is, and what it asks for
  tries,          \* the attempts of /api/register-mcp
  out             \* the names a request reports

vars == <<registry, posts, STORE, JOIN_FROZEN, pc, form, tries, out>>
servers == <<registry, STORE>>
companion == <<JOIN_FROZEN, form>>

Kinds == {"a2a", "gateways"}
Sent(kind) == CASE kind = "a2a" -> "a2a sent" [] kind = "gateways" -> "gateways sent"
                [] kind = "corpus" -> "note sent"
Waiting == {"a2a sent", "gateways sent", "note sent"}
Forms(r) == [api: {"join"}, initials: Initials, stance: Stances, note: {NoNote, r}]
              \cup [api: {"register-mcp"}, initials: Initials]

ASSUME FormsAssumption == \A r \in Requests : None \notin Forms(r)

Joins == {r \in Requests : form[r] # None /\ form[r].api = "join"}
Registrations == {r \in Requests : form[r] # None /\ form[r].api = "register-mcp"}
NamesIn(kind) == {e.name : e \in registry[kind]}

TypeOK ==
  /\ \A kind \in Kinds : \A e \in registry[kind] :
       /\ e.by \in Requests \cup {Seed}
       /\ Len(e.name) \in IF kind = "a2a" THEN {2, 3} ELSE {1, 2}
  /\ \A p \in posts : p.by \in Requests /\ p.to \in Kinds \cup {"corpus"}
  /\ STORE \in [Initials -> Requests \cup {NoNote}]
  /\ JOIN_FROZEN \in BOOLEAN
  /\ pc \in [Requests -> {"idle", "cap", "a2a", "gateways", "note", "done", "refused"} \cup Waiting]
  /\ \A r \in Requests : form[r] \in Forms(r) \cup {None}
  /\ tries \in [Requests -> 1..MaxTries]

Init ==
  /\ registry \in [a2a: {{}, {[name |-> n, by |-> Seed] : n \in FixedVoters}}, gateways: {{}}]
  /\ posts = {}
  /\ STORE = [i \in Initials |-> NoNote]
  /\ JOIN_FROZEN = FALSE
  /\ pc = [r \in Requests |-> "idle"]
  /\ form = [r \in Requests |-> None]
  /\ tries = [r \in Requests |-> 1]
  /\ out = [r \in Requests |-> [a2a |-> None, gateways |-> None]]

Goto(r, from, to) == pc[r] = from /\ pc' = [pc EXCEPT ![r] = to]

----------------------------------------------------------------------------
(* The request, up to its first POST. *)

\* The freeze stops joins; a registration of a server does not ask for it.
Admit(r, f) ==
  /\ form[r] = None
  /\ form' = [form EXCEPT ![r] = f]
  /\ Goto(r, "idle", CASE f.api = "register-mcp" -> "gateways"
                       [] f.api = "join" /\ JOIN_FROZEN -> "refused"
                       [] OTHER -> "cap")
  /\ UNCHANGED <<servers, posts, JOIN_FROZEN, tries, out>>

\* A registry that cannot be read, or that answers no list, reads as empty.
Read(kind) == {NamesIn(kind), {}}

voter_attendee_names(names) == names \ FixedVoters

CheckCap(r) ==
  /\ \E names \in Read("a2a") :
       Goto(r, "cap", IF Cardinality(voter_attendee_names(names)) >= ATTENDEE_CAP
                        THEN "refused" ELSE "a2a")
  /\ UNCHANGED <<servers, companion, posts, tries, out>>

\* Deviation: the number goes behind the number the name already has.
unique_name_Nested(base, existing) ==
  IF base \notin existing THEN base
  ELSE IF Append(base, 2) \notin existing THEN Append(base, 2)
  ELSE Append(Append(base, 2), 2)

unique_name(base, existing) ==
  IF base \notin existing THEN base
  ELSE LET Free(i) == Append(base, i) \notin existing
       IN  Append(base, CHOOSE i \in 2..(Cardinality(existing) + 2) :
                          Free(i) /\ \A j \in 2..(i - 1) : ~Free(j))

Base(r, kind) ==
  IF kind = "a2a" THEN <<form[r].stance, form[r].initials>> ELSE <<form[r].initials>>

\* The registry is read, the name chosen and the POST sent; the registry may be
\* another when the POST is handled.
Post(r, kind) ==
  /\ Goto(r, kind, Sent(kind))
  /\ \E existing \in Read(kind) :
       posts' = posts \cup {[by |-> r, to |-> kind, name |-> unique_name(Base(r, kind), existing)]}
  /\ UNCHANGED <<servers, companion, tries, out>>

----------------------------------------------------------------------------
(* Answers to a POST, and their absence. *)

\* What follows in a join, whatever became of the POST before.
After(kind) == IF kind = "a2a" THEN "gateways" ELSE "note"

Reports(r, kind, name) ==
  out' = IF name = None THEN out ELSE [out EXCEPT ![r][kind] = name]

\* Deviation: a conflict means that the agent is there, which will do.
JoinAnswered_ConflictWillDo(r, kind, name, answer) ==
  /\ Goto(r, Sent(kind), After(kind))
  /\ Reports(r, kind, IF answer = "refused" THEN None ELSE name)
  /\ UNCHANGED tries

\* A join takes the answer as it is.
JoinAnswered(r, kind, name, answer) ==
  /\ Goto(r, Sent(kind), After(kind))
  /\ Reports(r, kind, IF answer = "created" THEN name ELSE None)
  /\ UNCHANGED tries

\* Deviation: a conflict is tried again for as long as it takes.
RegistrationAnswered_Endless(r, name, answer) ==
  /\ Goto(r, Sent("gateways"), IF answer = "conflict" THEN "gateways" ELSE "done")
  /\ Reports(r, "gateways", IF answer = "created" THEN name ELSE None)
  /\ UNCHANGED tries

\* A registration chooses another name after a conflict, ten times at most.
RegistrationAnswered(r, name, answer) ==
  /\ IF answer = "conflict" /\ tries[r] < MaxTries
       THEN Goto(r, Sent("gateways"), "gateways") /\ tries' = [tries EXCEPT ![r] = @ + 1]
       ELSE Goto(r, Sent("gateways"), "done") /\ UNCHANGED tries
  /\ Reports(r, "gateways", IF answer = "created" THEN name ELSE None)

Answered(r, kind, name, answer) ==
  IF r \in Joins THEN JoinAnswered(r, kind, name, answer)
                 ELSE RegistrationAnswered(r, name, answer)

\* The gateway handles a POST, also one whose sender no longer waits.  Names
\* are unique in a registry.
GatewayHandles(p) ==
  /\ p \in posts /\ p.to \in Kinds
  /\ posts' = posts \ {p}
  /\ \E answer \in {IF p.name \in NamesIn(p.to) THEN "conflict" ELSE "created", "refused"} :
       /\ registry' = IF answer # "created" THEN registry
                      ELSE [registry EXCEPT ![p.to] = @ \cup {[name |-> p.name, by |-> p.by]}]
       /\ IF pc[p.by] = Sent(p.to) THEN Answered(p.by, p.to, p.name, answer)
                                   ELSE UNCHANGED <<pc, tries, out>>
  /\ UNCHANGED <<companion, STORE>>

\* Deviation: an exception is a reason to try again, like a conflict.
GivesUp_ByRetrying(r) ==
  /\ \/ \E kind \in Kinds : r \in Joins /\ Goto(r, Sent(kind), After(kind)) /\ UNCHANGED tries
     \/ Goto(r, "note sent", "done") /\ UNCHANGED tries
     \/ /\ r \in Registrations
        /\ Goto(r, Sent("gateways"), IF tries[r] < MaxTries THEN "gateways" ELSE "done")
        /\ tries' = [tries EXCEPT ![r] = IF @ < MaxTries THEN @ + 1 ELSE @]
  /\ UNCHANGED <<servers, companion, posts, out>>

\* The timeout, or a broken connection: the POST may still be handled.  A join
\* goes on, a registration ends.
GivesUp(r) ==
  /\ \/ \E kind \in Kinds : r \in Joins /\ Goto(r, Sent(kind), After(kind))
     \/ Goto(r, "note sent", "done")
     \/ r \in Registrations /\ Goto(r, Sent("gateways"), "done")
  /\ UNCHANGED <<servers, companion, posts, tries, out>>

----------------------------------------------------------------------------
(* The note.  The Companion's own copy, which no decision reads, is left out. *)

SaveNote(r) ==
  /\ pc[r] = "note"
  /\ IF form[r].note = NoNote
       THEN Goto(r, "note", "done") /\ UNCHANGED posts
       ELSE /\ Goto(r, "note", "note sent")
            /\ posts' = posts \cup {[by |-> r, to |-> "corpus", name |-> <<form[r].initials>>]}
  /\ UNCHANGED <<servers, companion, tries, out>>

set_corpus(p) ==
  /\ p \in posts /\ p.to = "corpus"
  /\ posts' = posts \ {p}
  /\ STORE' = [STORE EXCEPT ![p.name[1]] = form[p.by].note]
  /\ pc' = IF pc[p.by] = "note sent" THEN [pc EXCEPT ![p.by] = "done"] ELSE pc
  /\ UNCHANGED <<companion, registry, tries, out>>

parse_owner(name) == name[2]

\* Deviation: every voter with an owner in its name reads that owner's note.
read_corpus_AnyOwner(owner) == {STORE[owner], NoNote, ErrorText}

\* What a read through the gateway gives: the note, silence after an exception
\* or a JSON-RPC error, or the text of a tool error.  Numbers are not read.
read_corpus(owner) ==
  IF owner \in Digits THEN {NoNote} ELSE {STORE[owner], NoNote, ErrorText}

\* The notes a voter that is asked now may go by.  Asking it changes nothing.
MayHear(name) == read_corpus(parse_owner(name))

----------------------------------------------------------------------------
(* The presenter, and what happens to the servers. *)

\* Toggled at will, as long as some request is still to come.
joinfreeze ==
  /\ \E r \in Requests : pc[r] = "idle"
  /\ JOIN_FROZEN' = ~JOIN_FROZEN
  /\ UNCHANGED <<servers, posts, form, pc, tries, out>>

\* make agents-reset deletes the servers of the room, one after the other.
AgentsReset ==
  /\ \E e \in registry.gateways : registry' = [registry EXCEPT !.gateways = @ \ {e}]
  /\ UNCHANGED <<companion, STORE, posts, pc, tries, out>>

\* The corpus server keeps its notes in memory.
CorpusRestarts ==
  /\ STORE' = [i \in Initials |-> NoNote]
  /\ UNCHANGED <<companion, registry, posts, pc, tries, out>>

----------------------------------------------------------------------------
OwnStep(r) ==
  CheckCap(r) \/ (\E kind \in Kinds : Post(r, kind)) \/ GivesUp(r) \/ SaveNote(r)

Next ==
  \/ \E r \in Requests : OwnStep(r) \/ \E f \in Forms(r) : Admit(r, f)
  \/ \E p \in posts : GatewayHandles(p) \/ set_corpus(p)
  \/ joinfreeze \/ AgentsReset \/ CorpusRestarts

Spec == Init /\ [][Next]_vars

\* Every wait of a request has a timeout (10 or 30 seconds); nothing is asked
\* of the gateway, the corpus server, the voters or the presenter.
Fairness == \A r \in Requests : WF_vars(OwnStep(r))

FairSpec == Spec /\ Fairness

----------------------------------------------------------------------------
(* Properties. *)

\* The voter a join reports was registered by that join, so that no two joins
\* are told of the same one, although both chose their name from a read of the
\* registry that was stale or had failed (join, lines 829 to 851).
ReportedVoterIsOwn ==
  \A r \in Joins : out[r].a2a # None => [name |-> out[r].a2a, by |-> r] \in registry.a2a

\* One tap gets one server at most: a POST that was not answered may still be
\* handled, and so it is never repeated (register_mcp, the break at line 790).
OneServerPerRequest ==
  \A r \in Requests :
    Cardinality({e \in registry.gateways : e.by = r}
                \cup {p \in posts : p.by = r /\ p.to = "gateways"}) <= 1

\* A voter hears no note but one that a join of its owner's initials has saved
\* and is done with, and none if these are a number: neither a late POST nor a
\* name that another join was given brings a note to the voter of other initials
\* or to one of the seed's.  Of joins with the same initials it may be anyone's.
NotesStayWithTheirOwners ==
  \A name \in NamesIn("a2a") :
    LET owner == parse_owner(name)
    IN  MayHear(name) \subseteq {NoNote, ErrorText} \cup
          {r \in Joins : form[r].initials = owner /\ owner \notin Digits /\ pc[r] = "done"}

\* Every request is answered, though the gateway and the corpus server may
\* never answer and the registry may never be readable, so that every name
\* chosen is taken.
EveryRequestIsAnswered ==
  \A r \in Requests : form[r] # None ~> pc[r] \in {"done", "refused"}
=============================================================================
