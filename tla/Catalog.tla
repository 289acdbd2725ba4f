------------------------------ MODULE Catalog ------------------------------
(***************************************************************************)
(* Administration of the gateway's catalog: gateway/seed/seed.py registers *)
(* the backends and rebuilds the virtual servers of the personas, register *)
(* .py registers one backend anew, grant.py adds tools to one virtual      *)
(* server, and the operator's register_mcp_server is one POST.  They share *)
(* nothing but the catalog, a virtual server lists tools by identity, and  *)
(* a backend registered anew has tools with new identities.                *)
(*                                                                         *)
(* Names are sequences of words: matching ignores case, "_" and "-", and   *)
(* on the names of this repository it never cuts a word.                   *)
(*                                                                         *)
(* The Companion (companion/app.py) hands attendees a connection to the    *)
(* virtual server of a persona, by the identity the server has then.       *)
(***************************************************************************)
EXTENDS Integers, SequencesExt

CONSTANTS
  Processes,      \* terminals from which somebody runs a script
  MaxRuns,        \* the scripts run in all
  Deployed,       \* the backends whose containers are up
  Jobs,           \* what may be run
  Before,         \* what may have been registered before, in that order
  MaxGen,         \* a bound: how often a backend is registered
  None

VARIABLES
  listed,      \* the registered backends, in the order of registration
  gen,         \* how often each was registered
  newestFirst, \* the order in which the gateway lists tools
  servers,     \* the virtual servers: name, identity and associated tools
  made,        \* the virtual servers made so far, for their identities
  runs,        \* the scripts run so far
  run,         \* the script each process is in
  FINOPS,      \* the analyst's virtual server, as the Companion was told at its start
  held         \* the connection that an attendee was handed: persona and identity

catalog == <<listed, gen, servers, made>>
companion == <<FINOPS, held>>
vars == <<catalog, newestFirst, runs, run, companion>>

----------------------------------------------------------------------------
(* What the scripts know. *)

MCP == <<"expense-db", "erp-payments", "policy-docs", "notify", "controlplane", "corpus">>
A2A == <<"auditor", "payments", "chair">>
Backends == ToSet(MCP) \cup ToSet(A2A) \cup {"fx-rates", "sales-tax"}

FinOps == [name |-> "FinOps", wants |-> <<
  <<"list", "pending", "expenses">>, <<"get", "expense">>, <<"get", "receipt">>, <<"approve">>,
  <<"reimburse">>, <<"get", "policy">>, <<"wire", "limit">>, <<"a2a", "auditor">>>>]
Treasury == [name |-> "Treasury", wants |-> <<<<"wire">>, <<"reimburse">>, <<"a2a", "payments">>>>]
Operator == [name |-> "Operator", wants |-> <<
  <<"register", "mcp", "server">>, <<"list", "control", "plane">>, <<"recent", "blocks">>,
  <<"evaluate", "policy">>>>]
Personas == <<FinOps, Treasury, Operator>>

\* The tools of a backend, and the names the gateway lists them under.
ToolsOf(b) ==
  CASE b = "expense-db" -> <<<<"list", "pending", "expenses">>, <<"get", "expense">>, <<"get", "receipt">>>>
    [] b = "erp-payments" -> <<<<"approve">>, <<"reimburse">>, <<"wire">>>>
    [] b = "policy-docs" -> <<<<"get", "policy">>, <<"wire", "limit">>>>
    [] b = "notify" -> <<<<"notify">>>>
    [] b = "controlplane" -> Operator.wants
    [] b = "corpus" -> <<<<"get", "corpus">>>>
    [] b = "fx-rates" -> <<<<"get", "fx", "rate">>, <<"list", "currencies">>, <<"convert">>>>
    [] b = "sales-tax" -> <<<<"add", "tax">>>>
    [] OTHER -> <<<<b>>>>
Slug(b) ==
  CASE b = "expense-db" -> <<"expense", "db">> [] b = "erp-payments" -> <<"erp", "payments">>
    [] b = "policy-docs" -> <<"policy", "docs">> [] b = "fx-rates" -> <<"fx", "rates">>
    [] b = "sales-tax" -> <<"sales", "tax">> [] b \in ToSet(A2A) -> <<"a2a">> [] OTHER -> <<b>>

Wire == <<"erp", "payments", "wire">>

\* What is not for the analyst.  A name is distinct from these when it has a word
\* that none of them has.
Beyond == {Wire} \cup {Slug("controlplane") \o w : w \in ToSet(Operator.wants)}
Distinct(want) == \E k \in DOMAIN want : \A name \in Beyond : want[k] \notin ToSet(name)

Tasks == {"seed", "grant", "register", "register_mcp_server"}

\* Nobody asks for what is not the analyst's to be granted to the analyst.
ASSUME CatalogAssumption ==
  /\ MaxRuns \in Nat /\ MaxGen \in Nat \ {0}
  /\ None \notin {"ok", "failed", "analyst"} /\ Deployed \subseteq Backends
  /\ \A b \in Before : b \in Seq(Backends) /\ IsInjective(b)
  /\ \A job \in Jobs :
       /\ job.task \in Tasks
       /\ job.task \in {"register", "register_mcp_server"} => job.backend \in Backends
       /\ job.task = "grant" => job.names \in Seq(Seq(STRING))
       /\ job.task = "grant" /\ job.server = "FinOps" =>
            \A k \in DOMAIN job.names : Distinct(job.names[k])

\* The gateway's list of tools.
OfBackend(b) ==
  [k \in 1..Len(ToolsOf(b)) |-> [name |-> Slug(b) \o ToolsOf(b)[k], of |-> b, gen |-> gen[b]]]
ToolList ==
  FlattenSeq([k \in 1..Len(listed) |->
                OfBackend(listed[IF newestFirst THEN Len(listed) + 1 - k ELSE k])])

Registered == ToSet(listed)
ServerNames == {s.name : s \in servers}
Exposed(name) == UNION {s.tools : s \in {t \in servers : t.name = name}}
NamesOf(tools) == {t.name : t \in tools}

----------------------------------------------------------------------------
(* Resolving names. *)

FirstWith(Test(_), list) ==
  LET k == SelectInSeq(list, Test) IN IF k = 0 THEN {} ELSE {list[k]}

\* Deviation: one word in common is enough.
ids_ByAnyWord(want, list) ==
  LET Shares(t) == ToSet(want) \cap ToSet(t.name) # {} IN FirstWith(Shares, list)

\* seed.py takes the first tool in whose name the wanted one occurs.
ids(want, list) ==
  LET Occurs(t) == want \in SubSeqs(t.name) IN FirstWith(Occurs, list)

\* grant.py prefers the name itself, then one that ends with it, then one in
\* which it occurs.
match_tool_ids(want, list) ==
  LET Equals(t) == t.name = want
      Ends(t) == IsSuffix(want, t.name)
      Occurs(t) == want \in SubSeqs(t.name)
  IN  CASE FirstWith(Equals, list) # {} -> FirstWith(Equals, list)
        [] FirstWith(Equals, list) = {} /\ FirstWith(Ends, list) # {} -> FirstWith(Ends, list)
        [] OTHER -> FirstWith(Occurs, list)

----------------------------------------------------------------------------
(* Types and the initial state. *)

Idle == [job |-> None, at |-> "idle", result |-> None, todo |-> <<>>, seen |-> <<>>, ids |-> {},
         want |-> {}, had |-> {}, tries |-> 0, before |-> 0, clean |-> TRUE]

ToolNames == UNION {{Slug(b) \o w : w \in ToSet(ToolsOf(b))} : b \in Backends}
Tools == [name : ToolNames, of : Backends, gen : Nat]
Owners == {s.name : s \in ToSet(Personas)} \cup {j.server : j \in {job \in Jobs : job.task = "grant"}}

TypeOK ==
  /\ listed \in Seq(Backends) /\ IsInjective(listed)
  /\ gen \in [Backends -> 0..MaxGen] /\ \A b \in Registered : gen[b] > 0
  /\ made \in Nat /\ servers \subseteq [name : Owners, id : 1..made, tools : SUBSET Tools]
  /\ \A s, t \in servers : s.name = t.name \/ s.id = t.id => s = t
  /\ \A p \in Processes : run[p].at = "done" <=> run[p].result # None
  /\ {FINOPS, held.uuid} \subseteq 0..made

Init ==
  /\ listed \in Before
  /\ gen = [b \in Backends |-> IF b \in Registered THEN 1 ELSE 0]
  /\ newestFirst \in BOOLEAN
  /\ servers = {}
  /\ made = 0
  /\ runs = 0
  /\ run = [p \in Processes |-> Idle]
  /\ FINOPS = 0
  /\ held = [persona |-> None, uuid |-> 0]

----------------------------------------------------------------------------
(* What the gateway does with the calls. *)

Register(b) ==
  /\ listed' = Append(listed, b)
  /\ gen' = [gen EXCEPT ![b] = @ + 1]
  /\ UNCHANGED <<servers, made>>

MayRegister(b) == b \in Deployed \ Registered /\ gen[b] < MaxGen

\* The tools of a backend go with it, also from the virtual servers.
Unregister(b) ==
  /\ listed' = RemoveFirst(listed, b)
  /\ servers' = {[s EXCEPT !.tools = {t \in @ : t.of # b}] : s \in servers}
  /\ UNCHANGED <<gen, made>>

\* Of these, the tools that the gateway still has.
Current(tools) == tools \cap UNION {ToSet(OfBackend(b)) : b \in Registered}

CreateServer(name, tools) ==
  /\ servers' = servers \cup {[name |-> name, id |-> made + 1, tools |-> Current(tools)]}
  /\ made' = made + 1
  /\ UNCHANGED <<listed, gen>>

DeleteServer(id) ==
  /\ servers' = {s \in servers : s.id # id}
  /\ UNCHANGED <<listed, gen, made>>

IdOf(name) == IF name \in ServerNames THEN (CHOOSE s \in servers : s.name = name).id ELSE 0

\* Process p goes on as r; the run of any other process that the catalog is
\* changed under is no longer undisturbed.
Becomes(p, r) ==
  /\ run' = [q \in Processes |-> IF q = p THEN r
                                 ELSE [run[q] EXCEPT !.clean = @ /\ catalog' = catalog]]
  /\ UNCHANGED <<newestFirst, runs, companion>>

Faulty(r) == [r EXCEPT !.clean = FALSE]
Ends(r, result) == [Idle EXCEPT !.job = r.job, !.at = "done", !.result = result, !.clean = r.clean,
                                !.had = r.had, !.before = r.before]

----------------------------------------------------------------------------
(* seed.py.  A list that cannot be read is empty; names whose containers are *)
(* down are passed over, as their registration is refused.                   *)

SeedReads(p) ==
  LET r == run[p] IN
  /\ r.at \in {"mcp", "a2a"}
  /\ UNCHANGED catalog
  /\ \E existing \in {Registered, {}} :
       LET Missing(b) == b \in Deployed \ existing
           next == [r EXCEPT !.todo = SelectSeq(IF r.at = "mcp" THEN MCP ELSE A2A, Missing),
                             !.at = IF @ = "mcp" THEN "post mcp" ELSE "post a2a"]
       IN  Becomes(p, IF existing = Registered THEN next ELSE Faulty(next))

\* One POST for each missing backend; a refusal is printed and passed over.
SeedPosts(p) ==
  LET r == run[p] IN
  /\ r.at \in {"post mcp", "post a2a"}
  /\ IF r.todo = <<>>
       THEN /\ UNCHANGED catalog
            /\ Becomes(p, [r EXCEPT !.at = IF @ = "post mcp" THEN "fx-rates" ELSE "tools"])
       ELSE LET next == [r EXCEPT !.todo = Tail(@)] IN
            \/ MayRegister(Head(r.todo)) /\ Register(Head(r.todo)) /\ Becomes(p, next)
            \/ UNCHANGED catalog /\ Becomes(p, Faulty(next))

\* The operator registers fx-rates live, so it must not be there.
SeedDropsFxRates(p) ==
  LET r == run[p]  next == [r EXCEPT !.at = "a2a"] IN
  /\ r.at = "fx-rates"
  /\ \/ "fx-rates" \in Registered /\ Unregister("fx-rates") /\ Becomes(p, next)
     \/ UNCHANGED catalog /\ Becomes(p, IF "fx-rates" \in Registered THEN Faulty(next) ELSE next)

SeedListsTools(p) ==
  LET r == run[p] IN
  /\ r.at = "tools"
  /\ UNCHANGED catalog
  /\ \E list \in {ToolList, <<>>} :
       LET next == [r EXCEPT !.at = "servers", !.seen = list, !.todo = Personas]
       IN  Becomes(p, IF list = ToolList THEN next ELSE Faulty(next))

Identities == {s.id : s \in servers}

\* Which virtual servers there are is read once, with their identities.
SeedReadsServers(p) ==
  LET r == run[p] IN
  /\ r.at = "servers"
  /\ UNCHANGED catalog
  /\ \E read \in {Identities, {}} :
       LET next == [r EXCEPT !.at = "delete", !.ids = read]
       IN  Becomes(p, IF read = Identities THEN next ELSE Faulty(next))

\* Each persona's virtual server is deleted, if it was read and is still that
\* one, and made again with the tools that were listed; the second call may be
\* refused after the first was done.
SeedDeletes(p) ==
  LET r == run[p]
      id == IdOf(Head(r.todo).name)
      next == [r EXCEPT !.at = "make"]
  IN  /\ r.at = "delete" /\ r.todo # <<>>
      /\ \/ id \in r.ids /\ DeleteServer(id) /\ Becomes(p, next)
         \/ id \in r.ids /\ UNCHANGED catalog /\ Becomes(p, Faulty(next))
         \/ id \notin r.ids /\ UNCHANGED catalog /\ Becomes(p, next)

SeedMakes(p) ==
  LET r == run[p]
      s == Head(r.todo)
      tools == UNION {ids(s.wants[k], r.seen) : k \in DOMAIN s.wants}
      next == [r EXCEPT !.at = "delete", !.todo = Tail(@)]
  IN  /\ r.at = "make"
      /\ \/ s.name \notin ServerNames /\ CreateServer(s.name, tools) /\ Becomes(p, next)
         \/ s.name \notin ServerNames /\ UNCHANGED catalog /\ Becomes(p, Faulty(next))
         \/ s.name \in ServerNames /\ UNCHANGED catalog /\ Becomes(p, next)

\* Nothing that was refused makes the script fail.
SeedEnds(p) ==
  /\ run[p].at = "delete" /\ run[p].todo = <<>>
  /\ UNCHANGED catalog
  /\ Becomes(p, Ends(run[p], "ok"))

----------------------------------------------------------------------------
(* grant.py *)

GrantReads(p) ==
  LET r == run[p] IN
  /\ r.at = "grant"
  /\ UNCHANGED catalog
  /\ \E list \in {ToolList, <<>>} :
       LET want == UNION {match_tool_ids(r.job.names[k], list) : k \in DOMAIN r.job.names}
       IN  Becomes(p, IF want = {} THEN Ends(r, "failed")
                      ELSE [r EXCEPT !.at = "union", !.seen = list, !.want = want])

\* Deviation: the names of the associated tools are looked for under a key
\* that the answer does not have.
keep_OtherKey(names, list) == {}

\* What the server exposed is resolved again from the names of its tools, in
\* the list that was read before.
keep(names, list) == UNION {match_tool_ids(n, list) : n \in names}

GrantUnites(p) ==
  LET r == run[p]
      had == Exposed(r.job.server)
      next == [r EXCEPT !.seen = <<>>, !.had = had, !.ids = {IdOf(r.job.server)},
                        !.want = @ \cup keep(NamesOf(had), r.seen)]
  IN  /\ r.at = "union"
      /\ UNCHANGED catalog
      /\ \/ r.job.server \in ServerNames /\ Becomes(p, [next EXCEPT !.at = "drop"])
         \/ r.job.server \notin ServerNames /\ Becomes(p, [next EXCEPT !.at = "create"])
         \/ Becomes(p, Faulty([r EXCEPT !.seen = <<>>, !.at = "create"]))

GrantDeletes(p) ==
  LET r == run[p]
      id == IdOf(r.job.server)
      next == [r EXCEPT !.at = "create"]
  IN  /\ r.at = "drop"
      /\ \/ id \in r.ids /\ DeleteServer(id) /\ Becomes(p, next)
         \/ UNCHANGED catalog /\ Becomes(p, Faulty(next))

\* A server that was made and cannot be read back is a failure too.
GrantCreates(p) ==
  LET r == run[p] IN
  /\ r.at = "create"
  /\ \/ /\ r.job.server \notin ServerNames
        /\ CreateServer(r.job.server, r.want)
        /\ \E result \in {"ok", "failed"} : Becomes(p, Ends(r, result))
     \/ UNCHANGED catalog /\ Becomes(p, Ends(r, "failed"))

----------------------------------------------------------------------------
(* register.py, and the operator's tool. *)

RegisterDeletes(p) ==
  LET r == run[p]  next == [r EXCEPT !.at = "post", !.tries = 1] IN
  /\ r.at = "register"
  /\ \/ r.job.backend \in Registered /\ Unregister(r.job.backend) /\ Becomes(p, next)
     \/ UNCHANGED catalog /\ Becomes(p, next)

MaxTries == 6
Again(r) == IF r.tries < MaxTries THEN [r EXCEPT !.tries = @ + 1] ELSE Ends(r, "failed")

\* An exception, after which the POST may have been done, and an answer of 5xx
\* are tried again, six times in all; any other refusal ends the script.
RegisterPosts(p) ==
  LET r == run[p] IN
  /\ r.at = "post"
  /\ \/ /\ MayRegister(r.job.backend) /\ Register(r.job.backend)
        /\ Becomes(p, Ends(r, "ok")) \/ Becomes(p, Again(r))
     \/ UNCHANGED catalog /\ (Becomes(p, Again(r)) \/ Becomes(p, Ends(r, "failed")))

\* Deviation: after an exception the call ends and reports nothing.
register_mcp_server_Silent(p) ==
  LET r == run[p] IN
  /\ r.at = "register_mcp_server"
  /\ UNCHANGED catalog
  /\ Becomes(p, Ends(r, None))

\* One POST; what it answers, or that nothing came, is what is reported.
register_mcp_server(p) ==
  LET r == run[p] IN
  /\ r.at = "register_mcp_server"
  /\ \/ /\ MayRegister(r.job.backend) /\ Register(r.job.backend)
        /\ Becomes(p, Ends(r, "ok")) \/ Becomes(p, Ends(r, "failed"))
     \/ UNCHANGED catalog /\ Becomes(p, Ends(r, "failed"))

----------------------------------------------------------------------------
Begin(p, job) ==
  /\ run[p].at \in {"idle", "done"}
  /\ runs < MaxRuns
  /\ runs' = runs + 1
  /\ run' = [run EXCEPT ![p] =
       [Idle EXCEPT !.job = job, !.at = IF job.task = "seed" THEN "mcp" ELSE job.task,
                    !.before = IF job.task \in {"register", "register_mcp_server"}
                                 THEN gen[job.backend] ELSE 0]]
  /\ UNCHANGED <<catalog, newestFirst, companion>>

\* An exception that nothing catches, or an interrupt.
Crash(p) ==
  /\ run[p].at \notin {"idle", "done"}
  /\ UNCHANGED catalog
  /\ Becomes(p, Ends(run[p], "failed"))

----------------------------------------------------------------------------
(* The Companion.  A list of servers that cannot be read is empty. *)

CompanionStarts ==
  /\ FINOPS' \in {IdOf("FinOps"), 0}
  /\ UNCHANGED <<catalog, newestFirst, runs, run, held>>

_server_uuids(readable) ==
  [name \in {"FinOps", "Operator"} |-> IF readable THEN IdOf(name) ELSE 0]

\* Deviation: a persona without a virtual server gets any other.
_connect_info_AnyServer(readable) ==
  LET uuids == _server_uuids(readable)
      OrAny(uuid) == IF uuid # 0 \/ servers = {} THEN uuid ELSE (CHOOSE s \in servers : TRUE).id
  IN  [analyst |-> OrAny(uuids["FinOps"]), operator |-> OrAny(uuids["Operator"])]

\* The identities behind the two connections; only the analyst's has a second
\* source.
_connect_info(readable) ==
  LET uuids == _server_uuids(readable)
  IN  [analyst |-> IF uuids["FinOps"] # 0 THEN uuids["FinOps"] ELSE FINOPS,
       operator |-> uuids["Operator"]]

\* A persona that has no identity is answered 404.
bob_settings(persona) ==
  /\ \E readable \in BOOLEAN :
       LET uuid == _connect_info(readable)[persona]
       IN  uuid # 0 /\ held' = [persona |-> persona, uuid |-> uuid]
  /\ UNCHANGED <<catalog, newestFirst, runs, run, FINOPS>>

\* What a virtual server exposes to those who know its identity; one that is
\* gone exposes nothing.
Behind(uuid) == UNION {s.tools : s \in {t \in servers : t.id = uuid}}
finops_tools == NamesOf(Behind(FINOPS))

OwnStep(p) ==
  \/ SeedReads(p) \/ SeedPosts(p) \/ SeedDropsFxRates(p) \/ SeedListsTools(p)
  \/ SeedReadsServers(p) \/ SeedDeletes(p) \/ SeedMakes(p) \/ SeedEnds(p)
  \/ GrantReads(p) \/ GrantUnites(p) \/ GrantDeletes(p) \/ GrantCreates(p)
  \/ RegisterDeletes(p) \/ RegisterPosts(p) \/ register_mcp_server(p)

Next ==
  \/ \E p \in Processes : OwnStep(p) \/ Crash(p) \/ \E job \in Jobs : Begin(p, job)
  \/ CompanionStarts
  \/ \E persona \in {"analyst", "operator"} : bob_settings(persona)

Spec == Init /\ [][Next]_vars

----------------------------------------------------------------------------
(* Properties. *)

Undisturbed(p, task, result) ==
  run[p].at = "done" /\ run[p].job.task = task /\ run[p].result = result /\ run[p].clean

\* The analyst's virtual server never exposes the wire, in whatever order the
\* gateway lists the tools, whichever backends are up, and at any moment of
\* concurrent seeds, registrations and grants (README.md:28).
LeastPrivilege == Wire \notin NamesOf(Exposed("FinOps"))

\* A seed that met no fault and no other script leaves the analyst with every
\* tool of FinOps whose backend is registered, whatever was there before.
SeedServesTheAnalyst ==
  \A p \in Processes : Undisturbed(p, "seed", "ok") =>
    \A b \in Registered : \A w \in ToSet(ToolsOf(b)) :
      {w, Slug(b) \o w} \cap ToSet(FinOps.wants) # {} =>
        Slug(b) \o w \in NamesOf(Exposed("FinOps"))

\* A grant that succeeded undisturbed took nothing away, and the tool it
\* granted is the one of that name, in whatever order the tools are listed.
GrantKeeps ==
  \A p \in Processes : Undisturbed(p, "grant", "ok") =>
    LET server == run[p].job.server IN
    /\ NamesOf(run[p].had) \subseteq NamesOf(Exposed(server))
    /\ \A b \in Registered : \A w \in ToSet(ToolsOf(b)) :
         w \in ToSet(run[p].job.names) => Slug(b) \o w \in NamesOf(Exposed(server))

\* A registration reported as done is one that this script or this call made,
\* so that the backend's tools were discovered anew (register.py:3).
RegisteredIsFresh ==
  \A p \in Processes :
    run[p].result = "ok" /\ run[p].job.task \in {"register", "register_mcp_server"} =>
      gen[run[p].job.backend] > run[p].before

\* The three together: what a script reports, it has done.
ScriptsDoAsTheyReport == SeedServesTheAnalyst /\ GrantKeeps /\ RegisteredIsFresh

\* Whatever is reseeded, registered or granted after an attendee was handed a
\* connection, or after the Companion was told the analyst's server: what is
\* behind an analyst's identity is never the wire nor an operator's tool, and
\* the badge of app.py:578 is never red.
AnalystKeepsItsScope ==
  /\ Wire \notin finops_tools
  /\ held.persona = "analyst" => NamesOf(Behind(held.uuid)) \cap Beyond = {}
=============================================================================
