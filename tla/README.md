# Verification of the FinByte agent control plane

The repository is a demonstration of a control plane for AI agents. Agents,
a dashboard and command-line clients call tools through one gateway; a plugin
in the gateway asks a policy engine about every call that looks like a payment;
a room of voting agents can supply the approval the policy asks for. This
directory models that system in TLA+, checks it with TLC on small instances,
and proves its most important properties with TLAPS for every instance.

## 1. The system

| Component | State it keeps | Operations | Talks to |
|---|---|---|---|
| Wire policy, `gateway/policies/finops.rego` | two limits | allow, deny with reasons | asked by FinByteGuard |
| FinByteGuard, `gateway/custom/finbyte_guard.py` | none | pre-hook (ask OPA, 5 s, fail closed), post-hook (rewrite text) | OPA, inside the gateway |
| ContextForge gateway (external image) | registry of servers, tools, agents, virtual servers | tools/call, administration | everything |
| ERP payments, `mcp-servers/erp-payments` | none: a wire is a message | wire, approve, reimburse | called by the gateway |
| Payments agent (Rust), `a2a-agents/payments` | A2A task | execute | called by the gateway |
| Approval Chair, `a2a-agents/chair` | one run per message, in memory | discover, fan out, tally, wire, report | gateway registry, voters, wire |
| Room voters, `a2a-agents/room` | none | read the owner's note, vote | corpus server through the gateway |
| Auditor, `a2a-agents/auditor` | none | parse, call a2a-payments, classify the answer | gateway |
| Corpus server, `mcp-servers/corpus` | note by owner | get, set | written by the Companion, read by voters |
| Companion, `companion/app.py` | crowd votes, freezes, notes, last result | cards, vote, join, register, freeze | gateway, corpus |
| Catalog administration, `gateway/seed`, `scripts/agents-reset.sh`, `Makefile` | none of its own | seed, register, grant, reset | gateway administration |
| Control-plane server, `mcp-servers/controlplane` | none | register, list, recent blocks, evaluate | gateway, OPA |
| Stateless servers (expense-db, notify, policy-docs, fx-rates, sales-tax) | constant tables | look-ups | called by the gateway |

What makes it hard to test:

* **Concurrency.** A quorum run asks all voters at once while attendees join
  and leave; several calls are in the gateway at once; the Companion is a
  threaded server with unprotected globals and check-then-act on registries
  that others write; scripts delete and rebuild what other scripts read.
* **Failure.** OPA, the gateway, every agent and every backend is a container
  that restarts on its own. The guard fails closed; every client turns silence
  into some report, and every failed read into an empty list.
* **Timeouts.** OPA 5 s, a note 6 s, a vote 8 or 10 s, a wire 10 s, the
  Companion's quorum 15 s, the Auditor and the Companion's card 30 s. A client
  that stops waiting does not stop the call, nor the registration.
* **Ordering and rounding.** The tally must follow all votes; the voters judge
  a rounded amount and the policy the exact one; the tiers meet at a cent; a
  decision is found again by searching a shared log; tools are found by name in
  a list of any order.

What makes each part correct:

* the policy and the guard: money that a call names as an argument moves only as
  the tiers allow, whatever OPA does meanwhile; a call is always settled; an
  answer that states something is true; no key and no instruction is delivered,
  and little else is lost;
* the chair: the money follows the vote of that run; a block that is reported is
  a block, unless the payee's name reads like one; a run ends;
* the Auditor: a payment that is claimed was made, when the answer says so in
  words it knows; a payment made has a ground in a text that begins with its
  amount;
* the Companion's quorum and crowd: late votes change nothing that was decided,
  caps and freezes hold up to the requests under way, totals add up;
* the room: a request is told only of a voter of its own, leaves one server at
  most, and is answered; notes stay with their owner's initials;
* the catalog: the analyst never gets the wire, by name or by identity; a script
  that met no fault did what it says;
* the evidence: what explains a wire's card is a verdict on a call of that tool
  and amount, and of that approval unless another client wrote it as a string.

## 2. The modules

```
WirePolicy <- Gateway <------- (instance) ChairQuorum -> RoomVote
                  ^                          |  (instance, refinement)
                  |                          v
  Auditor, CompanionQuorum,             QuorumPayment <- CompanionQuorum
  Evidence (instances)
CrowdVote, RoomJoin, Catalog and Sanitize stand alone.

XProofs extends X, for X each of Gateway, ChairQuorum, CompanionQuorum, Auditor,
Evidence, CrowdVote, RoomJoin and Catalog; those of a client of Gateway have an
instance of GatewayProofs, whose lemmas they cite. AuditorProofs extends Sanitize,
too, and proves its properties: the hook is what every answer to an agent has
passed. (`HookSpec`, `HookTypeOK` and the like are so named because of that.)
```

**WirePolicy** is the policy as predicates on a request: its tool, its amount
in cents (or `NoAmount`, when the arguments hold none that reads as a number)
and whether `approval` is the JSON value true. A call asks for money in one of
two ways, as an argument (`ByArguments`) or in the text of a message to the
payments agent (`ByMessage`, field `says`), which the agent carries out and the
policy does not read. `over_ceiling`, `needs_approval`, `allow` and `deny` are
the rules of the Rego file. `PostureAllows(q, money)` is the reference, tier by
tier, in the numbers of `wire_limit`, the tool of policy-docs by which agents
learn the limits; the two sources must agree. It makes no exception for a call
without an amount: it is asked about the money that the call is to move.

**Gateway** is the governed path of a tools/call. `opa` is the policy engine
(`ready`, `empty` when it answers without a policy, `down`). `stage` says how
far the gateway is with a call, `client` whether the caller still waits,
`executed` which tools ran. The plugin's branches are actions: `EnterPreHook`
(the name test of `tool_pre_invoke`), `OpaAllows` and `OpaDenies` (an answer;
a missing result reads as a denial), `OpaFails` (the exception branch, which
covers a timeout even of a healthy engine, so it is always possible), and
`PostHook`. ContextForge itself is external: `Refuse`, `BackendFails`,
`ResultLost` and `Drop` are what its clients' code handles. `GiveUp` is a
client's timeout; the gateway is not told. Answers have kinds (`Replies`), told
apart only as far as some client tells them apart. An answer `notJson` has a
status of 2xx and a body that is not JSON; `embedded` is a result whose text has
the signs of an agent's error, and `otherJson` any other 2xx JSON of a call whose
result did not come back: an agent's error in other words, or JSON of another shape.

**RoomVote** holds the rules of `vote.py`: thresholds, the three stances, the
owner's note with its precedence (cap, refusing word, consenting word, stance),
and the rounding of the prompt. The digest of the random stance is a parameter
`even`. A note that is empty and one without a number or a word are the same.

**ChairQuorum** is `run_quorum` composed with the gateway: run `r` makes the
gateway call `r`. Phases follow the function: `Discover` (registry read or
failed; sorted names, first `FanOutCap`), `VoterAnswers` and `VoterSilent`
(`_one`), `Tally` (gather, count, wire), `WireAnswered` and `WireRaises` (the
report). `CatalogChanges` is joining and removal; `ChairDies` the container;
`PanelReads` and `PanelGivesUp` the Companion's card (`s_quorum_a2a`), which may
give up at any time. `payee` is what `parse_payee` found in the message, one
that bears the words "Plugin Violation" or any other; the Companion's card asks
for "Acme LLC". `WireLines` looks for these words in the whole answer, as the
code does, and the result of a wire repeats the payee. A voter's answer is any
that its stance and any note its owner may have written can produce, so the
model over-approximates the corpus, its failures and its races.

**Auditor** is `audit` with the parsing of amount, approval and payee. A text is
the amount it asks for, the first number in it (which may be an invoice's, or the
150 of "$150k"), how it speaks of approval, and the payee it names; `parse_amount`
gives the first number. What an answer says is reduced to the two *marks* the
code looks for, one of six words and the signs of an agent's error, which an
error of the agent bears or does not (`embedded`, `otherJson`); the payments agent
may repeat the payee, whose name may bear marks itself. `audit` sorts an answer
by status, error and marks.

**QuorumPayment** is the abstract promise: an expense is put once, decided
once, and paid only as its tier and the decision allow. ChairQuorum implements
it with `decision` computed from the ballots once the wire is out.

**CompanionQuorum** is `s_quorum`. A card submits one future per voter to a
pool of `MaxWorkers` threads; threads take futures in order and return votes;
`Collect` is the return of `concurrent.futures.wait`, at a moment of its own
choosing because the deadline may fall anywhere; `Abstain` writes off, one by
one, what was not done, and cancels only what no thread has taken; `Wire` comes
after the pool's block is left, which waits for the running threads. `Headline`
is what the card says of each answer. How a voter votes is not repeated here:
any vote may come back. The card implements QuorumPayment as the chair does.

**CrowdVote** is `vote`, `crowd` and `freeze` on the dictionary `CROWD`, without
a lock, in a threaded server: one step per access to shared state (the test of
the freeze, the test of the cap, the store, each value of the sum, the two
lengths). A sum fails when the dictionary grew since it began.

**RoomJoin** is `/api/join` and `/api/register-mcp`. A request reads a registry
(or fails to, and reads it as empty), chooses a name, and posts; the post is in
`posts` until the gateway handles it, which may be after the sender gave up, and
names are unique in a registry. A join posts twice and stores its note whatever
became of the steps before; a registration retries after a conflict, at most
`MaxTries` times. `STORE` is the corpus server; `MayHear` is the note a voter of
that name would read (`parse_owner`, `_read_corpus`), an error text included.
`joinfreeze`, `AgentsReset` and `CorpusRestarts` happen at any time. Asking a
voter changes nothing, so it is a state function and not an action.

**Catalog** is what `seed.py`, `grant.py`, `register.py` and the operator's
`register_mcp_server` do to the registered backends and the virtual servers,
call by call, several scripts at once. A tool is a name, its backend and the
backend's generation, so that registering a backend anew makes other tools;
`ids` and `match_tool_ids` are the two fuzzy resolutions, on names as sequences
of words. A server gets those of the wanted tools that the gateway still has
(`Current`). `newestFirst` is the order of the gateway's list. Every call may be
refused and every list may be unreadable; `clean` remembers whether a run met a
fault or another script. The Companion reads the same catalog: `FINOPS` is the
identity it was started with, `bob_settings` hands an attendee a connection
(`held`), and `finops_tools` is what its badge is computed from.

**Evidence** is `/api/run` for the single-call cards and `/api/evidence`. A
card's run is a call of Gateway; `LAST` is shared by all browsers; `log` is the
tail of OPA's decision log, with lines of cards, other clients and the
operator's `evaluate_policy`. A line has the question as the policy read it and
the text that `str()` makes of its arguments, for the two differ: the string
"True" is written as JSON true is, and is no approval, and a float is not
written as an integer is. `opa_decision` is the search of `_opa_decision`: the
last line on the same tool whose amount, approval and id have the text of the
card's (`SameArguments`), as far as the card's call has them. `_gateway_logs` is
the failed calls of that tool.

**Sanitize** is `_scrub`. A text is a sequence of sentences of phrases, a word
and a stop. `scan` is one pattern, going through a text: from its phrase to the
next stop everything gives way to the mark, and what no stop follows stays
(`sub`). The patterns are applied one after the other, each to what the one
before left. A result is known by its leaves and their places, which is what the
recursion of `_scrub` comes to: every string is rewritten, wherever it is, and
nothing else. `tool_post_invoke` is the hook, applied again when an agent passes
a text on.

Definitions with a name `X_Something` are deviations: one plausible mistake in
`X` each, used to see that a property would notice it. They are in no
specification.

## 3. What is checked

| Run | Instance | Shows |
|---|---|---|
| `gateway` | two calls, a guarded tool and another, an amount in each tier (a cent below the limit, the limit, the ceiling), no amount, an amount in a message | `TwoTierHolds`, `AnswersAreTrue`, `FailClosed`, `EveryCallSettles` |
| `chair` | one run, four voters (strict, lenient, random, an attendee with a note), a cap of two, three expenses, two payees | `WireFollowsTheVote`, `EveryVoteCounted`, `BlockedIsTrue`; that it is a client of Gateway and implements QuorumPayment; `EveryRunEnds` |
| `auditor` | two audits, an amount per tier or none, a first number that is another, a payee that bears both marks, one that bears none, none | `ExecutedIsTrue`, `PaidAsTheTextAllows` |
| `companion` | one card, four voters, two threads | `NoStragglers`, `CountedAsGiven`, `BlockedHeadlineIsTrue`; that it implements QuorumPayment; `EveryCardIsShown` |
| `crowd` | two threads, three attendees, a cap of one | `CapIsNearlyKept`, `TallyIsPossible`, `FreezeTakesHold` |
| `room` | requests with equal initials and with a fixed voter's number | `ReportedVoterIsOwn`, `OneServerPerRequest`, `NotesStayWithTheirOwners`, `EveryRequestIsAnswered` |
| `catalog` | two terminals, two scripts of six, the three backends with "wire" or "convert" in a tool's name, a catalog empty or in another order | `LeastPrivilege`, `ScriptsDoAsTheyReport` (a seed, a grant, a registration), `AnalystKeepsItsScope` |
| `evidence` | two runs of four cards, one line of others, a tail of three lines | `DecisionFitsTheRequest`, `CardsAreTrue` |
| `sanitize` | the demo's receipts, every text of up to four sentences of the phrases, and of two with a key among them, passed on twice | `Clean`, `InnocentSentencesKept` |

Each also checks its module's `TypeOK` (`HookTypeOK` in Sanitize).

These properties are weaker than their names, because the code is. What they leave
out really happens in the models, and the next section lists it among the
disagreements.

* `TwoTierHolds` is about calls that carry the amount as an argument. A message to
  the payments agent has none that the policy reads, and is allowed
  (`MeshIsGoverned`, which a run finds violated).
* `BlockedIsTrue` is about the Companion's card, which asks for "Acme LLC", and
  about reports whose payee does not bear the words that the chair looks for.
* `ExecutedIsTrue` makes an exception for two answers, `notJson` and `otherJson`:
  the Auditor takes any 2xx body that is not JSON for a payment
  (agent_executor.py:112), and any JSON that is no error it knows (140, 142).
  `PaidAsTheTextAllows` is about texts whose first number is their amount.
* `DecisionFitsTheRequest` lets the approval differ where a client wrote "True".
* `NotesStayWithTheirOwners` is about initials, by which notes are kept, and not
  about attendees, who may share them.

*Bounds.* Calls and audits share only the policy engine and do not read each
other's state, so two show every interleaving that matters. Audits, and the runs
of cards in Evidence, are interchangeable (`SYMMETRY`); their runs check no
liveness. The chair's runs are independent of each other, so one is enough; the
payee that reads like a violation stands for all that do. Four voters with a cap
of two give ties, majorities, abstentions and voters left out. Amounts are the
boundaries of the tiers (a cent below the ceiling is an expense of the chair's,
and `PolicyIsPosture` is proved for every amount) and, for the chair, two that
rounding moves over a threshold ($9,999.50 and $99,999.99). A pool of two for
four voters has running, waiting and finished futures at once, as eight for
seventy have; two threads and a cap of one are the least that can exceed a cap,
and three attendees the least that could exceed it further. `MaxTries` of a
registration stands for the ten of the code: what matters is that it ends. Two
scripts at once meet in every pair of their calls; a third only repeats what the
second does to the first. One grant gives the analyst the tool `convert`, one
gives the wire to a persona of its own: an administrator who grants the wire to
the analyst gets what was asked for (`CatalogAssumption`). In the decision log
one line of somebody else is enough to be mistaken for one's own, and three
lines are the least that let a card's line leave the tail. Three patterns can
take stops from each other over three sentences, and texts have one sentence
more; the distance that `InnocentSentencesKept` allows is met exactly. The
proofs below have none of these bounds. `CHECK_DEADLOCK` is off where calls,
runs, cards, audits or scripts are made a bounded number of times: a finished
system may stop.

*Fairness.* `Gateway!Fairness` asks that the gateway goes on with a call it
holds, which the guard's own timeout makes possible in every state of OPA.
`ChairQuorum!Fairness` asks for the steps a run takes without anybody's help,
its code and its timeouts (`OwnStep`); each of its waits has a timeout in the
code (`httpx.AsyncClient(timeout=10.0)`). Nothing is asked of voters,
backends, the gateway (in the chair's run) or OPA. Fairness is per call and per
run, so a run is never owed a particular outcome. `CompanionQuorum!Fairness`
asks the same of a card and of its pool, whose threads wait at most eight
seconds for a vote. `CrowdVote!Fairness` asks that a thread finishes the
request it has; nobody owes a vote or a freeze. `RoomJoin!Fairness` asks for a
request's own steps, its timeouts included, and nothing of the servers.

### Where the repository and its code disagree

Each is a run that checks one statement and finds it violated.

| Run | The statement | What happens |
|---|---|---|
| `crowd_fail` | companion/app.py:692, "this cannot fail" | summing up fails when a voter is added meanwhile |
| `evidence_of_the_call` | companion/app.py:79, "the exact call that was just made" | another call's decision explains the card |
| `gateway_by_message` | docs/SCENARIOS.md:75, "a $50k via `a2a-payments` is blocked by the same OPA policy", and finops.rego:20 | the policy finds no amount in a message and allows it, over the ceiling too |

The models show more disagreements that no run is spent on.

* *Quorum.* README.md:84 says that OPA "then blocks the wire regardless of
  either tally"; in the dual-approval band an approving quorum gets it through,
  as `KeepsThePromise` has it. The chair (agent_executor.py:115) and the
  Companion (app.py:385) call "a strict majority" what is `ap > rj`, where
  abstentions do not count, and the chair reports "authorized by the quorum" of
  a wire below $10,000 that the quorum rejected. The Companion's headline
  (app.py:415) says "quorum APPROVED" whenever the wire was not blocked, also
  when the quorum rejected and the wire's answer is an error. The strict voters'
  threshold "matches OPA cap" (vote.py:11) but for the amounts that the prompt
  rounds up to it. The chair reports "wire executed" (agent_executor.py:144) of
  any JSON answer that does not say "Plugin Violation", a failed call's
  included, and "blocked by policy" (142) of a wire that ran when the payee,
  which the wire's result repeats, bears these words (139).
* *Policy.* The text of policy-docs (server.py:12) requires "a named,
  allow-listed payee" in the dual-approval band; the rules look at no payee.
* *Auditor.* Its docstring (agent_executor.py:66) says that only a policy
  violation is reported as BLOCKED; every `isError` result is, every error with
  one of six words, and a payment to a payee whose name has one. It reads "not
  approved" as approval (agent_executor.py:44). An error of the payments agent
  "must NOT be reported as a success" (134); only errors with one of three signs
  (`_embedded_error`, 175) are recognised, and any other, or JSON of another
  shape (123, 142), is reported as "Payment executed". "The first dollar amount"
  (29) is the first number of any kind: 17 for "Invoice 17: pay $150,000", 150
  for "$150k", and the payment of that amount is what the policy judges.
* *Crowd and room.* The "hard cap" (app.py:44) is exceeded by concurrent votes
  within the bound of `CapIsNearlyKept`, and the cap on attendees (app.py:65) by
  concurrent joins without a bound, and by any join whose read failed. A vote
  under way is stored after a freeze. `/api/register-mcp` does not ask whether
  joins are frozen. A note is reported as saved in the Companion though the
  corpus server did not get it. A tool error comes back as text and is read as a
  note, though `_read_corpus` (room/agent_executor.py:38) "Returns '' on any
  error". A voter "reads the owner's private note" (room/agent_executor.py:8);
  attendees with the same initials have a voter each and one note, the last
  saved (app.py:887).
* *Catalog.* Treasury's "wire" (README.md:297) is the first tool in the list
  with that word, which may be policy-docs' wire-limit. Two grants to one server
  at once lose one's tool, because each rebuilds the server from what it read. A
  registration whose answer was lost meets its own conflict and is reported as a
  failure.
* *Dashboard.* `_opa_decision` "Disambiguates calls to the same tool"
  (app.py:125) by comparing texts (145): another client's string "True", which
  the policy does not read as an approval, equals the card's true, and its
  denial then explains a card that was allowed. After a reseed the Companion's
  `FINOPS` belongs to no server: the tool list is empty and the badge says that
  the wire is hidden, which is true of nothing. Six verdicts are constants. The
  lines under "this BLOCK" (app.py:1340) are those of any failed call of the
  tool, and so are those that recent_blocks calls "blocked", a call that ran and
  whose answer was lost included. A pattern of the sanitizer needs a full stop:
  an instruction at the end of a text without one is delivered.

## 4. What is proved

Every proof is for any number of calls, runs, cards, requests, threads or
terminals, and for every value of the constants that satisfies the named
assumption of the module. They ask for little: amounts are natural numbers of
cents and `NoAmount` is none of them; wire tools are tools; a chair's attendees
are voters and each voter has a stance; a pool has a thread; threads and
initials are finite sets (`CrowdAssumption`, because the cap is counted); a
fixed voter is a stance and a number (`RoomAssumption`); the value for "none" is
none of the values it stands beside. `CatalogAssumption` is the only one about
people: nobody runs a grant that gives the analyst a name which could be meant
for the wire or an operator's tool.

A property is seldom inductive. Behind each stands an invariant that is, stated
at the head of the proofs (`RunInv`, `CardInv`, `AuditInv`, `EvidenceInv`,
`CrowdInv`, `RoomInv`, `NoteInv`, the `Inv` and `CleanInv` of the catalog,
`HookInv`; `CallInv`, which four of these rest on, in Gateway itself), checked
with TLC before it was proved; initial states have it, every action keeps it,
and the properties follow from it.

**GatewayProofs.** `PolicyIsPosture`: of a call with an amount the rules decide
exactly what the posture says of that amount. Without one they allow it, and
nothing is proved of such a call. `TypeCorrect`. `CallInvariant`: `CallInv` is
inductive. It is needed because `TwoTierHolds` speaks of the money only; that
the verdict still stands when the tool runs needs the position of the call
(`stage` in `forward` or `ran` implies that the policy allows the request), and
that an answer is true needs that an answered call cannot run any more. From it
follow `TwoTier`, `AnswersTrue` and, with the types, the action property
`FailsClosed`.

*The gateway's clients.* What the gateway guarantees is not proved again for its
clients: each step of a client is shown to be a step of Gateway or to leave it
alone, and `GatewayFrame` and `ViolationIsFinal` say what a step of the gateway
cannot do to a call of the client.

**ChairQuorumProofs.** `RunInv` is inductive together with the types and `CallInv`:
it ties a run's phase to its call's stage, the request to the ballots (they no
longer change once the wire is out), a report of a block to a violation or to a
payee that bears its words, and the card to the payee it asks for. From it:
`MoneyFollowsTheVote`, `VotesCounted`, `BlocksAreTrue`, `Governed`
(every behaviour is a behaviour of Gateway), and `KeepsThePromise` (the
composition implements QuorumPayment, step by step: `Start` is `Propose`,
`Tally` is `Decide`, a wire that runs is `Pay`, everything else stutters).

**CompanionQuorumProofs.** `CardInv`: once the wire is out nothing is queued or
running in the pool and nobody who was asked is uncounted; what was counted is
what the future holds. A count is taken while threads still vote, so this needs
the step between, in which `Abstain` has written off a voter whom a thread still
asks. From it: `PoolIsDrained`, `VotesCounted`, `BlocksAreTrue`, and
`KeepsThePromise`: the card, too, implements QuorumPayment.

**AuditorProofs.** `AuditInv`: the call that an audit made carries what is
parsed from its text, and a report of a payment repeats an answer that is a
result, no JSON, or JSON without the signs of an error. With the gateway's
`TwoTierHolds` and `AnswersAreTrue` this gives `ExecutedTrue` and
`TextsAreObeyed`.

Its second half is about Sanitize, for any number of passes and any texts of at
most as many sentences as there are words (`SanitizeAssumption`, which also says
that a sentence's own word is none of the phrases). `HookInv`: what is delivered
is the text as one pass leaves it. It is inductive because a pass undoes nothing
(`Scrubs`): after a pattern its phrase stands before no stop any more
(`SubFrees`), a later pattern only takes stretches out and cannot bring such a
place back (`SubKeepsFree`), and a pattern that finds nothing changes nothing
(`SubLeaves`). From it `ResultsTyped` and `NothingSlipsThrough`. For
`ReceiptsStayReadable`, `Zone` counts the stops between a word and the last
phrase before it: a pattern takes one of them at most, for it ends at the first
(`SubKeepsZone`), so that of two stops one is left for the last of the three
patterns. Each of these is an induction over the places of a text, written with
a least counterexample (`PlaceByPlace`).

**EvidenceProofs.** `EvidenceInv`: each line of the log, whoever caused it,
repeats the policy, whose verdict depends on nothing but the question, and has
the text of its question, of which the amount can be told and, unless a client
wrote the line, the approval (`Writings`); so the decision found for a card fits
it, though it may be on another call (`DecisionFits`). With the gateway's
invariant `CardsTrue` follows: the fixed verdict "BLOCKED" is on a request that
the policy denies.

**CrowdVoteProofs.** `CapInv` counts: the voters held and the threads that have
tested the cap and are about to store a new voter are together never more than
the cap and the other threads (`CapNearlyKept`). `ThreadOK` says of a sum under
way that it has come to as many voters as it has approvals, and that no voter is
ever lost (`TallyPossible`, for three numbers read at three moments).

**RoomJoinProofs.** `RoomInv`: the servers of a request, registered or on their
way, are none before it posts and one at most afterwards; nothing deletes a
voter, so the one that a join was told of is there and its own. From it:
`VoterIsOwn`, `OneServer`. `NoteInv`: a note that is kept, or on its way, bears the
initials of the join that wrote it, which does nothing any more but end, and every
name in the registry has somebody's initials as its owner, whatever number was put
behind it. From it: `NotesOfTheOwner`.

**CatalogProofs.** The analyst's server is rebuilt from lists read earlier, while
other scripts delete and make servers and backends. `Distinct` is the name-wise
reason why it never gets the wire: each name wanted for the analyst has a word
that no name beyond the analyst has, and whatever either fuzzy match finds for a
distinct name is distinct (`IdsDistinct`, `MatchDistinct`), in a list of any
content and order. `Inv` carries this along: what a grant under way has
collected for the analyst is distinct, and so is what the analyst's server has.
Its other half is about identities: one that was the analyst's, or was not
given yet, is never given to somebody else. From it: `LeastPrivileged`,
`ScopeKept`, and `RegistrationIsFresh`, the part of `ScriptsDoAsTheyReport` about
registrations.

Its other two parts are the converse, that what is wanted is found, and they make
`ReportsAreTrue`. They rest on the names of this repository: a name in which one
that the analyst is to have occurs, or that ends with a tool's own name, is that
tool's (`OccursOnlyItsOwn`, `EndsOnlyItsOwn`), so that neither fuzzy match takes
another tool's, in whatever order the gateway lists them (`SeedFinds`,
`MatchFindsByEnd`). The list is a concatenation of the backends' lists, of which
`Flattened` says what is in it, by its least counterexample. `CleanInv` says of
each script that nothing disturbed what it has done so far: what was listed is
what the gateway has, a server that is to be made is not there, and the personas
already passed have been served; and of every virtual server that its tools are
ones the gateway still has (`AreCurrent`), without which a grant could not find
again what the server exposed.

*Only model-checked:*

* the liveness properties `EveryCallSettles`, `EveryRunEnds`, `EveryCardIsShown`,
  `EveryRequestIsAnswered` and `FreezeTakesHold`, which rest on fairness and
  ENABLED, out of this prover's reach;
* the violated statements.

## 5. Not modelled

* *Pages, slides and scripts.* HTML, QR codes and screenshots of the Companion,
  `slides/build_deck.py` (a third of the repository's lines), the shell front
  ends: output without behaviour.
* *Entry points and tables.* The agents' `__main__` (agent cards, ports) and the
  stateless servers fx-rates, notify and sales-tax: constants and arithmetic.
* *Reading tools.* list_control_plane and recent_blocks change nothing; what the
  latter reads is what `_gateway_logs` reads.
* *Details.* The wording of reports, audit lines, tokens and tool visibility
  (they appear as `Refuse`), the events of an A2A task, which carry no decision.
* *Steps that are merged.* The cap's test on the crowd reads the dictionary twice
  (app.py:701), and the registry is read and the POST sent in one step of
  `RoomJoin!Post`; in between only what others do to the same data could differ,
  and votes are never removed, and a POST is handled later in any case. An answer
  of OPA's whose "result" is no object makes the guard raise outside its `try`
  (finbyte_guard.py:88); what the gateway then does is ContextForge's.
* *ContextForge itself* is external: its registries, its path of a call and its
  virtual servers are what its clients' code relies on.

`PROJECT.json` lists every part of the repository with what is modelled of it.

## 6. What is left

Every safety invariant and every action property that a run checks, and both
refinements, are theorems. What a run checks and no theorem states is liveness,
which needs fairness and ENABLED, and stays with TLC. The models could say more,
in this order:

1. **ChairQuorum**: that the request of a run never changes once it was made (an
   action property), also when the chair has given the wire up.
2. **Catalog**: that a grant which ends well took nothing away from a server of
   which every tool was in the list it read, with that list as a hypothesis.
3. **RoomVote**: what a vote comes to when an error's text is read as a note.
4. **CrowdVote**: the safety behind `FreezeTakesHold`: a vote stored while the
   crowd is frozen was admitted before.
