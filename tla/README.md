# RazorSync: a TLA+ model of its coordination, review and ingestion

This directory models the backend of RazorSync (`src/backend/app`) in TLA+: the
policy engine that decides which agent may contact a customer, the dispatcher that
chooses the agent, the human review of suspended actions, the asynchronous ingestion of
webhooks, the orders, and the simulations that run beside all of it. TLC checks the
modules on small instances, TLAPS proves theorems about all six of them for all values
of their constants. Paths below are relative to `src/backend/app`; `PROJECT.json`
lists the lines each definition stands for.

## 1. The system

| Part | State | Operations | Talks to |
| --- | --- | --- | --- |
| Coordination engine `engine/coordinator.py` | `coordination_decisions`, `audit_entries` | `process_action`: guardrails, rules, collisions, approve or block, audit | rules, collisions, context, HITL |
| Rules engine `engine/rules.py` | `business_rules` (read) | `evaluate`: five blocking rule types over windows of past decisions | decisions and actions tables |
| Context, collisions | `customer_context`, `agent_actions` | load, update after a decision, duplicate check | |
| Propose API `api/actions.py` | `agent_actions` | one request, one action, one decision | engine |
| Full cycle `engine/full_cycle.py` | decision source, trace, audit enrichment | event, dispatcher, action, engine | dispatcher, engine |
| Dispatcher `engine/dispatcher.py`, agents `api/agents_config.py` | two module-level dicts, `config.yaml` | candidates, scores, winner; reload | LLM |
| HITL `api/hitl.py` | `suspended_actions`, `hitl_tickets` | suspend, resume (approve, reject, edit), expire | engine |
| Webhooks `api/webhooks.py` | `inbox_entries`, `orders` | verify, order stub, inbox row, publish or reason inline | queue, worker code |
| Queue `queue/redis_queue.py` | Redis stream, group, cached client | publish, dequeue, ack | Redis |
| Worker `worker/reasoning.py` | `inbox_entries` | read the stream, else poll the table; reason; mark | queue, full cycle |
| Orders, checkout, Razorpay client | `orders`, failure flag | create with retries, fall back | Razorpay |
| Simulation `simulation/`, `api/simulation.py` | job table, semaphore, simulated rows | run, scorecard jobs, purge, seed | rules engine, tables |
| Rules and ops APIs | `business_rules`, failure flag | administration | |
| Read-only APIs, frontend | none | poll and display | |

How it runs: one process. Synchronous endpoints run in a thread pool, each with a
database session of its own; the webhook handler is a coroutine whose body awaits
nothing once the request is read, so handlers run one after another on the event
loop; the worker is one thread, started only when `REDIS_URL` is set. (The `worker`
service of `docker-compose.yml` runs a module without an entry point and ends at
once; the thread does the work.)

### What is hard

SQLite with the Python driver gives a SELECT no snapshot and no lock. The first
INSERT or UPDATE of a session takes the single write lock, and keeps it until the
commit. So an engine call reads its *customer* before the lock and everything else
under it, and the ORM never refreshes the customer: this one stale object is behind
most of the engine's hazards. Simulations write the same rows from stale objects of
their own. Operations that look like one step are several commits
(decision, then audit; decision, then ticket, then audit; row, then message), each of
which may fail by itself, and `commit_with_retry` takes the commit of an emptied session for a success. The stream
and the table are two ways to the same row, and neither looks at the other.
`PROJECT.json` lists the hazards line by line, with the properties that cover them.

### What makes each part correct

* Engine: no duplicate contact, caps and budget within their bounds, a customer row
  that summarises the contacts made, an audit entry behind every verdict.
* HITL: each suspended action executed at most once, in time, only by an approval,
  and settled together with its ticket.
* Ingestion: no acknowledged delivery without a row, every row settled, no unbounded
  repetition, nothing stranded but by a crash.
* Orders: a bounded number of orders per request, rows that say what was delivered,
  "paid" only after a capture, and no order that a delivery named without a row.
* Simulation: one scorecard at a time, simulated rows invisible to everybody, live decisions,
  their actions and audit entries untouched, a clean start and one set of rules for each
  scenario, jobs that settle. (The customer rows it shares with live traffic it does write.)
* Dispatcher: agents and channels of one configuration, a winner that earns what it
  gives away.

## 2. Modules

| Module | Models | Uses |
| --- | --- | --- |
| `RulesEngine` | `engine/rules.py` as operators | |
| `Coordination` | engine, context, collisions, and the sessions around them | `RulesEngine` |
| `ContactLedger` | the abstract promise: contacts made one at a time, under the rules | |
| `CoordinationLedger` | relates the two: refinement mapping, summary invariants | both |
| `Coordination_proofs` | theorems | `Coordination`, TLAPS |
| `Overlap_proofs` | theorems: by how much overlapping sessions exceed a frequency cap or a cooldown | `Coordination_proofs`, finite sets |
| `CoordinationLedger_proofs` | theorems: the customer row, the refinement, the promises of one session | `CoordinationLedger`, `Overlap_proofs` |
| `Hitl` | tickets, concurrent reviewers, expiry | |
| `Inbox` | handler, row, stream, worker, poller | |
| `Orders` | orders and the rows that follow their payments | |
| `Simulation` | simulation runs, their semaphore, jobs and transactions, beside live decisions | |
| `Dispatcher` | the choice of an agent, beside reloads of the agent table | |
| `Hitl_proofs`, `Inbox_proofs`, `Orders_proofs`, `Simulation_proofs`, `Dispatcher_proofs` | theorems | the module named, TLAPS |
| `MCCoordination`, `MCHitl`, `MCInbox`, `MCDispatcher` | constants of the instances | |

### Coordination

A request goes `idle - loaded - proposed - (ticket) - (audit) - label - done`; each
action is one database transaction, or one read outside of any.

| Action | Code |
| --- | --- |
| `Load` | the session's first SELECT of the customer; `snap` is that object |
| `Propose` | `proposed_at` from the client or the clock, the `AgentAction`, as the instant `at` and the wall clock `wall` |
| `BlockUndispatched` | the two early ends of `run_full_cycle` |
| `Suspend`, `RecordTicket` | hard guardrail: ticket, action and decision; then the rewritten reason |
| `BlockByRule`, `BlockByCollision` | `_block` |
| `Approve` | `_approve`, `update_after_decision`, `_audit`, one commit |
| `WriteAudit` | the separate commit of `_audit` for a blocked decision |
| `Label` | `decision.source`, written by the caller |
| `Abort` | the session dies between two transactions |
| `Look`, `Reset` | a simulation reads a customer, then resets the columns that differ |
| `Read`, `Finish` | its scenario reads the customer, then commits what it contacted |

A simulation meets the requests of one customer, and other simulations, only in that
customer's row: so a *visit* of a run to a customer, for one seed, is all of it that
`Coordination` has. `copy` is the row as the run's session holds it. What the approvals of
a scenario add up to is a choice from `Simulated`, kept within the budget rules; its
decisions are removed by the commit that ends it. A run that breaks off takes no further
step. `Simulation` has the rest: which runs there may be, their transactions and errors.

Dates have two readings. `proposed_at` may carry any zone; the rules compute with the
instant (`at`), while SQLite stores the wall clock without the zone (`wall`), and whoever
reads it back takes it for UTC: the history of the windowed rules, the duplicate check,
`last_contact_at`. A date without a zone, like the server's own, is UTC, and the two are
the same. So an action repeated from a zone more than an hour further east than the first one's is
no duplicate even at the same instant: `NoDuplicateContact` is about stored times.

The step from the flush of the INSERT to the first commit is one action: it runs
under the write lock, reads what is committed, and nobody sees it half done.
`UpdateAfterDecision` keeps the ORM's habit of writing only changed columns. Money
is in rupees, time in minutes. No code sets `cooling_down`, so the conflict branch of
the collision check is left out.

### Hitl

`ticket` and `action` are the statuses of the two rows. A resume request is
`Check - Validate - Execute - Record - AuditResume`, or ends in `ExpireLate` or
`Refuse`; the sweep is `SweepRead - SweepLook - SweepCommit`. A request dates the action it
resumes with the moment it began (`Began`). `Crash` kills the process; `Fail` and
`FailSweep` are a flush or a plain `db.commit()` that raises, which ends one request and
keeps what it had committed before. `Clear` is the clearing of a simulation, which deletes every
audit entry without a decision row, those of settlements among them (they name the ticket). Three
history variables say what the properties must except: `lost`, requests that ended between
the commit of the engine and the one that settles the ticket; `cut`, between that one and the
commit of the audit entry; `cleared`, entries deleted. All actions are of one
customer, agent and type, the case with the most contention; of the earlier actions
only the latest date is kept, which is all the duplicate check can tell. A suspended action
that a client dated may leave it as it is, which covers every other date: a later one
only makes more actions duplicates, and nothing but that depends on it. What the
soft rules say of a resumed action is a choice. A simulation run may overwrite the
customer's risk at any time, so what a read of it finds is a choice as well.

### Inbox

`hook` is the handler of each delivery, `row` its inbox row, `wpc` and `job` the worker
thread. Without Redis the handler reasons inline; with it, the worker reads the stream
and polls the table whenever a read returns nothing. A commit may meet a fault: a lock
that outlasts its timeout (the retry commits nothing and returns) or another error
(raised). A read from Redis may lose its reply to the socket timeout, which moves the
message to the pending list for good. A crash forgets everything but the table and
Redis.

### Orders

A creation goes `idle - sdk - (httpx) - sdk ... - replied - answered`, or ends as
`degraded` (a local fallback order) or `refused`. `made` counts the orders Razorpay has made for the
request; since a failed attempt's order never becomes known, only the one in the reply can
be paid, and it shares the request's identity. The failure drill is a choice of `Begin`.
`Deliver` and `Store` are `upsert_order_stub`, from its SELECT to the commit of the
handler; `Take` and `Track` are `ensure_order_stub`, from its SELECT to the commit of the
decision that carries it (or the rollback). Between look and write the other thread, or
the endpoint, may insert the row. Razorpay delivers any event it has emitted at any
time and as often as it likes. What `Inbox` says of queue and row is here a set, from
which a delivery may be taken more than once.

### Simulation

Three endpoints start a run: `SubmitRun` (`/run`, no semaphore), `SubmitScorecard`
(`/scorecard`, 429 when the semaphore is taken) and `SubmitJob`, whose thread begins with
`StartJob` and ends as "failed" when it is taken. A run goes through its seeds in
`look1 - reset1 - look2 - reset2 - clear - read - enter - scenario - persist`.

| Action | Code |
| --- | --- |
| `Look`, `Reset` | `_ensure_customers_in_db`: the SELECTs, then flush and commit |
| `Clear` | `_clear_simulation_state` before the scenario, whose errors are swallowed |
| `Read`, `Enter` | the coordinated `_run_scenario` up to its first INSERT, which takes the write lock |
| `Evaluate` | the rules engine, for the next action |
| `Finish` | the second clearing, which commits the scenario without its rows |
| `NextSeed`, `LastSeed` | the `SimulationRun` rows; the next round or the end |
| `Fail`, `Handle`, `Purge`, `Release`, `Close` | the except and finally clauses, in their order |

What stays of a scenario are the contacts of its approvals in the customer row. `copy`
is that row as the run's session holds it: the ORM reads an object once per
transaction, and an UPDATE writes only the columns that differ from what was read. So a
reset of a customer that was clean when it was read writes nothing, and a live session
that read the customer before the reset writes its old contacts back. `disturbed` is a
history variable: the runs a live approval or `/run` may have disturbed since they
looked. `_safe_flush` answers a lock error with a retry; the rollback that a failed
flush causes takes the whole transaction with it, whatever its comment says, and the
run fails, which is `Fail`. Administrators' changes of the rules are `EditRules`, one
commit each, as all endpoints of `api/rules.py` are.

### Dispatcher

A dispatch looks up the event's agents (`LookUp`), then reads one definition after the
other with an LLM call in between (`Propose`), and takes the best score (`Decide`). All
read two module-level dicts. A reload (`Load`, then `ClearDefs`, `UpdateDefs`, `ClearMap`,
`UpdateMap`) replaces them statement by statement in another thread; `clear` and `update`
are single calls of the interpreter and so atomic. Scores are exact integers: discounts in
paise, probabilities in percent, scores in 1/10000 of a rupee. At start-up the file counts only when it has agents and maps some event, whichever
(`maps`). Two oddities of the
code are modelled: "or" takes a zero probability or sensitivity for a missing one (`Or`),
and `channels[0]` is looked up even when the model proposed a channel, so an agent
without channels makes a dispatch with an LLM answer raise (`Raise`). `disturbed` is again a history
variable: dispatches that met a reload.

## 3. Runs

| Run | Question | Result |
| --- | --- | --- |
| `coordination_race` | what overlapping sessions and a simulation leave of the guarantees | holds |
| `coordination_serial` | does the engine, one session at a time, implement the ledger | holds |
| `coordination_budget` | "Cumulative discount exposure per customer" with two sessions | violated |
| `coordination_audit` | "Every decision writes `AuditEntry`" | violated |
| `hitl_review` | concurrent reviewers, sweep, a crash or a failing commit, clearing | holds |
| `hitl_ceiling` | an action that "requires human approval", once approved | violated |
| `inbox_pipeline` | crashes, outages, lost replies, lost commits | holds |
| `inbox_ordering` | the row is committed before the message is published | violated |
| `orders_tracking` | retries, late and repeated deliveries, two writers of one row | holds |
| `inbox_inline` | the poller takes queued rows when there is no Redis | violated |
| `simulation_beside_live` | two runs of any kind beside live decisions, an edit, an error, a crash | holds |
| `dispatcher_reload` | a dispatch beside two reloads, edits of the file and restarts | holds |

**`coordination_race`.** Three requests of one customer, two sessions at a time, two
instants an hour apart, a client two hours east of UTC, aborts anywhere, and one visit of a
simulation whose scenario contacts the customer once. Either three agents propose, or one proposes
twice, once perhaps by a resumed ticket, and another offers nothing (`RaceInit`). Frequency cap of one
contact in two hours (two, so that the duplicate window alone does not keep the agents apart), budget of
150, which the offers of all three agents just reach.
Shown: no duplicate contact in stored time; the recorded exposure stays within the budget, whoever
wrote it; `last_contact_at` belongs to some approved contact unless the simulation wrote it last;
answered requests are audited; the frequency cap is exceeded by at most one
contact per additional session; the row never shows more than was granted and simulated.
Three requests are what a lost update plus a later decision on its result
needs; with two sessions one can overtake the other, and the third request then runs
on what they left. The visit may look before, between and after them, reset what it
has not seen, and write its own sum over theirs. 1.3 million states.

**`coordination_serial`.** The same with one session, no simulation, the five default rules (with
shorter windows) and a horizon that crosses 21:00 IST. Every approval is a contact the
ledger allows, and the customer row is its exact summary, with aborts anywhere.
This is what the webhook path gives when nothing else proposes. That overlapping sessions
exceed a cooldown, and by how much at most, is a theorem (`CooldownOvershoot`) and not a
run, since the instance that attains the bound is larger than a run of a few minutes: two
sessions load the customer, the later of the two proposals is approved first, and the
earlier one, approved last, puts `last_contact_at` back to a date that lets a third one
in. The assumption `SerialRuns` of `MCCoordination`, which TLC evaluates, says that this
run meets the hypotheses of the theorems about one session (`OneSession`, `HasDefaultRules`).

**`hitl_review`.** Two tickets (a resumed ceiling ticket opens the second), two
reviewers, one fault (the process is killed, or one flush or commit fails), clearing at any time,
ticks of an hour, a life of two hours instead of 24, and four ticks, in which a ticket can wait out the
duplicate window of its own suspension, be executed, expire, and still be resumed by a request that
began in time. Tickets are opened at the first two instants (`OpenedEarly`). Nothing locks a ticket: `ExecutedOnce`
holds because the collision check of the second execution still sees the first. Its
inclusive window is an hour, both executions are dated when their requests began, and a request is assumed
to last no longer than an hour (a statement waits for a lock for 30 seconds). Where a request
ends after the commit of the engine and before its own, killed or for a commit that raised, the
ticket is still pending and can be executed once more when the hour is over: `lost` counts
just these. One fault is enough to see each exception once; the theorems hold for any
number. 2.5 million states.

**`inbox_pipeline`.** Two deliveries, one of which makes the reasoning raise, two
crashes, one outage, two failing commits, with and without Redis. A delivery
costs at most two decisions, plus one per lost commit; a restart strands one row at
most; settled rows stay settled; without Redis, "completed" means decided; and every
stored row is eventually settled unless the process or a commit fails.

**`orders_tracking`.** One order, with the three attempts of the code, two failing
transactions and a crash. A request makes up to six orders at Razorpay, two for each
attempt (README of the repository: "retry ×2"), and never more; the row shows the delivery that the
handler committed last, also when it loses the race for the insert; "paid" means that
a capture was emitted; and the row exists once a delivery was reasoned about unless two
transactions failed. One order is enough since orders share nothing but the
threads; the theorems hold for any number. A late `payment.failed` does put a paid order
back: that is what "last delivery" says, and the repository promises nothing else.

**`simulation_beside_live`.** Two requests of any kind, one live decision (or HITL
settlement), one edit of the rules, one error, one crash. The semaphore is free exactly
when nobody is between its acquisition and its release, although a job gives it back
before it closes its session; simulated decisions are never committed, so nobody reads
them, not even when two runs overlap, because the scenario and the clearing that ends it
are one transaction; a scenario that nobody disturbed starts from customers without
contacts; its actions are decided under one set of rules, because no administrator can
commit under the write lock; live decisions and their audit entries survive; and every
job settles with the slot given back. Two requests are all there can be at one place: a
third would meet the semaphore or the lock as the second does. What does *not* hold: audit entries of HITL settlements are deleted by
any clearing (`Hitl` has that as `Clear`), and the comment of `_simulation_semaphore`
("only 1 simulation at a time") does not speak of `/run`. No text promises either.

**`dispatcher_reload`.** One dispatch (they share nothing but the table), two reloads, a
file edited three times: agents replaced, an agent left without channels, an event that
maps nobody while its agents are undefined, an unreadable file. The customers cover a
zero conversion and a zero sensitivity, the amounts zero, the LLM a discount of more than the
order. A reload that ran alone repairs whatever overlapping ones left; a dispatch that
met none followed one configuration; in between only listed agents and channels are
used, but for the default channel of an undefined agent; and a winner never gives away more
than it is expected to bring.

Bounds: requests, tickets and deliveries are finite sets; `Horizon` ends the clock;
`Slots` limits open sessions; `Visit` the visits of simulations; `MaxCrashes`, `MaxOutages` and
`MaxFaults` limit failures, `MaxEdits` and the length of `Config` what administrators do. Deadlock is not checked: a system with all its requests answered stops.
Symmetry is used where only safety is checked.

**Fairness.** `inbox_pipeline`, `inbox_inline` and `simulation_beside_live` check
liveness. In the inbox the handler and the worker are weakly fair: every call they make returns, because Redis, the LLM and
the database all have timeouts, and the worker's loop has no exit but shutdown. No
fairness is assumed of Razorpay, of crashes or of Redis coming back: the poller is
what makes rows settle while Redis is away. A simulation is weakly fair in all its steps
(`Proceed`), for the same reason: it waits for nothing without a timeout. That it comes to its
last seed is strong fairness of `LastSeed`, which stands for the finite list of seeds: a run
that persists again and again does so for the last time once. Nobody is made to submit,
edit or crash.

### What the violations show

* `coordination_budget`: two requests load the customer with the same exposure, both
  pass `budget_limit`, and both are granted. The second writes its own sum over the
  first, so the column hides the excess. Nothing but overlap does it: `SerialPromises`
  proves the budget for one session at a time.
* `coordination_audit`: `_block` commits before `_audit`. Nothing but the death of a request
  between the two does it: `OnlyInterruptedUnaudited`.
* `hitl_ceiling`: `resume_ticket` runs the whole engine on the original amount (an edit
  reaches the discount only), whose first check suspends it again under a new ticket. No
  such ticket is ever executed: `CeilingNeverExecuted`.
* `inbox_ordering`: after a lock error `commit_with_retry` rolls back, which discards
  the pending row, and the second commit succeeds on nothing. Without a failing commit the
  row is there: `PublishedHasRowUnlessLocked`, which `Published` proves.
* `inbox_inline`: without `REDIS_URL` no worker runs, so the row of a delivery whose
  reasoning raised is never polled, although it was answered as queued. No such row ever
  leaves that status: `NobodyPolls`.

## 4. Theorems

`Coordination_proofs` proves, for every set of requests, customers, proposals and
rules, any number of sessions and any clock, any visits of simulations, and any dates of clients, from
`CoordinationAssumption` and `VisitAssumption` (the types of the constants, the numbers in the
rules' configurations among them, and that a scenario which wrote a row contacted the customer):

| Theorem | Statement | Argument |
| --- | --- | --- |
| `TypeCorrect` | `Spec => []TypeOK` | inductive by itself |
| `NoDuplicate` | `Spec => []NoDuplicateContact` | with `Bookkeeping`: an approved request has an action row, so the new approval, which saw no row from an hour before it on, is more than an hour after all others, in stored time |
| `RecordedBudget` | `Spec => []RecordedWithinBudget` | an approval, and the end of a scenario, writes the exposure that was there or the sum the rule has just accepted; a reset writes none or 0 |
| `LastContact` | `Spec => []LastContactWasMade` | an approval writes its own date and clears `wiped`; until a simulation wrote the row, its date is one of an approval |
| `AuditedAnswers` | `Spec => []AnsweredIsAudited` | strengthened by `AuditOrder`, the order of a request's commits |
| `OnlyInterruptedUnaudited` | a decision without an audit entry is a refusal whose request is between its two commits or dead | `AuditOrder` |
| `FrequencyOvershoot` (`Overlap_proofs`) | `Spec => []FrequencyOvershootBounded` | `CapInv`, with `SessionInv`: the open sessions are at most `Slots` |
| `CooldownOvershoot` (`Overlap_proofs`) | `Spec => []CooldownOvershootBounded`: customers whom no simulation visits, without dates of clients | `CooldownInv`, with `SessionInv` |

`CapInv` is the bound with the undecided proposals that are dated before the end of the
window counted as if they were in it. A proposal is dated with the clock, so no new one
comes to lie before a contact that has been made; an approval moves its own proposal from those
to the window, and the total stays. Only the approval that closes a window can raise it, and
that one has counted fewer contacts than the cap allows (`WindowCounted`); the rest are open
sessions, its own among them. The bound cannot be proved without them: once the contact is
made, nothing in the window alone says how many sessions may still date theirs before it.

`CooldownInv` is about any window that holds a contact, and about two kinds of open sessions:
`Late` ones, whose proposal is dated before the window, and `Ready` ones, whose copy of
the row lets them contact in it. While the row lies in the window, only ready sessions can
add to it; a late one that commits puts the row back behind it, and from then on every open
session is ready. With n = `Slots` and z late sessions, a window whose row is behind it
can still gain the sum of the z + 1 largest numbers up to n, and one whose row lies in it the
number of ready sessions and the sum of the z largest (`TwiceSum`, doubled to stay with
integers). Each step back costs
one late session, and no new one can appear, because a proposal is dated with the clock.
So the bound is n + (n - 1) + ... + 1, and a scratch instance of two sessions and five
requests attains its 3.

`CoordinationLedger_proofs` proves, from the same assumptions:

| Theorem | Statement | Argument |
| --- | --- | --- |
| `NeverOvercounts` | `Spec => []RowNeverOvercounts` | the copies that sessions of requests and simulations hold never overcount either; each writes its copy's numbers and what it adds, and the contacts made and simulated only grow |
| `RowSummary` | `OneSession /\ HasDefaultRules => (Spec => []RowSummarisesLedger)` | `SerialInv`: nobody else is open, so a copy is the row and what was proposed lies after every contact |
| `SerialRefinement` | `OneSession /\ HasDefaultRules => (Spec => ImplementsLedger)` | step by step: an approval is a `Contact` of the ledger (`GapKept`, `CapKept`, `BudgetKept`), a tick is its `Pass`, everything else a stutter |
| `SerialPromises` | `OneSession /\ HasDefaultRules => (Spec => [](CooldownHolds /\ FrequencyCapHolds /\ BudgetHolds))` | from the same three facts about a new contact |

The hypotheses say what "one session at a time" means: `Slots` = 1, no resumed tickets, no
dates from clients, no simulations, a clock past the simulated month, and the three default rules with the
numbers of the ledger among the rules in force (there may be any others). What was granted
is counted rupee by rupee, as the cardinality of a set of pairs, and no sum is ever taken: so the
proofs need facts about finite sets and no induction over them (`RupeesAdd`).

`Orders_proofs` proves, for any number of requests, retries, crashes and faults, from
`OrdersAssumption` (the bounds are naturals):

| Theorem | Statement | Argument |
| --- | --- | --- |
| `TypeCorrect` | `Spec => []TypeOK` | inductive by itself |
| `Bounded` | `Spec => []OrdersBounded` | `Budget`: two orders for every attempt that is over, at most one before the second call of the present one |
| `Captured` | `Spec => []PaidIsCaptured` | `Inv` |
| `LastDelivery` | `Spec => []ShowsLastDelivery` | `Inv` |
| `SecondLine` | `Spec => []HandledHasRow` | `Inv` |

`Inv` joins these three with `Tracking`: only orders that were handed out are delivered
(so the endpoint's insert comes before every delivery), a row that a session saw is still
there, and a delivery that waits for its reasoning has a row or a fault behind it.

In `Coordination_proofs`, `Bookkeeping` is the inductive strengthening: a request has an action row only once it
has decided, and a decision only with its action row. `ApprovalStep` splits every
step into approvals, the two writes of a simulation (`ResetEffect`, `FinishEffect`), and steps that leave
approvals, their actions and the customer rows alone, so that each safety proof has few
interesting cases.

`Hitl_proofs`, for any number of tickets and reviewers, any ticket life, horizon
and number of faults, and any step up to an hour, from `HitlAssumption`:

| Theorem | Statement | Argument |
| --- | --- | --- |
| `TypeCorrect` | `Spec => []TypeOK` | `TypeInv`: a sweep that has not looked has found nothing |
| `PendingIsTogether` | `Spec => []PendingTogether` | `PendingInv`: what the sweep passes over was settled before and stays so |
| `SettlementIsAudited` | `Spec => []HumanSettlementAudited` | inductive with the types; who ends between the two commits is in `cut` (`LoseEffect`) |
| `ExecutionIsRecorded` | `Spec => []ExecutionRecorded` | `OpenedInv`: requests and executions are of opened tickets; who ends before settling is in `lost` |
| `ExecutionIsTimely` | `Spec => NoLateExecution` | `TimelyInv`: a request that may still execute ends within a step of the expiry it has read |
| `ExecutesOnce` | `Spec => []ExecutedOnce` | `OnceInv` |
| `CeilingNeverExecuted` | no ticket above the ceiling is ever executed | `CeilingHolds`: the engine executes nothing it suspended for its amount, which a resume keeps; a ticket not yet opened has not been executed either |

`OnceInv` is the reason nothing has to lock a ticket: after an execution that was not lost,
every request that is under way began early enough to find it within the duplicate window, and
as long as the ticket can still be resumed, the request that executed it is about to
settle it, so soon that whoever comes before is a duplicate too (`Closed`). Hence the one fact
the argument needs of the constants: a request lasts at most `Step`, which is no longer than the
hour of the window. A loss spends the execution, and the next one starts over (`LossStep`).

`Inbox_proofs`, for any number of deliveries, crashes, outages and faults, from
`InboxAssumption`:

| Theorem | Statement | Argument |
| --- | --- | --- |
| `TypeCorrect` | `Spec => []TypeOK` | `PipelineInv` |
| `CompletedIsDecided` | `Spec => []CompletedInlineIsDecided` | `PipelineInv` |
| `Final` | `Spec => SettledIsFinal` | `RowStep`: what any step may do to a row |
| `NobodyPolls` | without Redis, no step writes a row whose handler has ended, and a queued row whose reasoning raises stays queued | `PipelineInv`: the worker is not running |
| `Published` | `Spec => []PublishedHasRowUnlessLocked` | `PublishedInv`: without faults a handler past its commit has its row |
| `Twice` | `Spec => []AtMostTwice` | `CostInv`: decisions made, and one for the message, one for the row, one for the claim that may still follow, are at most two and the faults |
| `Stranded` | `Spec => []StrandedBounded` | `LeftInv`: a step leaves at most one more row behind, and then a crash or a fault has been counted |

`PipelineInv` joins the types with `WorkerInv` (what the last poll returned is still
queued, and nobody else writes it) and `HandlerInv` (one handler at a time, and the row appears
with its commit). `QueueInv` adds that a message exists once: in the stream or in the worker.

`Simulation_proofs`, for any number of requests, live decisions, edits, errors and
crashes, from `SimulationAssumption`:

| Theorem | Statement | Argument |
| --- | --- | --- |
| `TypeCorrect` | `Spec => []TypeOK` | with `SlotInv`, without which the semaphore might count to two |
| `OneAtATime` | `Spec => []SlotConserved` | `SlotInv`: who comes to give the slot back has taken it |
| `RowsInvisible` | `Spec => []SimulatedRowsInvisible` | `LockInv`: only the holder of the write lock has uncommitted simulated rows, and he is in the scenario or broke off in it |
| `ScenarioHasOneRuleSet` | `Spec => []OneRuleSet` | `RuleInv`: what has been used is what the table still says |
| `ScorecardStartsClean` | `Spec => []StartsClean` | `CleanInv` |
| `LiveRowsStay` | `Spec => LiveRowsSurvive` | step by step |

`Dispatcher_proofs`, for any agents, configurations, customers, amounts and answers of
the LLM, any number of dispatches and reloads, from `DispatcherAssumption`:

| Theorem | Statement | Argument |
| --- | --- | --- |
| `TypeCorrect` | `Spec => []TypeOK` | `IdleInv`: who has not begun has no proposals |
| `OneConfiguration` | `Spec => []TableIsOneConfiguration` | `ReloadInv`: a reload that met no other is alone, and what it has filled is what its file says |
| `Consistent` | `Spec => []ConsistentUnlessReloaded` | `FollowInv`: while an undisturbed dispatch asks, the table is the configuration it follows |
| `Listed` | `Spec => []ChannelWasListed` | `ListedInv`: each definition in force is one of a known configuration |
| `WinnerPays` | `Spec => []WinnerEarnsItsDiscount` | `PositivePays`: the fit bonus never exceeds the cost of the channel |

Model-checked only: liveness under fairness (`StoredIsSettled`, `JobsSettle`), which the
proof system does not treat. Every invariant and action property that a passing run checks,
and the refinement, is a theorem.

## 5. Not modelled

* Scores and estimates that no verdict depends on (`engine/priority.py`); delays, message
  and reasoning texts; the trace and audit enrichment of the full cycle, which only the
  timeline of `api/execution.py` shows.
* The LLM's providers, prompts and parsing: `Dispatcher` takes every answer that passes the
  schema, or none.
* Which customer a delivery without one falls on (`services/customer_resolve.py`): one
  query, an input of `Inbox`.
* Migrations and start-up repairs of `db/database.py` and `main.py`, which run before
  anything else does.
* The simulation's synthetic customers and actions (pseudo-random, and with
  `hash()` of a string in the seed not even repeatable between processes), its
  statistics (floating point), and `POST /seed`.
* What administrators write into rules: `Coordination` takes the table as a constant of
  any rules, `Simulation` as a version. Rules that change between two decisions of the
  live engine are therefore covered only one table at a time.
* What a file or an answer of the wrong shape does: `Dispatcher` takes an `agents/config.yaml`
  whose entries have the right types (a list under `agents` would make a reload raise between its
  `clear` and its `update`), and discounts that are numbers (`json.loads` also accepts NaN).
* System prompts, which `llm/client.py` reads from the file again on every call: they reach the
  LLM, whose answer is a choice, without any reload.
* Retries inside the Redis client: `Inbox` has one XADD for each publication.
* Read-only endpoints and the frontend: no state. In the runs of `Coordination`,
  `SimulationEnd` is 0, so no proposal falls into the simulated month; the operator `InWindow`
  does model it.

## 6. State of the plan

Done: the engine with its ledger, the review of suspended actions, the inbox, the orders,
the simulation and the dispatcher, each with a run and its theorems, the two liveness
properties excepted. What is left would need other tools: liveness proofs, and a
test of the floating-point statistics.
