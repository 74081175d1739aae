----------------------------- MODULE Coordination ----------------------------
(***************************************************************************)
(* The coordination engine under concurrent sessions:                      *)
(* engine/coordinator.py, engine/context.py, engine/collisions.py, and the *)
(* two callers that open a session around it, api/actions.py               *)
(* (propose_action) and engine/full_cycle.py (run_full_cycle).             *)
(*                                                                         *)
(* A request is one proposal handled in one database session. Sync         *)
(* endpoints run in a thread pool and the worker in a thread of its own,   *)
(* so requests interleave between their database transactions:             *)
(*                                                                         *)
(*   Load     SELECTs the customer; the session keeps that object and no   *)
(*            later query refreshes it (a row already in the identity map  *)
(*            is not overwritten)                                          *)
(*   Propose  stamps proposed_at and builds the AgentAction                *)
(*   decide   from the flush of the INSERT to the first COMMIT: SQLite     *)
(*            gives the write lock to one session, which then reads rules, *)
(*            decisions and actions as last committed. Nobody else writes  *)
(*            in between and nobody sees the uncommitted rows: one step.   *)
(*   RecordTicket, WriteAudit, Label    the later, separate transactions   *)
(*                                                                         *)
(* The rows have a second writer. A simulation run (simulation/engine.py,  *)
(* see Simulation) resets the customers of its seed, which live traffic    *)
(* may share, and leaves in them what its scenario contacted. All that     *)
(* live requests and other visits meet of such a run is one visit to the   *)
(* customer for each seed:                                                 *)
(*                                                                         *)
(*   Look, Reset    _ensure_customers_in_db: SELECT, then UPDATE           *)
(*   Read, Finish   the scenario: the customer is read before the write    *)
(*                  lock; from its first INSERT to the COMMIT that ends it *)
(*                  the scenario holds that lock: one step                 *)
(*                                                                         *)
(* Abort is a request that dies between two transactions: the process is   *)
(* killed, or a flush gives up with "database is locked". A visit that is  *)
(* over early just takes no further step.                                  *)
(***************************************************************************)
EXTENDS RulesEngine

CONSTANTS
  Request,      \* identities of requests, also those of their rows
  Customer,
  Proposals,    \* what agents may propose: [agent, type, channel, discount, amount]
  Origins,      \* callers: "live", "fallback" (full cycle) or "hitl" (resume)
  Rules,        \* the business_rules table
  Risk,         \* risk_score of each customer, in percent, to begin with
  Start,        \* first instant
  Step,         \* minutes per tick of the clock
  Horizon,      \* last instant: bounds the clock
  ClientDates,  \* values a client puts in payload.proposed_at: [at, wall]
  Slots,        \* sessions open at a time: threads of the server
  Visit,        \* visits of simulation runs to customers, one for each seed
  VisitTo,      \* the customer of each visit
  Simulated,    \* what the approvals of a scenario add up to for one customer:
                \* [last, contacts, discount]
  SimulatedRisk \* risk scores of the customers that simulations generate

ASSUME CoordinationAssumption ==
  /\ Proposals \subseteq [agent : STRING, type : STRING, channel : STRING,
                          discount : Nat, amount : Nat]
  /\ Origins \subseteq {"live", "fallback", "hitl"}
  /\ \A rule \in Rules :
       /\ rule.kind = "budget_limit" => rule.config.max_discount \in Int
       /\ rule.kind = "frequency_cap" =>
            rule.config.max_contacts \in Int /\ rule.config.window_hours \in Int
       /\ rule.kind = "cooldown" => rule.config.cooldown_hours \in Int
  /\ Risk \in [Customer -> 0..100]
  /\ Start \in Nat /\ Step \in Nat \ {0} /\ Horizon \in Nat
  /\ ClientDates \subseteq [at : Nat, wall : Nat]
  /\ Slots \in Nat \ {0}

ASSUME VisitAssumption ==
  /\ VisitTo \in [Visit -> Customer]
  /\ Simulated \subseteq [last : Nat, contacts : Nat \ {0}, discount : Nat]
  /\ SimulatedRisk \subseteq 0..100

VARIABLES
  now,       \* the wall clock
  pc,        \* where each request is
  snap,      \* the customer row as the request's session holds it
  act,       \* the AgentAction of each request, its payload.proposed_at given
             \* or not (dated) and its caller (origin)
  row,       \* customer_context: [last, contacts, exposure, risk] of each
             \* customer
  actions,   \* requests whose agent_actions row is committed
  decision,  \* coordination_decisions: [verdict, why, source] of each request
  audited,   \* requests whose decision has an audit_entries row
  stage,     \* where each visit of a simulation is
  copy,      \* the customer row as the visiting session holds it
  simulated, \* history: the contacts and the exposure that scenarios committed
             \* to each customer
  wiped      \* history: customers whose last_contact_at a simulation wrote last

visits == <<stage, copy, simulated, wiped>>
vars == <<now, pc, snap, act, row, actions, decision, audited, visits>>

-------------------------------------------------------------------------------
Row == [last : Nat \cup {Never}, contacts : Nat, exposure : Nat, risk : 0..100]

NewRow == [last |-> Never, contacts |-> 0, exposure |-> 0, risk |-> 0]

Agents == {p.agent : p \in Proposals} \cup {"none"}

Action == [cust : Customer, agent : Agents, type : STRING, channel : STRING,
           discount : Nat, amount : Nat, at : Nat, wall : Nat, dated : BOOLEAN,
           origin : {"live", "fallback", "hitl"}]

\* The AgentAction a caller builds from a proposal p, not yet dated.
ActionOf(c, p, origin) ==
  [cust |-> c, agent |-> p.agent, type |-> p.type, channel |-> p.channel,
   discount |-> p.discount, amount |-> p.amount, at |-> 0, wall |-> 0,
   dated |-> FALSE, origin |-> origin]

Undecided == [verdict |-> "none", why |-> "none", source |-> "none"]

Phase == {"idle", "loaded", "proposed", "ticket", "audit", "label", "done", "dead"}

Stage == {"idle", "look", "clean", "read", "over"}

Whys == {"none", "approved", "suspended", "ticketed", "duplicate", "policy"}
          \cup {rule.kind : rule \in Rules}

Open == {r \in Request : pc[r] \notin {"idle", "done", "dead"}}

Decided == {r \in Request : decision[r].verdict # "none"}

Approved(c) ==
  {r \in Request : decision[r].verdict = "approved" /\ act[r].cust = c}

\* The join of rules.py over coordination_decisions and agent_actions.
History(c) ==
  {[id |-> r, at |-> act[r].wall, source |-> decision[r].source] : r \in Approved(c)}

-------------------------------------------------------------------------------
\* api/hitl.py, check_hard_guardrails: the ceiling is tested first.
MaxAutoApproval == 2000

Guardrail(a, seen) ==
  IF a.amount > MaxAutoApproval THEN "financial_ceiling"
  ELSE IF seen.risk >= 80 THEN "state_conflict" ELSE "none"

SameKind(a, b) == a.cust = b.cust /\ a.agent = b.agent /\ a.type = b.type

\* Seeded bug: only actions proposed before this one are looked at.
DuplicatesBefore(r) ==
  {o \in actions \ {r} : /\ SameKind(act[o], act[r])
                         /\ act[o].wall >= act[r].wall - Hour
                         /\ act[o].wall <= act[r].wall}

\* collisions.py: any other action row of the same kind, whatever was decided
\* about it, from one hour before the proposal on. The query compares two stored
\* dates: the zone of window_start is dropped like that of the column.
Duplicates(r) ==
  {o \in actions \ {r} : SameKind(act[o], act[r]) /\ act[o].wall >= act[r].wall - Hour}

\* Seeded bug: the offer is subtracted from the exposure.
UpdateSubtracts(current, seen, a) ==
  [current EXCEPT !.last = a.wall, !.contacts = seen.contacts + 1,
                  !.exposure = seen.exposure - a.discount]

\* Seeded bug: last_contact_at is left as the session read it.
UpdateKeepsTime(current, seen, a) ==
  [current EXCEPT !.last = seen.last, !.contacts = seen.contacts + 1,
                  !.exposure = seen.exposure + a.discount]

\* Seeded bug: the offer is added twice.
UpdateTwice(current, seen, a) ==
  [current EXCEPT !.last = a.wall, !.contacts = seen.contacts + 1,
                  !.exposure = seen.exposure + 2 * a.discount]

\* update_after_decision, on the session's copy of the customer. The UPDATE
\* writes the columns whose value changed in that copy: an offer without a
\* discount leaves the committed exposure alone.
UpdateAfterDecision(current, seen, a) ==
  [last     |-> a.wall,
   contacts |-> seen.contacts + 1,
   exposure |-> IF a.discount = 0 THEN current.exposure
                ELSE seen.exposure + a.discount,
   risk     |-> current.risk]

-------------------------------------------------------------------------------
Init ==
  /\ now = Start
  /\ pc = [r \in Request |-> "idle"]
  /\ snap = [r \in Request |-> NewRow]
  /\ \E cust \in [Request -> Customer], proposal \in [Request -> Proposals],
        origin \in [Request -> Origins] :
       act = [r \in Request |-> ActionOf(cust[r], proposal[r], origin[r])]
  /\ row = [c \in Customer |-> [NewRow EXCEPT !.risk = Risk[c]]]
  /\ actions = {}
  /\ decision = [r \in Request |-> Undecided]
  /\ audited = {}
  /\ stage = [v \in Visit |-> "idle"]
  /\ copy = [v \in Visit |-> NewRow]
  /\ simulated = [c \in Customer |-> [contacts |-> 0, exposure |-> 0]]
  /\ wiped = {}

Tick ==
  /\ now + Step <= Horizon
  /\ now' = now + Step
  /\ UNCHANGED <<pc, snap, act, row, actions, decision, audited, visits>>

\* A thread takes the request and its session reads the customer.
Load(r) ==
  /\ pc[r] = "idle"
  /\ Cardinality(Open) < Slots
  /\ pc' = [pc EXCEPT ![r] = "loaded"]
  /\ snap' = [snap EXCEPT ![r] = row[act[r].cust]]
  /\ UNCHANGED <<now, act, row, actions, decision, audited, visits>>

\* proposed_at: the client's when the payload has one, else now. In the full
\* cycle the dispatcher, with its LLM calls, ran since the customer was read. A
\* date without a zone is given UTC, a date with another zone keeps it.
Propose(r) ==
  /\ pc[r] = "loaded"
  /\ \/ act' = [act EXCEPT ![r].at = now, ![r].wall = now]
     \/ /\ act[r].origin = "live"
        /\ \E date \in ClientDates :
             act' = [act EXCEPT ![r].at = date.at, ![r].wall = date.wall,
                                ![r].dated = TRUE]
  /\ pc' = [pc EXCEPT ![r] = "proposed"]
  /\ UNCHANGED <<now, snap, row, actions, decision, audited, visits>>

\* The decision row as it is first committed: source has its column default.
\* The commit expires the session's objects: its copy of the customer is gone.
Decide(r, verdict, why) ==
  /\ snap' = [snap EXCEPT ![r] = NewRow]
  /\ actions' = actions \cup {r}
  /\ decision' = [decision EXCEPT ![r] =
                    [verdict |-> verdict, why |-> why, source |-> "live"]]

\* No rule blocks; or one does, and the first of them is the reason given.
Passes(r) == Blocking(Rules, act[r], snap[r], History(act[r].cust)) = {}

Blockers(r) ==
  FirstBlocking(Rules, act[r], snap[r], History(act[r].cust))

\* The full cycle does not ask the engine when no agent handles the event (the
\* action is then of the agent "none") or the dispatcher scored none above zero:
\* action, blocked decision with its source, and audit entry in one commit.
BlockUndispatched(r) ==
  /\ pc[r] = "proposed"
  /\ act[r].origin # "hitl" /\ ~act[r].dated
  /\ \E agent \in {act[r].agent, "none"} : act' = [act EXCEPT ![r].agent = agent]
  /\ snap' = [snap EXCEPT ![r] = NewRow]
  /\ actions' = actions \cup {r}
  /\ decision' = [decision EXCEPT ![r] =
        [verdict |-> "blocked", why |-> "policy", source |-> act[r].origin]]
  /\ audited' = audited \cup {r}
  /\ pc' = [pc EXCEPT ![r] = "done"]
  /\ UNCHANGED <<now, row, visits>>

\* A hard guardrail: ticket, action and blocked decision in one commit.
Suspend(r) ==
  /\ pc[r] = "proposed"
  /\ Guardrail(act[r], snap[r]) # "none"
  /\ Decide(r, "blocked", "suspended")
  /\ pc' = [pc EXCEPT ![r] = "ticket"]
  /\ UNCHANGED <<now, act, row, audited, visits>>

\* The block reason is rewritten to name the ticket, in a commit of its own.
RecordTicket(r) ==
  /\ pc[r] = "ticket"
  /\ decision' = [decision EXCEPT ![r].why = "ticketed"]
  /\ pc' = [pc EXCEPT ![r] = "audit"]
  /\ UNCHANGED <<now, snap, act, row, actions, audited, visits>>

BlockByRule(r) ==
  /\ pc[r] = "proposed"
  /\ Guardrail(act[r], snap[r]) = "none"
  /\ \E rule \in Blockers(r) : Decide(r, "blocked", rule.kind)
  /\ pc' = [pc EXCEPT ![r] = "audit"]
  /\ UNCHANGED <<now, act, row, audited, visits>>

BlockByCollision(r) ==
  /\ pc[r] = "proposed"
  /\ Guardrail(act[r], snap[r]) = "none"
  /\ Passes(r)
  /\ Duplicates(r) # {}
  /\ Decide(r, "blocked", "duplicate")
  /\ pc' = [pc EXCEPT ![r] = "audit"]
  /\ UNCHANGED <<now, act, row, audited, visits>>

\* Seeded bug: the audit entry of an approval waits for a later commit.
ApproveUnaudited(r) ==
  /\ pc[r] = "proposed"
  /\ Guardrail(act[r], snap[r]) = "none"
  /\ Passes(r)
  /\ Duplicates(r) = {}
  /\ Decide(r, "approved", "approved")
  /\ row' = [row EXCEPT ![act[r].cust] = UpdateAfterDecision(@, snap[r], act[r])]
  /\ wiped' = wiped \ {act[r].cust}
  /\ pc' = [pc EXCEPT ![r] = "audit"]
  /\ UNCHANGED <<now, act, audited, stage, copy, simulated>>

\* Decision, customer context and audit entry in one commit.
Approve(r) ==
  /\ pc[r] = "proposed"
  /\ Guardrail(act[r], snap[r]) = "none"
  /\ Passes(r)
  /\ Duplicates(r) = {}
  /\ Decide(r, "approved", "approved")
  /\ row' = [row EXCEPT ![act[r].cust] = UpdateAfterDecision(@, snap[r], act[r])]
  /\ audited' = audited \cup {r}
  /\ wiped' = wiped \ {act[r].cust}
  /\ pc' = [pc EXCEPT ![r] = "label"]
  /\ UNCHANGED <<now, act, stage, copy, simulated>>

\* _audit of a blocked decision commits by itself.
WriteAudit(r) ==
  /\ pc[r] = "audit"
  /\ audited' = audited \cup {r}
  /\ pc' = [pc EXCEPT ![r] = "label"]
  /\ UNCHANGED <<now, snap, act, row, actions, decision, visits>>

\* The caller writes decision.source and answers. The full cycle answers as well
\* when that transaction fails, and the source stays what it was.
Label(r) ==
  /\ pc[r] = "label"
  /\ \/ decision' = [decision EXCEPT ![r].source = act[r].origin]
     \/ act[r].origin = "fallback" /\ UNCHANGED decision
  /\ pc' = [pc EXCEPT ![r] = "done"]
  /\ UNCHANGED <<now, snap, act, row, actions, audited, visits>>

\* The session dies; its open transaction, if any, is rolled back.
Abort(r) ==
  /\ r \in Open
  /\ pc' = [pc EXCEPT ![r] = "dead"]
  /\ snap' = [snap EXCEPT ![r] = NewRow]
  /\ UNCHANGED <<now, act, row, actions, decision, audited, visits>>

-------------------------------------------------------------------------------
(* Visits of simulation runs *)

requests == <<now, pc, snap, act, actions, decision, audited>>

\* The customer is read to be reset, before each of the two scenarios of a seed.
Look(v) ==
  /\ stage[v] \in {"idle", "clean"}
  /\ stage' = [stage EXCEPT ![v] = "look"]
  /\ copy' = [copy EXCEPT ![v] = row[VisitTo[v]]]
  /\ UNCHANGED <<requests, row, simulated, wiped>>

\* What differs, in the object as it was read, from a customer as generated.
ResetOf(current, seen, risk) ==
  [last     |-> IF seen.last = Never THEN current.last ELSE Never,
   contacts |-> IF seen.contacts = 0 THEN current.contacts ELSE 0,
   exposure |-> IF seen.exposure = 0 THEN current.exposure ELSE 0,
   risk     |-> IF seen.risk = risk THEN current.risk ELSE risk]

Reset(v) ==
  /\ stage[v] = "look"
  /\ stage' = [stage EXCEPT ![v] = "clean"]
  /\ \E risk \in SimulatedRisk :
       row' = [row EXCEPT ![VisitTo[v]] = ResetOf(@, copy[v], risk)]
  /\ wiped' = IF copy[v].last = Never THEN wiped ELSE wiped \cup {VisitTo[v]}
  /\ copy' = [copy EXCEPT ![v] = NewRow]
  /\ UNCHANGED <<requests, simulated>>

\* The coordinated scenario reads the customer for its first action,
Read(v) ==
  /\ stage[v] = "clean"
  /\ stage' = [stage EXCEPT ![v] = "read"]
  /\ copy' = [copy EXCEPT ![v] = row[VisitTo[v]]]
  /\ UNCHANGED <<requests, row, simulated, wiped>>

FinishUpdate(current, seen, s) ==
  [last     |-> s.last,
   contacts |-> seen.contacts + s.contacts,
   exposure |-> IF s.discount = 0 THEN current.exposure
                ELSE seen.exposure + s.discount,
   risk     |-> current.risk]

Unscoped(rule) == rule.active /\ rule.agents = {} /\ rule.channels = {}

\* The budget rules that concern every action see the last of a scenario's
\* approvals as they see a live one. Which actions the other rules let through
\* is a choice.
WithinBudgets(seen, s) ==
  \A rule \in Rules :
    Unscoped(rule) /\ rule.kind = "budget_limit" =>
      seen.exposure + s.discount <= rule.config.max_discount

\* and commits what its approvals wrote to that object, together with the removal
\* of its decisions and actions.
Finish(v) ==
  /\ stage[v] = "read"
  /\ stage' = [stage EXCEPT ![v] = "over"]
  /\ \E s \in Simulated :
       /\ WithinBudgets(copy[v], s)
       /\ row' = [row EXCEPT ![VisitTo[v]] = FinishUpdate(@, copy[v], s)]
       /\ simulated' = [simulated EXCEPT ![VisitTo[v]] =
                           [contacts |-> @.contacts + s.contacts,
                            exposure |-> @.exposure + s.discount]]
  /\ wiped' = wiped \cup {VisitTo[v]}
  /\ copy' = [copy EXCEPT ![v] = NewRow]
  /\ UNCHANGED requests

Next ==
  \/ Tick
  \/ \E v \in Visit : Look(v) \/ Reset(v) \/ Read(v) \/ Finish(v)
  \/ \E r \in Request :
       \/ Load(r) \/ Propose(r)
       \/ BlockUndispatched(r) \/ Suspend(r) \/ RecordTicket(r)
       \/ BlockByRule(r) \/ BlockByCollision(r) \/ Approve(r)
       \/ WriteAudit(r) \/ Label(r) \/ Abort(r)

Spec == Init /\ [][Next]_vars

-------------------------------------------------------------------------------
TypeOK ==
  /\ now \in Nat
  /\ pc \in [Request -> Phase]
  /\ snap \in [Request -> Row]
  /\ act \in [Request -> Action]
  /\ row \in [Customer -> Row]
  /\ actions \subseteq Request
  /\ decision \in [Request ->
       [verdict : {"none", "approved", "blocked"}, why : Whys,
        source : {"none", "live", "fallback", "hitl"}]]
  /\ audited \subseteq Request
  /\ stage \in [Visit -> Stage]
  /\ copy \in [Visit -> Row]
  /\ simulated \in [Customer -> [contacts : Nat, exposure : Nat]]
  /\ wiped \subseteq Customer

\* No customer is contacted twice by the same agent for the same thing within
\* an hour of stored time, whatever the interleaving and whatever dates clients
\* put in their proposals: the collision check reads under the write lock and
\* has no upper end, so a session that decides late still sees the later-dated
\* contact of one that overtook it. Of contacts dated in one time zone, as those
\* of the server are, that is an hour of real time; of others the shift between
\* their zones is taken off it, and an action repeated from a zone far enough to
\* the east is let through at the very same instant.
NoDuplicateContact ==
  \A c \in Customer : \A r, s \in Approved(c) :
    r # s /\ SameKind(act[r], act[s]) =>
      \/ act[r].wall - act[s].wall > Hour
      \/ act[s].wall - act[r].wall > Hour

\* The exposure a customer row records never passes an unscoped budget: a
\* session, of a request or of a simulation, writes back the very sum that the
\* budget rule compared, stale or not.
RecordedWithinBudget ==
  \A c \in Customer : \A rule \in Rules :
    Unscoped(rule) /\ rule.kind = "budget_limit" /\ rule.config.max_discount >= 0
      => row[c].exposure <= rule.config.max_discount

\* Unless a simulation wrote it last, the last contact recorded of a customer is
\* the date of some approved contact, and it is empty only as long as there is
\* none: a lost update may leave the row behind the contacts made, never without
\* any. After a simulation it is empty or a simulated date, whatever was committed
\* between its look at the customer and its reset.
LastContactWasMade ==
  \A c \in Customer :
    IF c \in wiped THEN row[c].last \in {Never} \cup {s.last : s \in Simulated}
    ELSE IF Approved(c) = {} THEN row[c].last = Never
    ELSE \E r \in Approved(c) : row[c].last = act[r].wall

\* Whoever got the verdict of a request can find the audit entry behind it; an
\* approved contact has one even when its session died before answering.
AnsweredIsAudited ==
  \A r \in Request :
    pc[r] = "done" \/ decision[r].verdict = "approved" => r \in audited /\ r \in Decided

\* Contacts that the windowed rules count and that were dated by the server.
Contacts(c) ==
  {r \in Approved(c) : /\ decision[r].source \in CountedSources(act[r].wall)
                       /\ ~act[r].dated}

\* Sessions that overlap may pass an unscoped frequency cap, because a contact
\* dated after the proposal it overtook is outside that proposal's window. The
\* excess is bounded by the number of other open sessions: no window of the
\* rule's length holds more than the cap and Slots - 1 contacts.
FrequencyOvershootBounded ==
  \A c \in Customer : \A rule \in Rules :
    Unscoped(rule) /\ rule.kind = "frequency_cap" /\ rule.config.max_contacts > 0 =>
      \A r \in Contacts(c) :
        Cardinality({s \in Contacts(c) :
             /\ act[s].at <= act[r].at
             /\ act[r].at - act[s].at <= rule.config.window_hours * Hour})
          <= rule.config.max_contacts + Slots - 1

===============================================================================
