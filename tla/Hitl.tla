--------------------------------- MODULE Hitl ---------------------------------
(***************************************************************************)
(* Suspension and resumption of actions: api/hitl.py over models/hitl.py.  *)
(* The engine (Coordination) suspends an action that meets a hard          *)
(* guardrail: a suspended_actions row and a hitl_tickets row are committed *)
(* with it. Reviewers resume tickets and anybody may sweep the expired     *)
(* ones, in concurrent sessions whose SELECTs take no lock and whose       *)
(* UPDATEs, by primary key, overwrite what was committed since. Any flush  *)
(* or commit may give up with "database is locked" and end its request     *)
(* there. Simulation runs delete the audit entries of settlements: their   *)
(* clearing takes every entry without a row in coordination_decisions.     *)
(*                                                                         *)
(* The actions here are all of one customer, agent and type, so that each  *)
(* is a duplicate of the others. Of the soft rules a resumed action meets, *)
(* only whether one blocks is kept. A resume that is answered 400 or 404   *)
(* without a write (settled ticket, override without a reason) is left     *)
(* out.                                                                    *)
(***************************************************************************)
EXTENDS Integers, FiniteSets

CONSTANTS
  Ticket,      \* identities of tickets and of their suspended actions
  Session,     \* concurrent resume requests
  NoTicket,
  TTL,         \* minutes until a ticket expires: SUSPENSION_TTL_HOURS
  Step,        \* minutes per tick
  Horizon,     \* last instant: bounds the clock
  MaxFaults    \* how often the process is killed or a transaction fails

ASSUME HitlAssumption ==
  /\ NoTicket \notin Ticket
  /\ TTL \in Nat /\ Horizon \in Nat /\ MaxFaults \in Nat
  /\ Step \in 1 .. 60   \* a request lasts less than an hour, see Tick

VARIABLES
  now,
  ticket,    \* status of each hitl_tickets row
  action,    \* status of each suspended_actions row
  guardrail, \* what suspended it
  expires,
  latest,    \* latest proposed_at among the agent_actions rows of this kind
  executed,  \* approved decisions made by resuming each ticket
  audited,   \* tickets with an audit entry of their settlement
  pc, on, choice,  \* each resume request: where it is, its ticket, its answer
  aged,      \* requests that have seen a tick of the clock
  sweep, batch, found, \* check_expired: where it is and what it read
  faults,
  lost,      \* history: how often requests for each ticket ended between the
             \* engine's commit and the one that settles the ticket
  cut,       \* history: tickets of which a request ended between the commit
             \* that settles it and that of the audit entry
  cleared    \* history: tickets whose audit entry a simulation run deleted

requests == <<pc, on, choice, aged, sweep, batch, found>>
history == <<faults, lost, cut, cleared>>
vars == <<now, ticket, action, guardrail, expires, latest, executed, audited,
          requests, history>>

Hour == 60
Never == -1

-------------------------------------------------------------------------------
Init ==
  /\ now = 0
  /\ ticket = [t \in Ticket |-> "none"]
  /\ action = [t \in Ticket |-> "none"]
  /\ guardrail = [t \in Ticket |-> "none"]
  /\ expires = [t \in Ticket |-> 0]
  /\ latest = Never
  /\ executed = [t \in Ticket |-> 0]
  /\ audited = {}
  /\ pc = [s \in Session |-> "idle"]
  /\ on = [s \in Session |-> NoTicket]
  /\ choice = [s \in Session |-> "none"]
  /\ aged = {}
  /\ sweep = "idle" /\ batch = {} /\ found = {}
  /\ faults = 0
  /\ lost = [t \in Ticket |-> 0]
  /\ cut = {} /\ cleared = {}

\* No resume request sees more than one tick: its statements wait for a lock for
\* half a minute at most. (Of a sweep nothing like it is needed.)
Tick ==
  /\ now + Step <= Horizon
  /\ aged = {}
  /\ now' = now + Step
  /\ aged' = {s \in Session : pc[s] # "idle"}
  /\ UNCHANGED <<ticket, action, guardrail, expires, latest, executed, audited,
                 pc, on, choice, sweep, batch, found, history>>

\* suspend_action.
Open(t, why) ==
  /\ ticket[t] = "none"
  /\ ticket' = [ticket EXCEPT ![t] = "pending"]
  /\ action' = [action EXCEPT ![t] = "pending"]
  /\ guardrail' = [guardrail EXCEPT ![t] = why]
  /\ expires' = [expires EXCEPT ![t] = now + TTL]

\* An agent proposes an action above the ceiling or for a risky customer, dated now
\* or, by a client, long ago. The engine commits its row with the ticket. The risk
\* is read anew each time it is asked for, and a simulation run may write its
\* synthetic risk scores over it at any time: here and in Validate it is any.
Suspend(t) ==
  /\ \/ Open(t, "financial_ceiling")
     \/ Open(t, "state_conflict")
  /\ latest' \in {latest, now}
  /\ UNCHANGED <<now, executed, audited, requests, history>>

\* Seeded bug: the suspended action is forgotten.
SettleTicketOnly(t, status) ==
  /\ ticket' = [ticket EXCEPT ![t] = status]
  /\ UNCHANGED action

\* Both rows of a ticket get their final status in one commit, whatever they say
\* by now.
Settle(t, status) ==
  /\ ticket' = [ticket EXCEPT ![t] = status]
  /\ action' = [action EXCEPT ![t] = status]

Leave(s) ==
  /\ pc' = [pc EXCEPT ![s] = "idle"]
  /\ on' = [on EXCEPT ![s] = NoTicket]
  /\ choice' = [choice EXCEPT ![s] = "none"]
  /\ aged' = aged \ {s}

Goto(s, where) ==
  pc' = [pc EXCEPT ![s] = where] /\ UNCHANGED <<on, choice, aged>>

-------------------------------------------------------------------------------
(* resume_ticket *)

\* Seeded bug: the expiry is left to the sweep.
CheckUntimed(s, t) ==
  /\ pc[s] = "idle" /\ ticket[t] = "pending"
  /\ pc' = [pc EXCEPT ![s] = "checked"]
  /\ on' = [on EXCEPT ![s] = t]
  /\ choice' \in {[choice EXCEPT ![s] = c] : c \in {"approve", "reject"}}
  /\ UNCHANGED <<now, ticket, action, guardrail, expires, latest, executed,
                 audited, aged, sweep, batch, found, history>>

\* The status of the ticket is read, then the expiry of the suspended action.
Check(s, t) ==
  /\ pc[s] = "idle" /\ ticket[t] = "pending"
  /\ pc' = [pc EXCEPT ![s] = IF expires[t] < now THEN "late" ELSE "checked"]
  /\ on' = [on EXCEPT ![s] = t]
  /\ choice' \in {[choice EXCEPT ![s] = c] : c \in {"approve", "reject"}}
  /\ UNCHANGED <<now, ticket, action, guardrail, expires, latest, executed,
                 audited, aged, sweep, batch, found, history>>

\* An expired ticket is settled without an audit entry, and the answer is 400.
ExpireLate(s) ==
  /\ pc[s] = "late"
  /\ Settle(on[s], "expired")
  /\ Leave(s)
  /\ UNCHANGED <<now, guardrail, expires, latest, executed, audited, sweep,
                 batch, found, history>>

\* Seeded bug: a refusal leaves no audit entry.
RefuseSilently(s) ==
  /\ \/ pc[s] = "checked" /\ choice[s] = "reject"
     \/ pc[s] = "refuse"
  /\ Settle(on[s], "rejected")
  /\ Leave(s)
  /\ UNCHANGED <<now, guardrail, expires, latest, executed, audited, sweep,
                 batch, found, history>>

\* The reviewer rejects, or revalidation finds the risk (still) high.
Refuse(s) ==
  /\ \/ pc[s] = "checked" /\ choice[s] = "reject"
     \/ pc[s] = "refuse"
  /\ Settle(on[s], "rejected")
  /\ audited' = audited \cup {on[s]}
  /\ Leave(s)
  /\ UNCHANGED <<now, guardrail, expires, latest, executed, sweep, batch,
                 found, history>>

\* Approve, or edit and approve: an edit reaches the discount only. The customer
\* read here is the one the engine checks as well.
Validate(s) ==
  /\ pc[s] = "checked" /\ choice[s] = "approve"
  /\ \/ Goto(s, "refuse")
     \/ Goto(s, "execute")
  /\ UNCHANGED <<now, ticket, action, guardrail, expires, latest, executed,
                 audited, sweep, batch, found, history>>

\* proposed_at of a resumed action: the request took it when it began.
Began(s) == IF s \in aged THEN now - Step ELSE now

Later(t, u) == IF t >= u THEN t ELSE u

\* Seeded bug: only actions dated strictly within the hour are duplicates.
DuplicateWithin(s) == latest # Never /\ latest > Began(s) - Hour

\* collisions.py: there is an action of this kind, from an hour before the
\* proposal on.
Duplicate(s) == latest # Never /\ latest >= Began(s) - Hour

\* A new action with the amount of the suspended one is handed to the engine, which
\* suspends it, blocks it, or approves it, and commits.
Execute(s) ==
  /\ pc[s] = "execute"
  /\ \/ /\ guardrail[on[s]] = "financial_ceiling"
        /\ \E u \in Ticket : Open(u, "financial_ceiling")
        /\ UNCHANGED executed
     \/ /\ guardrail[on[s]] # "financial_ceiling"
        /\ \/ UNCHANGED executed
           \/ ~Duplicate(s) /\ executed' = [executed EXCEPT ![on[s]] = @ + 1]
        /\ UNCHANGED <<ticket, action, guardrail, expires>>
  /\ latest' = Later(latest, Began(s))
  /\ Goto(s, "record")
  /\ UNCHANGED <<now, audited, sweep, batch, found, history>>

\* Seeded bug: the ticket waits for the commit of the audit entry.
RecordLater(s) ==
  /\ pc[s] = "record"
  /\ Goto(s, "audit")
  /\ UNCHANGED <<now, ticket, action, guardrail, expires, latest, executed,
                 audited, sweep, batch, found, history>>

\* The ticket is approved, whatever the engine decided.
Record(s) ==
  /\ pc[s] = "record"
  /\ Settle(on[s], "approved")
  /\ Goto(s, "audit")
  /\ UNCHANGED <<now, guardrail, expires, latest, executed, audited, sweep,
                 batch, found, history>>

AuditResume(s) ==
  /\ pc[s] = "audit"
  /\ audited' = audited \cup {on[s]}
  /\ Leave(s)
  /\ UNCHANGED <<now, ticket, action, guardrail, expires, latest, executed,
                 sweep, batch, found, history>>

-------------------------------------------------------------------------------
(* check_expired *)

\* Pending suspended actions past their time are read,
SweepRead ==
  /\ sweep = "idle"
  /\ batch' = {t \in Ticket : action[t] = "pending" /\ expires[t] < now}
  /\ batch' # {}
  /\ sweep' = "read"
  /\ UNCHANGED <<now, ticket, action, guardrail, expires, latest, executed,
                 audited, pc, on, choice, aged, found, history>>

\* Seeded bug: all pending tickets are taken.
SweepLookAll ==
  /\ sweep = "read"
  /\ found' = {t \in Ticket : ticket[t] = "pending"}
  /\ sweep' = "looked"
  /\ UNCHANGED <<now, ticket, action, guardrail, expires, latest, executed,
                 audited, pc, on, choice, aged, batch, history>>

\* then those of their tickets that are pending,
SweepLook ==
  /\ sweep = "read"
  /\ found' = {t \in batch : ticket[t] = "pending"}
  /\ sweep' = "looked"
  /\ UNCHANGED <<now, ticket, action, guardrail, expires, latest, executed,
                 audited, pc, on, choice, aged, batch, history>>

\* and all are written in one commit.
SweepCommit ==
  /\ sweep = "looked"
  /\ action' = [t \in Ticket |-> IF t \in batch THEN "expired" ELSE action[t]]
  /\ ticket' = [t \in Ticket |-> IF t \in found THEN "expired" ELSE ticket[t]]
  /\ audited' = audited \cup found
  /\ sweep' = "idle" /\ batch' = {} /\ found' = {}
  /\ UNCHANGED <<now, guardrail, expires, latest, executed, pc, on, choice,
                 aged, history>>

-------------------------------------------------------------------------------
(* What ends requests in the middle, and what deletes entries *)

\* The requests S end: what they committed stays.
Lose(S) ==
  /\ lost' = [t \in Ticket |->
       IF \E s \in S : on[s] = t /\ pc[s] = "record" THEN lost[t] + 1 ELSE lost[t]]
  /\ cut' = cut \cup {t \in Ticket : \E s \in S : on[s] = t /\ pc[s] = "audit"}
  /\ UNCHANGED <<now, ticket, action, guardrail, expires, latest, executed,
                 audited, cleared>>

\* The process is killed.
Crash ==
  /\ faults < MaxFaults /\ faults' = faults + 1
  /\ Lose(Session)
  /\ pc' = [s \in Session |-> "idle"]
  /\ on' = [s \in Session |-> NoTicket]
  /\ choice' = [s \in Session |-> "none"]
  /\ aged' = {} /\ sweep' = "idle" /\ batch' = {} /\ found' = {}

\* A flush or commit of a resume raises: its transaction is rolled back and the
\* request, answered 500, goes no further.
Fail(s) ==
  /\ pc[s] # "idle"
  /\ faults < MaxFaults /\ faults' = faults + 1
  /\ Lose({s})
  /\ Leave(s)
  /\ UNCHANGED <<sweep, batch, found>>

FailSweep ==
  /\ sweep # "idle"
  /\ faults < MaxFaults /\ faults' = faults + 1
  /\ sweep' = "idle" /\ batch' = {} /\ found' = {}
  /\ UNCHANGED <<now, ticket, action, guardrail, expires, latest, executed,
                 audited, pc, on, choice, aged, lost, cut, cleared>>

\* simulation/engine.py, _clear_simulation_state: the entries of settlements name a
\* decision that is in no table.
Clear ==
  /\ audited # {}
  /\ audited' = {}
  /\ cleared' = cleared \cup audited
  /\ UNCHANGED <<now, ticket, action, guardrail, expires, latest, executed,
                 requests, faults, lost, cut>>

Resume(s) ==
  \/ \E t \in Ticket : Check(s, t)
  \/ ExpireLate(s) \/ Refuse(s) \/ Validate(s) \/ Execute(s) \/ Record(s)
  \/ AuditResume(s)

Next ==
  \/ Tick \/ Crash \/ Clear
  \/ \E t \in Ticket : Suspend(t)
  \/ \E s \in Session : Resume(s) \/ Fail(s)
  \/ SweepRead \/ SweepLook \/ SweepCommit \/ FailSweep

Spec == Init /\ [][Next]_vars

-------------------------------------------------------------------------------
Statuses == {"none", "pending", "approved", "rejected", "expired"}

\* The shape of tickets and requests (models/hitl.py).
TypeOK ==
  /\ now \in Nat
  /\ ticket \in [Ticket -> Statuses] /\ action \in [Ticket -> Statuses]
  /\ guardrail \in [Ticket -> {"none", "financial_ceiling", "state_conflict"}]
  /\ expires \in [Ticket -> Nat] /\ latest \in Nat \cup {Never}
  /\ executed \in [Ticket -> Nat] /\ audited \subseteq Ticket
  /\ pc \in [Session -> {"idle", "checked", "late", "refuse", "execute", "record",
                         "audit"}]
  /\ on \in [Session -> Ticket \cup {NoTicket}]
  /\ choice \in [Session -> {"none", "approve", "reject"}]
  /\ aged \subseteq Session
  /\ sweep \in {"idle", "read", "looked"}
  /\ batch \subseteq Ticket /\ found \subseteq batch
  /\ faults \in 0 .. MaxFaults
  /\ lost \in [Ticket -> Nat] /\ cut \subseteq Ticket /\ cleared \subseteq Ticket
  /\ \A s \in Session : pc[s] # "idle" => on[s] \in Ticket

\* A suspended action is pending exactly as long as its ticket is, so that no
\* action waits for a ticket that nobody can resume, and no sweep expires the
\* action of a ticket that a reviewer still sees (resume_ticket, check_expired).
PendingTogether ==
  \A t \in Ticket : ticket[t] = "pending" <=> action[t] = "pending"

\* However many reviewers resume a ticket at once, and whatever the sweep writes
\* over it meanwhile, its action is executed once: nothing locks the ticket, the
\* second execution is stopped by the collision check of the engine, whose hour
\* outlasts any request. Only a request that ends between the engine's commit and
\* the one that settles the ticket, for a crash or a commit that fails, lets it be
\* executed again, once.
ExecutedOnce == \A t \in Ticket : executed[t] <= 1 + lost[t]

\* An action is never executed later than a request that began before the ticket
\* expired may last (resume_ticket reads the expiry once, at its start).
NoLateExecution ==
  [][\A t \in Ticket : executed'[t] > executed[t] => now <= expires[t] + Step]_vars

\* An executed ticket cannot be resumed any more: the execution was followed by the
\* commit that settles the ticket, or that is still to come, or a request ended
\* before it.
ExecutionRecorded ==
  \A t \in Ticket :
    executed[t] > 0 =>
      \/ ticket[t] # "pending"
      \/ lost[t] > 0
      \/ \E s \in Session : on[s] = t /\ pc[s] = "record"

\* A ticket that a human settled has its audit entry, or had it until a simulation
\* run cleared up, or the entry is still to come, or a request ended between the two
\* commits of an approval.
HumanSettlementAudited ==
  \A t \in Ticket :
    ticket[t] \in {"approved", "rejected"} =>
      \/ t \in audited \cup cleared
      \/ t \in cut
      \/ \E s \in Session : on[s] = t /\ pc[s] = "audit"

\* "Action amount exceeds auto-approval ceiling - requires human approval"
\* (check_hard_guardrails): once a human approved the ticket, and the approval is
\* through, the action was executed.
ApprovedCeilingExecuted ==
  \A t \in Ticket :
    ticket[t] = "approved" /\ guardrail[t] = "financial_ceiling" => executed[t] > 0

===============================================================================
