------------------------------ MODULE Hitl_proofs ------------------------------
(***************************************************************************)
(* Theorems about Hitl, for any number of tickets, reviewers, crashes and  *)
(* failing transactions, any time to live, and any horizon.                *)
(***************************************************************************)
EXTENDS Hitl, TLAPS

USE HitlAssumption

\* Every variable has its type, a sweep that has not looked has found nothing, and
\* what has seen a tick is a request under way, after the first tick.
TypeInv ==
  /\ TypeOK
  /\ sweep # "looked" => found = {}
  /\ \A s \in aged : pc[s] # "idle" /\ now >= Step

\* Two steps of the fault model change only what requests hold.
LEMMA LoseEffect ==
  ASSUME TypeOK, NEW S, S \subseteq Session, Lose(S)
  PROVE  /\ UNCHANGED <<now, ticket, action, guardrail, expires, latest, executed,
                       audited, cleared>>
         /\ lost' \in [Ticket -> Nat] /\ cut' \subseteq Ticket /\ cut \subseteq cut'
         /\ \A t \in Ticket : lost'[t] >= lost[t]
         /\ \A t \in Ticket : (\E s \in S : on[s] = t /\ pc[s] = "record") =>
                                lost'[t] = lost[t] + 1
         /\ \A t \in Ticket : (\E s \in S : on[s] = t /\ pc[s] = "audit") => t \in cut'
BY DEF TypeOK, Lose

LEMMA TypeInit == Init => TypeInv
BY DEF Init, TypeInv, TypeOK, Statuses, Never

LEMMA TypeStep == TypeInv /\ [Next]_vars => TypeInv'
<1> SUFFICES ASSUME TypeInv, [Next]_vars PROVE TypeInv'
  OBVIOUS
<1> USE DEF TypeInv, TypeOK, Statuses, requests, history, Never
<1>1. CASE Tick \/ Clear
  BY <1>1 DEF Tick, Clear
<1>2. ASSUME NEW t \in Ticket, Suspend(t) PROVE TypeInv'
  BY <1>2 DEF Suspend, Open
<1>3. ASSUME NEW s \in Session, NEW t \in Ticket, Check(s, t) PROVE TypeInv'
  BY <1>3 DEF Check
<1>4. ASSUME NEW s \in Session, ExpireLate(s) \/ Refuse(s) PROVE TypeInv'
  BY <1>4 DEF ExpireLate, Refuse, Settle, Leave
<1>5. ASSUME NEW s \in Session, Validate(s) PROVE TypeInv'
  BY <1>5 DEF Validate, Goto
<1>6. ASSUME NEW s \in Session, Execute(s) PROVE TypeInv'
  BY <1>6 DEF Execute, Goto, Open, Began, Later
<1>7. ASSUME NEW s \in Session, Record(s) \/ AuditResume(s) PROVE TypeInv'
  BY <1>7 DEF Record, AuditResume, Settle, Goto, Leave
<1>8. CASE SweepRead \/ SweepLook \/ SweepCommit
  BY <1>8 DEF SweepRead, SweepLook, SweepCommit
<1>9. CASE UNCHANGED vars
  BY <1>9 DEF vars
<1>10. CASE Crash
  BY <1>10, LoseEffect DEF Crash
<1>11. ASSUME NEW s \in Session, Fail(s) PROVE TypeInv'
  BY <1>11, LoseEffect DEF Fail, Leave
<1>12. CASE FailSweep
  BY <1>12 DEF FailSweep
<1>13. QED
  BY <1>1, <1>2, <1>3, <1>4, <1>5, <1>6, <1>7, <1>8, <1>9, <1>10,
     <1>11, <1>12 DEF Next, Resume

LEMMA TypeInvHolds == Spec => []TypeInv
BY TypeInit, TypeStep, PTL DEF Spec

\* Every variable keeps its type (api/hitl.py, models/hitl.py).
THEOREM TypeCorrect == Spec => []TypeOK
<1>1. TypeInv => TypeOK
  BY DEF TypeInv
<1>2. QED
  BY <1>1, TypeInvHolds, PTL

-------------------------------------------------------------------------------
\* A settled ticket is never opened again: what the sweep passes over was settled
\* before, and stays settled until the sweep commits.
PendingInv ==
  /\ PendingTogether
  /\ sweep # "idle" => \A t \in batch : ticket[t] # "none"
  /\ sweep = "looked" => \A t \in batch \ found : ticket[t] # "pending"

LEMMA PendingStep == TypeOK /\ PendingInv /\ [Next]_vars => PendingInv'
<1> SUFFICES ASSUME TypeOK, PendingInv, [Next]_vars PROVE PendingInv'
  OBVIOUS
<1> USE DEF TypeOK, PendingInv, PendingTogether, requests, history
<1>1. CASE Tick \/ Clear
  BY <1>1 DEF Tick, Clear
<1>2. ASSUME NEW t \in Ticket, Suspend(t) PROVE PendingInv'
  BY <1>2 DEF Suspend, Open
<1>3. ASSUME NEW s \in Session, NEW t \in Ticket, Check(s, t) PROVE PendingInv'
  BY <1>3 DEF Check
<1>4. ASSUME NEW s \in Session, ExpireLate(s) \/ Refuse(s) PROVE PendingInv'
  BY <1>4 DEF ExpireLate, Refuse, Settle, Leave
<1>5. ASSUME NEW s \in Session, Validate(s) PROVE PendingInv'
  BY <1>5 DEF Validate, Goto
<1>6. ASSUME NEW s \in Session, Execute(s) PROVE PendingInv'
  BY <1>6 DEF Execute, Goto, Open, Began, Later
<1>7. ASSUME NEW s \in Session, Record(s) \/ AuditResume(s) PROVE PendingInv'
  BY <1>7 DEF Record, AuditResume, Settle, Goto, Leave
<1>8. CASE SweepRead \/ SweepLook \/ SweepCommit
  BY <1>8 DEF SweepRead, SweepLook, SweepCommit
<1>9. CASE UNCHANGED vars
  BY <1>9 DEF vars
<1>10. CASE Crash
  BY <1>10, LoseEffect DEF Crash
<1>11. ASSUME NEW s \in Session, Fail(s) PROVE PendingInv'
  BY <1>11, LoseEffect DEF Fail, Leave
<1>12. CASE FailSweep
  BY <1>12 DEF FailSweep
<1>13. QED
  BY <1>1, <1>2, <1>3, <1>4, <1>5, <1>6, <1>7, <1>8, <1>9, <1>10,
     <1>11, <1>12 DEF Next, Resume

\* A suspended action and its ticket are pending together, although the sweep reads
\* the two at different times (check_expired).
THEOREM PendingIsTogether == Spec => []PendingTogether
<1>1. Init => PendingInv
  BY DEF Init, PendingInv, PendingTogether
<1>2. TypeOK /\ PendingInv /\ [Next]_vars => PendingInv'
  BY PendingStep
<1>3. PendingInv => PendingTogether
  BY DEF PendingInv
<1>4. QED
  BY <1>1, <1>2, <1>3, TypeCorrect, PTL DEF Spec

-------------------------------------------------------------------------------
LEMMA AuditStep ==
  TypeOK /\ HumanSettlementAudited /\ [Next]_vars => HumanSettlementAudited'
<1> SUFFICES ASSUME TypeOK, HumanSettlementAudited, [Next]_vars
             PROVE  HumanSettlementAudited'
  OBVIOUS
<1> USE DEF TypeOK, HumanSettlementAudited, requests, history
<1>1. CASE Tick \/ Clear
  BY <1>1 DEF Tick, Clear
<1>2. ASSUME NEW t \in Ticket, Suspend(t) PROVE HumanSettlementAudited'
  BY <1>2 DEF Suspend, Open
<1>3. ASSUME NEW s \in Session, NEW t \in Ticket, Check(s, t)
      PROVE  HumanSettlementAudited'
  BY <1>3 DEF Check
<1>4. ASSUME NEW s \in Session, ExpireLate(s) \/ Refuse(s) PROVE HumanSettlementAudited'
  BY <1>4 DEF ExpireLate, Refuse, Settle, Leave
<1>5. ASSUME NEW s \in Session, Validate(s) PROVE HumanSettlementAudited'
  BY <1>5 DEF Validate, Goto
<1>6. ASSUME NEW s \in Session, Execute(s) PROVE HumanSettlementAudited'
  BY <1>6 DEF Execute, Goto, Open, Began, Later
<1>7. ASSUME NEW s \in Session, Record(s) PROVE HumanSettlementAudited'
  BY <1>7 DEF Record, Settle, Goto
<1>8. ASSUME NEW s \in Session, AuditResume(s) PROVE HumanSettlementAudited'
  BY <1>8 DEF AuditResume, Leave
<1>9. CASE SweepRead \/ SweepLook \/ SweepCommit
  BY <1>9 DEF SweepRead, SweepLook, SweepCommit
<1>10. CASE UNCHANGED vars
  BY <1>10 DEF vars
<1>11. CASE Crash
  BY <1>11, LoseEffect DEF Crash
<1>12. ASSUME NEW s \in Session, Fail(s) PROVE HumanSettlementAudited'
  BY <1>12, LoseEffect DEF Fail, Leave
<1>13. CASE FailSweep
  BY <1>13 DEF FailSweep
<1>14. QED
  BY <1>1, <1>2, <1>3, <1>4, <1>5, <1>6, <1>7, <1>8, <1>9, <1>10, <1>11,
     <1>12, <1>13 DEF Next, Resume

\* What a human settled is audited, or was until a simulation run cleared up, or is
\* about to be, or a request ended between the two commits of an approval
\* (resume_ticket, _clear_simulation_state).
THEOREM SettlementIsAudited == Spec => []HumanSettlementAudited
<1>1. Init => HumanSettlementAudited
  BY DEF Init, HumanSettlementAudited
<1>2. QED
  BY <1>1, AuditStep, TypeCorrect, PTL DEF Spec

-------------------------------------------------------------------------------
\* Requests and executions are of tickets that were opened.
OpenedInv ==
  /\ \A s \in Session : pc[s] # "idle" => ticket[on[s]] # "none"
  /\ \A t \in Ticket : executed[t] > 0 => ticket[t] # "none"
  /\ ExecutionRecorded

LEMMA OpenedStep == TypeOK /\ OpenedInv /\ [Next]_vars => OpenedInv'
<1> SUFFICES ASSUME TypeOK, OpenedInv, [Next]_vars PROVE OpenedInv'
  OBVIOUS
<1> USE DEF TypeOK, OpenedInv, ExecutionRecorded, requests, history
<1>1. CASE Tick \/ Clear
  BY <1>1 DEF Tick, Clear
<1>2. ASSUME NEW t \in Ticket, Suspend(t) PROVE OpenedInv'
  BY <1>2 DEF Suspend, Open
<1>3. ASSUME NEW s \in Session, NEW t \in Ticket, Check(s, t) PROVE OpenedInv'
  BY <1>3 DEF Check
<1>4. ASSUME NEW s \in Session, ExpireLate(s) \/ Refuse(s) PROVE OpenedInv'
  BY <1>4 DEF ExpireLate, Refuse, Settle, Leave
<1>5. ASSUME NEW s \in Session, Validate(s) PROVE OpenedInv'
  BY <1>5 DEF Validate, Goto
<1>6. ASSUME NEW s \in Session, Execute(s) PROVE OpenedInv'
  BY <1>6 DEF Execute, Goto, Open, Began, Later
<1>7. ASSUME NEW s \in Session, Record(s) \/ AuditResume(s) PROVE OpenedInv'
  BY <1>7 DEF Record, AuditResume, Settle, Goto, Leave
<1>8. CASE SweepRead \/ SweepLook \/ SweepCommit
  BY <1>8 DEF SweepRead, SweepLook, SweepCommit
<1>9. CASE UNCHANGED vars
  BY <1>9 DEF vars
<1>10. CASE Crash
  BY <1>10, LoseEffect DEF Crash
<1>11. ASSUME NEW s \in Session, Fail(s) PROVE OpenedInv'
  BY <1>11, LoseEffect DEF Fail, Leave
<1>12. CASE FailSweep
  BY <1>12 DEF FailSweep
<1>13. QED
  BY <1>1, <1>2, <1>3, <1>4, <1>5, <1>6, <1>7, <1>8, <1>9, <1>10,
     <1>11, <1>12 DEF Next, Resume

\* An executed ticket is not pending any more, or about to be recorded, or a request
\* ended between its engine's commit and the one that settles it (resume_ticket).
THEOREM ExecutionIsRecorded == Spec => []ExecutionRecorded
<1>1. Init => OpenedInv
  BY DEF Init, OpenedInv, ExecutionRecorded
<1>2. TypeOK /\ OpenedInv /\ [Next]_vars => OpenedInv'
  BY OpenedStep
<1>3. OpenedInv => ExecutionRecorded
  BY DEF OpenedInv
<1>4. QED
  BY <1>1, <1>2, <1>3, TypeCorrect, PTL DEF Spec

-------------------------------------------------------------------------------
\* How much later than now a request can still be under way.
Remaining(s) == IF s \in aged THEN 0 ELSE Step

\* A request that may execute has found its ticket unexpired.
TimelyInv ==
  /\ \A s \in Session : pc[s] # "idle" => ticket[on[s]] # "none"
  /\ \A s \in Session : pc[s] \in {"checked", "execute"} =>
       now + Remaining(s) <= expires[on[s]] + Step

LEMMA TimelyStep == TypeOK /\ TimelyInv /\ [Next]_vars => TimelyInv'
<1> SUFFICES ASSUME TypeOK, TimelyInv, [Next]_vars PROVE TimelyInv'
  OBVIOUS
<1> USE DEF TypeOK, TimelyInv, Remaining, requests, history
<1>1. CASE Tick \/ Clear
  BY <1>1 DEF Tick, Clear
<1>2. ASSUME NEW t \in Ticket, Suspend(t) PROVE TimelyInv'
  BY <1>2 DEF Suspend, Open
<1>3. ASSUME NEW s \in Session, NEW t \in Ticket, Check(s, t) PROVE TimelyInv'
  BY <1>3 DEF Check
<1>4. ASSUME NEW s \in Session, ExpireLate(s) \/ Refuse(s) PROVE TimelyInv'
  BY <1>4 DEF ExpireLate, Refuse, Settle, Leave
<1>5. ASSUME NEW s \in Session, Validate(s) PROVE TimelyInv'
  BY <1>5 DEF Validate, Goto
<1>6. ASSUME NEW s \in Session, Execute(s) PROVE TimelyInv'
  BY <1>6 DEF Execute, Goto, Open, Began, Later
<1>7. ASSUME NEW s \in Session, Record(s) \/ AuditResume(s) PROVE TimelyInv'
  BY <1>7 DEF Record, AuditResume, Settle, Goto, Leave
<1>8. CASE SweepRead \/ SweepLook \/ SweepCommit
  BY <1>8 DEF SweepRead, SweepLook, SweepCommit
<1>9. CASE UNCHANGED vars
  BY <1>9 DEF vars
<1>10. CASE Crash
  BY <1>10, LoseEffect DEF Crash
<1>11. ASSUME NEW s \in Session, Fail(s) PROVE TimelyInv'
  BY <1>11, LoseEffect DEF Fail, Leave
<1>12. CASE FailSweep
  BY <1>12 DEF FailSweep
<1>13. QED
  BY <1>1, <1>2, <1>3, <1>4, <1>5, <1>6, <1>7, <1>8, <1>9, <1>10,
     <1>11, <1>12 DEF Next, Resume

\* Only Execute executes.
LEMMA OnlyExecute ==
  TypeOK /\ TimelyInv /\ [Next]_vars =>
    \A t \in Ticket : executed'[t] > executed[t] => now <= expires[t] + Step
<1> SUFFICES ASSUME TypeOK, TimelyInv, [Next]_vars, NEW t \in Ticket,
                    executed'[t] > executed[t]
             PROVE  now <= expires[t] + Step
  OBVIOUS
<1>1. PICK s \in Session : Execute(s)
  <2>1. executed' # executed
    BY DEF TypeOK
  <2>2. QED
    BY <2>1 DEF Next, Resume, Tick, Crash, Clear, Fail, FailSweep, Lose, Suspend, Check,
                ExpireLate, Refuse, Validate, Record, AuditResume, SweepRead, SweepLook,
                SweepCommit, vars
<1>2. on[s] = t
  BY <1>1 DEF Execute, TypeOK
<1>3. now + Remaining(s) <= expires[t] + Step
  BY <1>1, <1>2 DEF Execute, TimelyInv
<1>4. QED
  BY <1>3 DEF Remaining, TypeOK

\* No action is executed later than one request may last after its ticket expired
\* (resume_ticket reads the expiry once).
THEOREM ExecutionIsTimely == Spec => NoLateExecution
<1>1. Init => TimelyInv
  BY DEF Init, TimelyInv
<1>2. QED
  BY <1>1, TimelyStep, OnlyExecute, TypeCorrect, PTL DEF Spec, NoLateExecution

-------------------------------------------------------------------------------
\* Nobody executes t again without a loss: every request that is under way still finds
\* the execution a duplicate, and if the ticket can still be resumed, a request is about
\* to settle it, so soon that it is a duplicate for whoever comes before.
Closed(t) ==
  /\ ticket[t] # "none" /\ latest \in Nat
  /\ \A s \in Session : on[s] = t /\ pc[s] \in {"checked", "execute"} =>
       Began(s) <= latest + Hour
  /\ ticket[t] = "pending" =>
       \E s \in Session : /\ on[s] = t /\ pc[s] = "record"
                          /\ now + Remaining(s) <= latest + Hour

OnceInv ==
  /\ latest <= now
  /\ \A s \in Session : pc[s] # "idle" => ticket[on[s]] # "none"
  /\ \A t \in Ticket :
       executed[t] <= lost[t] \/ (executed[t] = lost[t] + 1 /\ Closed(t))

\* When a request began, and how long it can last, are an hour apart at most.
LEMMA RequestTimes ==
  ASSUME TypeInv, NEW s \in Session
  PROVE  /\ Began(s) \in Nat /\ Remaining(s) \in Nat
         /\ Began(s) <= now /\ now + Remaining(s) = Began(s) + Step
<1>1. now \in Nat /\ Step \in Nat /\ Step <= 60
  BY DEF TypeInv, TypeOK
<1>2. CASE s \in aged
  <2>1. now >= Step
    BY <1>2 DEF TypeInv
  <2>2. QED
    BY <1>1, <1>2, <2>1 DEF Began, Remaining
<1>3. CASE s \notin aged
  BY <1>1, <1>3 DEF Began, Remaining
<1>4. QED
  BY <1>2, <1>3

LEMMA StillRecent ==
  ASSUME NEW n \in Nat, NEW k \in Nat, NEW m \in Nat
  PROVE  /\ n <= k + Hour /\ k <= m => n <= m + Hour
         /\ n <= k /\ k <= m + Hour => n <= m + Hour
BY DEF Hour

\* What does not reopen a ticket, delay a request or date the execution back leaves
\* it closed.
LEMMA ClosedStays ==
  ASSUME TypeInv, NEW t \in Ticket, Closed(t),
         now' = now, latest' \in Nat, latest <= latest',
         ticket'[t] # "none", ticket'[t] = "pending" => ticket[t] = "pending",
         \A s \in Session :
           /\ pc'[s] \in {"checked", "execute"} =>
                pc[s] \in {"checked", "execute"} /\ on'[s] = on[s] /\ (s \in aged' <=> s \in aged)
           /\ pc[s] = "record" /\ on[s] = t /\ ticket'[t] = "pending" =>
                pc'[s] = "record" /\ on'[s] = on[s] /\ (s \in aged' <=> s \in aged)
  PROVE  Closed(t)'
<1>1. /\ now \in Nat /\ latest \in Nat /\ Hour \in Nat
      /\ \A s \in Session : Began(s) \in Nat /\ Remaining(s) \in Nat
  BY RequestTimes DEF TypeInv, TypeOK, Closed, Hour
<1>2. \A s \in Session : (s \in aged' <=> s \in aged) =>
        Remaining(s)' = Remaining(s) /\ Began(s)' = Began(s)
  BY DEF Remaining, Began
<1>3. \A n \in Nat : n <= latest + Hour => n <= latest' + Hour
  BY <1>1, StillRecent
<1>4. ASSUME NEW s \in Session, on'[s] = t, pc'[s] \in {"checked", "execute"}
      PROVE  Began(s)' <= latest' + Hour
  <2>1. Began(s) <= latest + Hour /\ Began(s)' = Began(s)
    BY <1>2, <1>4 DEF Closed
  <2>2. QED
    BY <1>1, <1>3, <2>1
<1>5. ASSUME ticket'[t] = "pending"
      PROVE  \E s \in Session : /\ on'[s] = t /\ pc'[s] = "record"
                                /\ now' + Remaining(s)' <= latest' + Hour
  <2>1. PICK s \in Session : /\ on[s] = t /\ pc[s] = "record"
                             /\ now + Remaining(s) <= latest + Hour
    BY <1>5 DEF Closed
  <2>2. on'[s] = t /\ pc'[s] = "record" /\ Remaining(s)' = Remaining(s)
    BY <1>2, <1>5, <2>1
  <2>3. now + Remaining(s) \in Nat
    BY <1>1
  <2>4. QED
    BY <1>3, <2>1, <2>2, <2>3
<1>6. QED
  BY <1>4, <1>5 DEF Closed

\* A loss opens the ticket once more, for one more execution, or leaves it closed.
LEMMA LossStep ==
  ASSUME TypeInv, OnceInv, NEW S, S \subseteq Session, Lose(S),
         \A s \in S : pc'[s] = "idle",
         \A s \in Session \ S : pc'[s] = pc[s] /\ on'[s] = on[s] /\ (s \in aged' <=> s \in aged)
  PROVE  OnceInv'
<1>1. TypeOK
  BY DEF TypeInv
<1>2. UNCHANGED <<now, ticket, latest, executed>>
  BY <1>1, LoseEffect
<1>3. \A s \in Session : pc'[s] # "idle" => ticket'[on'[s]] # "none"
  BY <1>2 DEF OnceInv
<1>4. ASSUME NEW t \in Ticket
      PROVE  executed'[t] <= lost'[t] \/ (executed'[t] = lost'[t] + 1 /\ Closed(t)')
  <2>1. /\ executed[t] \in Nat /\ lost[t] \in Nat /\ lost'[t] \in Nat /\ lost'[t] >= lost[t]
        /\ executed'[t] = executed[t]
    BY <1>1, <1>2, LoseEffect DEF TypeOK
  <2>2. CASE executed[t] <= lost[t]
    BY <2>1, <2>2
  <2>3. CASE executed[t] = lost[t] + 1 /\ Closed(t)
    <3>1. CASE \E s \in S : on[s] = t /\ pc[s] = "record"
      <4>1. lost'[t] = lost[t] + 1
        BY <1>1, <3>1, LoseEffect
      <4>2. QED
        BY <2>1, <2>3, <4>1
    <3>2. CASE ~ \E s \in S : on[s] = t /\ pc[s] = "record"
      <4>1. latest' \in Nat /\ latest <= latest' /\ ticket'[t] # "none" /\ ticket' = ticket
        BY <1>2, <2>3 DEF Closed
      <4>2. Closed(t)'
        BY <1>2, <2>3, <3>2, <4>1, ClosedStays
      <4>3. lost'[t] = lost[t] \/ executed'[t] <= lost'[t]
        BY <2>1, <2>3
      <4>4. QED
        BY <2>1, <2>3, <4>2, <4>3
    <3>3. QED
      BY <3>1, <3>2
  <2>4. QED
    BY <2>2, <2>3 DEF OnceInv
<1>5. QED
  BY <1>2, <1>3, <1>4 DEF OnceInv

LEMMA OnceStep == TypeInv /\ OnceInv /\ [Next]_vars => OnceInv'
<1> SUFFICES ASSUME TypeInv, OnceInv, [Next]_vars PROVE OnceInv'
  OBVIOUS
<1> USE DEF TypeInv, TypeOK, OnceInv, requests, history, Never
<1>1. CASE Tick
  <2>1. ASSUME NEW t \in Ticket, Closed(t) PROVE Closed(t)'
    <3>1. \A s \in Session : pc[s] # "idle" => /\ now' + Remaining(s)' = now + Remaining(s)
                                               /\ Began(s)' = Began(s)
      BY <1>1 DEF Tick, Remaining, Began
    <3>2. UNCHANGED <<pc, on, ticket, latest>>
      BY <1>1 DEF Tick
    <3>3. QED
      BY <2>1, <3>1, <3>2 DEF Closed
  <2>2. QED
    BY <1>1, <2>1 DEF Tick
<1>2. CASE Crash
  <2>1. Lose(Session) /\ \A s \in Session : pc'[s] = "idle"
    BY <1>2 DEF Crash
  <2>2. QED
    BY <2>1, LossStep
<1>3. ASSUME NEW u \in Ticket, Suspend(u) PROVE OnceInv'
  <2>1. ASSUME NEW t \in Ticket, Closed(t) PROVE Closed(t)'
    BY <1>3, <2>1, ClosedStays DEF Suspend, Open, Closed
  <2>2. QED
    BY <1>3, <2>1 DEF Suspend, Open
<1>4. ASSUME NEW s \in Session, NEW u \in Ticket, Check(s, u) PROVE OnceInv'
  <2>1. /\ on' = [on EXCEPT ![s] = u] /\ pc[s] = "idle" /\ ticket[u] = "pending"
        /\ \A q \in Session : q # s => pc'[q] = pc[q]
        /\ pc'[s] \in {"checked", "late"}
        /\ UNCHANGED <<now, ticket, latest, executed, aged, lost>>
    BY <1>4 DEF Check
  <2>2. \A q \in Session : Remaining(q)' = Remaining(q) /\ Began(q)' = Began(q)
    BY <2>1 DEF Remaining, Began
  <2>3. ASSUME NEW t \in Ticket, Closed(t) PROVE Closed(t)'
    <3>1. ASSUME t = u PROVE Began(s) <= latest + Hour
      <4>1. Began(s) = now
        BY <2>1 DEF Began
      <4>2. PICK q \in Session : now + Remaining(q) <= latest + Hour
        BY <2>1, <2>3, <3>1 DEF Closed
      <4>3. now \in Nat /\ latest \in Nat /\ Hour \in Nat /\ Remaining(q) \in Nat
        BY <2>3, RequestTimes DEF Closed, Hour
      <4>4. QED
        BY <4>1, <4>2, <4>3
    <3>2. ASSUME ticket[t] = "pending"
          PROVE  \E q \in Session : /\ on'[q] = t /\ pc'[q] = "record"
                                    /\ now' + Remaining(q)' <= latest' + Hour
      BY <2>1, <2>2, <2>3, <3>2 DEF Closed
    <3>3. QED
      BY <2>1, <2>2, <2>3, <3>1, <3>2 DEF Closed
  <2>4. QED
    BY <2>1, <2>3
<1>5. ASSUME NEW s \in Session, ExpireLate(s) \/ Refuse(s) PROVE OnceInv'
  <2>1. ASSUME NEW t \in Ticket, Closed(t) PROVE Closed(t)'
    BY <1>5, <2>1, ClosedStays DEF ExpireLate, Refuse, Settle, Leave, Closed
  <2>2. QED
    BY <1>5, <2>1 DEF ExpireLate, Refuse, Settle, Leave
<1>6. ASSUME NEW s \in Session, Validate(s) PROVE OnceInv'
  <2>1. ASSUME NEW t \in Ticket, Closed(t) PROVE Closed(t)'
    BY <1>6, <2>1, ClosedStays DEF Validate, Goto, Closed
  <2>2. QED
    BY <1>6, <2>1 DEF Validate, Goto
<1>7. ASSUME NEW s \in Session, Execute(s) PROVE OnceInv'
  <2>1. /\ pc[s] = "execute" /\ pc' = [pc EXCEPT ![s] = "record"]
        /\ UNCHANGED <<now, on, aged, lost>> /\ latest' = Later(latest, Began(s))
        /\ \A t \in Ticket : /\ ticket[t] # "none" => ticket'[t] = ticket[t]
                             /\ t # on[s] => executed'[t] = executed[t]
    BY <1>7 DEF Execute, Goto, Open
  <2>2. /\ Began(s) \in Nat /\ Began(s) <= now /\ now + Remaining(s) = Began(s) + Step
        /\ latest \in Nat \cup {-1} /\ latest <= now /\ now \in Nat
    BY RequestTimes
  <2>3. latest' \in Nat /\ latest <= latest' /\ latest' <= now
    BY <2>1, <2>2 DEF Later
  <2>4. ASSUME NEW t \in Ticket, Closed(t) PROVE Closed(t)'
    BY <2>1, <2>3, <2>4, ClosedStays DEF Closed
  <2>5. ASSUME executed'[on[s]] # executed[on[s]]
        PROVE  executed'[on[s]] = executed[on[s]] + 1 /\ ~Duplicate(s)
    BY <1>7, <2>5 DEF Execute
  <2>6. ASSUME executed'[on[s]] # executed[on[s]], Closed(on[s]) PROVE FALSE
    <3>1. Began(s) <= latest + Hour /\ latest \in Nat
      BY <2>1, <2>6 DEF Closed
    <3>2. latest < Began(s) - Hour
      BY <2>2, <2>5, <2>6, <3>1 DEF Duplicate, Hour
    <3>3. QED
      BY <2>2, <3>1, <3>2 DEF Hour
  <2>7. ASSUME executed'[on[s]] # executed[on[s]] PROVE Closed(on[s])'
    <3>1. on[s] \in Ticket /\ ticket'[on[s]] # "none"
      BY <2>1
    <3>2. latest' = Began(s)
      BY <2>1, <2>2, <2>5, <2>7 DEF Duplicate, Later, Hour
    <3>3. Step \in Nat /\ Step <= Hour
      BY DEF Hour
    <3>4. now + Remaining(s) <= latest' + Hour /\ now <= latest' + Hour
      BY <2>2, <3>2, <3>3, RequestTimes DEF Hour
    <3>5. \A q \in Session : Remaining(q)' = Remaining(q) /\ Began(q)' = Began(q)
      BY <2>1 DEF Remaining, Began
    <3>6. ASSUME NEW q \in Session PROVE Began(q)' <= latest' + Hour
      <4>1. Began(q) \in Nat /\ Began(q) <= now
        BY RequestTimes
      <4>2. QED
        BY <2>2, <2>3, <3>4, <3>5, <4>1, StillRecent
    <3>7. QED
      BY <2>1, <2>3, <3>1, <3>4, <3>5, <3>6 DEF Closed
  <2>8. \A q \in Session : pc'[q] # "idle" => ticket'[on'[q]] # "none"
    BY <2>1
  <2>9. ASSUME NEW t \in Ticket
        PROVE  executed'[t] <= lost'[t] \/ (executed'[t] = lost'[t] + 1 /\ Closed(t)')
    <3>1. CASE executed'[t] = executed[t]
      BY <2>1, <2>4, <3>1
    <3>2. CASE executed'[t] # executed[t]
      <4>1. t = on[s]
        BY <2>1, <3>2
      <4>2. executed[t] <= lost[t]
        BY <2>6, <3>2, <4>1
      <4>3. executed'[t] = executed[t] + 1 /\ Closed(t)' /\ lost'[t] = lost[t]
        BY <2>1, <2>5, <2>7, <3>2, <4>1
      <4>4. executed[t] \in Nat /\ lost[t] \in Nat
        OBVIOUS
      <4>5. QED
        BY <4>2, <4>3, <4>4
    <3>3. QED
      BY <3>1, <3>2
  <2>10. QED
    BY <2>1, <2>3, <2>8, <2>9
<1>8. ASSUME NEW s \in Session, Record(s) PROVE OnceInv'
  <2>1. ASSUME NEW t \in Ticket, Closed(t) PROVE Closed(t)'
    BY <1>8, <2>1, ClosedStays DEF Record, Settle, Goto, Closed
  <2>2. QED
    BY <1>8, <2>1 DEF Record, Settle, Goto
<1>9. ASSUME NEW s \in Session, AuditResume(s) PROVE OnceInv'
  <2>1. ASSUME NEW t \in Ticket, Closed(t) PROVE Closed(t)'
    BY <1>9, <2>1, ClosedStays DEF AuditResume, Leave, Closed
  <2>2. QED
    BY <1>9, <2>1 DEF AuditResume, Leave
<1>10. CASE SweepRead \/ SweepLook \/ SweepCommit \/ FailSweep \/ Clear
  <2>1. ASSUME NEW t \in Ticket, Closed(t) PROVE Closed(t)'
    BY <1>10, <2>1, ClosedStays DEF SweepRead, SweepLook, SweepCommit, FailSweep, Clear, Closed
  <2>2. QED
    BY <1>10, <2>1 DEF SweepRead, SweepLook, SweepCommit, FailSweep, Clear
<1>11. ASSUME NEW s \in Session, Fail(s) PROVE OnceInv'
  <2>1. /\ Lose({s}) /\ pc'[s] = "idle"
        /\ \A q \in Session \ {s} : pc'[q] = pc[q] /\ on'[q] = on[q] /\ (q \in aged' <=> q \in aged)
    BY <1>11 DEF Fail, Leave
  <2>2. QED
    BY <2>1, LossStep
<1>12. CASE UNCHANGED vars
  BY <1>12 DEF vars, Closed, Remaining, Began
<1>13. QED
  BY <1>1, <1>2, <1>3, <1>4, <1>5, <1>6, <1>7, <1>8, <1>9, <1>10, <1>11, <1>12
     DEF Next, Resume

\* However many reviewers resume a ticket at once, its action is executed once, and
\* once more for each request that a crash or a failing commit ends between the
\* engine's commit and the one that settles the ticket: the window of the collision
\* check outlasts a request that races another (resume_ticket, collisions.py).
THEOREM ExecutesOnce == Spec => []ExecutedOnce
<1>1. Init => OnceInv
  <2> SUFFICES ASSUME Init PROVE OnceInv
    OBVIOUS
  <2>1. latest <= now /\ \A s \in Session : pc[s] = "idle"
    BY DEF Init, Never
  <2>2. \A t \in Ticket : executed[t] <= lost[t]
    BY DEF Init
  <2>3. QED
    BY <2>1, <2>2 DEF OnceInv
<1>2. TypeInv /\ OnceInv => ExecutedOnce
  BY DEF OnceInv, ExecutedOnce, TypeInv, TypeOK
<1>3. QED
  BY <1>1, <1>2, OnceStep, TypeInvHolds, PTL DEF Spec

-------------------------------------------------------------------------------
\* The engine never executes an action that it suspended for its amount: the new
\* action of a resume has the same amount. A ticket that is not opened yet may still
\* get that reason, so it must not have been executed either.
CeilingHolds ==
  \A t \in Ticket :
    ticket[t] = "none" \/ guardrail[t] = "financial_ceiling" => executed[t] = 0

LEMMA CeilingStep == TypeOK /\ OpenedInv /\ CeilingHolds /\ [Next]_vars => CeilingHolds'
<1> SUFFICES ASSUME TypeOK, OpenedInv, CeilingHolds, [Next]_vars PROVE CeilingHolds'
  OBVIOUS
<1> USE DEF TypeOK, CeilingHolds, requests, history, Statuses
<1>1. CASE Tick \/ Clear
  BY <1>1 DEF Tick, Clear
<1>2. ASSUME NEW t \in Ticket, Suspend(t) PROVE CeilingHolds'
  BY <1>2 DEF Suspend, Open
<1>3. ASSUME NEW s \in Session, NEW t \in Ticket, Check(s, t) PROVE CeilingHolds'
  BY <1>3 DEF Check
<1>4. ASSUME NEW s \in Session, ExpireLate(s) \/ Refuse(s) PROVE CeilingHolds'
  BY <1>4 DEF ExpireLate, Refuse, Settle, Leave
<1>5. ASSUME NEW s \in Session, Validate(s) PROVE CeilingHolds'
  BY <1>5 DEF Validate, Goto
<1>6. ASSUME NEW s \in Session, Execute(s) PROVE CeilingHolds'
  <2>1. on[s] \in Ticket /\ ticket[on[s]] # "none"
    BY <1>6 DEF Execute, OpenedInv
  <2>2. CASE guardrail[on[s]] = "financial_ceiling"
    BY <1>6, <2>2 DEF Execute, Goto, Open, Began, Later
  <2>3. CASE guardrail[on[s]] # "financial_ceiling"
    BY <1>6, <2>1, <2>3 DEF Execute, Goto
  <2>4. QED
    BY <2>2, <2>3
<1>7. ASSUME NEW s \in Session, Record(s) \/ AuditResume(s) PROVE CeilingHolds'
  BY <1>7 DEF Record, AuditResume, Settle, Goto, Leave
<1>8. CASE SweepRead \/ SweepLook \/ SweepCommit
  BY <1>8 DEF SweepRead, SweepLook, SweepCommit
<1>9. CASE UNCHANGED vars
  BY <1>9 DEF vars
<1>10. CASE Crash
  BY <1>10, LoseEffect DEF Crash
<1>11. ASSUME NEW s \in Session, Fail(s) PROVE CeilingHolds'
  BY <1>11, LoseEffect DEF Fail, Leave
<1>12. CASE FailSweep
  BY <1>12 DEF FailSweep
<1>13. QED
  BY <1>1, <1>2, <1>3, <1>4, <1>5, <1>6, <1>7, <1>8, <1>9, <1>10,
     <1>11, <1>12 DEF Next, Resume

\* No ticket above the financial ceiling is ever executed, however often reviewers
\* approve it (resume_ticket hands its action to process_action, whose guardrail
\* suspends it again): what the run hitl_ceiling finds once holds always.
THEOREM CeilingNeverExecuted ==
  Spec => [](\A t \in Ticket : guardrail[t] = "financial_ceiling" => executed[t] = 0)
<1>1. Init => OpenedInv /\ CeilingHolds
  BY DEF Init, OpenedInv, ExecutionRecorded, CeilingHolds
<1>2. TypeOK /\ OpenedInv /\ CeilingHolds /\ [Next]_vars => OpenedInv' /\ CeilingHolds'
  BY OpenedStep, CeilingStep
<1>3. CeilingHolds => \A t \in Ticket : guardrail[t] = "financial_ceiling" => executed[t] = 0
  BY DEF CeilingHolds
<1>4. QED
  BY <1>1, <1>2, <1>3, TypeCorrect, PTL DEF Spec

===============================================================================
