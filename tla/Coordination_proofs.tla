-------------------------- MODULE Coordination_proofs -------------------------
(***************************************************************************)
(* Theorems about Coordination, for every set of requests, customers,      *)
(* proposals and rules and every number of sessions.                       *)
(***************************************************************************)
EXTENDS Coordination, TLAPS, FiniteSetTheorems

-------------------------------------------------------------------------------
USE SimulationEndAssumption, CoordinationAssumption

LEMMA ActionOfType ==
  ASSUME NEW c \in Customer, NEW p \in Proposals, NEW o \in Origins
  PROVE  ActionOf(c, p, o) \in Action
  BY DEF ActionOf, Action, Agents

LEMMA UpdateType ==
  ASSUME NEW current \in Row, NEW seen \in Row, NEW a \in Action
  PROVE  UpdateAfterDecision(current, seen, a) \in Row
  BY DEF UpdateAfterDecision, Row, Action

LEMMA VisitType ==
  ASSUME NEW current \in Row, NEW seen \in Row
  PROVE  /\ \A risk \in SimulatedRisk : ResetOf(current, seen, risk) \in Row
         /\ \A s \in Simulated : FinishUpdate(current, seen, s) \in Row
<1>1. ASSUME NEW risk \in SimulatedRisk PROVE ResetOf(current, seen, risk) \in Row
  <2>1. risk \in 0..100
    BY VisitAssumption
  <2>2. QED
    BY <2>1 DEF ResetOf, Row, Never
<1>2. ASSUME NEW s \in Simulated PROVE FinishUpdate(current, seen, s) \in Row
  <2>1. s.last \in Nat /\ s.contacts \in Nat /\ s.discount \in Nat
    BY VisitAssumption
  <2>2. QED
    BY <2>1 DEF FinishUpdate, Row
<1>3. QED
  BY <1>1, <1>2

LEMMA NewRowType == NewRow \in Row
  BY DEF NewRow, Row, Never

Decision == [verdict : {"none", "approved", "blocked"}, why : Whys,
             source : {"none", "live", "fallback", "hitl"}]

LEMMA DecideType ==
  ASSUME TypeOK, NEW r \in Request, NEW verdict \in {"approved", "blocked"},
         NEW why \in Whys, Decide(r, verdict, why)
  PROVE  /\ snap' \in [Request -> Row]
         /\ actions' \subseteq Request
         /\ decision' \in [Request -> Decision]
  BY NewRowType DEF TypeOK, Decide, Decision

LEMMA VisitTypeStep ==
  ASSUME TypeOK, NEW v \in Visit, Look(v) \/ Reset(v) \/ Read(v) \/ Finish(v)
  PROVE  TypeOK'
<1> USE DEF Stage, requests
<1>1. VisitTo[v] \in Customer /\ row[VisitTo[v]] \in Row /\ copy[v] \in Row
  BY VisitAssumption DEF TypeOK
<1>2. CASE Look(v) \/ Read(v)
  BY <1>1, <1>2 DEF TypeOK, Look, Read
<1>3. CASE Reset(v)
  <2>1. PICK risk \in SimulatedRisk :
          row' = [row EXCEPT ![VisitTo[v]] = ResetOf(@, copy[v], risk)]
    BY <1>3 DEF Reset
  <2>2. row' \in [Customer -> Row]
    BY <1>1, <2>1, VisitType DEF TypeOK
  <2>3. QED
    BY <1>1, <1>3, <2>2, NewRowType DEF TypeOK, Reset
<1>4. CASE Finish(v)
  <2>1. PICK s \in Simulated :
          /\ row' = [row EXCEPT ![VisitTo[v]] = FinishUpdate(@, copy[v], s)]
          /\ simulated' = [simulated EXCEPT ![VisitTo[v]] =
                              [contacts |-> @.contacts + s.contacts,
                               exposure |-> @.exposure + s.discount]]
    BY <1>4 DEF Finish
  <2>2. row' \in [Customer -> Row]
    BY <1>1, <2>1, VisitType DEF TypeOK
  <2>3. simulated' \in [Customer -> [contacts : Nat, exposure : Nat]]
    BY <1>1, <2>1, VisitAssumption DEF TypeOK
  <2>4. QED
    BY <1>1, <1>4, <2>2, <2>3, NewRowType DEF TypeOK, Finish
<1>5. QED
  BY <1>2, <1>3, <1>4

\* TypeOK is preserved by every step.
LEMMA TypeStep == TypeOK /\ [Next]_vars => TypeOK'
<1> SUFFICES ASSUME TypeOK, [Next]_vars PROVE TypeOK'
  OBVIOUS
<1> USE DEF Decision, visits
<1>1. CASE Tick
  BY <1>1 DEF TypeOK, Tick
<1>2. ASSUME NEW r \in Request, Load(r) PROVE TypeOK'
  <2>1. row[act[r].cust] \in Row
    BY DEF TypeOK, Action
  <2>2. QED
    BY <1>2, <2>1 DEF TypeOK, Load, Phase
<1>3. ASSUME NEW r \in Request, Propose(r) PROVE TypeOK'
  <2>1. ASSUME NEW at \in Nat, NEW wall \in Nat, NEW dated \in BOOLEAN
        PROVE  [act[r] EXCEPT !.at = at, !.wall = wall, !.dated = dated] \in Action
    <3>1. act[r] \in Action
      BY DEF TypeOK
    <3>2. QED
      BY <3>1, Zenon DEF Action
  <2>2. \E at \in Nat, wall \in Nat, dated \in BOOLEAN :
          act' = [act EXCEPT ![r] = [act[r] EXCEPT !.at = at, !.wall = wall,
                                                   !.dated = dated]]
    <3>1. CASE act' = [act EXCEPT ![r].at = now, ![r].wall = now]
      <4>1. act' = [act EXCEPT ![r] = [act[r] EXCEPT !.at = now, !.wall = now,
                                                     !.dated = act[r].dated]]
        BY <3>1 DEF TypeOK, Action
      <4>2. now \in Nat /\ act[r].dated \in BOOLEAN
        BY DEF TypeOK, Action
      <4>3. QED
        BY <4>1, <4>2
    <3>2. ASSUME NEW date \in ClientDates,
                 act' = [act EXCEPT ![r].at = date.at, ![r].wall = date.wall,
                                    ![r].dated = TRUE]
          PROVE  act' = [act EXCEPT ![r] = [act[r] EXCEPT !.at = date.at,
                                             !.wall = date.wall, !.dated = TRUE]]
      BY <3>2 DEF TypeOK, Action
    <3>3. \A date \in ClientDates : date.at \in Nat /\ date.wall \in Nat
      OBVIOUS
    <3>4. CASE \E date \in ClientDates :
                 act' = [act EXCEPT ![r].at = date.at, ![r].wall = date.wall,
                                    ![r].dated = TRUE]
      <4>1. PICK date \in ClientDates :
              act' = [act EXCEPT ![r].at = date.at, ![r].wall = date.wall,
                                 ![r].dated = TRUE]
        BY <3>4
      <4>2. act' = [act EXCEPT ![r] = [act[r] EXCEPT !.at = date.at,
                                        !.wall = date.wall, !.dated = TRUE]]
        BY <3>2, <4>1
      <4>3. date.at \in Nat /\ date.wall \in Nat /\ TRUE \in BOOLEAN
        BY <3>3
      <4>4. QED
        BY <4>2, <4>3
    <3>5. QED
      BY <1>3, <3>1, <3>4 DEF Propose
  <2>3. act' \in [Request -> Action]
    <3>1. PICK at \in Nat, wall \in Nat, dated \in BOOLEAN :
            act' = [act EXCEPT ![r] = [act[r] EXCEPT !.at = at, !.wall = wall,
                                                     !.dated = dated]]
      BY <2>2
    <3>2. QED
      BY <2>1, <3>1 DEF TypeOK
  <2>4. QED
    BY <1>3, <2>3 DEF TypeOK, Propose, Phase
<1>4. ASSUME NEW r \in Request, Suspend(r) PROVE TypeOK'
  <2>1. "suspended" \in Whys
    BY DEF Whys
  <2>2. QED
    BY <1>4, <2>1, DecideType DEF TypeOK, Suspend, Phase
<1>5. ASSUME NEW r \in Request, RecordTicket(r) PROVE TypeOK'
  <2>1. decision' \in [Request -> Decision]
    <3>1. decision \in [Request -> Decision]
      BY DEF TypeOK
    <3>2. QED
      BY <1>5, <3>1 DEF RecordTicket, Whys
  <2>2. QED
    BY <1>5, <2>1 DEF TypeOK, RecordTicket, Phase
<1>6. ASSUME NEW r \in Request, BlockByRule(r) PROVE TypeOK'
  <2>1. PICK rule \in Blockers(r) : Decide(r, "blocked", rule.kind)
    BY <1>6 DEF BlockByRule
  <2>2. rule.kind \in Whys
    BY DEF Whys, Blockers, FirstBlocking, Blocking
  <2>3. QED
    BY <1>6, <2>1, <2>2, DecideType DEF TypeOK, BlockByRule, Phase
<1>7. ASSUME NEW r \in Request, BlockByCollision(r) PROVE TypeOK'
  <2>1. "duplicate" \in Whys
    BY DEF Whys
  <2>2. QED
    BY <1>7, <2>1, DecideType DEF TypeOK, BlockByCollision, Phase
<1>8. ASSUME NEW r \in Request, Approve(r) PROVE TypeOK'
  <2>1. "approved" \in Whys
    BY DEF Whys
  <2>2. row' \in [Customer -> Row]
    <3>1. UpdateAfterDecision(row[act[r].cust], snap[r], act[r]) \in Row
      BY UpdateType DEF TypeOK, Action
    <3>2. QED
      BY <1>8, <3>1 DEF TypeOK, Approve
  <2>3. QED
    BY <1>8, <2>1, <2>2, DecideType DEF TypeOK, Approve, Phase
<1>9. ASSUME NEW r \in Request, WriteAudit(r) PROVE TypeOK'
  BY <1>9 DEF TypeOK, WriteAudit, Phase
<1>10. ASSUME NEW r \in Request, Label(r) PROVE TypeOK'
  <2>1. decision' \in [Request -> Decision]
    <3>1. decision \in [Request -> Decision]
      BY DEF TypeOK
    <3>2. act[r].origin \in {"live", "fallback", "hitl"}
      BY DEF TypeOK, Action
    <3>3. QED
      BY <1>10, <3>1, <3>2 DEF Label
  <2>2. QED
    BY <1>10, <2>1 DEF TypeOK, Label, Phase
<1>11. ASSUME NEW r \in Request, Abort(r) PROVE TypeOK'
  BY <1>11, NewRowType DEF TypeOK, Abort, Phase
<1>12. ASSUME NEW r \in Request, BlockUndispatched(r) PROVE TypeOK'
  <2>1. ASSUME NEW agent \in Agents
        PROVE  [act[r] EXCEPT !.agent = agent] \in Action
    <3>1. act[r] \in Action
      BY DEF TypeOK
    <3>2. QED
      BY <3>1 DEF Action
  <2>2. act' \in [Request -> Action]
    <3>1. PICK agent \in {act[r].agent, "none"} :
            act' = [act EXCEPT ![r].agent = agent]
      BY <1>12 DEF BlockUndispatched
    <3>2. agent \in Agents
      BY DEF TypeOK, Action, Agents
    <3>3. QED
      BY <2>1, <3>1, <3>2 DEF TypeOK
  <2>3. decision' \in [Request -> Decision]
    <3>1. act[r].origin \in {"live", "fallback", "hitl"} /\ "policy" \in Whys
      BY DEF TypeOK, Action, Whys
    <3>2. QED
      BY <1>12, <3>1 DEF TypeOK, BlockUndispatched
  <2>4. QED
    BY <1>12, <2>2, <2>3, NewRowType DEF TypeOK, BlockUndispatched, Phase
<1>13. ASSUME NEW v \in Visit, Look(v) \/ Reset(v) \/ Read(v) \/ Finish(v) PROVE TypeOK'
  BY <1>13, VisitTypeStep
<1>14. CASE UNCHANGED vars
  BY <1>14 DEF TypeOK, vars, visits
<1>15. QED
  BY <1>1, <1>2, <1>3, <1>4, <1>5, <1>6, <1>7, <1>8, <1>9, <1>10, <1>11, <1>12,
     <1>13, <1>14 DEF Next

\* Every variable keeps its type.
THEOREM TypeCorrect == Spec => []TypeOK
<1>1. Init => TypeOK
  <2> SUFFICES ASSUME Init PROVE TypeOK
    OBVIOUS
  <2>1. act \in [Request -> Action]
    <3>1. PICK cust \in [Request -> Customer], proposal \in [Request -> Proposals],
               origin \in [Request -> Origins] :
            act = [r \in Request |->
                     ActionOf(cust[r], proposal[r], origin[r])]
      BY DEF Init
    <3>2. QED
      BY <3>1, ActionOfType
  <2>2. row \in [Customer -> Row]
    BY NewRowType DEF Init, Row
  <2>3. QED
    BY <2>1, <2>2, NewRowType DEF Init, TypeOK, Undecided, Phase, Whys, Stage
<1>2. QED
  BY <1>1, TypeStep, PTL DEF Spec

-------------------------------------------------------------------------------
\* A request has an action row only after it decided, and a decision row only
\* with its action row: what the proofs need to know of earlier transactions.
Bookkeeping ==
  \A r \in Request :
    /\ r \in actions => pc[r] \in {"ticket", "audit", "label", "done", "dead"}
    /\ decision[r].verdict # "none" => r \in actions

LEMMA BookkeepingStep == TypeOK /\ Bookkeeping /\ [Next]_vars => Bookkeeping'
<1> SUFFICES ASSUME TypeOK, Bookkeeping, [Next]_vars PROVE Bookkeeping'
  OBVIOUS
<1> USE DEF TypeOK, Bookkeeping
<1>1. CASE Tick
  BY <1>1 DEF Tick
<1>2. ASSUME NEW r \in Request, Load(r) PROVE Bookkeeping'
  BY <1>2 DEF Load
<1>3. ASSUME NEW r \in Request, Propose(r) PROVE Bookkeeping'
  BY <1>3 DEF Propose
<1>4. ASSUME NEW r \in Request, Suspend(r) PROVE Bookkeeping'
  BY <1>4 DEF Suspend, Decide
<1>5. ASSUME NEW r \in Request, RecordTicket(r) PROVE Bookkeeping'
  BY <1>5 DEF RecordTicket
<1>6. ASSUME NEW r \in Request, BlockByRule(r) PROVE Bookkeeping'
  BY <1>6 DEF BlockByRule, Decide
<1>7. ASSUME NEW r \in Request, BlockByCollision(r) PROVE Bookkeeping'
  BY <1>7 DEF BlockByCollision, Decide
<1>8. ASSUME NEW r \in Request, Approve(r) PROVE Bookkeeping'
  BY <1>8 DEF Approve, Decide
<1>9. ASSUME NEW r \in Request, WriteAudit(r) PROVE Bookkeeping'
  BY <1>9 DEF WriteAudit
<1>10. ASSUME NEW r \in Request, Label(r) PROVE Bookkeeping'
  BY <1>10 DEF Label
<1>11. ASSUME NEW r \in Request, Abort(r) PROVE Bookkeeping'
  BY <1>11 DEF Abort
<1>12. ASSUME NEW r \in Request, BlockUndispatched(r) PROVE Bookkeeping'
  BY <1>12 DEF BlockUndispatched
<1>13. ASSUME NEW v \in Visit, Look(v) \/ Reset(v) \/ Read(v) \/ Finish(v)
       PROVE  Bookkeeping'
  BY <1>13 DEF Look, Reset, Read, Finish, requests
<1>14. CASE UNCHANGED vars
  BY <1>14 DEF vars
<1>15. QED
  BY <1>1, <1>2, <1>3, <1>4, <1>5, <1>6, <1>7, <1>8, <1>9, <1>10, <1>11, <1>12,
     <1>13, <1>14 DEF Next

LEMMA BookkeepingHolds == Spec => []Bookkeeping
<1>1. Init => Bookkeeping
  BY DEF Init, Bookkeeping, Undecided
<1>2. QED
  BY <1>1, BookkeepingStep, TypeCorrect, PTL DEF Spec

\* A step of a request that approves nothing keeps the approved requests, their
\* actions and the customer rows; a visit may change a row, and only that.
ApprovalsKept ==
  /\ UNCHANGED <<row, simulated, wiped>>
  /\ \A s \in Request :
       /\ decision'[s].verdict = "approved" <=> decision[s].verdict = "approved"
       /\ decision[s].verdict = "approved" => act'[s] = act[s]

LEMMA ApprovalStep ==
  ASSUME TypeOK, Bookkeeping, [Next]_vars
  PROVE  \/ ApprovalsKept
         \/ \E r \in Request : Approve(r)
         \/ \E v \in Visit : Reset(v) \/ Finish(v)
<1> USE DEF TypeOK, Bookkeeping, ApprovalsKept, visits
<1>1. CASE Tick
  BY <1>1 DEF Tick
<1>2. ASSUME NEW r \in Request, Load(r) PROVE ApprovalsKept
  BY <1>2 DEF Load
<1>3. ASSUME NEW r \in Request, Propose(r) PROVE ApprovalsKept
  BY <1>3 DEF Propose
<1>4. ASSUME NEW r \in Request, Suspend(r) PROVE ApprovalsKept
  BY <1>4 DEF Suspend, Decide
<1>5. ASSUME NEW r \in Request, RecordTicket(r) PROVE ApprovalsKept
  BY <1>5 DEF RecordTicket
<1>6. ASSUME NEW r \in Request, BlockByRule(r) PROVE ApprovalsKept
  BY <1>6 DEF BlockByRule, Decide
<1>7. ASSUME NEW r \in Request, BlockByCollision(r) PROVE ApprovalsKept
  BY <1>7 DEF BlockByCollision, Decide
<1>8. ASSUME NEW r \in Request, WriteAudit(r) PROVE ApprovalsKept
  BY <1>8 DEF WriteAudit
<1>9. ASSUME NEW r \in Request, Label(r) PROVE ApprovalsKept
  BY <1>9 DEF Label
<1>10. ASSUME NEW r \in Request, Abort(r) PROVE ApprovalsKept
  BY <1>10 DEF Abort
<1>11. ASSUME NEW r \in Request, BlockUndispatched(r) PROVE ApprovalsKept
  BY <1>11 DEF BlockUndispatched
<1>12. ASSUME NEW v \in Visit, Look(v) \/ Read(v) PROVE ApprovalsKept
  BY <1>12 DEF Look, Read, requests
<1>13. CASE UNCHANGED vars
  BY <1>13 DEF vars, visits
<1>14. QED
  BY <1>1, <1>2, <1>3, <1>4, <1>5, <1>6, <1>7, <1>8, <1>9, <1>10, <1>11, <1>12,
     <1>13 DEF Next

\* What an approval leaves behind.
LEMMA ApproveEffect ==
  ASSUME TypeOK, Bookkeeping, NEW r \in Request, Approve(r)
  PROVE  /\ act' = act
         /\ decision[r].verdict = "none"
         /\ decision'[r].verdict = "approved"
         /\ \A s \in Request \ {r} : decision'[s] = decision[s]
         /\ \A c \in Customer \ {act[r].cust} : row'[c] = row[c]
         /\ row'[act[r].cust] = UpdateAfterDecision(row[act[r].cust], snap[r], act[r])
         /\ wiped' = wiped \ {act[r].cust} /\ simulated' = simulated
  BY DEF TypeOK, Bookkeeping, Approve, Decide, Action

\* What a reset leaves behind.
LEMMA ResetEffect ==
  ASSUME TypeOK, NEW v \in Visit, Reset(v)
  PROVE  /\ act' = act /\ decision' = decision /\ simulated' = simulated
         /\ \A c \in Customer \ {VisitTo[v]} : row'[c] = row[c]
         /\ \E risk \in SimulatedRisk :
              row'[VisitTo[v]] = ResetOf(row[VisitTo[v]], copy[v], risk)
         /\ wiped' = IF copy[v].last = Never THEN wiped ELSE wiped \cup {VisitTo[v]}
<1>1. VisitTo[v] \in Customer
  BY VisitAssumption
<1>2. QED
  BY <1>1 DEF TypeOK, Reset, requests

\* What the end of a scenario leaves behind.
LEMMA FinishEffect ==
  ASSUME TypeOK, NEW v \in Visit, Finish(v)
  PROVE  /\ act' = act /\ decision' = decision
         /\ wiped' = wiped \cup {VisitTo[v]}
         /\ \A c \in Customer \ {VisitTo[v]} :
              row'[c] = row[c] /\ simulated'[c] = simulated[c]
         /\ \E s \in Simulated :
              /\ WithinBudgets(copy[v], s)
              /\ row'[VisitTo[v]] = FinishUpdate(row[VisitTo[v]], copy[v], s)
              /\ simulated'[VisitTo[v]] =
                   [contacts |-> simulated[VisitTo[v]].contacts + s.contacts,
                    exposure |-> simulated[VisitTo[v]].exposure + s.discount]
<1>1. VisitTo[v] \in Customer
  BY VisitAssumption
<1>2. QED
  BY <1>1 DEF TypeOK, Finish, requests

-------------------------------------------------------------------------------
(***************************************************************************)
(* No duplicate contact. The new approval r found no action of its kind    *)
(* dated within the hour before it or later, and every approved request    *)
(* has an action row, so all earlier contacts of its kind lie more than an *)
(* hour before it.                                                         *)
(***************************************************************************)
LEMMA NoDuplicateStep ==
  TypeOK /\ Bookkeeping /\ NoDuplicateContact /\ [Next]_vars => NoDuplicateContact'
<1> SUFFICES ASSUME TypeOK, Bookkeeping, NoDuplicateContact, [Next]_vars
             PROVE  NoDuplicateContact'
  OBVIOUS
<1>1. CASE ApprovalsKept
  BY <1>1 DEF ApprovalsKept, NoDuplicateContact, Approved
<1>2. ASSUME NEW r \in Request, Approve(r) PROVE NoDuplicateContact'
  <2>1. \A s \in Request : act[s].wall \in Nat
    BY DEF TypeOK, Action
  <2>2. ASSUME NEW s \in Request, s # r, decision[s].verdict = "approved",
               SameKind(act[s], act[r])
        PROVE  act[r].wall - act[s].wall > Hour
    <3>1. s \in actions
      BY <2>2 DEF Bookkeeping
    <3>2. ~ (act[s].wall >= act[r].wall - Hour)
      BY <1>2, <2>2, <3>1 DEF Approve, Duplicates
    <3>3. QED
      BY <2>1, <3>2 DEF Hour
  <2>3. ASSUME NEW c \in Customer, NEW s \in Approved(c)', NEW t \in Approved(c)',
               s # t, SameKind(act'[s], act'[t])
        PROVE  act'[s].wall - act'[t].wall > Hour \/ act'[t].wall - act'[s].wall > Hour
    <3>1. /\ s \in Request /\ t \in Request
          /\ act'[s].cust = c /\ act'[t].cust = c
          /\ decision'[s].verdict = "approved" /\ decision'[t].verdict = "approved"
      BY <2>3 DEF Approved
    <3>2. CASE s = r
      BY <1>2, <2>2, <2>3, <3>1, <3>2, ApproveEffect DEF SameKind
    <3>3. CASE t = r
      BY <1>2, <2>2, <2>3, <3>1, <3>3, ApproveEffect DEF SameKind
    <3>4. CASE s # r /\ t # r
      BY <1>2, <2>3, <3>1, <3>4, ApproveEffect DEF NoDuplicateContact, Approved
    <3>5. QED
      BY <3>2, <3>3, <3>4
  <2>4. QED
    BY <2>3 DEF NoDuplicateContact
<1>3. ASSUME NEW v \in Visit, Reset(v) \/ Finish(v) PROVE NoDuplicateContact'
  BY <1>3 DEF Reset, Finish, requests, NoDuplicateContact, Approved
<1>4. QED
  BY <1>1, <1>2, <1>3, ApprovalStep

\* No customer is contacted twice by one agent for the same thing within an hour
\* of stored time, for any number of overlapping sessions, any client-supplied
\* dates and any simulation beside them.
THEOREM NoDuplicate == Spec => []NoDuplicateContact
<1>1. Init => NoDuplicateContact
  BY DEF Init, NoDuplicateContact, Approved, Undecided
<1>2. QED
  BY <1>1, NoDuplicateStep, TypeCorrect, BookkeepingHolds, PTL DEF Spec

-------------------------------------------------------------------------------
(***************************************************************************)
(* The recorded exposure. What an approval writes is either the exposure   *)
(* already in the row or the sum that the budget rule has just accepted;   *)
(* the last approval of a scenario did the same under the same lock.       *)
(***************************************************************************)
LEMMA BudgetStep ==
  TypeOK /\ Bookkeeping /\ RecordedWithinBudget /\ [Next]_vars => RecordedWithinBudget'
<1> SUFFICES ASSUME TypeOK, Bookkeeping, RecordedWithinBudget, [Next]_vars
             PROVE  RecordedWithinBudget'
  OBVIOUS
<1>1. CASE ApprovalsKept
  BY <1>1 DEF ApprovalsKept, RecordedWithinBudget
<1>2. ASSUME NEW r \in Request, Approve(r) PROVE RecordedWithinBudget'
  <2> SUFFICES ASSUME NEW c \in Customer, NEW rule \in Rules,
                      Unscoped(rule), rule.kind = "budget_limit",
                      rule.config.max_discount >= 0
               PROVE  row'[c].exposure <= rule.config.max_discount
    BY DEF RecordedWithinBudget
  <2>1. row[c].exposure <= rule.config.max_discount
    BY DEF RecordedWithinBudget
  <2>2. CASE c # act[r].cust
    BY <1>2, <2>1, <2>2, ApproveEffect
  <2>3. CASE c = act[r].cust
    <3>1. Applies(rule, act[r])
      BY DEF Unscoped, Applies
    <3>2. ~ RuleBlocks(rule, act[r], snap[r], History(act[r].cust))
      BY <1>2, <3>1 DEF Approve, Passes, Blocking
    <3>3. ~ (snap[r].exposure + act[r].discount > rule.config.max_discount)
      BY <3>2 DEF RuleBlocks, BudgetLimitBlocks
    <3>4. /\ snap[r].exposure + act[r].discount \in Int
          /\ rule.config.max_discount \in Int
      BY DEF TypeOK, Row, Action
    <3>5. snap[r].exposure + act[r].discount <= rule.config.max_discount
      BY <3>3, <3>4
    <3>6. row'[c].exposure \in {row[c].exposure, snap[r].exposure + act[r].discount}
      <4>1. row'[c] = UpdateAfterDecision(row[c], snap[r], act[r])
        BY <1>2, <2>3, ApproveEffect
      <4>2. QED
        BY <4>1 DEF UpdateAfterDecision
    <3>7. QED
      BY <2>1, <3>5, <3>6
  <2>4. QED
    BY <2>2, <2>3
<1>3. ASSUME NEW v \in Visit, Reset(v) \/ Finish(v) PROVE RecordedWithinBudget'
  <2> SUFFICES ASSUME NEW c \in Customer, NEW rule \in Rules,
                      Unscoped(rule), rule.kind = "budget_limit",
                      rule.config.max_discount >= 0
               PROVE  row'[c].exposure <= rule.config.max_discount
    BY DEF RecordedWithinBudget
  <2>1. row[c].exposure <= rule.config.max_discount
    BY DEF RecordedWithinBudget
  <2>2. CASE c # VisitTo[v]
    BY <1>3, <2>1, <2>2, ResetEffect, FinishEffect
  <2>3. CASE c = VisitTo[v] /\ Reset(v)
    <3>1. row'[c].exposure \in {row[c].exposure, 0}
      <4>1. PICK risk \in SimulatedRisk : row'[c] = ResetOf(row[c], copy[v], risk)
        BY <2>3, ResetEffect
      <4>2. QED
        BY <4>1 DEF ResetOf
    <3>2. QED
      BY <2>1, <3>1
  <2>4. CASE c = VisitTo[v] /\ Finish(v)
    <3>1. PICK s \in Simulated : /\ WithinBudgets(copy[v], s)
                                 /\ row'[c] = FinishUpdate(row[c], copy[v], s)
      BY <2>4, FinishEffect
    <3>2. copy[v].exposure + s.discount <= rule.config.max_discount
      BY <3>1 DEF WithinBudgets
    <3>3. row'[c].exposure \in {row[c].exposure, copy[v].exposure + s.discount}
      BY <3>1 DEF FinishUpdate
    <3>4. QED
      BY <2>1, <3>2, <3>3
  <2>5. QED
    BY <1>3, <2>2, <2>3, <2>4
<1>4. QED
  BY <1>1, <1>2, <1>3, ApprovalStep

\* No interleaving makes a customer row show more exposure than an unscoped
\* budget allows: what overlapping sessions break is the sum of the discounts
\* granted, not the column.
THEOREM RecordedBudget == Spec => []RecordedWithinBudget
<1>1. Init => RecordedWithinBudget
  <2>1. ASSUME Init PROVE \A c \in Customer : row[c].exposure = 0
    BY <2>1 DEF Init, NewRow
  <2>2. QED
    BY <2>1 DEF RecordedWithinBudget
<1>2. QED
  BY <1>1, BudgetStep, TypeCorrect, BookkeepingHolds, PTL DEF Spec

-------------------------------------------------------------------------------
LastContactOf(c) ==
  IF c \in wiped THEN row[c].last \in {Never} \cup {s.last : s \in Simulated}
  ELSE IF Approved(c) = {} THEN row[c].last = Never
  ELSE \E r \in Approved(c) : row[c].last = act[r].wall

LEMMA LastContactStep ==
  TypeOK /\ Bookkeeping /\ LastContactWasMade /\ [Next]_vars => LastContactWasMade'
<1> SUFFICES ASSUME TypeOK, Bookkeeping, LastContactWasMade, [Next]_vars,
                    NEW c \in Customer
             PROVE  LastContactOf(c)'
  BY DEF LastContactWasMade, LastContactOf
<1>1. LastContactOf(c)
  BY DEF LastContactWasMade, LastContactOf
<1>2. CASE ApprovalsKept
  <2>1. Approved(c)' = Approved(c) /\ \A r \in Approved(c) : act'[r] = act[r]
    BY <1>2 DEF ApprovalsKept, Approved
  <2>2. row'[c] = row[c] /\ wiped' = wiped
    BY <1>2 DEF ApprovalsKept
  <2>3. QED
    BY <1>1, <2>1, <2>2 DEF LastContactOf
<1>3. ASSUME NEW r \in Request, Approve(r) PROVE LastContactOf(c)'
  <2>1. CASE act[r].cust = c
    <3>1. r \in Approved(c)'
      BY <1>3, <2>1, ApproveEffect DEF Approved
    <3>2. row'[c].last = act'[r].wall
      <4>1. row'[c] = UpdateAfterDecision(row[c], snap[r], act[r]) /\ act' = act
        BY <1>3, <2>1, ApproveEffect
      <4>2. row'[c].last = act[r].wall
        BY <4>1 DEF UpdateAfterDecision
      <4>3. QED
        BY <4>1, <4>2
    <3>3. c \notin wiped'
      BY <1>3, <2>1, ApproveEffect
    <3>4. QED
      BY <3>1, <3>2, <3>3 DEF LastContactOf
  <2>2. CASE act[r].cust # c
    <3>1. Approved(c)' = Approved(c)
      BY <1>3, <2>2, ApproveEffect DEF Approved
    <3>2. row'[c] = row[c] /\ act' = act /\ (c \in wiped' <=> c \in wiped)
      BY <1>3, <2>2, ApproveEffect
    <3>3. QED
      BY <1>1, <3>1, <3>2 DEF LastContactOf
  <2>3. QED
    BY <2>1, <2>2
<1>4. ASSUME NEW v \in Visit, Reset(v) \/ Finish(v) PROVE LastContactOf(c)'
  <2>1. Approved(c)' = Approved(c) /\ act' = act
    BY <1>4, ResetEffect, FinishEffect DEF Approved
  <2>2. CASE c # VisitTo[v]
    <3>1. row'[c] = row[c] /\ (c \in wiped' <=> c \in wiped)
      BY <1>4, <2>2, ResetEffect, FinishEffect
    <3>2. QED
      BY <1>1, <2>1, <3>1 DEF LastContactOf
  <2>3. CASE c = VisitTo[v] /\ Reset(v)
    <3>1. row'[c].last = IF copy[v].last = Never THEN row[c].last ELSE Never
      <4>1. PICK risk \in SimulatedRisk : row'[c] = ResetOf(row[c], copy[v], risk)
        BY <2>3, ResetEffect
      <4>2. QED
        BY <4>1 DEF ResetOf
    <3>2. wiped' = IF copy[v].last = Never THEN wiped ELSE wiped \cup {c}
      BY <2>3, ResetEffect
    <3>3. QED
      BY <1>1, <2>1, <3>1, <3>2 DEF LastContactOf
  <2>4. CASE c = VisitTo[v] /\ Finish(v)
    <3>1. \E s \in Simulated : row'[c] = FinishUpdate(row[c], copy[v], s)
      BY <2>4, FinishEffect
    <3>2. c \in wiped'
      BY <2>4, FinishEffect
    <3>3. QED
      BY <3>1, <3>2 DEF LastContactOf, FinishUpdate
  <2>5. QED
    BY <1>4, <2>2, <2>3, <2>4
<1>5. QED
  BY <1>2, <1>3, <1>4, ApprovalStep

\* The last contact recorded of a customer is that of some approved contact or, if a
\* simulation wrote the row since, none or a simulated one.
THEOREM LastContact == Spec => []LastContactWasMade
<1>1. Init => LastContactWasMade
  <2> SUFFICES ASSUME Init, NEW c \in Customer
               PROVE  c \notin wiped /\ Approved(c) = {} /\ row[c].last = Never
    BY DEF LastContactWasMade
  <2>1. Approved(c) = {}
    BY DEF Init, Approved, Undecided
  <2>2. row[c].last = Never
    BY DEF Init, NewRow
  <2>3. c \notin wiped
    BY DEF Init
  <2>4. QED
    BY <2>1, <2>2, <2>3
<1>2. QED
  BY <1>1, LastContactStep, TypeCorrect, BookkeepingHolds, PTL DEF Spec

-------------------------------------------------------------------------------
(***************************************************************************)
(* The audit trail. AnsweredIsAudited is not inductive: that a request     *)
(* about to be answered is audited comes from the order of its commits.    *)
(***************************************************************************)
AuditOrder ==
  \A r \in Request :
    /\ pc[r] \in {"ticket", "audit", "label", "done"} => decision[r].verdict # "none"
    /\ pc[r] \in {"label", "done"} => r \in audited
    /\ decision[r].verdict = "approved" => r \in audited

LEMMA AuditOrderStep == TypeOK /\ AuditOrder /\ [Next]_vars => AuditOrder'
<1> SUFFICES ASSUME TypeOK, AuditOrder, [Next]_vars PROVE AuditOrder'
  OBVIOUS
<1> USE DEF TypeOK, AuditOrder
<1>1. CASE Tick
  BY <1>1 DEF Tick
<1>2. ASSUME NEW r \in Request, Load(r) PROVE AuditOrder'
  BY <1>2 DEF Load
<1>3. ASSUME NEW r \in Request, Propose(r) PROVE AuditOrder'
  BY <1>3 DEF Propose
<1>4. ASSUME NEW r \in Request, Suspend(r) PROVE AuditOrder'
  BY <1>4 DEF Suspend, Decide
<1>5. ASSUME NEW r \in Request, RecordTicket(r) PROVE AuditOrder'
  BY <1>5 DEF RecordTicket
<1>6. ASSUME NEW r \in Request, BlockByRule(r) PROVE AuditOrder'
  BY <1>6 DEF BlockByRule, Decide
<1>7. ASSUME NEW r \in Request, BlockByCollision(r) PROVE AuditOrder'
  BY <1>7 DEF BlockByCollision, Decide
<1>8. ASSUME NEW r \in Request, Approve(r) PROVE AuditOrder'
  BY <1>8 DEF Approve, Decide
<1>9. ASSUME NEW r \in Request, WriteAudit(r) PROVE AuditOrder'
  BY <1>9 DEF WriteAudit
<1>10. ASSUME NEW r \in Request, Label(r) PROVE AuditOrder'
  BY <1>10 DEF Label
<1>11. ASSUME NEW r \in Request, Abort(r) PROVE AuditOrder'
  BY <1>11 DEF Abort
<1>12. ASSUME NEW r \in Request, BlockUndispatched(r) PROVE AuditOrder'
  BY <1>12 DEF BlockUndispatched
<1>13. ASSUME NEW v \in Visit, Look(v) \/ Reset(v) \/ Read(v) \/ Finish(v)
       PROVE  AuditOrder'
  BY <1>13 DEF Look, Reset, Read, Finish, requests
<1>14. CASE UNCHANGED vars
  BY <1>14 DEF vars
<1>15. QED
  BY <1>1, <1>2, <1>3, <1>4, <1>5, <1>6, <1>7, <1>8, <1>9, <1>10, <1>11, <1>12,
     <1>13, <1>14 DEF Next

\* Every answered request, and every approved contact, has its audit entry.
THEOREM AuditedAnswers == Spec => []AnsweredIsAudited
<1>1. Init => AuditOrder
  BY DEF Init, AuditOrder, Undecided
<1>2. AuditOrder => AnsweredIsAudited
  BY DEF AuditOrder, AnsweredIsAudited, Decided
<1>3. QED
  BY <1>1, <1>2, AuditOrderStep, TypeCorrect, PTL DEF Spec

\* Only a refusal whose request was cut short can be left without an audit entry: its
\* request is between the two commits (coordinator.py, _block and _audit) or died there.
THEOREM OnlyInterruptedUnaudited ==
  Spec => [](\A r \in Decided : r \notin audited =>
               /\ decision[r].verdict = "blocked"
               /\ pc[r] \in {"ticket", "audit", "dead"})
<1>1. Init => AuditOrder
  BY DEF Init, AuditOrder, Undecided
<1>2. TypeOK /\ Bookkeeping /\ AuditOrder =>
        \A r \in Decided : r \notin audited => /\ decision[r].verdict = "blocked"
                                               /\ pc[r] \in {"ticket", "audit", "dead"}
  BY DEF TypeOK, Bookkeeping, AuditOrder, Decided, Phase
<1>3. QED
  BY <1>1, <1>2, AuditOrderStep, TypeCorrect, BookkeepingHolds, PTL DEF Spec

===============================================================================
