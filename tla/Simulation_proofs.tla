-------------------------- MODULE Simulation_proofs ---------------------------
(***************************************************************************)
(* Theorems about Simulation, for any number of requests, live decisions,  *)
(* edits, errors and crashes.                                              *)
(***************************************************************************)
EXTENDS Simulation, FiniteSetTheorems, TLAPS

USE SimulationAssumption

\* The slot belongs to one run, and who comes to give it back has taken it.
SlotInv ==
  /\ SlotConserved
  /\ \A r \in Run : /\ pc[r] = "queued" => kind[r] = "job"
                    /\ pc[r] \in {"purge", "release"} => Gated(r)

\* TypeOK is preserved by every step.
LEMMA TypeStep == TypeOK /\ SlotInv /\ [Next]_vars => TypeOK'
<1> SUFFICES ASSUME TypeOK, SlotInv, [Next]_vars PROVE TypeOK'
  OBVIOUS
<1> USE DEF TypeOK, Kinds, Phases, Inside, Running, Goto, Fault, slot, rows, live, bounded
<1>1. ASSUME NEW r \in Run, SubmitRun(r) \/ SubmitScorecard(r) \/ SubmitJob(r)
      PROVE  TypeOK'
  BY <1>1 DEF SubmitRun, SubmitScorecard, SubmitJob, Acquire, Begin
<1>2. ASSUME NEW r \in Run, StartJob(r) PROVE TypeOK'
  BY <1>2 DEF StartJob, Acquire, Begin, Reject
<1>3. ASSUME NEW r \in Run, Look(r) \/ Reset(r) \/ Read(r) PROVE TypeOK'
  BY <1>3 DEF Look, Reset, ResetOf, Expire, Read
<1>4. ASSUME NEW r \in Run, Clear(r) PROVE TypeOK'
  BY <1>4 DEF Clear, DeleteSimulated
<1>5. ASSUME NEW r \in Run, Enter(r) \/ Evaluate(r) PROVE TypeOK'
  BY <1>5 DEF Enter, Evaluate
<1>6. ASSUME NEW r \in Run, Finish(r) PROVE TypeOK'
  BY <1>6 DEF Finish, DeleteSimulated, Unlock, Rollback, Expire, Exposed
<1>7. ASSUME NEW r \in Run, NextSeed(r) \/ LastSeed(r) PROVE TypeOK'
  BY <1>7 DEF NextSeed, LastSeed, Persist, Unlock, Begin
<1>8. ASSUME NEW r \in Run, Fail(r) \/ Handle(r) PROVE TypeOK'
  BY <1>8 DEF Fail, Handle, Unlock, Rollback, Expire
<1>9. ASSUME NEW r \in Run, Purge(r) \/ Close(r) PROVE TypeOK'
  BY <1>9 DEF Purge, Close, Rollback, Unlock
<1>10. ASSUME NEW r \in Run, Release(r) PROVE TypeOK'
  <2>1. r \in Holders
    BY <1>10 DEF Release, SlotInv, Holders
  <2>2. permits = 0
    BY <2>1 DEF SlotInv, SlotConserved
  <2>3. QED
    BY <1>10, <2>2 DEF Release, GiveBack
<1>11. ASSUME NEW l \in Live,
              LiveLoad(l) \/ LiveApprove(l) \/ LiveBlock(l) \/ LiveAudit(l)
       PROVE  TypeOK'
  BY <1>11 DEF LiveLoad, LiveApprove, LiveBlock, LiveAudit, Exposed
<1>12. CASE EditRules \/ Crash
  BY <1>12 DEF EditRules, Crash
<1>13. CASE UNCHANGED vars
  BY <1>13 DEF vars
<1>14. QED
  BY <1>1, <1>2, <1>3, <1>4, <1>5, <1>6, <1>7, <1>8, <1>9, <1>10, <1>11, <1>12, <1>13
     DEF Next, Proceed

-------------------------------------------------------------------------------
\* What the requests' steps do to the slot, in terms of Holders.
LEMMA SlotStep == TypeOK /\ SlotInv /\ [Next]_vars => SlotInv'
<1> SUFFICES ASSUME TypeOK, SlotInv, [Next]_vars PROVE SlotInv'
  OBVIOUS
<1> USE DEF TypeOK, SlotInv, SlotConserved, Holders, Gated, Inside, Running, Goto, slot
<1>1. ASSUME NEW r \in Run, SubmitRun(r) \/ SubmitScorecard(r) \/ SubmitJob(r)
      PROVE  SlotInv'
  BY <1>1 DEF SubmitRun, SubmitScorecard, SubmitJob, Acquire, Begin
<1>2. ASSUME NEW r \in Run, StartJob(r) PROVE SlotInv'
  <2>1. CASE Acquire /\ Begin(r)
    BY <1>2, <2>1 DEF StartJob, Acquire, Begin
  <2>2. CASE permits = 0 /\ Goto(r, "refused") /\ UNCHANGED permits
    BY <1>2, <2>2 DEF StartJob
  <2>3. QED
    BY <1>2, <2>1, <2>2 DEF StartJob
<1>3. ASSUME NEW r \in Run, Look(r) \/ Reset(r) \/ Read(r) PROVE SlotInv'
  BY <1>3 DEF Look, Reset, Read
<1>4. ASSUME NEW r \in Run, Clear(r) \/ Enter(r) \/ Evaluate(r) PROVE SlotInv'
  BY <1>4 DEF Clear, Enter, Evaluate
<1>5. ASSUME NEW r \in Run, Finish(r) PROVE SlotInv'
  BY <1>5 DEF Finish
<1>6. ASSUME NEW r \in Run, NextSeed(r) \/ LastSeed(r) PROVE SlotInv'
  BY <1>6 DEF NextSeed, LastSeed, Persist, Begin
<1>7. ASSUME NEW r \in Run, Fail(r) \/ Handle(r) \/ Purge(r) PROVE SlotInv'
  BY <1>7 DEF Fail, Handle, Purge
<1>8. ASSUME NEW r \in Run, Release(r) \/ Close(r) PROVE SlotInv'
  BY <1>8 DEF Release, GiveBack, Close
<1>9. ASSUME NEW l \in Live,
             LiveLoad(l) \/ LiveApprove(l) \/ LiveBlock(l) \/ LiveAudit(l)
      PROVE  SlotInv'
  BY <1>9 DEF LiveLoad, LiveApprove, LiveBlock, LiveAudit
<1>10. CASE EditRules \/ Crash
  BY <1>10 DEF EditRules, Crash
<1>11. CASE UNCHANGED vars
  BY <1>11 DEF vars
<1>12. QED
  BY <1>1, <1>2, <1>3, <1>4, <1>5, <1>6, <1>7, <1>8, <1>9, <1>10, <1>11 DEF Next, Proceed

LEMMA SlotInit == Init => TypeOK /\ SlotInv
<1>1. Init => TypeOK
  BY DEF Init, TypeOK, Kinds, Phases
<1>2. Init => SlotInv
  BY DEF Init, SlotInv, SlotConserved, Holders, Inside, Running
<1>3. QED
  BY <1>1, <1>2

\* Every variable keeps its type, for any number of requests and faults.
THEOREM TypeCorrect == Spec => []TypeOK
<1>1. TypeOK /\ SlotInv /\ [Next]_vars => (TypeOK /\ SlotInv)'
  BY TypeStep, SlotStep
<1>2. QED
  BY <1>1, SlotInit, PTL DEF Spec

\* Scorecards and jobs run one at a time and give the slot back exactly once
\* (scorecard, _run_scorecard_async_job).
THEOREM OneAtATime == Spec => []SlotConserved
<1>1. TypeOK /\ SlotInv /\ [Next]_vars => (TypeOK /\ SlotInv)'
  BY TypeStep, SlotStep
<1>2. SlotInv => SlotConserved
  BY DEF SlotInv
<1>3. QED
  BY <1>1, <1>2, SlotInit, PTL DEF Spec

-------------------------------------------------------------------------------
\* Whoever keeps the write lock is in its scenario or broke off in it, and only he
\* has simulated rows, which are not committed.
LockInv ==
  /\ \A r \in Run :
       /\ pc[r] = "scenario" => lock = r
       /\ lock = r => \/ pc[r] \in {"scenario", "failed", "close"}
                      \/ pc[r] = "release" /\ kind[r] = "job"
       /\ r \in pending => lock = r
  /\ simRows = {}

LEMMA LockStep == TypeOK /\ LockInv /\ [Next]_vars => LockInv'
<1> SUFFICES ASSUME TypeOK, LockInv, [Next]_vars PROVE LockInv'
  OBVIOUS
<1> USE DEF TypeOK, LockInv, Goto, slot, rows, live, bounded
<1>1. ASSUME NEW r \in Run, SubmitRun(r) \/ SubmitScorecard(r) \/ SubmitJob(r)
      PROVE  LockInv'
  BY <1>1 DEF SubmitRun, SubmitScorecard, SubmitJob, Begin
<1>2. ASSUME NEW r \in Run, StartJob(r) PROVE LockInv'
  BY <1>2 DEF StartJob, Begin
<1>3. ASSUME NEW r \in Run, Look(r) \/ Reset(r) \/ Read(r) PROVE LockInv'
  BY <1>3 DEF Look, Reset, Read
<1>4. ASSUME NEW r \in Run, Clear(r) PROVE LockInv'
  BY <1>4 DEF Clear, DeleteSimulated
<1>5. ASSUME NEW r \in Run, Enter(r) \/ Evaluate(r) PROVE LockInv'
  BY <1>5 DEF Enter, Evaluate
<1>6. ASSUME NEW r \in Run, Finish(r) PROVE LockInv'
  BY <1>6 DEF Finish, DeleteSimulated, Unlock, Rollback
<1>7. ASSUME NEW r \in Run, NextSeed(r) \/ LastSeed(r) PROVE LockInv'
  BY <1>7 DEF NextSeed, LastSeed, Persist, Unlock, Begin
<1>8. ASSUME NEW r \in Run, Fail(r) PROVE LockInv'
  BY <1>8 DEF Fail, Unlock, Running
<1>9. ASSUME NEW r \in Run, Handle(r) PROVE LockInv'
  BY <1>9 DEF Handle, Rollback, Unlock
<1>10. ASSUME NEW r \in Run, Purge(r) \/ Close(r) \/ Release(r) PROVE LockInv'
  BY <1>10 DEF Purge, Close, Release, Rollback, Unlock
<1>11. ASSUME NEW l \in Live,
              LiveLoad(l) \/ LiveApprove(l) \/ LiveBlock(l) \/ LiveAudit(l)
       PROVE  LockInv'
  BY <1>11 DEF LiveLoad, LiveApprove, LiveBlock, LiveAudit
<1>12. CASE EditRules \/ Crash
  BY <1>12 DEF EditRules, Crash, Inside, Running
<1>13. CASE UNCHANGED vars
  BY <1>13 DEF vars
<1>14. QED
  BY <1>1, <1>2, <1>3, <1>4, <1>5, <1>6, <1>7, <1>8, <1>9, <1>10, <1>11, <1>12, <1>13
     DEF Next, Proceed

LEMMA LockInit == Init => LockInv
BY DEF Init, LockInv

\* No simulated row is ever committed: neither two scenarios at a time nor an error
\* between an insertion and its deletion leave one (_run_scenario, the purge).
THEOREM RowsInvisible == Spec => []SimulatedRowsInvisible
<1>1. TypeOK /\ SlotInv /\ [Next]_vars => (TypeOK /\ SlotInv)'
  BY TypeStep, SlotStep
<1>2. TypeOK /\ LockInv /\ [Next]_vars => LockInv'
  BY LockStep
<1>3. LockInv => SimulatedRowsInvisible
  BY DEF LockInv, SimulatedRowsInvisible
<1>4. QED
  BY <1>1, <1>2, <1>3, SlotInit, LockInit, PTL DEF Spec

-------------------------------------------------------------------------------
\* What a scenario has been decided under is what the table still says.
RuleInv ==
  \A r \in Run : used[r] \subseteq (IF pc[r] = "scenario" THEN {rules} ELSE {})

LEMMA RuleStep == TypeOK /\ LockInv /\ RuleInv /\ [Next]_vars => RuleInv'
<1> SUFFICES ASSUME TypeOK, LockInv, RuleInv, [Next]_vars PROVE RuleInv'
  OBVIOUS
<1> USE DEF TypeOK, RuleInv, Goto, slot, rows, live, bounded
<1>1. ASSUME NEW r \in Run, SubmitRun(r) \/ SubmitScorecard(r) \/ SubmitJob(r) \/ StartJob(r)
      PROVE  RuleInv'
  BY <1>1 DEF SubmitRun, SubmitScorecard, SubmitJob, StartJob, Begin
<1>2. ASSUME NEW r \in Run, Look(r) \/ Reset(r) \/ Clear(r) \/ Read(r) PROVE RuleInv'
  BY <1>2 DEF Look, Reset, Clear, Read
<1>3. ASSUME NEW r \in Run, Enter(r) \/ Evaluate(r) PROVE RuleInv'
  BY <1>3 DEF Enter, Evaluate
<1>4. ASSUME NEW r \in Run, Finish(r) PROVE RuleInv'
  BY <1>4 DEF Finish
<1>5. ASSUME NEW r \in Run, NextSeed(r) \/ LastSeed(r) PROVE RuleInv'
  BY <1>5 DEF NextSeed, LastSeed, Persist, Begin
<1>6. ASSUME NEW r \in Run, Fail(r) PROVE RuleInv'
  BY <1>6 DEF Fail
<1>7. ASSUME NEW r \in Run, Handle(r) \/ Purge(r) \/ Close(r) \/ Release(r) PROVE RuleInv'
  BY <1>7 DEF Handle, Purge, Close, Release
<1>8. ASSUME NEW l \in Live,
             LiveLoad(l) \/ LiveApprove(l) \/ LiveBlock(l) \/ LiveAudit(l)
      PROVE  RuleInv'
  BY <1>8 DEF LiveLoad, LiveApprove, LiveBlock, LiveAudit
<1>9. CASE EditRules
  <2>1. \A r \in Run : pc[r] # "scenario"
    BY <1>9 DEF EditRules, LockInv
  <2>2. QED
    BY <1>9, <2>1 DEF EditRules
<1>10. CASE Crash
  BY <1>10 DEF Crash, Inside, Running
<1>11. CASE UNCHANGED vars
  BY <1>11 DEF vars
<1>12. QED
  BY <1>1, <1>2, <1>3, <1>4, <1>5, <1>6, <1>7, <1>8, <1>9, <1>10, <1>11 DEF Next, Proceed

LEMMA RuleInvSuffices == RuleInv => OneRuleSet
<1> SUFFICES ASSUME RuleInv, NEW r \in Run, pc[r] = "scenario"
             PROVE  Cardinality(used[r]) <= 1
  BY DEF OneRuleSet
<1>1. used[r] = {} \/ used[r] = {rules}
  BY DEF RuleInv
<1>2. Cardinality({}) = 0
  BY FS_EmptySet
<1>3. Cardinality({rules}) = 1
  BY FS_Singleton
<1>4. QED
  BY <1>1, <1>2, <1>3

\* One scenario is decided under one set of rules, however often they are edited
\* (RulesEngine.evaluate under the write lock of _run_scenario).
THEOREM ScenarioHasOneRuleSet == Spec => []OneRuleSet
<1>1. TypeOK /\ SlotInv /\ [Next]_vars => (TypeOK /\ SlotInv)'
  BY TypeStep, SlotStep
<1>2. TypeOK /\ LockInv /\ [Next]_vars => LockInv'
  BY LockStep
<1>3. TypeOK /\ LockInv /\ RuleInv /\ [Next]_vars => RuleInv'
  BY RuleStep
<1>4. Init => RuleInv
  BY DEF Init, RuleInv
<1>5. QED
  BY <1>1, <1>2, <1>3, <1>4, RuleInvSuffices, SlotInit, LockInit, PTL DEF Spec

-------------------------------------------------------------------------------
\* From the second look on, a scorecard that nobody disturbed either has customers
\* without contacts or is about to write them.
CleanInv ==
  \A r \in Run : Gated(r) /\ r \notin disturbed =>
    /\ pc[r] = "reset2" /\ copy[r] = {} => cust = {}
    /\ pc[r] \in {"clear", "read", "enter"} => cust = {}
    /\ pc[r] \in {"enter", "scenario"} => copy[r] = {}

LEMMA CleanStep == TypeOK /\ SlotInv /\ CleanInv /\ [Next]_vars => CleanInv'
<1> SUFFICES ASSUME TypeOK, SlotInv, CleanInv, [Next]_vars PROVE CleanInv'
  OBVIOUS
<1> USE DEF TypeOK, CleanInv, Gated, Goto, slot, rows, live, bounded
<1>1. ASSUME NEW r \in Run, SubmitRun(r) \/ SubmitScorecard(r) \/ SubmitJob(r) \/ StartJob(r)
      PROVE  CleanInv'
  BY <1>1 DEF SubmitRun, SubmitScorecard, SubmitJob, StartJob, Begin
<1>2. ASSUME NEW r \in Run, Look(r) \/ Clear(r) \/ Read(r) PROVE CleanInv'
  BY <1>2 DEF Look, Clear, Read
<1>3. ASSUME NEW r \in Run, Reset(r) PROVE CleanInv'
  BY <1>3 DEF Reset, ResetOf, Expire
<1>4. ASSUME NEW r \in Run, Enter(r) \/ Evaluate(r) PROVE CleanInv'
  BY <1>4 DEF Enter, Evaluate
<1>5. ASSUME NEW r \in Run, Finish(r) PROVE CleanInv'
  <2>1. pc' = [pc EXCEPT ![r] = "persist"] /\ kind' = kind
    BY <1>5 DEF Finish
  <2>2. copy' = [copy EXCEPT ![r] = {}]
    BY <1>5 DEF Finish, Expire
  <2>3. CASE Gated(r)
    <3>1. disturbed' = disturbed \ {r}
      BY <1>5, <2>3 DEF Finish
    <3>2. ASSUME NEW q \in Run, q # r, Gated(q)
          PROVE  pc[q] \notin {"reset2", "clear", "read", "enter", "scenario"}
      BY <1>5, <2>3, <3>2 DEF Finish, SlotInv, SlotConserved, Holders, Inside, Running
    <3>3. QED
      BY <2>1, <2>2, <3>1, <3>2
  <2>4. CASE ~Gated(r)
    <3>1. disturbed' = (disturbed \cup Exposed) \ {r}
      BY <1>5, <2>4 DEF Finish
    <3>2. QED
      BY <2>1, <2>2, <2>4, <3>1 DEF Exposed
  <2>5. QED
    BY <2>3, <2>4
<1>6. ASSUME NEW r \in Run, NextSeed(r) \/ LastSeed(r) PROVE CleanInv'
  BY <1>6 DEF NextSeed, LastSeed, Persist, Begin
<1>7. ASSUME NEW r \in Run, Fail(r) PROVE CleanInv'
  BY <1>7 DEF Fail, Expire
<1>8. ASSUME NEW r \in Run, Handle(r) \/ Purge(r) \/ Close(r) \/ Release(r) PROVE CleanInv'
  BY <1>8 DEF Handle, Purge, Close, Release, Rollback
<1>9. ASSUME NEW l \in Live,
             LiveLoad(l) \/ LiveApprove(l) \/ LiveBlock(l) \/ LiveAudit(l)
      PROVE  CleanInv'
  BY <1>9 DEF LiveLoad, LiveApprove, LiveBlock, LiveAudit, Exposed
<1>10. CASE EditRules \/ Crash
  BY <1>10 DEF EditRules, Crash, Inside, Running
<1>11. CASE UNCHANGED vars
  BY <1>11 DEF vars
<1>12. QED
  BY <1>1, <1>2, <1>3, <1>4, <1>5, <1>6, <1>7, <1>8, <1>9, <1>10, <1>11 DEF Next, Proceed

\* A scorecard's coordinated scenario starts from customers without contacts unless
\* a live decision or POST /run wrote them (_ensure_customers_in_db).
THEOREM ScorecardStartsClean == Spec => []StartsClean
<1>1. TypeOK /\ SlotInv /\ [Next]_vars => (TypeOK /\ SlotInv)'
  BY TypeStep, SlotStep
<1>2. TypeOK /\ SlotInv /\ CleanInv /\ [Next]_vars => CleanInv'
  BY CleanStep
<1>3. Init => CleanInv
  BY DEF Init, CleanInv
<1>4. CleanInv => StartsClean
  BY DEF CleanInv, StartsClean
<1>5. QED
  BY <1>1, <1>2, <1>3, <1>4, SlotInit, PTL DEF Spec

-------------------------------------------------------------------------------
\* No step of a simulation deletes a live decision or the audit entry of one
\* (_clear_simulation_state, _purge_simulation_rows).
THEOREM LiveRowsStay == Spec => LiveRowsSurvive
<1> DEFINE Survive == decided \subseteq decided' /\ decided \cap audited \subseteq audited'
<1>1. ASSUME [Next]_vars PROVE Survive
  <2> USE DEF rows
  <2>1. ASSUME NEW r \in Run,
               SubmitRun(r) \/ SubmitScorecard(r) \/ SubmitJob(r) \/ StartJob(r)
                 \/ Look(r) \/ Reset(r) \/ Read(r)
        PROVE  Survive
    BY <2>1 DEF SubmitRun, SubmitScorecard, SubmitJob, StartJob, Look, Reset, Read
  <2>2. ASSUME NEW r \in Run, Clear(r) \/ Enter(r) \/ Evaluate(r) \/ Finish(r)
        PROVE  Survive
    BY <2>2 DEF Clear, Enter, Evaluate, Finish, DeleteSimulated, Rollback
  <2>3. ASSUME NEW r \in Run,
               NextSeed(r) \/ LastSeed(r) \/ Fail(r) \/ Handle(r) \/ Purge(r)
                 \/ Release(r) \/ Close(r)
        PROVE  Survive
    BY <2>3 DEF NextSeed, LastSeed, Persist, Fail, Handle, Purge, Release, Close, Rollback
  <2>4. ASSUME NEW l \in Live,
               LiveLoad(l) \/ LiveApprove(l) \/ LiveBlock(l) \/ LiveAudit(l)
        PROVE  Survive
    BY <2>4 DEF LiveLoad, LiveApprove, LiveBlock, LiveAudit
  <2>5. CASE EditRules \/ Crash
    BY <2>5 DEF EditRules, Crash
  <2>6. CASE UNCHANGED vars
    BY <2>6 DEF vars
  <2>7. QED
    BY <1>1, <2>1, <2>2, <2>3, <2>4, <2>5, <2>6 DEF Next, Proceed
<1>2. Spec => [][Next]_vars
  BY DEF Spec
<1>3. QED
  BY <1>1, <1>2, PTL DEF LiveRowsSurvive

===============================================================================
