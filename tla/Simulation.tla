------------------------------ MODULE Simulation -------------------------------
(***************************************************************************)
(* Simulation runs beside live traffic: api/simulation.py (the endpoints,  *)
(* the single-run semaphore, the job table, the purge) and                 *)
(* simulation/engine.py (SimulationEngine.run).                            *)
(*                                                                         *)
(* A run goes through its seeds. Per seed it resets the customers, plays   *)
(* the uncoordinated scenario in memory, resets them again, clears what    *)
(* simulations left, plays the coordinated scenario through the rules      *)
(* engine, clears again and records the result. A session takes SQLite's   *)
(* write lock with its first flush and keeps it until it commits or rolls  *)
(* back: the coordinated scenario, with the clearing that ends it, is one  *)
(* transaction. A SELECT takes no lock, an object is read once for each    *)
(* transaction, and an UPDATE writes only the columns that differ from the *)
(* object as it was read.                                                  *)
(*                                                                         *)
(* All seeds here share one customer, whom live decisions contact as well  *)
(* (cust_42_... is seeded for both). Not modelled: the random customers    *)
(* and actions, the statistics, and POST /seed, which fills in missing     *)
(* customers and blank names.                                              *)
(***************************************************************************)
EXTENDS Integers, FiniteSets

CONSTANTS
  Run,       \* identities of requests for a simulation
  NoRun,
  Live,      \* identities of live decisions and of HITL settlements
  MaxEdits,  \* how often an administrator changes the rules
  MaxFaults, \* how often a run meets an error
  MaxCrashes \* how often the process is killed

ASSUME SimulationAssumption ==
  /\ NoRun \notin Run /\ Run \cap Live = {}
  /\ MaxEdits \in Nat /\ MaxFaults \in Nat /\ MaxCrashes \in Nat

VARIABLES
  kind,     \* of each request: "run", "scorecard" or "job"
  pc,       \* where it is
  job,      \* _scorecard_jobs: the status of each job
  permits,  \* of _simulation_semaphore
  lock,     \* the run that holds the write lock for more than a step
  pending,  \* runs whose transaction holds simulated rows
  simRows,  \* runs with simulated rows that are committed
  copy,     \* the customer as each run's session holds it
  used,     \* rule sets under which the scenario has decided so far
  cust,     \* the customer row: the contacts it shows
  rules,    \* the business_rules table, by its version
  lpc, held, decided, audited,
            \* live decisions: where each is, the customer as its session holds
            \* it, its decision row, its audit row
  disturbed,\* runs whose reset a live decision or POST /run may have undone
  faults, crashes

slot == <<kind, permits, job>>
rows == <<pending, simRows, decided, audited>>
live == <<lpc, held>>
bounded == <<rules, faults, crashes>>
vars == <<slot, pc, lock, rows, copy, used, cust, live, disturbed, bounded>>

Gated(r) == kind[r] \in {"scorecard", "job"}

\* SimulationEngine.run
Running == {"look1", "reset1", "look2", "reset2", "clear", "read", "enter",
            "scenario", "persist"}

\* from the acquisition of the semaphore to its release
Inside == Running \cup {"failed", "purge", "release"}

Holders == {r \in Run : Gated(r) /\ pc[r] \in Inside}

\* Between the second look at the customers and the scenario.
Exposed == {r \in Run : pc[r] \in {"reset2", "clear", "read", "enter"}}

-------------------------------------------------------------------------------
Init ==
  /\ kind = [r \in Run |-> "none"] /\ pc = [r \in Run |-> "idle"]
  /\ job = [r \in Run |-> "none"]
  /\ permits = 1 /\ lock = NoRun
  /\ pending = {} /\ simRows = {} /\ decided = {} /\ audited = {}
  /\ copy = [r \in Run |-> {}] /\ used = [r \in Run |-> {}]
  /\ cust = {} /\ rules = 0
  /\ lpc = [l \in Live |-> "idle"] /\ held = [l \in Live |-> {}]
  /\ disturbed = {} /\ faults = 0 /\ crashes = 0

Goto(r, where) == pc' = [pc EXCEPT ![r] = where]

Fault == faults < MaxFaults /\ faults' = faults + 1

\* A transaction that is one step here can commit.
Writable(r) == lock \in {NoRun, r}

Unlock(r) == lock' = IF lock = r THEN NoRun ELSE lock

\* A commit and a rollback expire the session's objects.
Expire(r) == copy' = [copy EXCEPT ![r] = {}]

-------------------------------------------------------------------------------
(* The endpoints *)

\* Seeded bug: the semaphore is looked at and not taken.
AcquireUnheld == permits = 1 /\ UNCHANGED permits

\* _simulation_semaphore.acquire(blocking=False)
Acquire == permits = 1 /\ permits' = permits - 1

Begin(r) == Goto(r, "look1")

\* POST /run takes no semaphore.
SubmitRun(r) ==
  /\ pc[r] = "idle"
  /\ kind' = [kind EXCEPT ![r] = "run"]
  /\ Begin(r)
  /\ UNCHANGED <<permits, job, lock, rows, copy, used, cust, live, disturbed, bounded>>

\* Seeded bug: the refusal is raised inside the try whose finally releases.
SubmitInTry(r) ==
  /\ pc[r] = "idle"
  /\ kind' = [kind EXCEPT ![r] = "scorecard"]
  /\ \/ Acquire /\ Begin(r)
     \/ permits = 0 /\ Goto(r, "refused") /\ permits' = permits + 1
  /\ UNCHANGED <<job, lock, rows, copy, used, cust, live, disturbed, bounded>>

\* POST /scorecard answers 429 when the semaphore is taken.
SubmitScorecard(r) ==
  /\ pc[r] = "idle"
  /\ kind' = [kind EXCEPT ![r] = "scorecard"]
  /\ \/ Acquire /\ Begin(r)
     \/ permits = 0 /\ Goto(r, "refused") /\ UNCHANGED permits
  /\ UNCHANGED <<job, lock, rows, copy, used, cust, live, disturbed, bounded>>

\* POST /scorecard/async registers the job and starts its thread,
SubmitJob(r) ==
  /\ pc[r] = "idle"
  /\ kind' = [kind EXCEPT ![r] = "job"]
  /\ job' = [job EXCEPT ![r] = "queued"]
  /\ Goto(r, "queued")
  /\ UNCHANGED <<permits, lock, rows, copy, used, cust, live, disturbed, bounded>>

\* Seeded bug: a job that meets another run just returns.
RejectSilently(r) == UNCHANGED job

Reject(r) == job' = [job EXCEPT ![r] = "failed"]

\* which gives up when the semaphore is taken.
StartJob(r) ==
  /\ pc[r] = "queued"
  /\ \/ Acquire /\ Begin(r) /\ job' = [job EXCEPT ![r] = "running"]
     \/ permits = 0 /\ Goto(r, "refused") /\ Reject(r) /\ UNCHANGED permits
  /\ UNCHANGED <<kind, lock, rows, copy, used, cust, live, disturbed, bounded>>

-------------------------------------------------------------------------------
(* SimulationEngine.run *)

\* _ensure_customers_in_db SELECTs the customers. The second time it follows
\* get_rules_snapshot and the uncoordinated scenario, which write nothing.
Look(r) ==
  /\ pc[r] \in {"look1", "look2"}
  /\ copy' = [copy EXCEPT ![r] = cust]
  /\ disturbed' = disturbed \ {r}
  /\ Goto(r, IF pc[r] = "look1" THEN "reset1" ELSE "reset2")
  /\ UNCHANGED <<slot, lock, rows, used, cust, live, bounded>>

\* Seeded bug: a customer that exists is left as it is.
ResetNone(r) == cust

\* Counters that were zero when they were read are not written.
ResetOf(r) == IF copy[r] = {} THEN cust ELSE {}

\* It flushes and commits the reset customers.
Reset(r) ==
  /\ pc[r] \in {"reset1", "reset2"}
  /\ Writable(r)
  /\ cust' = ResetOf(r)
  /\ Expire(r)
  /\ Goto(r, IF pc[r] = "reset1" THEN "look2" ELSE "clear")
  /\ UNCHANGED <<slot, lock, rows, used, live, disturbed, bounded>>

\* Seeded bug: rows are deleted by their customer, as they once were.
DeleteByCustomer ==
  /\ simRows' = {} /\ decided' = {} /\ audited' = {}

\* The DELETEs: every simulated row, whoever wrote it, and every audit entry
\* without a decision, which those of HITL settlements are.
DeleteSimulated ==
  /\ simRows' = {}
  /\ audited' = audited \cap decided
  /\ UNCHANGED decided

\* _clear_simulation_state before the scenario. Its errors are swallowed.
Clear(r) ==
  /\ pc[r] = "clear"
  /\ \/ Writable(r) /\ DeleteSimulated /\ UNCHANGED <<pending, faults>>
     \/ Fault /\ UNCHANGED rows
  /\ Goto(r, "read")
  /\ UNCHANGED <<slot, lock, copy, used, cust, live, disturbed, rules, crashes>>

\* The coordinated scenario reads its first customer without the lock,
Read(r) ==
  /\ pc[r] = "read"
  /\ copy' = [copy EXCEPT ![r] = cust]
  /\ Goto(r, "enter")
  /\ UNCHANGED <<slot, lock, rows, used, cust, live, disturbed, bounded>>

\* takes it with its first INSERT, and reads the other customers under it.
Enter(r) ==
  /\ pc[r] = "enter"
  /\ lock = NoRun /\ lock' = r
  /\ pending' = pending \cup {r}
  /\ \/ UNCHANGED copy
     \/ copy' = [copy EXCEPT ![r] = cust]
  /\ Goto(r, "scenario")
  /\ UNCHANGED <<slot, simRows, decided, audited, used, cust, live, disturbed, bounded>>

\* Seeded bug: each decision is committed, which gives the lock away.
EvaluateAndCommit(r) ==
  /\ pc[r] = "scenario"
  /\ used' = [used EXCEPT ![r] = @ \cup {rules}]
  /\ Unlock(r)
  /\ UNCHANGED <<slot, pc, rows, copy, cust, live, disturbed, bounded>>

\* RulesEngine.evaluate for the next action.
Evaluate(r) ==
  /\ pc[r] = "scenario"
  /\ used' = [used EXCEPT ![r] = @ \cup {rules}]
  /\ UNCHANGED <<slot, pc, lock, rows, copy, cust, live, disturbed, bounded>>

\* Seeded bug: the transaction stays open when the clearing fails.
KeepTransaction(r) == UNCHANGED <<lock, rows, cust>>

Rollback(r) ==
  /\ Unlock(r)
  /\ pending' = pending \ {r}
  /\ UNCHANGED <<simRows, decided, audited, cust>>

\* The second _clear_simulation_state commits the scenario without its rows: what
\* stays are the contacts of its approvals, over the customer as it was read.
Finish(r) ==
  /\ pc[r] = "scenario"
  /\ \/ /\ DeleteSimulated /\ pending' = pending \ {r} /\ Unlock(r)
        /\ cust' \in {cust, copy[r] \cup {r}}
        /\ UNCHANGED faults
     \/ Fault /\ Rollback(r)
  /\ disturbed' = (IF Gated(r) THEN disturbed ELSE disturbed \cup Exposed) \ {r}
  /\ Expire(r) /\ used' = [used EXCEPT ![r] = {}]
  /\ Goto(r, "persist")
  /\ UNCHANGED <<slot, live, rules, crashes>>

\* The SimulationRun rows are committed.
Persist(r) ==
  /\ pc[r] = "persist"
  /\ Writable(r) /\ Unlock(r)
  /\ simRows' = simRows \cup (pending \cap {r}) /\ pending' = pending \ {r}
  /\ UNCHANGED <<kind, permits, decided, audited, copy, used, cust, live, disturbed, bounded>>

\* The next seed.
NextSeed(r) == Persist(r) /\ Begin(r) /\ UNCHANGED job

\* The seeds are done; a job is completed.
LastSeed(r) ==
  /\ Persist(r)
  /\ Goto(r, IF Gated(r) THEN "release" ELSE "done")
  /\ job' = IF kind[r] = "job" THEN [job EXCEPT ![r] = "completed"] ELSE job

-------------------------------------------------------------------------------
(* Errors *)

\* A statement fails, which rolls the transaction back, or something else raises
\* (a rule whose config an administrator broke), which leaves it open.
Fail(r) ==
  /\ pc[r] \in Running
  /\ Fault
  /\ \/ Unlock(r) /\ pending' = pending \ {r}
     \/ UNCHANGED <<lock, pending>>
  /\ Goto(r, "failed")
  /\ Expire(r) /\ used' = [used EXCEPT ![r] = {}]
  /\ disturbed' = disturbed \ {r}
  /\ UNCHANGED <<slot, simRows, decided, audited, cust, live, rules, crashes>>

\* /scorecard rolls back and purges; a job notes its failure; /run leaves it all
\* to get_db.
Handle(r) ==
  /\ pc[r] = "failed"
  /\ \/ kind[r] = "scorecard" /\ Rollback(r) /\ Goto(r, "purge") /\ UNCHANGED job
     \/ /\ kind[r] = "job" /\ job' = [job EXCEPT ![r] = "failed"]
        /\ Goto(r, "release") /\ UNCHANGED <<lock, rows, cust>>
     \/ /\ kind[r] = "run" /\ Goto(r, "close")
        /\ UNCHANGED <<job, lock, rows, cust>>
  /\ UNCHANGED <<kind, permits, copy, used, live, disturbed, bounded>>

\* _purge_simulation_rows, in a session of its own, gives up on a locked database.
Purge(r) ==
  /\ pc[r] = "purge"
  /\ \/ lock = NoRun /\ simRows' = {}
     \/ lock # NoRun /\ UNCHANGED simRows
  /\ Goto(r, "release")
  /\ UNCHANGED <<slot, lock, pending, decided, audited, copy, used, cust,
                 live, disturbed, bounded>>

\* Seeded bug: a failed job does not reach its release.
ReleaseCompleted(r) ==
  permits' = IF job[r] = "failed" THEN permits ELSE permits + 1

GiveBack(r) == permits' = permits + 1

\* The finally clauses: the semaphore is released before the job's session closes.
Release(r) ==
  /\ pc[r] = "release"
  /\ GiveBack(r)
  /\ Goto(r, IF kind[r] = "job" THEN "close" ELSE "done")
  /\ UNCHANGED <<kind, job, lock, rows, copy, used, cust, live, disturbed, bounded>>

Close(r) ==
  /\ pc[r] = "close"
  /\ Rollback(r)
  /\ Goto(r, "done")
  /\ UNCHANGED <<slot, copy, used, live, disturbed, bounded>>

-------------------------------------------------------------------------------
(* Live traffic and administration, as far as they meet simulations *)

\* A live session reads the customer,
LiveLoad(l) ==
  /\ lpc[l] = "idle"
  /\ lpc' = [lpc EXCEPT ![l] = "loaded"]
  /\ held' = [held EXCEPT ![l] = cust]
  /\ UNCHANGED <<slot, pc, lock, rows, copy, used, cust, disturbed, bounded>>

\* and approves the action: decision, customer and audit entry in one commit,
LiveApprove(l) ==
  /\ lpc[l] = "loaded" /\ lock = NoRun
  /\ lpc' = [lpc EXCEPT ![l] = "done"]
  /\ cust' = held[l] \cup {l} /\ held' = [held EXCEPT ![l] = {}]
  /\ disturbed' = disturbed \cup Exposed
  /\ decided' = decided \cup {l} /\ audited' = audited \cup {l}
  /\ UNCHANGED <<slot, pc, lock, pending, simRows, copy, used, bounded>>

\* or blocks it, and audits that in a later commit.
LiveBlock(l) ==
  /\ lpc[l] = "loaded" /\ lock = NoRun
  /\ lpc' = [lpc EXCEPT ![l] = "blocked"] /\ held' = [held EXCEPT ![l] = {}]
  /\ decided' = decided \cup {l}
  /\ UNCHANGED <<slot, pc, lock, pending, simRows, audited, copy, used,
                 cust, disturbed, bounded>>

\* The audit entry of a blocked decision, or of a HITL ticket, whose decision_id
\* names no decision.
LiveAudit(l) ==
  /\ lpc[l] \in {"idle", "blocked"} /\ lock = NoRun
  /\ lpc' = [lpc EXCEPT ![l] = "done"]
  /\ audited' = audited \cup {l}
  /\ UNCHANGED <<slot, pc, lock, pending, simRows, decided, copy, used,
                 cust, held, disturbed, bounded>>

\* A rule is created, updated, toggled or deleted.
EditRules ==
  /\ rules < MaxEdits /\ lock = NoRun
  /\ rules' = rules + 1
  /\ UNCHANGED <<slot, pc, lock, rows, copy, used, cust, live, disturbed,
                 faults, crashes>>

\* The process is killed: jobs, semaphore and transactions are gone.
Crash ==
  /\ crashes < MaxCrashes /\ crashes' = crashes + 1
  /\ pc' = [r \in Run |-> IF pc[r] \in Inside \cup {"queued", "close"}
                          THEN "dead" ELSE pc[r]]
  /\ lpc' = [l \in Live |-> IF lpc[l] \in {"loaded", "blocked"} THEN "done" ELSE lpc[l]]
  /\ job' = [r \in Run |-> "none"]
  /\ permits' = 1 /\ lock' = NoRun /\ pending' = {} /\ disturbed' = {}
  /\ held' = [l \in Live |-> {}]
  /\ copy' = [r \in Run |-> {}] /\ used' = [r \in Run |-> {}]
  /\ UNCHANGED <<kind, simRows, decided, audited, cust, rules, faults>>

Proceed(r) ==
  \/ StartJob(r) \/ Look(r) \/ Reset(r) \/ Clear(r) \/ Read(r) \/ Enter(r)
  \/ Evaluate(r) \/ Finish(r) \/ NextSeed(r) \/ LastSeed(r) \/ Fail(r)
  \/ Handle(r) \/ Purge(r) \/ Release(r) \/ Close(r)

Next ==
  \/ \E r \in Run : SubmitRun(r) \/ SubmitScorecard(r) \/ SubmitJob(r) \/ Proceed(r)
  \/ \E l \in Live : LiveLoad(l) \/ LiveApprove(l) \/ LiveBlock(l) \/ LiveAudit(l)
  \/ EditRules \/ Crash

Spec == Init /\ [][Next]_vars

\* A thread that has begun goes on: nothing it waits for is without a timeout. The
\* list of seeds is finite: a run that persists again and again comes to its last.
FairSpec ==
  Spec /\ \A r \in Run : WF_vars(Proceed(r)) /\ SF_vars(LastSeed(r))

-------------------------------------------------------------------------------
Kinds == {"none", "run", "scorecard", "job"}
Phases == Inside \cup {"idle", "queued", "close", "done", "refused", "dead"}

\* The shape of runs, rows and sessions.
TypeOK ==
  /\ kind \in [Run -> Kinds] /\ pc \in [Run -> Phases]
  /\ job \in [Run -> {"none", "queued", "running", "completed", "failed"}]
  /\ permits \in 0..1 /\ lock \in Run \cup {NoRun}
  /\ pending \subseteq Run /\ simRows \subseteq Run
  /\ copy \in [Run -> SUBSET (Run \cup Live)]
  /\ used \in [Run -> SUBSET Nat]
  /\ cust \subseteq Run \cup Live /\ rules \in Nat
  /\ lpc \in [Live -> {"idle", "loaded", "blocked", "done"}]
  /\ held \in [Live -> SUBSET (Run \cup Live)]
  /\ decided \subseteq Live /\ audited \subseteq Live
  /\ disturbed \subseteq Run /\ faults \in Nat /\ crashes \in Nat

\* Scorecards and jobs run one at a time, and the slot is neither lost nor given
\* back twice, whichever way they end ("only 1 simulation at a time").
SlotConserved ==
  \/ permits = 1 /\ Holders = {}
  \/ permits = 0 /\ \E r \in Run : Holders = {r}

\* Nobody ever reads a simulated decision of somebody else: they are inserted and
\* deleted in one transaction, whatever fails in between and though POST /run takes
\* no semaphore (_run_scenario, _clear_simulation_state).
SimulatedRowsInvisible == simRows = {}

\* The coordinated scenario of a scorecard starts from customers without contacts,
\* unless a live decision or POST /run wrote them during this round: no result
\* depends on an earlier or a simultaneous scorecard.
StartsClean ==
  \A r \in Run : Gated(r) /\ pc[r] \in {"enter", "scenario"} /\ r \notin disturbed
                   => copy[r] = {}

\* All actions of a scenario are decided under one set of rules, although they are
\* read again for each and anybody may edit them meanwhile (RulesEngine.evaluate
\* under the write lock).
OneRuleSet ==
  \A r \in Run : pc[r] = "scenario" => Cardinality(used[r]) <= 1

\* "Never touches live/fallback decisions": a live decision stays, and so does its
\* audit entry, whatever is cleared, purged, or fails in between. (The entries of
\* HITL settlements, which name no decision, do not stay.)
LiveRowsSurvive ==
  [][/\ decided \subseteq decided'
     /\ decided \cap audited \subseteq audited']_vars

\* When no more requests come, every job ends as completed or failed, if the
\* process is not killed, and the slot is free again: nobody polls, or is refused,
\* for ever (_run_scorecard_async_job's except and finally).
JobsSettle ==
  []<>(permits = 1 /\ \A r \in Run : job[r] \notin {"queued", "running"})

===============================================================================
