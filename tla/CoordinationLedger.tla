-------------------------- MODULE CoordinationLedger --------------------------
(***************************************************************************)
(* Coordination against the abstract ContactLedger: with one session at a  *)
(* time (the webhook handler on the event loop, the worker thread alone)   *)
(* the engine implements the ledger and the customer row is an exact       *)
(* summary of it; with overlapping sessions and simulation runs only the   *)
(* one-sided relations below are left.                                     *)
(***************************************************************************)
EXTENDS Coordination

\* What the default rules of the merchant say; a run's Rules hold them, unscoped.
CONSTANTS CooldownHours, MaxContacts, WindowHours, MaxDiscount

\* The default rules are there, for every agent and channel.
HasDefaultRules ==
  /\ CooldownHours \in Nat /\ MaxContacts \in Int /\ WindowHours \in Int
  /\ MaxDiscount \in Nat
  /\ \E rule \in Rules : /\ Unscoped(rule) /\ rule.kind = "cooldown"
                         /\ rule.config.cooldown_hours = CooldownHours
  /\ \E rule \in Rules : /\ Unscoped(rule) /\ rule.kind = "frequency_cap"
                         /\ rule.config.max_contacts = MaxContacts
                         /\ rule.config.window_hours = WindowHours
  /\ \E rule \in Rules : /\ Unscoped(rule) /\ rule.kind = "budget_limit"
                         /\ rule.config.max_discount = MaxDiscount

\* One session at a time, no resumed tickets, no dates from clients, no simulation
\* beside it, and a clock past the simulated month.
OneSession ==
  /\ Slots = 1 /\ "hitl" \notin Origins
  /\ ClientDates = {} /\ Visit = {} /\ SimulationEnd <= Start

ContactsMade ==
  [c \in Customer |->
     {[id |-> r, at |-> act[r].at, discount |-> act[r].discount] : r \in Approved(c)}]

Ledger == INSTANCE ContactLedger WITH
  Client <- Customer, Gap <- CooldownHours * Hour,
  Cap <- MaxContacts, Window <- WindowHours * Hour, Budget <- MaxDiscount,
  time <- now, made <- ContactsMade

\* Every history of the engine is one of the ledger: each approval is a contact
\* that the rules allow on all contacts made before, the rest are stutters.
ImplementsLedger == Ledger!LedgerSpec

\* The customer row is the summary of the contacts made: their number, the sum
\* of their discounts and the latest of their times.
RowSummarisesLedger ==
  \A c \in Customer :
    /\ row[c].contacts = Cardinality(Approved(c))
    /\ row[c].exposure = Ledger!Granted(c)
    /\ row[c].last \in {act[r].at : r \in Approved(c)} \cup {Never}
    /\ \A r \in Approved(c) : act[r].at <= row[c].last

\* With overlapping sessions updates are lost, but only in one direction: the row
\* never shows more contacts or more exposure than were granted to the customer
\* and left in its row by simulations, though a session that read a reset row and
\* one that read it before may write over each other.
RowNeverOvercounts ==
  \A c \in Customer :
    /\ row[c].contacts <= Cardinality(Approved(c)) + simulated[c].contacts
    /\ row[c].exposure <= Ledger!Granted(c) + simulated[c].exposure

\* "Minimum 4h gap between contacts" (main.py), on the contacts made.
CooldownHolds ==
  \A c \in Customer : \A r, s \in Approved(c) :
    r # s => \/ act[r].at - act[s].at >= CooldownHours * Hour
             \/ act[s].at - act[r].at >= CooldownHours * Hour

\* "Max 2 contacts per customer in 24h window" (main.py), on the contacts made,
\* whoever asked for them.
FrequencyCapHolds ==
  \A c \in Customer : \A r \in Approved(c) :
    Cardinality({s \in Approved(c) : /\ act[s].at <= act[r].at
                                     /\ act[r].at - act[s].at <= WindowHours * Hour})
      <= MaxContacts

\* "Cumulative discount exposure per customer" (main.py), on the discounts of
\* the contacts made.
BudgetHolds ==
  \A c \in Customer : Ledger!Granted(c) <= MaxDiscount

\* "Every decision writes AuditEntry" (README.md): no decision is left without
\* one by a request that is over.
EveryDecisionAudited ==
  \A r \in Decided : pc[r] \in {"done", "dead"} => r \in audited
===============================================================================
