---------------------------- MODULE MCCoordination ----------------------------
(* Constants for model checking Coordination. *)
EXTENDS CoordinationLedger, TLC

Rule(id, kind, priority, config) ==
  [id |-> id, kind |-> kind, active |-> TRUE, priority |-> priority,
   agents |-> {}, channels |-> {}, config |-> config]

MCProposal(agent, discount, amount) ==
  [agent |-> agent, type |-> "webhook_payment.failed", channel |-> "sms",
   discount |-> discount, amount |-> amount]

MCCapRules ==
  {Rule("freq", "frequency_cap", 10,
        [max_contacts |-> MaxContacts, window_hours |-> WindowHours]),
   Rule("budget", "budget_limit", 7, [max_discount |-> MaxDiscount]),
   Rule("esc", "escalation_ceiling", 6, [max_escalations |-> 3, window_hours |-> 168]),
   Rule("order", "channel_priority", 6, [prefer |-> "sms"]),
   [Rule("off", "frequency_cap", 5, [max_contacts |-> 0, window_hours |-> 24])
      EXCEPT !.active = FALSE]}

\* The five default rules; 21:00 IST falls inside the horizon of the serial run.
MCDefaultRules ==
  MCCapRules \cup
  {Rule("cooldown", "cooldown", 9, [cooldown_hours |-> CooldownHours]),
   Rule("hours", "time_window", 8, [start_hour |-> 9, end_hour |-> 21])}

\* Two agents that offer a discount or none, and one action above the ceiling.
MCProposals ==
  {MCProposal("autopay_retry", 100, 500), MCProposal("invoice_dunning", 0, 500),
   MCProposal("payment_link_recovery", 60, 2500)}

\* All three may be granted, in any order, and nothing more.
MCRaceProposals ==
  {MCProposal("autopay_retry", 100, 500), MCProposal("invoice_dunning", 0, 500),
   MCProposal("payment_link_recovery", 50, 500)}

MCRisk == [c \in Customer |-> 10]

\* A client two ticks to the east of UTC.
MCClientDates == {[at |-> Start + Step, wall |-> Start + 3 * Step]}
NoDates == {}

\* One visit of a simulation: a scenario that approves an offer of 60 rupees.
MCVisitTo == [v \in Visit |-> CHOOSE c \in Customer : TRUE]
MCSimulated == {[last |-> 30, contacts |-> 1, discount |-> 60]}

\* The runs with one session meet the hypotheses of the theorems about one session.
ASSUME SerialRuns == Slots = 1 => OneSession /\ HasDefaultRules

\* Three agents propose; or one proposes twice, once perhaps by a resumed ticket, and
\* another offers nothing.
RaceInit ==
  /\ Init
  /\ LET resumed == {r \in Request : act[r].origin = "hitl"}
         Offers(d) == {r \in Request : act[r].discount = d}
     IN \/ resumed = {} /\ Cardinality({act[r].agent : r \in Request}) = 3
        \/ /\ Cardinality(Offers(100)) = 2 /\ Cardinality(Offers(0)) = 1
           /\ resumed \subseteq Offers(100) /\ Cardinality(resumed) <= 1

RaceSpec == RaceInit /\ [][Next]_vars

Symmetry == Permutations(Request)
===============================================================================
