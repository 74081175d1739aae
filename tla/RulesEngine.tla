----------------------------- MODULE RulesEngine -----------------------------
(***************************************************************************)
(* The soft policy of backend/app/engine/rules.py as pure operators:       *)
(* RulesEngine.evaluate over the active BusinessRule rows, in descending   *)
(* priority, the first rule that blocks deciding.                          *)
(*                                                                         *)
(* Times are minutes since a midnight UTC; money is in rupees.             *)
(*   a         the AgentAction: [cust, agent, type, channel, discount, at, *)
(*             wall], proposed at the instant "at", which its client may   *)
(*             have given as the wall clock "wall" of another time zone.   *)
(*             SQLite stores the wall clock without the zone, and whoever  *)
(*             reads it back takes it for UTC                              *)
(*   seen      the CustomerContext object the session holds:               *)
(*             [last, contacts, exposure, risk], "last" as it was stored   *)
(*   history   the customer's approved decisions joined with their         *)
(*             actions, a set of [id, at, source], "at" as it was stored   *)
(*   rule      a BusinessRule row: [id, kind, active, priority, agents,    *)
(*             channels, config], config being the decoded rule_config     *)
(***************************************************************************)
EXTENDS Integers, FiniteSets

CONSTANT SimulationEnd   \* the first minute that is not in January 2026

ASSUME SimulationEndAssumption == SimulationEnd \in Nat

Hour  == 60
Never == -1              \* customer_context.last_contact_at IS NULL

\* A proposal dated January 2026, in its own time zone, is taken for a simulated
\* one, and then only simulated decisions count; any other counts live and
\* fallback decisions.
CountedSources(wall) ==
  IF wall < SimulationEnd THEN {"simulation"} ELSE {"live", "fallback"}

Counted(history, wall) == {h \in history : h.source \in CountedSources(wall)}

\* Seeded bug: a window that leaves out its first instant and counts one
\* source only.
InWindowFallbackOnly(history, a, hours) ==
  {h \in history : h.source = "fallback" /\ a.at - hours * Hour < h.at /\ h.at <= a.at}

\* The contacts a windowed rule counts: window_start <= p <= now.
InWindow(history, a, hours) ==
  {h \in Counted(history, a.wall) : a.at - hours * Hour <= h.at /\ h.at <= a.at}

FrequencyCapBlocks(config, a, history) ==
  Cardinality(InWindow(history, a, config.window_hours)) >= config.max_contacts

EscalationCeilingBlocks(config, a, history) ==
  Cardinality(InWindow(history, a, config.window_hours)) >= config.max_escalations

\* Time since customer.last_contact_at or, when that column is empty, since
\* the latest counted decision (some counted decision is closer than the
\* cooldown exactly when the latest one is).
CooldownBlocks(config, a, seen, history) ==
  IF seen.last # Never
    THEN a.at - seen.last < config.cooldown_hours * Hour
    ELSE \E h \in Counted(history, a.wall) : a.at - h.at < config.cooldown_hours * Hour

\* Minute of the day in Asia/Kolkata, UTC+05:30 without daylight saving.
ISTMinute(t) == (t + 330) % (24 * Hour)

\* An overnight window (start_hour > end_hour) is empty: it always blocks.
TimeWindowBlocks(config, t) ==
  ~ ( /\ config.start_hour * Hour <= ISTMinute(t)
      /\ ISTMinute(t) < config.end_hour * Hour )

\* Seeded bug: the offer itself is left out of the sum.
BudgetLimitIgnoresOffer(config, a, seen) == seen.exposure > config.max_discount

BudgetLimitBlocks(config, a, seen) ==
  seen.exposure + a.discount > config.max_discount

\* _evaluate_single: channel_priority and unknown rule types never block.
RuleBlocks(rule, a, seen, history) ==
  \/ rule.kind = "frequency_cap" /\ FrequencyCapBlocks(rule.config, a, history)
  \/ rule.kind = "cooldown" /\ CooldownBlocks(rule.config, a, seen, history)
  \/ rule.kind = "time_window" /\ TimeWindowBlocks(rule.config, a.at)
  \/ rule.kind = "budget_limit" /\ BudgetLimitBlocks(rule.config, a, seen)
  \/ rule.kind = "escalation_ceiling"
     /\ EscalationCeilingBlocks(rule.config, a, history)

\* is_active, applies_to_agents and applies_to_channels; an empty scope is
\* every agent or channel.
Applies(rule, a) ==
  /\ rule.active
  /\ rule.agents = {} \/ a.agent \in rule.agents
  /\ rule.channels = {} \/ a.channel \in rule.channels

\* The rules that would block, of which evaluate() reports the first in
\* descending priority; rows of equal priority come in no fixed order.
Blocking(rules, a, seen, history) ==
  {rule \in rules : Applies(rule, a) /\ RuleBlocks(rule, a, seen, history)}

FirstBlocking(rules, a, seen, history) ==
  {rule \in Blocking(rules, a, seen, history) :
     \A other \in Blocking(rules, a, seen, history) :
       other.priority <= rule.priority}
===============================================================================
