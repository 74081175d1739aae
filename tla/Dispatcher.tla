------------------------------ MODULE Dispatcher -------------------------------
(***************************************************************************)
(* The dispatcher (engine/dispatcher.py) and the agent table it works with *)
(* (simulation/agents.py, agents/__init__.py, api/agents_config.py).       *)
(*                                                                         *)
(* A dispatch looks up the agents of its event, asks one after the other   *)
(* for a proposal, a remote call each, scores the proposals and takes the  *)
(* best that pays. POST /agents/reload meanwhile empties and refills the   *)
(* two dictionaries it reads, in four steps and without a lock.            *)
(*                                                                         *)
(* One event, as a reload treats them alike. Money is in rupees, discounts *)
(* in paise, probabilities in percent, scores in 1/10000 of a rupee: for   *)
(* these integers the formula is exact. Delays and texts are left out.     *)
(***************************************************************************)
EXTENDS Integers, Sequences

CONSTANTS
  Agent,       \* agent types
  Dispatch,    \* identities of dispatches
  Reload,      \* identities of POST /reload requests
  Config,      \* what config.yaml says, edit after edit: [defs, wmap, maps],
               \* maps being whether it maps any event at all
  Defaults,    \* _DEFAULT_AGENT_DEFS, _DEFAULT_WEBHOOK_MAP
  Customer, Amount,       \* customers and amounts of events
  Discount, Confidence    \* what the LLM may propose

Channel == {"whatsapp", "sms", "email", "push", "in_app"}

\* The channels an agent may use and its first discount, in percent.
Def == [channels : Seq(Channel), discount : Nat]

\* Agents that are defined, and those the event is mapped to.
IsTable(defs_, wmap_) ==
  /\ DOMAIN defs_ \subseteq Agent /\ defs_ \in [DOMAIN defs_ -> Def]
  /\ wmap_ \in Seq(Agent)

Percent == 0..100

ASSUME DispatcherAssumption ==
  /\ Len(Config) \in Nat \ {0}
  /\ \A v \in 1..Len(Config) : /\ IsTable(Config[v].defs, Config[v].wmap)
                               /\ Config[v].wmap # <<>> => Config[v].maps
  /\ IsTable(Defaults.defs, Defaults.wmap)
  /\ Customer \subseteq [ltv : Nat, conversion : Percent, sensitivity : Percent]
  /\ Amount \subseteq Nat /\ Discount \subseteq Nat /\ Confidence \subseteq Percent

VARIABLES
  file,       \* config.yaml, by the number of its edit
  defs, wmap, \* AGENT_DEFS, WEBHOOK_AGENT_MAP[event]
  rpc, loaded,\* each reload: where it is, what it has read
  overlapped, \* reloads that ran into another
  whole,      \* whether the last reload to end ran alone
  dpc,        \* each dispatch: where it is
  request,    \* its customer and its amount
  eligible,   \* the agents it looked up
  proposals, winner,
  disturbed   \* dispatches that met a reload, or what overlapping ones left

table == <<defs, wmap, whole>>
reloads == <<rpc, loaded, overlapped>>
dispatches == <<dpc, request, eligible, proposals, winner>>
vars == <<file, table, reloads, dispatches, disturbed>>

None == [a \in {} |-> {}]

Mutating == {r \in Reload : rpc[r] \in {"cleared", "defined", "unmapped"}}

Asking == {d \in Dispatch : dpc[d] = "asking"}

-------------------------------------------------------------------------------
(* Scores *)

\* "or" takes a zero for a missing value.
Or(x, default) == IF x = 0 THEN default ELSE x

ChannelCost(channel) ==
  CASE channel = "whatsapp" -> 3000 [] channel = "sms" -> 1500
    [] channel = "push" -> 1000 [] channel = "email" -> 500
    [] OTHER -> 200

ChannelFit(channel, customer) ==
  IF channel = "whatsapp" /\ customer.ltv > 10000 THEN 500 ELSE 0

EstRevenue(p, customer, amount) ==
  amount * Or(customer.conversion, 30) * p.confidence

\* CHURN_COST_FRACTION of the LTV, at a fatigue rate of two or three per mille.
ChurnRisk(p, customer) ==
  (IF p.channel = "whatsapp" THEN 6 ELSE 9) * customer.ltv

\* Seeded bug: the percentage the agent offers, for the sum.
DiscountCostOfPercent(p, customer) == Or(customer.sensitivity, 50)

DiscountCost(p, customer) == p.discount * Or(customer.sensitivity, 50)

\* score_proposal
Score(p, customer, amount) ==
  EstRevenue(p, customer, amount) - ChurnRisk(p, customer)
    - DiscountCost(p, customer) - ChannelCost(p.channel)
    + ChannelFit(p.channel, customer)

ScoreOf(d, i) == Score(proposals[d][i], request[d].customer, request[d].amount)

-------------------------------------------------------------------------------
\* _load takes the file if it has both parts, for whatever events.
Startup(v) ==
  IF DOMAIN Config[v].defs # {} /\ Config[v].maps THEN Config[v] ELSE Defaults

Init ==
  /\ file = 1
  /\ defs = Startup(1).defs /\ wmap = Startup(1).wmap /\ whole = TRUE
  /\ rpc = [r \in Reload |-> "idle"] /\ loaded = [r \in Reload |-> 1]
  /\ overlapped = {}
  /\ dpc = [d \in Dispatch |-> "idle"]
  /\ request \in [Dispatch -> [customer : Customer, amount : Amount]]
  /\ eligible = [d \in Dispatch |-> <<>>] /\ proposals = [d \in Dispatch |-> <<>>]
  /\ winner = [d \in Dispatch |-> 0]
  /\ disturbed = {}

\* Somebody edits config.yaml.
EditFile ==
  /\ file < Len(Config) /\ file' = file + 1
  /\ UNCHANGED <<table, reloads, dispatches, disturbed>>

-------------------------------------------------------------------------------
(* reload_agents *)

RGoto(r, where) == rpc' = [rpc EXCEPT ![r] = where]

\* load_agents_config; a file without agents, or one that does not parse, is
\* answered 500.
Load(r) ==
  /\ rpc[r] = "idle"
  /\ loaded' = [loaded EXCEPT ![r] = file]
  /\ RGoto(r, IF DOMAIN Config[file].defs = {} THEN "done" ELSE "loaded")
  /\ UNCHANGED <<file, table, overlapped, dispatches, disturbed>>

\* Seeded bug: the definitions are updated, and not cleared first.
KeepDefs == defs

ClearedDefs == None

ClearDefs(r) ==
  /\ rpc[r] = "loaded" /\ RGoto(r, "cleared")
  /\ defs' = ClearedDefs
  /\ overlapped' = IF Mutating = {} THEN overlapped
                                    ELSE overlapped \cup Mutating \cup {r}
  /\ disturbed' = disturbed \cup Asking
  /\ UNCHANGED <<file, wmap, whole, loaded, dispatches>>

\* dict.update: entries another reload wrote in between stay.
UpdateDefs(r) ==
  /\ rpc[r] = "cleared" /\ RGoto(r, "defined")
  /\ LET new == Config[loaded[r]].defs
     IN defs' = [a \in DOMAIN defs \cup DOMAIN new |->
                   IF a \in DOMAIN new THEN new[a] ELSE defs[a]]
  /\ disturbed' = disturbed \cup Asking
  /\ UNCHANGED <<file, wmap, whole, loaded, overlapped, dispatches>>

\* Seeded bug: the map is updated, and not cleared first.
KeepMap(r) ==
  /\ rpc[r] = "defined" /\ RGoto(r, "unmapped")
  /\ disturbed' = disturbed \cup Asking
  /\ UNCHANGED <<file, defs, wmap, whole, loaded, overlapped, dispatches>>

ClearMap(r) ==
  /\ rpc[r] = "defined" /\ RGoto(r, "unmapped")
  /\ wmap' = <<>>
  /\ disturbed' = disturbed \cup Asking
  /\ UNCHANGED <<file, defs, whole, loaded, overlapped, dispatches>>

\* The file may map no event: "if not agents" is the only test.
UpdateMap(r) ==
  /\ rpc[r] = "unmapped" /\ RGoto(r, "done")
  /\ wmap' = IF Config[loaded[r]].wmap = <<>> THEN wmap ELSE Config[loaded[r]].wmap
  /\ whole' = (r \notin overlapped)
  /\ disturbed' = disturbed \cup Asking
  /\ UNCHANGED <<file, defs, loaded, overlapped, dispatches>>

-------------------------------------------------------------------------------
(* dispatch *)

DGoto(d, where) == dpc' = [dpc EXCEPT ![d] = where]

\* WEBHOOK_AGENT_MAP.get(event, []): no agents, no dispatch.
LookUp(d) ==
  /\ dpc[d] = "idle"
  /\ eligible' = [eligible EXCEPT ![d] = wmap]
  /\ DGoto(d, IF wmap = <<>> THEN "ineligible" ELSE "asking")
  /\ disturbed' = IF Mutating = {} /\ whole THEN disturbed ELSE disturbed \cup {d}
  /\ UNCHANGED <<file, table, reloads, request, proposals, winner>>

\* AGENT_DEFS.get(agent_type, {})
DefOf(table_, a) ==
  IF a \in DOMAIN table_ THEN table_[a] ELSE [channels |-> <<"whatsapp">>, discount |-> 0]

NextAgent(d) == eligible[d][Len(proposals[d]) + 1]

\* The fallback of Phase A.
Deterministic(a, def, amount) ==
  [agent |-> a, channel |-> IF def.channels = <<>> THEN "whatsapp" ELSE def.channels[1],
   discount |-> amount * def.discount, confidence |-> 70]

\* Seeded bug: the model's channel is taken as it is.
AllowedUnchecked(channel, def) == channel

\* "fallback to allowed channel"
Allowed(channel, def) ==
  IF \E i \in DOMAIN def.channels : def.channels[i] = channel
  THEN channel ELSE def.channels[1]

\* What call_llm may answer, after AgentProposalSchema.
LlmProposals(a, def) ==
  {[agent |-> a, channel |-> Allowed(channel, def), discount |-> discount,
    confidence |-> confidence] :
     channel \in Channel, discount \in Discount, confidence \in Confidence}

\* One round of the loop: the definition is read, then the LLM asked.
Propose(d) ==
  /\ dpc[d] = "asking" /\ Len(proposals[d]) < Len(eligible[d])
  /\ LET a == NextAgent(d)
         def == DefOf(defs, a)
     IN \E p \in {Deterministic(a, def, request[d].amount)} \cup
                 (IF def.channels = <<>> THEN {} ELSE LlmProposals(a, def)) :
          proposals' = [proposals EXCEPT ![d] = Append(@, p)]
  /\ UNCHANGED <<file, table, reloads, dpc, request, eligible, winner, disturbed>>

\* channels[0] is looked up although the model proposed a channel.
Raise(d) ==
  /\ dpc[d] = "asking" /\ Len(proposals[d]) < Len(eligible[d])
  /\ DefOf(defs, NextAgent(d)).channels = <<>>
  /\ DGoto(d, "error")
  /\ UNCHANGED <<file, table, reloads, request, eligible, proposals, winner, disturbed>>

\* The head of the stable descending sort.
IsBest(d, i) ==
  \A j \in DOMAIN proposals[d] :
    ScoreOf(d, j) <= ScoreOf(d, i) /\ (j < i => ScoreOf(d, j) < ScoreOf(d, i))

\* Seeded bug: the winner is recorded before its score is looked at.
DecideUnscored(d) ==
  /\ dpc[d] = "asking" /\ Len(proposals[d]) = Len(eligible[d])
  /\ \E i \in DOMAIN proposals[d] :
       /\ IsBest(d, i)
       /\ DGoto(d, IF ScoreOf(d, i) > 0 THEN "won" ELSE "blocked")
       /\ winner' = [winner EXCEPT ![d] = i]
  /\ UNCHANGED <<file, table, reloads, request, eligible, proposals, disturbed>>

\* The best proposal wins if its score is positive.
Decide(d) ==
  /\ dpc[d] = "asking" /\ Len(proposals[d]) = Len(eligible[d])
  /\ \E i \in DOMAIN proposals[d] :
       /\ IsBest(d, i)
       /\ IF ScoreOf(d, i) > 0
          THEN DGoto(d, "won") /\ winner' = [winner EXCEPT ![d] = i]
          ELSE DGoto(d, "blocked") /\ UNCHANGED winner
  /\ UNCHANGED <<file, table, reloads, request, eligible, proposals, disturbed>>

\* The process is killed and started again.
Restart ==
  /\ defs' = Startup(file).defs /\ wmap' = Startup(file).wmap /\ whole' = TRUE
  /\ rpc' = [r \in Reload |-> IF rpc[r] = "idle" THEN "idle" ELSE "done"]
  /\ dpc' = [d \in Dispatch |-> IF dpc[d] = "asking" THEN "lost" ELSE dpc[d]]
  /\ overlapped' = {}
  /\ UNCHANGED <<file, loaded, request, eligible, proposals, winner, disturbed>>

Next ==
  \/ EditFile \/ Restart
  \/ \E r \in Reload :
       Load(r) \/ ClearDefs(r) \/ UpdateDefs(r) \/ ClearMap(r) \/ UpdateMap(r)
  \/ \E d \in Dispatch : LookUp(d) \/ Propose(d) \/ Raise(d) \/ Decide(d)

Spec == Init /\ [][Next]_vars

-------------------------------------------------------------------------------
\* What has been in force or on disk so far.
Known == {Config[v] : v \in 1..file} \cup {Defaults}

Proposal == [agent : Agent, channel : Channel, discount : Nat, confidence : Percent]

\* The shape of the table, of reloads and of dispatches.
TypeOK ==
  /\ file \in 1..Len(Config)
  /\ IsTable(defs, wmap) /\ whole \in BOOLEAN
  /\ rpc \in [Reload -> {"idle", "loaded", "cleared", "defined", "unmapped", "done"}]
  /\ loaded \in [Reload -> 1..file] /\ overlapped \subseteq Reload
  /\ dpc \in [Dispatch -> {"idle", "asking", "ineligible", "won", "blocked", "error", "lost"}]
  /\ request \in [Dispatch -> [customer : Customer, amount : Amount]]
  /\ eligible \in [Dispatch -> Seq(Agent)] /\ proposals \in [Dispatch -> Seq(Proposal)]
  /\ winner \in [Dispatch -> Nat] /\ disturbed \subseteq Dispatch
  /\ \A d \in Dispatch : /\ Len(proposals[d]) <= Len(eligible[d])
                         /\ winner[d] \in 0..Len(proposals[d])
                         /\ dpc[d] = "won" <=> winner[d] # 0

\* Agent a of configuration c may have made a proposal on this channel.
Offers(c, a, channel) ==
  \/ a \in DOMAIN c.defs /\ \E i \in DOMAIN c.defs[a].channels :
                               c.defs[a].channels[i] = channel
  \/ /\ channel = "whatsapp"
     /\ a \in DOMAIN c.defs => c.defs[a].channels = <<>>

\* The dispatch followed c: all its agents in their order, each on a channel of its
\* own.
Follows(d, c) ==
  /\ eligible[d] = c.wmap
  /\ \A i \in DOMAIN proposals[d] :
       /\ proposals[d][i].agent = c.wmap[i]
       /\ Offers(c, c.wmap[i], proposals[d][i].channel)

\* After a reload that ran alone the table is one configuration from disk, whatever
\* mixture overlapping reloads had left: "yaml is single source" (agents/__init__.py,
\* reload_agents).
TableIsOneConfiguration ==
  Mutating = {} /\ whole => \E c \in Known : defs = c.defs /\ wmap = c.wmap

\* A dispatch that met no reload, however long its agents took to answer, followed
\* one configuration; only then "No eligible agents" means that the configuration
\* maps none (generate_candidate_proposals).
ConsistentUnlessReloaded ==
  \A d \in Dispatch :
    dpc[d] # "idle" /\ d \notin disturbed => \E c \in Known : Follows(d, c)

\* Even in the middle of overlapping reloads an agent is asked only where some
\* configuration maps it, and proposes only a channel some configuration gives it;
\* the default channel of an undefined agent needs a reload or a faulty file.
ChannelWasListed ==
  \A d \in Dispatch : \A i \in DOMAIN proposals[d] :
    LET p == proposals[d][i] IN
      /\ \E c \in Known : \E j \in DOMAIN c.wmap : c.wmap[j] = p.agent
      /\ \/ \E c \in Known : Offers(c, p.agent, p.channel)
         \/ p.channel = "whatsapp" /\ d \in disturbed

\* The LLM's discount has no upper limit; the score keeps a winner from giving away
\* more than it is expected to bring (score_proposal, dispatch).
WinnerEarnsItsDiscount ==
  \A d \in Dispatch : dpc[d] = "won" =>
    LET p == proposals[d][winner[d]]
        customer == request[d].customer
    IN p.discount * Or(customer.sensitivity, 50)
         < EstRevenue(p, customer, request[d].amount)

===============================================================================
