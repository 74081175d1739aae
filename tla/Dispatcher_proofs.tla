--------------------------- MODULE Dispatcher_proofs ---------------------------
(***************************************************************************)
(* Theorems about Dispatcher, for any agents, configurations, dispatches   *)
(* and reloads.                                                            *)
(***************************************************************************)
EXTENDS Dispatcher, TLAPS

\* What is loaded, or defined at first, is a table.
LEMMA KnownIsTable ==
  ASSUME file \in 1..Len(Config), NEW c \in Known
  PROVE  IsTable(c.defs, c.wmap)
BY DispatcherAssumption DEF Known

LEMMA StartupIsKnown ==
  ASSUME file \in 1..Len(Config)
  PROVE  Startup(file) \in Known
BY DEF Known, Startup

LEMMA LoadedIsKnown ==
  ASSUME TypeOK, NEW r \in Reload
  PROVE  Config[loaded[r]] \in Known /\ IsTable(Config[loaded[r]].defs, Config[loaded[r]].wmap)
<1>1. loaded[r] \in 1..file /\ file \in 1..Len(Config)
  BY DEF TypeOK
<1>2. Config[loaded[r]] \in Known
  BY <1>1 DEF Known
<1>3. QED
  BY <1>1, <1>2, KnownIsTable

\* What has been in force stays known.
LEMMA KnownGrows ==
  ASSUME TypeOK, [Next]_vars
  PROVE  Known \subseteq Known' /\ file' \in 1..Len(Config)
<1>1. file \in 1..Len(Config) /\ Len(Config) \in Nat
  BY DispatcherAssumption DEF TypeOK
<1>2. file' = file \/ (file < Len(Config) /\ file' = file + 1)
  BY DEF Next, EditFile, Restart, Load, ClearDefs, UpdateDefs, ClearMap, UpdateMap,
         LookUp, Propose, Raise, Decide, vars
<1>3. QED
  BY <1>1, <1>2 DEF Known

\* What an agent proposes: an agent type and a channel, of a definition.
LEMMA DefOfIsDef ==
  ASSUME NEW t, NEW w, IsTable(t, w), NEW a
  PROVE  DefOf(t, a) \in Def
BY DEF IsTable, DefOf, Def, Channel

-------------------------------------------------------------------------------
Answers(a, def, amount) ==
  {Deterministic(a, def, amount)} \cup
    (IF def.channels = <<>> THEN {} ELSE LlmProposals(a, def))

LEMMA AnswerIsProposal ==
  ASSUME NEW a \in Agent, NEW def \in Def, NEW amount \in Nat,
         NEW p \in Answers(a, def, amount)
  PROVE  /\ p \in Proposal /\ p.agent = a
         /\ IF def.channels = <<>>
            THEN p.channel = "whatsapp"
            ELSE \E i \in DOMAIN def.channels : def.channels[i] = p.channel
<1>1. def.channels \in Seq(Channel) /\ def.discount \in Nat
  BY DEF Def
<1>2. Discount \subseteq Nat /\ Confidence \subseteq Percent
  BY DispatcherAssumption
<1>3. def.channels # <<>> => /\ 1 \in DOMAIN def.channels
                             /\ \A i \in DOMAIN def.channels : def.channels[i] \in Channel
  BY <1>1
<1>4. CASE p = Deterministic(a, def, amount)
  <2>1. amount * def.discount \in Nat
    BY <1>1
  <2>2. QED
    BY <1>1, <1>3, <1>4, <2>1 DEF Deterministic, Proposal, Channel, Percent
<1>5. CASE def.channels # <<>> /\ p \in LlmProposals(a, def)
  BY <1>2, <1>3, <1>5 DEF LlmProposals, Allowed, Proposal
<1>6. QED
  BY <1>4, <1>5 DEF Answers

\* Propose, told by what is appended.
LEMMA ProposeAppends ==
  ASSUME TypeOK, NEW d \in Dispatch, Propose(d)
  PROVE  /\ NextAgent(d) \in Agent
         /\ Len(proposals[d]) < Len(eligible[d])
         /\ \E p \in Answers(NextAgent(d), DefOf(defs, NextAgent(d)), request[d].amount) :
              /\ p \in Proposal
              /\ proposals' = [proposals EXCEPT ![d] = Append(@, p)]
<1>1. Len(proposals[d]) < Len(eligible[d]) /\ eligible[d] \in Seq(Agent)
      /\ proposals[d] \in Seq(Proposal)
  BY DEF Propose, TypeOK
<1>2. NextAgent(d) \in Agent
  BY <1>1 DEF NextAgent
<1>3. request[d].amount \in Nat
  BY DispatcherAssumption DEF TypeOK
<1>4. DefOf(defs, NextAgent(d)) \in Def
  BY DefOfIsDef DEF TypeOK
<1>5. \E p \in Answers(NextAgent(d), DefOf(defs, NextAgent(d)), request[d].amount) :
        proposals' = [proposals EXCEPT ![d] = Append(@, p)]
  BY DEF Propose, Answers
<1>6. QED
  BY <1>1, <1>2, <1>3, <1>4, <1>5, AnswerIsProposal

\* Nothing is proposed before the agents are looked up.
IdleInv == \A d \in Dispatch : dpc[d] = "idle" => proposals[d] = <<>>

LEMMA TypeInit == Init => TypeOK /\ IdleInv
<1> SUFFICES ASSUME Init PROVE TypeOK /\ IdleInv
  OBVIOUS
<1>1. file = 1 /\ file \in 1..Len(Config)
  BY DispatcherAssumption DEF Init
<1>2. IsTable(Startup(file).defs, Startup(file).wmap)
  BY <1>1, StartupIsKnown, KnownIsTable
<1>3. IsTable(defs, wmap)
  BY <1>1, <1>2 DEF Init
<1>4. QED
  BY <1>1, <1>3 DEF Init, TypeOK, IdleInv

LEMMA TypeStep == TypeOK /\ IdleInv /\ [Next]_vars => TypeOK'
<1> SUFFICES ASSUME TypeOK, IdleInv, [Next]_vars PROVE TypeOK'
  OBVIOUS
<1>0. /\ file \in 1..Len(Config) /\ Len(Config) \in Nat
      /\ Startup(file) \in Known /\ IsTable(Startup(file).defs, Startup(file).wmap)
  BY DispatcherAssumption, StartupIsKnown, KnownIsTable DEF TypeOK
<1> USE DEF table, reloads, dispatches, RGoto, DGoto
<1>1. CASE EditFile
  BY <1>0, <1>1 DEF EditFile, TypeOK
<1>2. CASE Restart
  BY <1>0, <1>2 DEF Restart, TypeOK
<1>3. ASSUME NEW r \in Reload, Load(r) PROVE TypeOK'
  BY <1>0, <1>3 DEF Load, TypeOK
<1>4. ASSUME NEW r \in Reload, ClearDefs(r) PROVE TypeOK'
  <2>1. IsTable(defs', wmap')
    BY <1>4 DEF ClearDefs, ClearedDefs, None, IsTable, TypeOK
  <2>2. QED
    BY <1>4, <2>1 DEF ClearDefs, Mutating, Asking, TypeOK
<1>5. ASSUME NEW r \in Reload, UpdateDefs(r) PROVE TypeOK'
  <2>1. IsTable(defs, wmap) /\ IsTable(Config[loaded[r]].defs, Config[loaded[r]].wmap)
    BY LoadedIsKnown DEF TypeOK
  <2>2. IsTable(defs', wmap')
    BY <1>5, <2>1 DEF UpdateDefs, IsTable
  <2>3. QED
    BY <1>5, <2>2 DEF UpdateDefs, Asking, TypeOK
<1>6. ASSUME NEW r \in Reload, ClearMap(r) PROVE TypeOK'
  BY <1>6 DEF ClearMap, Asking, IsTable, TypeOK
<1>7. ASSUME NEW r \in Reload, UpdateMap(r) PROVE TypeOK'
  <2>1. IsTable(defs, wmap) /\ IsTable(Config[loaded[r]].defs, Config[loaded[r]].wmap)
    BY LoadedIsKnown DEF TypeOK
  <2>2. IsTable(defs', wmap')
    BY <1>7, <2>1 DEF UpdateMap, IsTable
  <2>3. QED
    BY <1>7, <2>2 DEF UpdateMap, Asking, TypeOK
<1>8. ASSUME NEW d \in Dispatch, LookUp(d) PROVE TypeOK'
  <2>1. wmap \in Seq(Agent)
    BY DEF TypeOK, IsTable
  <2>2. QED
    BY <1>8, <2>1 DEF LookUp, IdleInv, TypeOK
<1>9. ASSUME NEW d \in Dispatch, Propose(d) PROVE TypeOK'
  <2>1. PICK p \in Proposal : proposals' = [proposals EXCEPT ![d] = Append(@, p)]
    BY <1>9, ProposeAppends
  <2>2. Len(proposals[d]) < Len(eligible[d]) /\ proposals[d] \in Seq(Proposal)
        /\ eligible[d] \in Seq(Agent)
    BY <1>9 DEF Propose, TypeOK
  <2>3. proposals'[d] \in Seq(Proposal) /\ Len(proposals'[d]) = Len(proposals[d]) + 1
    BY <2>1, <2>2 DEF TypeOK
  <2>4. proposals' \in [Dispatch -> Seq(Proposal)]
        /\ \A e \in Dispatch : e # d => proposals'[e] = proposals[e]
    BY <2>1, <2>3 DEF TypeOK
  <2>5. QED
    BY <1>9, <2>2, <2>3, <2>4 DEF Propose, TypeOK
<1>10. ASSUME NEW d \in Dispatch, Raise(d) PROVE TypeOK'
  BY <1>10 DEF Raise, TypeOK
<1>11. ASSUME NEW d \in Dispatch, Decide(d) PROVE TypeOK'
  <2>1. PICK i \in DOMAIN proposals[d] :
               \/ dpc' = [dpc EXCEPT ![d] = "won"] /\ winner' = [winner EXCEPT ![d] = i]
               \/ dpc' = [dpc EXCEPT ![d] = "blocked"] /\ winner' = winner
    BY <1>11 DEF Decide
  <2>2. i \in 1..Len(proposals[d]) /\ Len(proposals[d]) \in Nat
    BY <2>1 DEF TypeOK
  <2>3. /\ dpc[d] = "asking" /\ UNCHANGED <<file, table, reloads, request, eligible>>
        /\ UNCHANGED <<proposals, disturbed>>
    BY <1>11 DEF Decide
  <2>4. /\ dpc' \in [Dispatch -> {"idle", "asking", "ineligible", "won", "blocked",
                                   "error", "lost"}]
        /\ winner' \in [Dispatch -> Nat]
    <3>1. i \in Nat
      BY <2>2
    <3>2. CASE winner' = winner
      BY <2>1, <3>2 DEF TypeOK
    <3>3. CASE winner' = [winner EXCEPT ![d] = i]
      BY <2>1, <3>1, <3>3 DEF TypeOK
    <3>4. QED
      BY <2>1, <3>2, <3>3
  <2>5. ASSUME NEW e \in Dispatch
        PROVE  /\ Len(proposals'[e]) <= Len(eligible'[e])
               /\ winner'[e] \in 0..Len(proposals'[e])
               /\ dpc'[e] = "won" <=> winner'[e] # 0
    BY <2>1, <2>2, <2>3 DEF TypeOK
  <2>6. QED
    BY <2>3, <2>4, <2>5 DEF TypeOK
<1>12. CASE UNCHANGED vars
  BY <1>12 DEF vars, TypeOK
<1>13. QED
  BY <1>1, <1>2, <1>3, <1>4, <1>5, <1>6, <1>7, <1>8, <1>9, <1>10, <1>11, <1>12 DEF Next

LEMMA IdleStep == TypeOK /\ IdleInv /\ [Next]_vars => IdleInv'
<1> SUFFICES ASSUME TypeOK, IdleInv, [Next]_vars PROVE IdleInv'
  OBVIOUS
<1> USE DEF table, reloads, dispatches, DGoto, TypeOK, IdleInv
<1>1. ASSUME NEW d \in Dispatch, LookUp(d) PROVE IdleInv'
  BY <1>1 DEF LookUp
<1>2. ASSUME NEW d \in Dispatch, Propose(d) PROVE IdleInv'
  BY <1>2 DEF Propose
<1>3. ASSUME NEW d \in Dispatch, Raise(d) \/ Decide(d) PROVE IdleInv'
  BY <1>3 DEF Raise, Decide
<1>4. CASE EditFile \/ Restart
  BY <1>4 DEF EditFile, Restart
<1>5. ASSUME NEW r \in Reload,
             Load(r) \/ ClearDefs(r) \/ UpdateDefs(r) \/ ClearMap(r) \/ UpdateMap(r)
      PROVE  IdleInv'
  BY <1>5 DEF Load, ClearDefs, UpdateDefs, ClearMap, UpdateMap
<1>6. CASE UNCHANGED vars
  BY <1>6 DEF vars
<1>7. QED
  BY <1>1, <1>2, <1>3, <1>4, <1>5, <1>6 DEF Next

\* Every variable keeps its type: no reload leaves anything but tables behind.
THEOREM TypeCorrect == Spec => []TypeOK
BY TypeInit, TypeStep, IdleStep, PTL DEF Spec

-------------------------------------------------------------------------------
Table(c) == defs = c.defs /\ wmap = c.wmap

\* A reload that met no other is alone, and what it has emptied or filled so far is
\* what its file says; when none is under way and the last was alone, the table is a
\* configuration.
ReloadInv ==
  /\ \A r \in Mutating \ overlapped :
       /\ Mutating = {r}
       /\ rpc[r] = "cleared" => defs = None
       /\ rpc[r] \in {"defined", "unmapped"} => defs = Config[loaded[r]].defs
       /\ rpc[r] = "unmapped" => wmap = <<>>
  /\ Mutating = {} /\ whole => \E c \in Known : Table(c)

LEMMA ReloadInit == Init => ReloadInv
<1> SUFFICES ASSUME Init PROVE ReloadInv
  OBVIOUS
<1>1. file \in 1..Len(Config) /\ Mutating = {}
  BY DispatcherAssumption DEF Init, Mutating
<1>2. Startup(file) \in Known /\ Table(Startup(file))
  BY <1>1, StartupIsKnown DEF Init, Table
<1>3. QED
  BY <1>1, <1>2 DEF ReloadInv

LEMMA ReloadStep == TypeOK /\ ReloadInv /\ [Next]_vars => ReloadInv'
<1> SUFFICES ASSUME TypeOK, ReloadInv, [Next]_vars PROVE ReloadInv'
  OBVIOUS
<1>0. Known \subseteq Known'
  BY KnownGrows
<1> USE DEF table, reloads, dispatches, RGoto, DGoto, ReloadInv, Table
<1>1. CASE EditFile
  BY <1>0, <1>1 DEF EditFile, Mutating, TypeOK
<1>2. CASE Restart
  <2>1. Startup(file) \in Known
    BY StartupIsKnown DEF TypeOK
  <2>2. Mutating' = {}
    BY <1>2 DEF Restart, Mutating, TypeOK
  <2>3. QED
    BY <1>0, <1>2, <2>1, <2>2 DEF Restart
<1>3. ASSUME NEW r \in Reload, Load(r) PROVE ReloadInv'
  <2>1. Mutating' = Mutating /\ r \notin Mutating
    BY <1>3 DEF Load, Mutating, TypeOK
  <2>2. \A q \in Mutating : rpc'[q] = rpc[q] /\ loaded'[q] = loaded[q]
    BY <1>3, <2>1 DEF Load, Mutating, TypeOK
  <2>3. UNCHANGED <<defs, wmap, whole, overlapped>>
    BY <1>3 DEF Load
  <2>4. QED
    BY <1>0, <2>1, <2>2, <2>3
<1>4. ASSUME NEW r \in Reload, ClearDefs(r) PROVE ReloadInv'
  <2>1. Mutating' = Mutating \cup {r} /\ rpc'[r] = "cleared" /\ defs' = None
    BY <1>4 DEF ClearDefs, ClearedDefs, Mutating, TypeOK
  <2>2. Mutating # {} => Mutating' \subseteq overlapped'
    BY <1>4, <2>1 DEF ClearDefs
  <2>3. QED
    BY <2>1, <2>2
<1>5. ASSUME NEW r \in Reload, UpdateDefs(r) PROVE ReloadInv'
  <2>1. Mutating' = Mutating /\ r \in Mutating /\ rpc'[r] = "defined"
    BY <1>5 DEF UpdateDefs, Mutating, TypeOK
  <2>2. UNCHANGED <<overlapped, loaded>>
    BY <1>5 DEF UpdateDefs
  <2>3. ASSUME r \notin overlapped PROVE defs' = Config[loaded[r]].defs
    <3>1. defs = None
      BY <1>5, <2>1, <2>3 DEF UpdateDefs
    <3>2. IsTable(Config[loaded[r]].defs, Config[loaded[r]].wmap)
      BY LoadedIsKnown
    <3>3. QED
      BY <1>5, <3>1, <3>2 DEF UpdateDefs, None, IsTable
  <2>4. QED
    BY <2>1, <2>2, <2>3
<1>6. ASSUME NEW r \in Reload, ClearMap(r) PROVE ReloadInv'
  <2>1. Mutating' = Mutating /\ r \in Mutating /\ rpc'[r] = "unmapped" /\ rpc[r] = "defined"
    BY <1>6 DEF ClearMap, Mutating, TypeOK
  <2>2. UNCHANGED <<overlapped, loaded, defs>> /\ wmap' = <<>>
    BY <1>6 DEF ClearMap
  <2>3. QED
    BY <2>1, <2>2
<1>7. ASSUME NEW r \in Reload, UpdateMap(r) PROVE ReloadInv'
  <2>1. Mutating' = Mutating \ {r} /\ r \in Mutating /\ rpc[r] = "unmapped"
    BY <1>7 DEF UpdateMap, Mutating, TypeOK
  <2>2. UNCHANGED <<overlapped, loaded, defs>> /\ (whole' <=> r \notin overlapped)
    BY <1>7 DEF UpdateMap
  <2>3. \A q \in Mutating' : q \in overlapped
    BY <2>1
  <2>4. ASSUME r \notin overlapped PROVE \E c \in Known' : Table(c)'
    <3>1. defs = Config[loaded[r]].defs /\ wmap = <<>>
      BY <2>1, <2>4
    <3>2. wmap' = Config[loaded[r]].wmap
      BY <1>7, <3>1 DEF UpdateMap
    <3>3. QED
      BY <1>0, <2>2, <3>1, <3>2, LoadedIsKnown
  <2>5. QED
    BY <2>2, <2>3, <2>4
<1>8. ASSUME NEW d \in Dispatch, LookUp(d) \/ Propose(d) \/ Raise(d) \/ Decide(d)
      PROVE  ReloadInv'
  BY <1>0, <1>8 DEF LookUp, Propose, Raise, Decide, Mutating
<1>9. CASE UNCHANGED vars
  BY <1>0, <1>9 DEF vars, Mutating
<1>10. QED
  BY <1>1, <1>2, <1>3, <1>4, <1>5, <1>6, <1>7, <1>8, <1>9 DEF Next

LEMMA DispatcherInit == Init => TypeOK /\ IdleInv /\ ReloadInv
BY TypeInit, ReloadInit

LEMMA DispatcherStep ==
  TypeOK /\ IdleInv /\ ReloadInv /\ [Next]_vars => (TypeOK /\ IdleInv /\ ReloadInv)'
BY TypeStep, IdleStep, ReloadStep

\* A reload that runs alone leaves one configuration, whatever mixture of earlier
\* ones it finds (reload_agents clears before it updates).
THEOREM OneConfiguration == Spec => []TableIsOneConfiguration
<1>1. ReloadInv => TableIsOneConfiguration
  BY DEF ReloadInv, TableIsOneConfiguration, Table
<1>2. QED
  BY <1>1, DispatcherInit, DispatcherStep, PTL DEF Spec

-------------------------------------------------------------------------------
\* While a dispatch that met no reload asks its agents, the table is the
\* configuration it has followed so far.
FollowInv ==
  \A d \in Dispatch \ disturbed :
    /\ dpc[d] # "idle" => \E c \in Known : Follows(d, c)
    /\ dpc[d] = "asking" => /\ Mutating = {} /\ whole
                            /\ \E c \in Known : Follows(d, c) /\ Table(c)

\* Whatever the agent answers is offered by the configuration its definition is from.
LEMMA AnswerIsOffered ==
  ASSUME NEW c, NEW t, NEW w, IsTable(t, w), NEW a \in Agent,
         a \in DOMAIN t => a \in DOMAIN c.defs /\ t[a] = c.defs[a],
         a \in DOMAIN t \/ a \notin DOMAIN c.defs,
         NEW amount \in Nat, NEW p \in Answers(a, DefOf(t, a), amount)
  PROVE  Offers(c, a, p.channel)
<1>1. DefOf(t, a) \in Def
  BY DefOfIsDef
<1>2. IF DefOf(t, a).channels = <<>>
      THEN p.channel = "whatsapp"
      ELSE \E i \in DOMAIN DefOf(t, a).channels : DefOf(t, a).channels[i] = p.channel
  BY <1>1, AnswerIsProposal
<1>3. CASE a \in DOMAIN t
  BY <1>2, <1>3 DEF DefOf, Offers
<1>4. CASE a \notin DOMAIN t
  BY <1>2, <1>4 DEF DefOf, Offers
<1>5. QED
  BY <1>3, <1>4

\* A step that leaves the proposals of d alone leaves alone whom it has followed.
LEMMA FollowsStays ==
  ASSUME TypeOK, [Next]_vars, NEW d, NEW c \in Known, Follows(d, c),
         eligible'[d] = eligible[d], proposals'[d] = proposals[d]
  PROVE  c \in Known' /\ Follows(d, c)'
BY KnownGrows DEF Follows

LEMMA FollowStep == TypeOK /\ IdleInv /\ ReloadInv /\ FollowInv /\ [Next]_vars => FollowInv'
<1> SUFFICES ASSUME TypeOK, IdleInv, ReloadInv, FollowInv, [Next]_vars PROVE FollowInv'
  OBVIOUS
<1>0. Known \subseteq Known'
  BY KnownGrows
<1> USE DEF table, reloads, dispatches, RGoto, DGoto, Table
<1>1. CASE EditFile
  <2>1. Mutating' = Mutating /\ UNCHANGED <<table, dispatches, disturbed>>
    BY <1>1 DEF EditFile, Mutating
  <2>2. QED
    BY <1>0, <2>1 DEF FollowInv, Follows
<1>2. CASE Restart
  <2>1. \A d \in Dispatch : /\ dpc'[d] # "asking"
                            /\ dpc'[d] # "idle" => dpc[d] # "idle"
    BY <1>2 DEF Restart, TypeOK
  <2>2. UNCHANGED <<eligible, proposals, disturbed>>
    BY <1>2 DEF Restart
  <2>3. QED
    BY <1>0, <2>1, <2>2 DEF FollowInv, Follows
<1>3. ASSUME NEW r \in Reload, Load(r) PROVE FollowInv'
  <2>1. Mutating' = Mutating
    BY <1>3 DEF Load, Mutating, TypeOK
  <2>2. UNCHANGED <<table, dispatches, disturbed>>
    BY <1>3 DEF Load
  <2>3. QED
    BY <1>0, <2>1, <2>2 DEF FollowInv, Follows
<1>4. ASSUME NEW r \in Reload,
             ClearDefs(r) \/ UpdateDefs(r) \/ ClearMap(r) \/ UpdateMap(r)
      PROVE  FollowInv'
  <2>1. disturbed' = disturbed \cup Asking /\ UNCHANGED dispatches
    BY <1>4 DEF ClearDefs, UpdateDefs, ClearMap, UpdateMap
  <2>2. QED
    BY <1>0, <2>1 DEF FollowInv, Follows, Asking
<1>5. ASSUME NEW d \in Dispatch, LookUp(d) PROVE FollowInv'
  <2>1. /\ eligible' = [eligible EXCEPT ![d] = wmap] /\ disturbed \subseteq disturbed'
        /\ dpc' = [dpc EXCEPT ![d] = IF wmap = <<>> THEN "ineligible" ELSE "asking"]
        /\ Mutating' = Mutating /\ UNCHANGED <<table, proposals>> /\ proposals[d] = <<>>
    BY <1>5 DEF LookUp, IdleInv, Mutating
  <2>2. ASSUME NEW e \in Dispatch \ disturbed', e # d
        PROVE  /\ dpc'[e] = dpc[e] /\ e \notin disturbed
               /\ eligible'[e] = eligible[e] /\ proposals'[e] = proposals[e]
    BY <2>1, <2>2 DEF TypeOK
  <2>3. ASSUME d \notin disturbed'
        PROVE  Mutating = {} /\ whole /\ \E c \in Known' : Follows(d, c)' /\ Table(c)
    <3>1. Mutating = {} /\ whole
      BY <1>5, <2>3 DEF LookUp
    <3>2. PICK c \in Known : Table(c)
      BY <3>1 DEF ReloadInv
    <3>3. Follows(d, c)'
      BY <2>1, <3>2 DEF Follows, TypeOK
    <3>4. QED
      BY <1>0, <3>1, <3>2, <3>3
  <2>4. QED
    BY <1>0, <2>1, <2>2, <2>3, FollowsStays DEF FollowInv
<1>6. ASSUME NEW d \in Dispatch, Propose(d) PROVE FollowInv'
  <2>1. PICK p \in Answers(NextAgent(d), DefOf(defs, NextAgent(d)), request[d].amount) :
          p \in Proposal /\ proposals' = [proposals EXCEPT ![d] = Append(@, p)]
    BY <1>6, ProposeAppends
  <2>2. /\ UNCHANGED <<table, eligible, dpc, disturbed>> /\ Mutating' = Mutating
        /\ dpc[d] = "asking"
    BY <1>6 DEF Propose, Mutating
  <2>3. ASSUME NEW e \in Dispatch, e # d
        PROVE  eligible'[e] = eligible[e] /\ proposals'[e] = proposals[e]
    BY <2>1, <2>2, <2>3 DEF TypeOK
  <2>4. ASSUME NEW c \in Known, Follows(d, c), Table(c) PROVE Follows(d, c)'
    <3>1. NextAgent(d) \in Agent /\ NextAgent(d) = c.wmap[Len(proposals[d]) + 1]
      BY <1>6, <2>4, ProposeAppends DEF NextAgent, Follows
    <3>2. request[d].amount \in Nat /\ IsTable(defs, wmap)
      BY DispatcherAssumption DEF TypeOK
    <3>3. p.agent = NextAgent(d)
      BY <2>1, <3>1, <3>2, AnswerIsProposal, DefOfIsDef
    <3>4. Offers(c, NextAgent(d), p.channel)
      BY <2>1, <2>4, <3>1, <3>2, AnswerIsOffered
    <3>5. /\ proposals[d] \in Seq(Proposal)
          /\ proposals'[d] = Append(proposals[d], p)
      BY <2>1 DEF TypeOK
    <3>6. /\ DOMAIN proposals'[d] = DOMAIN proposals[d] \cup {Len(proposals[d]) + 1}
          /\ proposals'[d][Len(proposals[d]) + 1] = p
          /\ \A i \in DOMAIN proposals[d] : proposals'[d][i] = proposals[d][i]
      BY <3>5
    <3>7. \A i \in DOMAIN proposals'[d] :
            /\ proposals'[d][i].agent = c.wmap[i]
            /\ Offers(c, c.wmap[i], proposals'[d][i].channel)
      BY <2>4, <3>1, <3>3, <3>4, <3>6 DEF Follows
    <3>8. QED
      BY <2>2, <2>4, <3>7 DEF Follows
  <2>5. QED
    BY <1>0, <2>2, <2>3, <2>4, FollowsStays DEF FollowInv
<1>7. ASSUME NEW d \in Dispatch, Raise(d) \/ Decide(d) PROVE FollowInv'
  <2>1. /\ UNCHANGED <<table, eligible, proposals, disturbed>> /\ Mutating' = Mutating
        /\ dpc[d] = "asking" /\ dpc'[d] # "asking"
        /\ \A e \in Dispatch : e # d => dpc'[e] = dpc[e]
    BY <1>7 DEF Raise, Decide, Mutating, TypeOK
  <2>2. QED
    BY <1>0, <2>1, FollowsStays DEF FollowInv
<1>8. CASE UNCHANGED vars
  BY <1>0, <1>8, FollowsStays DEF vars, FollowInv, Mutating
<1>9. QED
  BY <1>1, <1>2, <1>3, <1>4, <1>5, <1>6, <1>7, <1>8 DEF Next

LEMMA FollowInit == Init => FollowInv
BY DEF Init, FollowInv

\* However long its agents take to answer, a dispatch that met no reload followed
\* one configuration (generate_candidate_proposals).
THEOREM Consistent == Spec => []ConsistentUnlessReloaded
<1>1. FollowInv => ConsistentUnlessReloaded
  BY DEF FollowInv, ConsistentUnlessReloaded
<1>2. TypeOK /\ IdleInv /\ ReloadInv /\ FollowInv /\ [Next]_vars => FollowInv'
  BY FollowStep
<1>3. QED
  BY <1>1, <1>2, FollowInit, DispatcherInit, DispatcherStep, PTL DEF Spec

-------------------------------------------------------------------------------
\* Each definition in force is one of a known configuration,
DefsInv == \A a \in DOMAIN defs : \E c \in Known : a \in DOMAIN c.defs /\ defs[a] = c.defs[a]

IsMapped(w) == w = <<>> \/ \E c \in Known : w = c.wmap

\* the agents of a dispatch are those of a known configuration, or none, and so are
\* the agents and the channels of its proposals.
ListedInv ==
  /\ DefsInv /\ IsMapped(wmap)
  /\ \A d \in Dispatch : /\ IsMapped(eligible[d])
                         /\ \A i \in DOMAIN proposals[d] :
                              proposals[d][i].agent = eligible[d][i]
  /\ ChannelWasListed

LEMMA DefsStep == TypeOK /\ DefsInv /\ [Next]_vars => DefsInv'
<1> SUFFICES ASSUME TypeOK, DefsInv, [Next]_vars PROVE DefsInv'
  OBVIOUS
<1>0. Known \subseteq Known'
  BY KnownGrows
<1> USE DEF table, DefsInv
<1>1. CASE Restart
  BY <1>0, <1>1, StartupIsKnown DEF Restart, TypeOK
<1>2. ASSUME NEW r \in Reload, ClearDefs(r) PROVE DefsInv'
  BY <1>2 DEF ClearDefs, ClearedDefs, None
<1>3. ASSUME NEW r \in Reload, UpdateDefs(r) PROVE DefsInv'
  BY <1>0, <1>3, LoadedIsKnown DEF UpdateDefs
<1>4. CASE UNCHANGED defs
  BY <1>0, <1>4
<1>5. QED
  BY <1>1, <1>2, <1>3, <1>4
     DEF Next, EditFile, Load, ClearMap, UpdateMap, LookUp, Propose, Raise, Decide, vars

LEMMA ListedStep ==
  TypeOK /\ IdleInv /\ FollowInv /\ FollowInv' /\ ListedInv /\ [Next]_vars => ListedInv'
<1> SUFFICES ASSUME TypeOK, IdleInv, FollowInv, FollowInv', ListedInv, [Next]_vars
             PROVE  ListedInv'
  OBVIOUS
<1>1. Known \subseteq Known' /\ DefsInv'
  BY KnownGrows, DefsStep DEF ListedInv
<1>2. disturbed \subseteq disturbed'
  BY DEF Next, EditFile, Restart, Load, ClearDefs, UpdateDefs, ClearMap, UpdateMap, LookUp,
         Propose, Raise, Decide, vars
<1>3. IsMapped(wmap)'
  <2>1. CASE Restart
    BY <1>1, <2>1, StartupIsKnown DEF Restart, IsMapped, TypeOK
  <2>2. ASSUME NEW r \in Reload, ClearMap(r) \/ UpdateMap(r) PROVE IsMapped(wmap)'
    BY <1>1, <2>2, LoadedIsKnown DEF ClearMap, UpdateMap, IsMapped, ListedInv
  <2>3. CASE UNCHANGED wmap
    BY <1>1, <2>3 DEF IsMapped, ListedInv
  <2>4. QED
    BY <2>1, <2>2, <2>3
       DEF Next, EditFile, Load, ClearDefs, UpdateDefs, LookUp, Propose, Raise, Decide,
           table, vars
<1>4. ASSUME NEW d \in Dispatch, LookUp(d) PROVE ListedInv'
  <2>1. /\ eligible' = [eligible EXCEPT ![d] = wmap] /\ proposals' = proposals
        /\ proposals[d] = <<>>
    BY <1>4 DEF LookUp, IdleInv
  <2>2. ChannelWasListed'
    BY <1>1, <1>2, <2>1 DEF ChannelWasListed, ListedInv, Offers
  <2>3. ASSUME NEW e \in Dispatch
        PROVE  /\ IsMapped(eligible[e])'
               /\ \A i \in DOMAIN proposals'[e] : proposals'[e][i].agent = eligible'[e][i]
    <3>1. CASE e = d
      <4>1. eligible'[e] = wmap /\ DOMAIN proposals'[e] = {}
        BY <2>1, <3>1 DEF TypeOK
      <4>2. QED
        BY <1>1, <4>1 DEF ListedInv, IsMapped
    <3>2. CASE e # d
      BY <1>1, <2>1, <3>2 DEF ListedInv, IsMapped, TypeOK
    <3>3. QED
      BY <3>1, <3>2
  <2>4. QED
    BY <1>1, <1>3, <2>2, <2>3 DEF ListedInv
<1>5. ASSUME NEW d \in Dispatch, Propose(d) PROVE ListedInv'
  <2>1. PICK p \in Answers(NextAgent(d), DefOf(defs, NextAgent(d)), request[d].amount) :
          p \in Proposal /\ proposals' = [proposals EXCEPT ![d] = Append(@, p)]
    BY <1>5, ProposeAppends
  <2>2. /\ UNCHANGED <<file, table, eligible, dpc, disturbed>> /\ dpc[d] = "asking"
    BY <1>5 DEF Propose
  <2>3. NextAgent(d) \in Agent /\ Len(proposals[d]) + 1 \in DOMAIN eligible[d]
    BY <1>5, ProposeAppends DEF TypeOK
  <2>4. request[d].amount \in Nat /\ IsTable(defs, wmap)
    BY DispatcherAssumption DEF TypeOK
  <2>5. p.agent = NextAgent(d)
    BY <2>1, <2>3, <2>4, AnswerIsProposal, DefOfIsDef
  <2>6. \E c \in Known : \E j \in DOMAIN c.wmap : c.wmap[j] = p.agent
    <3>1. PICK c \in Known : eligible[d] = c.wmap
      BY <2>3 DEF ListedInv, IsMapped
    <3>2. QED
      BY <2>3, <2>5, <3>1 DEF NextAgent
  <2> DEFINE Given == \/ \E c \in Known' : Offers(c, p.agent, p.channel)
                      \/ p.channel = "whatsapp" /\ d \in disturbed'
  <2>7. ASSUME d \notin disturbed PROVE Given
    <3>1. PICK c \in Known' : Follows(d, c)'
      BY <2>2, <2>7 DEF FollowInv
    <3>2. /\ Len(proposals[d]) + 1 \in DOMAIN proposals'[d]
          /\ proposals'[d][Len(proposals[d]) + 1] = p
      BY <2>1 DEF TypeOK
    <3>3. Offers(c, p.agent, p.channel)
      BY <3>1, <3>2 DEF Follows
    <3>4. QED
      BY <3>1, <3>3
  <2>8. ASSUME d \in disturbed, NextAgent(d) \in DOMAIN defs PROVE Given
    <3>1. PICK c \in Known : /\ NextAgent(d) \in DOMAIN c.defs
                             /\ defs[NextAgent(d)] = c.defs[NextAgent(d)]
      BY <2>8 DEF ListedInv, DefsInv
    <3>2. Offers(c, p.agent, p.channel)
      BY <2>1, <2>3, <2>4, <2>5, <2>8, <3>1, AnswerIsOffered
    <3>3. QED
      BY <1>1, <3>1, <3>2
  <2>9. ASSUME d \in disturbed, NextAgent(d) \notin DOMAIN defs PROVE Given
    <3>1. DefOf(defs, NextAgent(d)).channels = <<"whatsapp">>
      BY <2>9 DEF DefOf
    <3>2. p.channel = "whatsapp"
      BY <2>1, <2>3, <2>4, <3>1, AnswerIsProposal, DefOfIsDef
    <3>3. QED
      BY <2>2, <2>9, <3>2
  <2>10. Given
    BY <2>7, <2>8, <2>9
  <2>11. /\ DOMAIN proposals'[d] = DOMAIN proposals[d] \cup {Len(proposals[d]) + 1}
         /\ proposals'[d][Len(proposals[d]) + 1] = p
         /\ \A i \in DOMAIN proposals[d] : proposals'[d][i] = proposals[d][i]
         /\ \A e \in Dispatch : e # d => proposals'[e] = proposals[e]
    BY <2>1 DEF TypeOK
  <2>12. ChannelWasListed'
    BY <1>1, <1>2, <2>6, <2>10, <2>11 DEF ChannelWasListed, ListedInv
  <2>13. \A e \in Dispatch : \A i \in DOMAIN proposals'[e] :
           proposals'[e][i].agent = eligible'[e][i]
    BY <2>2, <2>5, <2>11 DEF ListedInv, NextAgent
  <2>14. QED
    BY <1>1, <1>3, <2>2, <2>12, <2>13 DEF ListedInv, IsMapped
<1>6. CASE UNCHANGED <<eligible, proposals>>
  <2>1. ChannelWasListed'
    BY <1>1, <1>2, <1>6 DEF ChannelWasListed, ListedInv
  <2>2. QED
    BY <1>1, <1>3, <1>6, <2>1 DEF ListedInv, IsMapped
<1>7. QED
  BY <1>4, <1>5, <1>6
     DEF Next, EditFile, Restart, Load, ClearDefs, UpdateDefs, ClearMap, UpdateMap, Raise,
         Decide, dispatches, vars

LEMMA ListedInit == Init => ListedInv
<1> SUFFICES ASSUME Init PROVE ListedInv
  OBVIOUS
<1>1. file \in 1..Len(Config)
  BY DispatcherAssumption DEF Init
<1>2. Startup(file) \in Known /\ defs = Startup(file).defs /\ wmap = Startup(file).wmap
  BY <1>1, StartupIsKnown DEF Init
<1>3. \A d \in Dispatch : eligible[d] = <<>> /\ proposals[d] = <<>>
  BY DEF Init
<1>4. QED
  BY <1>2, <1>3 DEF ListedInv, DefsInv, IsMapped, ChannelWasListed

\* In the middle of overlapping reloads, too, agents and channels are those of some
\* configuration (generate_candidate_proposals, reload_agents).
THEOREM Listed == Spec => []ChannelWasListed
<1>1. TypeOK /\ IdleInv /\ ReloadInv /\ FollowInv /\ [Next]_vars => FollowInv'
  BY FollowStep
<1>2. TypeOK /\ IdleInv /\ FollowInv /\ FollowInv' /\ ListedInv /\ [Next]_vars => ListedInv'
  BY ListedStep
<1>3. ListedInv => ChannelWasListed
  BY DEF ListedInv
<1>4. QED
  BY <1>1, <1>2, <1>3, ListedInit, FollowInit, DispatcherInit, DispatcherStep, PTL DEF Spec

-------------------------------------------------------------------------------
\* The costs other than the discount outweigh the bonus of the channel, so that a
\* positive score leaves something after the discount.
LEMMA PositivePays ==
  ASSUME NEW p \in Proposal, NEW customer \in Customer, NEW amount \in Amount,
         Score(p, customer, amount) > 0
  PROVE  p.discount * Or(customer.sensitivity, 50) < EstRevenue(p, customer, amount)
<1> DEFINE e == EstRevenue(p, customer, amount)
           k == DiscountCost(p, customer)
<1>1. /\ customer.ltv \in Nat /\ customer.conversion \in Nat /\ customer.sensitivity \in Nat
      /\ amount \in Nat /\ p.discount \in Nat /\ p.confidence \in Nat
  <2>1. Percent \subseteq Nat
    BY DEF Percent
  <2>2. customer \in [ltv : Nat, conversion : Percent, sensitivity : Percent] /\ amount \in Nat
    BY DispatcherAssumption
  <2>3. p.discount \in Nat /\ p.confidence \in Percent
    BY DEF Proposal
  <2>4. QED
    BY <2>1, <2>2, <2>3
<1>2. e \in Int /\ k \in Int
  <2>1. Or(customer.conversion, 30) \in Nat /\ Or(customer.sensitivity, 50) \in Nat
    BY <1>1 DEF Or
  <2>2. \A x, y \in Nat : x * y \in Nat
    OBVIOUS
  <2>3. QED
    BY <1>1, <2>1, <2>2 DEF EstRevenue, DiscountCost
<1>3. ChurnRisk(p, customer) \in Nat
  BY <1>1 DEF ChurnRisk
<1>4. /\ ChannelFit(p.channel, customer) \in Nat /\ ChannelCost(p.channel) \in Nat
      /\ ChannelFit(p.channel, customer) <= ChannelCost(p.channel)
  BY DEF ChannelFit, ChannelCost
<1>5. e - ChurnRisk(p, customer) - k - ChannelCost(p.channel)
        + ChannelFit(p.channel, customer) > 0
  BY DEF Score
<1> HIDE DEF e, k
<1>6. k < e
  BY <1>2, <1>3, <1>4, <1>5
<1>7. QED
  BY <1>6 DEF e, k, DiscountCost

LEMMA WinnerStep ==
  TypeOK /\ WinnerEarnsItsDiscount /\ [Next]_vars => WinnerEarnsItsDiscount'
<1> SUFFICES ASSUME TypeOK, WinnerEarnsItsDiscount, [Next]_vars
             PROVE  WinnerEarnsItsDiscount'
  OBVIOUS
<1> USE DEF WinnerEarnsItsDiscount, DGoto
<1>1. ASSUME NEW d \in Dispatch, Decide(d) PROVE WinnerEarnsItsDiscount'
  <2>1. UNCHANGED <<proposals, request>>
        /\ \A e \in Dispatch : e # d => dpc'[e] = dpc[e] /\ winner'[e] = winner[e]
    BY <1>1 DEF Decide, TypeOK
  <2>2. ASSUME dpc'[d] = "won"
        PROVE  LET p == proposals[d][winner'[d]] IN
                 p.discount * Or(request[d].customer.sensitivity, 50)
                   < EstRevenue(p, request[d].customer, request[d].amount)
    <3>1. winner'[d] \in DOMAIN proposals[d] /\ ScoreOf(d, winner'[d]) > 0
      BY <1>1, <2>2 DEF Decide, TypeOK
    <3>2. proposals[d][winner'[d]] \in Proposal /\ request[d].customer \in Customer
          /\ request[d].amount \in Amount
      BY <3>1 DEF TypeOK
    <3>3. QED
      BY <3>1, <3>2, PositivePays DEF ScoreOf
  <2>3. QED
    BY <2>1, <2>2
<1>2. ASSUME NEW d \in Dispatch, Propose(d) PROVE WinnerEarnsItsDiscount'
  <2>1. /\ UNCHANGED <<dpc, request, winner>> /\ dpc[d] # "won"
        /\ \A e \in Dispatch : e # d => proposals'[e] = proposals[e]
    BY <1>2 DEF Propose, TypeOK
  <2>2. QED
    BY <2>1
<1>3. ASSUME NEW d \in Dispatch, LookUp(d) \/ Raise(d) PROVE WinnerEarnsItsDiscount'
  BY <1>3 DEF LookUp, Raise, TypeOK
<1>4. CASE Restart
  BY <1>4 DEF Restart, TypeOK
<1>5. CASE UNCHANGED dispatches
  BY <1>5 DEF dispatches
<1>6. QED
  BY <1>1, <1>2, <1>3, <1>4, <1>5
     DEF Next, EditFile, Load, ClearDefs, UpdateDefs, ClearMap, UpdateMap, vars

\* No winner gives away more than it is expected to bring, whatever discount the LLM
\* proposes (score_proposal, dispatch).
THEOREM WinnerPays == Spec => []WinnerEarnsItsDiscount
<1>1. Init => WinnerEarnsItsDiscount
  BY DEF Init, WinnerEarnsItsDiscount
<1>2. TypeOK /\ WinnerEarnsItsDiscount /\ [Next]_vars => WinnerEarnsItsDiscount'
  BY WinnerStep
<1>3. QED
  BY <1>1, <1>2, DispatcherInit, DispatcherStep, PTL DEF Spec

===============================================================================
