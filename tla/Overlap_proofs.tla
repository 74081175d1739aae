---------------------------- MODULE Overlap_proofs ---------------------------
(***************************************************************************)
(* How far overlapping sessions of Coordination may exceed a frequency cap *)
(* and a cooldown, for any rules, requests and clock, and any number of    *)
(* sessions.                                                               *)
(*                                                                         *)
(* The cap: take a window and its latest contact. The cap has counted the  *)
(* contacts decided before it; those decided after it, but dated before,   *)
(* were open while it was decided, so they are fewer than the sessions.    *)
(*                                                                         *)
(* The cooldown: a session contacts within a window only if its copy of    *)
(* the customer row is behind the window. Once the row itself is not, no   *)
(* further session gets such a copy, unless one that was late, with a      *)
(* proposal from before the window, puts the row back. Nobody becomes late *)
(* once the window has begun, so each of the at most Slots sessions puts   *)
(* it back at most once, and fewer of the others are left each time.       *)
(***************************************************************************)
EXTENDS Coordination_proofs, FiniteSetTheorems

LEMMA Clock == Start \in Nat /\ Step \in Nat \ {0} /\ Slots \in Nat \ {0}
  BY CoordinationAssumption

\* Sessions are as many as the slots; only clients date a proposal ahead or in
\* another zone; and until its caller labels it, a decision is "live".
SessionInv ==
  /\ IsFiniteSet(Open) /\ Cardinality(Open) <= Slots
  /\ IsFiniteSet(actions)
  /\ \A r \in Request : /\ act[r].dated \/ (act[r].at <= now /\ act[r].wall = act[r].at)
                        /\ pc[r] \in {"ticket", "audit", "label"} =>
                             decision[r].source = "live"

RequestNext ==
  \/ Tick
  \/ \E r \in Request :
       \/ Load(r) \/ Propose(r)
       \/ BlockUndispatched(r) \/ Suspend(r) \/ RecordTicket(r)
       \/ BlockByRule(r) \/ BlockByCollision(r) \/ Approve(r)
       \/ WriteAudit(r) \/ Label(r) \/ Abort(r)

\* A visit of a simulation is no step of the requests.
LEMMA VisitsAside == [Next]_vars => RequestNext \/ UNCHANGED requests
  BY DEF Next, RequestNext, Look, Reset, Read, Finish, requests, vars

\* At most one request begins, if a slot is free, and at most one gets its action row.
LEMMA OpenStep ==
  ASSUME TypeOK, Bookkeeping, [Next]_vars
  PROVE  \/ Open' \subseteq Open
         \/ \E r \in Request : Open' \subseteq Open \cup {r} /\ Cardinality(Open) < Slots
<1> USE DEF TypeOK, Open
<1>1. CASE Tick
  BY <1>1 DEF Tick
<1>2. ASSUME NEW r \in Request, Load(r)
      PROVE  Open' \subseteq Open \cup {r} /\ Cardinality(Open) < Slots
  BY <1>2 DEF Load
<1>3. ASSUME NEW r \in Request,
             Propose(r) \/ Suspend(r) \/ RecordTicket(r) \/ BlockByRule(r)
               \/ BlockByCollision(r) \/ Approve(r) \/ WriteAudit(r) \/ Label(r)
               \/ Abort(r) \/ BlockUndispatched(r)
      PROVE  Open' \subseteq Open
  BY <1>3 DEF Propose, Suspend, RecordTicket, BlockByRule, BlockByCollision, Approve,
              WriteAudit, Label, Abort, BlockUndispatched
<1>4. ASSUME NEW v \in Visit, Look(v) \/ Reset(v) \/ Read(v) \/ Finish(v)
      PROVE  Open' \subseteq Open
  BY <1>4 DEF Look, Reset, Read, Finish, requests
<1>5. CASE UNCHANGED vars
  BY <1>5 DEF vars
<1>6. QED
  BY <1>1, <1>2, <1>3, <1>4, <1>5 DEF Next

LEMMA ActionsStep ==
  ASSUME TypeOK, [Next]_vars
  PROVE  actions' = actions \/ \E r \in Request : actions' = actions \cup {r}
BY VisitsAside DEF RequestNext, Tick, Load, Propose, BlockUndispatched,
         Suspend, RecordTicket, BlockByRule, BlockByCollision, Approve, WriteAudit,
         Label, Abort, Decide, requests

LEMMA SubsetBound ==
  ASSUME NEW S, NEW T, IsFiniteSet(T), S \subseteq T
  PROVE  IsFiniteSet(S) /\ Cardinality(S) \in Nat /\ Cardinality(S) <= Cardinality(T)
BY FS_Subset, FS_CardinalityType

LEMMA OneMore ==
  ASSUME NEW S, NEW x, IsFiniteSet(S), NEW n \in Nat, Cardinality(S) < n
  PROVE  IsFiniteSet(S \cup {x}) /\ Cardinality(S \cup {x}) <= n
<1>1. Cardinality(S) \in Nat
  BY FS_CardinalityType
<1>2. /\ IsFiniteSet(S \cup {x})
      /\ Cardinality(S \cup {x}) = IF x \in S THEN Cardinality(S) ELSE Cardinality(S) + 1
  BY FS_AddElement
<1>3. QED
  BY ONLY <1>1, <1>2, n \in Nat, Cardinality(S) < n

LEMMA AtMost ==
  ASSUME NEW S, NEW T, IsFiniteSet(T), S \subseteq T, NEW n \in Nat, Cardinality(T) <= n
  PROVE  IsFiniteSet(S) /\ Cardinality(S) <= n
<1>1. Cardinality(T) \in Nat
  BY FS_CardinalityType
<1>2. IsFiniteSet(S) /\ Cardinality(S) \in Nat /\ Cardinality(S) <= Cardinality(T)
  BY SubsetBound
<1>3. QED
  BY ONLY <1>1, <1>2, n \in Nat, Cardinality(T) <= n

LEMMA SessionStep ==
  TypeOK /\ Bookkeeping /\ SessionInv /\ [Next]_vars => SessionInv'
<1> SUFFICES ASSUME TypeOK, Bookkeeping, SessionInv, [Next]_vars PROVE SessionInv'
  OBVIOUS
<1>1. IsFiniteSet(Open') /\ Cardinality(Open') <= Slots
  <2>1. Slots \in Nat
    BY Clock
  <2>2. IsFiniteSet(Open) /\ Cardinality(Open) <= Slots
    BY DEF SessionInv
  <2>3. CASE Open' \subseteq Open
    BY <2>1, <2>2, <2>3, AtMost
  <2>4. ASSUME NEW r \in Request, Open' \subseteq Open \cup {r}, Cardinality(Open) < Slots
        PROVE  IsFiniteSet(Open') /\ Cardinality(Open') <= Slots
    <3>1. IsFiniteSet(Open \cup {r}) /\ Cardinality(Open \cup {r}) <= Slots
      BY <2>1, <2>2, <2>4, OneMore
    <3>2. QED
      BY <2>1, <2>4, <3>1, AtMost
  <2>5. QED
    BY <2>3, <2>4, OpenStep
<1>2. IsFiniteSet(actions')
  BY ActionsStep, FS_AddElement DEF SessionInv
<1>3. ASSUME NEW s \in Request
      PROVE  act'[s].dated \/ (act'[s].at <= now' /\ act'[s].wall = act'[s].at)
  <2>1. /\ act[s] \in Action /\ act[s].at \in Nat /\ now \in Nat /\ now' \in Nat
        /\ act[s].dated \/ (act[s].at <= now /\ act[s].wall = act[s].at)
    BY TypeStep DEF TypeOK, Action, SessionInv
  <2>2. now <= now'
    <3>1. now' \in {now, now + Step}
      BY VisitsAside DEF RequestNext, Tick, Load, Propose, BlockUndispatched, Suspend,
         RecordTicket, BlockByRule, BlockByCollision, Approve, WriteAudit, Label, Abort,
         requests
    <3>2. QED
      BY <2>1, <3>1, Clock
  <2>3. CASE /\ act'[s].at = act[s].at /\ act'[s].wall = act[s].wall
             /\ act'[s].dated = act[s].dated
    BY <2>1, <2>2, <2>3
  <2>4. ASSUME NEW r \in Request, Propose(r)
        PROVE  act'[s].dated \/ (act'[s].at <= now' /\ act'[s].wall = act'[s].at)
    <3>1. CASE r = s /\ act' = [act EXCEPT ![r].at = now, ![r].wall = now]
      <4>1. act'[s].at = now /\ act'[s].wall = now
        BY <2>1, <3>1 DEF TypeOK, Action
      <4>2. QED
        BY <2>1, <2>2, <4>1
    <3>2. ASSUME r = s, NEW date \in ClientDates,
                 act' = [act EXCEPT ![r].at = date.at, ![r].wall = date.wall,
                                    ![r].dated = TRUE]
          PROVE  act'[s].dated
      BY <2>1, <3>2, Zenon DEF TypeOK, Action
    <3>3. CASE r # s
      BY <2>3, <2>4, <3>3 DEF Propose, TypeOK
    <3>4. QED
      BY <2>4, <3>1, <3>2, <3>3 DEF Propose
  <2>5. ASSUME NEW r \in Request, BlockUndispatched(r)
        PROVE  /\ act'[s].at = act[s].at /\ act'[s].wall = act[s].wall
               /\ act'[s].dated = act[s].dated
    BY <2>1, <2>5 DEF BlockUndispatched, TypeOK, Action
  <2>6. act' = act \/ \E r \in Request : Propose(r) \/ BlockUndispatched(r)
    BY VisitsAside DEF RequestNext, Tick, Load, Suspend, RecordTicket, BlockByRule,
         BlockByCollision, Approve, WriteAudit, Label, Abort, requests
  <2>7. QED
    BY <2>3, <2>4, <2>5, <2>6
<1>4. ASSUME NEW s \in Request, pc'[s] \in {"ticket", "audit", "label"}
      PROVE  decision'[s].source = "live"
  <2>1. pc \in [Request -> Phase] /\ decision \in [Request -> Decision]
    BY DEF TypeOK, Decision
  <2>2. pc[s] \in {"ticket", "audit", "label"} => decision[s].source = "live"
    BY DEF SessionInv
  <2>3. CASE UNCHANGED requests
    BY <1>4, <2>2, <2>3 DEF requests
  <2>4. CASE RequestNext
    <3>1. ASSUME NEW r \in Request,
                 Suspend(r) \/ BlockByRule(r) \/ BlockByCollision(r) \/ Approve(r)
          PROVE  decision'[s].source = "live"
      <4>1. \E verdict, why : Decide(r, verdict, why)
        BY <3>1 DEF Suspend, BlockByRule, BlockByCollision, Approve
      <4>2. pc'[s] = pc[s] \/ s = r
        BY <2>1, <3>1 DEF Suspend, BlockByRule, BlockByCollision, Approve
      <4>3. decision'[s].source = "live" \/ (s # r /\ decision'[s] = decision[s])
        BY <2>1, <4>1 DEF Decide
      <4>4. QED
        BY <1>4, <2>2, <4>2, <4>3
    <3>2. ASSUME NEW r \in Request, RecordTicket(r) \/ BlockUndispatched(r)
          PROVE  decision'[s].source = "live"
      BY <1>4, <2>1, <2>2, <3>2 DEF Decision, RecordTicket, BlockUndispatched
    <3>3. ASSUME NEW r \in Request,
                 Load(r) \/ Propose(r) \/ WriteAudit(r) \/ Label(r) \/ Abort(r)
          PROVE  decision'[s].source = "live"
      BY <1>4, <2>1, <2>2, <3>3 DEF Load, Propose, WriteAudit, Label, Abort
    <3>4. CASE Tick
      BY <1>4, <2>2, <3>4 DEF Tick
    <3>5. QED
      BY <2>4, <3>1, <3>2, <3>3, <3>4 DEF RequestNext
  <2>5. QED
    BY <2>3, <2>4, VisitsAside
<1>5. QED
  BY <1>1, <1>2, <1>3, <1>4 DEF SessionInv

LEMMA SessionHolds == Spec => []SessionInv
<1>1. Init => SessionInv
  <2> SUFFICES ASSUME Init PROVE SessionInv
    OBVIOUS
  <2>1. Open = {} /\ actions = {}
    BY DEF Init, Open
  <2>2. ASSUME NEW r \in Request PROVE act[r].at = 0 /\ act[r].wall = 0 /\ pc[r] = "idle"
    BY DEF Init, ActionOf
  <2>3. now \in Nat /\ 0 <= now /\ 0 <= Slots
    BY Clock DEF Init
  <2>4. IsFiniteSet(Open) /\ Cardinality(Open) <= Slots /\ IsFiniteSet(actions)
    BY <2>1, <2>3, FS_EmptySet
  <2>5. QED
    BY <2>2, <2>3, <2>4 DEF SessionInv
<1>2. QED
  BY <1>1, SessionStep, TypeCorrect, BookkeepingHolds, PTL DEF Spec

\* No step gives a request to another customer.
LEMMA CustomerKept ==
  ASSUME TypeOK, [Next]_vars
  PROVE  \A s \in Request : act'[s].cust = act[s].cust
<1>1. ASSUME NEW r \in Request, Propose(r) \/ BlockUndispatched(r), NEW s \in Request
      PROVE  act'[s].cust = act[s].cust
  <2>1. act[s] \in Action
    BY DEF TypeOK
  <2>2. CASE Propose(r)
    <3>1. CASE act' = [act EXCEPT ![r].at = now, ![r].wall = now]
      BY <2>1, <3>1 DEF TypeOK, Action
    <3>2. ASSUME NEW date \in ClientDates,
                 act' = [act EXCEPT ![r].at = date.at, ![r].wall = date.wall,
                                    ![r].dated = TRUE]
          PROVE  act'[s].cust = act[s].cust
      BY <2>1, <3>2, Zenon DEF TypeOK, Action
    <3>3. QED
      BY <2>2, <3>1, <3>2 DEF Propose
  <2>3. CASE BlockUndispatched(r)
    BY <2>1, <2>3 DEF BlockUndispatched, TypeOK, Action
  <2>4. QED
    BY <1>1, <2>2, <2>3
<1>2. act' = act \/ \E r \in Request : Propose(r) \/ BlockUndispatched(r)
  BY VisitsAside DEF RequestNext, Tick, Load, Suspend, RecordTicket, BlockByRule,
         BlockByCollision, Approve, WriteAudit, Label, Abort, requests
<1>3. QED
  BY <1>1, <1>2

-------------------------------------------------------------------------------
\* The first part: rules of the kind frequency_cap.
Capped(rule) ==
  /\ rule \in Rules /\ Unscoped(rule)
  /\ rule.kind = "frequency_cap" /\ rule.config.max_contacts > 0

\* The contacts that a window of a rule ending at t holds.
Window(c, rule, t) ==
  {s \in Contacts(c) : act[s].at <= t /\ t - act[s].at <= rule.config.window_hours * Hour}

\* Proposals not decided yet and dated before t.
Earlier(t) == {s \in Request : pc[s] = "proposed" /\ ~act[s].dated /\ act[s].at < t}

Near(c, rule, t) == Window(c, rule, t) \cup Earlier(t)

\* Only a session that is deciding may still enter a window that is over: counting
\* those sessions with it makes the bound inductive.
CapInv ==
  \A c \in Customer : \A rule \in Rules : Capped(rule) =>
    \A r \in Contacts(c) :
      Cardinality(Near(c, rule, act[r].at)) <= rule.config.max_contacts + Slots - 1

\* What the proof needs of a contact.
LEMMA ContactFacts ==
  ASSUME TypeOK, Bookkeeping, SessionInv, NEW c \in Customer, NEW r \in Contacts(c)
  PROVE  /\ r \in Request /\ r \in actions /\ r \in Approved(c)
         /\ act[r].at \in Nat /\ act[r].at <= now /\ ~act[r].dated
         /\ act[r].wall = act[r].at /\ act[r].at >= SimulationEnd
         /\ decision[r].source \in {"live", "fallback"}
<1>1. /\ r \in Request /\ r \in Approved(c) /\ ~act[r].dated
      /\ decision[r].source \in CountedSources(act[r].wall)
      /\ decision[r].verdict = "approved"
  BY DEF Contacts, Approved
<1>2. act[r].at \in Nat /\ decision[r].source # "simulation"
  BY <1>1 DEF TypeOK, Action
<1>3. SimulationEnd \in Nat
  BY SimulationEndAssumption
<1>4. /\ act[r].wall = act[r].at /\ act[r].at >= SimulationEnd
      /\ decision[r].source \in {"live", "fallback"}
  BY <1>1, <1>2, <1>3 DEF CountedSources, SessionInv
<1>5. r \in actions
  BY <1>1 DEF Bookkeeping
<1>6. act[r].at <= now
  BY <1>1 DEF SessionInv
<1>7. QED
  BY <1>1, <1>2, <1>4, <1>5, <1>6

LEMMA NearFinite ==
  ASSUME TypeOK, Bookkeeping, SessionInv, NEW c \in Customer, NEW rule, NEW t
  PROVE  /\ IsFiniteSet(Window(c, rule, t)) /\ IsFiniteSet(Earlier(t))
         /\ Earlier(t) \subseteq Open
         /\ IsFiniteSet(Near(c, rule, t))
<1>1. Window(c, rule, t) \subseteq actions
  BY ContactFacts DEF Window
<1>2. Earlier(t) \subseteq Open
  BY DEF Earlier, Open
<1>3. IsFiniteSet(actions) /\ IsFiniteSet(Open)
  BY DEF SessionInv
<1>4. IsFiniteSet(Window(c, rule, t)) /\ IsFiniteSet(Earlier(t))
  BY <1>1, <1>2, <1>3, FS_Subset
<1>5. IsFiniteSet(Near(c, rule, t))
  BY <1>4, FS_Union DEF Near
<1>6. QED
  BY <1>2, <1>4, <1>5

\* The caller's label is the one change of a decision's source.
LEMMA SourceStep ==
  ASSUME TypeOK, Bookkeeping, SessionInv, [Next]_vars, NEW s \in Request,
         decision[s].verdict = "approved"
  PROVE  decision[s].source \in {"live", decision'[s].source}
<1> USE DEF TypeOK, Bookkeeping
<1>1. ASSUME NEW r \in Request, Label(r) PROVE decision[s].source \in {"live", decision'[s].source}
  BY <1>1 DEF Label, SessionInv
<1>2. ASSUME NEW r \in Request, RecordTicket(r)
      PROVE  decision'[s].source = decision[s].source
  BY <1>2 DEF RecordTicket
<1>3. ASSUME NEW r \in Request,
             Suspend(r) \/ BlockByRule(r) \/ BlockByCollision(r) \/ Approve(r)
               \/ BlockUndispatched(r)
      PROVE  decision'[s].source = decision[s].source
  <2>1. s # r
    BY <1>3 DEF Suspend, BlockByRule, BlockByCollision, Approve, BlockUndispatched
  <2>2. QED
    BY <1>3, <2>1 DEF Suspend, BlockByRule, BlockByCollision, Approve, BlockUndispatched,
                      Decide
<1>4. QED
  BY <1>1, <1>2, <1>3, VisitsAside DEF RequestNext, Tick, Load, Propose,
         WriteAudit, Abort, requests

\* Nobody dates a new proposal before an instant that has passed.
LEMMA EarlierStep ==
  ASSUME TypeOK, Bookkeeping, [Next]_vars, NEW s \in Request, NEW t \in Nat, t <= now,
         pc'[s] = "proposed", ~act'[s].dated, act'[s].at < t
  PROVE  s \in Earlier(t)
<1>1. act[s] \in Action /\ now \in Nat
  BY DEF TypeOK
<1>2. CASE pc[s] = "proposed" /\ act'[s] = act[s]
  BY <1>2 DEF Earlier
<1>3. ASSUME NEW r \in Request, Propose(r) PROVE s \in Earlier(t)
  <2>1. CASE s # r
    <3>1. pc[s] = "proposed" /\ act'[s] = act[s]
      BY <1>3, <2>1 DEF Propose, TypeOK
    <3>2. QED
      BY <1>2, <3>1
  <2>2. CASE s = r /\ act' = [act EXCEPT ![r].at = now, ![r].wall = now]
    <3>1. act'[s].at = now
      BY <1>1, <2>2 DEF TypeOK, Action
    <3>2. QED
      BY <1>1, <3>1
  <2>3. ASSUME s = r, NEW date \in ClientDates,
               act' = [act EXCEPT ![r].at = date.at, ![r].wall = date.wall,
                                  ![r].dated = TRUE]
        PROVE  act'[s].dated
    BY <1>1, <2>3, Zenon DEF TypeOK, Action
  <2>4. QED
    BY <1>3, <2>1, <2>2, <2>3 DEF Propose
<1>4. ASSUME ~ \E r \in Request : Propose(r)
      PROVE  pc[s] = "proposed" /\ act'[s] = act[s]
  BY <1>4, VisitsAside DEF TypeOK, RequestNext, Tick, Load, BlockUndispatched,
         Suspend, RecordTicket, BlockByRule, BlockByCollision, Approve, WriteAudit,
         Label, Abort, requests
<1>5. QED
  BY <1>2, <1>3, <1>4

\* A step that approves nothing adds nothing to a window and what may enter it.
LEMMA QuietStep ==
  ASSUME TypeOK, Bookkeeping, SessionInv, [Next]_vars, ApprovalsKept, CapInv
  PROVE  CapInv'
<1> SUFFICES ASSUME NEW c \in Customer, NEW rule \in Rules, Capped(rule),
                    NEW r \in Contacts(c)'
             PROVE  Cardinality(Near(c, rule, act[r].at)')
                      <= rule.config.max_contacts + Slots - 1
  BY DEF CapInv, Capped, Unscoped
<1>1. ASSUME NEW s \in Contacts(c)' PROVE s \in Contacts(c) /\ act'[s] = act[s]
  <2>1. /\ s \in Request /\ decision'[s].verdict = "approved" /\ act'[s].cust = c
        /\ decision'[s].source \in CountedSources(act'[s].wall) /\ ~act'[s].dated
    BY <1>1 DEF Contacts, Approved
  <2>2. decision[s].verdict = "approved" /\ act'[s] = act[s]
    BY <2>1 DEF ApprovalsKept
  <2>3. decision[s].source \in {"live", decision'[s].source}
    BY <2>1, <2>2, SourceStep
  <2>4. decision'[s].source # "simulation"
    BY <2>1, TypeStep DEF TypeOK
  <2>5. decision[s].source \in CountedSources(act[s].wall)
    BY <2>1, <2>2, <2>3, <2>4 DEF CountedSources
  <2>6. QED
    BY <2>1, <2>2, <2>5 DEF Contacts, Approved
<1>2. /\ r \in Contacts(c) /\ act'[r] = act[r]
      /\ act[r].at \in Nat /\ act[r].at <= now
  BY <1>1, ContactFacts
<1>3. Near(c, rule, act[r].at)' \subseteq Near(c, rule, act[r].at)
  <2> SUFFICES ASSUME NEW s \in Near(c, rule, act[r].at)'
               PROVE  s \in Near(c, rule, act[r].at)
    OBVIOUS
  <2>1. CASE s \in Window(c, rule, act[r].at)'
    BY <1>1, <1>2, <2>1 DEF Window, Near
  <2>2. CASE s \in Earlier(act[r].at)'
    BY <1>2, <2>2, EarlierStep DEF Earlier, Near
  <2>3. QED
    BY <2>1, <2>2 DEF Near
<1>4. IsFiniteSet(Near(c, rule, act[r].at))
  BY NearFinite
<1>5. /\ Cardinality(Near(c, rule, act[r].at)) <= rule.config.max_contacts + Slots - 1
      /\ rule.config.max_contacts + Slots - 1 \in Nat
  BY <1>2, CoordinationAssumption DEF CapInv, Capped
<1>6. QED
  BY <1>3, <1>4, <1>5, AtMost

LEMMA HistoryFinite ==
  ASSUME Bookkeeping, SessionInv, NEW c
  PROVE  IsFiniteSet(History(c))
<1> DEFINE f == [r \in Approved(c) |->
                   [id |-> r, at |-> act[r].wall, source |-> decision[r].source]]
<1>1. Approved(c) \subseteq actions /\ IsFiniteSet(actions)
  BY DEF Approved, Bookkeeping, SessionInv
<1>2. IsFiniteSet(Approved(c))
  BY <1>1, FS_Subset
<1>3. /\ f \in [Approved(c) -> History(c)]
      /\ \A h \in History(c) : \E r \in Approved(c) : f[r] = h
  BY DEF History
<1>4. f \in Surjection(Approved(c), History(c))
  BY <1>3 DEF Surjection
<1>5. QED
  BY <1>2, <1>4, FS_Surjection

\* A rule that lets a pass has counted fewer contacts than its cap in the window
\* that a closes.
LEMMA WindowCounted ==
  ASSUME TypeOK, Bookkeeping, SessionInv, NEW c \in Customer,
         NEW rule \in Rules, Capped(rule), NEW a \in Request, act[a].cust = c,
         act[a].at >= SimulationEnd, act[a].wall = act[a].at, Approve(a)
  PROVE  Cardinality(Window(c, rule, act[a].at)) <= rule.config.max_contacts - 1
<1> DEFINE W == Window(c, rule, act[a].at)
           H == InWindow(History(c), act[a], rule.config.window_hours)
           entry == [s \in Request |->
                       [id |-> s, at |-> act[s].wall, source |-> decision[s].source]]
<1>1. /\ rule.config.max_contacts \in Int /\ rule.config.window_hours \in Int
      /\ SimulationEnd \in Nat
      /\ \A s \in Request : act[s].at \in Nat
  BY CoordinationAssumption, SimulationEndAssumption DEF Capped, TypeOK, Action
<1>2. IsFiniteSet(History(c))
  BY HistoryFinite
<1>3. H \subseteq History(c)
  BY DEF InWindow, Counted
<1>4. IsFiniteSet(H) /\ Cardinality(H) \in Nat
  BY <1>2, <1>3, FS_Subset, FS_CardinalityType
<1>5. Cardinality(H) < rule.config.max_contacts
  <2>1. Applies(rule, act[a])
    BY DEF Capped, Unscoped, Applies
  <2>2. ~ RuleBlocks(rule, act[a], snap[a], History(c))
    BY <2>1 DEF Approve, Passes, Blocking
  <2>3. ~ (Cardinality(H) >= rule.config.max_contacts)
    BY <2>2 DEF RuleBlocks, FrequencyCapBlocks, Capped
  <2>4. QED
    BY <1>1, <1>4, <2>3
<1>6. ASSUME NEW s \in W PROVE entry[s] \in H
  <2>1. /\ s \in Contacts(c) /\ act[s].at <= act[a].at
        /\ act[a].at - act[s].at <= rule.config.window_hours * Hour
    BY DEF Window
  <2>2. /\ s \in Request /\ s \in Approved(c) /\ act[s].wall = act[s].at
        /\ decision[s].source \in {"live", "fallback"}
    BY <2>1, ContactFacts
  <2>3. entry[s] \in History(c)
    BY <2>2 DEF History
  <2>4. entry[s].source \in CountedSources(act[a].wall)
    BY <1>1, <2>2 DEF CountedSources
  <2>5. act[a].at - rule.config.window_hours * Hour <= act[s].at
    BY <1>1, <2>1, <2>2 DEF Hour
  <2>6. QED
    BY <2>1, <2>2, <2>3, <2>4, <2>5 DEF InWindow, Counted
<1>7. IsFiniteSet(W) /\ Cardinality(W) <= Cardinality(H)
  <2> DEFINE g == [s \in W |-> entry[s]]
  <2>1. g \in [W -> H]
    BY <1>6
  <2>2. \A s, u \in W : g[s] = g[u] => s = u
    <3>1. W \subseteq Request
      BY DEF Window, Contacts, Approved
    <3>2. QED
      BY <3>1
  <2>3. g \in Injection(W, H)
    BY <2>1, <2>2 DEF Injection, IsInjective
  <2>4. QED
    BY <1>4, <2>3, FS_Injection
<1>8. Cardinality(W) \in Nat
  BY <1>7, FS_CardinalityType
<1>9. QED
  BY <1>1, <1>4, <1>5, <1>7, <1>8

LEMMA SumBound ==
  ASSUME NEW S, NEW T, NEW m \in Int, NEW n \in Nat, IsFiniteSet(S), IsFiniteSet(T),
         Cardinality(S) <= m, Cardinality(T) <= n
  PROVE  Cardinality(S \cup T) <= m + n
<1>1. /\ Cardinality(S) \in Nat /\ Cardinality(T) \in Nat
      /\ Cardinality(S \cap T) \in Nat
  <2>1. IsFiniteSet(S \cap T)
    BY FS_Subset
  <2>2. QED
    BY <2>1, FS_CardinalityType
<1>2. Cardinality(S \cup T) = Cardinality(S) + Cardinality(T) - Cardinality(S \cap T)
  BY FS_Union
<1>3. QED
  BY ONLY <1>1, <1>2, m \in Int, n \in Nat, Cardinality(S) <= m, Cardinality(T) <= n

\* An approval a moves from the proposals before a window into it, stays outside,
\* or closes a window that its rule has just counted.
LEMMA ApproveStep ==
  ASSUME TypeOK, Bookkeeping, SessionInv, CapInv, NEW a \in Request, Approve(a)
  PROVE  CapInv'
<1> SUFFICES ASSUME NEW c \in Customer, NEW rule \in Rules, Capped(rule),
                    NEW r \in Contacts(c)'
             PROVE  Cardinality(Near(c, rule, act[r].at)')
                      <= rule.config.max_contacts + Slots - 1
  BY DEF CapInv, Capped, Unscoped
<1>1. /\ act' = act /\ decision[a].verdict = "none"
      /\ \A s \in Request \ {a} : decision'[s] = decision[s]
  BY ApproveEffect
<1>2. ASSUME NEW s \in Contacts(c)' PROVE s \in Contacts(c) \cup {a}
  BY <1>1, <1>2 DEF Contacts, Approved
<1>3. /\ decision'[a].source = "live" /\ pc[a] = "proposed" /\ pc' = [pc EXCEPT ![a] = "label"]
  BY DEF Approve, Decide, TypeOK
<1>4. /\ Slots \in Nat /\ rule.config.max_contacts \in Int /\ rule.config.max_contacts > 0
      /\ rule.config.max_contacts + Slots - 1 \in Nat
  BY CoordinationAssumption DEF Capped
<1>5. \A s \in Request : act[s].at \in Nat
  BY DEF TypeOK, Action
<1>6. r \in Request /\ ~act[r].dated
  BY <1>1 DEF Contacts, Approved
<1>7. Earlier(act[r].at)' \subseteq Earlier(act[r].at) /\ a \notin Earlier(act[r].at)'
  BY <1>1, <1>3 DEF Earlier, TypeOK
<1>8. CASE r # a /\ (a \notin Window(c, rule, act[r].at)' \/ act[a].at < act[r].at)
  <2>1. r \in Contacts(c)
    BY <1>2, <1>8
  <2>2. Near(c, rule, act[r].at)' \subseteq Near(c, rule, act[r].at)
    <3>1. ASSUME NEW s \in Window(c, rule, act[r].at)', s # a
          PROVE  s \in Window(c, rule, act[r].at)
      BY <1>1, <1>2, <3>1 DEF Window
    <3>2. ASSUME a \in Window(c, rule, act[r].at)' PROVE a \in Earlier(act[r].at)
      <4>1. ~act[a].dated
        BY <1>1, <3>2 DEF Window, Contacts
      <4>2. QED
        BY <1>3, <1>8, <3>2, <4>1 DEF Earlier
    <3>3. QED
      BY <1>7, <3>1, <3>2 DEF Near
  <2>3. Cardinality(Near(c, rule, act[r].at)) <= rule.config.max_contacts + Slots - 1
    BY <2>1 DEF CapInv
  <2>4. IsFiniteSet(Near(c, rule, act[r].at))
    BY NearFinite
  <2>5. QED
    BY <1>4, <2>2, <2>3, <2>4, AtMost
<1>9. CASE a \in Contacts(c)' /\ act[a].at = act[r].at
  <2>1. act[a].cust = c /\ act[a].wall = act[a].at /\ act[a].at >= SimulationEnd
    <3>1. /\ decision'[a].source \in CountedSources(act[a].wall) /\ act[a].cust = c
          /\ ~act[a].dated
      BY <1>1, <1>9 DEF Contacts, Approved
    <3>2. act[a].wall = act[a].at
      BY <3>1 DEF SessionInv
    <3>3. QED
      BY <1>3, <1>5, <3>1, <3>2, SimulationEndAssumption DEF CountedSources
  <2>2. Cardinality(Window(c, rule, act[r].at)) <= rule.config.max_contacts - 1
    BY <1>9, <2>1, WindowCounted
  <2>3. Near(c, rule, act[r].at)' \subseteq Window(c, rule, act[r].at) \cup Open
    <3>1. ASSUME NEW s \in Window(c, rule, act[r].at)', s # a
          PROVE  s \in Window(c, rule, act[r].at)
      BY <1>1, <1>2, <3>1 DEF Window
    <3>2. a \in Open
      BY <1>3 DEF Open
    <3>3. Earlier(act[r].at) \subseteq Open
      BY DEF Earlier, Open
    <3>4. QED
      BY <1>7, <3>1, <3>2, <3>3 DEF Near
  <2>4. /\ IsFiniteSet(Window(c, rule, act[r].at))
        /\ IsFiniteSet(Open) /\ Cardinality(Open) <= Slots
    BY NearFinite DEF SessionInv
  <2>5. /\ IsFiniteSet(Window(c, rule, act[r].at) \cup Open)
        /\ Cardinality(Window(c, rule, act[r].at) \cup Open)
             <= (rule.config.max_contacts - 1) + Slots
    <3>1. rule.config.max_contacts - 1 \in Int /\ Slots \in Nat
      BY <1>4
    <3>2. Cardinality(Window(c, rule, act[r].at) \cup Open)
            <= (rule.config.max_contacts - 1) + Slots
      BY <2>2, <2>4, <3>1, SumBound
    <3>3. QED
      BY <2>4, <3>2, FS_Union
  <2>6. (rule.config.max_contacts - 1) + Slots = rule.config.max_contacts + Slots - 1
    BY <1>4
  <2>7. QED
    BY <1>4, <2>3, <2>5, <2>6, AtMost
<1>10. QED
  <2>1. a \in Window(c, rule, act[r].at)' => a \in Contacts(c)' /\ act[a].at <= act[r].at
    BY <1>1 DEF Window
  <2>2. act[a].at <= act[r].at => act[a].at < act[r].at \/ act[a].at = act[r].at
    BY <1>5, <1>6
  <2>3. QED
    BY <1>8, <1>9, <2>1, <2>2

\* A visit leaves requests, actions and decisions alone.
LEMMA CapVisit ==
  ASSUME NEW v \in Visit, Reset(v) \/ Finish(v), CapInv
  PROVE  CapInv'
<1>1. act' = act /\ decision' = decision /\ pc' = pc
  BY DEF Reset, Finish, requests
<1>2. QED
  BY <1>1 DEF CapInv, Capped, Unscoped, Near, Window, Earlier, Contacts, Approved

LEMMA CapHolds == Spec => []CapInv
<1>1. Init => CapInv
  BY DEF Init, CapInv, Contacts, Approved, Undecided
<1>2. TypeOK /\ Bookkeeping /\ SessionInv /\ CapInv /\ [Next]_vars => CapInv'
  BY ApprovalStep, QuietStep, ApproveStep, CapVisit
<1>3. QED
  BY <1>1, <1>2, TypeCorrect, BookkeepingHolds, SessionHolds, PTL DEF Spec

\* However many sessions overlap, no window of an unscoped frequency cap holds more
\* contacts than the cap and one for every other session that may be open.
THEOREM FrequencyOvershoot == Spec => []FrequencyOvershootBounded
<1>1. TypeOK /\ Bookkeeping /\ SessionInv /\ CapInv => FrequencyOvershootBounded
  <2> SUFFICES ASSUME TypeOK, Bookkeeping, SessionInv, CapInv,
                      NEW c \in Customer, NEW rule \in Rules, Capped(rule),
                      NEW r \in Contacts(c)
               PROVE  Cardinality(Window(c, rule, act[r].at))
                        <= rule.config.max_contacts + Slots - 1
    BY DEF FrequencyOvershootBounded, Capped, Window
  <2>1. Cardinality(Near(c, rule, act[r].at)) <= rule.config.max_contacts + Slots - 1
    BY DEF CapInv
  <2>2. rule.config.max_contacts + Slots - 1 \in Nat
    BY CoordinationAssumption DEF Capped
  <2>3. Window(c, rule, act[r].at) \subseteq Near(c, rule, act[r].at)
    BY DEF Near
  <2>4. IsFiniteSet(Near(c, rule, act[r].at))
    BY NearFinite
  <2>5. QED
    BY <2>1, <2>2, <2>3, <2>4, AtMost
<1>2. QED
  BY <1>1, TypeCorrect, BookkeepingHolds, SessionHolds, CapHolds, PTL

-------------------------------------------------------------------------------
\* No unscoped rule blocks what is approved.
LEMMA RulePassed ==
  ASSUME NEW a \in Request, Approve(a), NEW rule \in Rules, Unscoped(rule)
  PROVE  ~ RuleBlocks(rule, act[a], snap[a], History(act[a].cust))
BY DEF Approve, Passes, Blocking, Unscoped, Applies

\* The second part: rules of the kind cooldown.
Timed(rule) == Unscoped(rule) /\ rule.kind = "cooldown"

Undated(c) == \A r \in Approved(c) : ~act[r].dated

\* No simulation generates this customer.
Unvisited(c) == \A v \in Visit : VisitTo[v] # c

\* Sessions that overlap may pass an unscoped cooldown: a session compares with the
\* last contact as it has read it, and whoever commits last overwrites that column,
\* also with an earlier date, which lets further sessions read it. Without dates from
\* clients and simulations that empty the column, no window of the rule's length
\* holds more contacts than one for each session, one more for each but one, and so
\* on: half of Slots * (Slots + 1).
CooldownOvershootBounded ==
  \A c \in Customer : \A rule \in Rules :
    /\ Unscoped(rule) /\ rule.kind = "cooldown"
    /\ Unvisited(c) /\ \A r \in Approved(c) : ~act[r].dated
    => \A r \in Approved(c) :
         2 * Cardinality({s \in Approved(c) :
                /\ act[s].at <= act[r].at
                /\ act[r].at - act[s].at < rule.config.cooldown_hours * Hour})
           <= Slots * (Slots + 1)

Gap(rule) == rule.config.cooldown_hours * Hour

\* The contacts that a window of a cooldown ending at t holds.
Within(c, rule, t) ==
  {s \in Approved(c) : act[s].at <= t /\ t - act[s].at < Gap(rule)}

\* A last contact that does not keep a session out of that window.
Behind(last, rule, t) == last = Never \/ t - last >= Gap(rule)

\* Proposals dated before the window: they may put the row back behind it.
Late(c, rule, t) ==
  {s \in Request : /\ pc[s] = "proposed" /\ act[s].cust = c /\ ~act[s].dated
                   /\ t - act[s].at >= Gap(rule)}

\* The other sessions whose copy of the row lets them contact within the window.
Ready(c, rule, t) ==
  {s \in Request \ Late(c, rule, t) :
     /\ pc[s] \in {"loaded", "proposed"} /\ act[s].cust = c
     /\ Behind(snap[s].last, rule, t)}

\* Twice the sum of the z largest numbers up to n.
TwiceSum(n, z) == z * (2 * n - z + 1)

\* Within a window that holds a contact: a row behind it lets every session in that is
\* not late, a row in it only those which are ready, until a late one puts it back.
Overshoot(c, rule, t) ==
  IF Behind(row[c].last, rule, t)
  THEN 2 * Cardinality(Within(c, rule, t)) + TwiceSum(Slots, Cardinality(Late(c, rule, t)) + 1)
         <= Slots * (Slots + 1)
  ELSE 2 * Cardinality(Within(c, rule, t)) + 2 * Cardinality(Ready(c, rule, t))
         + TwiceSum(Slots, Cardinality(Late(c, rule, t))) <= Slots * (Slots + 1)

CooldownInv ==
  \A c \in Customer : \A rule \in Rules : Timed(rule) /\ Unvisited(c) /\ Undated(c) =>
    \A t \in Nat : Within(c, rule, t) # {} => Overshoot(c, rule, t)

LEMMA TwiceSumNext ==
  ASSUME NEW n \in Nat, NEW z \in Nat
  PROVE  /\ TwiceSum(n, z) \in Int
         /\ TwiceSum(n, z + 1) = TwiceSum(n, z) + 2 * (n - z)
BY DEF TwiceSum

LEMMA TwiceSumGrows ==
  ASSUME NEW n \in Nat, NEW x \in Nat, NEW y \in Nat, x <= y, y <= n + 1
  PROVE  TwiceSum(n, x) <= TwiceSum(n, y)
<1> DEFINE d == y - x
           e == 2 * n + 1 - x - y
<1>1. CASE x = y
  BY <1>1 DEF TwiceSum
<1>2. CASE x < y
  <2>1. d \in Nat /\ e \in Nat
    BY <1>2
  <2>2. d * e >= 0
    BY <2>1
  <2>3. TwiceSum(n, y) = TwiceSum(n, x) + d * e
    BY DEF TwiceSum
  <2>4. TwiceSum(n, x) \in Int /\ d * e \in Int
    BY TwiceSumNext, <2>1
  <2>5. QED
    BY ONLY <2>2, <2>3, <2>4
<1>3. QED
  BY <1>1, <1>2

LEMMA TwiceSumAll ==
  ASSUME NEW n \in Nat
  PROVE  TwiceSum(n, n) = n * (n + 1)
BY DEF TwiceSum

LEMMA TimedFacts ==
  ASSUME NEW rule \in Rules, Timed(rule)
  PROVE  Gap(rule) \in Int /\ Slots \in Nat /\ Slots >= 1
BY CoordinationAssumption DEF Timed, Gap, Hour

\* The late and the ready sessions are different ones among those open.
LEMMA OvershootSets ==
  ASSUME TypeOK, Bookkeeping, SessionInv, NEW c, NEW rule, NEW t
  PROVE  /\ IsFiniteSet(Within(c, rule, t)) /\ Cardinality(Within(c, rule, t)) \in Nat
         /\ IsFiniteSet(Late(c, rule, t)) /\ Cardinality(Late(c, rule, t)) \in Nat
         /\ IsFiniteSet(Ready(c, rule, t)) /\ Cardinality(Ready(c, rule, t)) \in Nat
         /\ Late(c, rule, t) \cup Ready(c, rule, t) \subseteq Open
         /\ Late(c, rule, t) \cap Ready(c, rule, t) = {}
<1>1. Within(c, rule, t) \subseteq actions
  BY DEF Within, Approved, Bookkeeping
<1>2. Late(c, rule, t) \subseteq Open /\ Ready(c, rule, t) \subseteq Open
  BY DEF Late, Ready, Open
<1>3. Late(c, rule, t) \cap Ready(c, rule, t) = {}
  BY DEF Ready
<1>4. IsFiniteSet(actions) /\ IsFiniteSet(Open)
  BY DEF SessionInv
<1>5. QED
  BY <1>1, <1>2, <1>3, <1>4, SubsetBound

LEMMA DisjointBound ==
  ASSUME NEW S, NEW T, NEW U, IsFiniteSet(U), S \subseteq U, T \subseteq U, S \cap T = {}
  PROVE  Cardinality(S) + Cardinality(T) <= Cardinality(U)
<1>1. IsFiniteSet(S) /\ IsFiniteSet(T) /\ Cardinality(S) \in Nat /\ Cardinality(T) \in Nat
  BY SubsetBound
<1>2. Cardinality(S \cup T) = Cardinality(S) + Cardinality(T) - Cardinality(S \cap T)
  BY <1>1, FS_Union
<1>3. Cardinality(S \cap T) = 0
  BY FS_EmptySet
<1>4. S \cup T \subseteq U
  OBVIOUS
<1>5. Cardinality(S \cup T) <= Cardinality(U)
  BY <1>4, SubsetBound
<1>6. QED
  BY <1>1, <1>2, <1>3, <1>5

\* Beside a session that is not late, at most the other slots are late or ready.
LEMMA LateReadyBound ==
  ASSUME TypeOK, Bookkeeping, SessionInv, NEW c, NEW rule, NEW t, NEW a \in Open,
         a \notin Late(c, rule, t)
  PROVE  /\ Cardinality(Ready(c, rule, t) \ {a}) \in Nat
         /\ Cardinality(Late(c, rule, t)) + Cardinality(Ready(c, rule, t) \ {a}) <= Slots - 1
<1> DEFINE R == Ready(c, rule, t) \ {a}
<1>1. /\ Late(c, rule, t) \subseteq Open \ {a} /\ R \subseteq Open \ {a}
      /\ Late(c, rule, t) \cap R = {}
      /\ Cardinality(Late(c, rule, t)) \in Nat
  BY OvershootSets
<1>2. IsFiniteSet(Open) /\ Cardinality(Open) <= Slots /\ Cardinality(Open) \in Nat
  BY FS_CardinalityType DEF SessionInv
<1>3. IsFiniteSet(Open \ {a}) /\ Cardinality(Open \ {a}) = Cardinality(Open) - 1
  BY <1>2, FS_RemoveElement
<1>4. Cardinality(R) \in Nat
  BY <1>1, <1>3, SubsetBound
<1>5. Cardinality(Late(c, rule, t)) + Cardinality(R) <= Cardinality(Open \ {a})
  BY <1>1, <1>3, DisjointBound
<1>6. Slots \in Nat
  BY Clock
<1>7. QED
  BY ONLY <1>1, <1>2, <1>3, <1>4, <1>5, <1>6

LEMMA BehindArith ==
  ASSUME NEW n \in Nat, NEW b \in Int, NEW k \in Nat, NEW y \in Nat, NEW z \in Nat,
         y <= z, z <= n, 2 * k + TwiceSum(n, z + 1) <= b
  PROVE  2 * k + TwiceSum(n, y + 1) <= b
<1>1. TwiceSum(n, y + 1) <= TwiceSum(n, z + 1)
  BY TwiceSumGrows
<1>2. TwiceSum(n, y + 1) \in Int /\ TwiceSum(n, z + 1) \in Int
  BY TwiceSumNext
<1>3. QED
  BY <1>1, <1>2

LEMMA AheadArith ==
  ASSUME NEW n \in Nat, NEW b \in Int, NEW k \in Nat, NEW g \in Nat, NEW h \in Nat,
         NEW y \in Nat, NEW z \in Nat,
         g <= h, y <= z, z <= n, 2 * k + 2 * h + TwiceSum(n, z) <= b
  PROVE  2 * k + 2 * g + TwiceSum(n, y) <= b
<1>1. TwiceSum(n, y) <= TwiceSum(n, z)
  BY TwiceSumGrows
<1>2. TwiceSum(n, y) \in Int /\ TwiceSum(n, z) \in Int
  BY TwiceSumNext
<1>3. QED
  BY <1>1, <1>2

\* A step that approves nothing makes no session late or, for a row in the window, ready.
LEMMA LateReadyStep ==
  ASSUME TypeOK, Bookkeeping, SessionInv, [Next]_vars, ApprovalsKept,
         NEW c \in Customer, NEW rule \in Rules, Timed(rule), NEW t \in Nat,
         t - now < Gap(rule)
  PROVE  /\ Late(c, rule, t)' \subseteq Late(c, rule, t)
         /\ ~ Behind(row[c].last, rule, t) =>
              Ready(c, rule, t)' \subseteq Ready(c, rule, t)
<1>1. Gap(rule) \in Int /\ now \in Nat
  BY TimedFacts DEF TypeOK
<1>2. ASSUME NEW s \in Late(c, rule, t)' PROVE s \in Late(c, rule, t)
  <2>1. /\ s \in Request /\ pc'[s] = "proposed" /\ act'[s].cust = c /\ ~act'[s].dated
        /\ t - act'[s].at >= Gap(rule)
    BY <1>2 DEF Late, Gap
  <2>2. act[s] \in Action /\ act'[s] \in Action /\ act'[s].at \in Nat
    BY <2>1, TypeStep DEF TypeOK, Action
  <2>3. act'[s].at < now
    BY <1>1, <2>1, <2>2
  <2>4. s \in Earlier(now)
    BY <1>1, <2>1, <2>3, EarlierStep
  <2>5. pc[s] = "proposed"
    BY <2>4 DEF Earlier
  <2>6. act'[s] = act[s]
    BY <2>1, <2>5, VisitsAside DEF TypeOK, RequestNext, Tick, Load, Propose,
         BlockUndispatched, Suspend, RecordTicket, BlockByRule, BlockByCollision,
         Approve, WriteAudit, Label, Abort, requests
  <2>7. QED
    BY <2>1, <2>5, <2>6 DEF Late
<1>3. ASSUME ~ Behind(row[c].last, rule, t), NEW s \in Ready(c, rule, t)'
      PROVE  s \in Ready(c, rule, t)
  <2>1. /\ s \in Request /\ pc'[s] \in {"loaded", "proposed"} /\ act'[s].cust = c
        /\ Behind(snap'[s].last, rule, t) /\ s \notin Late(c, rule, t)'
    BY <1>3 DEF Ready, Behind, Gap
  <2>2. act[s].cust = c
    BY <2>1, CustomerKept
  <2>3. snap'[s] # row[c]
    BY <1>3, <2>1
  <2>4. pc[s] \in {"loaded", "proposed"} /\ snap'[s] = snap[s]
    <3>1. pc \in [Request -> Phase] /\ snap \in [Request -> Row]
      BY DEF TypeOK
    <3>2. CASE UNCHANGED requests
      BY <2>1, <3>2 DEF requests
    <3>3. CASE RequestNext
      <4>1. ASSUME NEW r \in Request, pc'[r] \notin {"loaded", "proposed"},
                   pc' = [pc EXCEPT ![r] = pc'[r]],
                   snap' = snap \/ snap' = [snap EXCEPT ![r] = NewRow]
            PROVE  pc[s] \in {"loaded", "proposed"} /\ snap'[s] = snap[s]
        BY <2>1, <3>1, <4>1
      <4>2. ASSUME NEW r \in Request,
                   \/ BlockUndispatched(r) \/ Suspend(r) \/ RecordTicket(r)
                   \/ BlockByRule(r) \/ BlockByCollision(r) \/ Approve(r)
                   \/ WriteAudit(r) \/ Label(r) \/ Abort(r)
            PROVE  /\ pc'[r] \notin {"loaded", "proposed"}
                   /\ pc' = [pc EXCEPT ![r] = pc'[r]]
                   /\ snap' = snap \/ snap' = [snap EXCEPT ![r] = NewRow]
        BY <3>1, <4>2 DEF BlockUndispatched, Suspend, RecordTicket, BlockByRule,
           BlockByCollision, Approve, WriteAudit, Label, Abort, Decide
      <4>3. ASSUME NEW r \in Request, Load(r) \/ Propose(r)
            PROVE  pc[s] \in {"loaded", "proposed"} /\ snap'[s] = snap[s]
        BY <2>1, <2>2, <2>3, <3>1, <4>3 DEF Load, Propose
      <4>4. CASE Tick
        BY <2>1, <4>4 DEF Tick
      <4>5. QED
        BY <3>3, <4>1, <4>2, <4>3, <4>4 DEF RequestNext
    <3>4. QED
      BY <3>2, <3>3, VisitsAside
  <2>5. s \notin Late(c, rule, t)
    <3>1. SUFFICES ASSUME s \in Late(c, rule, t) PROVE s \in Late(c, rule, t)'
      BY <2>1
    <3>2. pc[s] = "proposed" /\ ~act[s].dated /\ t - act[s].at >= Gap(rule)
      BY <3>1 DEF Late
    <3>3. pc'[s] = "proposed" /\ act'[s] = act[s]
      <4>1. pc \in [Request -> Phase] /\ act \in [Request -> Action]
        BY DEF TypeOK
      <4>2. CASE UNCHANGED requests
        BY <3>2, <4>2 DEF requests
      <4>3. CASE RequestNext
        BY <2>1, <3>2, <4>1, <4>3 DEF RequestNext, Tick, Load, Propose,
           BlockUndispatched, Suspend, RecordTicket, BlockByRule, BlockByCollision,
           Approve, WriteAudit, Label, Abort
      <4>4. QED
        BY <4>2, <4>3, VisitsAside
    <3>4. QED
      BY <2>1, <3>2, <3>3 DEF Late, Gap
  <2>6. QED
    BY <2>1, <2>2, <2>4, <2>5 DEF Ready
<1>4. QED
  BY <1>2, <1>3

LEMMA CooldownQuiet ==
  ASSUME TypeOK, Bookkeeping, SessionInv, [Next]_vars, ApprovalsKept, CooldownInv
  PROVE  CooldownInv'
<1> SUFFICES ASSUME NEW c \in Customer, NEW rule \in Rules, Timed(rule), Unvisited(c),
                    Undated(c)',
                    NEW t \in Nat, Within(c, rule, t)' # {}
             PROVE  Overshoot(c, rule, t)'
  BY DEF CooldownInv, Timed, Unscoped, Unvisited
<1> DEFINE k == Cardinality(Within(c, rule, t))
           h == Cardinality(Ready(c, rule, t))
           z == Cardinality(Late(c, rule, t))
           g == Cardinality(Ready(c, rule, t)')
           y == Cardinality(Late(c, rule, t)')
<1>1. /\ Approved(c)' = Approved(c) /\ row'[c] = row[c]
      /\ \A s \in Approved(c) : act'[s] = act[s]
  <2>1. \A s \in Request : act'[s].cust = act[s].cust
    BY CustomerKept
  <2>2. QED
    BY <2>1 DEF ApprovalsKept, Approved
<1>2. Undated(c) /\ Within(c, rule, t)' = Within(c, rule, t)
  BY <1>1 DEF Undated, Within, Gap
<1>3. PICK s \in Within(c, rule, t) : TRUE
  BY <1>2
<1>4. t - now < Gap(rule)
  <2>1. /\ s \in Request /\ s \in Approved(c) /\ t - act[s].at < Gap(rule)
    BY <1>3 DEF Within, Approved
  <2>2. act[s].at <= now
    BY <1>2, <2>1 DEF Undated, SessionInv
  <2>3. act[s].at \in Nat /\ now \in Nat /\ Gap(rule) \in Int
    BY <2>1, TimedFacts DEF TypeOK, Action
  <2>4. QED
    BY <2>1, <2>2, <2>3
<1>5. Overshoot(c, rule, t)
  BY <1>2 DEF CooldownInv
<1>6. /\ Late(c, rule, t)' \subseteq Late(c, rule, t)
      /\ ~ Behind(row[c].last, rule, t) => Ready(c, rule, t)' \subseteq Ready(c, rule, t)
  BY <1>4, LateReadyStep
<1>7. /\ IsFiniteSet(Late(c, rule, t)) /\ IsFiniteSet(Ready(c, rule, t))
      /\ k \in Nat /\ h \in Nat /\ z \in Nat /\ y \in Nat
      /\ y <= z /\ z <= Slots
      /\ Slots \in Nat /\ Slots * (Slots + 1) \in Int
  <2>1. /\ IsFiniteSet(Late(c, rule, t)) /\ IsFiniteSet(Ready(c, rule, t))
        /\ k \in Nat /\ h \in Nat /\ z \in Nat
        /\ Late(c, rule, t) \subseteq Open
    BY OvershootSets
  <2>2. y \in Nat /\ y <= z
    BY <1>6, <2>1, SubsetBound
  <2>3. Slots \in Nat
    BY Clock
  <2>4. z <= Slots
    BY <2>1, <2>3, AtMost DEF SessionInv
  <2>5. QED
    BY <2>1, <2>2, <2>3, <2>4
<1>8. CASE Behind(row[c].last, rule, t)
  <2>1. 2 * k + TwiceSum(Slots, z + 1) <= Slots * (Slots + 1)
    BY <1>5, <1>8 DEF Overshoot
  <2>2. 2 * k + TwiceSum(Slots, y + 1) <= Slots * (Slots + 1)
    BY <1>7, <2>1, BehindArith
  <2>3. QED
    BY <1>1, <1>2, <1>8, <2>2 DEF Overshoot, Behind, Gap
<1>9. CASE ~ Behind(row[c].last, rule, t)
  <2>1. 2 * k + 2 * h + TwiceSum(Slots, z) <= Slots * (Slots + 1)
    BY <1>5, <1>9 DEF Overshoot
  <2>2. g \in Nat /\ g <= h
    BY <1>6, <1>7, <1>9, SubsetBound
  <2>3. 2 * k + 2 * g + TwiceSum(Slots, y) <= Slots * (Slots + 1)
    BY <1>7, <2>1, <2>2, AheadArith
  <2>4. QED
    BY <1>1, <1>2, <1>9, <2>3 DEF Overshoot, Behind, Gap
<1>10. QED
  BY <1>8, <1>9

LEMMA BehindToAhead ==
  ASSUME NEW n \in Nat, NEW b \in Int, NEW k \in Nat, NEW g \in Nat, NEW z \in Nat,
         z + g <= n - 1, 2 * k + TwiceSum(n, z + 1) <= b
  PROVE  /\ 2 * (k + 1) + 2 * g + TwiceSum(n, z) <= b
         /\ 2 * k + 2 * g + TwiceSum(n, z) <= b
<1>1. TwiceSum(n, z) \in Int /\ TwiceSum(n, z + 1) = TwiceSum(n, z) + 2 * (n - z)
  BY TwiceSumNext
<1>2. QED
  BY <1>1

LEMMA AheadToBehind ==
  ASSUME NEW n \in Nat, NEW b \in Int, NEW k \in Nat, NEW h \in Nat, NEW z \in Nat,
         2 * k + 2 * h + TwiceSum(n, z) <= b
  PROVE  2 * k + TwiceSum(n, z) <= b
<1>1. TwiceSum(n, z) \in Int
  BY TwiceSumNext
<1>2. QED
  BY <1>1

LEMMA OneAhead ==
  ASSUME NEW n \in Nat, NEW b \in Int, NEW k \in Nat, NEW h \in Nat, NEW z \in Nat,
         2 * k + 2 * h + TwiceSum(n, z) <= b
  PROVE  2 * (k + 1) + 2 * (h - 1) + TwiceSum(n, z) <= b
<1>1. TwiceSum(n, z) \in Int
  BY TwiceSumNext
<1>2. QED
  BY <1>1

LEMMA FirstWithin ==
  ASSUME NEW n \in Nat, NEW z \in Nat, z + 1 <= n
  PROVE  2 * 0 + TwiceSum(n, z + 1) <= n * (n + 1)
<1>1. TwiceSum(n, z + 1) <= TwiceSum(n, n) /\ TwiceSum(n, n) = n * (n + 1)
  BY TwiceSumGrows, TwiceSumAll
<1>2. TwiceSum(n, z + 1) \in Int
  BY TwiceSumNext
<1>3. QED
  BY <1>1, <1>2

\* The session that approves is neither late nor ready any more.
LEMMA ApproveSets ==
  ASSUME TypeOK, Bookkeeping, NEW a \in Request, Approve(a), NEW c \in Customer, NEW rule, NEW t
  PROVE  /\ Late(c, rule, t)' = Late(c, rule, t) \ {a}
         /\ Ready(c, rule, t)' = Ready(c, rule, t) \ {a}
         /\ act[a].cust = c => Approved(c)' = Approved(c) \cup {a}
         /\ act[a].cust # c => Approved(c)' = Approved(c)
         /\ a \notin Approved(c)
<1>1. /\ act' = act /\ decision[a].verdict = "none" /\ decision'[a].verdict = "approved"
      /\ \A s \in Request \ {a} : decision'[s] = decision[s]
  BY ApproveEffect
<1>2. /\ pc' = [pc EXCEPT ![a] = "label"] /\ snap' = [snap EXCEPT ![a] = NewRow]
  BY DEF Approve, Decide
<1>3. /\ pc'[a] = "label"
      /\ \A s \in Request \ {a} : pc'[s] = pc[s] /\ snap'[s] = snap[s]
  BY <1>2 DEF TypeOK
<1>4. Late(c, rule, t)' = Late(c, rule, t) \ {a}
  BY <1>1, <1>3 DEF Late, Gap
<1>5. Ready(c, rule, t)' = Ready(c, rule, t) \ {a}
  BY <1>1, <1>3, <1>4 DEF Ready, Behind, Gap
<1>6. QED
  BY <1>1, <1>4, <1>5 DEF Approved

\* A session that contacts within the window was ready.
LEMMA CooldownPassed ==
  ASSUME TypeOK, NEW a \in Request, Approve(a), NEW rule \in Rules, Timed(rule),
         NEW t \in Nat, act[a].at <= t, t - act[a].at < Gap(rule)
  PROVE  a \in Ready(act[a].cust, rule, t)
<1>1. act[a].at \in Nat /\ snap[a].last \in Nat \cup {Never} /\ Gap(rule) \in Int
  BY TimedFacts DEF TypeOK, Action, Row
<1>2. ~ CooldownBlocks(rule.config, act[a], snap[a], History(act[a].cust))
  BY RulePassed DEF Timed, RuleBlocks
<1>3. snap[a].last # Never => ~ (act[a].at - snap[a].last < Gap(rule))
  BY <1>2 DEF CooldownBlocks, Gap
<1>4. Behind(snap[a].last, rule, t)
  BY <1>1, <1>3 DEF Behind, Never
<1>5. pc[a] = "proposed" /\ a \notin Late(act[a].cust, rule, t)
  BY <1>1 DEF Approve, Late
<1>6. QED
  BY <1>4, <1>5 DEF Ready

\* An approval outside the window puts the row behind it or ahead of it; one inside
\* takes one of the ready sessions.
LEMMA CooldownApprove ==
  ASSUME TypeOK, Bookkeeping, SessionInv, CooldownInv, NEW a \in Request, Approve(a)
  PROVE  CooldownInv'
<1> SUFFICES ASSUME NEW c \in Customer, NEW rule \in Rules, Timed(rule), Unvisited(c),
                    Undated(c)',
                    NEW t \in Nat, Within(c, rule, t)' # {}
             PROVE  Overshoot(c, rule, t)'
  BY DEF CooldownInv, Timed, Unscoped, Unvisited
<1> DEFINE W == Within(c, rule, t)
           L == Late(c, rule, t)
           R == Ready(c, rule, t)
           at == act[a].at
           b == Slots * (Slots + 1)
<1>1. /\ act' = act
      /\ Late(c, rule, t)' = L \ {a} /\ Ready(c, rule, t)' = R \ {a}
      /\ act[a].cust = c => Approved(c)' = Approved(c) \cup {a}
      /\ act[a].cust # c => Approved(c)' = Approved(c)
      /\ a \notin Approved(c)
  BY ApproveEffect, ApproveSets
<1>2. Undated(c)
  BY <1>1 DEF Undated
<1>3. /\ IsFiniteSet(W) /\ IsFiniteSet(L) /\ IsFiniteSet(R)
      /\ Cardinality(W) \in Nat /\ Cardinality(L) \in Nat /\ Cardinality(R) \in Nat
      /\ Gap(rule) \in Int /\ Slots \in Nat /\ b \in Int
      /\ at \in Nat
  BY OvershootSets, TimedFacts DEF TypeOK, Action
<1>4. W # {} => Overshoot(c, rule, t)
  BY <1>2 DEF CooldownInv
<1>5. CASE act[a].cust # c
  <2>1. Within(c, rule, t)' = W
    BY <1>1, <1>5 DEF Within, Gap
  <2>2. Late(c, rule, t)' = L /\ Ready(c, rule, t)' = R
    BY <1>1, <1>5 DEF Late, Ready
  <2>3. row'[c] = row[c]
    BY <1>5, ApproveEffect
  <2>4. QED
    BY <1>4, <2>1, <2>2, <2>3 DEF Overshoot, Behind, Gap
<1>6. CASE act[a].cust = c
  <2>1. row'[c].last = at /\ at # Never
    <3>1. row'[c] = UpdateAfterDecision(row[c], snap[a], act[a])
      BY <1>6, ApproveEffect
    <3>2. row'[c].last = act[a].wall
      BY <3>1 DEF UpdateAfterDecision
    <3>3. act[a].wall = at
      BY <1>1, <1>6 DEF Undated, SessionInv
    <3>4. QED
      BY <1>3, <3>2, <3>3 DEF Never
  <2>2. ~act[a].dated
    BY <1>1, <1>6 DEF Undated
  <2>3. Gap(rule) > 0
    <3>1. PICK s \in Within(c, rule, t)' : TRUE
      OBVIOUS
    <3>2. s \in Request /\ act[s].at <= t /\ t - act[s].at < Gap(rule)
      BY <1>1, <3>1 DEF Within, Approved, Gap
    <3>3. act[s].at \in Nat
      BY <3>2 DEF TypeOK, Action
    <3>4. QED
      BY <1>3, <3>2, <3>3
  <2>4. pc[a] = "proposed" /\ a \in Open
    BY DEF Approve, Open
  <2>5. CASE t - at >= Gap(rule)
    <3>1. Behind(row'[c].last, rule, t)
      BY <2>1, <2>5 DEF Behind
    <3>2. Within(c, rule, t)' = W
      BY <1>1, <1>3, <1>6, <2>5 DEF Within, Gap
    <3>3. a \in L
      BY <1>6, <2>2, <2>4, <2>5 DEF Late
    <3>4. Cardinality(L \ {a}) = Cardinality(L) - 1
      BY <1>3, <3>3, FS_RemoveElement
    <3>5. L # {} /\ Cardinality(L) # 0
      BY <1>3, <3>3, FS_EmptySet
    <3>6. Cardinality(L) <= Slots
      <4>1. L \subseteq Open
        BY OvershootSets
      <4>2. QED
        BY <1>3, <4>1, AtMost DEF SessionInv
    <3>7. Cardinality(L \ {a}) \in Nat /\ Cardinality(L \ {a}) <= Cardinality(L)
      BY <1>3, <3>4, <3>5
    <3>8. 2 * Cardinality(W) + TwiceSum(Slots, Cardinality(L \ {a}) + 1) <= b
      <4>1. CASE Behind(row[c].last, rule, t)
        <5>1. 2 * Cardinality(W) + TwiceSum(Slots, Cardinality(L) + 1) <= b
          BY <1>4, <3>2, <4>1 DEF Overshoot
        <5>2. QED
          BY <1>3, <3>6, <3>7, <5>1, BehindArith
      <4>2. CASE ~ Behind(row[c].last, rule, t)
        <5>1. 2 * Cardinality(W) + 2 * Cardinality(R) + TwiceSum(Slots, Cardinality(L)) <= b
          BY <1>4, <3>2, <4>2 DEF Overshoot
        <5>2. 2 * Cardinality(W) + TwiceSum(Slots, Cardinality(L)) <= b
          BY <1>3, <5>1, AheadToBehind
        <5>3. Cardinality(L \ {a}) + 1 = Cardinality(L)
          BY <1>3, <3>4
        <5>4. QED
          BY <5>2, <5>3
      <4>3. QED
        BY <4>1, <4>2
    <3>9. QED
      BY <1>1, <3>1, <3>2, <3>8 DEF Overshoot, Behind, Gap
  <2>6. CASE t - at < Gap(rule)
    <3>1. ~ Behind(row'[c].last, rule, t)
      BY <1>3, <2>1, <2>6 DEF Behind
    <3>2. a \notin L
      BY <1>3, <2>6 DEF Late
    <3>3. Late(c, rule, t)' = L
      BY <1>1, <3>2
    <3>4. /\ Cardinality(R \ {a}) \in Nat
          /\ Cardinality(L) + Cardinality(R \ {a}) <= Slots - 1
      BY <2>4, <3>2, LateReadyBound
    <3>5. CASE at <= t
      <4>1. Within(c, rule, t)' = W \cup {a} /\ a \notin W
        BY <1>1, <1>6, <2>6, <3>5 DEF Within, Gap
      <4>2. Cardinality(Within(c, rule, t)') = Cardinality(W) + 1
        BY <1>3, <4>1, FS_AddElement
      <4>3. a \in R
        BY <1>6, <2>6, <3>5, CooldownPassed
      <4>4. 2 * (Cardinality(W) + 1) + 2 * Cardinality(R \ {a})
              + TwiceSum(Slots, Cardinality(L)) <= b
        <5>1. CASE W # {} /\ ~ Behind(row[c].last, rule, t)
          <6>1. 2 * Cardinality(W) + 2 * Cardinality(R) + TwiceSum(Slots, Cardinality(L)) <= b
            BY <1>4, <5>1 DEF Overshoot
          <6>2. Cardinality(R \ {a}) = Cardinality(R) - 1
            BY <1>3, <4>3, FS_RemoveElement
          <6>3. 2 * (Cardinality(W) + 1) + 2 * (Cardinality(R) - 1)
                  + TwiceSum(Slots, Cardinality(L)) <= b
            BY <1>3, <6>1, OneAhead
          <6>4. QED
            BY <6>2, <6>3
        <5>2. CASE W = {} \/ Behind(row[c].last, rule, t)
          <6>1. 2 * Cardinality(W) + TwiceSum(Slots, Cardinality(L) + 1) <= b
            <7>1. CASE W = {}
              <8>1. Cardinality(W) = 0
                BY <7>1, FS_EmptySet
              <8>2. Cardinality(L) + 1 <= Slots
                BY <1>3, <3>4
              <8>3. QED
                BY <1>3, <8>1, <8>2, FirstWithin
            <7>2. CASE W # {}
              BY <1>4, <5>2, <7>2 DEF Overshoot
            <7>3. QED
              BY <7>1, <7>2
          <6>2. QED
            BY <1>3, <3>4, <6>1, BehindToAhead
        <5>3. QED
          BY <5>1, <5>2
      <4>5. QED
        BY <1>1, <3>1, <3>3, <4>2, <4>4 DEF Overshoot, Behind, Gap
    <3>6. CASE at > t
      <4>1. Within(c, rule, t)' = W
        BY <1>1, <1>3, <1>6, <3>6 DEF Within, Gap
      <4>2. 2 * Cardinality(W) + 2 * Cardinality(R \ {a})
              + TwiceSum(Slots, Cardinality(L)) <= b
        <5>1. CASE ~ Behind(row[c].last, rule, t)
          <6>1. 2 * Cardinality(W) + 2 * Cardinality(R) + TwiceSum(Slots, Cardinality(L)) <= b
            BY <1>4, <4>1, <5>1 DEF Overshoot
          <6>2. Cardinality(R \ {a}) <= Cardinality(R)
            BY <1>3, SubsetBound
          <6>3. Cardinality(L) <= Cardinality(L) /\ Cardinality(L) <= Slots
            BY <1>3, <3>4
          <6>4. Cardinality(R \ {a}) \in Nat
            BY <3>4
          <6>5. QED
            BY <1>3, <6>1, <6>2, <6>3, <6>4, AheadArith
        <5>2. CASE Behind(row[c].last, rule, t)
          <6>1. 2 * Cardinality(W) + TwiceSum(Slots, Cardinality(L) + 1) <= b
            BY <1>4, <4>1, <5>2 DEF Overshoot
          <6>2. QED
            BY <1>3, <3>4, <6>1, BehindToAhead
        <5>3. QED
          BY <5>1, <5>2
      <4>3. QED
        BY <1>1, <3>1, <3>3, <4>1, <4>2 DEF Overshoot, Behind, Gap
    <3>7. QED
      BY <1>3, <3>5, <3>6
  <2>7. QED
    BY <1>3, <2>5, <2>6
<1>7. QED
  BY <1>5, <1>6

\* A visit leaves alone all that the bound is about.
LEMMA CooldownVisit ==
  ASSUME TypeOK, NEW v \in Visit, Reset(v) \/ Finish(v), CooldownInv
  PROVE  CooldownInv'
<1>1. act' = act /\ decision' = decision /\ pc' = pc /\ snap' = snap
  BY DEF Reset, Finish, requests
<1> SUFFICES ASSUME NEW c \in Customer, NEW rule \in Rules, Timed(rule), Unvisited(c),
                    Undated(c)', NEW t \in Nat, Within(c, rule, t)' # {}
             PROVE  Overshoot(c, rule, t)'
  BY DEF CooldownInv, Timed, Unscoped, Unvisited
<1>2. row'[c] = row[c]
  BY ResetEffect, FinishEffect DEF Unvisited
<1>3. /\ Undated(c) /\ Within(c, rule, t)' = Within(c, rule, t)
      /\ Late(c, rule, t)' = Late(c, rule, t) /\ Ready(c, rule, t)' = Ready(c, rule, t)
  BY <1>1 DEF Undated, Approved, Within, Late, Ready, Behind, Gap
<1>4. Overshoot(c, rule, t)
  BY <1>3 DEF CooldownInv
<1>5. QED
  BY <1>2, <1>3, <1>4 DEF Overshoot, Behind, Gap

LEMMA CooldownInvHolds == Spec => []CooldownInv
<1>1. Init => CooldownInv
  <2>1. ASSUME Init PROVE \A c \in Customer : Approved(c) = {}
    BY <2>1 DEF Init, Approved, Undecided
  <2>2. QED
    BY <2>1 DEF CooldownInv, Within
<1>2. TypeOK /\ Bookkeeping /\ SessionInv /\ CooldownInv /\ [Next]_vars => CooldownInv'
  BY ApprovalStep, CooldownQuiet, CooldownApprove, CooldownVisit
<1>3. QED
  BY <1>1, <1>2, TypeCorrect, BookkeepingHolds, SessionHolds, PTL DEF Spec

LEMMA CooldownBound ==
  ASSUME NEW n \in Nat, NEW b \in Int, NEW k \in Nat, NEW h \in Nat, NEW z \in Nat, z <= n,
         2 * k + TwiceSum(n, z + 1) <= b \/ 2 * k + 2 * h + TwiceSum(n, z) <= b
  PROVE  2 * k <= b
<1>1. 0 <= TwiceSum(n, z) /\ 0 <= TwiceSum(n, z + 1)
  <2>1. TwiceSum(n, 0) = 0
    BY DEF TwiceSum
  <2>2. QED
    BY <2>1, TwiceSumGrows
<1>2. TwiceSum(n, z) \in Int /\ TwiceSum(n, z + 1) \in Int
  BY TwiceSumNext
<1>3. QED
  BY <1>1, <1>2

\* However many sessions overlap, no window of an unscoped cooldown holds more undated
\* contacts of a customer whom no simulation generates than half of Slots * (Slots + 1).
THEOREM CooldownOvershoot == Spec => []CooldownOvershootBounded
<1>1. TypeOK /\ Bookkeeping /\ SessionInv /\ CooldownInv => CooldownOvershootBounded
  <2> SUFFICES ASSUME TypeOK, Bookkeeping, SessionInv, CooldownInv,
                      NEW c \in Customer, NEW rule \in Rules, Timed(rule),
                      Unvisited(c), Undated(c),
                      NEW r \in Approved(c)
               PROVE  2 * Cardinality(Within(c, rule, act[r].at)) <= Slots * (Slots + 1)
    BY DEF CooldownOvershootBounded, Timed, Undated, Within, Gap
  <2> DEFINE t == act[r].at
  <2>1. t \in Nat
    BY DEF Approved, TypeOK, Action
  <2>2. /\ Cardinality(Within(c, rule, t)) \in Nat /\ Cardinality(Ready(c, rule, t)) \in Nat
        /\ Cardinality(Late(c, rule, t)) \in Nat /\ IsFiniteSet(Late(c, rule, t))
        /\ Late(c, rule, t) \subseteq Open
        /\ Slots \in Nat /\ Slots * (Slots + 1) \in Int
    BY OvershootSets, TimedFacts
  <2>3. Cardinality(Late(c, rule, t)) <= Slots
    BY <2>2, AtMost DEF SessionInv
  <2>4. CASE Within(c, rule, t) = {}
    <3>1. Cardinality(Within(c, rule, t)) = 0
      BY <2>4, FS_EmptySet
    <3>2. 0 <= Slots * (Slots + 1)
      BY <2>2
    <3>3. QED
      BY <3>1, <3>2
  <2>5. CASE Within(c, rule, t) # {}
    <3>1. Overshoot(c, rule, t)
      BY <2>1, <2>5 DEF CooldownInv
    <3>2. QED
      BY <2>2, <2>3, <3>1, CooldownBound DEF Overshoot
  <2>6. QED
    BY <2>4, <2>5
<1>2. QED
  BY <1>1, TypeCorrect, BookkeepingHolds, SessionHolds, CooldownInvHolds, PTL

===============================================================================
