----------------------- MODULE CoordinationLedger_proofs ----------------------
(***************************************************************************)
(* The customer row and the ledger of contacts: what overlapping sessions  *)
(* leave of their relation, and that a single session at a time implements *)
(* the ledger, for any requests, customers, rules and clock.               *)
(***************************************************************************)
EXTENDS CoordinationLedger, Overlap_proofs

\* The contacts S, rupee by rupee.
RupeesOf(S) == UNION {{k} \X (1..k.discount) : k \in S}

LEMMA FirstRupees ==
  ASSUME NEW n \in Nat
  PROVE  IsFiniteSet(1..n) /\ Cardinality(1..n) = n
<1>1. IsFiniteSet(1..n) /\ Cardinality(1..n) = IF 1 > n THEN 0 ELSE n - 1 + 1
  BY FS_Interval
<1>2. QED
  BY <1>1

LEMMA RupeesFinite ==
  ASSUME NEW S, IsFiniteSet(S), \A k \in S : k.discount \in Nat
  PROVE  IsFiniteSet(RupeesOf(S))
<1> DEFINE f == [k \in S |-> {k} \X (1..k.discount)]
           T == {{k} \X (1..k.discount) : k \in S}
<1>1. f \in Surjection(S, T)
  <2>1. f \in [S -> T] /\ \A t \in T : \E k \in S : f[k] = t
    OBVIOUS
  <2>2. QED
    BY <2>1 DEF Surjection
<1>2. IsFiniteSet(T)
  BY <1>1, FS_Surjection
<1>3. ASSUME NEW k \in S PROVE IsFiniteSet({k} \X (1..k.discount))
  <2>1. IsFiniteSet({k}) /\ IsFiniteSet(1..k.discount)
    BY FS_Singleton, FirstRupees
  <2>2. QED
    BY <2>1, FS_Product
<1>4. IsFiniteSet(UNION T)
  BY <1>2, <1>3, FS_UNION
<1>5. QED
  BY <1>4 DEF RupeesOf

\* One more contact grants as many rupees as its discount.
LEMMA RupeesAdd ==
  ASSUME NEW S, IsFiniteSet(S), \A k \in S : k.discount \in Nat,
         NEW k, k \notin S, k.discount \in Nat
  PROVE  /\ Cardinality(RupeesOf(S)) \in Nat
         /\ Cardinality(RupeesOf(S \cup {k})) = Cardinality(RupeesOf(S)) + k.discount
<1> DEFINE N == {k} \X (1..k.discount)
<1>1. IsFiniteSet(N) /\ Cardinality(N) = k.discount
  <2>1. IsFiniteSet({k}) /\ Cardinality({k}) = 1
    BY FS_Singleton
  <2>2. IsFiniteSet(1..k.discount) /\ Cardinality(1..k.discount) = k.discount
    BY FirstRupees
  <2>3. IsFiniteSet(N) /\ Cardinality(N) = Cardinality({k}) * Cardinality(1..k.discount)
    BY <2>1, <2>2, FS_Product
  <2>4. \A d \in Nat : 1 * d = d
    OBVIOUS
  <2>5. QED
    BY <2>1, <2>2, <2>3, <2>4
<1>2. IsFiniteSet(RupeesOf(S)) /\ Cardinality(RupeesOf(S)) \in Nat
  BY RupeesFinite, FS_CardinalityType
<1>3. RupeesOf(S \cup {k}) = RupeesOf(S) \cup N
  BY DEF RupeesOf
<1>4. RupeesOf(S) \cap N = {}
  BY DEF RupeesOf
<1>5. Cardinality({}) = 0
  BY FS_EmptySet
<1>6. Cardinality(RupeesOf(S) \cup N)
        = Cardinality(RupeesOf(S)) + Cardinality(N) - Cardinality(RupeesOf(S) \cap N)
  BY <1>1, <1>2, FS_Union
<1>7. Cardinality(RupeesOf(S \cup {k})) = Cardinality(RupeesOf(S)) + k.discount - 0
  BY <1>1, <1>3, <1>4, <1>5, <1>6
<1>8. QED
  BY ONLY <1>2, <1>7, k.discount \in Nat

-------------------------------------------------------------------------------
\* The instance brings its own name for the library's operator.
LEMMA SameCardinality == \A S : Ledger!Cardinality(S) = Cardinality(S)
  BY DEF Ledger!Cardinality, Cardinality

Entry(r) == [id |-> r, at |-> act[r].at, discount |-> act[r].discount]

\* The contacts made of a customer are finitely many records, one of each approval.
LEMMA MadeFacts ==
  ASSUME TypeOK, Bookkeeping, SessionInv, NEW c \in Customer
  PROVE  /\ ContactsMade[c] = {Entry(r) : r \in Approved(c)}
         /\ Approved(c) \subseteq Request
         /\ IsFiniteSet(Approved(c)) /\ Cardinality(Approved(c)) \in Nat
         /\ IsFiniteSet(ContactsMade[c])
         /\ \A k \in ContactsMade[c] : k.discount \in Nat
         /\ Ledger!Granted(c) = Cardinality(RupeesOf(ContactsMade[c]))
         /\ Ledger!Granted(c) \in Nat
<1>1. ContactsMade[c] = {Entry(r) : r \in Approved(c)} /\ Approved(c) \subseteq Request
  BY DEF ContactsMade, Entry, Approved
<1>2. IsFiniteSet(Approved(c)) /\ Cardinality(Approved(c)) \in Nat
  <2>1. Approved(c) \subseteq actions /\ IsFiniteSet(actions)
    BY DEF Approved, Bookkeeping, SessionInv
  <2>2. QED
    BY <2>1, SubsetBound
<1>3. IsFiniteSet(ContactsMade[c])
  <2> DEFINE f == [r \in Approved(c) |-> Entry(r)]
  <2>1. /\ f \in [Approved(c) -> ContactsMade[c]]
        /\ \A k \in ContactsMade[c] : \E r \in Approved(c) : f[r] = k
    BY <1>1
  <2>2. f \in Surjection(Approved(c), ContactsMade[c])
    BY <2>1 DEF Surjection
  <2>3. QED
    BY <1>2, <2>2, FS_Surjection
<1>4. \A k \in ContactsMade[c] : k.discount \in Nat
  BY <1>1 DEF Entry, TypeOK, Action
<1>5. Ledger!Granted(c) = Cardinality(RupeesOf(ContactsMade[c]))
  BY SameCardinality DEF Ledger!Granted, Ledger!Rupees, RupeesOf
<1>6. Ledger!Granted(c) \in Nat
  BY <1>3, <1>4, <1>5, RupeesFinite, FS_CardinalityType
<1>7. QED
  BY <1>1, <1>2, <1>3, <1>4, <1>5, <1>6

LEMMA CountsKept ==
  ASSUME TypeOK, ApprovalsKept, NEW c \in Customer, [Next]_vars
  PROVE  /\ Approved(c)' = Approved(c) /\ ContactsMade'[c] = ContactsMade[c]
         /\ Ledger!Granted(c)' = Ledger!Granted(c)
<1>1. \A s \in Request : act'[s].cust = act[s].cust
  BY CustomerKept
<1>2. Approved(c)' = Approved(c) /\ \A s \in Approved(c) : act'[s] = act[s]
  BY <1>1 DEF ApprovalsKept, Approved
<1>3. ContactsMade'[c] = ContactsMade[c]
  BY <1>2 DEF ContactsMade
<1>4. QED
  BY <1>2, <1>3 DEF Ledger!Granted, Ledger!Rupees

\* Nor does a visit of a simulation make a contact.
LEMMA CountsVisit ==
  ASSUME TypeOK, NEW v \in Visit, Reset(v) \/ Finish(v), NEW c \in Customer
  PROVE  /\ Approved(c)' = Approved(c) /\ Ledger!Granted(c)' = Ledger!Granted(c)
<1>1. act' = act /\ decision' = decision
  BY ResetEffect, FinishEffect
<1>2. Approved(c)' = Approved(c)
  BY <1>1 DEF Approved
<1>3. ContactsMade'[c] = ContactsMade[c]
  BY <1>1, <1>2 DEF ContactsMade
<1>4. QED
  BY <1>2, <1>3 DEF Ledger!Granted, Ledger!Rupees

\* An approval makes one contact more of its customer, and no other.
LEMMA ApproveCounts ==
  ASSUME TypeOK, Bookkeeping, SessionInv, NEW a \in Request, Approve(a), NEW c \in Customer
  PROVE  IF c = act[a].cust
         THEN /\ Approved(c)' = Approved(c) \cup {a} /\ a \notin Approved(c)
              /\ ContactsMade'[c] = ContactsMade[c] \cup {Entry(a)}
              /\ Entry(a) \notin ContactsMade[c]
              /\ Cardinality(Approved(c)') = Cardinality(Approved(c)) + 1
              /\ Ledger!Granted(c)' = Ledger!Granted(c) + act[a].discount
         ELSE /\ Approved(c)' = Approved(c) /\ ContactsMade'[c] = ContactsMade[c]
              /\ Ledger!Granted(c)' = Ledger!Granted(c)
<1>1. CASE c = act[a].cust
  <2>1. Approved(c)' = Approved(c) \cup {a} /\ a \notin Approved(c) /\ act' = act
    BY <1>1, ApproveEffect DEF Approved
  <2>2. ContactsMade'[c] = ContactsMade[c] \cup {Entry(a)}
    BY <2>1 DEF ContactsMade, Entry
  <2>3. Entry(a) \notin ContactsMade[c]
    BY <2>1 DEF ContactsMade, Entry
  <2>4. Cardinality(Approved(c)') = Cardinality(Approved(c)) + 1
    BY <2>1, MadeFacts, FS_AddElement
  <2>5. act[a].discount \in Nat /\ Entry(a).discount = act[a].discount
    BY DEF TypeOK, Action, Entry
  <2>6. Ledger!Granted(c)' = Cardinality(RupeesOf(ContactsMade'[c]))
    BY SameCardinality DEF Ledger!Granted, Ledger!Rupees, RupeesOf
  <2>7. Ledger!Granted(c)' = Ledger!Granted(c) + act[a].discount
    BY <2>2, <2>3, <2>5, <2>6, MadeFacts, RupeesAdd
  <2>8. QED
    BY <1>1, <2>1, <2>2, <2>3, <2>4, <2>7
<1>2. CASE c # act[a].cust
  <2>1. Approved(c)' = Approved(c) /\ act' = act
    BY <1>2, ApproveEffect DEF Approved
  <2>2. ContactsMade'[c] = ContactsMade[c]
    BY <2>1 DEF ContactsMade
  <2>3. QED
    BY <1>2, <2>1, <2>2 DEF Ledger!Granted, Ledger!Rupees
<1>3. QED
  BY <1>1, <1>2

-------------------------------------------------------------------------------
(***************************************************************************)
(* Overlapping sessions. The copy of the customer that a session or a      *)
(* visit holds was the row once, so it shows no more than has been granted *)
(* and simulated since; the row becomes that copy and what is being added, *)
(* or is emptied, and is then again behind the sums or level with them.    *)
(***************************************************************************)
MostContacts(c) == Cardinality(Approved(c)) + simulated[c].contacts
MostExposure(c) == Ledger!Granted(c) + simulated[c].exposure

CopiesNeverOvercount ==
  \A c \in Customer :
    /\ \A r \in Request : act[r].cust = c =>
         snap[r].contacts <= MostContacts(c) /\ snap[r].exposure <= MostExposure(c)
    /\ \A v \in Visit : VisitTo[v] = c =>
         copy[v].contacts <= MostContacts(c) /\ copy[v].exposure <= MostExposure(c)

LEMMA AtMostGrown ==
  ASSUME NEW x \in Nat, NEW m \in Nat, NEW n \in Nat, x <= m, m <= n
  PROVE  x <= n
OBVIOUS

LEMMA SumGrown ==
  ASSUME NEW x \in Nat, NEW m \in Nat, NEW d \in Nat, x <= m
  PROVE  x + d <= m + d
OBVIOUS

LEMMA BothGrown ==
  ASSUME NEW x \in Nat, NEW y \in Nat, NEW m \in Nat, NEW n \in Nat, x <= m, y <= n
  PROVE  x + y \in Nat /\ m + n \in Nat /\ x + y <= m + n
OBVIOUS

\* The counts of a customer only grow.
LEMMA CountsGrow ==
  ASSUME TypeOK, Bookkeeping, SessionInv, [Next]_vars, NEW c \in Customer
  PROVE  /\ Cardinality(Approved(c)) \in Nat /\ Cardinality(Approved(c)') \in Nat
         /\ Ledger!Granted(c) \in Nat /\ Ledger!Granted(c)' \in Nat
         /\ Cardinality(Approved(c)) <= Cardinality(Approved(c)')
         /\ Ledger!Granted(c) <= Ledger!Granted(c)'
<1>1. Cardinality(Approved(c)) \in Nat /\ Ledger!Granted(c) \in Nat
  BY MadeFacts
<1>2. CASE Approved(c)' = Approved(c) /\ Ledger!Granted(c)' = Ledger!Granted(c)
  BY <1>1, <1>2
<1>3. ASSUME NEW a \in Request, Approve(a), c = act[a].cust
      PROVE  /\ Cardinality(Approved(c)') = Cardinality(Approved(c)) + 1
             /\ Ledger!Granted(c)' = Ledger!Granted(c) + act[a].discount
             /\ act[a].discount \in Nat
  BY <1>3, ApproveCounts DEF TypeOK, Action
<1>4. ASSUME NEW a \in Request, Approve(a), c # act[a].cust
      PROVE  Approved(c)' = Approved(c) /\ Ledger!Granted(c)' = Ledger!Granted(c)
  BY <1>4, ApproveCounts
<1>5. ASSUME NEW n \in Nat, NEW d \in Nat PROVE n + d \in Nat /\ n <= n + d
  OBVIOUS
<1>6. CASE \E a \in Request : Approve(a) /\ c = act[a].cust
  BY <1>1, <1>3, <1>5, <1>6
<1>7. QED
  BY <1>2, <1>4, <1>6, ApprovalStep, CountsKept, CountsVisit

LEMMA SimulatedGrow ==
  ASSUME TypeOK, Bookkeeping, [Next]_vars, NEW c \in Customer
  PROVE  /\ simulated[c].contacts \in Nat /\ simulated'[c].contacts \in Nat
         /\ simulated[c].exposure \in Nat /\ simulated'[c].exposure \in Nat
         /\ simulated[c].contacts <= simulated'[c].contacts
         /\ simulated[c].exposure <= simulated'[c].exposure
<1>1. simulated[c].contacts \in Nat /\ simulated[c].exposure \in Nat
  BY DEF TypeOK
<1>2. CASE simulated'[c] = simulated[c]
  BY <1>1, <1>2
<1>3. ASSUME NEW s \in Simulated,
             simulated'[c] = [contacts |-> simulated[c].contacts + s.contacts,
                              exposure |-> simulated[c].exposure + s.discount]
      PROVE  /\ simulated'[c].contacts \in Nat /\ simulated'[c].exposure \in Nat
             /\ simulated[c].contacts <= simulated'[c].contacts
             /\ simulated[c].exposure <= simulated'[c].exposure
  <2>1. s.contacts \in Nat /\ s.discount \in Nat
    BY VisitAssumption
  <2>2. ASSUME NEW n \in Nat, NEW d \in Nat PROVE n + d \in Nat /\ n <= n + d
    OBVIOUS
  <2>3. QED
    BY <1>1, <1>3, <2>1, <2>2
<1>4. ASSUME NEW v \in Visit, Finish(v), c = VisitTo[v]
      PROVE  \E s \in Simulated :
               simulated'[c] = [contacts |-> simulated[c].contacts + s.contacts,
                                exposure |-> simulated[c].exposure + s.discount]
  BY <1>4, FinishEffect
<1>5. ASSUME NEW v \in Visit, Finish(v), c # VisitTo[v] PROVE simulated'[c] = simulated[c]
  BY <1>5, FinishEffect
<1>6. QED
  BY <1>1, <1>2, <1>3, <1>4, <1>5, ApprovalStep, ApproveEffect, ResetEffect
     DEF ApprovalsKept

LEMMA MostGrow ==
  ASSUME TypeOK, Bookkeeping, SessionInv, [Next]_vars, NEW c \in Customer
  PROVE  /\ MostContacts(c) \in Nat /\ MostContacts(c)' \in Nat
         /\ MostExposure(c) \in Nat /\ MostExposure(c)' \in Nat
         /\ MostContacts(c) <= MostContacts(c)' /\ MostExposure(c) <= MostExposure(c)'
<1>1. /\ MostContacts(c)' = Cardinality(Approved(c)') + simulated'[c].contacts
      /\ MostExposure(c)' = Ledger!Granted(c)' + simulated'[c].exposure
  BY DEF MostContacts, MostExposure
<1>2. /\ MostContacts(c) = Cardinality(Approved(c)) + simulated[c].contacts
      /\ MostExposure(c) = Ledger!Granted(c) + simulated[c].exposure
  BY DEF MostContacts, MostExposure
<1>3. QED
  BY <1>1, <1>2, CountsGrow, SimulatedGrow, BothGrown

\* A copy is empty, the row as it was, or the copy that was held.
LEMMA CopyStep ==
  ASSUME TypeOK, [Next]_vars
  PROVE  /\ \A r \in Request : snap'[r] \in {NewRow, row[act[r].cust], snap[r]}
         /\ \A v \in Visit : copy'[v] \in {NewRow, row[VisitTo[v]], copy[v]}
<1>1. ASSUME NEW r \in Request PROVE snap'[r] \in {NewRow, row[act[r].cust], snap[r]}
  BY VisitsAside
     DEF TypeOK, RequestNext, Tick, Load, Propose, BlockUndispatched, Suspend, RecordTicket,
         BlockByRule, BlockByCollision, Approve, WriteAudit, Label, Abort, Decide, requests
<1>2. ASSUME NEW v \in Visit PROVE copy'[v] \in {NewRow, row[VisitTo[v]], copy[v]}
  <2>1. ASSUME NEW w \in Visit, Look(w) \/ Reset(w) \/ Read(w) \/ Finish(w)
        PROVE  copy'[v] \in {NewRow, row[VisitTo[v]], copy[v]}
    BY <2>1 DEF TypeOK, Look, Reset, Read, Finish
  <2>2. copy' = copy \/ \E w \in Visit : Look(w) \/ Reset(w) \/ Read(w) \/ Finish(w)
    BY DEF Next, Tick, Load, Propose, BlockUndispatched, Suspend, RecordTicket,
           BlockByRule, BlockByCollision, Approve, WriteAudit, Label, Abort, vars, visits
  <2>3. QED
    BY <2>1, <2>2
<1>3. QED
  BY <1>1, <1>2

LEMMA CopiesStep ==
  ASSUME TypeOK, Bookkeeping, SessionInv, [Next]_vars,
         RowNeverOvercounts, CopiesNeverOvercount
  PROVE  CopiesNeverOvercount'
<1>1. ASSUME NEW c \in Customer, NEW old \in Row, NEW new,
             old.contacts <= MostContacts(c), old.exposure <= MostExposure(c),
             new \in {NewRow, row[c], old}
      PROVE  new.contacts <= MostContacts(c)' /\ new.exposure <= MostExposure(c)'
  <2>1. /\ NewRow \in Row /\ NewRow.contacts = 0 /\ NewRow.exposure = 0 /\ row[c] \in Row
    BY NewRowType DEF TypeOK, NewRow
  <2>2. row[c].contacts <= MostContacts(c) /\ row[c].exposure <= MostExposure(c)
    BY DEF RowNeverOvercounts, MostContacts, MostExposure
  <2>3. new.contacts \in Nat /\ new.exposure \in Nat
    BY <1>1, <2>1 DEF Row
  <2>4. ASSUME NEW n \in Nat PROVE 0 <= n
    OBVIOUS
  <2>5. new.contacts <= MostContacts(c) /\ new.exposure <= MostExposure(c)
    BY <1>1, <2>1, <2>2, <2>4, MostGrow
  <2>6. QED
    BY <2>3, <2>5, MostGrow, AtMostGrown
<1>2. ASSUME NEW c \in Customer, NEW r \in Request, act'[r].cust = c
      PROVE  snap'[r].contacts <= MostContacts(c)' /\ snap'[r].exposure <= MostExposure(c)'
  <2>1. act[r].cust = c
    BY <1>2, CustomerKept
  <2>2. /\ snap[r].contacts <= MostContacts(c) /\ snap[r].exposure <= MostExposure(c)
        /\ snap[r] \in Row
    BY <2>1 DEF CopiesNeverOvercount, TypeOK
  <2>3. snap'[r] \in {NewRow, row[c], snap[r]}
    BY <2>1, CopyStep
  <2>4. QED
    BY <1>1, <2>2, <2>3
<1>3. ASSUME NEW c \in Customer, NEW v \in Visit, VisitTo[v] = c
      PROVE  copy'[v].contacts <= MostContacts(c)' /\ copy'[v].exposure <= MostExposure(c)'
  <2>1. /\ copy[v].contacts <= MostContacts(c) /\ copy[v].exposure <= MostExposure(c)
        /\ copy[v] \in Row
    BY <1>3 DEF CopiesNeverOvercount, TypeOK
  <2>2. copy'[v] \in {NewRow, row[c], copy[v]}
    BY <1>3, CopyStep
  <2>3. QED
    BY <1>1, <2>1, <2>2
<1>4. QED
  BY <1>2, <1>3 DEF CopiesNeverOvercount

LEMMA SumsGrown ==
  ASSUME NEW x \in Nat, NEW m \in Nat, NEW g \in Nat, NEW d \in Nat, x <= m + g
  PROVE  x + d <= (m + d) + g /\ x + d <= m + (g + d)
OBVIOUS

\* The row after a step: as it was, the deciding session's copy and its contact, or
\* what a visit makes of it.
LEMMA NeverOvercountStep ==
  ASSUME TypeOK, Bookkeeping, SessionInv, [Next]_vars,
         RowNeverOvercounts, CopiesNeverOvercount
  PROVE  RowNeverOvercounts'
<1> SUFFICES ASSUME NEW c \in Customer
             PROVE  /\ row'[c].contacts <= MostContacts(c)'
                    /\ row'[c].exposure <= MostExposure(c)'
  BY DEF RowNeverOvercounts, MostContacts, MostExposure
<1>1. /\ row[c].contacts <= MostContacts(c)' /\ row[c].exposure <= MostExposure(c)'
      /\ row[c] \in Row
  <2>1. /\ row[c].contacts <= MostContacts(c) /\ row[c].exposure <= MostExposure(c)
        /\ row[c] \in Row
    BY DEF RowNeverOvercounts, MostContacts, MostExposure, TypeOK
  <2>2. row[c].contacts \in Nat /\ row[c].exposure \in Nat
    BY <2>1 DEF Row
  <2>3. QED
    BY <2>1, <2>2, MostGrow, AtMostGrown
<1>2. CASE row'[c] = row[c]
  BY <1>1, <1>2
<1>4. ASSUME NEW a \in Request, Approve(a), act[a].cust = c
      PROVE  row'[c].contacts <= MostContacts(c)' /\ row'[c].exposure <= MostExposure(c)'
  <2>1. /\ row'[c] = UpdateAfterDecision(row[c], snap[a], act[a])
        /\ simulated' = simulated
    BY <1>4, ApproveEffect
  <2>2. /\ snap[a].contacts <= Cardinality(Approved(c)) + simulated[c].contacts
        /\ snap[a].exposure <= Ledger!Granted(c) + simulated[c].exposure
        /\ snap[a].contacts \in Nat /\ snap[a].exposure \in Nat /\ act[a].discount \in Nat
        /\ simulated[c].contacts \in Nat /\ simulated[c].exposure \in Nat
    BY <1>4 DEF CopiesNeverOvercount, MostContacts, MostExposure, TypeOK, Row, Action
  <2>3. /\ Cardinality(Approved(c)') = Cardinality(Approved(c)) + 1
        /\ Ledger!Granted(c)' = Ledger!Granted(c) + act[a].discount
        /\ Cardinality(Approved(c)) \in Nat /\ Ledger!Granted(c) \in Nat
    BY <1>4, ApproveCounts, MadeFacts
  <2>4. /\ MostContacts(c)' = (Cardinality(Approved(c)) + 1) + simulated[c].contacts
        /\ MostExposure(c)' = (Ledger!Granted(c) + act[a].discount) + simulated[c].exposure
    BY <2>1, <2>3 DEF MostContacts, MostExposure
  <2>5. /\ row'[c].contacts = snap[a].contacts + 1
        /\ row'[c].exposure \in {row[c].exposure, snap[a].exposure + act[a].discount}
    BY <2>1 DEF UpdateAfterDecision
  <2>6. 1 \in Nat
    OBVIOUS
  <2>7. snap[a].contacts + 1 <= (Cardinality(Approved(c)) + 1) + simulated[c].contacts
    BY SumsGrown, <2>2, <2>3, <2>6
  <2>8. snap[a].exposure + act[a].discount
          <= (Ledger!Granted(c) + act[a].discount) + simulated[c].exposure
    BY SumsGrown, <2>2, <2>3
  <2>9. QED
    BY <1>1, <2>4, <2>5, <2>7, <2>8
<1>5. ASSUME NEW v \in Visit, Reset(v), VisitTo[v] = c
      PROVE  row'[c].contacts <= MostContacts(c)' /\ row'[c].exposure <= MostExposure(c)'
  <2>1. PICK risk \in SimulatedRisk : row'[c] = ResetOf(row[c], copy[v], risk)
    BY <1>5, ResetEffect
  <2>2. row'[c].contacts \in {row[c].contacts, 0} /\ row'[c].exposure \in {row[c].exposure, 0}
    BY <2>1 DEF ResetOf
  <2>3. 0 <= MostContacts(c)' /\ 0 <= MostExposure(c)'
    <3>1. ASSUME NEW n \in Nat PROVE 0 <= n
      OBVIOUS
    <3>2. QED
      BY <3>1, MostGrow
  <2>4. QED
    BY <1>1, <2>2, <2>3
<1>6. ASSUME NEW v \in Visit, Finish(v), VisitTo[v] = c
      PROVE  row'[c].contacts <= MostContacts(c)' /\ row'[c].exposure <= MostExposure(c)'
  <2>1. PICK s \in Simulated :
          /\ row'[c] = FinishUpdate(row[c], copy[v], s)
          /\ simulated'[c] = [contacts |-> simulated[c].contacts + s.contacts,
                              exposure |-> simulated[c].exposure + s.discount]
    BY <1>6, FinishEffect
  <2>2. /\ copy[v].contacts <= Cardinality(Approved(c)) + simulated[c].contacts
        /\ copy[v].exposure <= Ledger!Granted(c) + simulated[c].exposure
        /\ copy[v].contacts \in Nat /\ copy[v].exposure \in Nat
        /\ simulated[c].contacts \in Nat /\ simulated[c].exposure \in Nat
    BY <1>6 DEF CopiesNeverOvercount, MostContacts, MostExposure, TypeOK, Row
  <2>3. /\ s.contacts \in Nat /\ s.discount \in Nat
        /\ Cardinality(Approved(c)) \in Nat /\ Ledger!Granted(c) \in Nat
    BY VisitAssumption, MadeFacts
  <2>4. Approved(c)' = Approved(c) /\ Ledger!Granted(c)' = Ledger!Granted(c)
    BY <1>6, CountsVisit
  <2>5. /\ MostContacts(c)' = Cardinality(Approved(c)) + (simulated[c].contacts + s.contacts)
        /\ MostExposure(c)' = Ledger!Granted(c) + (simulated[c].exposure + s.discount)
    BY <2>1, <2>4 DEF MostContacts, MostExposure
  <2>6. /\ row'[c].contacts = copy[v].contacts + s.contacts
        /\ row'[c].exposure \in {row[c].exposure, copy[v].exposure + s.discount}
    BY <2>1 DEF FinishUpdate
  <2>7. copy[v].contacts + s.contacts
          <= Cardinality(Approved(c)) + (simulated[c].contacts + s.contacts)
    BY SumsGrown, <2>2, <2>3
  <2>8. copy[v].exposure + s.discount
          <= Ledger!Granted(c) + (simulated[c].exposure + s.discount)
    BY SumsGrown, <2>2, <2>3
  <2>9. QED
    BY <1>1, <2>5, <2>6, <2>7, <2>8
<1>7. ASSUME NEW a \in Request, Approve(a), act[a].cust # c PROVE row'[c] = row[c]
  BY <1>7, ApproveEffect
<1>8. ASSUME NEW v \in Visit, Reset(v) \/ Finish(v), VisitTo[v] # c PROVE row'[c] = row[c]
  BY <1>8, ResetEffect, FinishEffect
<1>9. QED
  BY <1>2, <1>4, <1>5, <1>6, <1>7, <1>8, ApprovalStep DEF ApprovalsKept

LEMMA EmptyCounts ==
  ASSUME Init
  PROVE  \A c \in Customer : /\ Approved(c) = {} /\ ContactsMade[c] = {}
                             /\ Cardinality(Approved(c)) = 0
                             /\ Ledger!Granted(c) = 0
<1>1. ASSUME NEW c \in Customer
      PROVE  /\ Approved(c) = {} /\ ContactsMade[c] = {} /\ Cardinality(Approved(c)) = 0
             /\ Ledger!Granted(c) = 0
  <2>1. Approved(c) = {}
    BY DEF Init, Approved, Undecided
  <2>2. ContactsMade[c] = {}
    BY <2>1 DEF ContactsMade
  <2>3. Ledger!Rupees(c) = {}
    BY <2>2 DEF Ledger!Rupees
  <2>4. QED
    BY <2>1, <2>2, <2>3, SameCardinality, FS_EmptySet DEF Ledger!Granted
<1>2. QED
  BY <1>1

\* Whatever sessions and simulations overlap, a customer row never shows more contacts
\* or more exposure than were granted to the customer and simulated in its row.
THEOREM NeverOvercounts == Spec => []RowNeverOvercounts
<1>1. Init => RowNeverOvercounts /\ CopiesNeverOvercount
  <2> SUFFICES ASSUME Init PROVE RowNeverOvercounts /\ CopiesNeverOvercount
    OBVIOUS
  <2>1. \A c \in Customer : /\ row[c].contacts = 0 /\ row[c].exposure = 0
                            /\ simulated[c].contacts = 0 /\ simulated[c].exposure = 0
    BY DEF Init, NewRow
  <2>2. /\ \A r \in Request : snap[r].contacts = 0 /\ snap[r].exposure = 0
        /\ \A v \in Visit : copy[v].contacts = 0 /\ copy[v].exposure = 0
    BY DEF Init, NewRow
  <2>3. \A c \in Customer : MostContacts(c) = 0 /\ MostExposure(c) = 0
    BY <2>1, EmptyCounts DEF MostContacts, MostExposure
  <2>4. RowNeverOvercounts
    BY <2>1, <2>3 DEF RowNeverOvercounts, MostContacts, MostExposure
  <2>5. CopiesNeverOvercount
    BY <2>2, <2>3 DEF CopiesNeverOvercount
  <2>6. QED
    BY <2>4, <2>5
<1>2. TypeOK /\ Bookkeeping /\ SessionInv /\ RowNeverOvercounts /\ CopiesNeverOvercount
        /\ [Next]_vars
        => (RowNeverOvercounts /\ CopiesNeverOvercount)'
  BY CopiesStep, NeverOvercountStep
<1>3. QED
  BY <1>1, <1>2, TypeCorrect, BookkeepingHolds, SessionHolds, PTL DEF Spec

-------------------------------------------------------------------------------
(***************************************************************************)
(* One session at a time. The session's copy of the customer is the row,   *)
(* and the row is the summary of the contacts, so what the rules compare   *)
(* is what the ledger would.                                               *)
(***************************************************************************)
SerialInv ==
  /\ now >= SimulationEnd
  /\ \A r, s \in Open : r = s
  /\ \A r \in Request :
       /\ act[r].origin # "hitl" /\ ~act[r].dated
       /\ pc[r] \in {"loaded", "proposed"} => snap[r] = row[act[r].cust]
       /\ pc[r] = "proposed" \/ decision[r].verdict = "approved" =>
            act[r].at >= SimulationEnd
       /\ decision[r].verdict = "approved" => decision[r].source \in {"live", "fallback"}

LEMMA SerialOpenStep ==
  ASSUME OneSession, TypeOK, Bookkeeping, SessionInv, SerialInv, [Next]_vars
  PROVE  \A r, s \in Open' : r = s
<1>1. CASE Open' \subseteq Open
  BY <1>1 DEF SerialInv
<1>2. ASSUME NEW r \in Request, Open' \subseteq Open \cup {r}, Cardinality(Open) < Slots
      PROVE  \A s, t \in Open' : s = t
  <2>1. Cardinality(Open) \in Nat /\ IsFiniteSet(Open)
    BY FS_CardinalityType DEF SessionInv
  <2>2. Cardinality(Open) = 0
    BY <1>2, <2>1 DEF OneSession
  <2>3. Open = {}
    BY <2>1, <2>2, FS_EmptySet
  <2>4. QED
    BY <1>2, <2>3
<1>3. QED
  BY <1>1, <1>2, OpenStep

\* No simulation beside the session,
LEMMA SerialApprovals ==
  ASSUME OneSession, TypeOK, Bookkeeping, [Next]_vars
  PROVE  ApprovalsKept \/ \E r \in Request : Approve(r)
BY ApprovalStep DEF OneSession

LEMMA ClockStep ==
  ASSUME TypeOK, [Next]_vars
  PROVE  now' = now \/ now' > now
<1>1. now' = now \/ now' = now + Step
  BY VisitsAside DEF RequestNext, Tick, Load, Propose, BlockUndispatched, Suspend,
     RecordTicket, BlockByRule, BlockByCollision, Approve, WriteAudit, Label, Abort, requests
<1>2. now \in Nat
  BY DEF TypeOK
<1>3. QED
  BY <1>1, <1>2, Clock

\* and no dates but the clock's.
LEMMA SerialActStep ==
  ASSUME OneSession, TypeOK, SerialInv, [Next]_vars, NEW s \in Request
  PROVE  /\ act'[s].origin # "hitl" /\ ~act'[s].dated
         /\ act'[s].at = act[s].at \/ act'[s].at = now
<1>1. act[s] \in Action /\ act[s].origin # "hitl" /\ ~act[s].dated
  BY DEF TypeOK, SerialInv
<1>2. ASSUME NEW r \in Request, Propose(r)
      PROVE  /\ act'[s].origin # "hitl" /\ ~act'[s].dated
             /\ act'[s].at = act[s].at \/ act'[s].at = now
  <2>1. act' = [act EXCEPT ![r].at = now, ![r].wall = now]
    BY <1>2 DEF Propose, OneSession
  <2>2. QED
    BY <1>1, <2>1 DEF TypeOK, Action
<1>3. ASSUME NEW r \in Request, BlockUndispatched(r)
      PROVE  /\ act'[s].origin # "hitl" /\ ~act'[s].dated /\ act'[s].at = act[s].at
  <2>1. /\ act'[s].origin = act[s].origin /\ act'[s].at = act[s].at
        /\ act'[s].dated = act[s].dated
    BY <1>1, <1>3 DEF BlockUndispatched, TypeOK, Action
  <2>2. QED
    BY <1>1, <2>1
<1>4. act' = act \/ \E r \in Request : Propose(r) \/ BlockUndispatched(r)
  BY VisitsAside DEF RequestNext, Tick, Load, Suspend, RecordTicket, BlockByRule,
     BlockByCollision, Approve, WriteAudit, Label, Abort, requests
<1>5. QED
  BY <1>1, <1>2, <1>3, <1>4

LEMMA SerialStep ==
  ASSUME OneSession, TypeOK, Bookkeeping, SessionInv, SerialInv, [Next]_vars
  PROVE  SerialInv'
<1>1. now' >= SimulationEnd
  <2>1. now >= SimulationEnd /\ now \in Nat /\ SimulationEnd \in Nat
    BY SimulationEndAssumption DEF SerialInv, TypeOK
  <2>2. now' \in Nat
    BY TypeStep DEF TypeOK
  <2>3. QED
    BY <2>1, <2>2, ClockStep
<1>2. ASSUME NEW r \in Request PROVE act'[r].origin # "hitl" /\ ~act'[r].dated
  BY SerialActStep
<1>3. ASSUME NEW r \in Request, pc'[r] \in {"loaded", "proposed"}
      PROVE  snap'[r] = row'[act'[r].cust]
  <2>1. act'[r].cust = act[r].cust /\ act[r].cust \in Customer
    BY CustomerKept DEF TypeOK, Action
  <2>2. CASE pc[r] \in {"loaded", "proposed"}
    <3>1. row' = row
      <4>1. ASSUME NEW a \in Request, Approve(a) PROVE FALSE
        <5>1. a \in Open /\ r \in Open /\ pc'[a] = "label"
          BY <2>2, <4>1 DEF Open, Approve, TypeOK
        <5>2. a = r
          BY <5>1 DEF SerialInv
        <5>3. QED
          BY <1>3, <5>1, <5>2
      <4>2. QED
        BY <4>1, SerialApprovals DEF ApprovalsKept
    <3>2. snap'[r] = snap[r]
      BY <1>3, <2>2, VisitsAside
         DEF TypeOK, RequestNext, Tick, Load, Propose, BlockUndispatched, Suspend,
             RecordTicket, BlockByRule, BlockByCollision, Approve, WriteAudit, Label, Abort,
             Decide, requests
    <3>3. QED
      BY <2>1, <2>2, <3>1, <3>2 DEF SerialInv
  <2>3. CASE pc[r] \notin {"loaded", "proposed"}
    <3>1. Load(r)
      BY <1>3, <2>3, VisitsAside
         DEF TypeOK, RequestNext, Tick, Load, Propose, BlockUndispatched, Suspend,
             RecordTicket, BlockByRule, BlockByCollision, Approve, WriteAudit, Label, Abort,
             requests
    <3>2. QED
      BY <2>1, <3>1 DEF Load, TypeOK
  <2>4. QED
    BY <2>2, <2>3
<1>4. ASSUME NEW r \in Request,
             pc'[r] = "proposed" \/ decision'[r].verdict = "approved"
      PROVE  act'[r].at >= SimulationEnd
  <2>1. CASE act'[r].at = now
    BY <2>1 DEF SerialInv
  <2>2. CASE pc[r] = "proposed" \/ decision[r].verdict = "approved"
    BY <2>1, <2>2, SerialActStep DEF SerialInv
  <2>3. CASE ~ (pc[r] = "proposed" \/ decision[r].verdict = "approved")
    <3> pc'[r] = "proposed"
      <4>1. ASSUME NEW a \in Request, Approve(a), decision'[r].verdict = "approved"
            PROVE  a = r /\ pc[a] = "proposed"
        BY <2>3, <4>1, ApproveEffect DEF Approve
      <4>2. QED
        BY <1>4, <2>3, <4>1, SerialApprovals DEF ApprovalsKept
    <3>1. Propose(r)
      <4>1. ASSUME NEW a \in Request, Propose(a), a # r PROVE pc'[r] = pc[r]
        BY <4>1 DEF TypeOK, Propose
      <4>2. \E a \in Request : Propose(a)
        BY <2>3, VisitsAside
           DEF TypeOK, RequestNext, Tick, Load, BlockUndispatched, Suspend, RecordTicket,
               BlockByRule, BlockByCollision, Approve, WriteAudit, Label, Abort, requests
      <4>3. QED
        BY <2>3, <4>1, <4>2
    <3>2. act' = [act EXCEPT ![r].at = now, ![r].wall = now]
      BY <3>1 DEF Propose, OneSession
    <3>3. QED
      BY <2>1, <3>2 DEF TypeOK, Action
  <2>4. QED
    BY <2>2, <2>3
<1>5. ASSUME NEW r \in Request, decision'[r].verdict = "approved"
      PROVE  decision'[r].source \in {"live", "fallback"}
  <2>1. act[r].origin \in {"live", "fallback"}
    BY DEF TypeOK, Action, SerialInv
  <2>2. \A s \in Request : /\ decision[s].verdict = "approved" =>
                               decision[s].source \in {"live", "fallback"}
                          /\ decision[s] \in Decision
    BY DEF SerialInv, TypeOK, Decision
  <2>3. CASE UNCHANGED requests
    BY <1>5, <2>2, <2>3 DEF requests
  <2>4. CASE RequestNext
    <3>1. decision \in [Request -> Decision]
      BY DEF TypeOK, Decision
    <3>2. ASSUME NEW a \in Request,
                 Suspend(a) \/ BlockByRule(a) \/ BlockByCollision(a) \/ Approve(a)
          PROVE  decision'[r].source \in {"live", "fallback"}
      <4>1. \E verdict, why : Decide(a, verdict, why)
        BY <3>2 DEF Suspend, BlockByRule, BlockByCollision, Approve
      <4>2. decision'[r].source = "live" \/ decision'[r] = decision[r]
        BY <3>1, <4>1 DEF Decide
      <4>3. QED
        BY <1>5, <2>2, <4>2
    <3>3. ASSUME NEW a \in Request, RecordTicket(a) \/ Label(a)
          PROVE  decision'[r].source \in {"live", "fallback"}
      BY <1>5, <2>1, <2>2, <3>1, <3>3 DEF RecordTicket, Label, Decision
    <3>4. ASSUME NEW a \in Request, BlockUndispatched(a)
          PROVE  decision'[r].source \in {"live", "fallback"}
      BY <1>5, <2>2, <3>1, <3>4 DEF BlockUndispatched, Decision
    <3>5. ASSUME NEW a \in Request,
                 Load(a) \/ Propose(a) \/ WriteAudit(a) \/ Abort(a)
          PROVE  decision'[r].source \in {"live", "fallback"}
      BY <1>5, <2>2, <3>5 DEF Load, Propose, WriteAudit, Abort
    <3>6. CASE Tick
      BY <1>5, <2>2, <3>6 DEF Tick
    <3>7. QED
      BY <2>4, <3>2, <3>3, <3>4, <3>5, <3>6 DEF RequestNext
  <2>5. QED
    BY <2>3, <2>4, VisitsAside
<1>6. QED
  BY <1>1, <1>2, <1>3, <1>4, <1>5, SerialOpenStep DEF SerialInv

LEMMA SerialHolds ==
  ASSUME OneSession
  PROVE  Spec => []SerialInv
<1>1. Init => SerialInv
  <2> SUFFICES ASSUME Init PROVE SerialInv
    OBVIOUS
  <2>1. now >= SimulationEnd
    BY Clock, SimulationEndAssumption DEF Init, OneSession
  <2>2. Open = {}
    BY DEF Init, Open
  <2>3. ASSUME NEW r \in Request
        PROVE  /\ act[r].origin \in Origins /\ ~act[r].dated
               /\ pc[r] = "idle" /\ decision[r].verdict = "none"
    BY DEF Init, ActionOf, Undecided
  <2>4. QED
    BY <2>1, <2>2, <2>3 DEF SerialInv, OneSession
<1>2. TypeOK /\ Bookkeeping /\ SessionInv /\ SerialInv /\ [Next]_vars => SerialInv'
  BY SerialStep
<1>3. QED
  BY <1>1, <1>2, TypeCorrect, BookkeepingHolds, SessionHolds, PTL DEF Spec

\* A date without a client is the same stored and read.
LEMMA ServerDates ==
  ASSUME SessionInv, SerialInv
  PROVE  \A r \in Request : act[r].wall = act[r].at
BY DEF SessionInv, SerialInv

\* The cooldown, compared with the last contact of the row, holds for all of them.
LEMMA GapKept ==
  ASSUME HasDefaultRules, TypeOK, SerialInv, RowSummarisesLedger,
         NEW a \in Request, Approve(a), NEW r \in Approved(act[a].cust)
  PROVE  act[a].at - act[r].at >= CooldownHours * Hour
<1> DEFINE c == act[a].cust
<1>1. /\ c \in Customer /\ r \in Request /\ CooldownHours \in Nat
      /\ act[a].at \in Nat /\ act[r].at \in Nat
      /\ row[c].last \in Nat \cup {Never}
  BY DEF TypeOK, Action, Row, Approved, HasDefaultRules
<1>2. snap[a] = row[c]
  BY DEF SerialInv, Approve
<1>3. act[r].at <= row[c].last
  BY <1>1 DEF RowSummarisesLedger
<1>4. row[c].last # Never
  BY <1>1, <1>3 DEF Never
<1>5. PICK rule \in Rules : /\ Unscoped(rule) /\ rule.kind = "cooldown"
                            /\ rule.config.cooldown_hours = CooldownHours
  BY DEF HasDefaultRules
<1>6. ~ RuleBlocks(rule, act[a], snap[a], History(c))
  BY <1>5, RulePassed
<1>7. ~ (act[a].at - row[c].last < CooldownHours * Hour)
  BY <1>2, <1>4, <1>5, <1>6 DEF RuleBlocks, CooldownBlocks
<1>8. QED
  BY <1>1, <1>3, <1>4, <1>7 DEF Hour

\* The budget rule has compared what the ledger would have granted.
LEMMA BudgetKept ==
  ASSUME HasDefaultRules, TypeOK, SerialInv, RowSummarisesLedger,
         NEW a \in Request, Approve(a)
  PROVE  Ledger!Granted(act[a].cust) + act[a].discount <= MaxDiscount
<1> DEFINE c == act[a].cust
<1>1. /\ c \in Customer /\ MaxDiscount \in Nat /\ act[a].discount \in Nat
      /\ row[c].exposure \in Nat
  BY DEF TypeOK, Action, Row, HasDefaultRules
<1>2. snap[a].exposure = row[c].exposure /\ row[c].exposure = Ledger!Granted(c)
  BY <1>1 DEF SerialInv, Approve, RowSummarisesLedger
<1>3. PICK rule \in Rules : /\ Unscoped(rule) /\ rule.kind = "budget_limit"
                            /\ rule.config.max_discount = MaxDiscount
  BY DEF HasDefaultRules
<1>4. ~ RuleBlocks(rule, act[a], snap[a], History(c))
  BY <1>3, RulePassed
<1>5. ~ (row[c].exposure + act[a].discount > MaxDiscount)
  BY <1>2, <1>3, <1>4 DEF RuleBlocks, BudgetLimitBlocks
<1>6. row[c].exposure + act[a].discount <= MaxDiscount
  BY <1>1, <1>5
<1>7. QED
  BY <1>2, <1>6

\* The frequency cap has counted every contact of the ledger's window.
LEMMA CapKept ==
  ASSUME HasDefaultRules, TypeOK, Bookkeeping, SessionInv, SerialInv, RowSummarisesLedger,
         NEW a \in Request, Approve(a)
  PROVE  Cardinality({k \in ContactsMade[act[a].cust] :
                        act[a].at - k.at <= WindowHours * Hour}) < MaxContacts
<1> DEFINE c == act[a].cust
           H == InWindow(History(c), act[a], WindowHours)
           K == {k \in ContactsMade[c] : act[a].at - k.at <= WindowHours * Hour}
           entry == [k \in K |-> [id |-> k.id, at |-> k.at, source |-> decision[k.id].source]]
<1>1. /\ c \in Customer /\ MaxContacts \in Int /\ WindowHours \in Int /\ CooldownHours \in Nat
      /\ SimulationEnd \in Nat /\ act[a].at \in Nat
  BY SimulationEndAssumption DEF TypeOK, Action, HasDefaultRules
<1>2. IsFiniteSet(H) /\ Cardinality(H) \in Nat
  <2>1. IsFiniteSet(History(c))
    BY <1>1, HistoryFinite
  <2>2. H \subseteq History(c)
    BY DEF InWindow, Counted
  <2>3. QED
    BY <2>1, <2>2, SubsetBound
<1>3. Cardinality(H) < MaxContacts
  <2>1. PICK rule \in Rules : /\ Unscoped(rule) /\ rule.kind = "frequency_cap"
                              /\ rule.config.max_contacts = MaxContacts
                              /\ rule.config.window_hours = WindowHours
    BY DEF HasDefaultRules
  <2>2. ~ RuleBlocks(rule, act[a], snap[a], History(c))
    BY <2>1, RulePassed
  <2>3. ~ (Cardinality(H) >= MaxContacts)
    BY <2>1, <2>2 DEF RuleBlocks, FrequencyCapBlocks
  <2>4. QED
    BY <1>1, <1>2, <2>3
<1>4. ASSUME NEW k \in K PROVE entry[k] \in H
  <2>1. PICK r \in Approved(c) : k = Entry(r)
    BY <1>1, MadeFacts
  <2>2. /\ k.id = r /\ k.at = act[r].at /\ r \in Request /\ act[r].at \in Nat
        /\ decision[r].verdict = "approved"
    BY <2>1 DEF Entry, Approved, TypeOK, Action
  <2>3. entry[k] = [id |-> r, at |-> act[r].at, source |-> decision[r].source]
    BY <2>2
  <2>4. entry[k] \in History(c)
    BY <2>1, <2>2, <2>3, ServerDates DEF History
  <2>5. entry[k].source \in CountedSources(act[a].wall)
    BY <1>1, <2>2, <2>3, ServerDates DEF CountedSources, SerialInv, Approve
  <2>6. act[a].at - WindowHours * Hour <= act[r].at
    BY <1>1, <2>2 DEF Hour
  <2>7. act[r].at <= act[a].at
    BY <1>1, <2>2, GapKept DEF Hour
  <2>8. QED
    BY <2>3, <2>4, <2>5, <2>6, <2>7 DEF InWindow, Counted
<1>5. \A k \in K, l \in K : entry[k] = entry[l] => k = l
  <2>1. ASSUME NEW k \in K PROVE k = Entry(k.id) /\ entry[k].id = k.id
    <3>1. PICK r \in Approved(c) : k = Entry(r)
      BY <1>1, MadeFacts
    <3>2. QED
      BY <3>1 DEF Entry
  <2>2. QED
    BY <2>1
<1>6. entry \in Injection(K, H)
  BY <1>4, <1>5 DEF Injection, IsInjective
<1>7. IsFiniteSet(K) /\ Cardinality(K) <= Cardinality(H)
  BY <1>2, <1>6, FS_Injection
<1>8. Cardinality(K) \in Nat
  BY <1>7, FS_CardinalityType
<1>9. QED
  BY <1>1, <1>2, <1>3, <1>7, <1>8

LEMMA SummaryStep ==
  ASSUME OneSession, HasDefaultRules, TypeOK, Bookkeeping, SessionInv, SerialInv,
         RowSummarisesLedger,
         [Next]_vars
  PROVE  RowSummarisesLedger'
<1> SUFFICES ASSUME NEW c \in Customer
             PROVE  /\ row'[c].contacts = Cardinality(Approved(c)')
                    /\ row'[c].exposure = Ledger!Granted(c)'
                    /\ row'[c].last \in {act'[r].at : r \in Approved(c)'} \cup {Never}
                    /\ \A r \in Approved(c)' : act'[r].at <= row'[c].last
  BY DEF RowSummarisesLedger
<1>1. /\ row[c].contacts = Cardinality(Approved(c))
      /\ row[c].exposure = Ledger!Granted(c)
      /\ row[c].last \in {act[r].at : r \in Approved(c)} \cup {Never}
      /\ \A r \in Approved(c) : act[r].at <= row[c].last
  BY DEF RowSummarisesLedger
<1>2. ASSUME row'[c] = row[c], Approved(c)' = Approved(c),
             Ledger!Granted(c)' = Ledger!Granted(c),
             \A r \in Approved(c) : act'[r].at = act[r].at
      PROVE  /\ row'[c].contacts = Cardinality(Approved(c)')
             /\ row'[c].exposure = Ledger!Granted(c)'
             /\ row'[c].last \in {act'[r].at : r \in Approved(c)'} \cup {Never}
             /\ \A r \in Approved(c)' : act'[r].at <= row'[c].last
  BY <1>1, <1>2
<1>3. CASE ApprovalsKept
  <2>1. row'[c] = row[c] /\ \A r \in Approved(c) : act'[r].at = act[r].at
    BY <1>3 DEF ApprovalsKept, Approved
  <2>2. QED
    BY <1>2, <1>3, <2>1, CountsKept
<1>4. ASSUME NEW a \in Request, Approve(a), act[a].cust # c
      PROVE  /\ row'[c] = row[c] /\ Approved(c)' = Approved(c) /\ act' = act
             /\ Ledger!Granted(c)' = Ledger!Granted(c)
  BY <1>4, ApproveEffect, ApproveCounts
<1>5. ASSUME NEW a \in Request, Approve(a), act[a].cust = c
      PROVE  /\ row'[c].contacts = Cardinality(Approved(c)')
             /\ row'[c].exposure = Ledger!Granted(c)'
             /\ row'[c].last \in {act'[r].at : r \in Approved(c)'} \cup {Never}
             /\ \A r \in Approved(c)' : act'[r].at <= row'[c].last
  <2>1. row'[c] = UpdateAfterDecision(row[c], row[c], act[a]) /\ act' = act
    <3>1. snap[a] = row[c]
      BY <1>5 DEF SerialInv, Approve
    <3>2. QED
      BY <1>5, <3>1, ApproveEffect
  <2>2. /\ Approved(c)' = Approved(c) \cup {a}
        /\ Cardinality(Approved(c)') = Cardinality(Approved(c)) + 1
        /\ Ledger!Granted(c)' = Ledger!Granted(c) + act[a].discount
    BY <1>5, ApproveCounts
  <2>3. Ledger!Granted(c) \in Nat /\ act[a].discount \in Nat
    BY MadeFacts DEF TypeOK, Action
  <2>4. /\ row'[c].contacts = row[c].contacts + 1
        /\ row'[c].exposure = row[c].exposure + act[a].discount
        /\ row'[c].last = act[a].at
    BY <1>1, <2>1, <2>3, ServerDates DEF UpdateAfterDecision
  <2>5. ASSUME NEW r \in Approved(c) PROVE act[r].at <= act[a].at
    <3>1. /\ act[a].at - act[r].at >= CooldownHours * Hour
          /\ CooldownHours \in Nat /\ act[a].at \in Nat /\ act[r].at \in Nat
      BY <1>5, GapKept DEF HasDefaultRules, TypeOK, Action, Approved
    <3>2. QED
      BY <3>1 DEF Hour
  <2>6. act[a].at <= act[a].at
    BY DEF TypeOK, Action
  <2>7. QED
    BY <1>1, <2>1, <2>2, <2>4, <2>5, <2>6
<1>6. QED
  BY <1>2, <1>3, <1>4, <1>5, SerialApprovals

LEMMA SummaryHolds ==
  ASSUME OneSession, HasDefaultRules
  PROVE  Spec => []RowSummarisesLedger
<1>1. Init => RowSummarisesLedger
  <2> SUFFICES ASSUME Init PROVE RowSummarisesLedger
    OBVIOUS
  <2>1. \A c \in Customer :
          row[c].contacts = 0 /\ row[c].exposure = 0 /\ row[c].last = Never
    BY DEF Init, NewRow
  <2>2. QED
    BY <2>1, EmptyCounts DEF RowSummarisesLedger
<1>2. TypeOK /\ Bookkeeping /\ SessionInv /\ SerialInv /\ RowSummarisesLedger /\ [Next]_vars
        => RowSummarisesLedger'
  BY SummaryStep
<1>3. QED
  BY <1>1, <1>2, TypeCorrect, BookkeepingHolds, SessionHolds, SerialHolds, PTL DEF Spec

\* With one session at a time and the default rules, the customer row is the exact
\* summary of the contacts made.
THEOREM RowSummary == OneSession /\ HasDefaultRules => (Spec => []RowSummarisesLedger)
BY SummaryHolds

-------------------------------------------------------------------------------
\* An approval is a contact of the ledger.
LEMMA ApproveIsContact ==
  ASSUME HasDefaultRules, TypeOK, Bookkeeping, SessionInv, SerialInv, RowSummarisesLedger,
         NEW a \in Request, Approve(a)
  PROVE  Ledger!LedgerNext
<1> DEFINE c == act[a].cust
           k == Entry(a)
<1>1. /\ c \in Customer /\ k.at = act[a].at /\ k.discount = act[a].discount
  BY DEF TypeOK, Action, Entry
<1>2. ContactsMade'[c] = ContactsMade[c] \cup {k} /\ k \notin ContactsMade[c]
  BY <1>1, ApproveCounts
<1>3. k.at <= now
  BY <1>1 DEF SessionInv, SerialInv
<1>4. ASSUME NEW other \in ContactsMade[c] PROVE k.at - other.at >= CooldownHours * Hour
  <2>1. PICK r \in Approved(c) : other = Entry(r)
    BY <1>1, MadeFacts
  <2>2. QED
    BY <1>1, <2>1, GapKept DEF Entry
<1>5. Ledger!Cardinality({other \in ContactsMade[c] :
                            k.at - other.at <= WindowHours * Hour}) < MaxContacts
  BY <1>1, CapKept, SameCardinality
<1>6. Ledger!Granted(c) + k.discount <= MaxDiscount
  BY <1>1, BudgetKept
<1>7. ContactsMade' = [ContactsMade EXCEPT ![c] = @ \cup {k}]
  <2>1. ContactsMade' = [d \in Customer |-> ContactsMade'[d]]
    BY DEF ContactsMade
  <2>2. ASSUME NEW d \in Customer, d # c PROVE ContactsMade'[d] = ContactsMade[d]
    BY <2>2, ApproveCounts
  <2>3. ContactsMade = [d \in Customer |-> ContactsMade[d]]
    BY DEF ContactsMade
  <2>4. QED
    BY <1>1, <1>2, <2>1, <2>2, <2>3
<1>8. UNCHANGED now
  BY DEF Approve
<1>9. Ledger!Contact(c, k)
  BY <1>2, <1>3, <1>4, <1>5, <1>6, <1>7, <1>8 DEF Ledger!Contact
<1>10. QED
  BY <1>1, <1>2, <1>9 DEF Ledger!LedgerNext

LEMMA LedgerStep ==
  ASSUME OneSession, HasDefaultRules, TypeOK, Bookkeeping, SessionInv, SerialInv,
         RowSummarisesLedger,
         [Next]_vars
  PROVE  [Ledger!LedgerNext]_(Ledger!ledger)
<1>1. CASE ApprovalsKept
  <2>1. ContactsMade' = ContactsMade
    <3>1. \A c \in Customer : ContactsMade'[c] = ContactsMade[c]
      BY <1>1, CountsKept
    <3>2. QED
      BY <3>1 DEF ContactsMade
  <2>2. now' = now \/ now' > now
    BY ClockStep
  <2>3. QED
    BY <2>1, <2>2 DEF Ledger!LedgerNext, Ledger!Pass, Ledger!ledger
<1>2. QED
  BY <1>1, ApproveIsContact, SerialApprovals

LEMMA LedgerImplemented ==
  ASSUME OneSession, HasDefaultRules
  PROVE  Spec => ImplementsLedger
<1>1. Init => Ledger!LedgerInit
  <2> SUFFICES ASSUME Init PROVE Ledger!LedgerInit
    OBVIOUS
  <2>1. now \in Nat
    BY Clock DEF Init
  <2>2. ContactsMade = [c \in Customer |-> {}]
    <3>1. \A c \in Customer : ContactsMade[c] = {}
      BY EmptyCounts
    <3>2. QED
      BY <3>1 DEF ContactsMade
  <2>3. QED
    BY <2>1, <2>2 DEF Ledger!LedgerInit
<1>2. TypeOK /\ Bookkeeping /\ SessionInv /\ SerialInv /\ RowSummarisesLedger /\ [Next]_vars
        => [Ledger!LedgerNext]_(Ledger!ledger)
  BY LedgerStep
<1>3. QED
  BY <1>1, <1>2, TypeCorrect, BookkeepingHolds, SessionHolds, SerialHolds, SummaryHolds,
     PTL DEF Spec, ImplementsLedger, Ledger!LedgerSpec

\* With one session at a time and the default rules the engine implements the ledger.
THEOREM SerialRefinement == OneSession /\ HasDefaultRules => (Spec => ImplementsLedger)
BY LedgerImplemented

-------------------------------------------------------------------------------
(***************************************************************************)
(* What the default rules promise, on the contacts made: overlapping       *)
(* sessions are all that can break it.                                     *)
(***************************************************************************)
InCapWindow(c, t) ==
  {s \in Approved(c) : act[s].at <= t /\ t - act[s].at <= WindowHours * Hour}

\* With itself, a new contact fills its window at most up to the cap.
LEMMA WindowKept ==
  ASSUME HasDefaultRules, TypeOK, Bookkeeping, SessionInv, SerialInv, RowSummarisesLedger,
         NEW a \in Request, Approve(a), NEW S, S \subseteq Approved(act[a].cust),
         \A s \in S : act[a].at - act[s].at <= WindowHours * Hour
  PROVE  /\ IsFiniteSet(S \cup {a}) /\ Cardinality(S \cup {a}) <= MaxContacts
         /\ MaxContacts \in Nat
<1> DEFINE c == act[a].cust
           K == {k \in ContactsMade[c] : act[a].at - k.at <= WindowHours * Hour}
           entry == [s \in S |-> Entry(s)]
<1>1. c \in Customer /\ MaxContacts \in Int
  BY DEF TypeOK, Action, HasDefaultRules
<1>2. /\ ContactsMade[c] = {Entry(r) : r \in Approved(c)} /\ IsFiniteSet(ContactsMade[c])
      /\ IsFiniteSet(Approved(c))
  BY <1>1, MadeFacts
<1>3. IsFiniteSet(K) /\ Cardinality(K) \in Nat /\ Cardinality(K) < MaxContacts
  BY <1>2, SubsetBound, CapKept
<1>4. entry \in Injection(S, K)
  <2>1. \A s \in S : Entry(s) \in K
    BY <1>2 DEF Entry
  <2>2. \A s \in S, u \in S : Entry(s) = Entry(u) => s = u
    BY DEF Entry
  <2>3. QED
    BY <2>1, <2>2 DEF Injection, IsInjective
<1>5. IsFiniteSet(S) /\ Cardinality(S) <= Cardinality(K)
  BY <1>2, <1>3, <1>4, SubsetBound, FS_Injection
<1>6. Cardinality(S) \in Nat
  BY <1>5, FS_CardinalityType
<1>7. MaxContacts \in Nat /\ Cardinality(S) < MaxContacts
  BY ONLY <1>1, <1>3, <1>5, <1>6
<1>8. QED
  BY <1>5, <1>7, OneMore

LEMMA PromisesStep ==
  ASSUME OneSession, HasDefaultRules, TypeOK, Bookkeeping, SessionInv, SerialInv,
         RowSummarisesLedger,
         CooldownHolds, FrequencyCapHolds, BudgetHolds, [Next]_vars
  PROVE  CooldownHolds' /\ FrequencyCapHolds' /\ BudgetHolds'
<1>1. CASE ApprovalsKept
  <2>1. \A c \in Customer : /\ Approved(c)' = Approved(c)
                            /\ Ledger!Granted(c)' = Ledger!Granted(c)
                            /\ \A s \in Approved(c) : act'[s] = act[s]
    BY <1>1, CountsKept DEF ApprovalsKept, Approved
  <2>2. CooldownHolds'
    BY <2>1 DEF CooldownHolds
  <2>3. FrequencyCapHolds'
    <3> SUFFICES ASSUME NEW c \in Customer, NEW r \in Approved(c)
                 PROVE  Cardinality({s \in Approved(c) :
                          /\ act'[s].at <= act'[r].at
                          /\ act'[r].at - act'[s].at <= WindowHours * Hour}) <= MaxContacts
      BY <2>1 DEF FrequencyCapHolds
    <3>1. {s \in Approved(c) : /\ act'[s].at <= act'[r].at
                               /\ act'[r].at - act'[s].at <= WindowHours * Hour}
            = {s \in Approved(c) : /\ act[s].at <= act[r].at
                                   /\ act[r].at - act[s].at <= WindowHours * Hour}
      BY <2>1
    <3>2. QED
      BY <3>1 DEF FrequencyCapHolds
  <2>4. BudgetHolds'
    BY <2>1 DEF BudgetHolds
  <2>5. QED
    BY <2>2, <2>3, <2>4
<1>2. ASSUME NEW a \in Request, Approve(a), NEW d \in Customer, act[a].cust = d
      PROVE  CooldownHolds' /\ FrequencyCapHolds' /\ BudgetHolds'
  <2>1. /\ act' = act
        /\ \A s \in Request : act[s].at \in Nat
        /\ MaxDiscount \in Nat /\ CooldownHours \in Nat /\ WindowHours \in Int
    BY <1>2, ApproveEffect DEF TypeOK, Action, HasDefaultRules
  <2>2. \A c \in Customer : c # d => /\ Approved(c)' = Approved(c)
                                     /\ Ledger!Granted(c)' = Ledger!Granted(c)
    BY <1>2, ApproveCounts
  <2>3. /\ Approved(d)' = Approved(d) \cup {a}
        /\ Ledger!Granted(d)' = Ledger!Granted(d) + act[a].discount
    BY <1>2, <2>1, ApproveCounts
  <2>4. \A r \in Approved(d) : act[a].at - act[r].at >= CooldownHours * Hour
    BY <1>2, GapKept
  <2>5. CooldownHolds'
    <3> SUFFICES ASSUME NEW c \in Customer, NEW r \in Approved(c)', NEW s \in Approved(c)',
                        r # s
                 PROVE  \/ act[r].at - act[s].at >= CooldownHours * Hour
                        \/ act[s].at - act[r].at >= CooldownHours * Hour
      BY <2>1 DEF CooldownHolds
    <3>1. CASE r \in Approved(c) /\ s \in Approved(c)
      BY <3>1 DEF CooldownHolds
    <3>2. CASE c = d /\ (r = a \/ s = a)
      BY <2>3, <2>4, <3>2
    <3>3. QED
      BY <2>2, <2>3, <3>1, <3>2
  <2>6. FrequencyCapHolds'
    <3> SUFFICES ASSUME NEW c \in Customer, NEW r \in Approved(c)'
                 PROVE  Cardinality({s \in Approved(c)' :
                          /\ act[s].at <= act[r].at
                          /\ act[r].at - act[s].at <= WindowHours * Hour}) <= MaxContacts
      BY <2>1 DEF FrequencyCapHolds
    <3> DEFINE V == {s \in Approved(c)' : /\ act[s].at <= act[r].at
                                          /\ act[r].at - act[s].at <= WindowHours * Hour}
    <3>1. r \in Request /\ a \in Request
      BY DEF Approved
    <3>2. CASE a \notin V /\ r \in Approved(c)
      <4>1. V = {s \in Approved(c) : /\ act[s].at <= act[r].at
                                     /\ act[r].at - act[s].at <= WindowHours * Hour}
        BY <2>2, <2>3, <3>2
      <4>2. QED
        BY <3>2, <4>1 DEF FrequencyCapHolds
    <3>3. CASE a \in V \/ r \notin Approved(c)
      <4>1. c = d
        <5>1. a \notin Approved(c)
          BY <1>2, ApproveSets
        <5>2. QED
          BY <2>2, <3>3, <5>1
      <4>2. act[a].at = act[r].at
        <5>1. CASE r = a
          BY <5>1
        <5>2. CASE r # a
          <6>1. r \in Approved(d) /\ act[a].at <= act[r].at
            BY <2>3, <3>3, <4>1, <5>2
          <6>2. act[a].at - act[r].at >= CooldownHours * Hour
            BY <2>4, <6>1
          <6>3. QED
            BY <2>1, <3>1, <6>1, <6>2 DEF Hour
        <5>3. QED
          BY <5>1, <5>2
      <4>3. /\ IsFiniteSet((V \ {a}) \cup {a})
            /\ Cardinality((V \ {a}) \cup {a}) <= MaxContacts
            /\ MaxContacts \in Nat
        <5>1. V \ {a} \subseteq Approved(d)
          BY <2>3, <4>1
        <5>2. \A s \in V \ {a} : act[a].at - act[s].at <= WindowHours * Hour
          BY <4>2
        <5>3. QED
          BY <1>2, <5>1, <5>2, WindowKept
      <4>4. V \subseteq (V \ {a}) \cup {a}
        OBVIOUS
      <4>5. QED
        BY <4>3, <4>4, AtMost
    <3>4. QED
      BY <3>2, <3>3
  <2>7. BudgetHolds'
    <3>1. Ledger!Granted(d) + act[a].discount <= MaxDiscount
      BY <1>2, BudgetKept
    <3>2. QED
      BY <2>2, <2>3, <3>1 DEF BudgetHolds
  <2>8. QED
    BY <2>5, <2>6, <2>7
<1>3. ASSUME NEW a \in Request, Approve(a) PROVE act[a].cust \in Customer
  BY DEF TypeOK, Action
<1>4. QED
  BY <1>1, <1>2, <1>3, SerialApprovals

LEMMA PromisesHold ==
  ASSUME OneSession, HasDefaultRules
  PROVE  Spec => [](CooldownHolds /\ FrequencyCapHolds /\ BudgetHolds)
<1>1. Init => CooldownHolds /\ FrequencyCapHolds /\ BudgetHolds
  <2> SUFFICES ASSUME Init PROVE CooldownHolds /\ FrequencyCapHolds /\ BudgetHolds
    OBVIOUS
  <2>1. \A c \in Customer : Approved(c) = {} /\ Ledger!Granted(c) = 0
    BY EmptyCounts
  <2>2. MaxDiscount \in Nat
    BY DEF HasDefaultRules
  <2>3. BudgetHolds
    BY <2>1, <2>2 DEF BudgetHolds
  <2>4. QED
    BY <2>1, <2>3 DEF CooldownHolds, FrequencyCapHolds
<1>2. /\ TypeOK /\ Bookkeeping /\ SessionInv /\ SerialInv /\ RowSummarisesLedger
      /\ CooldownHolds /\ FrequencyCapHolds /\ BudgetHolds /\ [Next]_vars
      => CooldownHolds' /\ FrequencyCapHolds' /\ BudgetHolds'
  BY PromisesStep
<1>3. QED
  BY <1>1, <1>2, TypeCorrect, BookkeepingHolds, SessionHolds, SerialHolds, SummaryHolds, PTL
     DEF Spec

\* One session at a time keeps the gap, the cap and the budget that the default rules
\* of main.py describe, on the contacts made and not only on what the row records.
THEOREM SerialPromises ==
  OneSession /\ HasDefaultRules =>
    (Spec => [](CooldownHolds /\ FrequencyCapHolds /\ BudgetHolds))
BY PromisesHold

===============================================================================
