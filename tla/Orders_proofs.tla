---------------------------- MODULE Orders_proofs -----------------------------
(***************************************************************************)
(* Theorems about Orders, for any number of requests, retries, crashes and *)
(* faults.                                                                 *)
(***************************************************************************)
EXTENDS Orders, TLAPS

USE OrdersAssumption

\* What a call of Razorpay, successful or not, does to its request.
LEMMA CallEffect ==
  ASSUME TypeOK, NEW r \in Request, CallSdk(r) \/ CallHttpx(r)
  PROVE  /\ \A q \in Request \ {r} : /\ pc'[q] = pc[q] /\ tries'[q] = tries[q]
                                     /\ made'[q] = made[q]
         /\ made'[r] \in {made[r], made[r] + 1}
         /\ \/ /\ pc'[r] = "replied" /\ made'[r] = made[r] + 1 /\ tries'[r] = tries[r]
            \/ pc[r] = "sdk" /\ pc'[r] = "httpx" /\ tries'[r] = tries[r]
            \/ pc'[r] = "sdk" /\ tries'[r] = tries[r] + 1 /\ tries[r] <= MaxRetries
            \/ pc'[r] = "fallback" /\ kind[r] = "orders" /\ tries'[r] = tries[r]
            \/ pc'[r] = "refused" /\ tries'[r] = tries[r]
         /\ pc' = [pc EXCEPT ![r] = pc'[r]]
         /\ tries' = [tries EXCEPT ![r] = tries'[r]]
         /\ made' = [made EXCEPT ![r] = made'[r]]
         /\ UNCHANGED <<kind, row, emitted, tracking, crashes, faults>>
<1>1. ASSUME NEW timedOut \in BOOLEAN, Again(r, timedOut)
      PROVE  /\ pc' = [pc EXCEPT ![r] = pc'[r]]
             /\ tries' = [tries EXCEPT ![r] = tries'[r]]
             /\ \/ pc'[r] = "sdk" /\ tries'[r] = tries[r] + 1 /\ tries[r] <= MaxRetries
                \/ pc'[r] = "fallback" /\ kind[r] = "orders" /\ tries'[r] = tries[r]
                \/ pc'[r] = "refused" /\ tries'[r] = tries[r]
  <2>1. CASE /\ tries[r] <= MaxRetries
             /\ Goto(r, "sdk") /\ tries' = [tries EXCEPT ![r] = @ + 1]
    BY <2>1 DEF Goto, TypeOK
  <2>2. CASE /\ Goto(r, IF timedOut THEN AfterTimeout(r) ELSE "refused")
             /\ UNCHANGED tries
    BY <2>2 DEF Goto, TypeOK, AfterTimeout
  <2>3. QED
    BY <1>1, <2>1, <2>2 DEF Again
<1>2. ASSUME MaybeMake(r)
      PROVE  made' = [made EXCEPT ![r] = made'[r]] /\ made'[r] \in {made[r], made[r] + 1}
  BY <1>2 DEF MaybeMake, Make, TypeOK
<1>3. ASSUME Make(r)
      PROVE  made' = [made EXCEPT ![r] = made'[r]] /\ made'[r] = made[r] + 1
  BY <1>3 DEF Make, TypeOK
<1>4. ASSUME NEW where, Goto(r, where), UNCHANGED tries
      PROVE  /\ pc' = [pc EXCEPT ![r] = pc'[r]] /\ pc'[r] = where
             /\ tries' = [tries EXCEPT ![r] = tries'[r]] /\ tries'[r] = tries[r]
  BY <1>4 DEF Goto, TypeOK
<1> DEFINE Effect ==
      /\ pc' = [pc EXCEPT ![r] = pc'[r]]
      /\ tries' = [tries EXCEPT ![r] = tries'[r]]
      /\ made' = [made EXCEPT ![r] = made'[r]]
      /\ made'[r] \in {made[r], made[r] + 1}
      /\ \/ /\ pc'[r] = "replied" /\ made'[r] = made[r] + 1 /\ tries'[r] = tries[r]
         \/ pc[r] = "sdk" /\ pc'[r] = "httpx" /\ tries'[r] = tries[r]
         \/ pc'[r] = "sdk" /\ tries'[r] = tries[r] + 1 /\ tries[r] <= MaxRetries
         \/ pc'[r] = "fallback" /\ kind[r] = "orders" /\ tries'[r] = tries[r]
         \/ pc'[r] = "refused" /\ tries'[r] = tries[r]
<1>5. Effect
  <2>1. CASE Make(r) /\ Goto(r, "replied") /\ UNCHANGED tries
    BY <2>1, <1>3, <1>4
  <2>2. CASE pc[r] = "sdk" /\ MaybeMake(r) /\ Goto(r, "httpx") /\ UNCHANGED tries
    BY <2>2, <1>2, <1>4
  <2>3. ASSUME NEW timedOut \in BOOLEAN, MaybeMake(r), Again(r, timedOut)
        PROVE  Effect
    BY <2>3, <1>1, <1>2
  <2>4. CASE CallSdk(r)
    <3> HIDE DEF Effect
    <3>1. QED
      BY <2>1, <2>2, <2>3, <2>4, Zenon DEF CallSdk
  <2>5. CASE CallHttpx(r)
    <3> HIDE DEF Effect
    <3>1. QED
      BY <2>1, <2>3, <2>5, Zenon DEF CallHttpx
  <2>6. QED
    BY <2>4, <2>5
<1>6. UNCHANGED <<kind, row, emitted, tracking, crashes, faults>>
  BY DEF CallSdk, CallHttpx
<1>7. QED
  BY <1>5, <1>6 DEF TypeOK

\* TypeOK is preserved by every step.
LEMMA TypeStep == TypeOK /\ [Next]_vars => TypeOK'
<1> SUFFICES ASSUME TypeOK, [Next]_vars PROVE TypeOK'
  OBVIOUS
<1> USE DEF TypeOK, Seen, Goto, Fault, creation, tracking
<1>1. ASSUME NEW r \in Request, Begin(r) PROVE TypeOK'
  BY <1>1 DEF Begin, AfterTimeout
<1>2. ASSUME NEW r \in Request, CallSdk(r) \/ CallHttpx(r) PROVE TypeOK'
  BY <1>2, CallEffect
<1>3. ASSUME NEW r \in Request, Answer(r) PROVE TypeOK'
  BY <1>3 DEF Answer
<1>4. ASSUME NEW r \in Request, Pay(r) PROVE TypeOK'
  BY <1>4 DEF Pay, Message, Event
<1>5. ASSUME NEW m \in emitted, Deliver(m) PROVE TypeOK'
  BY <1>5 DEF Deliver, Exists
<1>6. ASSUME NEW h \in hook, Store(h) PROVE TypeOK'
  <2>1. h.msg \in emitted /\ h.msg.order \in Request
    BY DEF Message
  <2>2. Status(h.msg) \in {"paid", "payment.failed"}
    BY <2>1 DEF Status, Message, Event, Paying
  <2>3. QED
    BY <1>6, <2>1, <2>2 DEF Store
<1>7. ASSUME NEW m \in queue, Take(m) PROVE TypeOK'
  BY <1>7 DEF Take, Exists
<1>8. ASSUME NEW w \in work, Track(w) PROVE TypeOK'
  <2>1. w.msg \in emitted /\ w.msg.order \in Request
    BY DEF Message
  <2>2. Status(w.msg) \in {"paid", "payment.failed"}
    BY <2>1 DEF Status, Message, Event, Paying
  <2>3. QED
    BY <1>8, <2>1, <2>2 DEF Track
<1>9. CASE Crash
  BY <1>9 DEF Crash
<1>10. CASE UNCHANGED vars
  BY <1>10 DEF vars
<1>11. QED
  BY <1>1, <1>2, <1>3, <1>4, <1>5, <1>6, <1>7, <1>8, <1>9, <1>10 DEF Next

LEMMA TypeInit == Init => TypeOK
  BY DEF Init, TypeOK, Seen

\* Every variable keeps its type, and only events Razorpay has emitted are worked
\* on (models/order.py, handle_razorpay_webhook).
THEOREM TypeCorrect == Spec => []TypeOK
  BY TypeInit, TypeStep, PTL DEF Spec

-------------------------------------------------------------------------------
\* Two orders for each attempt that is over, one for the SDK call of the present
\* one.
Budget ==
  \A r \in Request :
    /\ pc[r] = "idle" => made[r] = 0
    /\ pc[r] = "sdk" => tries[r] >= 1 /\ made[r] <= 2 * (tries[r] - 1)
    /\ pc[r] = "httpx" => tries[r] >= 1 /\ made[r] <= 2 * tries[r] - 1
    /\ made[r] <= 2 * tries[r] /\ tries[r] <= MaxRetries + 1
    /\ pc[r] = "replied" => made[r] > 0
    /\ pc[r] = "fallback" => kind[r] = "orders"
    /\ pc[r] = "answered" => made[r] > 0

\* Budget is preserved: an attempt uses its two calls, then the next one begins.
LEMMA BudgetStep == TypeOK /\ Budget /\ [Next]_vars => Budget'
<1> SUFFICES ASSUME TypeOK, Budget, [Next]_vars PROVE Budget'
  OBVIOUS
<1> USE DEF TypeOK, Budget, creation
<1>1. ASSUME NEW r \in Request, Begin(r) PROVE Budget'
  BY <1>1 DEF Begin, AfterTimeout, Goto
<1>2. ASSUME NEW r \in Request, CallSdk(r) PROVE Budget'
  <2>1. /\ tries[r] \in Nat /\ made[r] \in Nat /\ pc[r] = "sdk" /\ tries[r] >= 1
        /\ made[r] <= 2 * (tries[r] - 1)
    BY <1>2 DEF CallSdk
  <2>2. QED
    BY <1>2, <2>1, CallEffect
<1>3. ASSUME NEW r \in Request, CallHttpx(r) PROVE Budget'
  <2>1. /\ tries[r] \in Nat /\ made[r] \in Nat /\ pc[r] = "httpx" /\ tries[r] >= 1
        /\ made[r] <= 2 * tries[r] - 1
    BY <1>3 DEF CallHttpx
  <2>2. QED
    BY <1>3, <2>1, CallEffect
<1>4. ASSUME NEW r \in Request, Answer(r) PROVE Budget'
  <2>1. /\ \A q \in Request \ {r} : pc'[q] = pc[q]
        /\ pc'[r] \in {"answered", "degraded", "refused"}
        /\ pc'[r] = "answered" => pc[r] = "replied"
        /\ UNCHANGED <<kind, tries, made>>
    BY <1>4 DEF Answer, Goto
  <2>2. QED
    BY <2>1
<1>5. CASE Crash
  BY <1>5 DEF Crash
<1>6. CASE UNCHANGED <<kind, pc, tries, made>>
  BY <1>6
<1>7. QED
  BY <1>1, <1>2, <1>3, <1>4, <1>5, <1>6
  DEF Next, Pay, Deliver, Store, Take, Track, vars

\* No request makes more than two orders for each attempt (create_order).
THEOREM Bounded == Spec => []OrdersBounded
<1>1. Init => Budget
  BY DEF Init, Budget
<1>2. TypeOK /\ Budget => OrdersBounded
  <2> SUFFICES ASSUME TypeOK, Budget, NEW r \in Request
               PROVE  /\ made[r] <= 2 * (MaxRetries + 1)
                      /\ pc[r] \in {"replied", "answered"} => made[r] > 0
    BY DEF OrdersBounded
  <2>1. /\ tries[r] \in Nat /\ made[r] \in Nat
        /\ made[r] <= 2 * tries[r] /\ tries[r] <= MaxRetries + 1
    BY DEF TypeOK, Budget
  <2>2. QED
    BY <2>1 DEF Budget
<1>3. QED
  BY <1>1, <1>2, TypeCorrect, BudgetStep, PTL DEF Spec

-------------------------------------------------------------------------------
\* What ties the deliveries to the table. Only orders that were handed out are
\* paid, and a row once there stays.
Tracking ==
  /\ \A m \in emitted : pc[m.order] = "answered"
  /\ \A r \in Request : shown[r] # "none" => pc[r] = "answered"
  /\ \A s \in hook \cup work : s.saw => Exists(s.msg)
  /\ \A m \in queue : Exists(m) \/ faults > 0
  /\ \A w \in work : Exists(w.msg) \/ faults > 0

Inv == Tracking /\ PaidIsCaptured /\ ShowsLastDelivery /\ HandledHasRow

LEMMA StatusOf ==
  ASSUME NEW m \in Message
  PROVE  /\ Status(m) \in {"paid", "payment.failed"}
         /\ Status(m) = "paid" => m.event \in Paying
         /\ m = [order |-> m.order, event |-> m.event]
         /\ m.order \in Request
  BY DEF Status, Message, Event, Paying

\* Inv is preserved by the steps of a request.
LEMMA RequestStep ==
  ASSUME TypeOK, Inv, NEW r \in Request,
         Begin(r) \/ CallSdk(r) \/ CallHttpx(r) \/ Answer(r) \/ Pay(r)
  PROVE  Inv'
<1> USE DEF Inv, Tracking, PaidIsCaptured, ShowsLastDelivery, HandledHasRow, Exists,
            tracking, creation
<1>1. CASE Begin(r) \/ CallSdk(r) \/ CallHttpx(r)
  <2>1. /\ UNCHANGED <<row, emitted, tracking, faults>>
        /\ pc[r] # "answered"
        /\ \A q \in Request \ {r} : pc'[q] = pc[q]
    <3>1. CASE Begin(r)
      BY <3>1 DEF TypeOK, Begin, Goto
    <3>2. CASE CallSdk(r) \/ CallHttpx(r)
      <4>1. pc[r] # "answered"
        BY <3>2 DEF CallSdk, CallHttpx
      <4>2. QED
        BY <3>2, <4>1, CallEffect
    <3>3. QED
      BY <1>1, <3>1, <3>2
  <2>2. \A m \in emitted : m.order \in Request
    BY DEF TypeOK, Message
  <2>3. QED
    BY <2>1, <2>2
<1>2. CASE Answer(r)
  <2>1. /\ UNCHANGED <<emitted, tracking>> /\ pc[r] # "answered"
        /\ \A q \in Request \ {r} : pc'[q] = pc[q] /\ row'[q] = row[q]
        /\ row'[r] = row[r] \/ row'[r] \in {"created", "fallback"}
        /\ faults' \in Nat /\ faults \in Nat /\ faults' >= faults
    BY <1>2 DEF TypeOK, Answer, Goto, Fault
  <2>2. \A m \in emitted : m.order \in Request /\ m.order # r
    BY <2>1 DEF TypeOK, Message
  <2>3. shown[r] = "none"
    BY <2>1
  <2>4. \A s \in hook \cup work : s.msg \in emitted
    BY DEF TypeOK, Seen
  <2>5. \A s \in hook \cup work : Exists(s.msg)' = Exists(s.msg)
    BY <2>1, <2>2, <2>4
  <2>6. \A m \in queue : Exists(m)' = Exists(m)
    BY <2>1, <2>2 DEF TypeOK
  <2>7. Tracking'
    BY <2>1, <2>2, <2>3, <2>5, <2>6
  <2>8. PaidIsCaptured' /\ ShowsLastDelivery'
    BY <2>1, <2>3
  <2>9. HandledHasRow'
    BY <2>1, <2>2 DEF TypeOK
  <2>10. QED
    BY <2>7, <2>8, <2>9
<1>3. CASE Pay(r)
  <2>1. UNCHANGED <<creation, row, tracking, faults>> /\ emitted \subseteq emitted'
    BY <1>3 DEF Pay
  <2>2. \A m \in emitted' \ emitted : m.order = r
    BY <1>3 DEF Pay
  <2>3. pc[r] = "answered"
    BY <1>3 DEF Pay
  <2>4. QED
    BY <2>1, <2>2, <2>3
<1>4. QED
  BY <1>1, <1>2, <1>3

\* Inv is preserved when the row of a delivery's order gets its status, or a
\* transaction of the handler fails.
LEMMA StoreStep == ASSUME TypeOK, Inv, NEW h \in hook, Store(h) PROVE Inv'
<1> USE DEF Inv, Tracking, PaidIsCaptured, ShowsLastDelivery, HandledHasRow, Exists,
            creation
<1> DEFINE o == h.msg.order
<1>1. /\ h.msg \in emitted /\ h.msg \in Message /\ o \in Request
      /\ pc[o] = "answered"
  BY DEF TypeOK, Seen, Message
<1>2. /\ Status(h.msg) \in {"paid", "payment.failed"}
      /\ Status(h.msg) = "paid" => \E e \in Paying : [order |-> o, event |-> e] \in emitted
  BY <1>1, StatusOf
<1>3. UNCHANGED <<pc, emitted, work, handled>> /\ hook' = {}
  BY DEF Store
<1>4. CASE /\ row' = [row EXCEPT ![o] = Status(h.msg)]
           /\ shown' = [shown EXCEPT ![o] = Status(h.msg)]
           /\ queue' = queue \cup {h.msg} /\ UNCHANGED faults
  <2>1. \A q \in Request : q # o => row'[q] = row[q] /\ shown'[q] = shown[q]
    BY <1>4 DEF TypeOK
  <2>2. row'[o] = Status(h.msg) /\ shown'[o] = Status(h.msg)
    BY <1>1, <1>4 DEF TypeOK
  <2>3. \A m \in Message : Exists(m) => Exists(m)'
    BY <1>2, <2>1, <2>2 DEF Message
  <2>4. work \subseteq Seen /\ queue \subseteq Message /\ handled \subseteq Message
        /\ \A w \in work : w.msg \in Message
    BY DEF TypeOK, Seen
  <2>5. Exists(h.msg)'
    BY <1>2, <1>3, <2>2
  <2>6. Tracking'
    BY <1>1, <1>3, <1>4, <2>1, <2>3, <2>4, <2>5
  <2>7. PaidIsCaptured' /\ ShowsLastDelivery'
    BY <1>2, <1>3, <2>1, <2>2
  <2>8. HandledHasRow'
    BY <1>3, <1>4, <2>3, <2>4
  <2>9. QED
    BY <2>6, <2>7, <2>8
<1>5. CASE Fault /\ queue' \subseteq queue \cup {h.msg} /\ UNCHANGED <<row, shown>>
  <2>1. faults' = faults + 1 /\ faults \in Nat
    BY <1>5 DEF Fault, TypeOK
  <2>2. QED
    BY <1>3, <1>5, <2>1
<1>6. QED
  BY <1>4, <1>5 DEF Store

\* Inv is preserved when the reasoning inserts a row, or is rolled back.
LEMMA TrackStep == ASSUME TypeOK, Inv, NEW w \in work, Track(w) PROVE Inv'
<1> USE DEF Inv, Tracking, PaidIsCaptured, ShowsLastDelivery, HandledHasRow, Exists,
            creation
<1> DEFINE o == w.msg.order
<1>1. /\ w.msg \in emitted /\ w.msg \in Message /\ o \in Request
      /\ faults \in Nat
  BY DEF TypeOK, Seen, Message
<1>2. /\ Status(w.msg) \in {"paid", "payment.failed"}
      /\ Status(w.msg) = "paid" => \E e \in Paying : [order |-> o, event |-> e] \in emitted
  BY <1>1, StatusOf
<1>3. /\ UNCHANGED <<pc, emitted, hook, queue, shown>> /\ work' = {}
      /\ handled' = handled \cup {w.msg}
  BY DEF Track
<1>4. \/ UNCHANGED <<row, faults>> /\ Exists(w.msg)
      \/ UNCHANGED faults /\ ~Exists(w.msg) /\ row' = [row EXCEPT ![o] = Status(w.msg)]
      \/ UNCHANGED row /\ faults' = faults + 1
  BY DEF Track, Fault
<1>5. \A q \in Request : row[q] # "none" => row'[q] = row[q]
  BY <1>4 DEF TypeOK
<1>6. \A m \in Message : Exists(m) => Exists(m)'
  BY <1>5 DEF Message
<1>7. /\ queue \subseteq Message /\ handled \subseteq Message
      /\ \A s \in hook : s.msg \in Message
  BY DEF TypeOK, Seen
<1>8. faults' \in Nat /\ faults' >= faults
  BY <1>1, <1>4
<1>9. Exists(w.msg)' \/ faults' > 1
  <2>1. Exists(w.msg) \/ faults > 0
    OBVIOUS
  <2>2. CASE ~Exists(w.msg) /\ row' = [row EXCEPT ![o] = Status(w.msg)]
    BY <1>1, <1>2, <2>2 DEF TypeOK
  <2>3. QED
    BY <1>1, <1>4, <1>6, <2>1, <2>2
<1>10. Tracking'
  BY <1>1, <1>3, <1>6, <1>7, <1>8
<1>11. PaidIsCaptured'
  <2>1. \A q \in Request : q # o => row'[q] = row[q]
    BY <1>4 DEF TypeOK
  <2>2. row'[o] = row[o] \/ row'[o] = Status(w.msg)
    BY <1>1, <1>4 DEF TypeOK
  <2>3. QED
    BY <1>1, <1>2, <1>3, <2>1, <2>2
<1>12. ShowsLastDelivery'
  BY <1>3, <1>5 DEF TypeOK
<1>13. HandledHasRow'
  BY <1>1, <1>3, <1>6, <1>7, <1>8, <1>9
<1>14. QED
  BY <1>10, <1>11, <1>12, <1>13

LEMMA InvStep == TypeOK /\ Inv /\ [Next]_vars => Inv'
<1> SUFFICES ASSUME TypeOK, Inv, [Next]_vars PROVE Inv'
  OBVIOUS
<1>1. ASSUME NEW m \in emitted, Deliver(m) PROVE Inv'
  <2>1. /\ UNCHANGED <<pc, row, emitted, queue, work, handled, shown, faults>>
        /\ hook' = {[msg |-> m, saw |-> Exists(m)]}
    BY <1>1 DEF Deliver, creation
  <2>2. \A s \in hook' : s.saw => Exists(s.msg)
    BY <2>1
  <2>3. QED
    BY <2>1, <2>2 DEF Inv, Tracking, PaidIsCaptured, ShowsLastDelivery, HandledHasRow,
                      Exists
<1>2. ASSUME NEW m \in queue, Take(m) PROVE Inv'
  <2>1. /\ UNCHANGED <<pc, row, emitted, hook, handled, shown, faults>>
        /\ work' = {[msg |-> m, saw |-> Exists(m)]} /\ queue' \subseteq queue
    BY <1>2 DEF Take, creation
  <2>2. \A s \in work' : (s.saw => Exists(s.msg)) /\ s.msg \in queue
    BY <2>1
  <2>3. QED
    BY <2>1, <2>2 DEF Inv, Tracking, PaidIsCaptured, ShowsLastDelivery, HandledHasRow,
                      Exists
<1>3. CASE Crash
  <2>1. /\ UNCHANGED <<row, emitted, queue, handled, shown, faults>>
        /\ hook' = {} /\ work' = {}
        /\ \A r \in Request : pc[r] = "answered" => pc'[r] = "answered"
    BY <1>3 DEF Crash
  <2>2. \A m \in emitted : m.order \in Request
    BY DEF TypeOK, Message
  <2>3. QED
    BY <2>1, <2>2 DEF Inv, Tracking, PaidIsCaptured, ShowsLastDelivery, HandledHasRow,
                      Exists
<1>4. CASE UNCHANGED vars
  BY <1>4 DEF vars, creation, tracking, Inv, Tracking, PaidIsCaptured,
              ShowsLastDelivery, HandledHasRow, Exists
<1>5. QED
  BY <1>1, <1>2, <1>3, <1>4, RequestStep, StoreStep, TrackStep DEF Next

LEMMA InvAlways == Spec => []Inv
<1>1. Init => Inv
  BY DEF Init, Inv, Tracking, PaidIsCaptured, ShowsLastDelivery, HandledHasRow
<1>2. QED
  BY <1>1, TypeCorrect, InvStep, PTL DEF Spec

\* A paid order was captured, whatever the order of deliveries and writers
\* (upsert_order_stub, ensure_order_stub).
THEOREM Captured == Spec => []PaidIsCaptured
<1>1. Inv => PaidIsCaptured
  BY DEF Inv
<1>2. QED
  BY <1>1, InvAlways, PTL

\* Nobody writes over the delivery the handler stored last (upsert_order_stub).
THEOREM LastDelivery == Spec => []ShowsLastDelivery
<1>1. Inv => ShowsLastDelivery
  BY DEF Inv
<1>2. QED
  BY <1>1, InvAlways, PTL

\* A delivery handled and reasoned about has its order row, unless both
\* transactions failed (ensure_order_stub).
THEOREM SecondLine == Spec => []HandledHasRow
<1>1. Inv => HandledHasRow
  BY DEF Inv
<1>2. QED
  BY <1>1, InvAlways, PTL
===============================================================================
