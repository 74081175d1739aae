-------------------------------- MODULE Orders --------------------------------
(***************************************************************************)
(* Orders: api/orders.py and api/checkout.py, which create an order at     *)
(* Razorpay through services/razorpay_client.py, and the two places that   *)
(* keep the orders table in step with its payments, upsert_order_stub of   *)
(* the webhook handler and ensure_order_stub of the worker.                *)
(*                                                                         *)
(* A creation is retried although an attempt that failed may have made an  *)
(* order: each attempt calls the SDK and, if that raises anything but a    *)
(* TimeoutError, the HTTP API. So a request may make several orders, of    *)
(* which only the one in the reply it gets becomes known: orders that can  *)
(* be paid have the identity of their request, the others are counted.     *)
(* Razorpay may deliver an event late, out of order, or again.             *)
(*                                                                         *)
(* Amounts, notes, and the customer a delivery names are left out.         *)
(***************************************************************************)
EXTENDS Integers, FiniteSets

CONSTANTS
  Request,     \* identities of requests for an order, and of their orders
  MaxRetries,  \* RazorpayClient.MAX_RETRIES
  MaxCrashes,  \* how often the process is killed
  MaxFaults    \* how often a transaction fails

ASSUME OrdersAssumption ==
  MaxRetries \in Nat /\ MaxCrashes \in Nat /\ MaxFaults \in Nat

VARIABLES
  kind,     \* the endpoint of each request: "orders" or "checkout"
  pc,       \* where it is
  tries,    \* attempts it has begun
  made,     \* orders Razorpay has made for it
  row,      \* orders.status of the order of each request
  emitted,  \* events of payments, [order, event]
  hook,     \* the handler's delivery, and whether it saw the row: a set of at
            \* most one, handlers run one after another
  queue,    \* deliveries waiting for reasoning, by the worker or inline
  work,     \* what the reasoning has taken and seen, like hook
  handled,  \* deliveries reasoned about
  shown,    \* status of the last delivery whose order row was committed
  crashes, faults

creation == <<kind, pc, tries, made>>
tracking == <<hook, queue, work, handled, shown>>
vars == <<creation, row, emitted, tracking, crashes, faults>>

Event == {"payment.failed", "payment.captured", "order.paid"}
Message == [order : Request, event : Event]
Paying == {"payment.captured", "order.paid"}

-------------------------------------------------------------------------------
Init ==
  /\ kind \in [Request -> {"orders", "checkout"}]
  /\ pc = [r \in Request |-> "idle"]
  /\ tries = [r \in Request |-> 0]
  /\ made = [r \in Request |-> 0]
  /\ row = [r \in Request |-> "none"]
  /\ emitted = {} /\ hook = {} /\ queue = {} /\ work = {} /\ handled = {}
  /\ shown = [r \in Request |-> "none"]
  /\ crashes = 0 /\ faults = 0

Goto(r, where) == pc' = [pc EXCEPT ![r] = where]

Fault == faults < MaxFaults /\ faults' = faults + 1

\* What a TimeoutError becomes: a local order, or an answer 503.
AfterTimeout(r) == IF kind[r] = "orders" THEN "fallback" ELSE "refused"

\* create_order: with the failure drill on, which may be flipped at any time, it
\* times out at once.
Begin(r) ==
  /\ pc[r] = "idle"
  /\ \/ Goto(r, AfterTimeout(r)) /\ UNCHANGED tries
     \/ Goto(r, "sdk") /\ tries' = [tries EXCEPT ![r] = 1]
  /\ UNCHANGED <<kind, made, row, emitted, tracking, crashes, faults>>

\* Seeded bug: one retry too many.
AgainAndAgain(r, timedOut) ==
  \/ /\ tries[r] <= MaxRetries + 1
     /\ Goto(r, "sdk") /\ tries' = [tries EXCEPT ![r] = @ + 1]
  \/ /\ tries[r] > MaxRetries + 1
     /\ Goto(r, IF timedOut THEN AfterTimeout(r) ELSE "refused")
     /\ UNCHANGED tries

\* The attempt failed. After the last one a timeout (or a 429) is a TimeoutError
\* and anything else an answer 502.
Again(r, timedOut) ==
  \/ /\ tries[r] <= MaxRetries
     /\ Goto(r, "sdk") /\ tries' = [tries EXCEPT ![r] = @ + 1]
  \/ /\ tries[r] > MaxRetries
     /\ Goto(r, IF timedOut THEN AfterTimeout(r) ELSE "refused")
     /\ UNCHANGED tries

Make(r) == made' = [made EXCEPT ![r] = @ + 1]

\* A call fails before or after Razorpay made the order.
MaybeMake(r) == Make(r) \/ UNCHANGED made

CallSdk(r) ==
  /\ pc[r] = "sdk"
  /\ \/ Make(r) /\ Goto(r, "replied") /\ UNCHANGED tries
     \/ MaybeMake(r) /\ Goto(r, "httpx") /\ UNCHANGED tries
     \/ MaybeMake(r) /\ Again(r, TRUE)
  /\ UNCHANGED <<kind, row, emitted, tracking, crashes, faults>>

CallHttpx(r) ==
  /\ pc[r] = "httpx"
  /\ \/ Make(r) /\ Goto(r, "replied") /\ UNCHANGED tries
     \/ MaybeMake(r) /\ \E timedOut \in BOOLEAN : Again(r, timedOut)
  /\ UNCHANGED <<kind, row, emitted, tracking, crashes, faults>>

\* POST /orders inserts the order, then answers; if the insert fails it answers
\* 500. POST /checkout/order only answers.
Answer(r) ==
  /\ pc[r] \in {"replied", "fallback"}
  /\ \/ /\ kind[r] = "orders"
        /\ row' = [row EXCEPT ![r] = IF pc[r] = "replied" THEN "created" ELSE "fallback"]
        /\ Goto(r, IF pc[r] = "replied" THEN "answered" ELSE "degraded")
        /\ UNCHANGED faults
     \/ kind[r] = "orders" /\ Fault /\ Goto(r, "refused") /\ UNCHANGED row
     \/ kind[r] = "checkout" /\ Goto(r, "answered") /\ UNCHANGED <<row, faults>>
  /\ UNCHANGED <<kind, tries, made, emitted, tracking, crashes>>

\* The client pays, or tries to, with the order id it was given; an order that is
\* paid takes no further payment.
Pay(r) ==
  /\ pc[r] = "answered"
  /\ \/ /\ \A e \in Paying : [order |-> r, event |-> e] \notin emitted
        /\ \E e \in {"payment.failed", "payment.captured"} :
             emitted' = emitted \cup {[order |-> r, event |-> e]}
     \/ /\ [order |-> r, event |-> "payment.captured"] \in emitted
        /\ emitted' = emitted \cup {[order |-> r, event |-> "order.paid"]}
  /\ UNCHANGED <<creation, row, tracking, crashes, faults>>

-------------------------------------------------------------------------------
\* Seeded bug: a failed payment counts as one.
StatusPayment(m) == IF m.event \in Event THEN "paid" ELSE m.event

\* Seeded bug: the event is stored as it is.
StatusRaw(m) == m.event

\* The status both stubs give an order.
Status(m) == IF m.event \in Paying THEN "paid" ELSE m.event

Exists(m) == row[m.order] # "none"

\* The handler of a delivery, which may be a late or a repeated one, looks for
\* the order.
Deliver(m) ==
  /\ hook = {}
  /\ hook' = {[msg |-> m, saw |-> Exists(m)]}
  /\ UNCHANGED <<creation, row, emitted, queue, work, handled, shown, crashes, faults>>

\* Seeded bug: a lost insert race is not followed by an update.
StoreLosesRace(h) ==
  /\ h \in hook
  /\ \/ /\ shown' = [shown EXCEPT ![h.msg.order] = Status(h.msg)]
        /\ row' = IF h.saw \/ ~Exists(h.msg)
                    THEN [row EXCEPT ![h.msg.order] = Status(h.msg)] ELSE row
        /\ queue' = queue \cup {h.msg} /\ UNCHANGED faults
     \/ Fault /\ queue' = queue \cup {h.msg} /\ UNCHANGED <<row, shown>>
     \/ Fault /\ UNCHANGED <<row, shown, queue>>
  /\ hook' = {}
  /\ UNCHANGED <<creation, emitted, work, handled, crashes>>

\* It updates the order it saw, or inserts it, or updates it because somebody else
\* has inserted it since; the inbox row is in the same transaction. If the order
\* cannot be written, or if a lock keeps the transaction from committing, the
\* delivery is passed on without it; any other failure ends it.
Store(h) ==
  /\ h \in hook
  /\ \/ /\ row' = [row EXCEPT ![h.msg.order] = Status(h.msg)]
        /\ shown' = [shown EXCEPT ![h.msg.order] = Status(h.msg)]
        /\ queue' = queue \cup {h.msg} /\ UNCHANGED faults
     \/ Fault /\ queue' = queue \cup {h.msg} /\ UNCHANGED <<row, shown>>
     \/ Fault /\ UNCHANGED <<row, shown, queue>>
  /\ hook' = {}
  /\ UNCHANGED <<creation, emitted, work, handled, crashes>>

\* process_inbox_item looks for the order as well. The stream and the table may
\* both hand out a delivery: it may stay in the queue.
Take(m) ==
  /\ work = {} /\ m \in queue
  /\ work' = {[msg |-> m, saw |-> Exists(m)]}
  /\ queue' \in {queue, queue \ {m}}
  /\ UNCHANGED <<creation, row, emitted, hook, handled, shown, crashes, faults>>

\* Seeded bug: the worker leaves the order to the handler.
TrackNothing(w) ==
  /\ w \in work
  /\ work' = {} /\ handled' = handled \cup {w.msg}
  /\ UNCHANGED <<creation, row, emitted, hook, queue, shown, crashes, faults>>

\* If it saw none it inserts the order, and a duplicate key is no error. The insert
\* is committed with the decision and rolled back with it. (The write lock is held
\* in between, so that nobody sees or overtakes it.)
Track(w) ==
  /\ w \in work
  /\ \/ /\ row' = IF w.saw \/ Exists(w.msg) THEN row
                  ELSE [row EXCEPT ![w.msg.order] = Status(w.msg)]
        /\ UNCHANGED faults
     \/ Fault /\ UNCHANGED row
  /\ work' = {} /\ handled' = handled \cup {w.msg}
  /\ UNCHANGED <<creation, emitted, hook, queue, shown, crashes>>

\* The process is killed. What was committed, and what Razorpay did, stays.
Crash ==
  /\ crashes < MaxCrashes /\ crashes' = crashes + 1
  /\ pc' = [r \in Request |->
              IF pc[r] \in {"idle", "answered", "degraded"} THEN pc[r] ELSE "refused"]
  /\ hook' = {} /\ work' = {}
  /\ UNCHANGED <<kind, tries, made, row, emitted, queue, handled, shown, faults>>

Next ==
  \/ \E r \in Request : Begin(r) \/ CallSdk(r) \/ CallHttpx(r) \/ Answer(r) \/ Pay(r)
  \/ \E m \in emitted : Deliver(m)
  \/ \E h \in hook : Store(h)
  \/ \E m \in queue : Take(m)
  \/ \E w \in work : Track(w)
  \/ Crash

Spec == Init /\ [][Next]_vars

-------------------------------------------------------------------------------
Seen == [msg : emitted, saw : BOOLEAN]

\* The shape of the state (models/order.py); only deliveries of events that
\* Razorpay has emitted are worked on.
TypeOK ==
  /\ kind \in [Request -> {"orders", "checkout"}]
  /\ pc \in [Request -> {"idle", "sdk", "httpx", "replied", "fallback", "answered",
                         "degraded", "refused"}]
  /\ tries \in [Request -> Nat] /\ made \in [Request -> Nat]
  /\ row \in [Request -> {"none", "created", "fallback", "paid", "payment.failed"}]
  /\ emitted \subseteq Message
  /\ hook \subseteq Seen /\ work \subseteq Seen
  /\ queue \subseteq emitted /\ handled \subseteq emitted
  /\ shown \in [Request -> {"none", "paid", "payment.failed"}]
  /\ crashes \in Nat /\ faults \in 0 .. MaxFaults

\* Retries multiply orders at Razorpay: an attempt that fails may have made one
\* through the SDK and one through the HTTP API. A request makes at most two for
\* each attempt, and at least the one it hands out (RazorpayClient.create_order).
OrdersBounded ==
  \A r \in Request :
    /\ made[r] <= 2 * (MaxRetries + 1)
    /\ pc[r] \in {"replied", "answered"} => made[r] > 0

\* An order is shown as paid only if a payment of it was captured, whoever wrote
\* the row and whatever was delivered late or twice.
PaidIsCaptured ==
  \A r \in Request :
    row[r] = "paid" => \E e \in Paying : [order |-> r, event |-> e] \in emitted

\* The row shows the last delivery that the handler committed: neither the insert
\* of the endpoint nor a late worker writes over it, also when one of them inserts
\* the row between the handler's look and its write.
ShowsLastDelivery ==
  \A r \in Request : shown[r] # "none" => row[r] = shown[r]

\* The worker is the second line: an order whose delivery went through both the
\* handler and the reasoning has a row, unless both of their transactions failed.
HandledHasRow ==
  \A m \in handled : Exists(m) \/ faults > 1

===============================================================================
