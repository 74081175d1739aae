----------------------------- MODULE Inbox_proofs ------------------------------
(***************************************************************************)
(* Theorems about Inbox, for any number of deliveries, crashes, outages of *)
(* Redis and lost commits.                                                 *)
(***************************************************************************)
EXTENDS Inbox, FiniteSetTheorems, TLAPS

USE InboxAssumption

\* Where the worker is, it has a job; what its poll returned is still queued, and
\* nobody else writes it.
WorkerInv ==
  /\ wpc # "idle" => redisEnabled
  /\ job = NoDelivery <=> wpc \in {"idle", "poll"}
  /\ batch # {} => wpc \in {"poll", "pollReason", "pollMark"}
  /\ \A d \in batch : row[d] = "queued" /\ d # job
  /\ wpc \in {"pollReason", "pollMark"} => row[job] \in {"queued", "processing"}
  /\ wpc \in {"mark", "pollMark"} => (result = "raised" <=> job \in Poison)

\* One handler at a time; a row appears when its handler persists it, and only
\* what can be read is completed.
HandlerInv ==
  /\ \A d, e \in Delivery : hook[d] \in Handling /\ hook[e] \in Handling => d = e
  /\ \A d \in Delivery :
       /\ hook[d] \in {"none", "received"} => row[d] = "absent"
       /\ hook[d] \in {"reason", "mark"} => ~redisEnabled
       /\ ~redisEnabled /\ hook[d] \in {"persisted", "reason", "mark"} =>
            row[d] \in {"absent", "queued"}
       /\ hook[d] = "mark" => /\ result = "raised" <=> d \in Poison
                              /\ result = "decision" => decisions[d] >= 1
       /\ row[d] = "completed" => d \notin Poison /\ (~redisEnabled => decisions[d] >= 1)

Booleans ==
  redisEnabled \in BOOLEAN /\ up \in BOOLEAN /\ client \in BOOLEAN /\ group \in BOOLEAN

\* TypeOK without the Booleans, which the provers take apart from the rest.
Shape ==
  /\ hook \in [Delivery -> Handling \cup {"none", "done", "dead"}]
  /\ answer \in [Delivery -> {"none", "queued", "refused"}]
  /\ row \in [Delivery -> Settled \cup {"absent", "queued", "processing"}]
  /\ stream \in Seq(Delivery) /\ pending \subseteq Delivery
  /\ wpc \in {"idle", "reason", "mark", "ack", "poll", "pollReason", "pollMark"}
  /\ job \in Delivery \cup {NoDelivery} /\ batch \subseteq Delivery
  /\ result \in {"none", "decision", "raised"}
  /\ decisions \in [Delivery -> Nat]
  /\ crashes \in 0 .. MaxCrashes /\ outages \in 0 .. MaxOutages
  /\ faults \in 0 .. MaxFaults

LEMMA TypeParts == TypeOK <=> Booleans /\ Shape
BY Zenon DEF TypeOK, Booleans, Shape

LEMMA TypeInit == Init => Booleans /\ Shape /\ WorkerInv /\ HandlerInv
<1>1. Init => Booleans
  BY Zenon DEF Init, Booleans
<1>2. Init => Shape
  BY DEF Init, Shape, Settled, Handling
<1>3. Init => WorkerInv /\ HandlerInv
  BY DEF Init, WorkerInv, HandlerInv, Handling
<1>4. QED
  BY <1>1, <1>2, <1>3

LEMMA BooleansStep == Booleans /\ [Next]_vars => Booleans'
<1> SUFFICES ASSUME Booleans, [Next]_vars PROVE Booleans'
  OBVIOUS
<1>1. redisEnabled' = redisEnabled
  BY DEF Next, Handle, WorkerNext, Receive, Persist, Publish, NoPublish, HookReason, HookMark,
         Dequeue, Poll, Claim, WorkerReason, MarkMessage, Ack, MarkPolled, Crash, RedisDown,
         RedisUp, vars
<1>2. up' = up \/ up' = TRUE \/ up' = FALSE
  BY DEF Next, Handle, WorkerNext, Receive, Persist, Publish, NoPublish, HookReason, HookMark,
         Dequeue, Poll, Claim, WorkerReason, MarkMessage, Ack, MarkPolled, Crash, RedisDown,
         RedisUp, redis, vars
<1>3. client' = client \/ client' = TRUE \/ client' = FALSE
  BY DEF Next, Handle, WorkerNext, Receive, Persist, Publish, NoPublish, HookReason, HookMark,
         Dequeue, Poll, Claim, WorkerReason, MarkMessage, Ack, MarkPolled, Crash, RedisDown,
         RedisUp, GetRedis, volatile, vars
<1>4. group' = group \/ GetRedis
  BY DEF Next, Handle, WorkerNext, Receive, Persist, Publish, NoPublish, HookReason, HookMark,
         Dequeue, Poll, Claim, WorkerReason, MarkMessage, Ack, MarkPolled, Crash, RedisDown,
         RedisUp, redis, vars
<1>5. GetRedis => group' \in BOOLEAN
  BY Zenon DEF GetRedis
<1>6. QED
  BY <1>1, <1>2, <1>3, <1>4, <1>5, Zenon DEF Booleans

LEMMA ShapeStep == Shape /\ WorkerInv /\ [Next]_vars => Shape'
<1> SUFFICES ASSUME Shape, WorkerInv, [Next]_vars PROVE Shape'
  OBVIOUS
<1> USE DEF Shape, Settled, Handling, redis, volatile, Written, Faulty
<1>1. ASSUME NEW d \in Delivery, Receive(d) \/ NoPublish(d) PROVE Shape'
  BY <1>1 DEF Receive, NoPublish
<1>2. ASSUME NEW d \in Delivery, Persist(d) PROVE Shape'
  <2>1. row' \in [Delivery -> Settled \cup {"absent", "queued", "processing"}]
    BY <1>2 DEF Persist
  <2>2. faults' \in 0 .. MaxFaults
    BY <1>2 DEF Persist
  <2>3. hook' \in [Delivery -> Handling \cup {"none", "done", "dead"}]
    BY <1>2 DEF Persist
  <2>4. answer' \in [Delivery -> {"none", "queued", "refused"}]
    BY <1>2 DEF Persist
  <2>5. QED
    BY <1>2, <2>1, <2>2, <2>3, <2>4 DEF Persist
<1>3. ASSUME NEW d \in Delivery, Publish(d) PROVE Shape'
  <2>1. hook' \in [Delivery -> Handling \cup {"none", "done", "dead"}]
    BY <1>3 DEF Publish
  <2>2. answer' \in [Delivery -> {"none", "queued", "refused"}]
    BY <1>3 DEF Publish
  <2>3. stream' \in Seq(Delivery)
    BY <1>3 DEF Publish
  <2>4. QED
    BY <1>3, <2>1, <2>2, <2>3 DEF Publish
<1>4. ASSUME NEW d \in Delivery, HookReason(d) PROVE Shape'
  <2>1. hook' \in [Delivery -> Handling \cup {"none", "done", "dead"}]
    BY <1>4 DEF HookReason, Reason
  <2>2. result' \in {"none", "decision", "raised"}
    BY <1>4 DEF HookReason, Reason
  <2>3. decisions' \in [Delivery -> Nat]
    BY <1>4 DEF HookReason, Reason
  <2>4. QED
    BY <1>4, <2>1, <2>2, <2>3 DEF HookReason
<1>5. ASSUME NEW d \in Delivery, HookMark(d) PROVE Shape'
  <2>1. row' \in [Delivery -> Settled \cup {"absent", "queued", "processing"}]
    BY <1>5 DEF HookMark, SyncStatus
  <2>2. faults' \in 0 .. MaxFaults
    BY <1>5 DEF HookMark, SyncStatus
  <2>3. hook' \in [Delivery -> Handling \cup {"none", "done", "dead"}]
    BY <1>5 DEF HookMark, SyncStatus
  <2>4. answer' \in [Delivery -> {"none", "queued", "refused"}]
    BY <1>5 DEF HookMark, SyncStatus
  <2>5. QED
    BY <1>5, <2>1, <2>2, <2>3, <2>4 DEF HookMark
<1>6. CASE Dequeue
  <2>1. stream' \in Seq(Delivery)
    BY <1>6 DEF Dequeue, Readable
  <2>2. pending' \subseteq Delivery
    BY <1>6 DEF Dequeue, Readable
  <2>3. job' \in Delivery \cup {NoDelivery}
    BY <1>6 DEF Dequeue, Readable
  <2>4. QED
    BY <1>6, <2>1, <2>2, <2>3 DEF Dequeue
<1>7. CASE Poll
  <2>1. stream' \in Seq(Delivery)
    <3>1. stream' = stream \/ (stream # <<>> /\ stream' = Tail(stream))
      BY <1>7 DEF Poll, Readable
    <3>2. stream \in Seq(Delivery)
      OBVIOUS
    <3>3. stream # <<>> => Tail(stream) \in Seq(Delivery)
      BY <3>2
    <3>4. QED
      BY <3>1, <3>2, <3>3
  <2>2. pending' \subseteq Delivery
    BY <1>7 DEF Poll, Readable, TakeRows, Queued
  <2>3. batch' \subseteq Delivery
    BY <1>7 DEF Poll, Readable, TakeRows, Queued
  <2>4. wpc' \in {"idle", "reason", "mark", "ack", "poll", "pollReason", "pollMark"}
    BY <1>7 DEF Poll, Readable, TakeRows, Queued
  <2>5. QED
    BY <1>7, <2>1, <2>2, <2>3, <2>4 DEF Poll
<1>8. ASSUME NEW d \in Delivery, Claim(d) PROVE Shape'
  <2>1. row' \in [Delivery -> Settled \cup {"absent", "queued", "processing"}]
    BY <1>8 DEF Claim, ClaimRow
  <2>2. faults' \in 0 .. MaxFaults
    BY <1>8 DEF Claim, ClaimRow
  <2>3. batch' \subseteq Delivery
    BY <1>8 DEF Claim, ClaimRow
  <2>4. job' \in Delivery \cup {NoDelivery}
    BY <1>8 DEF Claim, ClaimRow
  <2>5. wpc' \in {"idle", "reason", "mark", "ack", "poll", "pollReason", "pollMark"}
    BY <1>8 DEF Claim, ClaimRow
  <2>6. QED
    BY <1>8, <2>1, <2>2, <2>3, <2>4, <2>5 DEF Claim
<1>9. CASE WorkerReason
  <2>1. result' \in {"none", "decision", "raised"}
    BY <1>9 DEF WorkerReason, Reason, WorkerInv
  <2>2. decisions' \in [Delivery -> Nat]
    BY <1>9 DEF WorkerReason, Reason, WorkerInv
  <2>3. wpc' \in {"idle", "reason", "mark", "ack", "poll", "pollReason", "pollMark"}
    BY <1>9 DEF WorkerReason, Reason, WorkerInv
  <2>4. QED
    BY <1>9, <2>1, <2>2, <2>3 DEF WorkerReason
<1>10. CASE MarkMessage
  <2>1. row' \in [Delivery -> Settled \cup {"absent", "queued", "processing"}]
    BY <1>10 DEF MarkMessage, WorkerStatus, WorkerInv
  <2>2. faults' \in 0 .. MaxFaults
    BY <1>10 DEF MarkMessage, WorkerStatus, WorkerInv
  <2>3. QED
    BY <1>10, <2>1, <2>2 DEF MarkMessage
<1>11. CASE Ack
  BY <1>11 DEF Ack
<1>12. CASE MarkPolled
  <2>1. row' \in [Delivery -> Settled \cup {"absent", "queued", "processing"}]
    BY <1>12 DEF MarkPolled, WorkerStatus, WorkerInv
  <2>2. faults' \in 0 .. MaxFaults
    BY <1>12 DEF MarkPolled, WorkerStatus, WorkerInv
  <2>3. wpc' \in {"idle", "reason", "mark", "ack", "poll", "pollReason", "pollMark"}
    BY <1>12 DEF MarkPolled, WorkerStatus, WorkerInv
  <2>4. QED
    BY <1>12, <2>1, <2>2, <2>3 DEF MarkPolled
<1>13. CASE Crash
  BY <1>13 DEF Crash
<1>14. CASE RedisDown \/ RedisUp
  BY <1>14 DEF RedisDown, RedisUp
<1>15. CASE UNCHANGED vars
  BY <1>15 DEF vars
<1>16. QED
  BY <1>1, <1>2, <1>3, <1>4, <1>5, <1>6, <1>7, <1>8, <1>9, <1>10, <1>11, <1>12, <1>13,
     <1>14, <1>15
     DEF Next, Handle, WorkerNext

LEMMA WorkerStep == Shape /\ WorkerInv /\ HandlerInv /\ [Next]_vars => WorkerInv'
<1> SUFFICES ASSUME Shape, WorkerInv, HandlerInv, [Next]_vars PROVE WorkerInv'
  OBVIOUS
<1> USE DEF Shape, WorkerInv, redis, volatile, Written, Faulty, GetRedis
<1>1. ASSUME NEW d \in Delivery, Receive(d) \/ Persist(d) \/ NoPublish(d) PROVE WorkerInv'
  BY <1>1 DEF Receive, Persist, NoPublish, HandlerInv
<1>2. ASSUME NEW d \in Delivery, Publish(d) PROVE WorkerInv'
  BY <1>2 DEF Publish
<1>3. ASSUME NEW d \in Delivery, HookReason(d) \/ HookMark(d) PROVE WorkerInv'
  BY <1>3 DEF HookReason, HookMark, HandlerInv
<1>4. CASE Dequeue
  BY <1>4 DEF Dequeue, Readable
<1>5. CASE Poll
  BY <1>5 DEF Poll, TakeRows, Queued
<1>6. ASSUME NEW d \in Delivery, Claim(d) PROVE WorkerInv'
  BY <1>6 DEF Claim, ClaimRow
<1>7. CASE WorkerReason
  BY <1>7 DEF WorkerReason, Reason
<1>8. CASE MarkMessage \/ Ack
  BY <1>8 DEF MarkMessage, Ack
<1>9. CASE MarkPolled
  BY <1>9 DEF MarkPolled
<1>10. CASE Crash \/ RedisDown \/ RedisUp
  BY <1>10 DEF Crash, RedisDown, RedisUp
<1>11. CASE UNCHANGED vars
  BY <1>11 DEF vars
<1>12. QED
  BY <1>1, <1>2, <1>3, <1>4, <1>5, <1>6, <1>7, <1>8, <1>9, <1>10, <1>11
     DEF Next, Handle, WorkerNext

LEMMA HandlerStep == Shape /\ WorkerInv /\ HandlerInv /\ [Next]_vars => HandlerInv'
<1> SUFFICES ASSUME Shape, WorkerInv, HandlerInv, [Next]_vars PROVE HandlerInv'
  OBVIOUS
<1> USE DEF Shape, HandlerInv, Handling, redis, volatile, Written, Faulty
<1>1. ASSUME NEW d \in Delivery, Receive(d) PROVE HandlerInv'
  BY <1>1 DEF Receive
<1>2. ASSUME NEW d \in Delivery, Persist(d) PROVE HandlerInv'
  <2>1. /\ UNCHANGED <<redisEnabled, decisions, result>>
        /\ hook[d] = "received" /\ hook' \in {[hook EXCEPT ![d] = h] : h \in {"persisted", "done"}}
        /\ row' = row \/ row' = [row EXCEPT ![d] = "queued"]
    BY <1>2 DEF Persist
  <2>2. \A e \in Delivery : e # d => hook[e] \notin Handling /\ hook'[e] = hook[e]
    BY <2>1
  <2>3. hook'[d] \in {"persisted", "done"} /\ row'[d] \in {row[d], "queued"}
        /\ row[d] = "absent" /\ \A e \in Delivery : e # d => row'[e] = row[e]
    BY <2>1
  <2>4. ASSUME NEW e \in Delivery
        PROVE  /\ hook'[e] \in {"none", "received"} => row'[e] = "absent"
               /\ hook'[e] \in {"reason", "mark"} => ~redisEnabled
               /\ ~redisEnabled /\ hook'[e] \in {"persisted", "reason", "mark"} =>
                    row'[e] \in {"absent", "queued"}
               /\ hook'[e] = "mark" => e # d /\ hook[e] = "mark"
               /\ row'[e] = "completed" => e # d /\ row[e] = "completed"
    BY <2>2, <2>3
  <2>5. \A e, f \in Delivery : hook'[e] \in Handling /\ hook'[f] \in Handling => e = f
    BY <2>2
  <2>6. QED
    BY <2>1, <2>4, <2>5
<1>3. ASSUME NEW d \in Delivery, NoPublish(d) \/ Publish(d) PROVE HandlerInv'
  <2>1. /\ UNCHANGED <<redisEnabled, row, decisions, result>> /\ hook[d] = "persisted"
        /\ \/ ~redisEnabled /\ hook' = [hook EXCEPT ![d] = "reason"]
           \/ hook' = [hook EXCEPT ![d] = "done"]
    BY <1>3 DEF NoPublish, Publish
  <2>2. \A e \in Delivery : e # d => hook[e] \notin Handling /\ hook'[e] = hook[e]
    BY <2>1
  <2>3. hook'[d] \in {"reason", "done"} /\ (hook'[d] = "reason" => ~redisEnabled)
    BY <2>1
  <2>4. QED
    BY <2>1, <2>2, <2>3
<1>4. ASSUME NEW d \in Delivery, HookReason(d) PROVE HandlerInv'
  BY <1>4 DEF HookReason, Reason
<1>5. ASSUME NEW d \in Delivery, HookMark(d) PROVE HandlerInv'
  <2>1. /\ UNCHANGED <<redisEnabled, decisions>> /\ hook' = [hook EXCEPT ![d] = "done"]
        /\ hook[d] = "mark"
    BY <1>5 DEF HookMark
  <2>2. \A e \in Delivery : e # d => hook[e] \notin Handling
    BY <2>1
  <2>3. row' = row \/ (result # "raised" /\ row' = [row EXCEPT ![d] = SyncStatus(result)])
    BY <1>5 DEF HookMark
  <2>4. QED
    BY <2>1, <2>2, <2>3 DEF SyncStatus
<1>6. CASE Dequeue \/ Poll
  BY <1>6 DEF Dequeue, Poll
<1>7. ASSUME NEW d \in Delivery, Claim(d) PROVE HandlerInv'
  BY <1>7 DEF Claim, ClaimRow, WorkerInv
<1>8. CASE WorkerReason
  BY <1>8 DEF WorkerReason, Reason, WorkerInv
<1>9. CASE MarkMessage
  BY <1>9 DEF MarkMessage, WorkerStatus, WorkerInv
<1>10. CASE Ack
  BY <1>10 DEF Ack, WorkerInv
<1>11. CASE MarkPolled
  BY <1>11 DEF MarkPolled, WorkerStatus, WorkerInv
<1>12. CASE Crash \/ RedisDown \/ RedisUp
  BY <1>12 DEF Crash, RedisDown, RedisUp
<1>13. CASE UNCHANGED vars
  BY <1>13 DEF vars
<1>14. QED
  BY <1>1, <1>2, <1>3, <1>4, <1>5, <1>6, <1>7, <1>8, <1>9, <1>10, <1>11, <1>12, <1>13
     DEF Next, Handle, WorkerNext

PipelineInv == Booleans /\ Shape /\ WorkerInv /\ HandlerInv

LEMMA PipelineStep == PipelineInv /\ [Next]_vars => PipelineInv'
BY TypeParts, BooleansStep, ShapeStep, WorkerStep, HandlerStep DEF PipelineInv

LEMMA PipelineHolds == Spec => []PipelineInv
<1>1. Init => PipelineInv
  BY TypeInit DEF PipelineInv
<1>2. QED
  BY <1>1, PipelineStep, PTL DEF Spec

\* Every variable keeps its type (models/inbox.py, redis_queue.py).
THEOREM TypeCorrect == Spec => []TypeOK
<1>1. PipelineInv => TypeOK
  BY TypeParts, Zenon DEF PipelineInv
<1>2. QED
  BY <1>1, PipelineHolds, PTL

\* Without Redis, what says completed has its decision (handle_razorpay_webhook).
THEOREM CompletedIsDecided == Spec => []CompletedInlineIsDecided
<1>1. PipelineInv => CompletedInlineIsDecided
  BY DEF PipelineInv, HandlerInv, CompletedInlineIsDecided
<1>2. QED
  BY <1>1, PipelineHolds, PTL

-------------------------------------------------------------------------------
\* Only one row changes in a step, and a settled one only by its message.
LEMMA RowStep ==
  ASSUME PipelineInv, [Next]_vars, NEW d \in Delivery, row'[d] # row[d]
  PROVE  \/ row[d] = "absent" /\ row'[d] = "queued" /\ hook[d] = "received"
         \/ row[d] = "queued" /\ row'[d] \in Settled
         \/ row[d] = "queued" /\ row'[d] = "processing" /\ Claim(d)
         \/ row[d] = "processing" /\ row'[d] \in Settled
         \/ row[d] \in Settled /\ row'[d] = WorkerStatus /\ d = job /\ wpc = "mark"
<1> USE DEF PipelineInv, Shape, Written, Faulty, Settled
<1>1. ASSUME NEW e \in Delivery, Persist(e), row' # row
      PROVE  hook[e] = "received" /\ row' = [row EXCEPT ![e] = "queued"]
  BY <1>1 DEF Persist
<1>2. ASSUME NEW e \in Delivery, HookMark(e), row' # row
      PROVE  /\ row[e] = "queued"
             /\ row' = [row EXCEPT ![e] = "completed"] \/ row' = [row EXCEPT ![e] = "failed"]
  <2>1. hook[e] = "mark" /\ row[e] # "absent" /\ row' = [row EXCEPT ![e] = SyncStatus(result)]
    BY <1>2 DEF HookMark
  <2>2. QED
    BY <2>1 DEF HandlerInv, SyncStatus
<1>3. ASSUME NEW e \in Delivery, Claim(e), row' # row
      PROVE  row[e] = "queued" /\ row' = [row EXCEPT ![e] = "processing"]
  BY <1>3 DEF Claim, ClaimRow, WorkerInv
<1>4. ASSUME MarkMessage, row' # row
      PROVE  /\ wpc = "mark" /\ job \in Delivery /\ row[job] # "absent"
             /\ row' = [row EXCEPT ![job] = WorkerStatus]
  BY <1>4 DEF MarkMessage, WorkerInv
<1>5. ASSUME MarkPolled, row' # row
      PROVE  /\ job \in Delivery /\ row[job] \in {"queued", "processing"}
             /\ \/ row' = [row EXCEPT ![job] = WorkerStatus]
                \/ row' = [row EXCEPT ![job] = "failed"]
  BY <1>5 DEF MarkPolled, WorkerInv
<1>6. CASE \E e \in Delivery : Persist(e)
  BY <1>1, <1>6 DEF HandlerInv
<1>7. CASE \E e \in Delivery : HookMark(e)
  BY <1>2, <1>7
<1>8. CASE \E e \in Delivery : Claim(e)
  BY <1>3, <1>8
<1>9. CASE MarkMessage
  BY <1>4, <1>9 DEF WorkerStatus
<1>10. CASE MarkPolled
  BY <1>5, <1>10 DEF WorkerStatus
<1>11. QED
  BY <1>6, <1>7, <1>8, <1>9, <1>10
     DEF Next, Handle, WorkerNext, Receive, Publish, NoPublish, HookReason, Dequeue, Poll,
         WorkerReason, Ack, Crash, RedisDown, RedisUp, vars

\* What is settled stays settled and what is completed stays completed, although the
\* message and the row are worked on one after the other (worker_loop).
THEOREM Final == Spec => SettledIsFinal
<1> DEFINE Stays == \A d \in Delivery : /\ row[d] \in Settled => row'[d] \in Settled
                                        /\ row[d] = "completed" => row'[d] = "completed"
<1>1. PipelineInv /\ [Next]_vars => Stays
  <2> SUFFICES ASSUME PipelineInv, [Next]_vars, NEW d \in Delivery, row[d] \in Settled
               PROVE  /\ row'[d] \in Settled
                      /\ row[d] = "completed" => row'[d] = "completed"
    BY DEF Settled
  <2>1. row'[d] = row[d] \/ (row'[d] = WorkerStatus /\ d = job /\ wpc = "mark")
    BY RowStep DEF Settled
  <2>2. row[d] = "completed" => d \notin Poison
    BY DEF PipelineInv, HandlerInv
  <2>3. wpc = "mark" => (result = "raised" <=> job \in Poison)
    BY DEF PipelineInv, WorkerInv
  <2>4. QED
    BY <2>1, <2>2, <2>3 DEF WorkerStatus, Settled
<1>2. QED
  BY <1>1, PipelineHolds, PTL DEF Spec, SettledIsFinal

\* Without Redis nobody takes up a row that its handler has left, and a row whose
\* reasoning raises stays queued from the moment it is stored: main.py starts no worker
\* that would poll the table. What the run inbox_inline finds once holds always.
THEOREM NobodyPolls ==
  Spec => [][\A d \in Delivery : ~redisEnabled =>
               /\ hook[d] \in {"done", "dead"} => row'[d] = row[d]
               /\ d \in Poison /\ row[d] = "queued" => row'[d] = "queued"]_vars
<1> DEFINE Left == \A d \in Delivery : ~redisEnabled =>
                     /\ hook[d] \in {"done", "dead"} => row'[d] = row[d]
                     /\ d \in Poison /\ row[d] = "queued" => row'[d] = "queued"
<1>1. PipelineInv /\ [Next]_vars => Left
  <2> SUFFICES ASSUME PipelineInv, [Next]_vars, ~redisEnabled
               PROVE  \A d \in Delivery : /\ hook[d] \in {"done", "dead"} => row'[d] = row[d]
                                          /\ d \in Poison /\ row[d] = "queued" =>
                                               row'[d] = "queued"
    OBVIOUS
  <2> USE DEF PipelineInv, Shape, Written, Faulty
  <2>1. wpc = "idle"
    BY DEF WorkerInv
  <2>2. ASSUME NEW e \in Delivery, Persist(e), row' # row
        PROVE  hook[e] = "received" /\ row' = [row EXCEPT ![e] = "queued"]
    BY <2>2 DEF Persist
  <2>3. ASSUME NEW e \in Delivery, HookMark(e), row' # row
        PROVE  /\ hook[e] = "mark" /\ e \notin Poison
               /\ row' = [row EXCEPT ![e] = SyncStatus(result)]
    BY <2>3 DEF HookMark, HandlerInv
  <2>4. row' = row \/ \E e \in Delivery : (Persist(e) \/ HookMark(e)) /\ row' # row
    BY <2>1 DEF Next, Handle, WorkerNext, Receive, Publish, NoPublish, HookReason, Dequeue,
       Poll, Claim, WorkerReason, MarkMessage, MarkPolled, Ack, Crash, RedisDown, RedisUp, vars
  <2>5. QED
    BY <2>2, <2>3, <2>4
<1>2. QED
  BY <1>1, PipelineHolds, PTL DEF Spec

-------------------------------------------------------------------------------
(* The stream *)

NoRepeat(s) == \A i, j \in DOMAIN s : s[i] = s[j] => i = j

LEMMA AppendSet ==
  ASSUME NEW s \in Seq(Delivery), NEW d \in Delivery
  PROVE  /\ ToSet(Append(s, d)) = ToSet(s) \cup {d}
         /\ NoRepeat(s) /\ d \notin ToSet(s) => NoRepeat(Append(s, d))
<1>1. /\ DOMAIN Append(s, d) = DOMAIN s \cup {Len(s) + 1}
      /\ Append(s, d)[Len(s) + 1] = d
      /\ \A i \in DOMAIN s : Append(s, d)[i] = s[i]
  OBVIOUS
<1>2. QED
  BY <1>1 DEF ToSet, NoRepeat

LEMMA TailSet ==
  ASSUME NEW s \in Seq(Delivery), s # <<>>
  PROVE  /\ ToSet(s) = ToSet(Tail(s)) \cup {Head(s)} /\ Head(s) \in Delivery
         /\ NoRepeat(s) => NoRepeat(Tail(s)) /\ Head(s) \notin ToSet(Tail(s))
<1>1. /\ DOMAIN s = 1..Len(s) /\ Len(s) \in Nat \ {0} /\ Head(s) = s[1]
      /\ DOMAIN Tail(s) = 1..(Len(s) - 1)
      /\ \A i \in 1..(Len(s) - 1) : Tail(s)[i] = s[i + 1]
  OBVIOUS
<1>2. \A i \in DOMAIN s : i = 1 \/ (i - 1 \in DOMAIN Tail(s) /\ Tail(s)[i - 1] = s[i])
  BY <1>1
<1>3. \A i \in DOMAIN Tail(s) : i + 1 \in DOMAIN s /\ i + 1 # 1 /\ Tail(s)[i] = s[i + 1]
  BY <1>1
<1>4. 1 \in DOMAIN s
  BY <1>1
<1>5. ToSet(s) = ToSet(Tail(s)) \cup {Head(s)}
  BY <1>1, <1>2, <1>3, <1>4 DEF ToSet
<1>6. ASSUME NoRepeat(s) PROVE NoRepeat(Tail(s)) /\ Head(s) \notin ToSet(Tail(s))
  BY <1>1, <1>3, <1>4, <1>6 DEF ToSet, NoRepeat
<1>7. QED
  BY <1>1, <1>5, <1>6

\* A message is in the stream once, after its handler has answered, and no longer
\* when the worker has it.
QueueInv ==
  /\ NoRepeat(stream)
  /\ \A d \in ToSet(stream) : hook[d] = "done"
  /\ wpc = "reason" => job \notin ToSet(stream) /\ hook[job] = "done"

LEMMA QueueInit == Init => QueueInv
BY DEF Init, QueueInv, NoRepeat, ToSet

LEMMA QueueStep == PipelineInv /\ QueueInv /\ [Next]_vars => QueueInv'
<1> SUFFICES ASSUME PipelineInv, QueueInv, [Next]_vars PROVE QueueInv'
  OBVIOUS
<1>1. stream \in Seq(Delivery) /\ ToSet(stream) \subseteq Delivery /\ Shape
  BY DEF PipelineInv, Shape, ToSet
<1> USE DEF QueueInv
<1>2. ASSUME NEW d \in Delivery, Publish(d) PROVE QueueInv'
  <2>1. /\ hook[d] = "persisted" /\ hook' = [hook EXCEPT ![d] = "done"]
        /\ stream' \in {stream, Append(stream, d)} /\ UNCHANGED <<wpc, job>>
    BY <1>2 DEF Publish
  <2>2. d \notin ToSet(stream)
    BY <2>1
  <2>3. ToSet(stream') \subseteq ToSet(stream) \cup {d} /\ NoRepeat(stream')
    BY <1>1, <2>1, <2>2, AppendSet
  <2>4. wpc = "reason" => job # d
    BY <2>1
  <2>5. QED
    BY <1>1, <2>1, <2>3, <2>4 DEF Shape
<1>3. ASSUME Dequeue \/ Poll PROVE QueueInv'
  <2>1. /\ UNCHANGED hook
        /\ \/ stream' = stream /\ wpc' # "reason"
           \/ /\ stream # <<>> /\ stream' = Tail(stream)
              /\ wpc' = "reason" => job' = Head(stream)
    BY <1>3 DEF Dequeue, Poll, Readable
  <2>2. stream # <<>> =>
          /\ ToSet(stream) = ToSet(Tail(stream)) \cup {Head(stream)}
          /\ NoRepeat(Tail(stream)) /\ Head(stream) \notin ToSet(Tail(stream))
    BY <1>1, TailSet
  <2>3. QED
    BY <2>1, <2>2
<1>4. ASSUME NEW d \in Delivery,
             Receive(d) \/ Persist(d) \/ NoPublish(d) \/ HookReason(d) \/ HookMark(d)
      PROVE  QueueInv'
  <2>1. hook[d] # "done" /\ (\A e \in Delivery : e # d => hook'[e] = hook[e])
        /\ UNCHANGED <<stream, wpc, job>>
    BY <1>1, <1>4
       DEF Receive, Persist, NoPublish, HookReason, HookMark, Shape, redis, volatile
  <2>2. wpc = "reason" => job \in Delivery
    BY <1>1 DEF Shape, PipelineInv, WorkerInv
  <2>3. QED
    BY <1>1, <2>1, <2>2
<1>5. ASSUME NEW d \in Delivery, Claim(d) PROVE QueueInv'
  BY <1>5 DEF Claim, redis
<1>6. CASE WorkerReason \/ MarkMessage \/ Ack \/ MarkPolled
  BY <1>6 DEF WorkerReason, MarkMessage, Ack, MarkPolled, redis
<1>7. CASE Crash
  BY <1>1, <1>7 DEF Crash, Handling, redis
<1>8. CASE RedisDown \/ RedisUp \/ UNCHANGED vars
  BY <1>8 DEF RedisDown, RedisUp, redis, volatile, vars
<1>9. QED
  BY <1>2, <1>3, <1>4, <1>5, <1>6, <1>7, <1>8 DEF Next, Handle, WorkerNext

-------------------------------------------------------------------------------
\* As long as no commit was lost, a handler that persisted has a row.
PublishedInv ==
  faults = 0 => /\ PublishedHasRow
                /\ \A d \in Delivery : hook[d] = "persisted" => row[d] # "absent"

LEMMA PublishedStep == PipelineInv /\ PublishedInv /\ [Next]_vars => PublishedInv'
<1> SUFFICES ASSUME PipelineInv, PublishedInv, [Next]_vars, faults' = 0
             PROVE  /\ PublishedHasRow'
                    /\ \A d \in Delivery : hook'[d] = "persisted" => row'[d] # "absent"
  BY DEF PublishedInv
<1>1. Shape /\ stream \in Seq(Delivery) /\ ToSet(stream) \cup pending \subseteq Delivery
  BY DEF PipelineInv, Shape, ToSet
<1>2. faults' \in {faults, faults + 1}
  BY DEF Next, Handle, WorkerNext, Receive, Persist, Publish, NoPublish, HookReason, HookMark,
         Dequeue, Poll, Claim, ClaimRow, WorkerReason, MarkMessage, Ack, MarkPolled, Crash,
         RedisDown, RedisUp, Written, Faulty, vars
<1>3. /\ faults = 0 /\ PublishedHasRow
      /\ \A d \in Delivery : hook[d] = "persisted" => row[d] # "absent"
  BY <1>1, <1>2 DEF Shape, PublishedInv
<1>4. \A d \in Delivery : row[d] # "absent" => row'[d] # "absent"
  BY RowStep DEF Settled, WorkerStatus
<1>5. \A d \in ToSet(stream') \cup pending' :
        d \in ToSet(stream) \cup pending \/ (d \in Delivery /\ hook[d] = "persisted")
  <2>1. ASSUME NEW d \in Delivery, Publish(d)
        PROVE  ToSet(stream') \subseteq ToSet(stream) \cup {d} /\ pending' = pending
    BY <1>1, <2>1, AppendSet DEF Publish
  <2>2. ASSUME Dequeue \/ Poll
        PROVE  ToSet(stream') \cup pending' \subseteq ToSet(stream) \cup pending
    <3>1. \/ stream' = stream /\ pending' = pending
          \/ /\ stream # <<>> /\ stream' = Tail(stream)
             /\ pending' = pending \cup {Head(stream)}
      BY <2>2 DEF Dequeue, Poll, Readable
    <3>2. stream # <<>> => ToSet(stream) = ToSet(Tail(stream)) \cup {Head(stream)}
      BY <1>1, TailSet
    <3>3. QED
      BY <3>1, <3>2
  <2>3. CASE \E d \in Delivery : Publish(d)
    BY <2>1, <2>3 DEF Publish
  <2>4. CASE Dequeue \/ Poll
    BY <2>2, <2>4
  <2>5. CASE stream' = stream /\ pending' \subseteq pending
    BY <2>5
  <2>6. QED
    BY <2>3, <2>4, <2>5
       DEF Next, Handle, WorkerNext, Receive, Persist, NoPublish, HookReason, HookMark, Claim,
           WorkerReason, MarkMessage, Ack, MarkPolled, Crash, RedisDown, RedisUp, redis, vars
<1>6. ASSUME NEW d \in Delivery, hook'[d] = "persisted" PROVE row'[d] # "absent"
  <2>1. ASSUME Persist(d) PROVE row'[d] # "absent"
    BY <1>1, <1>2, <1>3, <1>6, <2>1 DEF Persist, Written, Faulty, Shape
  <2>2. ASSUME hook[d] # "persisted" PROVE Persist(d)
    BY <1>1, <1>6, <2>2
       DEF Next, Handle, WorkerNext, Receive, Persist, Publish, NoPublish, HookReason,
           HookMark, Dequeue, Poll, Claim, WorkerReason, MarkMessage, Ack, MarkPolled, Crash,
           RedisDown, RedisUp, vars, Shape
  <2>3. QED
    BY <1>3, <1>4, <2>1, <2>2
<1>7. QED
  BY <1>1, <1>3, <1>4, <1>5, <1>6 DEF PublishedHasRow

\* As long as no commit is lost to a lock, a message has its row (redis_queue.py,
\* "Ordering guarantee").
THEOREM Published == Spec => []PublishedHasRowUnlessLocked
<1>1. Init => PublishedInv
  BY DEF Init, PublishedInv, PublishedHasRow, ToSet
<1>2. PublishedInv => PublishedHasRowUnlessLocked
  BY DEF PublishedInv, PublishedHasRowUnlessLocked
<1>3. QED
  BY <1>1, <1>2, PublishedStep, PipelineHolds, PTL DEF Spec

-------------------------------------------------------------------------------
(* What a delivery may still cost *)

\* one decision for its message, or for its handler when there is no Redis,
ForMessage(d) ==
  IF \/ hook[d] \in {"none", "received", "persisted", "reason"} \/ d \in ToSet(stream)
     \/ wpc = "reason" /\ job = d
  THEN 1 ELSE 0

\* one for its row,
ForRow(d) == IF hook[d] \in {"none", "received"} \/ row[d] = "queued" THEN 1 ELSE 0

\* which the worker may have claimed.
ForClaim(d) == IF wpc = "pollReason" /\ job = d THEN 1 ELSE 0

CostInv ==
  \A d \in Delivery :
    decisions[d] + ForMessage(d) + ForRow(d) + ForClaim(d) <= 2 + faults

LEMMA CostStays ==
  ASSUME Shape, CostInv, decisions' = decisions, faults' \in Nat, faults <= faults',
         \A e \in Delivery : /\ ForMessage(e)' <= ForMessage(e) /\ ForRow(e)' <= ForRow(e)
                             /\ ForClaim(e)' <= ForClaim(e)
  PROVE  CostInv'
<1> SUFFICES ASSUME NEW e \in Delivery
             PROVE  decisions'[e] + ForMessage(e)' + ForRow(e)' + ForClaim(e)' <= 2 + faults'
  BY DEF CostInv
<1>1. /\ ForMessage(e) \in 0..1 /\ ForRow(e) \in 0..1 /\ ForClaim(e) \in 0..1
      /\ ForMessage(e)' \in 0..1 /\ ForRow(e)' \in 0..1 /\ ForClaim(e)' \in 0..1
  BY DEF ForMessage, ForRow, ForClaim
<1>2. decisions[e] \in Nat /\ faults \in Nat
  BY DEF Shape
<1>3. decisions[e] + ForMessage(e) + ForRow(e) + ForClaim(e) <= 2 + faults
  BY DEF CostInv
<1> HIDE DEF ForMessage, ForRow, ForClaim
<1>4. QED
  BY <1>1, <1>2, <1>3

LEMMA CostStep ==
  PipelineInv /\ QueueInv /\ CostInv /\ [Next]_vars => CostInv'
<1> SUFFICES ASSUME PipelineInv, QueueInv, CostInv, [Next]_vars PROVE CostInv'
  OBVIOUS
<1>0. Shape /\ WorkerInv /\ HandlerInv /\ stream \in Seq(Delivery)
  BY DEF PipelineInv, Shape
<1> USE DEF Shape, CostInv, ForMessage, ForRow, ForClaim, redis, volatile, Written, Faulty
<1>1. ASSUME NEW d \in Delivery, Receive(d) \/ NoPublish(d) PROVE CostInv'
  <2>1. /\ UNCHANGED <<decisions, stream, row, wpc, job, faults>>
        /\ \/ hook[d] = "none" /\ hook' = [hook EXCEPT ![d] = "received"]
           \/ hook[d] = "persisted" /\ hook' = [hook EXCEPT ![d] = "reason"]
    BY <1>1 DEF Receive, NoPublish
  <2>2. QED
    BY <1>0, <2>1, CostStays
<1>2. ASSUME NEW d \in Delivery, Persist(d) PROVE CostInv'
  <2>1. /\ UNCHANGED <<decisions, stream, wpc, job>> /\ hook[d] = "received"
        /\ faults' \in Nat /\ faults <= faults'
        /\ \A e \in Delivery : e # d => hook'[e] = hook[e] /\ row'[e] = row[e]
    BY <1>0, <1>2 DEF Persist
  <2>2. ASSUME NEW e \in Delivery
        PROVE  /\ ForMessage(e)' <= ForMessage(e) /\ ForRow(e)' <= ForRow(e)
               /\ ForClaim(e)' <= ForClaim(e)
    <3>1. CASE e = d
      BY <2>1, <3>1
    <3>2. CASE e # d
      BY <2>1, <3>2
    <3>3. QED
      BY <3>1, <3>2
  <2>3. QED
    BY ONLY <1>0, <2>1, <2>2, CostInv, CostStays
<1>3. ASSUME NEW d \in Delivery, Publish(d) PROVE CostInv'
  <2>1. /\ hook[d] = "persisted" /\ hook' = [hook EXCEPT ![d] = "done"]
        /\ stream' \in {stream, Append(stream, d)}
        /\ UNCHANGED <<decisions, row, wpc, job, faults>>
    BY <1>3 DEF Publish
  <2>2. ToSet(stream') \subseteq ToSet(stream) \cup {d}
    BY <1>0, <2>1, AppendSet
  <2>3. QED
    BY <1>0, <2>1, <2>2
<1>4. ASSUME NEW d \in Delivery, HookReason(d) PROVE CostInv'
  <2>1. d \notin ToSet(stream) /\ ~(wpc = "reason" /\ job = d) /\ hook[d] = "reason"
    BY <1>4 DEF HookReason, QueueInv
  <2>2. /\ hook' = [hook EXCEPT ![d] = "mark"]
        /\ UNCHANGED <<stream, row, wpc, job, faults>>
        /\ decisions' = decisions \/ decisions' = [decisions EXCEPT ![d] = @ + 1]
    BY <1>4 DEF HookReason, Reason
  <2>3. QED
    BY <1>0, <2>1, <2>2
<1>5. ASSUME NEW d \in Delivery, HookMark(d) PROVE CostInv'
  BY <1>0, <1>5 DEF HookMark, SyncStatus
<1>6. ASSUME Dequeue \/ Poll PROVE CostInv'
  <2>1. /\ UNCHANGED <<hook, decisions, row, faults>> /\ wpc = "idle"
        /\ \/ stream' = stream /\ wpc' \in {"idle", "poll"}
           \/ /\ stream # <<>> /\ stream' = Tail(stream)
              /\ \/ wpc' = "reason" /\ job' = Head(stream)
                 \/ wpc' \in {"idle", "poll"}
    BY <1>6 DEF Dequeue, Poll, Readable
  <2>2. stream # <<>> => ToSet(stream) = ToSet(Tail(stream)) \cup {Head(stream)}
    BY <1>0, TailSet
  <2>3. ASSUME NEW e \in Delivery
        PROVE  ForClaim(e)' <= ForClaim(e) /\ ForMessage(e)' <= ForMessage(e)
    <3>1. ForClaim(e)' = 0 /\ ForMessage(e) \in 0..1 /\ ForClaim(e) \in 0..1
      BY <2>1
    <3>2. ForMessage(e)' = 1 => ForMessage(e) = 1
      BY <2>1, <2>2
    <3>3. ForMessage(e)' \in 0..1
      OBVIOUS
    <3>4. QED
      BY <3>1, <3>2, <3>3
  <2>4. QED
    BY <1>0, <2>1, <2>3, CostStays
<1>7. ASSUME NEW d \in Delivery, Claim(d) PROVE CostInv'
  <2>1. /\ UNCHANGED <<hook, decisions, stream>> /\ wpc = "poll" /\ row[d] = "queued"
        /\ \/ /\ wpc' = "pollReason" /\ job' = d
              /\ \/ row' = [row EXCEPT ![d] = "processing"] /\ faults' = faults
                 \/ row' = row /\ faults' = faults + 1
           \/ wpc' \in {"idle", "poll"} /\ job' = job /\ row' = row /\ faults' = faults + 1
    BY <1>0, <1>7 DEF Claim, ClaimRow, WorkerInv
  <2>2. hook[d] \notin {"none", "received"}
    BY <1>0, <2>1 DEF HandlerInv
  <2>3. QED
    BY <1>0, <2>1, <2>2
<1>8. CASE WorkerReason
  <2>1. /\ UNCHANGED <<hook, stream, row, job, faults>> /\ job \in Delivery
        /\ \/ wpc = "reason" /\ wpc' = "mark"
           \/ wpc = "pollReason" /\ wpc' = "pollMark"
        /\ decisions' = decisions \/ decisions' = [decisions EXCEPT ![job] = @ + 1]
    BY <1>0, <1>8 DEF WorkerReason, Reason, WorkerInv
  <2>2. wpc = "reason" => job \notin ToSet(stream) /\ hook[job] = "done"
    BY DEF QueueInv
  <2>3. QED
    BY <1>0, <2>1, <2>2
<1>9. CASE MarkMessage
  BY <1>0, <1>9 DEF MarkMessage, WorkerStatus, WorkerInv
<1>10. CASE Ack
  BY <1>0, <1>10 DEF Ack
<1>11. CASE MarkPolled
  BY <1>0, <1>11 DEF MarkPolled, WorkerStatus, WorkerInv
<1>12. CASE Crash
  BY <1>0, <1>12 DEF Crash, Handling
<1>13. CASE RedisDown \/ RedisUp \/ UNCHANGED vars
  BY <1>0, <1>13 DEF RedisDown, RedisUp, vars
<1>14. QED
  BY <1>1, <1>2, <1>3, <1>4, <1>5, <1>6, <1>7, <1>8, <1>9, <1>10, <1>11, <1>12, <1>13
     DEF Next, Handle, WorkerNext

\* One delivery costs at most two decisions, and one more for each lost commit,
\* whatever crashes and outages come between (worker_loop,
\* process_pending_db_queue).
THEOREM Twice == Spec => []AtMostTwice
<1>1. Init => CostInv
  BY DEF Init, CostInv, ForMessage, ForRow, ForClaim
<1>2. PipelineInv /\ CostInv => AtMostTwice
  BY DEF PipelineInv, Shape, CostInv, ForMessage, ForRow, ForClaim, AtMostTwice
<1>3. Init => QueueInv
  BY QueueInit
<1>4. QED
  BY <1>1, <1>2, <1>3, CostStep, QueueStep, PipelineHolds, PTL DEF Spec

-------------------------------------------------------------------------------
(* Rows nobody works on *)

\* Rows in processing, but for the one the worker has claimed and not yet marked.
Left ==
  {d \in Delivery : row[d] = "processing"
                    /\ ~(d = job /\ wpc \in {"pollReason", "pollMark"})}

\* What has failed so far.
Failures == crashes + faults

LeftInv == IsFiniteSet(Left) /\ Cardinality(Left) <= Failures

\* A step leaves at most one row behind, and it pays for it.
LEMMA LeftGrows ==
  ASSUME PipelineInv, [Next]_vars
  PROVE  /\ Failures' \in Nat /\ Failures <= Failures'
         /\ \/ Left' \subseteq Left
            \/ Left' \subseteq Left \cup {job} /\ Failures + 1 <= Failures'
<1>0. Shape /\ WorkerInv /\ HandlerInv
  BY DEF PipelineInv
<1>a. crashes \in Nat /\ faults \in Nat
  BY <1>0 DEF Shape
<1> USE DEF Shape, Left, Failures, redis, volatile, Written, Faulty, Settled
<1>1. ASSUME NEW d \in Delivery, Receive(d) \/ Publish(d) \/ NoPublish(d) \/ HookReason(d)
      PROVE  UNCHANGED <<row, wpc, job, crashes, faults>>
  BY <1>1 DEF Receive, Publish, NoPublish, HookReason
<1>2. CASE UNCHANGED <<row, wpc, job, crashes, faults>>
  BY <1>0, <1>2
<1>3. ASSUME NEW d \in Delivery, Persist(d) \/ HookMark(d)
      PROVE  /\ Failures' \in Nat /\ Failures <= Failures'
             /\ Left' \subseteq Left
  <2>1. /\ UNCHANGED <<wpc, job, crashes>> /\ (faults' = faults \/ faults' = faults + 1)
        /\ \A e \in Delivery : row'[e] = row[e] \/ row'[e] # "processing"
    BY <1>0, <1>3 DEF Persist, HookMark, SyncStatus
  <2>2. Left' \subseteq Left
    BY <1>0, <2>1
  <2>3. QED
    BY ONLY <1>a, <2>1, <2>2
<1>4. CASE Dequeue \/ Poll \/ Ack
  <2>1. /\ UNCHANGED <<row, crashes, faults>>
        /\ wpc \notin {"pollReason", "pollMark"}
    BY <1>4 DEF Dequeue, Poll, Ack
  <2>2. wpc' \notin {"pollReason", "pollMark"}
    BY <1>4 DEF Dequeue, Poll, Ack
  <2>3. Left' = Left
    BY <2>1, <2>2
  <2>4. QED
    BY <1>0, <2>1, <2>3
<1>5. ASSUME NEW d \in Delivery, Claim(d)
      PROVE  /\ Failures' \in Nat /\ Failures <= Failures'
             /\ Left' \subseteq Left
  <2>1. crashes' = crashes /\ (faults' = faults \/ faults' = faults + 1)
    BY <1>5 DEF Claim, ClaimRow
  <2>2. wpc = "poll" /\ (row' = row \/ (row' = [row EXCEPT ![d] = "processing"]
                                        /\ job' = d /\ wpc' = "pollReason"))
    BY <1>0, <1>5 DEF Claim, ClaimRow
  <2>3. Left' \subseteq Left
    BY <1>0, <2>2
  <2>4. QED
    BY ONLY <1>a, <2>1, <2>3
<1>6. CASE WorkerReason
  BY <1>0, <1>6 DEF WorkerReason
<1>7. CASE MarkMessage
  BY <1>0, <1>7 DEF MarkMessage, WorkerStatus
<1>8. CASE MarkPolled
  <2>1. /\ crashes' = crashes /\ wpc = "pollMark"
        /\ \/ faults' = faults /\ row' = [row EXCEPT ![job] = WorkerStatus]
           \/ faults' = faults + 1 /\ row' = row
           \/ faults' = faults + 1 /\ row' = [row EXCEPT ![job] = "failed"]
    BY <1>0, <1>8 DEF MarkPolled
  <2>2. WorkerStatus # "processing" /\ job \in Delivery
    BY <1>0, <2>1 DEF WorkerStatus, WorkerInv
  <2>3. QED
    BY <1>0, <2>1, <2>2
<1>9. CASE Crash
  BY <1>0, <1>9 DEF Crash
<1>10. CASE RedisDown \/ RedisUp \/ UNCHANGED vars
  BY <1>2, <1>10 DEF RedisDown, RedisUp, vars
<1>11. QED
  BY <1>1, <1>2, <1>3, <1>4, <1>5, <1>6, <1>7, <1>8, <1>9, <1>10
     DEF Next, Handle, WorkerNext

LEMMA LeftStep ==
  PipelineInv /\ LeftInv /\ [Next]_vars => LeftInv'
<1> USE DEF LeftInv
<1> SUFFICES ASSUME PipelineInv, LeftInv, [Next]_vars PROVE LeftInv'
  OBVIOUS
<1>1. /\ Failures \in Nat /\ IsFiniteSet(Left)
      /\ Cardinality(Left) \in Nat /\ Cardinality(Left) <= Failures
  BY FS_CardinalityType DEF PipelineInv, Shape, LeftInv, Failures
<1>2. /\ IsFiniteSet(Left \cup {job}) /\ Cardinality(Left \cup {job}) \in Nat
      /\ Cardinality(Left \cup {job}) <= Cardinality(Left) + 1
  BY <1>1, FS_AddElement
<1>3. /\ Failures' \in Nat /\ Failures <= Failures'
      /\ \/ Left' \subseteq Left
         \/ Left' \subseteq Left \cup {job} /\ Failures + 1 <= Failures'
  BY LeftGrows
<1>4. CASE Left' \subseteq Left
  <2>1. IsFiniteSet(Left') /\ Cardinality(Left') <= Cardinality(Left)
        /\ Cardinality(Left') \in Nat
    BY <1>1, <1>4, FS_Subset, FS_CardinalityType
  <2>2. Cardinality(Left') <= Failures'
    BY ONLY <1>1, <1>3, <2>1
  <2>3. QED
    BY <2>1, <2>2
<1>5. CASE Left' \subseteq Left \cup {job} /\ Failures + 1 <= Failures'
  <2>1. IsFiniteSet(Left') /\ Cardinality(Left') <= Cardinality(Left \cup {job})
        /\ Cardinality(Left') \in Nat
    BY <1>2, <1>5, FS_Subset, FS_CardinalityType
  <2>2. Cardinality(Left') <= Failures'
    BY ONLY <1>1, <1>2, <1>3, <1>5, <2>1
  <2>3. QED
    BY <2>1, <2>2
<1>6. QED
  BY <1>3, <1>4, <1>5

\* A restart strands at most the row that was being worked on
\* (process_pending_db_queue).
THEOREM Stranded == Spec => []StrandedBounded
<1>1. Init => LeftInv
  <2> SUFFICES ASSUME Init PROVE LeftInv
    OBVIOUS
  <2>1. Left = {} /\ crashes = 0 /\ faults = 0
    BY DEF Init, Left
  <2>2. QED
    BY <2>1, FS_EmptySet DEF LeftInv, Failures
<1>2. PipelineInv /\ LeftInv => StrandedBounded
  <2> SUFFICES ASSUME PipelineInv, LeftInv PROVE StrandedBounded
    OBVIOUS
  <2>1. {d \in Delivery : row[d] = "processing" /\ d # job} \subseteq Left
    BY DEF Left
  <2>2. /\ Cardinality({d \in Delivery : row[d] = "processing" /\ d # job})
             <= Cardinality(Left)
        /\ Cardinality({d \in Delivery : row[d] = "processing" /\ d # job}) \in Nat
        /\ Cardinality(Left) \in Nat
    BY <2>1, FS_Subset, FS_CardinalityType DEF LeftInv
  <2>3. QED
    BY <2>2 DEF LeftInv, Failures, StrandedBounded, PipelineInv, Shape
<1>3. QED
  BY <1>1, <1>2, LeftStep, PipelineHolds, PTL DEF Spec

===============================================================================
