-------------------------------- MODULE Inbox ---------------------------------
(***************************************************************************)
(* Asynchronous ingestion of webhooks: api/webhooks.py (the handler),      *)
(* models/inbox.py (the durable row), queue/redis_queue.py (the hot path)  *)
(* and worker/reasoning.py (the worker and its database poller).           *)
(*                                                                         *)
(* A delivery is one POST of Razorpay; its inbox row has the same          *)
(* identity. The handler is one coroutine without an await after the body  *)
(* is read, so handlers run one after another; the worker is one thread.   *)
(* Both commit through commit_with_retry, whose retry after a lock error   *)
(* commits a session that the rollback has emptied: the call returns, and  *)
(* nothing was written.                                                    *)
(*                                                                         *)
(* Not modelled here: what the reasoning decides (Coordination), the order *)
(* row the handler maintains, and requests rejected before any write.      *)
(***************************************************************************)
EXTENDS Integers, Sequences, FiniteSets, SequencesExt

CONSTANTS
  Delivery,
  Poison,      \* deliveries whose amount does not parse: reasoning raises
  NoDelivery,
  MaxCrashes,  \* how often the process is killed
  MaxOutages,  \* how often Redis becomes unreachable
  MaxFaults    \* how often a commit meets a lock it cannot wait out

ASSUME InboxAssumption ==
  /\ Poison \subseteq Delivery
  /\ NoDelivery \notin Delivery
  /\ MaxCrashes \in Nat /\ MaxOutages \in Nat /\ MaxFaults \in Nat

VARIABLES
  redisEnabled,  \* settings.REDIS_URL is set; the worker thread runs
  hook,          \* where the handler of each delivery is
  answer,        \* what Razorpay was told: "queued" is true or false
  row,           \* inbox_entries.status of each delivery
  stream,        \* messages of the Redis stream not yet read by the group
  pending,       \* messages read and not acknowledged
  up,            \* Redis answers
  client,        \* _redis_client is cached
  group,         \* the consumer group exists in Redis
  wpc,           \* where the worker is
  job,           \* the delivery it works on
  batch,         \* rows its last poll returned and that are still to do
  result,        \* what process_inbox_item gave the handler or the worker
  decisions,     \* number of decisions committed for each delivery
  crashes, outages, faults

volatile == <<client, wpc, job, batch, result>>
redis == <<stream, pending, up, group>>
vars == <<redisEnabled, hook, answer, row, redis, volatile, decisions,
          crashes, outages, faults>>

Settled == {"completed", "failed"}
Handling == {"received", "persisted", "reason", "mark"}

-------------------------------------------------------------------------------
Init ==
  /\ redisEnabled \in BOOLEAN
  /\ hook = [d \in Delivery |-> "none"]
  /\ answer = [d \in Delivery |-> "none"]
  /\ row = [d \in Delivery |-> "absent"]
  /\ stream = <<>> /\ pending = {} /\ up \in BOOLEAN /\ group = FALSE
  /\ client = FALSE /\ wpc = "idle" /\ job = NoDelivery /\ batch = {}
  /\ result = "none"
  /\ decisions = [d \in Delivery |-> 0]
  /\ crashes = 0 /\ outages = 0 /\ faults = 0

\* commit_with_retry of a change of one row: it is written, or a fault strikes.
\* A lock that outlasts the busy timeout: the retry commits the session the
\* rollback emptied, and returns. Any other error: the caller gets it.
Written(d, status) == row' = [row EXCEPT ![d] = status] /\ UNCHANGED faults

Faulty == faults < MaxFaults /\ faults' = faults + 1 /\ UNCHANGED row

\* get_redis: the client is cached before it is pinged, and the group is made
\* only by the call that connects. Returns whether there is a client.
GetRedis ==
  /\ client' = TRUE
  /\ group' = (group \/ (~client /\ up))

HasClient == client \/ up

-------------------------------------------------------------------------------
\* The handler. One at a time: nothing is awaited between Receive and answer.
Receive(d) ==
  /\ hook[d] = "none"
  /\ \A e \in Delivery : hook[e] \notin Handling
  /\ hook' = [hook EXCEPT ![d] = "received"]
  /\ UNCHANGED <<redisEnabled, answer, row, redis, volatile, decisions,
                 crashes, outages, faults>>

\* Insert the row; on an exception answer 200 with queued false.
Persist(d) ==
  /\ hook[d] = "received"
  /\ \/ /\ Written(d, "queued") \/ Faulty
        /\ hook' = [hook EXCEPT ![d] = "persisted"]
        /\ UNCHANGED answer
     \/ /\ Faulty
        /\ hook' = [hook EXCEPT ![d] = "done"]
        /\ answer' = [answer EXCEPT ![d] = "refused"]
  /\ UNCHANGED <<redisEnabled, redis, volatile, decisions, crashes, outages>>

\* Seeded bug: the message does not wait for the commit of the row.
PublishEarly(d) ==
  /\ redisEnabled
  /\ hook[d] \in {"received", "persisted"}
  /\ GetRedis
  /\ stream' = IF HasClient /\ up THEN Append(stream, d) ELSE stream
  /\ hook' = [hook EXCEPT ![d] = IF @ = "received" THEN @ ELSE "done"]
  /\ answer' = [answer EXCEPT ![d] = "queued"]
  /\ UNCHANGED <<redisEnabled, row, pending, up, wpc, job, batch, result,
                 decisions, crashes, outages, faults>>

\* publish_inbox_to_redis, after which the handler answers.
Publish(d) ==
  /\ redisEnabled
  /\ hook[d] = "persisted"
  /\ GetRedis
  /\ stream' = IF HasClient /\ up THEN Append(stream, d) ELSE stream
  /\ hook' = [hook EXCEPT ![d] = "done"]
  /\ answer' = [answer EXCEPT ![d] = "queued"]
  /\ UNCHANGED <<redisEnabled, row, pending, up, wpc, job, batch, result,
                 decisions, crashes, outages, faults>>

\* Without Redis the handler reasons itself.
NoPublish(d) ==
  /\ ~redisEnabled
  /\ hook[d] = "persisted"
  /\ hook' = [hook EXCEPT ![d] = "reason"]
  /\ UNCHANGED <<redisEnabled, answer, row, redis, volatile, decisions,
                 crashes, outages, faults>>

\* process_inbox_item: it commits a decision and returns it; it fails before or
\* after that commit and returns None; or, on a payload it cannot read, raises.
Reason(d) ==
  IF d \in Poison
  THEN result' = "raised" /\ UNCHANGED decisions
  ELSE \/ /\ result' \in {"decision", "none"}
          /\ decisions' = [decisions EXCEPT ![d] = @ + 1]
       \/ result' = "none" /\ UNCHANGED decisions

HookReason(d) ==
  /\ hook[d] = "reason"
  /\ Reason(d)
  /\ hook' = [hook EXCEPT ![d] = "mark"]
  /\ UNCHANGED <<redisEnabled, answer, row, redis, client, wpc, job, batch,
                 crashes, outages, faults>>

\* Seeded bug: the sync path marks the row completed like the worker does.
SyncStatusCompleted(res) == "completed"

\* Seeded bug: the outcome itself is written.
SyncStatusRaw(res) == res

SyncStatus(res) == IF res = "decision" THEN "completed" ELSE "failed"

\* Mark the row, if it is there, and answer; an exception of the reasoning skips the
\* marking.
HookMark(d) ==
  /\ hook[d] = "mark"
  /\ IF result = "raised" \/ row[d] = "absent" THEN UNCHANGED <<row, faults>>
     ELSE Written(d, SyncStatus(result)) \/ Faulty
  /\ hook' = [hook EXCEPT ![d] = "done"]
  /\ answer' = [answer EXCEPT ![d] = "queued"]
  /\ result' = "none"
  /\ UNCHANGED <<redisEnabled, redis, client, wpc, job, batch, decisions,
                 crashes, outages>>

-------------------------------------------------------------------------------
(* The worker: one thread, which prefers Redis and polls the table whenever a
   read returns nothing, also when Redis is up. *)

Readable == (client \/ up) /\ up /\ group' /\ stream # <<>>

\* dequeue_block returns a message: XREADGROUP moves it to the pending list.
Dequeue ==
  /\ redisEnabled /\ wpc = "idle"
  /\ GetRedis
  /\ Readable
  /\ job' = Head(stream)
  /\ stream' = Tail(stream)
  /\ pending' = pending \cup {Head(stream)}
  /\ wpc' = "reason"
  /\ UNCHANGED <<redisEnabled, hook, answer, row, up, batch, result, decisions,
                 crashes, outages, faults>>

\* Seeded bug: failed rows are polled again.
Retried == {d \in Delivery : row[d] \in {"queued", "failed"}}

Queued == {d \in Delivery : row[d] = "queued"}

\* Seeded bug: the table is polled only while Redis does not answer.
PollWhenDown(rows) ==
  /\ ~up
  /\ batch' = rows

TakeRows(rows) == batch' = rows

\* dequeue_block returns None: there is nothing to read, or the reply is lost to
\* the socket timeout, which is shorter than the time the read may block. Then
\* process_pending_db_queue reads the queued rows.
Poll ==
  /\ redisEnabled /\ wpc = "idle"
  /\ GetRedis
  /\ \/ /\ ~Readable
        /\ UNCHANGED <<stream, pending>>
     \/ /\ Readable
        /\ stream' = Tail(stream)
        /\ pending' = pending \cup {Head(stream)}
  /\ TakeRows(Queued)
  /\ wpc' = IF batch' = {} THEN "idle" ELSE "poll"
  /\ UNCHANGED <<redisEnabled, hook, answer, row, up, job, result, decisions,
                 crashes, outages, faults>>

\* Seeded bug: the batch is claimed at once.
ClaimBatch(d) ==
  row' = [e \in Delivery |-> IF e \in batch THEN "processing" ELSE row[e]]

ClaimRow(d) == row' = [row EXCEPT ![d] = "processing"]

\* Claim the next row of the batch: one commit each. A claim that raises leaves
\* the row for the next poll.
Claim(d) ==
  /\ wpc = "poll" /\ d \in batch
  /\ batch' = batch \ {d}
  /\ \/ /\ (ClaimRow(d) /\ UNCHANGED faults) \/ Faulty
        /\ job' = d
        /\ wpc' = "pollReason"
     \/ /\ Faulty
        /\ wpc' = IF batch' = {} THEN "idle" ELSE "poll"
        /\ UNCHANGED job
  /\ UNCHANGED <<redisEnabled, hook, answer, redis, client, result, decisions,
                 crashes, outages>>

WorkerReason ==
  /\ wpc \in {"reason", "pollReason"}
  /\ Reason(job)
  /\ wpc' = IF wpc = "reason" THEN "mark" ELSE "pollMark"
  /\ UNCHANGED <<redisEnabled, hook, answer, row, redis, client, job, batch,
                 crashes, outages, faults>>

\* Seeded bug: a row without a decision goes back to the queue.
WorkerRequeues == IF result = "decision" THEN "completed" ELSE "queued"

\* The worker completes a row also when the reasoning returned None.
WorkerStatus == IF result = "raised" THEN "failed" ELSE "completed"

\* After a message: mark its row, if there is one; an error is logged.
MarkMessage ==
  /\ wpc = "mark"
  /\ IF row[job] = "absent" THEN UNCHANGED <<row, faults>>
     ELSE Written(job, WorkerStatus) \/ Faulty
  /\ wpc' = "ack"
  /\ UNCHANGED <<redisEnabled, hook, answer, redis, client, job, batch, result,
                 decisions, crashes, outages>>

\* XACK, the last step of a message; when Redis does not answer it is skipped.
Ack ==
  /\ wpc = "ack"
  /\ pending' = IF up THEN pending \ {job} ELSE pending
  /\ wpc' = "idle" /\ job' = NoDelivery /\ result' = "none"
  /\ UNCHANGED <<redisEnabled, hook, answer, row, stream, up, group, client,
                 batch, decisions, crashes, outages, faults>>

\* After a polled row: an error of the commit that completes the row is caught
\* with those of the reasoning, and the row is marked failed.
MarkPolled ==
  /\ wpc = "pollMark"
  /\ \/ Written(job, WorkerStatus)
     \/ Faulty
     \/ /\ faults < MaxFaults /\ faults' = faults + 1
        /\ row' = [row EXCEPT ![job] = "failed"]
  /\ wpc' = IF batch = {} THEN "idle" ELSE "poll"
  /\ job' = NoDelivery /\ result' = "none"
  /\ UNCHANGED <<redisEnabled, hook, answer, redis, client, batch, decisions,
                 crashes, outages>>

-------------------------------------------------------------------------------
\* The process is killed and started again: requests in progress get no answer,
\* the worker starts from the beginning with no cached client.
Crash ==
  /\ crashes < MaxCrashes /\ crashes' = crashes + 1
  /\ hook' = [d \in Delivery |-> IF hook[d] \in Handling THEN "dead" ELSE hook[d]]
  /\ client' = FALSE /\ wpc' = "idle" /\ job' = NoDelivery /\ batch' = {}
  /\ result' = "none"
  /\ UNCHANGED <<redisEnabled, answer, row, redis, decisions, outages, faults>>

RedisDown ==
  /\ up /\ outages < MaxOutages
  /\ up' = FALSE /\ outages' = outages + 1
  /\ UNCHANGED <<redisEnabled, hook, answer, row, stream, pending, group,
                 volatile, decisions, crashes, faults>>

RedisUp ==
  /\ ~up
  /\ up' = TRUE
  /\ UNCHANGED <<redisEnabled, hook, answer, row, stream, pending, group,
                 volatile, decisions, crashes, outages, faults>>

Handle(d) ==
  Persist(d) \/ Publish(d) \/ NoPublish(d) \/ HookReason(d) \/ HookMark(d)

WorkerNext ==
  \/ Dequeue \/ Poll \/ \E d \in Delivery : Claim(d)
  \/ WorkerReason \/ MarkMessage \/ Ack \/ MarkPolled

Next ==
  \/ \E d \in Delivery : Receive(d) \/ Handle(d)
  \/ WorkerNext
  \/ Crash \/ RedisDown \/ RedisUp

\* The handler and the worker keep running: every call they make returns, since
\* Redis, the LLM and the database wait with a timeout. Nothing makes Razorpay
\* deliver, Redis come back or the process crash.
Spec == Init /\ [][Next]_vars
FairSpec ==
  Spec /\ WF_vars(\E d \in Delivery : Handle(d)) /\ WF_vars(WorkerNext)

-------------------------------------------------------------------------------
\* The shape of the state of the pipeline (models/inbox.py, redis_queue.py).
TypeOK ==
  /\ redisEnabled \in BOOLEAN /\ up \in BOOLEAN
  /\ client \in BOOLEAN /\ group \in BOOLEAN
  /\ hook \in [Delivery -> Handling \cup {"none", "done", "dead"}]
  /\ answer \in [Delivery -> {"none", "queued", "refused"}]
  /\ row \in [Delivery -> Settled \cup {"absent", "queued", "processing"}]
  /\ stream \in Seq(Delivery) /\ pending \subseteq Delivery
  /\ wpc \in {"idle", "reason", "mark", "ack", "poll", "pollReason", "pollMark"}
  /\ job \in Delivery \cup {NoDelivery} /\ batch \subseteq Delivery
  /\ result \in {"none", "decision", "raised"}
  /\ decisions \in [Delivery -> Nat]
  /\ crashes \in 0 .. MaxCrashes /\ outages \in 0 .. MaxOutages
  /\ faults \in 0 .. MaxFaults

\* A message in Redis has its row: the worker never dequeues a message whose
\* inbox row is not committed (redis_queue.py, "Ordering guarantee").
PublishedHasRow ==
  \A d \in ToSet(stream) \cup pending : row[d] # "absent"

\* The guarantee holds as long as no commit meets a lock it cannot wait out.
PublishedHasRowUnlessLocked == faults = 0 => PublishedHasRow

\* One delivery costs at most two decisions, one for its message and one for its
\* row, and one more for each commit that was lost, whatever crashes and
\* outages of Redis come between (the two paths do not look at each other).
AtMostTwice == \A d \in Delivery : decisions[d] <= 2 + faults

\* A restart strands at most the row that was being worked on: rows nobody works
\* on and that still say "processing" are no more than crashes and lost commits
\* (process_pending_db_queue claims one row at a time).
StrandedBounded ==
  Cardinality({d \in Delivery : row[d] = "processing" /\ d # job})
    <= crashes + faults

\* Without Redis, a row says completed only if its decision was committed; the
\* worker does not keep this promise (reasoning.py marks a None completed).
CompletedInlineIsDecided ==
  \A d \in Delivery :
    ~redisEnabled /\ row[d] = "completed" => decisions[d] >= 1

\* A settled row is never taken up again by the poller, and a completed row stays
\* completed although its message may be processed after it.
SettledIsFinal ==
  [][\A d \in Delivery :
       /\ row[d] \in Settled => row'[d] \in Settled
       /\ row[d] = "completed" => row'[d] = "completed"]_vars

\* With Redis configured every stored row is settled, though Redis fail, lose the
\* reply to a read or come back later, unless the process or a commit fails.
StoredIsSettled ==
  \A d \in Delivery :
    (redisEnabled /\ row[d] = "queued")
      ~> (row[d] \in Settled \/ crashes > 0 \/ faults > 0)

\* The poller "processes queued inbox_entries when Redis is not available"
\* (reasoning.py, process_pending_db_queue), so no queued row is left alone.
QueuedIsTaken ==
  \A d \in Delivery : row[d] = "queued" ~> row[d] # "queued"

===============================================================================
