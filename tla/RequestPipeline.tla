--------------------------- MODULE RequestPipeline ---------------------------
(***************************************************************************)
(* The request path of the bot, from an accepted chat message to the reply *)
(* in the chat: message handlers, the "requests" table, one FIFO queue per *)
(* tenant, one worker task per tenant, the relay to the tenant's service,  *)
(* failures of storage writes, process crashes and the recovery at boot.   *)
(*                                                                         *)
(* Python source: src/rivas/app.py (start_runtime, _queue_with_status,     *)
(* _enqueue_request, _ensure_tenant_worker, _tenant_worker_loop) and       *)
(* src/rivas/storage.py (create_request .. cleanup_expired).  One action   *)
(* is what runs between two awaits of the asyncio event loop.              *)
(***************************************************************************)
EXTENDS Naturals, Sequences

CONSTANTS
    Requests,       \* accepted requests (one request_id per chat message)
    Tenants,
    TenantOf,       \* [Requests -> Tenants]: binding.tenant_id of a request
    Workers,        \* identities for worker tasks
    Serves,         \* [Workers -> Tenants]: the tenant a task is created for
    NoRequest, NoWorker,
    StaleTicks,     \* stale_seconds of fail_stale_active_requests
    RetentionTicks, \* retention_days of cleanup_expired
    MaxClock,       \* bound on the clock
    MaxFaults,      \* bound on storage calls that raise
    MaxCrashes      \* bound on process crashes

ASSUME SortAssumption ==
    /\ TenantOf \in [Requests -> Tenants]
    /\ Serves \in [Workers -> Tenants]
    /\ \A t \in Tenants : \E w \in Workers : Serves[w] = t
    /\ NoRequest \notin Requests
    /\ NoWorker \notin Workers

ASSUME BoundAssumption ==
    /\ StaleTicks \in Nat \ {0}
    /\ RetentionTicks \in Nat \ {0}
    /\ MaxClock \in Nat
    /\ MaxFaults \in Nat
    /\ MaxCrashes \in Nat

VARIABLES
    \* the requests table, and the clock behind its timestamps
    status,     \* [Requests -> Statuses]
    enteredTs,  \* [Requests -> Nat]: queue_entered_ts = created_ts
    errorCode,  \* [Requests -> ErrorCodes]
    clock,
    \* the process: none of it survives a crash
    boot,       \* how far start_runtime has come
    hpc,        \* [Requests -> HandlerPCs]: the handler of the message
    queue,      \* [Tenants -> Seq(Requests)]: _tenant_queues
    current,    \* [Tenants -> Workers \cup {NoWorker}]: _tenant_workers
    wpc,        \* [Workers -> WorkerPCs]: where a worker task is
    job,        \* [Workers -> Requests \cup {NoRequest}]: its QueueJob
    reason,     \* [Workers -> Reasons \cup {"none"}]: its except-branch
    \* the world outside: the chat and the tenant's service
    told,       \* [Requests -> Replies]: what the chat shows for it
    relayed,    \* [Requests -> Nat]: relay calls made for it
    \* budgets and history
    faults, crashes,
    faulty,     \* requests for which some storage write raised
    cutoff,     \* the threshold of the last fail_stale_active_requests
    admitted,   \* [Tenants -> Seq(Requests)]: put into the queue since boot
    taken       \* [Tenants -> Seq(Requests)]: got by a worker since boot

table   == <<status, enteredTs, errorCode>>
memory  == <<hpc, queue, current, wpc, job, reason, admitted, taken>>
outside == <<told, relayed>>
budget  == <<faults, crashes, faulty>>
vars    == <<table, clock, boot, memory, outside, budget, cutoff>>

Active     == {"queued", "processing"}
Statuses   == {"absent", "purged", "completed", "failed"} \cup Active
Reasons    == {"remote", "unavailable", "internal"}
Replies    == {"nothing", "partial", "answer"} \cup Reasons
ErrorCodes == {"none", "stale"} \cup Reasons
BootPCs    == {"down", "recover", "cleanup", "up"}
HandlerPCs == {"idle", "create", "put", "done", "raised"}
Busy       == {"mark", "call", "await", "complete", "deliver", "fail", "tell"}
WorkerPCs  == {"none", "get", "done"} \cup Busy

TypeOK ==
    /\ status \in [Requests -> Statuses]
    /\ enteredTs \in [Requests -> Nat]
    /\ errorCode \in [Requests -> ErrorCodes]
    /\ clock \in Nat
    /\ boot \in BootPCs
    /\ hpc \in [Requests -> HandlerPCs]
    /\ queue \in [Tenants -> Seq(Requests)]
    /\ current \in [Tenants -> Workers \cup {NoWorker}]
    /\ wpc \in [Workers -> WorkerPCs]
    /\ job \in [Workers -> Requests \cup {NoRequest}]
    /\ reason \in [Workers -> Reasons \cup {"none"}]
    /\ told \in [Requests -> Replies]
    /\ relayed \in [Requests -> Nat]
    /\ faults \in Nat
    /\ crashes \in Nat
    /\ faulty \subseteq Requests
    /\ cutoff \in Nat
    /\ admitted \in [Tenants -> Seq(Requests)]
    /\ taken \in [Tenants -> Seq(Requests)]

-----------------------------------------------------------------------------
(* Storage: one statement, committed on its own (_execute).                *)

Exists(r) == status[r] \notin {"absent", "purged"}

\* UPDATE requests SET status = s WHERE request_id = r: no row, no effect.
SetStatus(r, s) ==
    status' = IF Exists(r) THEN [status EXCEPT ![r] = s] ELSE status

SetErrorCode(r, c) ==
    errorCode' = IF Exists(r) THEN [errorCode EXCEPT ![r] = c] ELSE errorCode

\* A storage call on behalf of r raises.  The caller cannot know whether the
\* statement took effect: the two outcomes are the disjuncts of its user.
StorageRaises(r) ==
    /\ faults < MaxFaults
    /\ faults' = faults + 1
    /\ faulty' = faulty \cup {r}
    /\ UNCHANGED crashes

\* queue_entered_ts < now - stale_seconds, without leaving Nat.
OlderThan(r, ticks) == enteredTs[r] + ticks < clock

\* Mutants of Stale: forgets the rows that were only queued; forgets to spare
\* the rows that are settled.
Bug_StaleProcessingOnly(r) ==
    status[r] = "processing" /\ OlderThan(r, StaleTicks)
Bug_StaleSettledToo(r) == Exists(r) /\ OlderThan(r, StaleTicks)

Stale(r) == status[r] \in Active /\ OlderThan(r, StaleTicks)

Expired(r) == Exists(r) /\ OlderThan(r, RetentionTicks)

CleanupExpired ==
    status' = [r \in Requests |-> IF Expired(r) THEN "purged" ELSE status[r]]

-----------------------------------------------------------------------------
(* Start-up, crash, clock, hourly cleanup.                                 *)

Init ==
    /\ status = [r \in Requests |-> "absent"]
    /\ enteredTs = [r \in Requests |-> 0]
    /\ errorCode = [r \in Requests |-> "none"]
    /\ clock = 0
    /\ boot = "down"
    /\ hpc = [r \in Requests |-> "idle"]
    /\ queue = [t \in Tenants |-> << >>]
    /\ current = [t \in Tenants |-> NoWorker]
    /\ wpc = [w \in Workers |-> "none"]
    /\ job = [w \in Workers |-> NoRequest]
    /\ reason = [w \in Workers |-> "none"]
    /\ admitted = [t \in Tenants |-> << >>]
    /\ taken = [t \in Tenants |-> << >>]
    /\ told = [r \in Requests |-> "nothing"]
    /\ relayed = [r \in Requests |-> 0]
    /\ faults = 0
    /\ crashes = 0
    /\ faulty = {}
    /\ cutoff = 0

\* main() builds a fresh RivasApp and on_before_ready calls start_runtime.
Start ==
    /\ boot = "down"
    /\ boot' = "recover"
    /\ UNCHANGED <<table, clock, memory, outside, budget, cutoff>>

\* Mutant of FailStale: also run periodically, beside live workers.
Bug_FailStaleAnytime ==
    /\ boot = "recover" \/ (boot = "up" /\ \E r \in Requests : Stale(r))
    /\ status' = [r \in Requests |-> IF Stale(r) THEN "failed" ELSE status[r]]
    /\ errorCode' = [r \in Requests |->
                        IF Stale(r) THEN "stale" ELSE errorCode[r]]
    /\ boot' = IF boot = "recover" THEN "cleanup" ELSE boot
    /\ UNCHANGED <<enteredTs, clock, memory, outside, budget, cutoff>>

\* fail_stale_active_requests: the count and the update see the same rows,
\* nobody else writes to the table before the runtime is started.
FailStale ==
    /\ boot = "recover"
    /\ status' = [r \in Requests |-> IF Stale(r) THEN "failed" ELSE status[r]]
    /\ errorCode' = [r \in Requests |->
                        IF Stale(r) THEN "stale" ELSE errorCode[r]]
    /\ cutoff' = IF clock > StaleTicks THEN clock - StaleTicks ELSE 0
    /\ boot' = "cleanup"
    /\ UNCHANGED <<enteredTs, clock, memory, outside, budget>>

BootCleanup ==
    /\ boot = "cleanup"
    /\ CleanupExpired
    /\ boot' = "up"
    /\ UNCHANGED <<enteredTs, errorCode, clock, memory, outside, budget, cutoff>>

\* A storage call of start_runtime raises: the runtime is not started and
\* handlers turn every message away; only a restart helps.
BootRaises ==
    /\ boot \in {"recover", "cleanup"}
    /\ faults < MaxFaults
    /\ faults' = faults + 1
    /\ boot' = "down"
    /\ UNCHANGED <<table, clock, memory, outside, crashes, faulty, cutoff>>

\* The process dies and takes queues, workers and running handlers with it.
Crash ==
    /\ boot # "down"
    /\ crashes < MaxCrashes
    /\ crashes' = crashes + 1
    /\ boot' = "down"
    /\ hpc' = [r \in Requests |->
                  IF hpc[r] \in {"create", "put"} THEN "raised" ELSE hpc[r]]
    /\ queue' = [t \in Tenants |-> << >>]
    /\ current' = [t \in Tenants |-> NoWorker]
    /\ wpc' = [w \in Workers |-> "none"]
    /\ job' = [w \in Workers |-> NoRequest]
    /\ reason' = [w \in Workers |-> "none"]
    /\ admitted' = [t \in Tenants |-> << >>]
    /\ taken' = [t \in Tenants |-> << >>]
    /\ UNCHANGED <<table, clock, outside, faults, faulty, cutoff>>

Tick ==
    /\ clock < MaxClock
    /\ clock' = clock + 1
    /\ UNCHANGED <<table, boot, memory, outside, budget, cutoff>>

\* _cleanup_loop: hourly, whatever the status of the rows.
CleanupLoop ==
    /\ boot = "up"
    /\ \E r \in Requests : Expired(r)
    /\ CleanupExpired
    /\ UNCHANGED <<enteredTs, errorCode, clock, boot, memory, outside, budget, cutoff>>

-----------------------------------------------------------------------------
(* The message handler of a request that passed every check of             *)
(* _handle_message: _queue_with_status.                                    *)

handlerFrame == <<clock, boot, queue, current, wpc, job, reason, admitted,
                  taken, outside, cutoff>>

\* The runtime is started and the acknowledgement has been sent.
Accept(r) ==
    /\ boot = "up"
    /\ hpc[r] = "idle"
    /\ hpc' = [hpc EXCEPT ![r] = "create"]
    /\ UNCHANGED <<table, budget, handlerFrame>>

InsertRow(r) ==
    /\ status' = [status EXCEPT ![r] = "queued"]
    /\ enteredTs' = [enteredTs EXCEPT ![r] = clock]
    /\ UNCHANGED errorCode

CreateRequest(r) ==
    /\ hpc[r] = "create"
    /\ InsertRow(r)
    /\ hpc' = [hpc EXCEPT ![r] = "put"]
    /\ UNCHANGED <<budget, handlerFrame>>

\* create_request raises: on_message logs it, the user is told nothing more.
CreateRequestRaises(r) ==
    /\ hpc[r] = "create"
    /\ StorageRaises(r)
    /\ InsertRow(r) \/ UNCHANGED table
    /\ hpc' = [hpc EXCEPT ![r] = "raised"]
    /\ UNCHANGED handlerFrame

CreateWorker(t) ==
    \E w \in Workers :
        /\ Serves[w] = t
        /\ wpc[w] \in {"none", "done"}
        /\ current' = [current EXCEPT ![t] = w]
        /\ wpc' = [wpc EXCEPT ![w] = "get"]

\* Mutants of EnsureTenantWorker: does not look for a live task; creates one
\* only for a request that has to wait.
Bug_AlwaysCreateWorker(t) == CreateWorker(t)
Bug_CreateWorkerIfWaiting(t) ==
    IF queue[t] = << >> \/ (current[t] # NoWorker /\ wpc[current[t]] # "done")
    THEN UNCHANGED <<current, wpc>>
    ELSE CreateWorker(t)

\* _ensure_tenant_worker: keep a task that is not done, else create one.
EnsureTenantWorker(t) ==
    IF current[t] # NoWorker /\ wpc[current[t]] # "done"
    THEN UNCHANGED <<current, wpc>>
    ELSE CreateWorker(t)

\* put on an unbounded asyncio.Queue does not suspend, so it and the creation
\* of the worker are one step.  (The notice that the queue is busy, which the
\* handler sends afterwards, is in StatusMessage.)
Enqueue(r) ==
    /\ hpc[r] = "put"
    /\ LET t == TenantOf[r] IN
        /\ queue' = [queue EXCEPT ![t] = Append(@, r)]
        /\ admitted' = [admitted EXCEPT ![t] = Append(@, r)]
        /\ EnsureTenantWorker(t)
    /\ hpc' = [hpc EXCEPT ![r] = "done"]
    /\ UNCHANGED <<table, clock, boot, job, reason, taken, outside, budget, cutoff>>

HandlerStep(r) == CreateRequest(r) \/ CreateRequestRaises(r) \/ Enqueue(r)

-----------------------------------------------------------------------------
(* _tenant_worker_loop: get, mark_processing, relay, mark_completed,       *)
(* deliver; or mark_failed and an error message.                           *)

workerFrame == <<clock, boot, hpc, queue, current, job, admitted, taken, cutoff>>

Goto(w, pc) == wpc' = [wpc EXCEPT ![w] = pc]

\* Mutant of Except: the error message goes out before mark_failed.
Bug_ExceptTellsFirst(w, why) ==
    /\ Goto(w, "tell")
    /\ reason' = [reason EXCEPT ![w] = why]

\* An exception of the try-block reaches the except-branch for its class.
Except(w, why) ==
    /\ Goto(w, "fail")
    /\ reason' = [reason EXCEPT ![w] = why]

\* The job is over: the loop is back at queue.get(), or the task has ended.
Leave(w, pc) ==
    /\ Goto(w, pc)
    /\ job' = [job EXCEPT ![w] = NoRequest]
    /\ reason' = [reason EXCEPT ![w] = "none"]

\* Mutant of GetJob: the newest job first.
Bug_GetNewestJob(w) ==
    LET q == queue[Serves[w]] IN
    /\ wpc[w] = "get"
    /\ q # << >>
    /\ job' = [job EXCEPT ![w] = q[Len(q)]]
    /\ queue' = [queue EXCEPT ![Serves[w]] = SubSeq(q, 1, Len(q) - 1)]
    /\ taken' = [taken EXCEPT ![Serves[w]] = Append(@, q[Len(q)])]
    /\ Goto(w, "mark")
    /\ UNCHANGED <<table, clock, boot, hpc, current, reason, admitted, outside,
                   budget, cutoff>>

GetJob(w) ==
    LET t == Serves[w] IN
    /\ wpc[w] = "get"
    /\ queue[t] # << >>
    /\ job' = [job EXCEPT ![w] = Head(queue[t])]
    /\ queue' = [queue EXCEPT ![t] = Tail(queue[t])]
    /\ taken' = [taken EXCEPT ![t] = Append(@, Head(queue[t]))]
    /\ Goto(w, "mark")
    /\ UNCHANGED <<table, clock, boot, hpc, current, reason, admitted, outside,
                   budget, cutoff>>

MarkProcessing(w) ==
    /\ wpc[w] = "mark"
    /\ SetStatus(job[w], "processing")
    /\ Goto(w, "call")
    /\ UNCHANGED <<enteredTs, errorCode, reason, outside, budget, workerFrame>>

MarkProcessingRaises(w) ==
    /\ wpc[w] = "mark"
    /\ StorageRaises(job[w])
    /\ SetStatus(job[w], "processing") \/ UNCHANGED status
    /\ Except(w, "internal")
    /\ UNCHANGED <<enteredTs, errorCode, outside, workerFrame>>

\* _get_client succeeds and the request leaves for the tenant's service.
SendRelay(w) ==
    /\ wpc[w] = "call"
    /\ relayed' = [relayed EXCEPT ![job[w]] = @ + 1]
    /\ Goto(w, "await")
    /\ UNCHANGED <<table, reason, told, budget, workerFrame>>

\* client.start() raises inside _get_client.
ClientFails(w) ==
    /\ wpc[w] = "call"
    /\ Except(w, "internal")
    /\ UNCHANGED <<table, outside, budget, workerFrame>>

RelayAnswers(w) ==
    /\ wpc[w] = "await"
    /\ Goto(w, "complete")
    /\ UNCHANGED <<table, reason, outside, budget, workerFrame>>

\* Mutant of RelayFails: retries a service that could not be reached.
Bug_RelayRetries(w) ==
    /\ wpc[w] = "await"
    /\ \/ Goto(w, "call") /\ UNCHANGED reason
       \/ \E why \in Reasons : Except(w, why)
    /\ UNCHANGED <<table, outside, budget, workerFrame>>

\* MiraServiceRemoteError, MiraServiceUnavailableError or anything else.
RelayFails(w) ==
    /\ wpc[w] = "await"
    /\ \E why \in Reasons : Except(w, why)
    /\ UNCHANGED <<table, outside, budget, workerFrame>>

MarkCompleted(w) ==
    /\ wpc[w] = "complete"
    /\ SetStatus(job[w], "completed")
    /\ Goto(w, "deliver")
    /\ UNCHANGED <<enteredTs, errorCode, reason, outside, budget, workerFrame>>

MarkCompletedRaises(w) ==
    /\ wpc[w] = "complete"
    /\ StorageRaises(job[w])
    /\ SetStatus(job[w], "completed") \/ UNCHANGED status
    /\ Except(w, "internal")
    /\ UNCHANGED <<enteredTs, errorCode, outside, workerFrame>>

\* _send_response: chunks and media parts go out one await after the other.
DeliverPart(w) ==
    /\ wpc[w] = "deliver"
    /\ told[job[w]] = "nothing"
    /\ told' = [told EXCEPT ![job[w]] = "partial"]
    /\ UNCHANGED <<table, wpc, reason, relayed, budget, workerFrame>>

DeliverAll(w) ==
    /\ wpc[w] = "deliver"
    /\ told' = [told EXCEPT ![job[w]] = "answer"]
    /\ Leave(w, "get")
    /\ UNCHANGED <<table, clock, boot, hpc, queue, current, relayed, budget,
                   cutoff, admitted, taken>>

\* Mutant of DeliverRaises: no except-branch catches the exception.
Bug_DeliverKillsWorker(w) ==
    /\ wpc[w] = "deliver"
    /\ Leave(w, "done")
    /\ UNCHANGED <<table, clock, boot, hpc, queue, current, outside, budget,
                   cutoff, admitted, taken>>

\* A media part that cannot be turned into an InputFile raises, with earlier
\* parts already in the chat.
DeliverRaises(w) ==
    /\ wpc[w] = "deliver"
    /\ Except(w, "internal")
    /\ UNCHANGED <<table, outside, budget, workerFrame>>

RecordFailure(w) ==
    /\ SetStatus(job[w], "failed")
    /\ SetErrorCode(job[w], reason[w])
    /\ UNCHANGED enteredTs

\* Mutant of MarkFailed: the exception is gone when the message is worded.
Bug_MarkFailedForgetsReason(w) ==
    /\ wpc[w] = "fail"
    /\ RecordFailure(w)
    /\ Goto(w, "tell")
    /\ reason' = [reason EXCEPT ![w] = "none"]
    /\ UNCHANGED <<outside, budget, workerFrame>>

MarkFailed(w) ==
    /\ wpc[w] = "fail"
    /\ RecordFailure(w)
    /\ Goto(w, "tell")
    /\ UNCHANGED <<reason, outside, budget, workerFrame>>

\* mark_failed raises inside an except-branch: nothing catches that, the
\* finally-block runs and the worker task ends.
MarkFailedRaises(w) ==
    /\ wpc[w] = "fail"
    /\ StorageRaises(job[w])
    /\ RecordFailure(w) \/ UNCHANGED table
    /\ Leave(w, "done")
    /\ UNCHANGED <<clock, boot, hpc, queue, current, outside, cutoff, admitted,
                   taken>>

TellError(w) ==
    /\ wpc[w] = "tell"
    /\ told' = [told EXCEPT ![job[w]] = reason[w]]
    /\ Leave(w, "get")
    /\ UNCHANGED <<table, clock, boot, hpc, queue, current, relayed, budget,
                   cutoff, admitted, taken>>

WorkerStep(w) ==
    \/ GetJob(w)
    \/ MarkProcessing(w) \/ MarkProcessingRaises(w)
    \/ SendRelay(w) \/ ClientFails(w)
    \/ RelayAnswers(w) \/ RelayFails(w)
    \/ MarkCompleted(w) \/ MarkCompletedRaises(w)
    \/ DeliverPart(w) \/ DeliverAll(w) \/ DeliverRaises(w)
    \/ MarkFailed(w) \/ MarkFailedRaises(w)
    \/ TellError(w)

-----------------------------------------------------------------------------

Next ==
    \/ Start \/ FailStale \/ BootCleanup \/ BootRaises
    \/ Crash \/ Tick \/ CleanupLoop
    \/ \E r \in Requests : Accept(r) \/ HandlerStep(r)
    \/ \E w \in Workers : WorkerStep(w)

Spec == Init /\ [][Next]_vars

\* The event loop runs every ready task; a storage call returns or raises;
\* a relay ends at the latest with its client-side timeout.  Nothing makes a
\* user send a message, the clock reach a bound or the process crash.
Fairness ==
    /\ \A r \in Requests : WF_vars(HandlerStep(r))
    /\ \A w \in Workers : WF_vars(WorkerStep(w))

FairSpec == Spec /\ Fairness

-----------------------------------------------------------------------------
(* Safety                                                                  *)

Alive(w) == wpc[w] \notin {"none", "done"}

InQueue(r) ==
    LET q == queue[TenantOf[r]] IN \E i \in 1..Len(q) : q[i] = r

InHand(r) == \E w \in Workers : job[w] = r

\* Somebody in the running process will still move the request forward.
Owned(r) == hpc[r] \in {"create", "put"} \/ InQueue(r) \/ InHand(r)

\* _tenant_worker_loop handles one job at a time and _ensure_tenant_worker
\* never starts a second task beside a live one, so the bot never waits for two
\* relays of one tenant, however enqueues, worker deaths and restarts interleave.
\* (A tenant service may still be busy with a relay the bot has given up.)
OneJobPerTenant ==
    \A v, w \in Workers :
        v # w /\ Serves[v] = Serves[w] => ~(Alive(v) /\ Alive(w))

\* What was put into a tenant's queue since boot is what its workers took,
\* in the same order, followed by what still waits: a worker that died and the
\* one created after it neither skip, repeat nor reorder a job.
FifoPerTenant == \A t \in Tenants : admitted[t] = taken[t] \o queue[t]

ReplyMatches(r) ==
    /\ told[r] = "answer" => status[r] \in {"completed", "purged"}
    /\ told[r] \in Reasons =>
        \/ status[r] = "purged"
        \/ status[r] = "failed" /\ errorCode[r] = told[r]

\* Whoever got the whole answer has a completed row, and whoever was shown an
\* error has a failed row with that error's code, until retention removes it.
ReplyMatchesRow == \A r \in Requests : ReplyMatches(r)

\* A row that still says queued or processing, that nobody in the running
\* process owns and whose storage writes all succeeded, is one the last
\* recovery found too young: recovery misses no older one, and a running
\* process loses no request of its own.
OrphanIsFresh ==
    \A r \in Requests :
        boot = "up" /\ status[r] \in Active /\ ~Owned(r) /\ r \notin faulty
            => enteredTs[r] >= cutoff

\* A waiting job has a worker, or a worker that ended; "no task was ever
\* created" cannot happen to it.
WaitingHasWorker ==
    \A t \in Tenants : queue[t] # << >> => current[t] # NoWorker

\* Neither a crash nor a recovery sends a request to the tenant again.
RelayedAtMostOnce == \A r \in Requests : relayed[r] <= 1

(* Action properties                                                       *)

\* The recovery at boot fails a row only when no handler, queue or worker of
\* the running process is about to write to it.
RecoverySparesOwned ==
    [][\A r \in Requests :
            errorCode'[r] = "stale" /\ errorCode[r] # "stale" => ~Owned(r)]_vars

(* Liveness                                                                *)

NoMoreTrouble == faults = MaxFaults /\ crashes = MaxCrashes

Answered(r) == told[r] \in {"answer"} \cup Reasons

\* Once storage works and the process stays up, every job waiting behind a
\* live worker ends with an answer or an error message in the chat, also when
\* that worker was created after an earlier one had ended.
LiveWorkerDrains ==
    \A r \in Requests :
        (NoMoreTrouble /\ InQueue(r) /\ Alive(current[TenantOf[r]]))
            ~> Answered(r)

(* The inductive invariant behind the safety properties                    *)

\* A job is in a worker's hand exactly while the worker is busy with it, it is
\* a job of the worker's tenant, and an except-branch knows its exception.
InHandOK ==
    \A w \in Workers :
        /\ job[w] # NoRequest <=> wpc[w] \in Busy
        /\ wpc[w] \in {"fail", "tell"} => reason[w] \in Reasons
        /\ wpc[w] \in Busy =>
            /\ TenantOf[job[w]] = Serves[w]
            /\ hpc[job[w]] = "done"
            /\ ~InQueue(job[w])

\* _tenant_workers holds the only task of the tenant that may still run.
CurrentOK ==
    /\ \A t \in Tenants : current[t] # NoWorker => Serves[current[t]] = t
    /\ \A w \in Workers : Alive(w) => current[Serves[w]] = w

\* A queue holds jobs of its tenant, each once, put there by their handlers.
QueueOK ==
    \A t \in Tenants : \A i \in 1..Len(queue[t]) :
        /\ TenantOf[queue[t][i]] = t
        /\ hpc[queue[t][i]] = "done"
        /\ \A j \in 1..Len(queue[t]) : queue[t][i] = queue[t][j] => i = j

\* Until the runtime is started no handler and no worker runs.
QuietUntilUp ==
    boot # "up" =>
        /\ \A r \in Requests : hpc[r] \notin {"create", "put"}
        /\ \A t \in Tenants : queue[t] = << >>
        /\ \A w \in Workers : ~Alive(w)

Untouched(r) == told[r] = "nothing" /\ relayed[r] = 0

\* What the row, the chat and the relay look like while a handler or the
\* queue has the request ...
WaitingRowOK ==
    \A r \in Requests :
        /\ hpc[r] \in {"idle", "create"} => status[r] = "absent"
        /\ hpc[r] # "done" => Untouched(r)
        /\ hpc[r] = "put" \/ InQueue(r) =>
                status[r] \in {"queued", "purged"} /\ Untouched(r)
        /\ hpc[r] = "done" => status[r] # "absent"

\* ... and while a worker has it.
RowIn(r, statuses) == status[r] \in statuses \cup {"purged"}

WorkedRow(w) ==
    LET r == job[w]
        pc == wpc[w]
    IN
    /\ pc = "mark" => RowIn(r, {"queued"})
    /\ pc \in {"call", "await", "complete"} => RowIn(r, {"processing"})
    /\ pc = "deliver" => RowIn(r, {"completed"})
    /\ pc = "fail" => RowIn(r, Active \cup {"completed"})
    /\ pc = "tell" => /\ RowIn(r, {"failed"})
                      /\ status[r] = "failed" => errorCode[r] = reason[w]
    /\ pc \in {"mark", "call"} => relayed[r] = 0
    /\ pc \in {"mark", "call", "await", "complete"} => told[r] = "nothing"
    /\ pc \in Busy => told[r] \in {"nothing", "partial"}

WorkedRowOK == \A w \in Workers : WorkedRow(w)

IndInv ==
    /\ TypeOK
    /\ InHandOK /\ CurrentOK /\ QueueOK /\ QuietUntilUp
    /\ WaitingRowOK /\ WorkedRowOK
    /\ WaitingHasWorker /\ RelayedAtMostOnce /\ ReplyMatchesRow

(* Refinement                                                              *)

Lifecycle ==
    INSTANCE RequestLifecycle WITH
        Requests <- Requests, status <- status, told <- told

ImplementsLifecycle == Lifecycle!Spec
=============================================================================
