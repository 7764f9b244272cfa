------------------------ MODULE RequestPipelineProofs ------------------------
(***************************************************************************)
(* Proofs about RequestPipeline for all requests, tenants, workers and     *)
(* bounds.  Everything rests on IndInv, which every step preserves.        *)
(***************************************************************************)
EXTENDS RequestPipeline, TLAPS

USE SortAssumption, BoundAssumption

-----------------------------------------------------------------------------
(* Type correctness.  TypeOK alone is not inductive: that a failed job has *)
(* a request and a reason to write down is InHandOK.                       *)

\* Taking the head of a queue: what is left, and what is where.
LEMMA HeadTail ==
    ASSUME NEW q \in Seq(Requests), q # << >>
    PROVE  /\ Len(q) \in Nat /\ Len(q) > 0
           /\ Head(q) = q[1] /\ Head(q) \in Requests
           /\ Tail(q) \in Seq(Requests) /\ Len(Tail(q)) = Len(q) - 1
           /\ \A i \in 1..Len(Tail(q)) : Tail(q)[i] = q[i + 1]
  OBVIOUS

\* Every step keeps every variable in its type.
LEMMA TypeStep ==
    ASSUME TypeOK, InHandOK, [Next]_vars
    PROVE  TypeOK'
<1> USE DEF TypeOK, table, memory, outside, budget, handlerFrame, workerFrame
<1> USE DEF Active, Statuses, Reasons, Replies, ErrorCodes, BootPCs, HandlerPCs,
            Busy, WorkerPCs
<1>1. CASE Start BY <1>1 DEF Start
<1>2. CASE FailStale BY <1>2 DEF FailStale
<1>3. CASE BootCleanup BY <1>3 DEF BootCleanup, CleanupExpired
<1>4. CASE BootRaises BY <1>4 DEF BootRaises
<1>5. CASE Crash BY <1>5 DEF Crash
<1>6. CASE Tick BY <1>6 DEF Tick
<1>7. CASE CleanupLoop BY <1>7 DEF CleanupLoop, CleanupExpired
<1>8. ASSUME NEW r \in Requests, Accept(r) \/ HandlerStep(r) PROVE TypeOK'
  <2>1. CASE Accept(r) BY <2>1 DEF Accept
  <2>2. CASE CreateRequest(r) BY <2>2 DEF CreateRequest, InsertRow
  <2>3. CASE CreateRequestRaises(r)
    <3>1. CASE InsertRow(r)
      BY <2>3, <3>1 DEF CreateRequestRaises, InsertRow, StorageRaises
    <3>2. CASE UNCHANGED table
      <4>1. faults' \in Nat /\ faulty' \subseteq Requests
        BY <2>3 DEF CreateRequestRaises, StorageRaises
      <4>2. hpc' \in [Requests -> HandlerPCs]
        BY <2>3 DEF CreateRequestRaises
      <4> QED BY <2>3, <3>2, <4>1, <4>2 DEF CreateRequestRaises, StorageRaises
    <3> QED BY <2>3, <3>1, <3>2 DEF CreateRequestRaises
  <2>4. CASE Enqueue(r)
    <3> DEFINE t == TenantOf[r]
    <3>1. Append(queue[t], r) \in Seq(Requests) OBVIOUS
    <3>2. queue' \in [Tenants -> Seq(Requests)] BY <2>4, <3>1 DEF Enqueue
    <3>3. admitted' \in [Tenants -> Seq(Requests)] BY <2>4 DEF Enqueue
    <3>4. /\ current' \in [Tenants -> Workers \cup {NoWorker}]
          /\ wpc' \in [Workers -> WorkerPCs]
      <4>1. EnsureTenantWorker(t) BY <2>4 DEF Enqueue
      <4>2. CASE UNCHANGED <<current, wpc>> BY <4>2
      <4>3. CASE CreateWorker(t) BY <4>3 DEF CreateWorker
      <4> QED BY <4>1, <4>2, <4>3 DEF EnsureTenantWorker
    <3> QED BY <2>4, <3>2, <3>3, <3>4 DEF Enqueue
  <2> QED BY <1>8, <2>1, <2>2, <2>3, <2>4 DEF HandlerStep
<1>9. ASSUME NEW w \in Workers, WorkerStep(w) PROVE TypeOK'
  <2> USE DEF Goto, Except, Leave, SetStatus, SetErrorCode, RecordFailure,
              StorageRaises, InHandOK
  <2>1. CASE GetJob(w)
    <3> DEFINE t == Serves[w]
               q == queue[t]
    <3>1. Head(q) \in Requests /\ Tail(q) \in Seq(Requests)
      BY <2>1, HeadTail DEF GetJob
    <3>2. queue' \in [Tenants -> Seq(Requests)] BY <2>1, <3>1 DEF GetJob
    <3>3. taken' \in [Tenants -> Seq(Requests)] BY <2>1, <3>1 DEF GetJob
    <3>4. job' \in [Workers -> Requests \cup {NoRequest}]
      BY <2>1, <3>1 DEF GetJob
    <3> QED BY <2>1, <3>2, <3>3, <3>4 DEF GetJob
  <2>2. CASE MarkProcessing(w) BY <2>2 DEF MarkProcessing
  <2>3. CASE MarkProcessingRaises(w) BY <2>3 DEF MarkProcessingRaises
  <2>4. CASE SendRelay(w) BY <2>4 DEF SendRelay
  <2>5. CASE ClientFails(w) BY <2>5 DEF ClientFails
  <2>6. CASE RelayAnswers(w) BY <2>6 DEF RelayAnswers
  <2>7. CASE RelayFails(w) BY <2>7 DEF RelayFails
  <2>8. CASE MarkCompleted(w) BY <2>8 DEF MarkCompleted
  <2>9. CASE MarkCompletedRaises(w) BY <2>9 DEF MarkCompletedRaises
  <2>10. CASE DeliverPart(w) BY <2>10 DEF DeliverPart
  <2>11. CASE DeliverAll(w) BY <2>11 DEF DeliverAll
  <2>12. CASE DeliverRaises(w) BY <2>12 DEF DeliverRaises
  <2>13. CASE MarkFailed(w) BY <2>13 DEF MarkFailed
  <2>14. CASE MarkFailedRaises(w)
    <3>1. CASE RecordFailure(w) BY <2>14, <3>1 DEF MarkFailedRaises
    <3>2. CASE UNCHANGED table BY <2>14, <3>2 DEF MarkFailedRaises
    <3> QED BY <2>14, <3>1, <3>2 DEF MarkFailedRaises
  <2>15. CASE TellError(w) BY <2>15 DEF TellError
  <2> QED
    BY <1>9, <2>1, <2>2, <2>3, <2>4, <2>5, <2>6, <2>7, <2>8, <2>9, <2>10,
       <2>11, <2>12, <2>13, <2>14, <2>15 DEF WorkerStep
<1>10. CASE UNCHANGED vars BY <1>10 DEF vars
<1> QED
  BY <1>1, <1>2, <1>3, <1>4, <1>5, <1>6, <1>7, <1>8, <1>9, <1>10 DEF Next

-----------------------------------------------------------------------------
(* The inductive invariant.                                                *)

\* Two busy workers never hold the same request.
LEMMA DistinctJobs ==
    ASSUME TypeOK, InHandOK, CurrentOK,
           NEW v \in Workers, NEW w \in Workers, v # w,
           wpc[v] \in Busy, wpc[w] \in Busy
    PROVE  job[v] # job[w]
<1>1. Serves[v] # Serves[w] BY DEF CurrentOK, Alive, Busy
<1> QED BY <1>1 DEF InHandOK

\* What a step of a busy worker may touch: its own place, and the row, the
\* chat and the relay of the request it holds.
OwnStep(w) ==
    /\ UNCHANGED <<hpc, queue, current, boot>>
    /\ \A v \in Workers \ {w} :
            wpc'[v] = wpc[v] /\ job'[v] = job[v] /\ reason'[v] = reason[v]
    /\ \A r \in Requests \ {job[w]} :
            /\ status'[r] = status[r] /\ errorCode'[r] = errorCode[r]
            /\ told'[r] = told[r] /\ relayed'[r] = relayed[r]

\* A step of its own keeps the invariant if it leaves the worker's request in
\* order, and either keeps it in hand or lets it go.
LEMMA OwnStepKeepsInv ==
    ASSUME IndInv, TypeOK', NEW w \in Workers, wpc[w] \in Busy, OwnStep(w),
           NEW own \in Requests, own = job[w],
           status'[own] # "absent",
           relayed'[own] <= 1,
           ReplyMatches(own)',
           \/ /\ wpc'[w] \in Busy /\ job'[w] = own /\ WorkedRow(w)'
              /\ wpc'[w] \in {"fail", "tell"} => reason'[w] \in Reasons
           \/ wpc'[w] \in {"get", "done"} /\ job'[w] = NoRequest
    PROVE  IndInv'
<1>1. /\ TenantOf[own] = Serves[w] /\ hpc[own] = "done" /\ ~InQueue(own)
  BY DEF IndInv, TypeOK, InHandOK
<1>2. \A v \in Workers \ {w} : wpc[v] \in Busy => job[v] # job[w]
  BY DistinctJobs DEF IndInv
<1>3. \A r \in Requests : InQueue(r)' <=> InQueue(r)
  BY DEF InQueue, OwnStep
<1>4. InHandOK'
  <2> SUFFICES ASSUME NEW v \in Workers
               PROVE  /\ job'[v] # NoRequest <=> wpc'[v] \in Busy
                      /\ wpc'[v] \in {"fail", "tell"} => reason'[v] \in Reasons
                      /\ wpc'[v] \in Busy => /\ TenantOf[job'[v]] = Serves[v]
                                            /\ hpc'[job'[v]] = "done"
                                            /\ ~InQueue(job[v])'
    BY DEF InHandOK
  <2>1. CASE v = w
    <3>1. job'[w] = own => ~InQueue(job[w])' BY <1>1, <1>3 DEF InQueue
    <3> QED BY <1>1, <2>1, <3>1 DEF OwnStep, Busy
  <2>2. CASE v # w
    <3>1. wpc[v] \in Busy => ~InQueue(job[v])'
      BY <2>2 DEF IndInv, InHandOK, InQueue, OwnStep
    <3> QED BY <2>2, <3>1 DEF IndInv, InHandOK, OwnStep
  <2> QED BY <2>1, <2>2
<1>5. CurrentOK' BY DEF IndInv, CurrentOK, OwnStep, Alive, Busy
<1>6. QueueOK' BY DEF IndInv, QueueOK, OwnStep
<1>7. QuietUntilUp' BY DEF IndInv, QuietUntilUp, OwnStep, Alive, Busy
<1>8. WaitingRowOK'
  BY <1>1, <1>3 DEF IndInv, WaitingRowOK, OwnStep, Untouched
<1>9. WorkedRowOK'
  <2> SUFFICES ASSUME NEW v \in Workers PROVE WorkedRow(v)'
    BY DEF WorkedRowOK
  <2>1. CASE v = w BY <2>1 DEF WorkedRow, Busy
  <2>2. CASE v # w /\ wpc[v] \notin Busy
    BY <2>2 DEF WorkedRow, OwnStep, Busy
  <2>3. CASE v # w /\ wpc[v] \in Busy
    <3>1. job[v] \in Requests \ {job[w]}
      BY <1>2, <2>3 DEF IndInv, TypeOK, InHandOK
    <3>2. WorkedRow(v) BY DEF IndInv, WorkedRowOK
    <3> QED BY <2>3, <3>1, <3>2 DEF WorkedRow, RowIn, OwnStep
  <2> QED BY <2>1, <2>2, <2>3
<1>10. WaitingHasWorker' BY DEF IndInv, WaitingHasWorker, OwnStep
<1>11. RelayedAtMostOnce' BY DEF IndInv, RelayedAtMostOnce, OwnStep
<1>12. ReplyMatchesRow'
  <2> SUFFICES ASSUME NEW r \in Requests PROVE ReplyMatches(r)'
    BY DEF ReplyMatchesRow
  <2>1. CASE r # own
    BY <2>1 DEF IndInv, ReplyMatchesRow, ReplyMatches, OwnStep
  <2> QED BY <2>1
<1> QED
  BY <1>4, <1>5, <1>6, <1>7, <1>8, <1>9, <1>10, <1>11, <1>12 DEF IndInv

\* Every step of a busy worker is such a step.
LEMMA BusyWorkerKeepsInv ==
    ASSUME IndInv, TypeOK', NEW w \in Workers, WorkerStep(w), ~GetJob(w)
    PROVE  IndInv'
<1>1. wpc[w] \in Busy
  BY DEF WorkerStep, Busy, MarkProcessing, MarkProcessingRaises, SendRelay,
         ClientFails, RelayAnswers, RelayFails, MarkCompleted,
         MarkCompletedRaises, DeliverPart, DeliverAll, DeliverRaises,
         MarkFailed, MarkFailedRaises, TellError
<1>2. PICK own \in Requests : own = job[w]
  BY <1>1 DEF IndInv, TypeOK, InHandOK
<1>3. /\ status[own] # "absent" /\ relayed[own] \in Nat /\ relayed[own] <= 1
      /\ WorkedRow(w) /\ ReplyMatches(own)
      /\ wpc[w] \in {"fail", "tell"} => reason[w] \in Reasons
  BY <1>1, <1>2 DEF IndInv, TypeOK, InHandOK, WaitingRowOK, RelayedAtMostOnce,
                    WorkedRowOK, ReplyMatchesRow
<1> DEFINE RowFine == /\ status'[own] # "absent"
                      /\ relayed'[own] <= 1
                      /\ ReplyMatches(own)'
           Kept == /\ wpc'[w] \in Busy /\ job'[w] = own /\ WorkedRow(w)'
                   /\ wpc'[w] \in {"fail", "tell"} => reason'[w] \in Reasons
           LetGo == wpc'[w] \in {"get", "done"} /\ job'[w] = NoRequest
           Fine == OwnStep(w) /\ RowFine /\ (Kept \/ LetGo)
<1>4. SUFFICES Fine BY <1>1, <1>2, OwnStepKeepsInv
<1> USE <1>1, <1>2, <1>3 DEF table, outside, budget, workerFrame, Goto, Except,
        Leave, SetStatus, SetErrorCode, Exists, RecordFailure, StorageRaises,
        RowIn, Active, Reasons, Busy, IndInv, TypeOK
<1>5. CASE MarkProcessing(w)
  <2> USE <1>5 DEF MarkProcessing
  <2>1. OwnStep(w) BY DEF OwnStep
  <2>2. Kept \/ LetGo BY DEF WorkedRow
  <2>3. RowFine BY DEF ReplyMatches, WorkedRow
  <2> QED BY <2>1, <2>2, <2>3
<1>6. CASE MarkProcessingRaises(w)
  <2>1. CASE SetStatus(job[w], "processing")
    <3> USE <1>6, <2>1 DEF MarkProcessingRaises
    <3>1. OwnStep(w) BY DEF OwnStep
    <3>2. Kept \/ LetGo BY DEF WorkedRow
    <3>3. RowFine BY DEF ReplyMatches, WorkedRow
    <3> QED BY <3>1, <3>2, <3>3
  <2>2. CASE UNCHANGED status
    <3> USE <1>6, <2>2 DEF MarkProcessingRaises
    <3>1. OwnStep(w) BY DEF OwnStep
    <3>2. Kept \/ LetGo BY DEF WorkedRow
    <3>3. RowFine BY DEF ReplyMatches, WorkedRow
    <3> QED BY <3>1, <3>2, <3>3
  <2> QED BY <1>6, <2>1, <2>2 DEF MarkProcessingRaises
<1>7. CASE SendRelay(w)
  <2> USE <1>7 DEF SendRelay
  <2>1. OwnStep(w) BY DEF OwnStep
  <2>2. Kept \/ LetGo BY DEF WorkedRow
  <2>3. RowFine BY DEF ReplyMatches, WorkedRow
  <2> QED BY <2>1, <2>2, <2>3
<1>8. CASE ClientFails(w)
  <2> USE <1>8 DEF ClientFails
  <2>1. OwnStep(w) BY DEF OwnStep
  <2>2. Kept \/ LetGo BY DEF WorkedRow
  <2>3. RowFine BY DEF ReplyMatches, WorkedRow
  <2> QED BY <2>1, <2>2, <2>3
<1>9. CASE RelayAnswers(w)
  <2> USE <1>9 DEF RelayAnswers
  <2>1. OwnStep(w) BY DEF OwnStep
  <2>2. Kept \/ LetGo BY DEF WorkedRow
  <2>3. RowFine BY DEF ReplyMatches, WorkedRow
  <2> QED BY <2>1, <2>2, <2>3
<1>10. CASE RelayFails(w)
  <2> USE <1>10 DEF RelayFails
  <2>1. OwnStep(w) BY DEF OwnStep
  <2>2. Kept \/ LetGo BY DEF WorkedRow
  <2>3. RowFine BY DEF ReplyMatches, WorkedRow
  <2> QED BY <2>1, <2>2, <2>3
<1>11. CASE MarkCompleted(w)
  <2> USE <1>11 DEF MarkCompleted
  <2>1. OwnStep(w) BY DEF OwnStep
  <2>2. Kept \/ LetGo BY DEF WorkedRow
  <2>3. RowFine BY DEF ReplyMatches, WorkedRow
  <2> QED BY <2>1, <2>2, <2>3
<1>12. CASE MarkCompletedRaises(w)
  <2>1. CASE SetStatus(job[w], "completed")
    <3> USE <1>12, <2>1 DEF MarkCompletedRaises
    <3>1. OwnStep(w) BY DEF OwnStep
    <3>2. Kept \/ LetGo BY DEF WorkedRow
    <3>3. RowFine BY DEF ReplyMatches, WorkedRow
    <3> QED BY <3>1, <3>2, <3>3
  <2>2. CASE UNCHANGED status
    <3> USE <1>12, <2>2 DEF MarkCompletedRaises
    <3>1. OwnStep(w) BY DEF OwnStep
    <3>2. Kept \/ LetGo BY DEF WorkedRow
    <3>3. RowFine BY DEF ReplyMatches, WorkedRow
    <3> QED BY <3>1, <3>2, <3>3
  <2> QED BY <1>12, <2>1, <2>2 DEF MarkCompletedRaises
<1>13. CASE DeliverPart(w)
  <2> USE <1>13 DEF DeliverPart
  <2>1. OwnStep(w) BY DEF OwnStep
  <2>2. Kept \/ LetGo BY DEF WorkedRow
  <2>3. RowFine BY DEF ReplyMatches, WorkedRow
  <2> QED BY <2>1, <2>2, <2>3
<1>14. CASE DeliverAll(w)
  <2> USE <1>14 DEF DeliverAll
  <2>1. OwnStep(w) BY DEF OwnStep
  <2>2. Kept \/ LetGo BY DEF WorkedRow
  <2>3. RowFine BY DEF ReplyMatches, WorkedRow
  <2> QED BY <2>1, <2>2, <2>3
<1>15. CASE DeliverRaises(w)
  <2> USE <1>15 DEF DeliverRaises
  <2>1. OwnStep(w) BY DEF OwnStep
  <2>2. Kept \/ LetGo BY DEF WorkedRow
  <2>3. RowFine BY DEF ReplyMatches, WorkedRow
  <2> QED BY <2>1, <2>2, <2>3
<1>16. CASE MarkFailed(w)
  <2> USE <1>16 DEF MarkFailed
  <2>1. OwnStep(w) BY DEF OwnStep
  <2>2. Kept \/ LetGo BY DEF WorkedRow
  <2>3. RowFine BY DEF ReplyMatches, WorkedRow
  <2> QED BY <2>1, <2>2, <2>3
<1>17. CASE MarkFailedRaises(w)
  <2>1. CASE RecordFailure(w)
    <3> USE <1>17, <2>1 DEF MarkFailedRaises
    <3>1. OwnStep(w) BY DEF OwnStep
    <3>2. Kept \/ LetGo BY DEF WorkedRow
    <3>3. RowFine BY DEF ReplyMatches, WorkedRow
    <3> QED BY <3>1, <3>2, <3>3
  <2>2. CASE UNCHANGED table
    <3> USE <1>17, <2>2 DEF MarkFailedRaises
    <3>1. OwnStep(w) BY DEF OwnStep
    <3>2. Kept \/ LetGo BY DEF WorkedRow
    <3>3. RowFine BY DEF ReplyMatches, WorkedRow
    <3> QED BY <3>1, <3>2, <3>3
  <2> QED BY <1>17, <2>1, <2>2 DEF MarkFailedRaises
<1>18. CASE TellError(w)
  <2> USE <1>18 DEF TellError
  <2>1. OwnStep(w) BY DEF OwnStep
  <2>2. Kept \/ LetGo BY DEF WorkedRow
  <2>3. RowFine
    <3>1. told'[own] = reason[w] /\ reason[w] \in Reasons OBVIOUS
    <3>2. UNCHANGED <<status, errorCode, relayed>> OBVIOUS
    <3>3. \/ status[own] = "purged"
          \/ status[own] = "failed" /\ errorCode[own] = reason[w]
      BY DEF WorkedRow
    <3>4. ReplyMatches(own)' BY <3>1, <3>2, <3>3 DEF ReplyMatches
    <3> QED BY <3>2, <3>4
  <2> QED BY <2>1, <2>2, <2>3
<1> QED
  BY <1>5, <1>6, <1>7, <1>8, <1>9, <1>10, <1>11, <1>12, <1>13,
     <1>14, <1>15, <1>16, <1>17, <1>18
  DEF WorkerStep

\* Taking the oldest job of the queue.
LEMMA GetJobKeepsInv ==
    ASSUME IndInv, TypeOK', NEW w \in Workers, GetJob(w)
    PROVE  IndInv'
<1> DEFINE t == Serves[w]
           q == queue[t]
<1>1. PICK own \in Requests : own = Head(q)
  BY HeadTail DEF GetJob, IndInv, TypeOK
<1>2. /\ wpc[w] = "get" /\ Alive(w) /\ Len(q) \in Nat /\ Len(q) > 0
      /\ own = q[1] /\ Tail(q) \in Seq(Requests) /\ Len(Tail(q)) = Len(q) - 1
      /\ \A i \in 1..Len(Tail(q)) : Tail(q)[i] = q[i + 1]
  BY <1>1, HeadTail DEF GetJob, IndInv, TypeOK, Alive
<1>3. /\ queue' = [queue EXCEPT ![t] = Tail(q)]
      /\ job' = [job EXCEPT ![w] = own]
      /\ wpc' = [wpc EXCEPT ![w] = "mark"]
      /\ UNCHANGED <<status, errorCode, boot, hpc, current, reason, told, relayed>>
  BY <1>1 DEF GetJob, Goto, table, outside
<1>4. /\ TenantOf[own] = t /\ hpc[own] = "done" /\ InQueue(own)
      /\ \A i \in 2..Len(q) : q[i] # own
  BY <1>2 DEF IndInv, QueueOK, InQueue
<1>5. \A v \in Workers \ {w} : wpc[v] \in Busy => job[v] # own
  BY <1>4 DEF IndInv, InHandOK
<1>6. \A r \in Requests : InQueue(r)' <=> InQueue(r) /\ r # own
  <2> TAKE r \in Requests
  <2>1. CASE TenantOf[r] # t
    BY <1>3, <1>4, <2>1 DEF InQueue, IndInv, TypeOK
  <2>2. CASE TenantOf[r] = t
    <3>1. queue'[t] = Tail(q) BY <1>3 DEF IndInv, TypeOK
    <3>2. InQueue(r)' <=> \E i \in 1..Len(Tail(q)) : q[i + 1] = r
      <4>1. InQueue(r)' <=> \E i \in 1..Len(Tail(q)) : Tail(q)[i] = r
        BY <2>2, <3>1 DEF InQueue
      <4> QED BY <1>2, <4>1
    <3>3. InQueue(r) <=> \E i \in 1..Len(q) : q[i] = r
      BY <2>2 DEF InQueue
    <3>4. ASSUME NEW i \in 1..Len(q), q[i] = r, r # own
          PROVE  \E k \in 1..Len(Tail(q)) : q[k + 1] = r
      <4>1. i - 1 \in 1..Len(Tail(q)) /\ (i - 1) + 1 = i BY <1>2, <3>4
      <4> QED BY <3>4, <4>1
    <3>5. ASSUME NEW k \in 1..Len(Tail(q)), q[k + 1] = r
          PROVE  r # own /\ \E i \in 1..Len(q) : q[i] = r
      <4>1. k + 1 \in 2..Len(q) BY <1>2
      <4> QED BY <1>4, <3>5, <4>1
    <3> QED BY <3>2, <3>3, <3>4, <3>5
  <2> QED BY <2>1, <2>2
<1> USE <1>3
<1>7. InHandOK'
  <2> SUFFICES ASSUME NEW v \in Workers
               PROVE  /\ job'[v] # NoRequest <=> wpc'[v] \in Busy
                      /\ wpc'[v] \in {"fail", "tell"} => reason'[v] \in Reasons
                      /\ wpc'[v] \in Busy => /\ TenantOf[job'[v]] = Serves[v]
                                            /\ hpc'[job'[v]] = "done"
                                            /\ ~InQueue(job[v])'
    BY DEF InHandOK
  <2>1. CASE v = w
    <3>1. job'[w] = own /\ wpc'[w] = "mark" BY DEF IndInv, TypeOK
    <3>2. ~InQueue(job[w])'
      <4>1. ~InQueue(own)' BY <1>6
      <4> QED BY <3>1, <4>1 DEF InQueue
    <3> QED BY <1>4, <2>1, <3>1, <3>2 DEF Busy
  <2>2. CASE v # w
    <3>1. job'[v] = job[v] /\ wpc'[v] = wpc[v] BY <2>2 DEF IndInv, TypeOK
    <3>2. ASSUME wpc[v] \in Busy PROVE ~InQueue(job[v])'
      <4>1. PICK r \in Requests : r = job[v]
        BY <3>2 DEF IndInv, TypeOK, InHandOK
      <4>2. ~InQueue(r) BY <3>2, <4>1 DEF IndInv, InHandOK
      <4>3. ~InQueue(r)' BY <1>6, <4>2
      <4> QED BY <3>1, <4>1, <4>3 DEF InQueue
    <3> QED BY <3>1, <3>2 DEF IndInv, InHandOK
  <2> QED BY <2>1, <2>2
<1>8. CurrentOK' BY <1>2 DEF IndInv, CurrentOK, Alive, TypeOK
<1>9. QueueOK'
  <2> SUFFICES ASSUME NEW u \in Tenants, NEW i \in 1..Len(queue'[u])
               PROVE  /\ TenantOf[queue'[u][i]] = u
                      /\ hpc'[queue'[u][i]] = "done"
                      /\ \A j \in 1..Len(queue'[u]) :
                            queue'[u][i] = queue'[u][j] => i = j
    BY DEF QueueOK
  <2>1. CASE u # t
    <3>1. queue'[u] = queue[u] BY <2>1 DEF IndInv, TypeOK
    <3> QED BY <3>1 DEF IndInv, QueueOK
  <2>2. CASE u = t
    <3>1. queue'[u] = Tail(q) BY <2>2 DEF IndInv, TypeOK
    <3>2. \A j \in 1..Len(Tail(q)) : j + 1 \in 1..Len(q) BY <1>2
    <3>3. queue'[u][i] = q[i + 1] BY <1>2, <3>1
    <3>4. ASSUME NEW j \in 1..Len(queue'[u]), queue'[u][i] = queue'[u][j]
          PROVE  i = j
      <4>1. q[i + 1] = q[j + 1] BY <1>2, <3>1, <3>4
      <4>2. \A k, l \in 1..Len(q) : q[k] = q[l] => k = l
        BY DEF IndInv, QueueOK
      <4>3. i + 1 \in 1..Len(q) /\ j + 1 \in 1..Len(q) BY <3>1, <3>2
      <4>4. i + 1 = j + 1 BY <4>1, <4>2, <4>3
      <4> QED BY <1>2, <3>1, <4>4
    <3> QED BY <2>2, <3>1, <3>2, <3>3, <3>4 DEF IndInv, QueueOK
  <2> QED BY <2>1, <2>2
<1>10. QuietUntilUp' BY <1>2 DEF IndInv, QuietUntilUp, Alive, TypeOK
<1>11. WaitingRowOK' BY <1>6 DEF IndInv, WaitingRowOK, Untouched
<1>12. WorkedRowOK'
  <2> SUFFICES ASSUME NEW v \in Workers PROVE WorkedRow(v)'
    BY DEF WorkedRowOK
  <2>1. CASE v = w
    <3>1. job'[w] = own /\ wpc'[w] = "mark" BY DEF IndInv, TypeOK
    <3>2. status[own] \in {"queued", "purged"} /\ Untouched(own)
      BY <1>4 DEF IndInv, WaitingRowOK
    <3> QED BY <2>1, <3>1, <3>2 DEF WorkedRow, RowIn, Untouched, Busy
  <2>2. CASE v # w
    <3>1. job'[v] = job[v] /\ wpc'[v] = wpc[v] BY <2>2 DEF IndInv, TypeOK
    <3> QED BY <3>1 DEF IndInv, WorkedRowOK, WorkedRow, RowIn
  <2> QED BY <2>1, <2>2
<1>13. WaitingHasWorker'
  <2>1. q # << >> BY DEF GetJob
  <2> QED BY <2>1 DEF IndInv, WaitingHasWorker, TypeOK
<1>14. RelayedAtMostOnce' BY DEF IndInv, RelayedAtMostOnce
<1>15. ReplyMatchesRow' BY DEF IndInv, ReplyMatchesRow, ReplyMatches
<1> QED
  BY <1>7, <1>8, <1>9, <1>10, <1>11, <1>12, <1>13, <1>14, <1>15 DEF IndInv

\* Steps that leave the memory of the process, the chat and the relays alone,
\* and move a row only as the recovery or the cleanup does.
TableStep ==
    /\ UNCHANGED <<memory, outside>>
    /\ \A r \in Requests :
        \/ status'[r] = status[r] /\ errorCode'[r] = errorCode[r]
        \/ status[r] # "absent" /\ status'[r] = "purged"
        \/ /\ status[r] \in Active /\ status'[r] = "failed"
           /\ boot # "up" /\ boot' # "up"

\* A step of the table keeps the invariant.
LEMMA TableStepKeepsInv ==
    ASSUME IndInv, TypeOK', TableStep, boot' # "up" => boot # "up"
    PROVE  IndInv'
<1> USE DEF TableStep, memory, outside
<1>1. \A r \in Requests : InQueue(r)' <=> InQueue(r) BY DEF InQueue
<1>2. InHandOK' BY DEF IndInv, InHandOK, InQueue
<1>3. CurrentOK' BY DEF IndInv, CurrentOK, Alive
<1>4. QueueOK' BY DEF IndInv, QueueOK
<1>5. QuietUntilUp' BY DEF IndInv, QuietUntilUp, Alive
<1>6. WaitingRowOK'
  <2> SUFFICES ASSUME NEW r \in Requests
               PROVE  /\ hpc[r] \in {"idle", "create"} => status'[r] = "absent"
                      /\ hpc[r] # "done" => Untouched(r)
                      /\ hpc[r] = "put" \/ InQueue(r) =>
                            status'[r] \in {"queued", "purged"} /\ Untouched(r)
                      /\ hpc[r] = "done" => status'[r] # "absent"
    BY <1>1 DEF WaitingRowOK, Untouched
  <2>1. boot # "up" => hpc[r] # "put" /\ ~InQueue(r)
    BY DEF IndInv, QuietUntilUp, InQueue
  <2> QED BY <2>1 DEF IndInv, WaitingRowOK, Active
<1>7. WorkedRowOK'
  <2> SUFFICES ASSUME NEW w \in Workers PROVE WorkedRow(w)'
    BY DEF WorkedRowOK
  <2>1. CASE wpc[w] \notin Busy BY <2>1 DEF WorkedRow, Busy
  <2>2. CASE wpc[w] \in Busy
    <3>1. boot = "up" BY <2>2 DEF IndInv, QuietUntilUp, Alive, Busy
    <3>2. PICK own \in Requests : own = job[w]
      BY <2>2 DEF IndInv, TypeOK, InHandOK
    <3>3. \/ status'[own] = status[own] /\ errorCode'[own] = errorCode[own]
          \/ status'[own] = "purged"
      BY <3>1
    <3> QED BY <3>2, <3>3 DEF IndInv, WorkedRowOK, WorkedRow, RowIn
  <2> QED BY <2>1, <2>2
<1>8. WaitingHasWorker' BY DEF IndInv, WaitingHasWorker
<1>9. RelayedAtMostOnce' BY DEF IndInv, RelayedAtMostOnce
<1>10. ReplyMatchesRow'
  BY DEF IndInv, ReplyMatchesRow, ReplyMatches, Active
<1> QED
  BY <1>2, <1>3, <1>4, <1>5, <1>6, <1>7, <1>8, <1>9, <1>10 DEF IndInv

\* A crash forgets everything in memory, so nothing is left to go wrong.
LEMMA CrashKeepsInv ==
    ASSUME IndInv, TypeOK', Crash
    PROVE  IndInv'
<1> USE DEF Crash, table, outside
<1>1. /\ \A w \in Workers : wpc'[w] = "none" /\ job'[w] = NoRequest
      /\ \A t \in Tenants : queue'[t] = << >> /\ current'[t] = NoWorker
      /\ \A r \in Requests :
            hpc'[r] = IF hpc[r] \in {"create", "put"} THEN "raised" ELSE hpc[r]
      /\ UNCHANGED <<status, errorCode, told, relayed>>
  OBVIOUS
<1>2. InHandOK' BY <1>1 DEF InHandOK, Busy
<1>3. CurrentOK' BY <1>1 DEF CurrentOK, Alive
<1>4. QueueOK' BY <1>1 DEF QueueOK
<1>5. QuietUntilUp' BY <1>1 DEF QuietUntilUp, Alive
<1>6. \A r \in Requests : ~InQueue(r)' BY <1>1 DEF InQueue
<1>7. WaitingRowOK' BY <1>1, <1>6 DEF IndInv, WaitingRowOK, Untouched
<1>8. WorkedRowOK' BY <1>1 DEF WorkedRowOK, WorkedRow, Busy
<1>9. WaitingHasWorker' BY <1>1 DEF WaitingHasWorker
<1>10. RelayedAtMostOnce' BY <1>1 DEF IndInv, RelayedAtMostOnce
<1>11. ReplyMatchesRow' BY <1>1 DEF IndInv, ReplyMatchesRow, ReplyMatches
<1> QED
  BY <1>2, <1>3, <1>4, <1>5, <1>7, <1>8, <1>9, <1>10, <1>11 DEF IndInv

\* What waits in a queue is a request.
LEMMA QueuedRequest ==
    ASSUME TypeOK, NEW t \in Tenants, NEW i \in 1..Len(queue[t])
    PROVE  queue[t][i] \in Requests
<1>1. queue[t] \in Seq(Requests) BY DEF TypeOK
<1> QED BY <1>1

\* A handler that has not put its request into the queue yet is alone with it.
LEMMA NotYetQueued ==
    ASSUME IndInv, NEW r \in Requests, hpc[r] # "done"
    PROVE  ~InQueue(r) /\ \A w \in Workers : wpc[w] \in Busy => job[w] # r
  BY DEF IndInv, InQueue, InHandOK, QueueOK, SortAssumption

\* The steps of a handler before the put: its own place and its own row.
LEMMA HandlerKeepsInv ==
    ASSUME IndInv, TypeOK', NEW r \in Requests,
           Accept(r) \/ CreateRequest(r) \/ CreateRequestRaises(r)
    PROVE  IndInv'
<1>1. /\ hpc[r] \in {"idle", "create"} /\ hpc'[r] \in {"create", "put", "raised"}
      /\ \A x \in Requests \ {r} : hpc'[x] = hpc[x] /\ status'[x] = status[x]
      /\ UNCHANGED <<errorCode, boot, queue, current, wpc, job, reason, told, relayed>>
      /\ hpc'[r] = "create" => status'[r] = "absent"
      /\ hpc'[r] = "put" => status'[r] = "queued"
      /\ hpc[r] = "idle" => boot = "up"
  <2> USE DEF handlerFrame, table, outside, IndInv, TypeOK
  <2>1. CASE Accept(r) BY <2>1 DEF Accept, WaitingRowOK
  <2>2. CASE CreateRequest(r) BY <2>2 DEF CreateRequest, InsertRow
  <2>3. CASE CreateRequestRaises(r)
    <3>1. CASE InsertRow(r) BY <2>3, <3>1 DEF CreateRequestRaises, InsertRow
    <3>2. CASE UNCHANGED table BY <2>3, <3>2 DEF CreateRequestRaises
    <3> QED BY <2>3, <3>1, <3>2 DEF CreateRequestRaises
  <2> QED BY <2>1, <2>2, <2>3
<1>2. ~InQueue(r) /\ \A w \in Workers : wpc[w] \in Busy => job[w] # r
  BY <1>1, NotYetQueued
<1>3. \A x \in Requests : InQueue(x)' <=> InQueue(x) BY <1>1 DEF InQueue
<1>4. \A x \in Requests : hpc[x] = "done" => hpc'[x] = "done" /\ x # r
  BY <1>1
<1>5. boot = "up"
  BY <1>1 DEF IndInv, QuietUntilUp
<1>6. InHandOK'
  <2> SUFFICES ASSUME NEW w \in Workers, wpc[w] \in Busy
               PROVE  hpc'[job[w]] = "done" /\ ~InQueue(job[w])'
    BY <1>1 DEF IndInv, InHandOK
  <2>1. PICK x \in Requests : x = job[w] BY DEF IndInv, TypeOK, InHandOK
  <2>2. hpc[x] = "done" /\ ~InQueue(x) BY <2>1 DEF IndInv, InHandOK
  <2> QED BY <1>1, <1>3, <1>4, <2>1, <2>2 DEF InQueue
<1>7. CurrentOK' BY <1>1 DEF IndInv, CurrentOK, Alive
<1>8. QueueOK'
  <2> SUFFICES ASSUME NEW t \in Tenants, NEW i \in 1..Len(queue[t])
               PROVE  hpc'[queue[t][i]] = "done"
    BY <1>1 DEF IndInv, QueueOK
  <2>1. PICK x \in Requests : x = queue[t][i] BY QueuedRequest DEF IndInv
  <2>2. hpc[x] = "done" BY <2>1 DEF IndInv, QueueOK
  <2> QED BY <1>4, <2>1, <2>2
<1>9. QuietUntilUp' BY <1>1, <1>5 DEF QuietUntilUp
<1>10. WaitingRowOK'
  BY <1>1, <1>2, <1>3 DEF IndInv, WaitingRowOK, Untouched
<1>11. WorkedRowOK'
  <2> SUFFICES ASSUME NEW w \in Workers PROVE WorkedRow(w)'
    BY DEF WorkedRowOK
  <2>1. CASE wpc[w] \notin Busy BY <1>1, <2>1 DEF WorkedRow, Busy
  <2>2. CASE wpc[w] \in Busy
    <3>1. job[w] \in Requests \ {r}
      BY <1>2, <2>2 DEF IndInv, TypeOK, InHandOK
    <3> QED BY <1>1, <3>1 DEF IndInv, WorkedRowOK, WorkedRow, RowIn
  <2> QED BY <2>1, <2>2
<1>12. WaitingHasWorker' BY <1>1 DEF IndInv, WaitingHasWorker
<1>13. RelayedAtMostOnce' BY <1>1 DEF IndInv, RelayedAtMostOnce
<1>14. ReplyMatchesRow'
  <2> SUFFICES ASSUME NEW x \in Requests PROVE ReplyMatches(x)'
    BY DEF ReplyMatchesRow
  <2>1. CASE x = r
    <3>1. told[r] = "nothing" BY <1>1 DEF IndInv, WaitingRowOK, Untouched
    <3> QED BY <1>1, <2>1, <3>1 DEF ReplyMatches, Reasons
  <2>2. CASE x # r
    BY <1>1, <2>2 DEF IndInv, ReplyMatchesRow, ReplyMatches
  <2> QED BY <2>1, <2>2
<1> QED
  BY <1>6, <1>7, <1>8, <1>9, <1>10, <1>11, <1>12, <1>13, <1>14 DEF IndInv

\* The put: the request joins the end of its tenant's queue, and the tenant has
\* one live worker, the one it had or a new one in place of one that ended.
LEMMA EnqueueKeepsInv ==
    ASSUME IndInv, TypeOK', NEW r \in Requests, Enqueue(r)
    PROVE  IndInv'
<1> DEFINE t == TenantOf[r]
           q == queue[t]
<1>1. /\ hpc[r] = "put" /\ t \in Tenants /\ q \in Seq(Requests) /\ Len(q) \in Nat
      /\ Append(q, r) \in Seq(Requests) /\ Len(Append(q, r)) = Len(q) + 1
      /\ \A i \in 1..Len(q) : Append(q, r)[i] = q[i]
      /\ Append(q, r)[Len(q) + 1] = r
  BY DEF Enqueue, IndInv, TypeOK
<1>2. /\ queue' = [queue EXCEPT ![t] = Append(q, r)]
      /\ hpc' = [hpc EXCEPT ![r] = "done"]
      /\ EnsureTenantWorker(t)
      /\ UNCHANGED <<status, errorCode, boot, job, reason, told, relayed>>
  BY DEF Enqueue, table, outside
<1>3. ~InQueue(r) /\ \A w \in Workers : wpc[w] \in Busy => job[w] # r
  BY <1>1, NotYetQueued
<1>4. boot = "up" BY <1>1 DEF IndInv, QuietUntilUp
<1>5. \A x \in Requests : InQueue(x)' <=> InQueue(x) \/ x = r
  <2> TAKE x \in Requests
  <2>1. CASE TenantOf[x] # t
    <3>1. queue'[TenantOf[x]] = queue[TenantOf[x]] /\ x # r
      BY <1>2, <2>1 DEF IndInv, TypeOK
    <3> QED BY <3>1 DEF InQueue
  <2>2. CASE TenantOf[x] = t
    <3>1. queue'[t] = Append(q, r) BY <1>1, <1>2 DEF IndInv, TypeOK
    <3>2. InQueue(x)' <=> \E i \in 1..(Len(q) + 1) : Append(q, r)[i] = x
      BY <1>1, <2>2, <3>1 DEF InQueue
    <3>3. InQueue(x) <=> \E i \in 1..Len(q) : q[i] = x BY <2>2 DEF InQueue
    <3>4. \A i \in 1..(Len(q) + 1) : i \in 1..Len(q) \/ i = Len(q) + 1
      BY <1>1
    <3>5. Len(q) + 1 \in 1..(Len(q) + 1) /\ 1..Len(q) \subseteq 1..(Len(q) + 1)
      BY <1>1
    <3> QED BY <1>1, <3>2, <3>3, <3>4, <3>5
  <2> QED BY <2>1, <2>2
\* The workers: only a task that does not run may change, into a fresh one.
<1>6. /\ \A w \in Workers : Alive(w) => wpc'[w] = wpc[w]
      /\ \A w \in Workers : ~Alive(w) => wpc'[w] \in {wpc[w], "get"}
      /\ CurrentOK' /\ current'[t] # NoWorker
      /\ \A u \in Tenants \ {t} : current'[u] = current[u]
  <2> USE <1>1 DEF IndInv, TypeOK, CurrentOK, Alive
  <2>1. CASE UNCHANGED <<current, wpc>> /\ current[t] # NoWorker
    BY <2>1
  <2>2. CASE /\ CreateWorker(t)
             /\ current[t] = NoWorker \/ wpc[current[t]] = "done"
    <3>1. PICK w \in Workers : /\ Serves[w] = t /\ wpc[w] \in {"none", "done"}
                              /\ current' = [current EXCEPT ![t] = w]
                              /\ wpc' = [wpc EXCEPT ![w] = "get"]
      BY <2>2 DEF CreateWorker
    <3>2. \A v \in Workers : Serves[v] = t => ~Alive(v)
      <4> SUFFICES ASSUME NEW v \in Workers, Serves[v] = t, Alive(v)
                   PROVE  FALSE
        OBVIOUS
      <4>1. current[t] = v OBVIOUS
      <4> QED BY <2>2, <4>1
    <3>3. ~Alive(w) BY <3>1
    <3>4. \A v \in Workers \ {w} : wpc'[v] = wpc[v] BY <3>1
    <3>5. wpc'[w] = "get" BY <3>1
    <3>6. current'[t] = w /\ \A u \in Tenants \ {t} : current'[u] = current[u]
      BY <3>1
    <3>7. \A u \in Tenants : current'[u] # NoWorker => Serves[current'[u]] = u
      BY <3>1, <3>6
    <3>8. \A v \in Workers : Alive(v)' => current'[Serves[v]] = v
      BY <3>1, <3>2, <3>4, <3>6
    <3> QED BY <3>3, <3>4, <3>5, <3>6, <3>7, <3>8
  <2> QED BY <1>2, <2>1, <2>2 DEF EnsureTenantWorker
<1>7. \A w \in Workers : wpc'[w] \in Busy <=> wpc[w] \in Busy
  BY <1>6 DEF Alive, Busy
<1>8. \A w \in Workers : wpc[w] \in Busy => wpc'[w] = wpc[w]
  BY <1>6 DEF Alive, Busy
<1>9. InHandOK'
  <2> SUFFICES ASSUME NEW w \in Workers
               PROVE  /\ job'[w] # NoRequest <=> wpc'[w] \in Busy
                      /\ wpc'[w] \in {"fail", "tell"} => reason'[w] \in Reasons
                      /\ wpc'[w] \in Busy => /\ TenantOf[job'[w]] = Serves[w]
                                            /\ hpc'[job'[w]] = "done"
                                            /\ ~InQueue(job[w])'
    BY DEF InHandOK
  <2>1. CASE wpc[w] \notin Busy
    BY <1>2, <1>7, <2>1 DEF IndInv, InHandOK, Busy
  <2>2. CASE wpc[w] \in Busy
    <3>1. PICK x \in Requests : x = job[w]
      BY <2>2 DEF IndInv, TypeOK, InHandOK
    <3>2. hpc[x] = "done" /\ ~InQueue(x) /\ x # r
      BY <1>3, <2>2, <3>1 DEF IndInv, InHandOK
    <3>3. hpc'[x] = "done" BY <1>2, <3>2 DEF IndInv, TypeOK
    <3>4. ~InQueue(x)' BY <1>5, <3>2
    <3>5. ~InQueue(job[w])' BY <1>2, <3>1, <3>4 DEF InQueue
    <3> QED BY <1>2, <1>8, <2>2, <3>1, <3>3, <3>5 DEF IndInv, InHandOK
  <2> QED BY <2>1, <2>2
<1>10. QueueOK'
  <2> SUFFICES ASSUME NEW u \in Tenants, NEW i \in 1..Len(queue'[u])
               PROVE  /\ TenantOf[queue'[u][i]] = u
                      /\ hpc'[queue'[u][i]] = "done"
                      /\ \A j \in 1..Len(queue'[u]) :
                            queue'[u][i] = queue'[u][j] => i = j
    BY DEF QueueOK
  <2>1. CASE u # t
    <3>1. queue'[u] = queue[u] BY <1>2, <2>1 DEF IndInv, TypeOK
    <3>2. PICK x \in Requests : x = queue[u][i]
      BY <3>1, QueuedRequest DEF IndInv
    <3>3. hpc'[x] = "done" BY <1>2, <3>1, <3>2 DEF IndInv, QueueOK, TypeOK
    <3> QED BY <3>1, <3>2, <3>3 DEF IndInv, QueueOK
  <2>2. CASE u = t
    <3>1. queue'[u] = Append(q, r) BY <1>1, <1>2, <2>2 DEF IndInv, TypeOK
    <3>2. \A k \in 1..(Len(q) + 1) :
            \/ k \in 1..Len(q) /\ Append(q, r)[k] = q[k] /\ q[k] # r
            \/ k = Len(q) + 1 /\ Append(q, r)[k] = r
      <4>1. \A k \in 1..Len(q) : q[k] # r BY <1>3 DEF InQueue
      <4> QED BY <1>1, <4>1
    <3>3. \A k \in 1..Len(q) :
            /\ TenantOf[q[k]] = t /\ hpc[q[k]] = "done" /\ q[k] \in Requests
            /\ \A l \in 1..Len(q) : q[k] = q[l] => k = l
      BY <1>1 DEF IndInv, QueueOK
    <3>4. i \in 1..(Len(q) + 1) BY <1>1, <3>1
    <3>5. TenantOf[queue'[u][i]] = u /\ hpc'[queue'[u][i]] = "done"
      <4>1. hpc'[r] = "done" /\ \A x \in Requests \ {r} : hpc'[x] = hpc[x]
        BY <1>2 DEF IndInv, TypeOK
      <4>2. CASE i \in 1..Len(q) /\ queue'[u][i] = q[i] /\ q[i] # r
        BY <2>2, <3>3, <4>1, <4>2
      <4>3. CASE queue'[u][i] = r BY <2>2, <4>1, <4>3
      <4> QED BY <3>1, <3>2, <3>4, <4>2, <4>3
    <3>6. ASSUME NEW j \in 1..Len(queue'[u]), queue'[u][i] = queue'[u][j]
          PROVE  i = j
      <4>1. j \in 1..(Len(q) + 1) BY <1>1, <3>1
      <4> QED BY <3>1, <3>2, <3>3, <3>4, <3>6, <4>1
    <3> QED BY <3>5, <3>6
  <2> QED BY <2>1, <2>2
<1>11. QuietUntilUp' BY <1>2, <1>4 DEF QuietUntilUp
<1>12. WaitingRowOK'
  BY <1>1, <1>2, <1>5 DEF IndInv, WaitingRowOK, Untouched, TypeOK
<1>13. WorkedRowOK'
  <2> SUFFICES ASSUME NEW w \in Workers PROVE WorkedRow(w)'
    BY DEF WorkedRowOK
  <2>1. CASE wpc[w] \notin Busy BY <1>7, <2>1 DEF WorkedRow, Busy
  <2>2. CASE wpc[w] \in Busy
    BY <1>2, <1>8, <2>2 DEF IndInv, WorkedRowOK, WorkedRow, RowIn
  <2> QED BY <2>1, <2>2
<1>14. WaitingHasWorker'
  BY <1>2, <1>6 DEF IndInv, WaitingHasWorker, TypeOK
<1>15. RelayedAtMostOnce' BY <1>2 DEF IndInv, RelayedAtMostOnce
<1>16. ReplyMatchesRow' BY <1>2 DEF IndInv, ReplyMatchesRow, ReplyMatches
<1> QED
  BY <1>6, <1>9, <1>10, <1>11, <1>12, <1>13, <1>14, <1>15, <1>16 DEF IndInv

\* The invariant holds at the start ...
LEMMA InitInv == Init => IndInv
<1> SUFFICES ASSUME Init PROVE IndInv OBVIOUS
<1> USE DEF Init
<1>1. TypeOK
  BY DEF TypeOK, Statuses, Active, ErrorCodes, Reasons, Replies, BootPCs,
         HandlerPCs, WorkerPCs, Busy
<1>2. InHandOK BY DEF InHandOK, Busy
<1>3. CurrentOK /\ WaitingHasWorker
  BY DEF CurrentOK, Alive, WaitingHasWorker
<1>4. QueueOK /\ QuietUntilUp BY DEF QueueOK, QuietUntilUp, Alive
<1>5. WaitingRowOK
  <2>1. \A r \in Requests : /\ hpc[r] = "idle" /\ status[r] = "absent"
                           /\ told[r] = "nothing" /\ relayed[r] = 0
    OBVIOUS
  <2>2. ASSUME NEW r \in Requests PROVE ~InQueue(r)
    <3>1. queue[TenantOf[r]] = << >> /\ Len(<< >>) = 0 OBVIOUS
    <3> HIDE DEF Init
    <3> QED BY <3>1 DEF InQueue
  <2> QED BY <2>1, <2>2 DEF WaitingRowOK, Untouched
<1>6. WorkedRowOK BY DEF WorkedRowOK, WorkedRow, Busy
<1>7. RelayedAtMostOnce
  <2> SUFFICES ASSUME NEW r \in Requests PROVE relayed[r] <= 1
    BY DEF RelayedAtMostOnce
  <2>1. relayed[r] = 0 OBVIOUS
  <2> HIDE DEF Init
  <2> QED BY <2>1
<1>8. ReplyMatchesRow BY DEF ReplyMatchesRow, ReplyMatches, Reasons
<1> QED BY <1>1, <1>2, <1>3, <1>4, <1>5, <1>6, <1>7, <1>8 DEF IndInv

\* ... and every step keeps it.
LEMMA NextInv == IndInv /\ [Next]_vars => IndInv'
<1> SUFFICES ASSUME IndInv, [Next]_vars PROVE IndInv' OBVIOUS
<1>1. TypeOK' BY TypeStep DEF IndInv
<1>2. CASE Start \/ FailStale \/ BootCleanup \/ BootRaises \/ Tick \/ CleanupLoop
           \/ UNCHANGED vars
  <2> USE DEF TableStep, table, vars
  <2>1. TypeOK BY DEF IndInv
  <2>2. CASE Start BY <1>1, <2>2, TableStepKeepsInv DEF Start
  <2>3. CASE FailStale
    <3>1. TableStep BY <2>1, <2>3 DEF FailStale, TypeOK, Stale
    <3> QED BY <1>1, <2>3, <3>1, TableStepKeepsInv DEF FailStale
  <2>4. CASE BootCleanup
    <3>1. TableStep
      BY <2>1, <2>4 DEF BootCleanup, CleanupExpired, Expired, Exists, TypeOK
    <3> QED BY <1>1, <2>4, <3>1, TableStepKeepsInv DEF BootCleanup
  <2>5. CASE BootRaises BY <1>1, <2>5, TableStepKeepsInv DEF BootRaises
  <2>6. CASE Tick BY <1>1, <2>6, TableStepKeepsInv DEF Tick
  <2>7. CASE CleanupLoop
    <3>1. TableStep
      BY <2>1, <2>7 DEF CleanupLoop, CleanupExpired, Expired, Exists, TypeOK
    <3> QED BY <1>1, <2>7, <3>1, TableStepKeepsInv DEF CleanupLoop
  <2>8. CASE UNCHANGED vars BY <1>1, <2>8, TableStepKeepsInv
  <2> QED BY <1>2, <2>2, <2>3, <2>4, <2>5, <2>6, <2>7, <2>8
<1>3. CASE Crash BY <1>1, <1>3, CrashKeepsInv
<1>4. ASSUME NEW r \in Requests, Accept(r) \/ HandlerStep(r) PROVE IndInv'
  BY <1>1, <1>4, HandlerKeepsInv, EnqueueKeepsInv DEF HandlerStep
<1>5. ASSUME NEW w \in Workers, WorkerStep(w) PROVE IndInv'
  BY <1>1, <1>5, GetJobKeepsInv, BusyWorkerKeepsInv
<1> QED BY <1>2, <1>3, <1>4, <1>5 DEF Next

-----------------------------------------------------------------------------
(* The theorems.                                                           *)

\* The inductive invariant holds throughout every behaviour.
THEOREM Invariance == Spec => []IndInv
<1>1. Init => IndInv BY InitInv
<1>2. IndInv /\ [Next]_vars => IndInv' BY NextInv
<1> QED BY <1>1, <1>2, PTL DEF Spec

\* Every variable keeps its type, for any number of requests, tenants and
\* task identities, any bounds, and any pattern of faults and crashes.
THEOREM TypeCorrect == Spec => []TypeOK
<1>1. IndInv => TypeOK BY DEF IndInv
<1> QED BY <1>1, Invariance, PTL

\* A tenant never has two live worker tasks (_ensure_tenant_worker and the
\* worker loop), so its session never serves two relays at once.
THEOREM OneJobAtATime == Spec => []OneJobPerTenant
<1>1. IndInv => OneJobPerTenant BY DEF IndInv, CurrentOK, OneJobPerTenant
<1> QED BY <1>1, Invariance, PTL

\* What the user was finally told agrees with the row that was written before
\* (the order of mark_completed, mark_failed and the sends in the worker).
THEOREM RepliesMatchRows == Spec => []ReplyMatchesRow
<1>1. IndInv => ReplyMatchesRow BY DEF IndInv
<1> QED BY <1>1, Invariance, PTL

\* No request is ever relayed twice, across crashes and recoveries too.
THEOREM NoSecondRelay == Spec => []RelayedAtMostOnce
<1>1. IndInv => RelayedAtMostOnce BY DEF IndInv
<1> QED BY <1>1, Invariance, PTL

\* A job never waits in a queue for which no worker task was ever created.
THEOREM QueuesHaveWorkers == Spec => []WaitingHasWorker
<1>1. IndInv => WaitingHasWorker BY DEF IndInv
<1> QED BY <1>1, Invariance, PTL

-----------------------------------------------------------------------------
(* First in, first out.                                                    *)

\* Moving the head of the right part to the end of the left part.
LEMMA ConcatMoveHead ==
    ASSUME NEW p \in Seq(Requests), NEW q \in Seq(Requests), q # << >>
    PROVE  Append(p, Head(q)) \o Tail(q) = p \o q
  BY HeadTail

\* Appending to the right part appends to the whole.
LEMMA ConcatAppend ==
    ASSUME NEW p \in Seq(Requests), NEW q \in Seq(Requests), NEW r \in Requests
    PROVE  p \o Append(q, r) = Append(p \o q, r)
  OBVIOUS

\* Nothing that was put into a tenant's queue since boot is skipped, repeated
\* or overtaken, whatever happens to the workers that take from it.
THEOREM FirstInFirstOut == Spec => []FifoPerTenant
<1>1. Init => FifoPerTenant BY DEF Init, FifoPerTenant
<1>2. IndInv /\ FifoPerTenant /\ [Next]_vars => FifoPerTenant'
  <2> SUFFICES ASSUME IndInv, FifoPerTenant, [Next]_vars PROVE FifoPerTenant'
    OBVIOUS
  <2>1. TypeOK BY DEF IndInv
  <2>2. CASE UNCHANGED <<queue, admitted, taken>> BY <2>2 DEF FifoPerTenant
  <2>3. CASE Crash BY <2>3 DEF Crash, FifoPerTenant
  <2>4. ASSUME NEW r \in Requests, Enqueue(r) PROVE FifoPerTenant'
    <3> SUFFICES ASSUME NEW t \in Tenants
                 PROVE  admitted'[t] = taken'[t] \o queue'[t]
      BY DEF FifoPerTenant
    <3>1. CASE t # TenantOf[r]
      BY <2>1, <2>4, <3>1 DEF Enqueue, FifoPerTenant, TypeOK
    <3>2. CASE t = TenantOf[r]
      <4>1. /\ admitted'[t] = Append(admitted[t], r)
            /\ queue'[t] = Append(queue[t], r) /\ taken'[t] = taken[t]
        BY <2>1, <2>4, <3>2 DEF Enqueue, TypeOK
      <4>2. queue[t] \in Seq(Requests) /\ taken[t] \in Seq(Requests)
        BY <2>1 DEF TypeOK
      <4>3. admitted[t] = taken[t] \o queue[t] BY DEF FifoPerTenant
      <4>4. taken[t] \o Append(queue[t], r) = Append(taken[t] \o queue[t], r)
        BY <4>2, ConcatAppend, Zenon
      <4> QED BY <4>1, <4>3, <4>4, Zenon
    <3> QED BY <3>1, <3>2
  <2>5. ASSUME NEW w \in Workers, GetJob(w) PROVE FifoPerTenant'
    <3> SUFFICES ASSUME NEW t \in Tenants
                 PROVE  admitted'[t] = taken'[t] \o queue'[t]
      BY DEF FifoPerTenant
    <3>1. CASE t # Serves[w]
      BY <2>1, <2>5, <3>1 DEF GetJob, FifoPerTenant, TypeOK
    <3>2. CASE t = Serves[w]
      <4>1. /\ queue[t] # << >> /\ admitted'[t] = admitted[t]
            /\ queue'[t] = Tail(queue[t])
            /\ taken'[t] = Append(taken[t], Head(queue[t]))
        BY <2>1, <2>5, <3>2 DEF GetJob, TypeOK
      <4>2. queue[t] \in Seq(Requests) /\ taken[t] \in Seq(Requests)
        BY <2>1 DEF TypeOK
      <4>3. admitted[t] = taken[t] \o queue[t] BY DEF FifoPerTenant
      <4>4. Append(taken[t], Head(queue[t])) \o Tail(queue[t])
              = taken[t] \o queue[t]
        BY <4>1, <4>2, ConcatMoveHead, Zenon
      <4> QED BY <4>1, <4>3, <4>4, Zenon
    <3> QED BY <3>1, <3>2
  <2>6. \/ UNCHANGED <<queue, admitted, taken>>
        \/ Crash
        \/ \E r \in Requests : Enqueue(r)
        \/ \E w \in Workers : GetJob(w)
    <3> USE DEF memory, handlerFrame, workerFrame
    <3>1. CASE Start \/ FailStale \/ BootCleanup \/ BootRaises \/ Tick \/ CleanupLoop
               \/ UNCHANGED vars
      BY <3>1 DEF Start, FailStale, BootCleanup, BootRaises, Tick, CleanupLoop, vars
    <3>2. ASSUME NEW r \in Requests,
                 Accept(r) \/ CreateRequest(r) \/ CreateRequestRaises(r)
          PROVE  UNCHANGED <<queue, admitted, taken>>
      BY <3>2 DEF Accept, CreateRequest, CreateRequestRaises
    <3>3. ASSUME NEW w \in Workers, WorkerStep(w), ~GetJob(w)
          PROVE  UNCHANGED <<queue, admitted, taken>>
      BY <3>3 DEF WorkerStep, MarkProcessing, MarkProcessingRaises, SendRelay,
            ClientFails, RelayAnswers, RelayFails, MarkCompleted,
            MarkCompletedRaises, DeliverPart, DeliverAll, DeliverRaises,
            MarkFailed, MarkFailedRaises, TellError
    <3> QED BY <3>1, <3>2, <3>3 DEF Next, HandlerStep
  <2> QED BY <2>2, <2>3, <2>4, <2>5, <2>6
<1> QED BY <1>1, <1>2, Invariance, PTL DEF Spec

-----------------------------------------------------------------------------
(* The recovery.                                                           *)

\* Only the recovery writes the error code "stale": a worker's exception has a
\* reason of its own.
LEMMA OnlyRecoveryWritesStale ==
    ASSUME IndInv, [Next]_vars, NEW r \in Requests,
           errorCode'[r] = "stale", errorCode[r] # "stale"
    PROVE  boot = "recover"
<1> USE DEF table, memory, handlerFrame, workerFrame
<1>1. UNCHANGED errorCode \/ FailStale
      \/ \E w \in Workers : /\ wpc[w] = "fail"
                            /\ SetErrorCode(job[w], reason[w])
  <2>1. CASE Start \/ BootCleanup \/ BootRaises \/ Crash \/ Tick \/ CleanupLoop
             \/ UNCHANGED vars
    BY <2>1 DEF Start, BootCleanup, BootRaises, Crash, Tick, CleanupLoop, vars
  <2>2. ASSUME NEW q \in Requests, Accept(q) \/ HandlerStep(q)
        PROVE  UNCHANGED errorCode
    BY <2>2 DEF Accept, HandlerStep, CreateRequest, CreateRequestRaises, Enqueue,
       InsertRow
  <2>3. ASSUME NEW w \in Workers, WorkerStep(w)
        PROVE  \/ UNCHANGED errorCode
               \/ wpc[w] = "fail" /\ SetErrorCode(job[w], reason[w])
    BY <2>3 DEF WorkerStep, GetJob, MarkProcessing, MarkProcessingRaises,
       SendRelay, ClientFails, RelayAnswers, RelayFails, MarkCompleted,
       MarkCompletedRaises, DeliverPart, DeliverAll, DeliverRaises, MarkFailed,
       MarkFailedRaises, TellError, RecordFailure
  <2> QED BY <2>1, <2>2, <2>3 DEF Next
<1>2. ASSUME NEW w \in Workers, wpc[w] = "fail",
             SetErrorCode(job[w], reason[w])
      PROVE  FALSE
  <2>1. reason[w] \in Reasons BY <1>2 DEF IndInv, InHandOK
  <2>2. errorCode'[r] \in {errorCode[r], reason[w]}
    BY <1>2 DEF SetErrorCode, IndInv, TypeOK
  <2> QED BY <2>1, <2>2 DEF Reasons
<1> QED BY <1>1, <1>2 DEF FailStale

\* The recovery gives up a request only while nobody owns any: before the
\* runtime is up, the process has no handler, queue or worker.
THEOREM RecoveryNeverFailsOwned == Spec => RecoverySparesOwned
<1> DEFINE Spares ==
        \A r \in Requests :
            errorCode'[r] = "stale" /\ errorCode[r] # "stale" => ~Owned(r)
<1>1. IndInv /\ [Next]_vars => Spares
  <2> SUFFICES ASSUME IndInv, [Next]_vars, NEW r \in Requests,
                      errorCode'[r] = "stale", errorCode[r] # "stale"
               PROVE  ~Owned(r)
    OBVIOUS
  <2>1. boot = "recover" BY OnlyRecoveryWritesStale
  <2>2. /\ hpc[r] \notin {"create", "put"}
        /\ \A t \in Tenants : queue[t] = << >>
        /\ \A w \in Workers : ~Alive(w)
    BY <2>1 DEF IndInv, QuietUntilUp
  <2>3. ~InQueue(r)
    <3>1. TenantOf[r] \in Tenants OBVIOUS
    <3> QED BY <2>2, <3>1 DEF InQueue
  <2>4. ~InHand(r)
    BY <2>2 DEF InHand, Alive, Busy, IndInv, InHandOK
  <2> QED BY <2>2, <2>3, <2>4 DEF Owned
<1> QED BY <1>1, Invariance, PTL DEF Spec, RecoverySparesOwned

-----------------------------------------------------------------------------
(* What the recovery leaves.                                               *)

\* OrphanIsFresh of one request, from the moment of the recovery on.
Fresh(r) ==
    boot \in {"cleanup", "up"} /\ status[r] \in Active /\ ~Owned(r) /\ r \notin faulty
        => enteredTs[r] >= cutoff

\* A step leaves a request fresh if it does not wake up its row, change its
\* age or give it up.
LeavesFresh(r) ==
    /\ boot' \in {"cleanup", "up"} => boot \in {"cleanup", "up"}
    /\ cutoff' = cutoff
    /\ faulty \subseteq faulty'
    /\ \/ r \in faulty'
       \/ status'[r] \notin Active
       \/ Owned(r)'
       \/ /\ status'[r] \in Active => status[r] \in Active
          /\ enteredTs'[r] = enteredTs[r]
          /\ ~Owned(r)

\* Such a step keeps Fresh.
LEMMA FreshStays ==
    ASSUME NEW r \in Requests, Fresh(r), LeavesFresh(r)
    PROVE  Fresh(r)'
  BY DEF Fresh, LeavesFresh

\* The steps of the table: a row only leaves the active ones.
LEMMA TableLeavesFresh ==
    ASSUME TypeOK, Start \/ BootCleanup \/ BootRaises \/ Tick \/ CleanupLoop
                   \/ UNCHANGED vars,
           NEW r \in Requests
    PROVE  LeavesFresh(r)
<1> USE DEF vars, memory, budget, table
<1>1. UNCHANGED <<hpc, queue, job, cutoff, enteredTs, faulty>>
  BY DEF Start, BootCleanup, BootRaises, Tick, CleanupLoop
<1>2. Owned(r)' <=> Owned(r) BY <1>1 DEF Owned, InQueue, InHand
<1>3. status'[r] \in Active => status[r] \in Active
  BY DEF Start, BootCleanup, BootRaises, Tick, CleanupLoop, CleanupExpired,
     TypeOK, Active
<1>4. boot' \in {"cleanup", "up"} => boot \in {"cleanup", "up"}
  BY DEF Start, BootCleanup, BootRaises, Tick, CleanupLoop
<1> QED BY <1>1, <1>2, <1>3, <1>4 DEF LeavesFresh

\* The recovery fails every active row that is older than its threshold.
LEMMA RecoveryMakesFresh ==
    ASSUME TypeOK, FailStale, NEW r \in Requests
    PROVE  Fresh(r)'
<1> SUFFICES ASSUME status'[r] \in Active PROVE enteredTs'[r] >= cutoff'
  BY DEF Fresh
<1>1. ~Stale(r) /\ status'[r] = status[r] BY DEF FailStale, TypeOK, Active
<1>2. ~(enteredTs[r] + StaleTicks < clock) BY <1>1 DEF Stale, OlderThan
<1>3. enteredTs' = enteredTs /\ enteredTs[r] \in Nat /\ clock \in Nat
  BY DEF FailStale, TypeOK
<1> QED BY <1>2, <1>3 DEF FailStale

\* A handler owns its request until it has put it into the queue, where it is
\* owned, or until create_request has raised.
LEMMA HandlerLeavesFresh ==
    ASSUME TypeOK, TypeOK', NEW q \in Requests, Accept(q) \/ HandlerStep(q),
           NEW r \in Requests
    PROVE  LeavesFresh(r)
<1> USE DEF handlerFrame, budget, table, outside
<1>1. UNCHANGED <<boot, cutoff, job>> /\ faulty \subseteq faulty'
  BY DEF Accept, HandlerStep, CreateRequest, CreateRequestRaises, Enqueue,
     StorageRaises
<1>2. InHand(r)' <=> InHand(r) BY <1>1 DEF InHand
<1>3. CASE r # q
  <2>1. status'[r] = status[r] /\ enteredTs'[r] = enteredTs[r] /\ hpc'[r] = hpc[r]
    BY <1>3 DEF Accept, HandlerStep, CreateRequest, CreateRequestRaises, Enqueue,
       InsertRow, TypeOK
  <2>2. InQueue(r) => InQueue(r)'
    <3>1. CASE UNCHANGED queue BY <3>1 DEF InQueue
    <3>2. CASE Enqueue(q)
      <4> DEFINE t == TenantOf[r]
      <4>1. queue[t] \in Seq(Requests) BY DEF TypeOK
      <4>2. queue'[t] \in {queue[t], Append(queue[t], q)}
        BY <3>2 DEF Enqueue, TypeOK
      <4>3. \A i \in 1..Len(queue[t]) : /\ i \in 1..Len(queue'[t])
                                        /\ queue'[t][i] = queue[t][i]
        BY <4>1, <4>2
      <4> QED BY <4>3 DEF InQueue
    <3> QED
      BY <3>1, <3>2 DEF Accept, HandlerStep, CreateRequest, CreateRequestRaises
  <2> QED BY <1>1, <1>2, <2>1, <2>2 DEF LeavesFresh, Owned
<1>4. CASE r = q
  <2>1. CASE Accept(q) \/ CreateRequest(q)
    <3>1. hpc'[r] \in {"create", "put"}
      BY <1>4, <2>1 DEF Accept, CreateRequest, TypeOK
    <3> QED BY <1>1, <3>1 DEF LeavesFresh, Owned
  <2>2. CASE CreateRequestRaises(q)
    BY <1>1, <1>4, <2>2 DEF CreateRequestRaises, StorageRaises, LeavesFresh
  <2>3. CASE Enqueue(q)
    <3> DEFINE t == TenantOf[r]
    <3>1. queue[t] \in Seq(Requests) /\ queue'[t] = Append(queue[t], r)
      BY <1>4, <2>3 DEF Enqueue, TypeOK
    <3>2. /\ Len(queue[t]) + 1 \in 1..Len(queue'[t])
          /\ queue'[t][Len(queue[t]) + 1] = r
      BY <3>1
    <3>3. InQueue(r)' BY <3>2 DEF InQueue
    <3> QED BY <1>1, <3>3 DEF LeavesFresh, Owned
  <2> QED BY <2>1, <2>2, <2>3 DEF HandlerStep
<1> QED BY <1>3, <1>4

\* A worker takes a request from the queue into its hand.
LEMMA GetLeavesFresh ==
    ASSUME IndInv, NEW w \in Workers, GetJob(w), NEW r \in Requests
    PROVE  LeavesFresh(r)
<1> DEFINE t == Serves[w]
<1>1. /\ UNCHANGED <<boot, cutoff, hpc, faulty, status, enteredTs>>
      /\ job' = [job EXCEPT ![w] = Head(queue[t])]
      /\ queue' = [queue EXCEPT ![t] = Tail(queue[t])]
      /\ queue[t] # << >> /\ wpc[w] = "get"
  BY DEF GetJob, table, budget
<1>2. /\ queue \in [Tenants -> Seq(Requests)] /\ t \in Tenants
      /\ job \in [Workers -> Requests \cup {NoRequest}]
  BY DEF IndInv, TypeOK
<1>3. job[w] = NoRequest BY <1>1 DEF IndInv, InHandOK, Busy
<1>4. ASSUME InHand(r) PROVE InHand(r)'
  <2>1. PICK v \in Workers : job[v] = r BY <1>4 DEF InHand
  <2>2. v # w BY <1>3, <2>1
  <2>3. job'[v] = r BY <1>1, <1>2, <2>1, <2>2
  <2> QED BY <2>3 DEF InHand
<1>5. ASSUME InQueue(r) PROVE InQueue(r)' \/ InHand(r)'
  <2>1. PICK i \in 1..Len(queue[TenantOf[r]]) : queue[TenantOf[r]][i] = r
    BY <1>5 DEF InQueue
  <2>2. CASE TenantOf[r] # t
    BY <1>1, <1>2, <2>1, <2>2 DEF InQueue
  <2>3. CASE TenantOf[r] = t
    <3>1. PICK s \in Seq(Requests) : s = queue[t] BY <1>2
    <3>2. s # << >> /\ i \in 1..Len(s) /\ s[i] = r BY <1>1, <2>1, <2>3, <3>1
    <3>3. /\ Head(s) = s[1] /\ Len(s) \in Nat /\ Len(Tail(s)) = Len(s) - 1
          /\ \A k \in 1..Len(Tail(s)) : Tail(s)[k] = s[k + 1]
      BY <3>1, <3>2, HeadTail
    <3>4. CASE i = 1
      <4>1. job'[w] = r BY <1>1, <1>2, <3>1, <3>2, <3>3, <3>4
      <4> QED BY <4>1 DEF InHand
    <3>5. CASE i # 1
      <4>1. i - 1 \in 1..Len(Tail(s)) /\ Tail(s)[i - 1] = r
        BY <3>2, <3>3, <3>5
      <4>2. queue'[TenantOf[r]] = Tail(s) BY <1>1, <1>2, <2>3, <3>1
      <4> QED BY <4>1, <4>2 DEF InQueue
    <3> QED BY <3>4, <3>5
  <2> QED BY <2>2, <2>3
<1> QED BY <1>1, <1>4, <1>5 DEF LeavesFresh, Owned

\* A busy worker keeps its request in hand, or settles its row before it lets
\* go, or the storage call that should have settled it has raised.
LEMMA BusyLeavesFresh ==
    ASSUME IndInv, TypeOK', NEW w \in Workers, WorkerStep(w), ~GetJob(w),
           NEW r \in Requests
    PROVE  LeavesFresh(r)
<1> USE DEF workerFrame, table, budget
<1> DEFINE own == job[w]
<1>1. /\ UNCHANGED <<boot, cutoff, hpc, queue, enteredTs>> /\ faulty \subseteq faulty'
      /\ wpc[w] \in Busy
  BY DEF WorkerStep, MarkProcessing, MarkProcessingRaises, SendRelay, ClientFails,
     RelayAnswers, RelayFails, MarkCompleted, MarkCompletedRaises, DeliverPart,
     DeliverAll, DeliverRaises, MarkFailed, MarkFailedRaises, TellError,
     RecordFailure, StorageRaises, Busy
<1>2. TypeOK /\ InHandOK /\ WorkedRow(w) BY DEF IndInv, WorkedRowOK
<1>3. own \in Requests BY <1>1, <1>2 DEF TypeOK, InHandOK
<1>4. InQueue(r)' <=> InQueue(r) BY <1>1 DEF InQueue
<1>5. job' = job \/ Leave(w, "get") \/ Leave(w, "done")
  BY DEF WorkerStep, MarkProcessing, MarkProcessingRaises, SendRelay, ClientFails,
     RelayAnswers, RelayFails, MarkCompleted, MarkCompletedRaises, DeliverPart,
     DeliverAll, DeliverRaises, MarkFailed, MarkFailedRaises, TellError
<1>6. CASE r # own
  <2>1. status'[r] = status[r]
    BY <1>2, <1>3, <1>6 DEF WorkerStep, MarkProcessing, MarkProcessingRaises,
       SendRelay, ClientFails, RelayAnswers, RelayFails, MarkCompleted,
       MarkCompletedRaises, DeliverPart, DeliverAll, DeliverRaises, MarkFailed,
       MarkFailedRaises, TellError, RecordFailure, SetStatus, TypeOK
  <2>2. InHand(r) => InHand(r)'
    BY <1>2, <1>5, <1>6 DEF InHand, Leave, TypeOK
  <2> QED BY <1>1, <1>4, <2>1, <2>2 DEF LeavesFresh, Owned
<1>7. CASE r = own /\ job' = job
  <2>1. InHand(r)' BY <1>7 DEF InHand
  <2> QED BY <1>1, <2>1 DEF LeavesFresh, Owned
<1>8. CASE r = own /\ (Leave(w, "get") \/ Leave(w, "done"))
  <2>1. job'[w] = NoRequest BY <1>2, <1>8 DEF Leave, TypeOK
  <2>2. job' # job BY <1>3, <2>1
  <2>3. DeliverAll(w) \/ MarkFailedRaises(w) \/ TellError(w)
    BY <2>2 DEF WorkerStep, MarkProcessing, MarkProcessingRaises, SendRelay,
       ClientFails, RelayAnswers, RelayFails, MarkCompleted,
       MarkCompletedRaises, DeliverPart, DeliverRaises, MarkFailed
  <2>4. CASE DeliverAll(w) \/ TellError(w)
    <3>1. status'[r] \notin Active
      BY <1>2, <1>8, <2>4 DEF DeliverAll, TellError, WorkedRow, RowIn, Active
    <3> QED BY <1>1, <3>1 DEF LeavesFresh
  <2>5. CASE MarkFailedRaises(w)
    <3>1. r \in faulty' BY <1>8, <2>5 DEF MarkFailedRaises, StorageRaises
    <3> QED BY <1>1, <3>1 DEF LeavesFresh
  <2> QED BY <2>3, <2>4, <2>5
<1> QED BY <1>5, <1>6, <1>7, <1>8

\* An active row that nobody owns, and for which no storage call has raised, is
\* no older than the threshold of the last recovery, however many crashes and
\* recoveries there were (fail_stale_active_requests, start_runtime).
THEOREM OrphansAreFresh == Spec => []OrphanIsFresh
<1> DEFINE AllFresh == \A r \in Requests : Fresh(r)
<1>1. Init => AllFresh BY DEF Init, Fresh
<1>2. IndInv /\ IndInv' /\ AllFresh /\ [Next]_vars => AllFresh'
  <2> SUFFICES ASSUME IndInv, IndInv', AllFresh, [Next]_vars, NEW r \in Requests
               PROVE  Fresh(r)'
    OBVIOUS
  <2>1. TypeOK /\ TypeOK' BY DEF IndInv
  <2>2. CASE FailStale BY <2>1, <2>2, RecoveryMakesFresh
  <2>3. CASE Crash BY <2>3 DEF Crash, Fresh
  <2>4. CASE LeavesFresh(r) BY <2>4, FreshStays
  <2>5. FailStale \/ Crash \/ LeavesFresh(r)
    <3>1. CASE Start \/ BootCleanup \/ BootRaises \/ Tick \/ CleanupLoop
               \/ UNCHANGED vars
      BY <2>1, <3>1, TableLeavesFresh
    <3>2. ASSUME NEW q \in Requests, Accept(q) \/ HandlerStep(q)
          PROVE  LeavesFresh(r)
      BY <2>1, <3>2, HandlerLeavesFresh
    <3>3. ASSUME NEW w \in Workers, WorkerStep(w) PROVE LeavesFresh(r)
      BY <2>1, <3>3, GetLeavesFresh, BusyLeavesFresh
    <3> QED BY <3>1, <3>2, <3>3 DEF Next
  <2> QED BY <2>2, <2>3, <2>4, <2>5
<1>3. AllFresh => OrphanIsFresh BY DEF Fresh, OrphanIsFresh
<1>4. [](IndInv) /\ Init /\ [][Next]_vars => []AllFresh BY <1>1, <1>2, PTL
<1> QED BY <1>3, <1>4, Invariance, PTL DEF Spec

-----------------------------------------------------------------------------
(* The pipeline implements RequestLifecycle.                               *)

\* A row that is still active belongs to a request nobody was answered for.
LEMMA ActiveIsUndecided ==
    ASSUME IndInv, NEW r \in Requests, status[r] \in Active
    PROVE  Lifecycle!Undecided(r)
<1>1. told[r] \in Replies /\ ReplyMatches(r)
  BY DEF IndInv, TypeOK, ReplyMatchesRow
<1> QED
  BY <1>1 DEF ReplyMatches, Lifecycle!Undecided, Active, Replies, Reasons

\* The row writes of a worker step, as steps of the lifecycle.
LEMMA RowWrites ==
    ASSUME IndInv, NEW w \in Workers, wpc[w] \in Busy, UNCHANGED told
    PROVE  /\ wpc[w] = "mark" /\ SetStatus(job[w], "processing")
                => [Lifecycle!Next]_(Lifecycle!vars)
           /\ wpc[w] = "complete" /\ SetStatus(job[w], "completed")
                => [Lifecycle!Next]_(Lifecycle!vars)
           /\ wpc[w] = "fail" /\ SetStatus(job[w], "failed")
                => [Lifecycle!Next]_(Lifecycle!vars)
           /\ UNCHANGED status => [Lifecycle!Next]_(Lifecycle!vars)
<1>1. PICK own \in Requests : own = job[w] BY DEF IndInv, TypeOK, InHandOK
<1>2. /\ WorkedRow(w) /\ status \in [Requests -> Statuses]
      /\ told[own] \in {"nothing", "partial"}
  BY <1>1 DEF IndInv, TypeOK, WorkedRowOK, WorkedRow
<1>3. UNCHANGED status => UNCHANGED Lifecycle!vars BY DEF Lifecycle!vars
<1>4. ASSUME wpc[w] = "mark", SetStatus(own, "processing")
      PROVE  Lifecycle!Begin(own) \/ UNCHANGED status
  BY <1>1, <1>2, <1>4 DEF WorkedRow, RowIn, SetStatus, Exists,
     Lifecycle!Begin, Lifecycle!Move
<1>5. ASSUME wpc[w] = "complete", SetStatus(own, "completed")
      PROVE  Lifecycle!Complete(own) \/ UNCHANGED status
  BY <1>1, <1>2, <1>5 DEF WorkedRow, RowIn, SetStatus, Exists,
     Lifecycle!Complete, Lifecycle!Move
<1>6. ASSUME wpc[w] = "fail", SetStatus(own, "failed")
      PROVE  Lifecycle!Fail({own}) \/ UNCHANGED status
  <2>1. CASE Exists(own)
    <3>1. status' = [r \in Requests |->
                        IF r \in {own} THEN "failed" ELSE status[r]]
      BY <1>2, <1>6, <2>1 DEF SetStatus
    <3>2. status[own] \in Active \cup {"completed"}
      BY <1>1, <1>2, <1>6, <2>1 DEF WorkedRow, RowIn, Exists
    <3> QED
      BY <1>2, <3>1, <3>2 DEF Lifecycle!Fail, Lifecycle!Undecided,
         Lifecycle!Active, Active
  <2> QED BY <1>6, <2>1 DEF SetStatus
<1> QED BY <1>1, <1>3, <1>4, <1>5, <1>6 DEF Lifecycle!Next

\* Every step is one of the lifecycle or leaves row and reply alone.
LEMMA StepRefines ==
    ASSUME IndInv, [Next]_vars
    PROVE  [Lifecycle!Next]_(Lifecycle!vars)
<1> DEFINE Refined == [Lifecycle!Next]_(Lifecycle!vars)
<1> USE DEF table, memory, outside, handlerFrame, workerFrame
<1>1. ASSUME UNCHANGED <<status, told>> PROVE Refined
  BY <1>1 DEF Lifecycle!vars
<1>2. CASE Start \/ BootRaises \/ Crash \/ Tick \/ UNCHANGED vars
  BY <1>1, <1>2 DEF Start, BootRaises, Crash, Tick, vars
<1>3. CASE FailStale
  <2> DEFINE S == {r \in Requests : Stale(r)}
  <2>1. \A r \in S : status[r] \in Active /\ Lifecycle!Undecided(r)
    BY ActiveIsUndecided DEF Stale
  <2>2. status' = [r \in Requests |-> IF r \in S THEN "failed" ELSE status[r]]
    BY <1>3 DEF FailStale
  <2>3. UNCHANGED told BY <1>3 DEF FailStale
  <2>4. Lifecycle!Fail(S)
    BY <2>1, <2>2, <2>3 DEF Lifecycle!Fail, Lifecycle!Active, Active
  <2> QED BY <2>4 DEF Lifecycle!Next
<1>4. CASE BootCleanup \/ CleanupLoop
  <2> DEFINE S == {r \in Requests : Expired(r)}
  <2>1. CleanupExpired /\ UNCHANGED told
    BY <1>4 DEF BootCleanup, CleanupLoop
  <2>2. status' = [r \in Requests |-> IF r \in S THEN "purged" ELSE status[r]]
    BY <2>1 DEF CleanupExpired
  <2>3. Lifecycle!Purge(S)
    BY <2>1, <2>2 DEF Lifecycle!Purge, Expired, Exists
  <2> QED BY <2>3 DEF Lifecycle!Next
<1>5. ASSUME NEW r \in Requests, Accept(r) \/ HandlerStep(r) PROVE Refined
  <2>1. CASE Accept(r) \/ Enqueue(r) BY <1>1, <2>1 DEF Accept, Enqueue
  <2>2. CASE CreateRequest(r) \/ CreateRequestRaises(r)
    <3>1. hpc[r] = "create" /\ UNCHANGED told
      BY <2>2 DEF CreateRequest, CreateRequestRaises
    <3>2. status[r] = "absent" BY <3>1 DEF IndInv, WaitingRowOK
    <3>3. InsertRow(r) \/ UNCHANGED status
      BY <2>2 DEF CreateRequest, CreateRequestRaises
    <3>4. CASE InsertRow(r)
      <4>1. Lifecycle!Admit(r)
        BY <3>1, <3>2, <3>4 DEF InsertRow, Lifecycle!Admit, Lifecycle!Move
      <4> QED BY <4>1 DEF Lifecycle!Next
    <3> QED BY <1>1, <3>1, <3>3, <3>4
  <2> QED BY <1>5, <2>1, <2>2 DEF HandlerStep
<1>6. ASSUME NEW w \in Workers, WorkerStep(w) PROVE Refined
  <2>1. CASE GetJob(w) \/ SendRelay(w) \/ ClientFails(w) \/ RelayAnswers(w)
             \/ RelayFails(w) \/ DeliverRaises(w)
    BY <1>1, <2>1 DEF GetJob, SendRelay, ClientFails, RelayAnswers, RelayFails,
       DeliverRaises
  <2>2. CASE MarkProcessing(w) \/ MarkProcessingRaises(w)
    <3>1. /\ wpc[w] = "mark" /\ wpc[w] \in Busy /\ UNCHANGED told
          /\ SetStatus(job[w], "processing") \/ UNCHANGED status
      BY <2>2 DEF MarkProcessing, MarkProcessingRaises, Busy
    <3> QED BY <3>1, RowWrites
  <2>3. CASE MarkCompleted(w) \/ MarkCompletedRaises(w)
    <3>1. /\ wpc[w] = "complete" /\ wpc[w] \in Busy /\ UNCHANGED told
          /\ SetStatus(job[w], "completed") \/ UNCHANGED status
      BY <2>3 DEF MarkCompleted, MarkCompletedRaises, Busy
    <3> QED BY <3>1, RowWrites
  <2>4. CASE MarkFailed(w) \/ MarkFailedRaises(w)
    <3>1. /\ wpc[w] = "fail" /\ wpc[w] \in Busy /\ UNCHANGED told
          /\ SetStatus(job[w], "failed") \/ UNCHANGED status
      BY <2>4 DEF MarkFailed, MarkFailedRaises, RecordFailure, Busy
    <3> QED BY <3>1, RowWrites
  <2>5. CASE DeliverPart(w) \/ DeliverAll(w) \/ TellError(w)
    <3>1. wpc[w] \in {"deliver", "tell"} /\ UNCHANGED status
      BY <2>5 DEF DeliverPart, DeliverAll, TellError
    <3>2. PICK own \in Requests : own = job[w]
      BY <3>1 DEF IndInv, TypeOK, InHandOK, Busy
    <3>3. WorkedRow(w) /\ (wpc[w] = "tell" => reason[w] \in Reasons)
      BY DEF IndInv, WorkedRowOK, InHandOK
    <3>4. PICK reply \in Replies \ {"nothing"} :
            /\ told' = [told EXCEPT ![own] = reply]
            /\ status[own] \in {"purged",
                    IF reply \in Reasons THEN "failed" ELSE "completed"}
      <4>1. CASE DeliverPart(w)
        <5>1. /\ told' = [told EXCEPT ![own] = "partial"]
              /\ status[own] \in {"purged", "completed"}
          BY <3>2, <3>3, <4>1 DEF DeliverPart, WorkedRow, RowIn
        <5>2. "partial" \in Replies \ ({"nothing"} \cup Reasons)
          BY DEF Replies, Reasons
        <5> QED BY <5>1, <5>2
      <4>2. CASE DeliverAll(w)
        <5>1. /\ told' = [told EXCEPT ![own] = "answer"]
              /\ status[own] \in {"purged", "completed"}
          BY <3>2, <3>3, <4>2 DEF DeliverAll, WorkedRow, RowIn
        <5>2. "answer" \in Replies \ ({"nothing"} \cup Reasons)
          BY DEF Replies, Reasons
        <5> QED BY <5>1, <5>2
      <4>3. CASE TellError(w)
        <5>1. /\ told' = [told EXCEPT ![own] = reason[w]]
              /\ status[own] \in {"purged", "failed"}
          BY <3>2, <3>3, <4>3 DEF TellError, WorkedRow, RowIn
        <5>2. reason[w] \in Reasons /\ reason[w] \in Replies \ {"nothing"}
          BY <3>3, <4>3 DEF TellError, Replies, Reasons
        <5> QED BY <5>1, <5>2
      <4> QED BY <2>5, <4>1, <4>2, <4>3
    <3>5. told[own] \in {"nothing", "partial"}
      BY <3>1, <3>2, <3>3 DEF WorkedRow, Busy
    <3>6. Lifecycle!Tell(own, reply)
      BY <3>1, <3>4, <3>5 DEF Lifecycle!Tell, Lifecycle!Undecided,
         Lifecycle!Reasons, Reasons
    <3> QED
      BY <3>6 DEF Lifecycle!Next, Lifecycle!Replies, Lifecycle!Reasons, Replies,
         Reasons
  <2> QED BY <1>6, <2>1, <2>2, <2>3, <2>4, <2>5 DEF WorkerStep
<1> QED BY <1>2, <1>3, <1>4, <1>5, <1>6 DEF Next

\* The pipeline, with its queues, workers, faults and crashes, does to a
\* request's row and chat only what RequestLifecycle promises.
THEOREM Refinement == Spec => ImplementsLifecycle
<1>1. Init => Lifecycle!Init BY DEF Init, Lifecycle!Init
<1>2. IndInv /\ [Next]_vars => [Lifecycle!Next]_(Lifecycle!vars)
  BY StepRefines
<1> QED
  BY <1>1, <1>2, Invariance, PTL DEF Spec, ImplementsLifecycle, Lifecycle!Spec
=============================================================================
