---------------------------- MODULE StatusMessage ----------------------------
(***************************************************************************)
(* The chat side of a request: the one status message that the bot sends   *)
(* as acknowledgement, edits while the user waits, and deletes before the  *)
(* reply.  Three tasks write to it without any lock: the message handler   *)
(* (acknowledgement, "queue is busy"), the ping task of the job ("still    *)
(* processing"), and the tenant's worker (delete, reply).                  *)
(*                                                                         *)
(* Python source: src/rivas/app.py, _queue_with_status, _send_ack,         *)
(* _status_ping, _stop_status_ping, _set_status_message,                   *)
(* _dismiss_status_message and their use in _tenant_worker_loop.  One      *)
(* tenant, one chat; what happens to rows and relays is RequestPipeline.   *)
(***************************************************************************)
EXTENDS Naturals, Sequences, FiniteSets

CONSTANTS
    Jobs,
    NoJob,
    MaxFaults   \* bound on Bale calls that fail and on deaths of the worker

ASSUME JobAssumption == NoJob \notin Jobs /\ MaxFaults \in Nat

VARIABLES
    hpc,        \* [Jobs -> HandlerPCs]: the handler of the message
    hasId,      \* [Jobs -> BOOLEAN]: job.status_message_id is not None
    queue,      \* the tenant's queue
    wpc,        \* where the worker is
    working,    \* the job in its hand
    ping,       \* [Jobs -> PingPCs]: the _status_ping task of the job
    stoppedAt,  \* [Jobs -> PingPCs]: where the ping was when it was cancelled
    late,       \* [Jobs -> LateCalls]: a Bale call whose caller was cancelled
    shown,      \* [Jobs -> Displays]: the status message, as the chat shows it
    extra,      \* [Jobs -> Seq(Texts)]: further messages, in order
    faults,
    failures    \* [Jobs -> Nat]: attempts of Bale calls that failed for the job,
                \* failed writes of its row and deaths of its worker

vars == <<hpc, hasId, queue, wpc, working, ping, stoppedAt, late, shown, extra,
          faults, failures>>

HandlerPCs == {"idle", "put", "notice", "resend", "done"}
WorkerPCs  == {"get", "work", "stop", "dismiss", "reply", "again", "apology", "dead"}
Calling    == {"edit", "send"}
Running    == {"sleep", "quiet"} \cup Calling
PingPCs    == {"off", "over"} \cup Running
LateCalls  == {"none"} \cup Calling
Visible    == {"ack", "wait", "busy"}
Displays   == {"none", "gone"} \cup Visible
Texts      == {"ack", "wait", "busy", "reply"}

TypeOK ==
    /\ hpc \in [Jobs -> HandlerPCs]
    /\ hasId \in [Jobs -> BOOLEAN]
    /\ queue \in Seq(Jobs)
    /\ wpc \in WorkerPCs
    /\ working \in Jobs \cup {NoJob}
    /\ ping \in [Jobs -> PingPCs]
    /\ stoppedAt \in [Jobs -> PingPCs]
    /\ late \in [Jobs -> LateCalls]
    /\ shown \in [Jobs -> Displays]
    /\ extra \in [Jobs -> Seq(Texts)]
    /\ faults \in Nat
    /\ failures \in [Jobs -> Nat]

Init ==
    /\ hpc = [j \in Jobs |-> "idle"]
    /\ hasId = [j \in Jobs |-> FALSE]
    /\ queue = << >>
    /\ wpc = "dead"
    /\ working = NoJob
    /\ ping = [j \in Jobs |-> "off"]
    /\ stoppedAt = [j \in Jobs |-> "off"]
    /\ late = [j \in Jobs |-> "none"]
    /\ shown = [j \in Jobs |-> "none"]
    /\ extra = [j \in Jobs |-> << >>]
    /\ faults = 0
    /\ failures = [j \in Jobs |-> 0]

-----------------------------------------------------------------------------
(* The _safe_* calls: every exception is logged and swallowed.  Below each *)
(* are two loops of attempts, and an attempt whose answer was lost has had *)
(* its effect all the same.                                                *)

Trouble(j) ==
    /\ faults < MaxFaults
    /\ faults' = faults + 1
    /\ failures' = [failures EXCEPT ![j] = @ + 1]

NoTrouble   == UNCHANGED <<faults, failures>>
Troubled(j) == failures[j] > 0

Display(j, text) == shown' = [shown EXCEPT ![j] = text]
Post(j, text)    == extra' = [extra EXCEPT ![j] = Append(@, text)]

\* _safe_send_message: the last attempt may fail too, and nobody hears of it.
Send(j, text) ==
    \/ Post(j, text) /\ NoTrouble
    \/ Trouble(j) /\ (Post(j, text) \/ UNCHANGED extra)

\* _safe_edit_message returns True.
EditSucceeds(j, text) ==
    shown[j] \in Visible /\ Display(j, text) /\ NoTrouble

\* It returns False: the message is gone, or every attempt failed, the last
\* possibly only in its answer.
EditFails(j, text) ==
    \/ shown[j] \notin Visible /\ UNCHANGED shown /\ NoTrouble
    \/ /\ shown[j] \in Visible
       /\ Trouble(j)
       /\ Display(j, text) \/ UNCHANGED shown

-----------------------------------------------------------------------------
(* The handler: _queue_with_status.                                        *)

HandlerGoto(j, pc) == hpc' = [hpc EXCEPT ![j] = pc]

\* _send_ack returns the id of the message, or None after a failure.  What a
\* failed attempt has posted is in the chat, but nobody has its id.
Ack(j) ==
    /\ hpc[j] = "idle"
    /\ HandlerGoto(j, "put")
    /\ \/ /\ NoTrouble
          /\ Display(j, "ack") /\ hasId' = [hasId EXCEPT ![j] = TRUE]
          /\ UNCHANGED extra
       \/ /\ Trouble(j)
          /\ Post(j, "ack") \/ UNCHANGED extra
          /\ UNCHANGED <<shown, hasId>>
    /\ UNCHANGED <<queue, wpc, working, ping, stoppedAt, late>>

\* _enqueue_request puts the job, sees to a live worker, and returns the depth
\* of the queue with this job; above one, the handler goes on to the notice.
Put(j) ==
    /\ hpc[j] = "put"
    /\ queue' = Append(queue, j)
    /\ wpc' = IF wpc = "dead" THEN "get" ELSE wpc
    /\ HandlerGoto(j, IF Len(queue) + 1 > 1 THEN "notice" ELSE "done")
    /\ UNCHANGED <<hasId, working, ping, stoppedAt, late, shown, extra, faults,
                   failures>>

\* create_request raises: the handler ends and nobody will take the
\* acknowledgement away.
PutRaises(j) ==
    /\ hpc[j] = "put"
    /\ Trouble(j)
    /\ HandlerGoto(j, "done")
    /\ UNCHANGED <<hasId, queue, wpc, working, ping, stoppedAt, late, shown, extra>>

noticeFrame == <<hasId, queue, wpc, working, ping, stoppedAt, late>>

\* _set_status_message(ERR_QUEUE_BUSY): an edit, and a new message if that
\* fails or if there is no message to edit.
NoticeEdit(j) ==
    /\ hpc[j] = "notice" /\ hasId[j]
    /\ \/ EditSucceeds(j, "busy") /\ HandlerGoto(j, "done")
       \/ EditFails(j, "busy") /\ HandlerGoto(j, "resend")
    /\ UNCHANGED extra
    /\ UNCHANGED noticeFrame

NoticeSend(j) ==
    /\ hpc[j] = "resend" \/ (hpc[j] = "notice" /\ ~hasId[j])
    /\ Send(j, "busy")
    /\ HandlerGoto(j, "done")
    /\ UNCHANGED shown
    /\ UNCHANGED noticeFrame

HandlerStep(j) == Put(j) \/ PutRaises(j) \/ NoticeEdit(j) \/ NoticeSend(j)

-----------------------------------------------------------------------------
(* The ping task of a job: _status_ping.                                   *)

PingGoto(j, pc) == ping' = [ping EXCEPT ![j] = pc]

pingFrame == <<hpc, hasId, queue, wpc, working, stoppedAt, late>>

\* status_ping_seconds have passed: _set_status_message(WAIT_TEXT).
PingTimeout(j) ==
    /\ ping[j] = "sleep"
    /\ PingGoto(j, IF hasId[j] THEN "edit" ELSE "send")
    /\ UNCHANGED <<shown, extra, faults, failures>>
    /\ UNCHANGED pingFrame

PingEdit(j) ==
    /\ ping[j] = "edit"
    /\ \/ EditSucceeds(j, "wait") /\ PingGoto(j, "quiet")
       \/ EditFails(j, "wait") /\ PingGoto(j, "send")
    /\ UNCHANGED extra
    /\ UNCHANGED pingFrame

\* Mutant of PingSend: wait_published is not set.
Bug_PingSendAgain(j) ==
    /\ ping[j] = "send"
    /\ Len(extra[j]) < 3
    /\ Send(j, "wait")
    /\ PingGoto(j, "sleep")
    /\ UNCHANGED shown
    /\ UNCHANGED pingFrame

\* wait_published: from now on the task only waits to be stopped.
PingSend(j) ==
    /\ ping[j] = "send"
    /\ Send(j, "wait")
    /\ PingGoto(j, "quiet")
    /\ UNCHANGED shown
    /\ UNCHANGED pingFrame

PingStep(j) == PingTimeout(j) \/ PingEdit(j) \/ PingSend(j)

\* A call that had left when its task was cancelled still reaches Bale, or not.
LateCall(j) ==
    /\ late[j] # "none"
    /\ late' = [late EXCEPT ![j] = "none"]
    /\ \/ /\ late[j] = "edit" /\ shown[j] \in Visible
          /\ Display(j, "wait") /\ UNCHANGED extra
       \/ late[j] = "send" /\ Post(j, "wait") /\ UNCHANGED shown
       \/ UNCHANGED <<shown, extra>>
    /\ UNCHANGED <<hpc, hasId, queue, wpc, working, ping, stoppedAt, faults,
                   failures>>

-----------------------------------------------------------------------------
(* The worker: the chat part of _tenant_worker_loop.                       *)

\* Mutant of CancelPing: a task that sleeps counts as one that calls.
Bug_CancelPingAnywhere(j) ==
    /\ PingGoto(j, "over")
    /\ stoppedAt' = [stoppedAt EXCEPT ![j] = ping[j]]
    /\ late' = [late EXCEPT ![j] = ping[j]]

\* stop_event.set(), cancel(), await: the task of job j is over afterwards.
CancelPing(j) ==
    /\ PingGoto(j, "over")
    /\ stoppedAt' = [stoppedAt EXCEPT ![j] = ping[j]]
    /\ late' = IF ping[j] \in Calling THEN [late EXCEPT ![j] = ping[j]] ELSE late

workerFrame == <<hpc, hasId, stoppedAt, late>>

Get ==
    /\ wpc = "get"
    /\ queue # << >>
    /\ working' = Head(queue)
    /\ queue' = Tail(queue)
    /\ wpc' = "work"
    /\ PingGoto(Head(queue), "sleep")
    /\ UNCHANGED <<shown, extra, faults, failures>>
    /\ UNCHANGED workerFrame

\* Relay and row are done, whichever branch of the try-statement it is.
WorkDone ==
    /\ wpc = "work"
    /\ wpc' = "stop"
    /\ UNCHANGED <<queue, working, ping, shown, extra, faults, failures>>
    /\ UNCHANGED workerFrame

\* Mutant of WorkerDies: no finally-block.
Bug_WorkerDiesAtOnce ==
    /\ wpc = "work"
    /\ Trouble(working)
    /\ wpc' = "dead"
    /\ working' = NoJob
    /\ UNCHANGED <<hpc, hasId, queue, ping, stoppedAt, late, shown, extra>>

\* mark_failed raises: the finally-block cancels the ping, if it still runs,
\* and the task ends.
WorkerDies ==
    /\ \/ wpc = "work" /\ CancelPing(working)
       \/ wpc = "again" /\ UNCHANGED <<ping, stoppedAt, late>>
    /\ Trouble(working)
    /\ wpc' = "dead"
    /\ working' = NoJob
    /\ UNCHANGED <<hpc, hasId, queue, shown, extra>>

\* Mutant of StopPing: the ping is left to end by itself.
Bug_StopPingNot ==
    /\ wpc = "stop"
    /\ wpc' = "dismiss"
    /\ UNCHANGED <<queue, working, ping, shown, extra, faults, failures>>
    /\ UNCHANGED workerFrame

StopPing ==
    /\ wpc = "stop"
    /\ CancelPing(working)
    /\ wpc' = "dismiss"
    /\ UNCHANGED <<hpc, hasId, queue, working, shown, extra, faults, failures>>

\* Mutant of DismissFrom: only an acknowledgement never edited is deleted.
Bug_DismissAckOnly(pc, next) ==
    /\ wpc = pc
    /\ wpc' = next
    /\ IF shown[working] = "ack" THEN Display(working, "gone") ELSE UNCHANGED shown
    /\ UNCHANGED <<queue, working, ping, extra, faults, failures>>
    /\ UNCHANGED workerFrame

\* _dismiss_status_message: nothing without an id; a failed delete is ignored.
DismissFrom(pc, next) ==
    /\ wpc = pc
    /\ wpc' = next
    /\ \/ ~hasId[working] /\ UNCHANGED shown /\ NoTrouble
       \/ hasId[working] /\ Display(working, "gone") /\ NoTrouble
       \/ /\ hasId[working] /\ Trouble(working)
          /\ Display(working, "gone") \/ UNCHANGED shown
    /\ UNCHANGED <<queue, working, ping, extra>>
    /\ UNCHANGED workerFrame

\* _send_response or the error message of the branch, then the next job.
SendReplyFrom(pc) ==
    /\ wpc = pc
    /\ Send(working, "reply")
    /\ wpc' = "get"
    /\ working' = NoJob
    /\ UNCHANGED <<queue, ping, shown>>
    /\ UNCHANGED workerFrame

Dismiss == DismissFrom("dismiss", "reply")
Reply   == SendReplyFrom("reply")

\* A media part raises inside _send_response, the text chunks may be out: the
\* except-branch dismisses once more and sends its error message.
DeliverRaises ==
    /\ wpc = "reply"
    /\ wpc' = "again"
    /\ Post(working, "reply") \/ UNCHANGED extra
    /\ UNCHANGED <<queue, working, ping, shown, faults, failures>>
    /\ UNCHANGED workerFrame

DismissAgain == DismissFrom("again", "apology")
Apologise    == SendReplyFrom("apology")

WorkerStep ==
    \/ Get \/ WorkDone \/ WorkerDies
    \/ StopPing \/ Dismiss \/ Reply
    \/ DeliverRaises \/ DismissAgain \/ Apologise

-----------------------------------------------------------------------------
(* The loops of attempts: _call_bale_with_retry and patched_request.       *)

\* Who is inside a call, and with which text.
Sending(j, text) ==
    \/ text = "ack" /\ hpc[j] = "idle"
    \/ text = "busy" /\ (hpc[j] = "resend" \/ (hpc[j] = "notice" /\ ~hasId[j]))
    \/ text = "wait" /\ ping[j] = "send"
    \/ text = "reply" /\ working = j /\ wpc \in {"reply", "apology"}

Editing(j, text) ==
    \/ text = "busy" /\ hpc[j] = "notice" /\ hasId[j]
    \/ text = "wait" /\ ping[j] = "edit"

Deleting(j) == working = j /\ wpc \in {"dismiss", "again"} /\ hasId[j]

\* An attempt fails, possibly only in its answer, and the caller stays inside
\* the loop, for another attempt.
FailedAttempt(j) ==
    /\ Trouble(j)
    /\ \/ \E text \in Texts : Sending(j, text) /\ Post(j, text) /\ UNCHANGED shown
       \/ /\ shown[j] \in Visible
          /\ \/ \E text \in Visible : Editing(j, text) /\ Display(j, text)
             \/ Deleting(j) /\ Display(j, "gone")
          /\ UNCHANGED extra
       \/ /\ (\E text \in Texts : Sending(j, text) \/ Editing(j, text)) \/ Deleting(j)
          /\ UNCHANGED <<shown, extra>>
    /\ UNCHANGED <<hpc, hasId, queue, wpc, working, ping, stoppedAt, late>>

-----------------------------------------------------------------------------

Next ==
    \/ \E j \in Jobs :
        Ack(j) \/ HandlerStep(j) \/ PingStep(j) \/ LateCall(j) \/ FailedAttempt(j)
    \/ WorkerStep

Spec == Init /\ [][Next]_vars

\* The event loop runs ready tasks and every Bale call returns after at most
\* its four attempts.  No fairness for the ping: it may always be too slow.
Fairness == WF_vars(WorkerStep) /\ \A j \in Jobs : WF_vars(HandlerStep(j))

FairSpec == Spec /\ Fairness

-----------------------------------------------------------------------------
(* Properties                                                              *)

Position(j, text) == {i \in 1..Len(extra[j]) : extra[j][i] = text}

AfterReply(j, text) ==
    \E i \in Position(j, "reply"), k \in Position(j, text) : i < k

\* A ping task runs only for the job in the worker's hand and never outlives
\* it: not past _stop_status_ping, not past the death of the worker.
PingOnlyWhileWorking ==
    \A j \in Jobs :
        ping[j] \in Running => working = j /\ wpc \in {"work", "stop"}

\* After the reply the status message of the job is gone from the chat,
\* whoever edited it last, unless a Bale call failed for this very job.
NoStatusAfterReply ==
    \A j \in Jobs :
        Position(j, "reply") # {} /\ ~Troubled(j) =>
            shown[j] \notin Visible

\* "Still processing" does not follow the reply.  The one exception is a
\* fallback message that was on its way when the ping was cancelled, and that
\* takes a failed Bale call, or the status message never had an id.
NoWaitAfterReply ==
    \A j \in Jobs :
        AfterReply(j, "wait") => stoppedAt[j] = "send" /\ Troubled(j)

\* A user is told in a new message that the request takes time only where a
\* call failed for the job, and not more often than calls failed: a failed edit
\* or acknowledgement is what makes the ping send at all, and each further copy
\* is one attempt whose answer was lost.
WaitTextsExplained ==
    \A j \in Jobs : Cardinality(Position(j, "wait")) <= failures[j]

\* ERR_QUEUE_BUSY says that requests are waiting now and asks for patience: it
\* is not sent for a request that has had its reply.
NoBusyAfterReply == \A j \in Jobs : ~AfterReply(j, "busy")

\* Once the Bale API works, the status message of every waiting job goes away.
StatusGoesAway ==
    \A j \in Jobs :
        (/\ faults = MaxFaults /\ wpc # "dead"
         /\ hasId[j] /\ \E i \in 1..Len(queue) : queue[i] = j)
            ~> shown[j] = "gone"
=============================================================================
