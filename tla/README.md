# TLA+ models and proofs for Rivas AI

Rivas AI is a chat bot for the Bale messenger that forwards the messages of each
user to a Telegram relay service of the user's own (a *tenant*). One bot process
(`src/src/rivas/app.py`) handles chats, queues requests and talks to the tenant
services; command-line tools create tenants, containers and bindings; all of them
share one SQL database (`src/src/rivas/storage.py`). In this text a path such as
`app.py:545` means `src/src/rivas/app.py`, line 545.

## 1. Inventory

| component | state | operations | interacts with |
|---|---|---|---|
| Request pipeline | `requests` rows, `_tenant_queues`, `_tenant_workers`, the place of every handler and worker | `_queue_with_status`, `_enqueue_request`, `_ensure_tenant_worker`, `_tenant_worker_loop`, `start_runtime`, `_cleanup_loop` | storage, tenant service, chat |
| Chat status message | the message id a job carries, what the chat shows | `_send_ack`, `_status_ping`, `_stop_status_ping`, `_set_status_message`, `_dismiss_status_message`, `_send_response` | worker, handler, Bale API |
| Control plane | `tenants`, `tenant_credentials`, `tenant_runtime`, `bale_bindings`, the docker containers | `tenant-add`, `registration_admin`, `load_users`, `tenant-enable`, `tenant-disable`, `runtime_reconcile`, `_probe_all_tenants_health`, `resolve_tenant_binding` | database, docker, tenant service, routing in `_handle_message` |
| Registration | `registration_requests`, `bale_bindings` of the chat, activation notices | `_handle_start`, `_handle_registration_flow`, `_mark_registration_provisioned`, `_set_registration_provisioned`, `_mark_registration_as_provisioned`, `_notify_user_activation`, `send_text_message` | handlers, operator tools, Bale notifier |
| Inbound de-duplication | `_recent_inbound` (8000 keys) | `_is_duplicate_inbound` | Bale update polling, registration |
| Bale call retries | attempt counters | `_call_bale_with_retry`, `patched_request`, the `_safe_*` calls | Bale API, delivery of an answer |
| Text and phone helpers | none | `split_text`, `_normalize_phone` | delivery, registration |
| Process supervision | backoff | `main` | RivasApp |
| Log channel, health endpoint, secrets, configuration, menus, relay service, scripts | see section 11 | | |

### How the parts interact

A Bale update becomes a call of `on_message`, which drops it when its key was seen lately
(de-duplication). The handler asks the database which tenant the chat is bound to and
whether that tenant may be served (control plane); a chat without a binding gets the questions of the
registration, whose row the operator's tools turn into a binding and a notice. Otherwise the handler
writes a row, puts a `QueueJob` into the queue of the tenant and makes sure that a
worker task exists (pipeline). The worker relays the job to the tenant's container,
writes the outcome into the row and replies, chunk by chunk, by calls that are retried (delivery).
Meanwhile handler, worker and a ping
task share one status message in the chat. The operator's tools are processes of
their own: they change tenants, bindings and containers under the running bot,
statement by statement, without a transaction, and the bot's health probe writes the
same runtime rows.

### What is hard, and which properties that calls for

- *Interleaving in one event loop.* Every `await` is a point where another handler,
  worker or ping may run. Pipeline: one live worker per tenant, FIFO, no lost or
  repeated job. Chat: nothing of the status message after the reply.
- *Storage calls that raise, with an unknown outcome.* Row and reply must still agree;
  a worker may die of it, and the jobs behind it must not be lost.
- *Crash and restart.* Queues live in memory only; recovery at boot goes by the age of
  rows. It must miss no old row and touch none that is in work.
- *Tools without transactions, beside each other and beside the bot.* A tool may end at
  any statement, and another may be half way. A chat must never reach the session of
  somebody else, and a complete `load_users` must repair what was left behind.
- *Read, change, write back.* Handlers and tools write a registration as a whole, on top
  of a row they read some time ago. A row must stay one version, and a user must not be
  forgotten because two writers met.
- *Messages delivered twice.* A key is marked as seen before its message is handled, and
  forgotten after 8000 others or a restart.
- *Calls repeated by two loops.* A Bale call that failed may have taken effect. The answer
  must stay readable: in order, complete unless a failure was logged.
- *Values read early and used late.* The endpoint in a queued job, the listing of the
  health probe, the depth of the queue, the tenants listed by `runtime_reconcile`.

PROJECT.json lists each of these hazards at the line where it bites, with the
properties that watch it.

## 2. Plan

| order | module | what | state |
|---|---|---|---|
| 1 | RequestLifecycle | abstract: one row and one reply per request | done |
| 2 | RequestPipeline | handlers, queues, workers, storage faults, crash, recovery; implements 1 | done |
| 3 | RequestPipelineProofs | type, safety and refinement of 2 for all constants | done |
| 4 | StatusMessage | the chat side of 2 in detail | done |
| 5 | ControlPlane | tools, containers, probe, routing | done |
| 6 | Registration, Phone | the window of inbound messages, the registration and its two sides, the notice; phone numbers | done |
| 7 | OrderedDelivery | abstract: what the reader of a chat is promised | done |
| 8 | SplitText, Delivery | an answer cut into chunks and sent through two retry loops; implements 7 | done |
| 9 | RegistrationProofs, StatusMessageProofs | all safety properties of 6 and of 4 | done |
| 10 | ControlPlaneProofs | `TypeOK`, `BoundIsComplete`, `ContainerIsKnown`, `RelayReachesOwnTenant` | done |
| 11 | FoldProofs | what a fold over a sequence computes, by induction; used by 9, 12 and 13 | done |
| 12 | SplitTextProofs | `Complete`: the chunks of any text can be sent and hold all its letters | done |
| 13 | DeliveryProofs | all safety properties of 8 (but `SplitIsReadable`), and that it implements 7 | done |
| 14 | ControlTenantProofs | `OneContainerPerSession` and `SyncConverges`, which follow a tool through a whole command | done |
| 15 | SplitTextProofs | `Readable`: no word torn, the lines kept | next |

RequestPipeline instantiates RequestLifecycle under the same variable names, Delivery
instantiates OrderedDelivery with a refinement mapping (section 7). StatusMessage takes the
worker of RequestPipeline down to the steps that touch the chat and repeats none of its
rows; Delivery takes its `Reply` down to the calls; ControlPlane takes a queued request down
to the address it carries; Registration is what a message goes through before it becomes a
request. They share no variable, which is why they are separate: a fault of the database
cannot change what an edit of a message does, and what passes from one to the next is a
value that does not change on the way (the address in a job, the text of an answer, a
message that was let in).

## 3. RequestPipeline and RequestLifecycle

One action is what the code does between two awaits.

| state | code |
|---|---|
| `status`, `enteredTs`, `errorCode` | columns of `requests` ("absent": no row yet, "purged": deleted by retention) |
| `hpc` | where the handler of a message is in `_queue_with_status` |
| `queue`, `current` | `_tenant_queues`, `_tenant_workers` |
| `wpc`, `job`, `reason` | where a worker task is in `_tenant_worker_loop`, its `job`, the exception of its except-branch |
| `told`, `relayed` | what the chat shows for the request, relay calls made for it |
| `boot`, `clock` | progress of `start_runtime`; time in ticks |
| `admitted`, `taken`, `faulty`, `cutoff` | history for properties; no guard reads them |

`Enqueue` is one action because `put` on an unbounded `asyncio.Queue` does not suspend.
Each storage call has a twin that raises: `CreateRequestRaises`,
`MarkProcessingRaises`, `MarkCompletedRaises`, `MarkFailedRaises`. The statement may
have taken effect or not. `MarkFailedRaises` happens inside an except-branch, so it ends
the worker task; `_ensure_tenant_worker` replaces it with the next message only.
`Crash` loses everything in memory and `FailStale`, `BootCleanup` follow at the next
start. `CleanupLoop` deletes by age alone, also rows of requests in work.

RequestLifecycle is what a request promises from outside: its row goes forward (a
completed row may still fail, but only while no whole answer is out), the reply is said
once, and it agrees with the row.

## 4. StatusMessage

One chat of one tenant, all calls to Bale through `_safe_*`, which swallow
exceptions. `shown` is the status message as the chat shows it, `extra` the
further messages in order. Below each `_safe_*` call are two loops of attempts
(`_call_bale_with_retry`, `patched_request`). `FailedAttempt` is one attempt that raises while
its caller stays inside the loops; `Send`, `Ack`, `EditFails` and `DismissFrom` have the last
attempt, which may raise too. An attempt that raised may have been carried out, only its answer was lost:
so a text may be in the chat twice, or be there although the call failed.
An acknowledgement that is repeated, or whose call failed, leaves a copy whose id nobody has
and that stays for good: `shown`, `NoStatusAfterReply` and `StatusGoesAway` speak of the message whose id
the job carries, the copies are in `extra`. `failures` counts for each job what failed for it.
`CancelPing` is `task.cancel()` with the await that follows;
a Bale call that had already left may still be carried out: `LateCall`.
`DeliverRaises` is a media part that cannot be sent after text went out: the
except-branch runs the clean-up a second time and sends an error message.

## 5. ControlPlane

A tool is a process in `Tools` with a set of tasks in `work`, one `task` in hand and a
place `at` in the `Script` of that task: a sequence of single statements and docker
commands, in the order of `_tenant_add`, `_provision_selected`, `_sync_single_user`,
`_disable_removed_tenant`, `set_tenant_status` and `runtime_reconcile._run`. Each name of
a step has an action. `StepRaises` may happen at any of them and ends the tool
(`runtime_reconcile` goes on to report and the next tenant). `box` is the session each
container runs, `boxOf` for which tenant it was last run. `UpsertTenant` has the two dialects: SQLite raises on a taken slug,
`ON DUPLICATE KEY UPDATE` of MySQL changes the row that has it. The probe lists, asks and
writes back as three actions (`ProbeList`, `ProbeGet`, `ProbeWrite`), and `Route` puts the
address into a request that `Relay` uses some time later.

*Account and session.* An account is a phone number with an api id, which is what the tools
compare (`find_conflicting_tenant_by_tg_account`, `_normalize_users`). The session string is an
input of its own, given by the operator or made by a login, and nothing ties it to the account
named beside it; so an entry has both, `cred` and `session` are the two columns, and
`CheckPhone` looks at `cred` only. One session under two accounts passes every check and
runs in two containers. `given` remembers which accounts a session was stored with, and
`OneContainerPerSession` makes its claim for a session that had one account only. Comparing accounts is
meant to protect sessions (the message at `admin.py:95` says so), and the property says how far it does.

*docker inspect.* `_inspect_container` answers "no container" for every failure of the
command. `InspectFails` is a removal that meets one: the container stays and the tool goes on,
to a normal end. `overlooked` remembers such containers until the next `load_users` that begins
alone; `SyncConverges` excepts them and nothing else. `DecryptFails` is the other failure that does
not end a tool: `runtime_reconcile` skips the tenant.

The interactive login lies in the script, between the check on the phone number and the
first write, because a second tool can run its own check meanwhile. `raced` remembers the
accounts for which that happened. `MaxJobs` bounds the requests that carry an address.

Left out: `tenant_sync_state` and `audit_events`, which are written and never read for a
decision.

## 6. Registration and Phone

One chat, several handlers of the bot that may be inside a message of it at a time, and
several tools. Each of them is an actor with a place `at`, the row it has `seen` and the
tenant it acts `for`; between two places is an await or, for a tool, a statement.

| state | code |
|---|---|
| `row` | the chat's row of `registration_requests`: status, name, phone, tenant |
| `bound` | its active row of `bale_bindings` |
| `recent` | `_recent_inbound`, `Window` is `MAX_RECENT_EVENTS` |
| `at`, `msg`, `seen`, `for` | places, messages in hand and values read earlier |
| `accepted`, `booted`, `told`, ... | history for properties; no guard reads it |

`Receive`, `ReceiveElsewhere` and `ReceiveDuplicate` let a message in or drop it, and any
message may be delivered again. The handler then reads the binding and the row (`FirstContact`, `TakeName`, `TakePhone`,
`AskAgain` are the branches of `_handle_registration_flow`, each with the write that ends
it) or, for a bound chat, marks the row (`ReadForMark`, `MarkSilently`). A tool takes the
row from the list of pending requests (`Select`) or from users.json (`SyncUser`), binds the
chat, marks the row and sends the notice. Every write goes through `Upsert`, which replaces
all columns. `NoticeSkipped` is the early return when activation notices are
switched off or the bot token is missing: `unsent` has the tenants whose notice was lost or not to be
sent, and `NobodyIsForgotten` excepts them. `HandlerFails` ends a handler whose message stays marked as seen; `ToolFails`
ends a tool and may lose a notice; `Restart` ends all handlers and empties the window.
A name or a phone number in a row is the message it was taken from: that two of them are
the same message is what `AnswersAreTwoMessages` is about.

Phone is `_normalize_phone` on sequences of characters: a fold that drops the spaces, the two
replacements in the order of the code, the expression that admits a number, and `NormalForm`:
what is accepted is accepted by `load_users` too, stays what it is when sent again, and the ways
to dial a number agree. It does not depend on the state, so that the run checks it before the
first message (`PhoneNormalForm`). The lengths are constants, so that all spellings of short
numbers can be enumerated, and so is the alphabet; digits outside ASCII and other separators are
characters like any other.

## 7. Delivery, SplitText and OrderedDelivery

SplitText is `split_text`, `_split_long_line` and `_hard_split` as folds over characters,
paragraphs and words. A text is a sequence over `Characters`, of which `Space` and `Newline`
are blanks. `Complete` says that every chunk has between 1 and `Limit` characters without
blanks at its ends, and that the letters of all chunks, in order, are the letters of the text.
`Readable` says that no word is torn that fits, and that what was on one line or on different
lines still is; it is stated for texts that have no letter twice, which TLC enumerates.

Delivery sends the chunks and then the media. A call may raise after Bale carried it out
(`CallFails` with `Shown`). Then the inner loop of the patched library tries again
(`RetryRequest`), or the outer loop of the bot (`RetryCall`), or the error is swallowed
(`GiveUp`, `Refused`) and the next part is sent, as in `_safe_send_message`. `MediaRaises` is
a medium that cannot be made into a file: the exception leaves `_send_response` (`raised`) and what
comes after is not sent. What the except-branch does then is in RequestPipeline
(`DeliverRaises`) and StatusMessage.

OrderedDelivery is what the reader of the chat may count on: the parts one after
the other, each at least once and at most so many times in a row, and missing only if a failure
was logged. Delivery implements it under the mapping

    Promise == INSTANCE OrderedDelivery WITH
        MaxCopies <- Attempts * Attempts,
        parts     <- (the number of parts, also before the text is split),
        shown     <- (the messages in the chat of the parts before next)

so that the copies which the retries of one part leave behind count when the part is
done with: `Deliver` is one step of OrderedDelivery and up to nine (sixteen in the code) of
Delivery.

## 8. Runs

| run | instance | asks |
|---|---|---|
| pipeline_queue | 3 requests of one tenant, 2 task identities, 1 fault, 1 crash, clock stands still, fairness | `OneJobPerTenant`, `FifoPerTenant`, `WaitingHasWorker`, `RelayedAtMostOnce`, `LiveWorkerDrains` |
| pipeline_recovery | 2 requests, 1 tenant, clock 0..3 with stale after 1 and retention after 2 ticks, 2 faults, 2 crashes | `TypeOK`, `ReplyMatchesRow`, `OrphanIsFresh`, `RecoverySparesOwned`, `ImplementsLifecycle` |
| status_chat | 2 jobs, 2 faults, fairness | `TypeOK`, `PingOnlyWhileWorking`, `NoStatusAfterReply`, `NoWaitAfterReply`, `WaitTextsExplained`, `StatusGoesAway` |
| status_busy | 3 jobs, no faults | violates `NoBusyAfterReply` |
| control_plane | 3 tenants that compete for 2 slugs, accounts and chats; 2 tools, 2 commands, 1 fault, 2 requests, SQLite | `TypeOK`, `BoundIsComplete`, `ContainerIsKnown`, `RelayReachesOwnTenant`, `SyncConverges` |
| control_live | 2 tenants for one chat, with one account, or with two accounts and one session; 2 tools, 3 commands, 1 fault, fairness, no users.json | `OneContainerPerSession`, `ProbeHeals` |
| control_session | 1 tool with users.json, 2 commands | violates `OneContainerPerSession` |
| control_isolation | 2 tenants given one slug, MySQL | violates `RelayReachesOwnTenant` |
| control_address | 1 tenant that changes its slug, no faults | violates `AddressIsCurrent` |
| registration | 4 messages (2 numbers, a `/start`, one of another chat), 4 deliveries, 2 handlers, 1 tool, 2 tenants, a window of 2, 2 commands, 1 fault, 1 restart; phone texts of up to 6 characters | `TypeOK`, `DedupWindow`, `AnswersAreTwoMessages`, `RowIsOneVersion`, `NobodyIsForgotten`, `PhoneNormalForm`, `BackwardsOnlyByLostUpdate` |
| registration_notice | 1 handler, 1 tool, 1 tenant, 1 command, no faults | violates `ReadyIsTold` |
| delivery | every text of up to 6 characters at a limit of 3, up to 1 medium, 3 attempts in each loop, 5 calls that fail | `TypeOK`, `HolesAreExplained`, `SplitIsComplete`, `SplitIsReadable`, `ImplementsOrderedDelivery` |

Why the bounds are enough.

- *pipeline_queue*: one job is in hand, one waits and one is still with its handler when the
  worker dies, which is every place a job can be; the second task identity is one more than
  a correct bot needs, so that a second live task could exist. That several tenants do not
  disturb each other is what the theorems say for any number of them.
- *pipeline_recovery*: two crashes give a recovery after a recovery, and three ticks let a
  row be too young at the first boot, stale at the second and past its retention at the third.
- *status_chat*: two faults let an edit fail and the send that replaces it post twice, let the
  acknowledgement fail and then the worker die, or kill the worker twice.
- *control_plane*: two tools are one more than the code is written for, one fault ends either
  at any step, and the third tenant wants the slug of the first and the account and chat of
  the second; more commands only repeat a tool after it has ended.
- *registration*: two handlers and a tool are three readers of one row, which is one more
  than a lost update needs; two messages that may each be the name or the number and a
  `/start` give every stage of the questions; four deliveries into a window of two let a
  message fall out and come back; two tenants let the chat change hands.
- *delivery*: five failures are enough to use up one loop inside the other and to go on to
  another part, but not to use up all nine attempts; six characters at a limit of three give
  texts of two limits, with every word, line and separator at, below and above the limit.
  The bot has 4 attempts and a limit of 3900.

The capped counters are commands, faults, crashes, restarts, deliveries, media, errors, requests
with an address and the clock (`MaxCommands`, `MaxFaults`, `MaxCrashes`, `MaxRestarts`,
`MaxDeliveries`, `MaxMedia`, `MaxErrors`, `MaxJobs`, `MaxClock`). `CHECK_DEADLOCK FALSE` is
set everywhere but in delivery: with every message answered, the budgets spent and nobody
writing, the system rests. Delivery has an end, `Done`, and must not stop before it.

SYMMETRY is used only in runs without liveness properties. A mutant is recorded for
every property of every passing run: an operator named `Bug_...` beside the
definition it spoils, for example a worker created without looking for a live one, a
recovery that also runs beside live workers, a binding written before the address, a name
taken by a handler that then goes on to the question for the number.

### Fairness

The event loop runs ready tasks, a storage or Bale call returns or raises, a relay ends
with the client's timeout at the latest: weak fairness of the handlers and workers. The probe
is a task of the bot that goes round: weak fairness of `ProbeStep`. No property needs a tool to
come to its end, and none is assumed to. Nothing makes a user write, the clock advance, the process crash, the ping
get through in time or the operator start a tool. Liveness is asked for after the last
fault only (`NoMoreTrouble`), where the code does not promise it earlier: a job whose
`mark_failed` raises is never answered, and jobs behind a dead worker wait until the next
message of that tenant. `LiveWorkerDrains` therefore speaks of jobs behind a live worker.

## 9. Findings

- *status_busy*: "there are several requests in the queue now" can arrive after the reply to
  that request. No call has to fail for it.
- *control_session*: `load_users` starts new containers before it removes old ones, so
  an account that moves to another tenant id runs twice, against `.env.example`.
- *control_isolation*: on MySQL a second tenant with a taken slug takes over the first one's
  container, against the isolation `README.md` promises.
- *control_address*: the probe writes a listed address back after the tenant got another.
- *registration_notice*: a message that is handled between the binding and the mark of
  `load_users` makes the bot mark the row itself, without a word; the tool then believes
  that the notice has been sent. The repository's `README.md` and the text of the last
  question promise it.

Claims that are false for reasons already visible in the code, and that no property
therefore makes: two provisioning tools at once can both pass the check on the phone number
(`registration_admin.py:137`; `OneContainerPerSession` excepts the accounts in `raced`); a session that
belongs to one tenant is taken for another under a different phone number or api id
(`admin.py:99`, `registration_admin.py:144`, `load_users.py:140`; excepted by `given`); a
`docker inspect` that fails for any reason counts as "no container", so that `load_users` may end
normally with a removed tenant's container running (`tenant_runtime.py:129`; `SyncConverges` excepts
the containers in `overlooked`); a text whose sending failed in the answer only is sent again, the
acknowledgement and the waiting text included (`app.py:202`, `app.py:926`); the
text for an unreachable tenant service says that the bot will try again (`ui.py:28`) and no
path does; a changed account plus a docker failure leaves the old session
running unknown (`admin.py:113`); `_disable_removed_tenant` may return before it
deactivates bindings that an earlier failed run left (`load_users.py:267`); a changed
slug leaks the container of the old one (`load_users.py:177`); slugs that differ in
`_` and `-` share a container name (`tenant_runtime.py:20`); one notice that cannot be sent
for a reason of the connection ends the synchronisation of all users after it
(`bale_notifier.py:36`).

## 10. Proofs

TLAPS checks everything in this section for all values of the constants. The assumptions
are the named ones of the modules: `SortAssumption` and `BoundAssumption` of RequestPipeline
(the constants have their sorts, every tenant can get a worker, the bounds are numbers),
`ConstantAssumption`, `NullAssumption` and `TaskAssumption` of ControlPlane (sorts, bounds, and null
values that are none of the real ones), `RegistrationAssumption` and `RowAssumption`,
`PhoneAssumption` and `LimitAssumption` (the alphabet has the characters the code names, the limit is
positive), `DeliveryAssumption` and the assumption of
StatusMessage on its jobs. A theorem that needs more says so in its own `ASSUME`.

### RequestPipelineProofs

| theorem | statement |
|---|---|
| `Invariance` | `Spec => []IndInv` |
| `TypeCorrect` | `Spec => []TypeOK` |
| `OneJobAtATime` | `Spec => []OneJobPerTenant` |
| `RepliesMatchRows` | `Spec => []ReplyMatchesRow` |
| `NoSecondRelay` | `Spec => []RelayedAtMostOnce` |
| `QueuesHaveWorkers` | `Spec => []WaitingHasWorker` |
| `FirstInFirstOut` | `Spec => []FifoPerTenant` |
| `RecoveryNeverFailsOwned` | `Spec => RecoverySparesOwned` |
| `Refinement` | `Spec => ImplementsLifecycle` |
| `OrphansAreFresh` | `Spec => []OrphanIsFresh` |

None of the safety properties is inductive. That the reply agrees with the row depends on
the worker having written that row in its last step and on nobody else writing it: so
`IndInv` says, for each place of a request, what its row, reply and relay count are
(`WaitingRowOK` with a handler or in a queue, `WorkedRowOK` with a worker), and that a request
is in one place only (`InHandOK`, `QueueOK`). `FailStale` is the one step that writes rows
without asking where they are; `QuietUntilUp` says that they are nowhere then. `CurrentOK`,
that a live task is the one `_tenant_workers` knows, is what makes a second live task impossible.
The proof follows the shape of the steps: a step of a busy worker touches its own request only
(`OwnStepKeepsInv`), a step of the table only moves rows to "purged", or to "failed"
before the runtime is up (`TableStepKeepsInv`), and the remaining steps have a lemma each.
First-in-first-out needs no invariant beyond types: `admitted = taken \o queue` is kept by
the put and the get, each by a lemma about concatenation. The refinement shows for
every step that it is a step of RequestLifecycle or leaves row and reply alone.
`OrphansAreFresh` follows one request from the recovery on (`Fresh`): `FailStale` leaves every
active row younger than its cutoff (`RecoveryMakesFresh`), and each later step leaves a row that
is settled, owned, marked by a failed storage call, or as it was (`LeavesFresh`); that a worker
lets go of a settled row only is taken from `IndInv`.

### StatusMessageProofs

| theorem | statement |
|---|---|
| `Invariance` | `Spec => []ChatInv` |
| `TypeCorrect` | `Spec => []TypeOK` |
| `PingsEndWithWork` | `Spec => []PingOnlyWhileWorking` |
| `StatusGoneBeforeReply` | `Spec => []NoStatusAfterReply` |
| `WaitBeforeReply` | `Spec => []NoWaitAfterReply` |
| `WaitTextsOwed` | `Spec => []WaitTextsExplained` |

The properties are about positions in the list of messages of a job. What keeps them true is
where everybody is when a message is added, so `ChatInv` says, for each job, which of
handler, queue, ping and worker may be where (`PlaceOK`: the ping runs exactly while the worker is at
work or stopping it, and a call left over by the cancellation exists only afterwards),
what each of these places implies for the waiting text (`WaitOK`: there is none before
the ping is about to send it, and a ping that is about to, like a call of it that may still come late,
is owed one failure more than there are copies), and what is shown
(`ShownOK`: without a failure the message is gone before the worker replies). A step is about one
job: `StepAbout` reduces `ChatInv'` to that job, and each action has a lemma (`HandlerKeeps`,
`PingKeeps`, `LateCallKeeps`, `FailedAttemptKeeps`, `GetKeeps`, `WorkerKeeps`). `OneMore` and
`OneMoreFollows` say what appending a message does to the number of copies (`Times`) and to "after
the reply".

### RegistrationProofs

| theorem | statement |
|---|---|
| `TypeInvariance`, `TypeCorrect` | `Spec => []TypeInv`, `Spec => []TypeOK` |
| `NobodyForgotten` | `Spec => []NobodyIsForgotten` |
| `VersionInvariance`, `RowsAreVersions` | `Spec => []VersionsOK`, `Spec => []RowIsOneVersion` |
| `BackwardsIsLostUpdate` | `Spec => BackwardsOnlyByLostUpdate` |
| `WindowHolds` | `Spec => []DedupWindow` |
| `TwoAnswers` | `Spec => []AnswersAreTwoMessages` |
| `OneNormalForm`, `NormalNumbers` | `NormalForm`, `Spec => []PhoneNormalForm` |

All rest on `TypeInv`: the types, and what an actor knows at each of its places
(`PlacesOK`). `RowStep`, `SeenStep` and `NoticeStep` describe every step by what it does to the
table, to the rows in mind and to the notices (`Shape`): a row that is written is
a row that was read, moved one stage on, by the actor who read it. From this follow, each by
an invariant of its own: that the table and everything anybody has in mind is one version
(`VersionsOK`); that a step back is somebody overwriting a newer row; and that the name
and the number are different messages unless a message was let in twice (`AnswersOK`: a
name in a row, or in mind, is a message that nobody is still handling). The window is
proved by `WindowOK`, that `recent` is the last part of `accepted` since the restart, with
lemmas about the last elements of a sequence.

`OneNormalForm` is about every text, of whatever length and alphabet. `SpacelessPrefix` and `SpacelessSame`
say how dropping the spaces goes with a prefix and with a text that has none; from there each of the
three claims is a distinction of how the text begins.

### ControlPlaneProofs

| theorem | statement |
|---|---|
| `TypeInvariance`, `TypeCorrect` | `Spec => []TypeInv`, `Spec => []TypeOK` |
| `BindingsAreComplete` | `Backend = "sqlite"` : `Spec => []BoundIsComplete` |
| `ContainersAreKnown` | `Backend = "sqlite"`, `SlugsKept` : `Spec => []ContainerIsKnown` |
| `Isolation` | `Backend = "sqlite"`, `SlugsKept`, `NamesDistinct` : `Spec => []RelayReachesOwnTenant` |

Tools are at a place in a script, so most facts are about what is behind a place. `StepPlaces`
reads them off the scripts: nothing binds before row, credentials and address are written, nothing
runs a container before row and credentials are there or have been read. `TypeInv` adds to the
types what a task of each kind carries (`TaskOK`), where its tool is (`PlaceOK`) and which
columns are filled (`RowsOK`). Three invariants build on it.

- `Progress`: what is behind a tool has taken effect. It is kept because no step of anybody takes a
  row, credentials or an address away again (`Kept`), which is all that tools beside each other need
  to know of each other.
- `KnownInv`: a row has the slug its entries give it (`SlugOK`), tasks name the container of
  their own tenant's slug (`NamesOK`), also those made from a listing read long ago, and so the
  container that `EnsureContainer` runs is known (`RunsTheOwn`).
- `RouteInv`: no two rows have one slug, and an address kept anywhere, in a row, in the listing
  of the probe, in its answer or in a queued request, is the one its tenant's slug stands for. Then two
  different tenants cannot meet at one address.

The hypotheses are the ones the code leaves open, and none can be dropped. On MySQL a taken slug
is not refused (run control_isolation). `SlugsKept` says that all entries for a tenant give
one slug: a tenant whose slug changes leaves its old address in requests and in the
probe, where it may come to belong to somebody else (control_address shows
the first half of it). `NamesDistinct` says that slugs which differ give container names
which differ: `build_runtime_names` turns `_` into `-`. The instance of control_plane
satisfies all three.

### ControlTenantProofs

| theorem | statement |
|---|---|
| `OneContainer` | `Backend = "sqlite"`, `SlugsKept`, `AccountsKept`, `NothingTakenOver` : `Spec => []OneContainerPerSession` |
| `Convergence` | `Backend = "sqlite"`, `SlugsKept`, `NamesDistinct`, `ChatsDistinct` : `Spec => []SyncConverges` |

*One container per session.* The check compares accounts in the stored credentials, the property
speaks of sessions in containers, and an interactive login lies between check and store. `SessionInv` joins
them: a container runs a session that was stored with the account of its tenant (`BoxesRun`), as the
sessions in the table (`CredsGiven`) and in the tasks that have stored or read one (`TasksGiven`) are; whoever
has an account was given it (`CredsSaid`, `AccountsOK`), and at most one tenant has an account or will have
it after a login that is under way (`ClaimsUnique`), but for accounts in `raced`. A second tool that
checks the account during that login is the one step that makes a second claim (`CheckClaims`), and
it puts the account into `raced`. Two containers with one session that was `given` for one account
then belong to one tenant, whose slug names one container.
Two hypotheses exclude what the code lets happen. Without `NothingTakenOver`, `load_users` stores an
account that another tenant has, since it makes no check (run control_session). Without `AccountsKept`,
TLC finds, with neither users.json nor a fault: a tenant is given a second account, and another
tenant takes the first one, which is free in the database, while the container with the old
session still runs. The entries of control_live satisfy all four for either of its second tenants, the one
that wants the account of the first and the one that has its session; that the run has both is more
than `AccountsKept` allows.

*Convergence of load_users.* `SyncInv` follows a run of `load_users` for the file `syncedTo`: nobody else is at
work (`OneTool`), its tasks are those of the file, one for each tenant (`TasksOfFile`), and every tenant is
still to be done, in hand and done up to the place of the tool (`HalfWay`), or
as the file says (`Finished`). A step for one tenant leaves what is finished for another as it is
(`FinishedStays`), which needs that slugs and chats are not shared; a task that ends has reached
what the file says (`EndFinishes`), whatever was there before, and a container that was to go is gone or
was overlooked in this very run (`Gone`); a task that is skipped because the
tenant is already settled finds it so (`SettledFinishes`). A command of
somebody else, or a step that raises, ends the claim (`syncedTo` is `NoFile` again), so
that the theorem says nothing about a run that was disturbed. `ChatsDistinct` is the one
hypothesis beyond those of `Isolation`: of two active users with one chat the one done last gets it. The
instance of control_plane satisfies all four.

### FoldProofs

The functions on texts are folds, and the library's induction theorems take an operator, which the
provers cannot instantiate. FoldProofs gets induction from well-founded sets instead: `Least` (a
nonempty set of numbers has a least element) follows from the well-foundedness of the strict
subset order on the finite sets `1 .. n`, and with a *set* of good numbers or sequences in place of an
operator follow `Induction` and `SequenceInduction`. `IterExists` shows by it
that the recursive function inside `FoldLeft` exists, and `FoldSteps`, `FoldInvariant`,
`FoldAppend` and `FoldEmpty` say what a fold computes. The step and the base of the fold are CONSTANTS of the
module, so that each function is an instance of it and gets its laws by name.

### SplitTextProofs

| theorem | statement |
|---|---|
| `EveryChunkFits` | for every text, `Chunks(text)` is a sequence of chunks and `Sendable` |
| `NothingLost` | for every text, `Complete(text, Chunks(text))` |

The invariant of both loops is `Cuts`: what is cut off already can be sent, and what is still being filled is within
the limit and does not start with a blank; it may end with line breaks, which `Flush` takes off. `JoinedType` says
that the `strip()` after a join never takes anything away; so nothing that had room loses it, and
the last line of `split_text`, which drops empty chunks, has nothing to drop (`NonEmptySame`). For the letters,
`Held` is what is cut off together with what is being filled, and each step adds to it the letters of its
word (`AddWordLetters`) or its paragraph (`AddParagraphLetters`); splitting at a separator and stripping
take no letters away (`InPartsLetters`, `LettersStripped`), and `HardSplitLetters` counts through the
pieces of a long word.

### DeliveryProofs

| theorem | statement |
|---|---|
| `TypeInvariance`, `TypeCorrect` | `Spec => []TypeInv`, `Spec => []TypeOK` |
| `HolesExplained` | `Spec => []HolesAreExplained` |
| `Refinement` | `Spec => ImplementsOrderedDelivery` |
| `Completeness` | `Spec => SplitIsComplete` |

None has a hypothesis: that an answer has a number of chunks is `EveryChunkFits`. The first two are counting:
a part has had a call for each attempt of the outer loop that is over
(`CallsOK`), and no more calls than the attempts of both loops so far (`Budget`, `Loops`).
The refinement needs to know what the chat looks like. `ChatInOrder` says that it is a beginning that has only
parts which are done with, followed by copies of the part that is being sent, no more of them than calls
were made for it. The mapping shows the beginning (`ShowsBeginning`), so a call that is going to be repeated
is a stutter, and the last call for a part adds all its copies at once (`ShowsMore`), of which `TypeInv` says
that they are at most `Attempts * Attempts`.

### Only model-checked

`SplitIsReadable`: which chunk a word or a line break ends up in. Liveness
under fairness (`LiveWorkerDrains`, `StatusGoesAway`, `ProbeHeals`), which is out of the prover's reach.

## 11. Not modelled

- Menus, media download, `user_settings`, building the payload of a request, wording
  (`enforce_rivas_branding`) and `dedupe_preserve_order`: sequential or pure, with no state that
  outlives a handler except one upsert of user settings.
- The log channel and the health endpoint: nothing depends on them.
- Configuration and encryption: pure functions and a library.
- The backoff of `main` (its restart is `Crash` and `Start`) and the waits between attempts of
  a Bale call: no property depends on how long they are.
- Deployment scripts.
- The tenant's relay service, whose code is a git submodule that is not in this repository;
  its outcomes, as `app.py` handles them, are in RequestPipeline.
- In Phone and SplitText, the further characters that Python takes for digits or white space.
