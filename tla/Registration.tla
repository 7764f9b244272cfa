---------------------------- MODULE Registration ----------------------------
(***************************************************************************)
(* How a chat becomes the chat of a tenant: the window that drops messages *)
(* delivered twice, the registration questions, the operator's tools that  *)
(* bind the chat, and the notice that it is ready.  Message handlers run   *)
(* concurrently in the bot, the tools are processes of their own; all read *)
(* the row of registration_requests first and write it back as a whole     *)
(* later.  One user and chat: rows of different chats never meet, and all  *)
(* that other chats do here is to take room in the window.                 *)
(*                                                                         *)
(* Python source: src/rivas/app.py (_handle_message up to the mark,        *)
(* _handle_start, _handle_registration_flow, _is_duplicate_inbound),       *)
(* src/rivas/registration_admin.py, the marks and notices of               *)
(* src/rivas/load_users.py, src/rivas/bale_notifier.py.  What the tools do *)
(* before they bind the chat is in ControlPlane, what happens to a message *)
(* after the mark in StatusMessage and RequestPipeline.                    *)
(***************************************************************************)
EXTENDS Naturals, Sequences, FiniteSets, Phone

CONSTANTS
    Messages,      \* message ids
    KindOf,        \* [Messages -> Kinds]: what the handler tells apart
    Handlers,      \* handler invocations of the bot that may overlap
    Tools,         \* operator's processes
    Tenants,
    Window,        \* MAX_RECENT_EVENTS
    MaxDeliveries, \* bound on messages and redeliveries
    MaxCommands,   \* bound on commands of the operator
    MaxFaults,     \* bound on exceptions
    MaxRestarts,   \* bound on restarts of the bot
    NoMessage, NoTenant, NoRow

Kinds == {"elsewhere", "start", "command", "blank", "words", "phone"}

ASSUME RegistrationAssumption ==
    /\ KindOf \in [Messages -> Kinds]
    /\ Handlers \cap Tools = {}
    /\ NoMessage \notin Messages
    /\ NoTenant \notin Tenants
    /\ Window \in Nat \ {0}
    /\ MaxDeliveries \in Nat
    /\ MaxCommands \in Nat
    /\ MaxFaults \in Nat
    /\ MaxRestarts \in Nat

Actors == Handlers \cup Tools

VARIABLES
    row,        \* the row of registration_requests, or NoRow
    bound,      \* the tenant of the active binding, or NoTenant
    recent,     \* _recent_inbound, oldest first
    at,         \* [Actors -> Places]: what a handler or a tool does next
    msg,        \* [Handlers -> Messages]: the message it handles
    seen,       \* [Actors -> Row]: the row as it was read
    for,        \* [Actors -> Tenants]: the tenant it acts for
    \* budgets and history
    deliveries, commands, faults, restarts,
    accepted,   \* messages that passed the window, in order
    booted,     \* how many of them before the last restart
    told,       \* tenants the chat got a notice for
    silently,   \* tenants a handler of the bot marked the row for
    unsent      \* tenants whose notice was lost or not to be sent

actors  == <<at, msg, seen, for>>
history == <<accepted, booted, told, silently, unsent>>
budget  == <<deliveries, commands, faults, restarts>>
vars    == <<row, bound, recent, actors, budget, history>>

\* RegistrationStatus without "cancelled", which nothing writes.
Statuses == {"awaiting_username", "awaiting_phone", "pending_admin", "provisioned"}

Row == [status : Statuses, name : Messages \cup {NoMessage},
        phone : Messages \cup {NoMessage}, tenant : Tenants \cup {NoTenant}]

ASSUME RowAssumption == NoRow \notin Row

\* A handler: resolve, then the questions or the mark; a tool: bind, mark,
\* notify.  registration_admin and load_users mark differently.
Places == {"idle", "resolve", "ask", "answer", "check", "mark",
           "bind_admin", "bind_load", "read_admin", "read_load",
           "write", "notify"}

TypeOK ==
    /\ row \in Row \cup {NoRow}
    /\ bound \in Tenants \cup {NoTenant}
    /\ recent \in Seq(Messages)
    /\ at \in [Actors -> Places]
    /\ msg \in [Handlers -> Messages \cup {NoMessage}]
    /\ seen \in [Actors -> Row \cup {NoRow}]
    /\ for \in [Actors -> Tenants \cup {NoTenant}]
    /\ deliveries \in Nat /\ commands \in Nat /\ faults \in Nat /\ restarts \in Nat
    /\ accepted \in Seq(Messages)
    /\ booted \in 0 .. Len(accepted)
    /\ told \subseteq Tenants /\ silently \subseteq Tenants /\ unsent \subseteq Tenants

Init ==
    /\ row = NoRow
    /\ bound = NoTenant
    /\ recent = << >>
    /\ at = [a \in Actors |-> "idle"]
    /\ msg = [h \in Handlers |-> NoMessage]
    /\ seen = [a \in Actors |-> NoRow]
    /\ for = [a \in Actors |-> NoTenant]
    /\ deliveries = 0 /\ commands = 0 /\ faults = 0 /\ restarts = 0
    /\ accepted = << >>
    /\ booted = 0
    /\ told = {} /\ silently = {} /\ unsent = {}

-----------------------------------------------------------------------------
(* Steps of an actor.                                                      *)

Goto(a, place) == at' = [at EXCEPT ![a] = place]

\* The actor is done; what it knew is of no use to anybody.
Finish(a) ==
    /\ Goto(a, "idle")
    /\ msg' = IF a \in Handlers THEN [msg EXCEPT ![a] = NoMessage] ELSE msg
    /\ seen' = [seen EXCEPT ![a] = NoRow]
    /\ for' = [for EXCEPT ![a] = NoTenant]

\* get_registration_request.
Read(a, place) ==
    /\ seen' = [seen EXCEPT ![a] = row]
    /\ Goto(a, place)
    /\ UNCHANGED <<msg, for>>

\* Mutant of Upsert: a column that has no value in the new row is kept.
Bug_UpsertKeeps(r) ==
    row' = IF row = NoRow THEN r
           ELSE [r EXCEPT !.name = IF @ = NoMessage THEN row.name ELSE @,
                          !.phone = IF @ = NoMessage THEN row.phone ELSE @,
                          !.tenant = IF @ = NoTenant THEN row.tenant ELSE @]

\* upsert_registration_request: every column, whatever it holds by now.
Upsert(r) == row' = r

Marked(r, t) == [r EXCEPT !.status = "provisioned", !.tenant = t]

IsMarked(r, t) == r # NoRow /\ r.status = "provisioned" /\ r.tenant = t

-----------------------------------------------------------------------------
(* The bot: the window.                                                    *)

\* Mutant of Remember: one message too few.
Bug_RememberFewer(m) ==
    recent' = IF Len(recent) + 1 >= Window
              THEN Tail(Append(recent, m)) ELSE Append(recent, m)

IsDuplicate(m) == \E i \in 1 .. Len(recent) : recent[i] = m

Remember(m) ==
    recent' = IF Len(recent) + 1 > Window
              THEN Tail(Append(recent, m)) ELSE Append(recent, m)

\* Bale delivers a message, a new one or one it has delivered before.
Deliver == deliveries < MaxDeliveries /\ deliveries' = deliveries + 1

ReceiveDuplicate(m) ==
    /\ Deliver
    /\ IsDuplicate(m)
    /\ UNCHANGED <<row, bound, recent, actors, commands, faults, restarts, history>>

Accept(m) ==
    /\ Deliver
    /\ ~IsDuplicate(m)
    /\ Remember(m)
    /\ accepted' = Append(accepted, m)
    /\ UNCHANGED <<row, bound, commands, faults, restarts, booted, told, silently, unsent>>

\* It is marked as seen before anything is done for it.
Receive(h, m) ==
    /\ at[h] = "idle"
    /\ KindOf[m] # "elsewhere"
    /\ Accept(m)
    /\ Goto(h, "resolve")
    /\ msg' = [msg EXCEPT ![h] = m]
    /\ UNCHANGED <<seen, for>>

ReceiveElsewhere(m) ==
    /\ KindOf[m] = "elsewhere"
    /\ Accept(m)
    /\ UNCHANGED actors

-----------------------------------------------------------------------------
(* The bot: whose chat is this, and the registration questions.            *)

handlerFrame == <<bound, recent, budget, accepted, booted, told, unsent>>

\* resolve_tenant_binding: no active binding.
ResolveUnbound(h) ==
    /\ at[h] = "resolve"
    /\ bound = NoTenant
    /\ Goto(h, "ask")
    /\ UNCHANGED <<row, msg, seen, for, silently, handlerFrame>>

\* A welcome, a help text, or: the tenant is disabled or not running.
ResolveTurnedAway(h) ==
    /\ at[h] = "resolve"
    /\ bound # NoTenant
    /\ Finish(h)
    /\ UNCHANGED <<row, silently, handlerFrame>>

ResolveBound(h) ==
    /\ at[h] = "resolve"
    /\ bound # NoTenant
    /\ KindOf[msg[h]] # "start"
    /\ Goto(h, "check")
    /\ for' = [for EXCEPT ![h] = bound]
    /\ UNCHANGED <<row, msg, seen, silently, handlerFrame>>

ReadForAnswer(h) ==
    /\ at[h] = "ask"
    /\ Read(h, "answer")
    /\ UNCHANGED <<row, silently, handlerFrame>>

Answering(h, status) ==
    /\ at[h] = "answer"
    /\ seen[h] # NoRow /\ seen[h].status = status

Write(h, r) ==
    /\ Upsert(r)
    /\ Finish(h)
    /\ UNCHANGED <<silently, handlerFrame>>

Fresh == [status |-> "awaiting_username", name |-> NoMessage,
          phone |-> NoMessage, tenant |-> NoTenant]

\* Mutant of FirstContact: who was provisioned once may start all over.
Bug_FirstContactAgain(h) ==
    /\ at[h] = "answer"
    /\ seen[h] = NoRow \/ Answering(h, "provisioned")
    /\ Write(h, Fresh)

FirstContact(h) ==
    /\ at[h] = "answer"
    /\ seen[h] = NoRow
    /\ Write(h, Fresh)

IsName(m)  == KindOf[m] \in {"words", "phone"}
IsPhone(m) == KindOf[m] = "phone"

\* Mutant of TakeName: a return is missing, and the row is looked at again.
Bug_TakeNameGoesOn(h) ==
    /\ Answering(h, "awaiting_username")
    /\ IsName(msg[h])
    /\ Upsert([seen[h] EXCEPT !.name = msg[h], !.status = "awaiting_phone"])
    /\ Goto(h, "ask")
    /\ UNCHANGED <<msg, seen, for, silently, handlerFrame>>

TakeName(h) ==
    /\ Answering(h, "awaiting_username")
    /\ IsName(msg[h])
    /\ Write(h, [seen[h] EXCEPT !.name = msg[h], !.status = "awaiting_phone"])

\* Mutant of TakePhone: a status that RegistrationStatus does not have.
Bug_TakePhoneStatus(h) ==
    /\ Answering(h, "awaiting_phone")
    /\ IsPhone(msg[h])
    /\ Write(h, [seen[h] EXCEPT !.phone = msg[h], !.status = "pending"])

TakePhone(h) ==
    /\ Answering(h, "awaiting_phone")
    /\ IsPhone(msg[h])
    /\ Write(h, [seen[h] EXCEPT !.phone = msg[h], !.status = "pending_admin"])

\* The question again, or a text that says what the row says.
AskAgain(h) ==
    /\ \/ Answering(h, "awaiting_username") /\ ~IsName(msg[h])
       \/ Answering(h, "awaiting_phone") /\ ~IsPhone(msg[h])
       \/ Answering(h, "pending_admin")
       \/ Answering(h, "provisioned")
    /\ Finish(h)
    /\ UNCHANGED <<row, silently, handlerFrame>>

-----------------------------------------------------------------------------
(* The bot: _mark_registration_provisioned, without a word to the user.    *)

ReadForMark(h) ==
    /\ at[h] = "check"
    /\ Read(h, "mark")
    /\ UNCHANGED <<row, silently, handlerFrame>>

NothingToMark(h) ==
    /\ at[h] = "mark"
    /\ seen[h] = NoRow \/ IsMarked(seen[h], for[h])
    /\ Finish(h)
    /\ UNCHANGED <<row, silently, handlerFrame>>

MarkSilently(h) ==
    /\ at[h] = "mark"
    /\ seen[h] # NoRow /\ ~IsMarked(seen[h], for[h])
    /\ Upsert(Marked(seen[h], for[h]))
    /\ silently' = silently \cup {for[h]}
    /\ Finish(h)
    /\ UNCHANGED handlerFrame

-----------------------------------------------------------------------------
(* The tools.                                                              *)

toolFrame == <<recent, deliveries, restarts, accepted, booted, silently>>

Begin(p, t, place) ==
    /\ at[p] = "idle"
    /\ commands < MaxCommands
    /\ commands' = commands + 1
    /\ Goto(p, place)
    /\ for' = [for EXCEPT ![p] = t]
    /\ UNCHANGED <<row, bound, msg, seen, faults, told, unsent, toolFrame>>

\* list_pending_registration_requests.
IsListed(r) == r # NoRow /\ r.status # "provisioned"

\* registration_admin: the operator picks a row that is listed, and complete;
\* what follows until the chat is bound takes as long as a login.
Select(p) ==
    /\ IsListed(row) /\ row.status = "pending_admin"
    /\ \E t \in Tenants : Begin(p, t, "bind_admin")

\* load_users: an active user of the file, whatever the row says.
SyncUser(p) == \E t \in Tenants : Begin(p, t, "bind_load")

\* load_users: the tenant is disabled or no longer in the file.
Unload(p) ==
    /\ at[p] = "idle"
    /\ commands < MaxCommands
    /\ commands' = commands + 1
    /\ bound # NoTenant
    /\ bound' = NoTenant
    /\ UNCHANGED <<row, actors, faults, told, unsent, toolFrame>>

\* bind_bale_user: the chat moves to the tenant.
Bind(p) ==
    /\ \/ at[p] = "bind_admin" /\ Goto(p, "read_admin")
       \/ at[p] = "bind_load" /\ Goto(p, "read_load")
    /\ bound' = for[p]
    /\ UNCHANGED <<row, msg, seen, for, commands, faults, told, unsent, toolFrame>>

\* _set_registration_provisioned writes whatever it reads ...
ReadForAdmin(p) ==
    /\ at[p] = "read_admin"
    /\ Read(p, IF row = NoRow THEN "notify" ELSE "write")
    /\ UNCHANGED <<row, bound, commands, faults, told, unsent, toolFrame>>

\* ... and _mark_registration_as_provisioned may find nothing to do, in which
\* case nobody is notified.
ReadForLoad(p) ==
    /\ at[p] = "read_load"
    /\ IF row = NoRow \/ IsMarked(row, for[p]) THEN Finish(p) ELSE Read(p, "write")
    /\ UNCHANGED <<row, bound, commands, faults, told, unsent, toolFrame>>

\* Mutant of MarkAndNotify: a notice only to those who had none yet.
Bug_MarkAndNotifyNew(p) ==
    /\ at[p] = "write"
    /\ Upsert(Marked(seen[p], for[p]))
    /\ IF seen[p].status = "provisioned" THEN Finish(p)
       ELSE Goto(p, "notify") /\ UNCHANGED <<msg, seen, for>>
    /\ UNCHANGED <<bound, commands, faults, told, unsent, toolFrame>>

MarkAndNotify(p) ==
    /\ at[p] = "write"
    /\ Upsert(Marked(seen[p], for[p]))
    /\ Goto(p, "notify")
    /\ UNCHANGED <<bound, msg, seen, for, commands, faults, told, unsent, toolFrame>>

\* send_text_message.
Notify(p) ==
    /\ at[p] = "notify"
    /\ told' = told \cup {for[p]}
    /\ Finish(p)
    /\ UNCHANGED <<row, bound, commands, faults, unsent, toolFrame>>

\* _notify_user_activation returns at once: notices are disabled in the
\* environment of this command, or it has no token for the bot.
NoticeSkipped(p) ==
    /\ at[p] = "notify"
    /\ unsent' = unsent \cup {for[p]}
    /\ Finish(p)
    /\ UNCHANGED <<row, bound, commands, faults, told, toolFrame>>

\* An exception ends the tool: of a statement, or of the request for the
\* notice.  A notice that Bale refuses is only logged, and as lost.
ToolFails(p) ==
    /\ at[p] # "idle"
    /\ faults < MaxFaults
    /\ faults' = faults + 1
    /\ unsent' = IF at[p] = "notify" THEN unsent \cup {for[p]} ELSE unsent
    /\ Finish(p)
    /\ UNCHANGED <<row, bound, commands, told, toolFrame>>

\* An exception ends a handler (on_message logs it); a restart ends them all
\* and empties the window.
HandlerFails(h) ==
    /\ at[h] # "idle"
    /\ faults < MaxFaults
    /\ faults' = faults + 1
    /\ Finish(h)
    /\ UNCHANGED <<row, bound, recent, deliveries, commands, restarts, history>>

Restart ==
    /\ restarts < MaxRestarts
    /\ restarts' = restarts + 1
    /\ recent' = << >>
    /\ booted' = Len(accepted)
    /\ at' = [a \in Actors |-> IF a \in Handlers THEN "idle" ELSE at[a]]
    /\ msg' = [h \in Handlers |-> NoMessage]
    /\ seen' = [a \in Actors |-> IF a \in Handlers THEN NoRow ELSE seen[a]]
    /\ for' = [a \in Actors |-> IF a \in Handlers THEN NoTenant ELSE for[a]]
    /\ UNCHANGED <<row, bound, deliveries, commands, faults, accepted, told, silently, unsent>>

-----------------------------------------------------------------------------

HandlerStep(h) ==
    \/ ResolveUnbound(h) \/ ResolveTurnedAway(h) \/ ResolveBound(h)
    \/ ReadForAnswer(h) \/ FirstContact(h) \/ TakeName(h) \/ TakePhone(h) \/ AskAgain(h)
    \/ ReadForMark(h) \/ NothingToMark(h) \/ MarkSilently(h)

ToolStep(p) ==
    \/ Bind(p) \/ ReadForAdmin(p) \/ ReadForLoad(p) \/ MarkAndNotify(p)
    \/ Notify(p) \/ NoticeSkipped(p)

Next ==
    \/ \E m \in Messages :
        \/ ReceiveDuplicate(m) \/ ReceiveElsewhere(m)
        \/ \E h \in Handlers : Receive(h, m)
    \/ \E h \in Handlers : HandlerStep(h) \/ HandlerFails(h)
    \/ \E p \in Tools :
        Select(p) \/ SyncUser(p) \/ Unload(p) \/ ToolStep(p) \/ ToolFails(p)
    \/ Restart

Spec == Init /\ [][Next]_vars

-----------------------------------------------------------------------------
(* Safety                                                                  *)

\* A message is let through a second time only after a restart or after at
\* least Window others (_is_duplicate_inbound).
DedupWindow ==
    \A i, j \in booted + 1 .. Len(accepted) :
        i < j /\ accepted[i] = accepted[j] => j - i > Window

Twice(m) ==
    \E i, j \in 1 .. Len(accepted) : i < j /\ accepted[i] = m /\ accepted[j] = m

\* One message is not taken for two answers, the name and the phone number,
\* unless it was let through twice: however the handlers of the messages
\* before and after it are interleaved.
AnswersAreTwoMessages ==
    row # NoRow /\ row.name # NoMessage /\ row.name = row.phone => Twice(row.name)

OneVersion(r) ==
    /\ r.name = NoMessage => r.phone = NoMessage
    /\ r.status = "awaiting_username" => r = Fresh
    /\ r.status = "awaiting_phone" =>
          r.name # NoMessage /\ r.phone = NoMessage /\ r.tenant = NoTenant
    /\ r.status = "pending_admin" => r.phone # NoMessage /\ r.tenant = NoTenant
    /\ r.status = "provisioned" => r.tenant # NoTenant

\* A row is always one that some actor wrote as a whole: what the operator
\* finds as complete has a name and a phone number and no tenant yet, also
\* when handlers and tools overwrite each other.
RowIsOneVersion == row # NoRow => OneVersion(row)

\* A chat whose row says that it is provisioned for a tenant has been told
\* so, or is about to be, unless the notice was lost, or notices were off, or
\* the row was marked by the bot itself.
NobodyIsForgotten ==
    row # NoRow /\ row.status = "provisioned" =>
        \/ row.tenant \in told \cup silently \cup unsent
        \/ \E p \in Tools : at[p] = "notify" /\ for[p] = row.tenant

Rank(r) ==
    IF r = NoRow THEN 0
    ELSE CASE r.status = "awaiting_username" -> 1
           [] r.status = "awaiting_phone" -> 2
           [] r.status = "pending_admin" -> 3
           [] r.status = "provisioned" -> 4

\* A registration goes back to an earlier stage, a provisioned one to the
\* operator's list say, only when somebody writes who read the row before it
\* was last written.
BackwardsOnlyByLostUpdate ==
    [][Rank(row') < Rank(row) =>
          \E a \in Actors : at[a] \in {"answer", "mark", "write"} /\ at'[a] # at[a]
                            /\ seen[a] # row]_vars

\* The phone numbers that the handler accepts have a normal form.  It does not
\* depend on the state: the runs look at it before the first message.
PhoneNormalForm == accepted = << >> => NormalForm

\* The promise of the bot and of the README: whose service is ready is told,
\* provided that nothing fails, all is done that was begun, and notices are
\* not switched off.
ReadyIsTold ==
    /\ row # NoRow /\ row.status = "provisioned"
    /\ faults = 0 /\ unsent = {} /\ \A a \in Actors : at[a] = "idle"
    => row.tenant \in told
=============================================================================
