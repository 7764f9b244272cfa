---------------------------- MODULE ControlPlane ----------------------------
(***************************************************************************)
(* Tenants: their rows, their containers and the way from a chat to them.  *)
(* The operator's tools (rivas-admin, registration_admin, load_users,      *)
(* runtime_reconcile) run as processes of their own beside the bot; every  *)
(* one is a script of single statements and docker commands, with no       *)
(* transaction around it, and may end with an exception anywhere.  The     *)
(* bot reads the same rows to route messages, and its health probe writes  *)
(* them.                                                                   *)
(*                                                                         *)
(* Python source: src/rivas/admin.py, registration_admin.py,               *)
(* load_users.py, runtime_reconcile.py, tenant_runtime.py, the tenant part *)
(* of storage.py, and app.py (_probe_all_tenants_health, _handle_message). *)
(***************************************************************************)
EXTENDS Naturals, FiniteSets, Sequences

CONSTANTS
    Tenants, Slugs, Names, Chats,
    Accounts,    \* phone number and api id, by which the tools tell accounts
    Sessions,    \* Telegram sessions, as strings: what a container needs to run
    NameOf,      \* [Slugs -> Names]: build_runtime_names, container and alias
    Backend,     \* "sqlite" or "mysql"
    Tools,       \* processes for the operator's commands
    Entries,     \* what an operator may say of a tenant: see EntryType
    Files,       \* contents of users.json: sets of entries
    MaxCommands, \* bound on commands
    MaxFaults,   \* bound on exceptions and failed health checks
    MaxJobs,     \* bound on addresses in use for a chat
    NoTenant, NoSlug, NoName, NoAccount, NoSession, NoChat, NoTask, NoRow, NoFile

\* The session is given by the operator or comes from a login; nothing ties it
\* to the account that is named beside it.
EntryType == [tenant : Tenants, slug : Slugs, account : Accounts,
              session : Sessions, chat : Chats, status : {"active", "disabled"}]

\* _normalize_users refuses a file that names a tenant twice, or an account
\* twice among the active users.
FileAccepted(f) ==
    \A d, e \in f :
        d # e =>
            /\ d.tenant # e.tenant
            /\ d.status = "active" /\ e.status = "active" =>
                   d.account # e.account

ASSUME ConstantAssumption ==
    /\ NameOf \in [Slugs -> Names]
    /\ Backend \in {"sqlite", "mysql"}
    /\ Entries \subseteq EntryType
    /\ Files \subseteq SUBSET Entries
    /\ \A f \in Files : FileAccepted(f)
    /\ MaxCommands \in Nat
    /\ MaxFaults \in Nat
    /\ MaxJobs \in Nat

ASSUME NullAssumption ==
    /\ NoTenant \notin Tenants
    /\ NoSlug \notin Slugs
    /\ NoName \notin Names
    /\ NoAccount \notin Accounts
    /\ NoSession \notin Sessions
    /\ NoChat \notin Chats
    /\ NoFile \notin Files
    /\ IsFiniteSet(Tenants)

VARIABLES
    \* the database
    tstatus,     \* [Tenants -> TenantStatuses]: tenants.status
    slug,        \* [Tenants -> Slugs]: tenants.tenant_slug
    born,        \* [Tenants -> Nat]: order of tenants.created_ts
    cred,        \* [Tenants -> Accounts]: tenant_credentials, phone and api id
    session,     \* [Tenants -> Sessions]: tenant_credentials, the session
    rstatus,     \* [Tenants -> RuntimeStatuses]: tenant_runtime.runtime_status
    rname,       \* [Tenants -> Names]: its container_name and endpoint
    bound,       \* [Chats -> Tenants]: bale_bindings.tenant_id
    enabled,     \* SUBSET Chats: bale_bindings.is_active
    \* docker
    box,         \* [Names -> Sessions]: the session a container runs
    boxOf,       \* [Names -> Tenants]: for which tenant it was last run
    \* the tools
    work,        \* [Tools -> SUBSET Task]: what a tool has still to do
    task,        \* [Tools -> Task]: what it is doing
    at,          \* [Tools -> Nat]: how far it is in the script for that
    \* the bot
    listed,      \* SUBSET Row: rows the health probe has still to visit
    probed,      \* Row: the row it visits, with the answer of the service
    jobs,        \* [Chats -> SUBSET Row]: a request and the address it carries
    \* budgets and history
    commands, faults,
    raced,       \* accounts that two tools were about to give to two tenants
    given,       \* [Sessions -> SUBSET Accounts]: stored together so far
    overlooked,  \* containers that a failing docker inspect hid from the tool
                 \* that was to remove them, since a tool last began alone
    syncedTo     \* the file of the last load_users that ran alone, if nothing
                 \* else was started and nothing failed since

database == <<tstatus, slug, born, cred, session, rstatus, rname, bound, enabled>>
docker   == <<box, boxOf>>
tools    == <<work, task, at>>
bot      == <<listed, probed, jobs>>
history  == <<raced, given, overlooked>>
vars     == <<database, docker, tools, bot, commands, faults, history, syncedTo>>

TenantStatuses  == {"absent", "active", "disabled"}
RuntimeStatuses == {"absent", "running", "starting", "unhealthy", "stopped", "error"}

\* Mutants of Provision: container before the rows; binding before the address.
Bug_ProvisionContainerFirst ==
    <<"container", "tenant", "credentials", "runtime", "bind">>
Bug_ProvisionBindsFirst ==
    <<"tenant", "credentials", "bind", "container", "runtime">>

\* What _tenant_add, _provision_selected and _sync_single_user have in common.
Provision == <<"tenant", "credentials", "container", "runtime", "bind">>

\* The scripts, a task each.
Script ==
    [add       |-> <<"check">> \o Provision,
     register  |-> <<"check">> \o Provision \o <<"activate">>,
     load      |-> Provision \o <<"activate">>,
     unload    |-> <<"tenant", "unbind", "remove", "disable", "halt", "runtime">>,
     drop      |-> <<"remove", "unbind", "disable", "halt">>,
     enable    |-> <<"activate">>,
     disable   |-> <<"disable", "halt">>,
     reconcile |-> <<"read", "container", "runtime">>,
     report    |-> <<"runtime">>]

Kinds == DOMAIN Script

Task == [kind : Kinds, tenant : Tenants, name : Names \cup {NoName},
         slug : Slugs \cup {NoSlug}, account : Accounts \cup {NoAccount},
         session : Sessions \cup {NoSession}, chat : Chats \cup {NoChat},
         settled : BOOLEAN]

ASSUME TaskAssumption == NoTask \notin Task

Row == [tenant : Tenants, name : Names \cup {NoName}]

Verdicts == {"running", "starting", "unhealthy"}

TypeOK ==
    /\ tstatus \in [Tenants -> TenantStatuses]
    /\ slug \in [Tenants -> Slugs \cup {NoSlug}]
    /\ born \in [Tenants -> Nat]
    /\ cred \in [Tenants -> Accounts \cup {NoAccount}]
    /\ session \in [Tenants -> Sessions \cup {NoSession}]
    /\ rstatus \in [Tenants -> RuntimeStatuses]
    /\ rname \in [Tenants -> Names \cup {NoName}]
    /\ bound \in [Chats -> Tenants \cup {NoTenant}]
    /\ enabled \subseteq Chats
    /\ box \in [Names -> Sessions \cup {NoSession}]
    /\ boxOf \in [Names -> Tenants \cup {NoTenant}]
    /\ work \in [Tools -> SUBSET Task]
    /\ task \in [Tools -> Task \cup {NoTask}]
    /\ at \in [Tools -> Nat]
    /\ listed \subseteq Row
    /\ probed \in [row : Row, verdict : Verdicts] \cup {NoRow}
    /\ jobs \in [Chats -> SUBSET Row]
    /\ commands \in Nat
    /\ faults \in Nat
    /\ raced \subseteq Accounts
    /\ given \in [Sessions -> SUBSET Accounts]
    /\ overlooked \subseteq Names
    /\ syncedTo \in Files \cup {NoFile}

Init ==
    /\ tstatus = [t \in Tenants |-> "absent"]
    /\ slug = [t \in Tenants |-> NoSlug]
    /\ born = [t \in Tenants |-> 0]
    /\ cred = [t \in Tenants |-> NoAccount]
    /\ session = [t \in Tenants |-> NoSession]
    /\ rstatus = [t \in Tenants |-> "absent"]
    /\ rname = [t \in Tenants |-> NoName]
    /\ bound = [c \in Chats |-> NoTenant]
    /\ enabled = {}
    /\ box = [n \in Names |-> NoSession]
    /\ boxOf = [n \in Names |-> NoTenant]
    /\ work = [p \in Tools |-> {}]
    /\ task = [p \in Tools |-> NoTask]
    /\ at = [p \in Tools |-> 0]
    /\ listed = {}
    /\ probed = NoRow
    /\ jobs = [c \in Chats |-> {}]
    /\ commands = 0
    /\ faults = 0
    /\ raced = {}
    /\ given = [x \in Sessions |-> {}]
    /\ overlooked = {}
    /\ syncedTo = NoFile

-----------------------------------------------------------------------------
(* The database: one statement each.                                       *)

Put(f, k, v) == [f EXCEPT ![k] = v]

Stored(t) == tstatus[t] # "absent"

\* Mutant of Holders: really only the active tenants.
Bug_HoldersActive(a) == {u \in Tenants : cred[u] = a /\ tstatus[u] = "active"}

\* find_active_tenant_by_phone: the newest tenant with these credentials, of
\* whatever status, must be t itself.
Holders(a) == {u \in Tenants : cred[u] = a /\ Stored(u)}

Conflict(t, a) ==
    \E u \in Holders(a) \ {t} : \A v \in Holders(a) : born[v] <= born[u]

SlugTaken(t, s) == \E u \in Tenants \ {t} : Stored(u) /\ slug[u] = s

\* Mutant of UpsertTenant: a row that clashes is ignored without an error.
Bug_UpsertTenantIgnores(t, s, status) ==
    IF ~SlugTaken(t, s)
    THEN /\ tstatus' = Put(tstatus, t, status)
         /\ slug' = Put(slug, t, s)
         /\ born' = IF Stored(t) THEN born
                    ELSE Put(born, t, Cardinality({u \in Tenants : Stored(u)}) + 1)
    ELSE UNCHANGED <<tstatus, slug, born>>

\* upsert_tenant, when it does not raise.  A new id with a slug that is taken
\* is an integrity error to SQLite, while ON DUPLICATE KEY of MySQL updates
\* the row that has the slug and stores no row for the id.
UpsertTenant(t, s, status) ==
    IF ~SlugTaken(t, s)
    THEN /\ tstatus' = Put(tstatus, t, status)
         /\ slug' = Put(slug, t, s)
         /\ born' = IF Stored(t) THEN born
                    ELSE Put(born, t, Cardinality({u \in Tenants : Stored(u)}) + 1)
    ELSE /\ Backend = "mysql" /\ ~Stored(t)
         /\ tstatus' = [u \in Tenants |->
                           IF Stored(u) /\ slug[u] = s THEN status ELSE tstatus[u]]
         /\ UNCHANGED <<slug, born>>

UpsertTenantRaises(t, s) == SlugTaken(t, s) /\ (Backend = "sqlite" \/ Stored(t))

UpsertRuntime(t, n, status) ==
    /\ rstatus' = Put(rstatus, t, status)
    /\ rname' = Put(rname, t, n)

-----------------------------------------------------------------------------
(* A tool: the next command, the next task of the command, the next step   *)
(* of the task's script.                                                   *)

stepFrame == <<bot, commands, faults, history, syncedTo>>

Idle(p) == task[p] = NoTask /\ work[p] = {}

At(p, step) == task[p] # NoTask /\ Script[task[p].kind][at[p]] = step

EndTask(p) == task' = Put(task, p, NoTask) /\ at' = Put(at, p, 0)

Advance(p) ==
    /\ IF at[p] = Len(Script[task[p].kind])
       THEN EndTask(p)
       ELSE at' = Put(at, p, at[p] + 1) /\ UNCHANGED task
    /\ UNCHANGED work

\* The exception leaves the tool's main function.
Abort(p) ==
    /\ work' = Put(work, p, {})
    /\ EndTask(p)
    /\ syncedTo' = NoFile

TaskOf(kind, e) ==
    [kind |-> kind, tenant |-> e.tenant, name |-> NameOf[e.slug], slug |-> e.slug,
     account |-> e.account, session |-> e.session, chat |-> e.chat,
     settled |-> FALSE]

TaskFor(kind, t, n, settled) ==
    [kind |-> kind, tenant |-> t, name |-> n, slug |-> slug[t],
     account |-> NoAccount, session |-> NoSession, chat |-> NoChat,
     settled |-> settled]

\* A row of list_tenants, with the address of the runtime row joined to it.
Listing(t) == [tenant |-> t, name |-> rname[t]]

\* _disable_removed_tenant works from the rows listed when load_users began.
DropTask(t) ==
    TaskFor("drop", t, IF rname[t] # NoName THEN rname[t] ELSE NameOf[slug[t]],
            tstatus[t] = "disabled" /\ rstatus[t] = "stopped")

Begin(p, tasks, file) ==
    /\ Idle(p)
    /\ commands < MaxCommands
    /\ commands' = commands + 1
    /\ work' = Put(work, p, tasks)
    /\ IF \A q \in Tools : Idle(q)
       THEN syncedTo' = file /\ overlooked' = {}
       ELSE syncedTo' = NoFile /\ UNCHANGED overlooked
    /\ UNCHANGED <<database, docker, task, at, bot, faults, raced, given>>

TenantAdd(p) == \E e \in Entries : Begin(p, {TaskOf("add", e)}, NoFile)

ProvisionSelected(p) == \E e \in Entries : Begin(p, {TaskOf("register", e)}, NoFile)

TenantSetStatus(p) ==
    \E t \in Tenants, kind \in {"enable", "disable"} :
        Stored(t) /\ Begin(p, {TaskFor(kind, t, NoName, FALSE)}, NoFile)

Reconcile(p) ==
    LET active == {t \in Tenants : tstatus[t] = "active"} IN
    \E ts \in {active} \cup {{t} : t \in active} :
        Begin(p, {TaskFor("reconcile", t, NameOf[slug[t]], FALSE) : t \in ts}, NoFile)

\* The file says which tenants there are; all others are dropped.
LoadUsers(p) ==
    \E f \in Files :
        LET named == {e.tenant : e \in f} IN
        Begin(p,
              {TaskOf(IF e.status = "active" THEN "load" ELSE "unload", e) : e \in f}
                  \cup {DropTask(t) : t \in {u \in Tenants \ named : Stored(u)}},
              f)

\* The users of the file come before the tenants that are not in it; among
\* each, any order (of the file, of created_ts).
NextTask(p) ==
    /\ task[p] = NoTask
    /\ \E k \in work[p] :
        /\ k.kind = "drop" => \A j \in work[p] : j.kind = "drop"
        /\ task' = Put(task, p, k)
        /\ work' = Put(work, p, work[p] \ {k})
        /\ at' = Put(at, p, 1)
    /\ UNCHANGED <<database, docker, stepFrame>>

-----------------------------------------------------------------------------
(* The steps.                                                              *)

\* A tool that has checked an account which it has not stored yet; the login
\* by code and password lies in between.
LoggingIn(q, a) ==
    /\ task[q] # NoTask /\ task[q].account = a
    /\ at[q] > 1 /\ Script[task[q].kind][1] = "check"
    /\ \A i \in 1 .. at[q] - 1 : Script[task[q].kind][i] # "credentials"

CheckPhone(p) ==
    LET k == task[p] IN
    /\ At(p, "check")
    /\ ~Conflict(k.tenant, k.account)
    /\ raced' = IF \E q \in Tools : LoggingIn(q, k.account) /\ task[q].tenant # k.tenant
                THEN raced \cup {k.account} ELSE raced
    /\ Advance(p)
    /\ UNCHANGED <<database, docker, bot, commands, faults, given, overlooked,
                   syncedTo>>

CheckPhoneRefuses(p) ==
    /\ At(p, "check")
    /\ Conflict(task[p].tenant, task[p].account)
    /\ Abort(p)
    /\ UNCHANGED <<database, docker, bot, commands, faults, history>>

StoreTenant(p) ==
    /\ At(p, "tenant")
    /\ UpsertTenant(task[p].tenant, task[p].slug,
                    IF task[p].kind = "unload" THEN "disabled" ELSE "active")
    /\ Advance(p)
    /\ UNCHANGED <<cred, session, rstatus, rname, bound, enabled, docker,
                   stepFrame>>

StoreTenantRefused(p) ==
    /\ At(p, "tenant")
    /\ UpsertTenantRaises(task[p].tenant, task[p].slug)
    /\ Abort(p)
    /\ UNCHANGED <<database, docker, bot, commands, faults, history>>

StoreCredentials(p) ==
    /\ At(p, "credentials")
    /\ cred' = Put(cred, task[p].tenant, task[p].account)
    /\ session' = Put(session, task[p].tenant, task[p].session)
    /\ given' = [given EXCEPT ![task[p].session] = @ \cup {task[p].account}]
    /\ Advance(p)
    /\ UNCHANGED <<tstatus, slug, born, rstatus, rname, bound, enabled, docker, bot,
                   commands, faults, raced, overlooked, syncedTo>>

\* runtime_reconcile reads the credentials of the tenant, and skips a tenant
\* that has none.
ReadCredentials(p) ==
    /\ At(p, "read")
    /\ IF cred[task[p].tenant] = NoAccount
       THEN EndTask(p)
       ELSE /\ task' = [task EXCEPT ![p].account = cred[task[p].tenant],
                                    ![p].session = session[task[p].tenant]]
            /\ at' = Put(at, p, at[p] + 1)
    /\ UNCHANGED <<database, docker, work, stepFrame>>

\* They cannot be decrypted: the tenant is skipped as well.
DecryptFails(p) ==
    /\ At(p, "read")
    /\ cred[task[p].tenant] # NoAccount
    /\ faults < MaxFaults
    /\ faults' = faults + 1
    /\ EndTask(p)
    /\ UNCHANGED <<database, docker, work, bot, commands, history, syncedTo>>

\* _needs_recreate: of the settings that it compares only the session counts.
NeedsRecreate(n, x) == box[n] \notin {NoSession, x}

RunContainer(n, x, t) == box' = Put(box, n, x) /\ boxOf' = Put(boxOf, n, t)

\* ensure_tenant_container: a container with other settings is replaced, one
\* with these settings is left alone.
EnsureContainer(p) ==
    LET k == task[p] IN
    /\ At(p, "container")
    /\ IF box[k.name] = NoSession \/ NeedsRecreate(k.name, k.session)
       THEN RunContainer(k.name, k.session, k.tenant)
       ELSE UNCHANGED docker
    /\ Advance(p)
    /\ UNCHANGED <<database, stepFrame>>

\* What is left when docker raises: nothing was done yet, or docker has
\* removed the container that was to be replaced.
ContainerGone(p) ==
    /\ At(p, "container")
    /\ NeedsRecreate(task[p].name, task[p].session)
    /\ box' = Put(box, task[p].name, NoSession)

\* check_container_ready within its timeout or not, _finalize_runtime_status;
\* no container after "unload"; what reconcile says of an exception.
Outcomes(kind) ==
    IF kind = "unload" THEN {"stopped"}
    ELSE IF kind = "report" THEN {"error"}
    ELSE {"running", "starting"}

StoreRuntime(p) ==
    LET k == task[p] IN
    /\ At(p, "runtime")
    /\ \E status \in Outcomes(k.kind) : UpsertRuntime(k.tenant, k.name, status)
    /\ Advance(p)
    /\ UNCHANGED <<tstatus, slug, born, cred, session, bound, enabled, docker,
                   stepFrame>>

\* Mutant of BindBaleUser: a chat that is bound already stays where it is.
Bug_BindOnce(p) ==
    /\ At(p, "bind")
    /\ bound' = IF bound[task[p].chat] = NoTenant
                THEN Put(bound, task[p].chat, task[p].tenant) ELSE bound
    /\ enabled' = enabled \cup {task[p].chat}
    /\ Advance(p)
    /\ UNCHANGED <<tstatus, slug, born, cred, session, rstatus, rname, docker,
                   stepFrame>>

BindBaleUser(p) ==
    /\ At(p, "bind")
    /\ bound' = Put(bound, task[p].chat, task[p].tenant)
    /\ enabled' = enabled \cup {task[p].chat}
    /\ Advance(p)
    /\ UNCHANGED <<tstatus, slug, born, cred, session, rstatus, rname, docker,
                   stepFrame>>

DeactivateBindings(p) ==
    /\ At(p, "unbind")
    /\ enabled' = {c \in enabled : bound[c] # task[p].tenant}
    /\ Advance(p)
    /\ UNCHANGED <<tstatus, slug, born, cred, session, rstatus, rname, bound, docker,
                   stepFrame>>

\* set_tenant_status, the UPDATE of tenants: no row, no effect.
SetStatus(p) ==
    /\ At(p, "activate") \/ At(p, "disable")
    /\ tstatus' = IF Stored(task[p].tenant)
                  THEN Put(tstatus, task[p].tenant,
                           IF At(p, "activate") THEN "active" ELSE "disabled")
                  ELSE tstatus
    /\ Advance(p)
    /\ UNCHANGED <<slug, born, cred, session, rstatus, rname, bound, enabled, docker,
                   stepFrame>>

\* Mutant of HaltRuntime: writes the status of the tenant.
Bug_HaltWritesStatus(p) ==
    /\ At(p, "halt")
    /\ rstatus' = Put(rstatus, task[p].tenant, "disabled")
    /\ Advance(p)
    /\ UNCHANGED <<tstatus, slug, born, cred, session, rname, bound, enabled, docker,
                   stepFrame>>

\* set_tenant_status, the UPDATE of tenant_runtime that follows "disabled".
HaltRuntime(p) ==
    /\ At(p, "halt")
    /\ rstatus' = IF rname[task[p].tenant] # NoName
                  THEN Put(rstatus, task[p].tenant, "stopped")
                  ELSE rstatus
    /\ Advance(p)
    /\ UNCHANGED <<tstatus, slug, born, cred, session, rname, bound, enabled, docker,
                   stepFrame>>

\* _disable_removed_tenant is done when it saw no container and the listed row
\* was disabled and stopped.
AfterRemoval(p, seen) ==
    IF ~seen /\ task[p].settled
    THEN EndTask(p) /\ UNCHANGED work
    ELSE Advance(p)

\* stop_and_remove_tenant_container: docker inspect, and docker rm if there is
\* a container.
RemoveContainer(p) ==
    LET n == task[p].name IN
    /\ At(p, "remove")
    /\ box' = Put(box, n, NoSession)
    /\ AfterRemoval(p, box[n] # NoSession)
    /\ UNCHANGED <<database, boxOf, stepFrame>>

\* A docker inspect that fails for whatever reason says "no container": a tool
\* goes on as if it were gone.
InspectFails(p) ==
    LET n == task[p].name IN
    /\ At(p, "remove")
    /\ box[n] # NoSession
    /\ faults < MaxFaults
    /\ faults' = faults + 1
    /\ overlooked' = overlooked \cup {n}
    /\ AfterRemoval(p, FALSE)
    /\ UNCHANGED <<database, docker, bot, commands, raced, given, syncedTo>>

\* Any step may raise.  runtime_reconcile reports what went wrong with the
\* container and takes the next tenant; everything else ends the tool.
StepRaises(p) ==
    LET k == task[p] IN
    /\ k # NoTask
    /\ faults < MaxFaults
    /\ faults' = faults + 1
    /\ UNCHANGED box \/ ContainerGone(p)
    /\ IF k.kind = "reconcile" /\ ~At(p, "read")
       THEN /\ task' = Put(task, p, [k EXCEPT !.kind = "report"])
            /\ at' = Put(at, p, 1)
            /\ UNCHANGED <<work, syncedTo>>
       ELSE Abort(p)
    /\ UNCHANGED <<database, boxOf, bot, commands, history>>

ToolStep(p) ==
    \/ NextTask(p)
    \/ CheckPhone(p) \/ CheckPhoneRefuses(p)
    \/ StoreTenant(p) \/ StoreTenantRefused(p)
    \/ StoreCredentials(p) \/ ReadCredentials(p) \/ DecryptFails(p)
    \/ EnsureContainer(p) \/ RemoveContainer(p) \/ InspectFails(p)
    \/ StoreRuntime(p) \/ HaltRuntime(p)
    \/ BindBaleUser(p) \/ DeactivateBindings(p)
    \/ SetStatus(p)

Command(p) ==
    \/ TenantAdd(p) \/ ProvisionSelected(p)
    \/ TenantSetStatus(p) \/ Reconcile(p) \/ LoadUsers(p)

-----------------------------------------------------------------------------
(* The bot: health probe and routing.                                      *)

botFrame == <<docker, tools, commands, history, syncedTo>>

\* Mutant of ProbeList: only the tenants that were well the last time.
Bug_ProbeListRunning ==
    /\ listed = {} /\ probed = NoRow
    /\ listed' = {Listing(t) : t \in {u \in Tenants : /\ tstatus[u] = "active"
                                                     /\ rstatus[u] \in {"running", "starting"}}}
    /\ UNCHANGED <<database, probed, jobs, faults, botFrame>>

\* _probe_all_tenants_health lists the tenants once ...
ProbeList ==
    /\ listed = {} /\ probed = NoRow
    /\ listed' = {Listing(t) : t \in {u \in Tenants : tstatus[u] = "active" /\ rname[u] # NoName}}
    /\ UNCHANGED <<database, probed, jobs, faults, botFrame>>

\* ... asks the service of one after the other ...
ProbeGet ==
    /\ probed = NoRow
    /\ \E row \in listed :
        /\ listed' = listed \ {row}
        /\ \E verdict \in Verdicts :
            /\ probed' = [row |-> row, verdict |-> verdict]
            /\ IF box[row.name] = NoSession
               THEN verdict = "unhealthy" /\ UNCHANGED faults
               ELSE \/ verdict = "running" /\ UNCHANGED faults
                    \/ /\ verdict # "running" /\ faults < MaxFaults
                       /\ faults' = faults + 1
    /\ UNCHANGED <<database, jobs, botFrame>>

\* ... and writes the listed address back with the answer.
ProbeWrite ==
    /\ probed # NoRow
    /\ UpsertRuntime(probed.row.tenant, probed.row.name, probed.verdict)
    /\ probed' = NoRow
    /\ UNCHANGED <<tstatus, slug, born, cred, session, bound, enabled, listed, jobs,
                   faults, botFrame>>

\* A storage call of the probe raises: the rest of the round is skipped.
ProbeRaises ==
    /\ probed # NoRow
    /\ faults < MaxFaults
    /\ faults' = faults + 1
    /\ probed' = NoRow
    /\ listed' = {}
    /\ UNCHANGED <<database, jobs, botFrame>>

\* resolve_tenant_binding finds an active binding of a tenant that exists, and
\* _handle_message lets it pass.
Routable(c) ==
    /\ c \in enabled
    /\ LET t == bound[c] IN
        /\ tstatus[t] = "active"
        /\ rstatus[t] \in {"running", "starting"}
        /\ rname[t] # NoName

\* The job carries the address from now on.
Route(c) ==
    /\ Routable(c)
    /\ Cardinality(jobs[c]) < MaxJobs
    /\ jobs' = Put(jobs, c, jobs[c] \cup {Listing(bound[c])})
    /\ UNCHANGED <<database, listed, probed, faults, botFrame>>

\* Some time later it is relayed there.
Relay(c) ==
    /\ \E row \in jobs[c] : jobs' = Put(jobs, c, jobs[c] \ {row})
    /\ UNCHANGED <<database, listed, probed, faults, botFrame>>

ProbeStep == ProbeList \/ ProbeGet \/ ProbeWrite

-----------------------------------------------------------------------------

Next ==
    \/ \E p \in Tools : Command(p) \/ ToolStep(p) \/ StepRaises(p)
    \/ ProbeStep \/ ProbeRaises
    \/ \E c \in Chats : Route(c) \/ Relay(c)

Spec == Init /\ [][Next]_vars

\* The probe, a task of the bot, goes round.  The operator need not start
\* anything, and nothing below needs a tool to come to its end.
Fairness == WF_vars(ProbeStep)

FairSpec == Spec /\ Fairness

-----------------------------------------------------------------------------
(* Safety                                                                  *)

\* A binding is written last: whoever is bound to a tenant finds its row, its
\* address and its credentials, wherever the tool that bound it, an earlier
\* or a later one has failed.
BoundIsComplete ==
    \A c \in Chats :
        bound[c] # NoTenant =>
            /\ Stored(bound[c])
            /\ rname[bound[c]] # NoName
            /\ cred[bound[c]] # NoAccount

\* No container is out of reach: the tenant it was run for has a row and
\* credentials, so that load_users can drop it and reconcile can rebuild it,
\* also when the tool failed right after docker run.
ContainerIsKnown ==
    \A n \in Names :
        box[n] # NoSession =>
            Stored(boxOf[n]) /\ NameOf[slug[boxOf[n]]] = n /\ cred[boxOf[n]] # NoAccount

\* A request is relayed to the session of its own tenant, however old the
\* address is that it carries.
RelayReachesOwnTenant ==
    \A c \in Chats : \A row \in jobs[c] :
        box[row.name] # NoSession => boxOf[row.name] = row.tenant

\* A session that was only ever stored for one account, and no two tools were
\* inside a login for that account at the same time.
Unambiguous(x) == \A a, b \in given[x] : a = b /\ a \notin raced

\* One Telegram session does not run in two containers at the same time.  The
\* tools see to it by comparing accounts, before the login and not again: the
\* exceptions are a session that was given under two phone numbers or api ids,
\* and two tools that checked the same account side by side.
OneContainerPerSession ==
    \A m, n \in Names :
        box[m] = box[n] /\ box[m] # NoSession /\ Unambiguous(box[m]) => m = n

Synced == syncedTo # NoFile /\ \A p \in Tools : Idle(p)

ActiveIn(f) == {e \in f : e.status = "active"}

\* A load_users that ran alone and to its end leaves the active tenants, the
\* bindings and the containers its file asks for, whatever commands that failed
\* half way had left behind before.  A container that nobody asked for still
\* runs only where docker inspect failed in this very run.
SyncConverges ==
    Synced =>
        /\ \A e \in ActiveIn(syncedTo) :
              /\ box[NameOf[e.slug]] = e.session
              /\ bound[e.chat] = e.tenant /\ e.chat \in enabled
        /\ \A n \in Names :
              box[n] # NoSession =>
                  n \in overlooked \/ \E e \in ActiveIn(syncedTo) : NameOf[e.slug] = n
        /\ \A t \in Tenants :
              tstatus[t] = "active" <=> \E e \in ActiveIn(syncedTo) : e.tenant = t

\* The address in the runtime row of an active tenant is the one its slug
\* stands for, once no tool runs and the probe has nothing left to write.
AddressIsCurrent ==
    (\A p \in Tools : Idle(p)) /\ probed = NoRow /\ listed = {} =>
        \A t \in Tenants :
            tstatus[t] = "active" /\ rname[t] # NoName => rname[t] = NameOf[slug[t]]

(* Liveness                                                                *)

NoMoreTrouble == faults = MaxFaults /\ commands = MaxCommands

\* Once the tools are done and the services answer, every active tenant with
\* an active binding and a container is served again, whatever "stopped",
\* "error" or "unhealthy" its row said.
ProbeHeals ==
    \A c \in Chats :
        (/\ NoMoreTrouble /\ \A p \in Tools : Idle(p)
         /\ c \in enabled /\ tstatus[bound[c]] = "active"
         /\ box[rname[bound[c]]] # NoSession)
            ~> Routable(c)
=============================================================================
