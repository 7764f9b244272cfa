------------------------- MODULE ControlPlaneProofs -------------------------
(***************************************************************************)
(* Proofs about ControlPlane for all tenants, tools, entries and bounds.   *)
(***************************************************************************)
EXTENDS ControlPlane, FiniteSetTheorems, TLAPS

USE ConstantAssumption, NullAssumption

-----------------------------------------------------------------------------
(* The scripts: which kinds of tasks have a step, and what came before it. *)

\* Tasks made from an entry, which names slug, account and chat.
Entered == {"add", "register", "load", "unload"}

\* Tasks that may write a runtime row or remove a container.
Addressed == Entered \cup {"drop", "reconcile", "report"}

Before(kind, i, step) == \E j \in 1 .. i - 1 : Script[kind][j] = step

\* The scripts written out.
ScriptIs(kind, steps) ==
    /\ Len(Script[kind]) = Len(steps)
    /\ \A i \in 1 .. Len(steps) : Script[kind][i] = steps[i]

\* The scripts that end with a binding, step by step.
LEMMA Provisioning ==
    /\ ScriptIs("add", <<"check", "tenant", "credentials", "container", "runtime", "bind">>)
    /\ ScriptIs("register", <<"check", "tenant", "credentials", "container", "runtime",
                              "bind", "activate">>)
    /\ ScriptIs("load", <<"tenant", "credentials", "container", "runtime", "bind",
                          "activate">>)
<1>1. /\ Script["add"] = <<"check">> \o Provision
      /\ Script["register"] = (<<"check">> \o Provision) \o <<"activate">>
      /\ Script["load"] = Provision \o <<"activate">>
  BY DEF Script
<1>2. ScriptIs("add", <<"check", "tenant", "credentials", "container", "runtime", "bind">>)
  BY <1>1 DEF ScriptIs, Provision
<1>3. ScriptIs("load", <<"tenant", "credentials", "container", "runtime", "bind",
                         "activate">>)
  BY <1>1 DEF ScriptIs, Provision
<1>4. ScriptIs("register", <<"check", "tenant", "credentials", "container", "runtime",
                             "bind", "activate">>)
  BY <1>1 DEF ScriptIs, Provision
<1> QED BY <1>2, <1>3, <1>4

\* The remaining scripts, step by step.
LEMMA OtherScripts ==
    /\ ScriptIs("unload", <<"tenant", "unbind", "remove", "disable", "halt", "runtime">>)
    /\ ScriptIs("drop", <<"remove", "unbind", "disable", "halt">>)
    /\ ScriptIs("enable", <<"activate">>)
    /\ ScriptIs("disable", <<"disable", "halt">>)
    /\ ScriptIs("reconcile", <<"read", "container", "runtime">>)
    /\ ScriptIs("report", <<"runtime">>)
  BY DEF ScriptIs, Script

\* There are no other kinds of tasks.
LEMMA KindsAre ==
    Kinds = Entered \cup {"drop", "enable", "disable", "reconcile", "report"}
  BY DEF Kinds, Script, Entered

\* Where the steps that write something are, and what is behind them.
LEMMA StepPlaces ==
    ASSUME NEW kind \in Kinds, NEW i \in 1 .. Len(Script[kind])
    PROVE  LET step == Script[kind][i] IN
           /\ step \in {"check", "tenant", "credentials", "bind"} => kind \in Entered
           /\ step \in {"container", "runtime", "remove"} => kind \in Addressed
           /\ step = "container" =>
                \/ Before(kind, i, "tenant") /\ Before(kind, i, "credentials")
                \/ kind = "reconcile" /\ Before(kind, i, "read")
           /\ step = "bind" => /\ Before(kind, i, "tenant")
                               /\ Before(kind, i, "credentials")
                               /\ Before(kind, i, "runtime")
           /\ step = "read" => kind = "reconcile"
           /\ step = "runtime" => \/ kind \in Entered /\ Before(kind, i, "tenant")
                                  \/ kind \in {"reconcile", "report"}
<1> USE DEF Before, Entered, Addressed, ScriptIs
<1>1. CASE kind = "add" BY <1>1, Provisioning
<1>2. CASE kind = "register"
  <2>1. /\ Len(Script[kind]) = 7
        /\ Script[kind][1] = "check" /\ Script[kind][2] = "tenant"
        /\ Script[kind][3] = "credentials" /\ Script[kind][4] = "container"
        /\ Script[kind][5] = "runtime" /\ Script[kind][6] = "bind"
        /\ Script[kind][7] = "activate"
    BY <1>2, Provisioning
  <2> QED BY <1>2, <2>1
<1>3. CASE kind = "load" BY <1>3, Provisioning
<1>4. CASE kind = "unload" BY <1>4, OtherScripts
<1>5. CASE kind = "drop" BY <1>5, OtherScripts
<1>6. CASE kind = "enable" BY <1>6, OtherScripts
<1>7. CASE kind = "disable" BY <1>7, OtherScripts
<1>8. CASE kind = "reconcile" BY <1>8, OtherScripts
<1>9. CASE kind = "report" BY <1>9, OtherScripts
<1> QED BY <1>1, <1>2, <1>3, <1>4, <1>5, <1>6, <1>7, <1>8, <1>9, KindsAre

-----------------------------------------------------------------------------
(* Type correctness.  It needs to know what a task is made of, where its   *)
(* tool is, and that addresses and slugs are there when they are read.     *)

TaskOK(k) ==
    /\ k.kind \in Entered =>
         /\ k.slug \in Slugs /\ k.chat \in Chats
         /\ k.account \in Accounts /\ k.session \in Sessions
    /\ k.kind \in Addressed => k.name \in Names

PlaceOK(p) ==
    task[p] # NoTask =>
        /\ task[p] \in Task
        /\ TaskOK(task[p])
        /\ at[p] \in 1 .. Len(Script[task[p].kind])
        /\ Before(task[p].kind, at[p], "read") =>
             task[p].account \in Accounts /\ task[p].session \in Sessions

ToolsOK ==
    /\ work \in [Tools -> SUBSET Task]
    /\ task \in [Tools -> Task \cup {NoTask}]
    /\ at \in [Tools -> Nat]
    /\ \A p \in Tools : PlaceOK(p)
    /\ \A p \in Tools : \A k \in work[p] : TaskOK(k)

RowsOK ==
    /\ \A t \in Tenants : Stored(t) => slug[t] \in Slugs
    /\ \A t \in Tenants : cred[t] # NoAccount => session[t] \in Sessions
    /\ \A c \in enabled : bound[c] \in Tenants
    /\ \A row \in listed : row.name \in Names
    /\ probed # NoRow => probed.row.name \in Names

TypeInv == TypeOK /\ ToolsOK /\ RowsOK

\* A step further back is behind, too.
LEMMA BeforeNext ==
    ASSUME NEW kind \in Kinds, NEW i \in 1 .. Len(Script[kind]), NEW step
    PROVE  Before(kind, i + 1, step) <=> Before(kind, i, step) \/ Script[kind][i] = step
<1>1. i \in Nat /\ i >= 1 OBVIOUS
<1>2. 1 .. (i + 1) - 1 = (1 .. i - 1) \cup {i} BY <1>1
<1> QED BY <1>2 DEF Before

\* Nothing is behind a tool at the first step.
LEMMA NothingBefore == \A kind, step : ~Before(kind, 1, step)
  BY DEF Before

\* Every script has a step.
LEMMA ScriptsBegin == \A kind \in Kinds : Len(Script[kind]) \in Nat /\ Len(Script[kind]) >= 1
  BY Provisioning, OtherScripts, KindsAre DEF ScriptIs, Entered

\* What a tool at a step has in hand.
LEMMA TaskInHand ==
    ASSUME ToolsOK, NEW p \in Tools, task[p] # NoTask
    PROVE  /\ task[p] \in Task /\ TaskOK(task[p])
           /\ task[p].kind \in Kinds /\ task[p].tenant \in Tenants
           /\ at[p] \in 1 .. Len(Script[task[p].kind])
  BY DEF ToolsOK, PlaceOK, Task

\* The ways in which a tool goes on keep the tools in order.
LEMMA AdvanceOK ==
    ASSUME ToolsOK, NEW p \in Tools, task[p] # NoTask, ~At(p, "read"), Advance(p)
    PROVE  ToolsOK'
<1> DEFINE kind == task[p].kind
<1>1. kind \in Kinds /\ at[p] \in 1 .. Len(Script[kind]) /\ Len(Script[kind]) \in Nat
  BY TaskInHand, ScriptsBegin
<1>2. /\ work' \in [Tools -> SUBSET Task]
      /\ task' \in [Tools -> Task \cup {NoTask}]
      /\ at' \in [Tools -> Nat]
      /\ work' = work
      /\ \A q \in Tools \ {p} : task'[q] = task[q] /\ at'[q] = at[q]
  <2>1. CASE at[p] = Len(Script[kind])
    <3>1. /\ task' = [task EXCEPT ![p] = NoTask] /\ at' = [at EXCEPT ![p] = 0]
          /\ UNCHANGED work
      BY <2>1 DEF Advance, EndTask, Put
    <3> QED BY <3>1 DEF ToolsOK
  <2>2. CASE at[p] # Len(Script[kind])
    <3>1. at' = [at EXCEPT ![p] = at[p] + 1] /\ UNCHANGED <<task, work>>
      BY <2>2 DEF Advance, Put
    <3>2. at[p] + 1 \in Nat BY DEF ToolsOK
    <3> QED BY <3>1, <3>2 DEF ToolsOK
  <2> QED BY <2>1, <2>2
<1>3. PlaceOK(p)'
  <2>1. CASE at[p] = Len(Script[kind])
    <3>1. task'[p] = NoTask BY <2>1 DEF ToolsOK, Advance, EndTask, Put
    <3> QED BY <3>1 DEF PlaceOK
  <2>2. CASE at[p] # Len(Script[kind])
    <3>1. task'[p] = task[p] /\ at'[p] = at[p] + 1
      BY <2>2 DEF ToolsOK, Advance, Put
    <3>2. at[p] + 1 \in 1 .. Len(Script[kind]) BY <1>1, <2>2
    <3>3. Before(kind, at[p] + 1, "read") => Before(kind, at[p], "read")
      BY <1>1, BeforeNext DEF At
    <3> QED BY <3>1, <3>2, <3>3 DEF ToolsOK, PlaceOK
  <2> QED BY <2>1, <2>2
<1>4. \A q \in Tools : PlaceOK(q)' BY <1>2, <1>3 DEF ToolsOK, PlaceOK
<1> QED BY <1>2, <1>4 DEF ToolsOK

\* A tool that is through with its task, or with all of them.
LEMMA EndTaskOK ==
    ASSUME ToolsOK, NEW p \in Tools, EndTask(p),
           UNCHANGED work \/ work' = Put(work, p, {})
    PROVE  ToolsOK'
<1>1. /\ work' \in [Tools -> SUBSET Task]
      /\ task' \in [Tools -> Task \cup {NoTask}]
      /\ at' \in [Tools -> Nat]
      /\ \A q \in Tools : work'[q] \subseteq work[q]
      /\ \A q \in Tools \ {p} : task'[q] = task[q] /\ at'[q] = at[q]
      /\ task'[p] = NoTask
  BY DEF ToolsOK, EndTask, Put
<1>2. \A q \in Tools : PlaceOK(q)' BY <1>1 DEF ToolsOK, PlaceOK
<1> QED BY <1>1, <1>2 DEF ToolsOK

\* A tool that takes a task in hand, or changes the one it has.
LEMMA TakeOK ==
    ASSUME ToolsOK, NEW p \in Tools, NEW k \in Task, NEW i \in Nat, TaskOK(k),
           i \in 1 .. Len(Script[k.kind]),
           Before(k.kind, i, "read") => k.account \in Accounts /\ k.session \in Sessions,
           task' = Put(task, p, k), at' = Put(at, p, i),
           \A q \in Tools : work'[q] \subseteq work[q],
           work' \in [Tools -> SUBSET Task]
    PROVE  ToolsOK'
<1>1. /\ task' \in [Tools -> Task \cup {NoTask}]
      /\ at' \in [Tools -> Nat]
      /\ \A q \in Tools \ {p} : task'[q] = task[q] /\ at'[q] = at[q]
      /\ task'[p] = k /\ at'[p] = i
  BY DEF ToolsOK, Put
<1>2. PlaceOK(p)' BY <1>1 DEF PlaceOK
<1>3. \A q \in Tools \ {p} : PlaceOK(q)' BY <1>1 DEF ToolsOK, PlaceOK
<1> QED BY <1>1, <1>2, <1>3 DEF ToolsOK

\* Tasks as the commands make them.
LEMMA MadeTasks ==
    ASSUME TypeOK, RowsOK
    PROVE  /\ \A e \in Entries, kind \in Entered :
                TaskOf(kind, e) \in Task /\ TaskOK(TaskOf(kind, e))
           /\ \A t \in Tenants :
                Stored(t) =>
                    /\ \A kind \in {"enable", "disable"} :
                            TaskFor(kind, t, NoName, FALSE) \in Task
                            /\ TaskOK(TaskFor(kind, t, NoName, FALSE))
                    /\ LET k == TaskFor("reconcile", t, NameOf[slug[t]], FALSE)
                       IN  k \in Task /\ TaskOK(k)
                    /\ DropTask(t) \in Task /\ TaskOK(DropTask(t))
<1> USE KindsAre DEF Task, TaskOK, Entered, Addressed
<1>1. ASSUME NEW e \in Entries, NEW kind \in Entered
      PROVE  TaskOf(kind, e) \in Task /\ TaskOK(TaskOf(kind, e))
  <2>1. e \in EntryType OBVIOUS
  <2> QED BY <2>1 DEF EntryType, TaskOf
<1>2. ASSUME NEW t \in Tenants, Stored(t)
      PROVE  slug[t] \in Slugs /\ rname[t] \in Names \cup {NoName}
             /\ NameOf[slug[t]] \in Names
  BY <1>2 DEF TypeOK, RowsOK
<1> QED BY <1>1, <1>2 DEF TaskFor, DropTask

\* A command that hands out proper tasks keeps the tools in order.
LEMMA BeginOK ==
    ASSUME TypeInv, NEW p \in Tools, NEW tasks, NEW file \in Files \cup {NoFile},
           \A k \in tasks : k \in Task /\ TaskOK(k),
           Begin(p, tasks, file)
    PROVE  TypeInv'
<1> USE DEF TypeInv, database, docker, bot, history
<1>1. work' = Put(work, p, tasks) /\ UNCHANGED <<task, at>> BY DEF Begin
<1>2. ToolsOK'
  <2>1. work' \in [Tools -> SUBSET Task] BY <1>1 DEF ToolsOK, Put
  <2>2. \A q \in Tools : \A k \in work'[q] : TaskOK(k) BY <1>1 DEF ToolsOK, Put
  <2> QED BY <1>1, <2>1, <2>2 DEF ToolsOK, PlaceOK
<1>3. RowsOK' BY DEF Begin, RowsOK, Stored
<1>4. TypeOK'
  <2>1. work' \in [Tools -> SUBSET Task] BY <1>2 DEF ToolsOK
  <2> QED BY <2>1 DEF Begin, TypeOK
<1> QED BY <1>2, <1>3, <1>4

\* All commands do.
LEMMA CommandOK ==
    ASSUME TypeInv, NEW p \in Tools, Command(p)
    PROVE  TypeInv'
<1>0. TypeOK /\ RowsOK BY DEF TypeInv
<1>1. CASE TenantAdd(p) \/ ProvisionSelected(p)
  <2>1. PICK e \in Entries, kind \in {"add", "register"} :
            Begin(p, {TaskOf(kind, e)}, NoFile)
    BY <1>1 DEF TenantAdd, ProvisionSelected
  <2> QED BY <1>0, <2>1, MadeTasks, BeginOK DEF Entered
<1>2. CASE TenantSetStatus(p)
  <2>1. PICK t \in Tenants, kind \in {"enable", "disable"} :
            Stored(t) /\ Begin(p, {TaskFor(kind, t, NoName, FALSE)}, NoFile)
    BY <1>2 DEF TenantSetStatus
  <2>2. PICK ks : ks = {TaskFor(kind, t, NoName, FALSE)} OBVIOUS
  <2>3. \A k \in ks : k \in Task /\ TaskOK(k) BY <1>0, <2>1, <2>2, MadeTasks
  <2>4. Begin(p, ks, NoFile) BY <2>1, <2>2
  <2> QED BY <2>3, <2>4, BeginOK
<1>3. CASE Reconcile(p)
  <2>1. PICK ts \in SUBSET {t \in Tenants : tstatus[t] = "active"} :
            Begin(p, {TaskFor("reconcile", t, NameOf[slug[t]], FALSE) : t \in ts}, NoFile)
    BY <1>3 DEF Reconcile
  <2>2. PICK ks : ks = {TaskFor("reconcile", t, NameOf[slug[t]], FALSE) : t \in ts}
    OBVIOUS
  <2>3. \A t \in ts : t \in Tenants /\ Stored(t) BY DEF Stored
  <2>4. \A k \in ks : k \in Task /\ TaskOK(k) BY <1>0, <2>2, <2>3, MadeTasks
  <2> QED BY <2>1, <2>2, <2>4, BeginOK
<1>4. CASE LoadUsers(p)
  <2> DEFINE named(f) == {e.tenant : e \in f}
             loaded(f) == {TaskOf(IF e.status = "active" THEN "load" ELSE "unload", e) :
                                e \in f}
             dropped(f) == {DropTask(t) : t \in {u \in Tenants \ named(f) : Stored(u)}}
  <2>1. PICK f \in Files : Begin(p, loaded(f) \cup dropped(f), f)
    BY <1>4 DEF LoadUsers
  <2>2. \A e \in f : e \in Entries OBVIOUS
  <2>3. \A k \in loaded(f) \cup dropped(f) : k \in Task /\ TaskOK(k)
    BY <1>0, <2>2, MadeTasks DEF Entered
  <2> QED BY <2>1, <2>3, BeginOK
<1> QED BY <1>1, <1>2, <1>3, <1>4 DEF Command

\* What a tool's step may do to the rest: the tools go on in order, and the
\* rows it writes are rows.
LEMMA NextTaskOK ==
    ASSUME TypeInv, NEW p \in Tools, NextTask(p)
    PROVE  TypeInv'
<1> USE DEF TypeInv, database, docker, bot, history, stepFrame
<1>1. PICK k \in work[p] : /\ task' = Put(task, p, k)
                           /\ work' = Put(work, p, work[p] \ {k})
                           /\ at' = Put(at, p, 1)
  BY DEF NextTask
<1>2. k \in Task /\ TaskOK(k) BY DEF ToolsOK
<1>3. 1 \in 1 .. Len(Script[k.kind]) BY <1>2, ScriptsBegin DEF Task
<1>4. work' \in [Tools -> SUBSET Task] /\ \A q \in Tools : work'[q] \subseteq work[q]
  BY <1>1 DEF ToolsOK, Put
<1>5. ToolsOK' BY <1>1, <1>2, <1>3, <1>4, NothingBefore, TakeOK
<1>6. RowsOK' BY DEF NextTask, RowsOK, Stored
<1> QED BY <1>5, <1>6 DEF NextTask, TypeOK, ToolsOK

\* Storing a tenant leaves rows of the right type, with a slug in each.
LEMMA UpsertTenantOK ==
    ASSUME TypeOK, RowsOK, NEW t \in Tenants, NEW s \in Slugs,
           NEW status \in {"active", "disabled"}, UpsertTenant(t, s, status)
    PROVE  /\ tstatus' \in [Tenants -> TenantStatuses]
           /\ slug' \in [Tenants -> Slugs \cup {NoSlug}]
           /\ born' \in [Tenants -> Nat]
           /\ \A u \in Tenants : Stored(u)' => slug'[u] \in Slugs
           /\ \A u \in Tenants : Stored(u) => Stored(u)'
<1> DEFINE stored == {u \in Tenants : Stored(u)}
<1>1. Cardinality(stored) \in Nat
  <2>1. IsFiniteSet(stored) BY FS_Subset
  <2> QED BY <2>1, FS_CardinalityType
<1> HIDE DEF stored
<1>2. CASE ~SlugTaken(t, s)
  BY <1>1, <1>2 DEF UpsertTenant, TypeOK, RowsOK, Put, Stored, TenantStatuses, stored
<1>3. CASE SlugTaken(t, s)
  BY <1>3 DEF UpsertTenant, TypeOK, RowsOK, Stored, TenantStatuses
<1> QED BY <1>2, <1>3

\* The rows as they are read stay rows if nothing is lost of them.
LEMMA RowsStay ==
    ASSUME RowsOK,
           UNCHANGED <<tstatus, slug, cred, session, bound, enabled, listed, probed>>
    PROVE  RowsOK'
  BY DEF RowsOK, Stored

\* A task with the credentials that runtime_reconcile has read for it.
WithCredentials(k) ==
    [k EXCEPT !.account = cred[k.tenant], !.session = session[k.tenant]]

\* Type correctness under the steps of a tool ...
LEMMA ToolStepOK ==
    ASSUME TypeInv, NEW p \in Tools, ToolStep(p)
    PROVE  TypeInv'
<1> USE DEF TypeInv, database, docker, bot, history, stepFrame, Put
<1>1. CASE NextTask(p) BY <1>1, NextTaskOK
<1>2. SUFFICES ASSUME ~NextTask(p) PROVE TypeInv' BY <1>1
<1>3. task[p] # NoTask
  BY <1>2 DEF ToolStep, At, CheckPhone, CheckPhoneRefuses, StoreTenant,
     StoreTenantRefused, StoreCredentials, ReadCredentials, DecryptFails,
     EnsureContainer, RemoveContainer, InspectFails, StoreRuntime, HaltRuntime,
     BindBaleUser, DeactivateBindings, SetStatus
<1>4. PICK k \in Task : k = task[p] BY <1>3, TaskInHand
<1> DEFINE step == Script[k.kind][at[p]]
<1>5. /\ TaskOK(k) /\ k.kind \in Kinds /\ k.tenant \in Tenants
      /\ at[p] \in 1 .. Len(Script[k.kind])
  BY <1>3, <1>4, TaskInHand
<1>6. /\ step \in {"check", "tenant", "credentials", "bind"} =>
            /\ k.slug \in Slugs /\ k.chat \in Chats
            /\ k.account \in Accounts /\ k.session \in Sessions
      /\ step \in {"container", "runtime", "remove"} => k.name \in Names
      /\ step = "container" => k.session \in Sessions
  <2>1. step = "container" => k.kind \in Entered \/ Before(k.kind, at[p], "read")
    BY <1>5, StepPlaces DEF Before
  <2> QED BY <1>3, <1>4, <1>5, <2>1, StepPlaces DEF TaskOK, ToolsOK, PlaceOK
<1>7. \A s : At(p, s) <=> step = s BY <1>3, <1>4 DEF At
<1>8. ASSUME ToolsOK'
      PROVE  /\ work' \in [Tools -> SUBSET Task]
             /\ task' \in [Tools -> Task \cup {NoTask}]
             /\ at' \in [Tools -> Nat]
  BY <1>8 DEF ToolsOK
<1>9. ASSUME Advance(p), step # "read" PROVE ToolsOK'
  BY <1>3, <1>7, <1>9, AdvanceOK
<1>10. ASSUME Abort(p) PROVE ToolsOK' /\ syncedTo' \in Files \cup {NoFile}
  BY <1>10, EndTaskOK DEF Abort
<1>11. CASE CheckPhone(p)
  <2>1. ToolsOK' BY <1>7, <1>9, <1>11 DEF CheckPhone
  <2>2. RowsOK' BY <1>11, RowsStay DEF CheckPhone
  <2>3. raced' \subseteq Accounts
    BY <1>4, <1>6, <1>7, <1>11 DEF CheckPhone, TypeOK
  <2> QED BY <1>8, <1>11, <2>1, <2>2, <2>3 DEF CheckPhone, TypeOK
<1>12. CASE CheckPhoneRefuses(p) \/ StoreTenantRefused(p)
  <2>1. ToolsOK' /\ syncedTo' \in Files \cup {NoFile}
    BY <1>10, <1>12 DEF CheckPhoneRefuses, StoreTenantRefused
  <2>2. RowsOK' BY <1>12, RowsStay DEF CheckPhoneRefuses, StoreTenantRefused
  <2> QED BY <1>8, <1>12, <2>1, <2>2 DEF CheckPhoneRefuses, StoreTenantRefused, TypeOK
<1>13. CASE StoreTenant(p)
  <2>1. ToolsOK' BY <1>7, <1>9, <1>13 DEF StoreTenant
  <2>2. /\ tstatus' \in [Tenants -> TenantStatuses]
        /\ slug' \in [Tenants -> Slugs \cup {NoSlug}]
        /\ born' \in [Tenants -> Nat]
        /\ \A u \in Tenants : Stored(u)' => slug'[u] \in Slugs
    BY <1>4, <1>5, <1>6, <1>7, <1>13, UpsertTenantOK DEF StoreTenant
  <2>3. RowsOK' BY <1>13, <2>2 DEF StoreTenant, RowsOK
  <2> QED BY <1>8, <1>13, <2>1, <2>2, <2>3 DEF StoreTenant, TypeOK
<1>14. CASE StoreCredentials(p)
  <2>1. ToolsOK' BY <1>7, <1>9, <1>14 DEF StoreCredentials
  <2>2. /\ cred' = [cred EXCEPT ![k.tenant] = k.account] /\ k.account \in Accounts
        /\ session' = [session EXCEPT ![k.tenant] = k.session] /\ k.session \in Sessions
        /\ given' = [given EXCEPT ![k.session] = @ \cup {k.account}]
    BY <1>4, <1>6, <1>7, <1>14 DEF StoreCredentials
  <2>3. /\ cred' \in [Tenants -> Accounts \cup {NoAccount}]
        /\ session' \in [Tenants -> Sessions \cup {NoSession}]
        /\ given' \in [Sessions -> SUBSET Accounts]
    BY <2>2 DEF TypeOK
  <2>4. \A t \in Tenants : cred'[t] # NoAccount => session'[t] \in Sessions
    BY <1>5, <2>2 DEF TypeOK, RowsOK
  <2>5. RowsOK' BY <1>14, <2>4 DEF StoreCredentials, RowsOK, Stored
  <2> QED BY <1>8, <1>14, <2>1, <2>3, <2>5 DEF StoreCredentials, TypeOK
<1>15. CASE EnsureContainer(p)
  <2>1. ToolsOK' BY <1>7, <1>9, <1>15 DEF EnsureContainer
  <2>2. RowsOK' BY <1>15, RowsStay DEF EnsureContainer
  <2>3. /\ box' \in [Names -> Sessions \cup {NoSession}]
        /\ boxOf' \in [Names -> Tenants \cup {NoTenant}]
    BY <1>4, <1>5, <1>6, <1>7, <1>15 DEF EnsureContainer, RunContainer, TypeOK
  <2> QED BY <1>8, <1>15, <2>1, <2>2, <2>3 DEF EnsureContainer, TypeOK
<1>16. CASE RemoveContainer(p) \/ InspectFails(p)
  <2>1. ToolsOK'
    BY <1>7, <1>9, <1>16, EndTaskOK DEF RemoveContainer, InspectFails, AfterRemoval
  <2>2. RowsOK' BY <1>16, RowsStay DEF RemoveContainer, InspectFails
  <2>3. /\ box' \in [Names -> Sessions \cup {NoSession}]
        /\ overlooked' \subseteq Names /\ faults' \in Nat
    <3>1. CASE RemoveContainer(p) BY <3>1 DEF RemoveContainer, TypeOK
    <3>2. CASE InspectFails(p)
      <4>1. k.name \in Names BY <1>6, <1>7, <3>2 DEF InspectFails
      <4> QED BY <1>4, <3>2, <4>1 DEF InspectFails, TypeOK
    <3> QED BY <1>16, <3>1, <3>2
  <2> QED BY <1>8, <1>16, <2>1, <2>2, <2>3 DEF RemoveContainer, InspectFails, TypeOK
<1>17. CASE StoreRuntime(p)
  <2>1. ToolsOK' BY <1>7, <1>9, <1>17 DEF StoreRuntime
  <2>2. RowsOK' BY <1>17, RowsStay DEF StoreRuntime
  <2>3. /\ rstatus' \in [Tenants -> RuntimeStatuses]
        /\ rname' \in [Tenants -> Names \cup {NoName}]
    BY <1>4, <1>5, <1>6, <1>7, <1>17
       DEF StoreRuntime, UpsertRuntime, Outcomes, RuntimeStatuses, TypeOK
  <2> QED BY <1>8, <1>17, <2>1, <2>2, <2>3 DEF StoreRuntime, TypeOK
<1>18. CASE HaltRuntime(p)
  <2>1. ToolsOK' BY <1>7, <1>9, <1>18 DEF HaltRuntime
  <2>2. RowsOK' BY <1>18, RowsStay DEF HaltRuntime
  <2>3. rstatus' \in [Tenants -> RuntimeStatuses]
    BY <1>18 DEF HaltRuntime, RuntimeStatuses, TypeOK
  <2> QED BY <1>8, <1>18, <2>1, <2>2, <2>3 DEF HaltRuntime, TypeOK
<1>19. CASE BindBaleUser(p)
  <2>1. ToolsOK' BY <1>7, <1>9, <1>19 DEF BindBaleUser
  <2>2. /\ bound' = [bound EXCEPT ![k.chat] = k.tenant]
        /\ enabled' = enabled \cup {k.chat} /\ k.chat \in Chats
    BY <1>4, <1>6, <1>7, <1>19 DEF BindBaleUser
  <2>3. /\ bound' \in [Chats -> Tenants \cup {NoTenant}] /\ enabled' \subseteq Chats
        /\ \A c \in enabled' : bound'[c] \in Tenants
    BY <1>5, <2>2 DEF TypeOK, RowsOK
  <2>4. RowsOK' BY <1>19, <2>3 DEF BindBaleUser, RowsOK, Stored
  <2> QED BY <1>8, <1>19, <2>1, <2>3, <2>4 DEF BindBaleUser, TypeOK
<1>20. CASE DeactivateBindings(p)
  <2>1. ToolsOK' BY <1>7, <1>9, <1>20 DEF DeactivateBindings
  <2>2. enabled' \subseteq enabled BY <1>20 DEF DeactivateBindings
  <2>3. RowsOK' BY <1>20, <2>2 DEF DeactivateBindings, RowsOK, Stored
  <2> QED BY <1>8, <1>20, <2>1, <2>2, <2>3 DEF DeactivateBindings, TypeOK
<1>21. CASE SetStatus(p)
  <2>1. ToolsOK' BY <1>7, <1>9, <1>21 DEF SetStatus
  <2>2. /\ tstatus' \in [Tenants -> TenantStatuses]
        /\ \A u \in Tenants : Stored(u)' => Stored(u)
    BY <1>21 DEF SetStatus, Stored, TenantStatuses, TypeOK
  <2>3. RowsOK' BY <1>21, <2>2 DEF SetStatus, RowsOK
  <2> QED BY <1>8, <1>21, <2>1, <2>2, <2>3 DEF SetStatus, TypeOK
<1>22. CASE ReadCredentials(p)
  <2>1. CASE cred[k.tenant] = NoAccount
    <3>1. EndTask(p) /\ UNCHANGED work BY <1>4, <1>22, <2>1 DEF ReadCredentials
    <3>2. ToolsOK' BY <3>1, EndTaskOK
    <3>3. RowsOK' BY <1>22, RowsStay DEF ReadCredentials
    <3> QED BY <1>8, <1>22, <3>2, <3>3 DEF ReadCredentials, TypeOK
  <2>2. CASE cred[k.tenant] # NoAccount
    <3> DEFINE new == WithCredentials(k)
    <3>1. /\ task' = Put(task, p, new) /\ at' = Put(at, p, at[p] + 1)
          /\ UNCHANGED work
      BY <1>4, <1>22, <2>2 DEF ReadCredentials, WithCredentials
    <3>2. cred[k.tenant] \in Accounts /\ session[k.tenant] \in Sessions
      BY <1>5, <2>2 DEF TypeOK, RowsOK
    <3>3. /\ new \in Task /\ new.kind = k.kind
          /\ new.account \in Accounts /\ new.session \in Sessions
          /\ TaskOK(new)
      BY <1>5, <3>2 DEF Task, TaskOK, WithCredentials
    <3> HIDE DEF new
    <3>4. k.kind = "reconcile" /\ step = "read" BY <1>5, <1>7, <1>22, StepPlaces
          DEF ReadCredentials
    <3>5. at[p] + 1 \in 1 .. Len(Script[k.kind])
      BY <1>5, <3>4, OtherScripts DEF ScriptIs
    <3>6. PICK n \in Task, i \in Nat : n = new /\ i = at[p] + 1 BY <3>3, <3>5
    <3>7. /\ TaskOK(n) /\ i \in 1 .. Len(Script[n.kind])
          /\ n.account \in Accounts /\ n.session \in Sessions
          /\ task' = Put(task, p, n) /\ at' = Put(at, p, i) /\ UNCHANGED work
      BY <3>1, <3>3, <3>5, <3>6
    <3>8. ToolsOK' BY <3>7, TakeOK DEF ToolsOK
    <3>9. RowsOK' BY <1>22, RowsStay DEF ReadCredentials
    <3> QED BY <1>8, <1>22, <3>8, <3>9 DEF ReadCredentials, TypeOK
  <2> QED BY <2>1, <2>2
<1>23. CASE DecryptFails(p)
  <2>1. ToolsOK' BY <1>23, EndTaskOK DEF DecryptFails
  <2>2. RowsOK' BY <1>23, RowsStay DEF DecryptFails
  <2>3. faults' \in Nat BY <1>23 DEF DecryptFails, TypeOK
  <2> QED BY <1>8, <1>23, <2>1, <2>2, <2>3 DEF DecryptFails, TypeOK
<1> QED
  BY <1>2, <1>11, <1>12, <1>13, <1>14, <1>15, <1>16, <1>17, <1>18, <1>19, <1>20,
     <1>21, <1>22, <1>23 DEF ToolStep

\* ... under its failure at any step ...
LEMMA StepRaisesOK ==
    ASSUME TypeInv, NEW p \in Tools, StepRaises(p)
    PROVE  TypeInv'
<1> USE DEF TypeInv, database, docker, bot, history
<1>1. task[p] # NoTask BY DEF StepRaises
<1>2. PICK k \in Task : k = task[p] /\ TaskOK(k) BY <1>1, TaskInHand
<1>3. ToolsOK' /\ syncedTo' \in Files \cup {NoFile}
  <2>1. CASE Abort(p) BY <2>1, EndTaskOK DEF Abort
  <2>2. CASE ~Abort(p)
    <3> DEFINE new == [k EXCEPT !.kind = "report"]
    <3>1. /\ k.kind = "reconcile"
          /\ task' = Put(task, p, new) /\ at' = Put(at, p, 1)
          /\ UNCHANGED <<work, syncedTo>>
      BY <1>2, <2>2 DEF StepRaises
    <3>2. new \in Task /\ new.kind = "report" /\ TaskOK(new)
      BY <1>2, <3>1, KindsAre DEF Task, TaskOK, Entered, Addressed
    <3>3. PICK n \in Task : n = new BY <3>2
    <3>4. 1 \in 1 .. Len(Script[n.kind]) BY ScriptsBegin DEF Task
    <3>5. TaskOK(n) /\ task' = Put(task, p, n) BY <3>1, <3>2, <3>3
    <3>6. ToolsOK'
      BY <3>1, <3>4, <3>5, NothingBefore, TakeOK DEF ToolsOK
    <3> QED BY <3>1, <3>6 DEF TypeOK
  <2> QED BY <2>1, <2>2
<1>4. RowsOK' BY RowsStay DEF StepRaises
<1>5. box' \in [Names -> Sessions \cup {NoSession}]
  BY DEF StepRaises, ContainerGone, Put, TypeOK
<1> QED BY <1>3, <1>4, <1>5 DEF StepRaises, TypeOK, ToolsOK

\* ... and under the steps of the bot.
LEMMA BotOK ==
    ASSUME TypeInv,
           \/ ProbeStep \/ ProbeRaises
           \/ \E c \in Chats : Route(c) \/ Relay(c)
    PROVE  TypeInv'
<1> USE DEF TypeInv, database, docker, tools, history, botFrame
<1>1. ToolsOK' <=> ToolsOK
  <2>1. UNCHANGED tools
    BY DEF ProbeStep, ProbeList, ProbeGet, ProbeWrite, ProbeRaises, Route, Relay
  <2> QED BY <2>1 DEF ToolsOK, PlaceOK
<1>2. CASE ProbeList
  <2>1. \A u \in Tenants : rname[u] # NoName =>
            Listing(u) \in Row /\ Listing(u).name \in Names
    BY DEF Listing, Row, TypeOK
  <2>2. listed' \subseteq Row /\ \A row \in listed' : row.name \in Names
    BY <1>2, <2>1 DEF ProbeList
  <2>3. RowsOK' BY <1>2, <2>2 DEF ProbeList, RowsOK, Stored
  <2> QED BY <1>1, <1>2, <2>2, <2>3 DEF ProbeList, TypeOK, ToolsOK
<1>3. CASE ProbeGet
  <2>1. PICK row \in listed, verdict \in Verdicts :
            listed' = listed \ {row} /\ probed' = [row |-> row, verdict |-> verdict]
    BY <1>3 DEF ProbeGet
  <2>2. faults' \in Nat BY <1>3 DEF ProbeGet, TypeOK
  <2>3. probed' \in [row : Row, verdict : Verdicts] /\ probed'.row.name \in Names
    BY <2>1 DEF TypeOK, RowsOK
  <2>4. RowsOK' BY <1>3, <2>1, <2>3 DEF ProbeGet, RowsOK, Stored
  <2> QED BY <1>1, <1>3, <2>1, <2>2, <2>3, <2>4 DEF ProbeGet, TypeOK, ToolsOK
<1>4. CASE ProbeWrite
  <2>1. PICK r \in [row : Row, verdict : Verdicts] : r = probed /\ r.row.name \in Names
    BY <1>4 DEF ProbeWrite, TypeOK, RowsOK
  <2>2. r.row.tenant \in Tenants /\ r.verdict \in RuntimeStatuses
    BY DEF Row, Verdicts, RuntimeStatuses
  <2>3. /\ rstatus' \in [Tenants -> RuntimeStatuses]
        /\ rname' \in [Tenants -> Names \cup {NoName}]
    BY <1>4, <2>1, <2>2 DEF ProbeWrite, UpsertRuntime, Put, TypeOK
  <2>4. RowsOK' BY <1>4 DEF ProbeWrite, RowsOK, Stored
  <2> QED BY <1>1, <1>4, <2>3, <2>4 DEF ProbeWrite, TypeOK, ToolsOK
<1>5. CASE ProbeRaises
  <2>1. RowsOK' BY <1>5 DEF ProbeRaises, RowsOK, Stored
  <2> QED BY <1>1, <1>5, <2>1 DEF ProbeRaises, TypeOK, ToolsOK
<1>6. ASSUME NEW c \in Chats, Route(c) \/ Relay(c) PROVE TypeInv'
  <2>1. jobs' \in [Chats -> SUBSET Row]
    <3>1. CASE Route(c)
      <4>1. bound[c] \in Tenants BY <3>1 DEF Route, Routable, RowsOK
      <4>2. Listing(bound[c]) \in Row BY <4>1 DEF Listing, Row, TypeOK
      <4> QED BY <3>1, <4>2 DEF Route, Put, TypeOK
    <3>2. CASE Relay(c) BY <3>2 DEF Relay, Put, TypeOK
    <3> QED BY <1>6, <3>1, <3>2
  <2>2. RowsOK' BY <1>6, RowsStay DEF Route, Relay
  <2> QED BY <1>1, <1>6, <2>1, <2>2 DEF Route, Relay, TypeOK, ToolsOK
<1> QED BY <1>2, <1>3, <1>4, <1>5, <1>6 DEF ProbeStep

\* What everybody may take for granted of the database, docker and the tools.
THEOREM TypeInvariance == Spec => []TypeInv
<1>1. Init => TypeInv
  BY DEF Init, TypeInv, TypeOK, ToolsOK, PlaceOK, RowsOK, Stored, TenantStatuses,
         RuntimeStatuses
<1>2. TypeInv /\ [Next]_vars => TypeInv'
  <2> SUFFICES ASSUME TypeInv, [Next]_vars PROVE TypeInv' OBVIOUS
  <2>1. CASE UNCHANGED vars
    BY <2>1 DEF vars, database, docker, tools, bot, history, TypeInv, TypeOK, ToolsOK,
       PlaceOK, RowsOK, Stored
  <2>2. ASSUME NEW p \in Tools, Command(p) \/ ToolStep(p) \/ StepRaises(p)
        PROVE  TypeInv'
    BY <2>2, CommandOK, ToolStepOK, StepRaisesOK
  <2>3. ASSUME \/ ProbeStep \/ ProbeRaises
               \/ \E c \in Chats : Route(c) \/ Relay(c)
        PROVE  TypeInv'
    BY <2>3, BotOK
  <2> QED BY <2>1, <2>2, <2>3 DEF Next
<1> QED BY <1>1, <1>2, PTL DEF Spec

\* Every row, container, task and address keeps its type, for any number of
\* tenants, tools and commands, on either database.
THEOREM TypeCorrect == Spec => []TypeOK
<1>1. TypeInv => TypeOK BY DEF TypeInv
<1> QED BY <1>1, TypeInvariance, PTL

-----------------------------------------------------------------------------
(* What a tool has done stays done: rows, credentials and addresses may be *)
(* overwritten but never go away.  On SQLite a tenant that could not be    *)
(* stored ends its tool, so that what is behind a tool has taken effect.   *)

Kept ==
    \A t \in Tenants :
        /\ Stored(t) => Stored(t)'
        /\ cred[t] # NoAccount => cred'[t] # NoAccount
        /\ rname[t] # NoName => rname'[t] # NoName

\* What the step a tool is at has done when it is over.
Effect(p) ==
    LET k == task[p]
        step == Script[k.kind][at[p]]
    IN  /\ step = "tenant" => tstatus'[k.tenant] # "absent"
        /\ step \in {"credentials", "read"} => cred'[k.tenant] # NoAccount
        /\ step = "runtime" => rname'[k.tenant] # NoName

ProgressOK(p) ==
    task[p] # NoTask =>
        LET k == task[p] IN
        /\ Before(k.kind, at[p], "tenant") => Stored(k.tenant)
        /\ Before(k.kind, at[p], "credentials") \/ Before(k.kind, at[p], "read")
                => cred[k.tenant] # NoAccount
        /\ Before(k.kind, at[p], "runtime") => rname[k.tenant] # NoName

Progress == \A p \in Tools : ProgressOK(p)

CompleteInv == Backend = "sqlite" /\ Progress /\ BoundIsComplete

\* A tool that takes the next step, and how the others see it.
GoesOn(p) ==
    /\ task[p] # NoTask
    /\ \/ task'[p] = NoTask
       \/ /\ task'[p] # NoTask
          /\ task'[p].kind = task[p].kind /\ task'[p].tenant = task[p].tenant
          /\ at'[p] = at[p] + 1
    /\ \A q \in Tools \ {p} : task'[q] = task[q] /\ at'[q] = at[q]

\* Progress, where the tools stay as they are.
LEMMA ProgressStays ==
    ASSUME TypeInv, Progress, Kept, UNCHANGED <<task, at>>
    PROVE  Progress'
<1> SUFFICES ASSUME NEW q \in Tools, task[q] # NoTask PROVE ProgressOK(q)'
  BY DEF Progress, ProgressOK
<1>1. task[q].tenant \in Tenants BY TaskInHand DEF TypeInv
<1> QED BY <1>1 DEF Progress, ProgressOK, Kept

\* Progress of a tool that another tool's step does not move.
LEMMA OthersProgress ==
    ASSUME TypeInv, Progress, Kept, NEW p \in Tools,
           NEW q \in Tools \ {p}, task'[q] = task[q], at'[q] = at[q]
    PROVE  ProgressOK(q)'
<1>1. CASE task[q] = NoTask BY <1>1 DEF ProgressOK
<1>2. CASE task[q] # NoTask
  <2>1. task[q].tenant \in Tenants BY <1>2, TaskInHand DEF TypeInv
  <2> QED BY <2>1 DEF Progress, ProgressOK, Kept
<1> QED BY <1>1, <1>2

\* Progress of a tool whose step has had its effect.
LEMMA ProgressGoesOn ==
    ASSUME TypeInv, Progress, Kept, NEW p \in Tools, GoesOn(p), Effect(p)
    PROVE  Progress'
<1>1. \A q \in Tools \ {p} : ProgressOK(q)' BY OthersProgress DEF GoesOn
<1>2. CASE task'[p] = NoTask BY <1>1, <1>2 DEF Progress, ProgressOK
<1>3. CASE task'[p] # NoTask
  <2>1. PICK k : k = task[p] OBVIOUS
  <2>2. PICK i : i = at[p] OBVIOUS
  <2>3. k.kind \in Kinds /\ k.tenant \in Tenants /\ i \in 1 .. Len(Script[k.kind])
    BY <2>1, <2>2, TaskInHand DEF GoesOn, TypeInv
  <2>4. task'[p].kind = k.kind /\ task'[p].tenant = k.tenant /\ at'[p] = i + 1
    BY <1>3, <2>1, <2>2 DEF GoesOn
  <2>5. \A step : Before(k.kind, i + 1, step)
                    <=> Before(k.kind, i, step) \/ Script[k.kind][i] = step
    BY <2>3, BeforeNext
  <2>6. /\ Before(k.kind, i, "tenant") => Stored(k.tenant)
        /\ Before(k.kind, i, "credentials") \/ Before(k.kind, i, "read")
                => cred[k.tenant] # NoAccount
        /\ Before(k.kind, i, "runtime") => rname[k.tenant] # NoName
    BY <2>1, <2>2 DEF Progress, ProgressOK, GoesOn
  <2>7. /\ Script[k.kind][i] = "tenant" => tstatus'[k.tenant] # "absent"
        /\ Script[k.kind][i] \in {"credentials", "read"} => cred'[k.tenant] # NoAccount
        /\ Script[k.kind][i] = "runtime" => rname'[k.tenant] # NoName
    BY <2>1, <2>2 DEF Effect
  <2>8. ProgressOK(p)' BY <2>3, <2>4, <2>5, <2>6, <2>7 DEF ProgressOK, Kept, Stored
  <2> QED BY <1>1, <2>8 DEF Progress
<1> QED BY <1>2, <1>3

\* A tool that ends its task, or begins one, has nothing behind it.
LEMMA ProgressAnew ==
    ASSUME TypeInv, Progress, Kept, NEW p \in Tools,
           task'[p] = NoTask \/ at'[p] = 1,
           \A q \in Tools \ {p} : task'[q] = task[q] /\ at'[q] = at[q]
    PROVE  Progress'
<1>1. \A q \in Tools \ {p} : ProgressOK(q)' BY OthersProgress
<1>2. ProgressOK(p)' BY NothingBefore DEF ProgressOK
<1> QED BY <1>1, <1>2 DEF Progress

\* Advance is such a step.
LEMMA AdvanceGoesOn ==
    ASSUME TypeInv, NEW p \in Tools, task[p] # NoTask, Advance(p)
    PROVE  GoesOn(p)
  BY DEF TypeInv, ToolsOK, GoesOn, Advance, EndTask, Put

\* What the end of a task does to the tools.
LEMMA EndTaskEnds ==
    ASSUME TypeInv, NEW p \in Tools, EndTask(p)
    PROVE  /\ task'[p] = NoTask
           /\ \A q \in Tools \ {p} : task'[q] = task[q] /\ at'[q] = at[q]
  BY DEF TypeInv, ToolsOK, EndTask, Put

\* What a tool's step does to the rows, and to the progress of all tools.
LEMMA ToolKeeps ==
    ASSUME TypeInv, Backend = "sqlite", Progress, NEW p \in Tools, ToolStep(p)
    PROVE  Kept /\ Progress'
<1> USE DEF database, docker, bot, stepFrame, Put
<1>1. CASE NextTask(p)
  <2>1. Kept BY <1>1 DEF NextTask, Kept, Stored
  <2>2. /\ at'[p] = 1
        /\ \A q \in Tools \ {p} : task'[q] = task[q] /\ at'[q] = at[q]
    BY <1>1 DEF NextTask, TypeInv, ToolsOK
  <2> QED BY <2>1, <2>2, ProgressAnew
<1>2. SUFFICES ASSUME ~NextTask(p) PROVE Kept /\ Progress' BY <1>1
<1>3. task[p] # NoTask
  BY <1>2 DEF ToolStep, At, CheckPhone, CheckPhoneRefuses, StoreTenant,
     StoreTenantRefused, StoreCredentials, ReadCredentials, DecryptFails,
     EnsureContainer, RemoveContainer, InspectFails, StoreRuntime, HaltRuntime,
     BindBaleUser, DeactivateBindings, SetStatus
<1>4. PICK k \in Task : k = task[p] BY <1>3, TaskInHand DEF TypeInv
<1> DEFINE step == Script[k.kind][at[p]]
<1>5. /\ TaskOK(k) /\ k.kind \in Kinds /\ k.tenant \in Tenants
      /\ at[p] \in 1 .. Len(Script[k.kind])
  BY <1>3, <1>4, TaskInHand DEF TypeInv
<1>6. /\ step \in {"tenant", "credentials"} => k.slug \in Slugs /\ k.account \in Accounts
      /\ step = "runtime" => k.name \in Names
  BY <1>5, StepPlaces DEF TaskOK
<1>7. \A s : At(p, s) <=> step = s BY <1>3, <1>4 DEF At
<1>8. TypeOK /\ RowsOK BY DEF TypeInv
<1>9. ASSUME Advance(p), Kept, Effect(p) PROVE Progress'
  BY <1>3, <1>9, AdvanceGoesOn, ProgressGoesOn
<1>10. ASSUME EndTask(p), Kept PROVE Progress'
  BY <1>10, EndTaskEnds, ProgressAnew
<1>11. CASE CheckPhone(p) \/ EnsureContainer(p) \/ BindBaleUser(p)
            \/ DeactivateBindings(p) \/ HaltRuntime(p) \/ SetStatus(p)
  <2>1. Kept
    BY <1>8, <1>11 DEF CheckPhone, EnsureContainer, BindBaleUser, DeactivateBindings,
       HaltRuntime, SetStatus, Kept, Stored, TypeOK
  <2>2. Advance(p) /\ step \notin {"tenant", "credentials", "read", "runtime"}
    BY <1>7, <1>11 DEF CheckPhone, EnsureContainer, BindBaleUser,
       DeactivateBindings, HaltRuntime, SetStatus
  <2> QED BY <1>4, <1>9, <2>1, <2>2 DEF Effect
<1>12. CASE CheckPhoneRefuses(p) \/ StoreTenantRefused(p)
  <2>1. Kept BY <1>12 DEF CheckPhoneRefuses, StoreTenantRefused, Kept, Stored
  <2> QED BY <1>10, <1>12, <2>1 DEF CheckPhoneRefuses, StoreTenantRefused, Abort
<1>13. CASE StoreTenant(p)
  <2>1. PICK status \in {"active", "disabled"} : UpsertTenant(k.tenant, k.slug, status)
    BY <1>4, <1>13 DEF StoreTenant
  <2>2. step = "tenant" /\ Advance(p) BY <1>7, <1>13 DEF StoreTenant
  <2>3. tstatus'[k.tenant] # "absent" /\ \A u \in Tenants : Stored(u) => Stored(u)'
    BY <1>5, <1>8, <2>1 DEF UpsertTenant, Stored, TypeOK
  <2>4. Kept BY <1>13, <2>3 DEF StoreTenant, Kept
  <2> QED BY <1>4, <1>9, <2>2, <2>3, <2>4 DEF Effect
<1>14. CASE StoreCredentials(p)
  <2>1. step = "credentials" /\ Advance(p) BY <1>7, <1>14 DEF StoreCredentials
  <2>2. cred' = [cred EXCEPT ![k.tenant] = k.account] /\ k.account # NoAccount
    BY <1>4, <1>6, <1>14, <2>1 DEF StoreCredentials
  <2>3. Kept BY <1>8, <1>14, <2>2 DEF StoreCredentials, Kept, Stored, TypeOK
  <2>4. cred'[k.tenant] # NoAccount BY <1>5, <1>8, <2>2 DEF TypeOK
  <2> QED BY <1>4, <1>9, <2>1, <2>3, <2>4 DEF Effect
<1>15. CASE ReadCredentials(p)
  <2>1. Kept BY <1>15 DEF ReadCredentials, Kept, Stored
  <2>2. CASE EndTask(p) BY <1>10, <2>1, <2>2
  <2>3. CASE ~EndTask(p)
    <3>1. /\ cred[k.tenant] # NoAccount /\ step = "read"
          /\ task' = [task EXCEPT ![p] = WithCredentials(k)]
          /\ at' = [at EXCEPT ![p] = at[p] + 1]
      BY <1>4, <1>7, <1>15, <2>3 DEF ReadCredentials, WithCredentials
    <3>2. /\ \A q \in Tools \ {p} : task'[q] = task[q] /\ at'[q] = at[q]
          /\ at'[p] = at[p] + 1
          /\ task'[p] = WithCredentials(k)
      BY <1>4, <3>1 DEF TypeInv, ToolsOK
    <3>3. task'[p].kind = k.kind /\ task'[p].tenant = k.tenant
      BY <3>2 DEF Task, WithCredentials
    <3>4. GoesOn(p)
      <4>1. NoTask \notin Task BY TaskAssumption
      <4>2. WithCredentials(k) \in Task
        <5>1. /\ cred[k.tenant] \in Accounts \cup {NoAccount}
              /\ session[k.tenant] \in Sessions \cup {NoSession}
          BY <1>5, <1>8 DEF TypeOK
        <5> QED BY <5>1 DEF Task, WithCredentials
      <4> QED BY <1>3, <1>4, <3>2, <3>3, <4>1, <4>2 DEF GoesOn
    <3>5. Effect(p)
      BY <1>4, <1>15, <3>1 DEF Effect, ReadCredentials
    <3> QED BY <2>1, <3>4, <3>5, ProgressGoesOn
  <2> QED BY <2>2, <2>3
<1>16. CASE RemoveContainer(p) \/ InspectFails(p)
  <2>1. Kept BY <1>16 DEF RemoveContainer, InspectFails, Kept, Stored
  <2>2. step = "remove" BY <1>7, <1>16 DEF RemoveContainer, InspectFails
  <2>3. Effect(p) BY <1>4, <2>2 DEF Effect
  <2> QED BY <1>9, <1>10, <1>16, <2>1, <2>3 DEF RemoveContainer, InspectFails, AfterRemoval
<1>17. CASE StoreRuntime(p)
  <2>1. step = "runtime" /\ Advance(p) BY <1>7, <1>17 DEF StoreRuntime
  <2>2. rname' = [rname EXCEPT ![k.tenant] = k.name] /\ k.name # NoName
    BY <1>4, <1>6, <1>17, <2>1 DEF StoreRuntime, UpsertRuntime
  <2>3. Kept BY <1>8, <1>17, <2>2 DEF StoreRuntime, Kept, Stored, TypeOK
  <2>4. rname'[k.tenant] # NoName BY <1>5, <1>8, <2>2 DEF TypeOK
  <2> QED BY <1>4, <1>9, <2>1, <2>3, <2>4 DEF Effect
<1>18. CASE DecryptFails(p)
  <2>1. Kept BY <1>18 DEF DecryptFails, Kept, Stored
  <2> QED BY <1>10, <1>18, <2>1 DEF DecryptFails
<1> QED
  BY <1>2, <1>11, <1>12, <1>13, <1>14, <1>15, <1>16, <1>17, <1>18 DEF ToolStep

\* A tool that breaks off leaves the rows as they are.
LEMMA FailureKeeps ==
    ASSUME TypeInv, Progress, NEW p \in Tools, StepRaises(p)
    PROVE  Kept /\ Progress'
<1>1. Kept BY DEF StepRaises, database, Kept, Stored
<1>2. CASE EndTask(p) BY <1>1, <1>2, EndTaskEnds, ProgressAnew
<1>3. CASE ~EndTask(p)
  <2>1. /\ task' = [task EXCEPT ![p] = [task[p] EXCEPT !.kind = "report"]]
        /\ at' = [at EXCEPT ![p] = 1]
    BY <1>3 DEF StepRaises, Abort, Put
  <2>2. /\ at'[p] = 1
        /\ \A q \in Tools \ {p} : task'[q] = task[q] /\ at'[q] = at[q]
    BY <2>1 DEF TypeInv, ToolsOK
  <2> QED BY <1>1, <2>2, ProgressAnew
<1> QED BY <1>2, <1>3

\* A command only hands out tasks.
LEMMA CommandKeeps ==
    ASSUME TypeInv, Progress, NEW p \in Tools, Command(p)
    PROVE  Kept /\ Progress' /\ UNCHANGED bound
<1>1. UNCHANGED <<database, task, at>>
  BY DEF Command, TenantAdd, ProvisionSelected, TenantSetStatus, Reconcile, LoadUsers,
         Begin
<1>2. Kept BY <1>1 DEF database, Kept, Stored
<1> QED BY <1>1, <1>2, ProgressStays DEF database

\* The probe writes an address only where it has read one.
LEMMA BotKeeps ==
    ASSUME TypeInv, Progress,
           \/ ProbeStep \/ ProbeRaises
           \/ \E c \in Chats : Route(c) \/ Relay(c)
    PROVE  Kept /\ Progress' /\ UNCHANGED bound
<1> USE DEF database, botFrame, docker, tools
<1>1. UNCHANGED <<task, at, bound>>
  BY DEF ProbeStep, ProbeList, ProbeGet, ProbeWrite, ProbeRaises, Route, Relay
<1>2. Kept
  <2>1. CASE ProbeWrite
    <3>1. PICK row : row = probed.row OBVIOUS
    <3>2. row.name \in Names BY <2>1, <3>1 DEF ProbeWrite, TypeInv, RowsOK
    <3>3. rname' = [rname EXCEPT ![row.tenant] = row.name] /\ UNCHANGED <<tstatus, cred>>
      BY <2>1, <3>1 DEF ProbeWrite, UpsertRuntime, Put
    <3> QED BY <3>2, <3>3 DEF Kept, Stored, TypeInv, TypeOK
  <2>2. CASE UNCHANGED <<tstatus, cred, rname>> BY <2>2 DEF Kept, Stored
  <2> QED
    BY <2>1, <2>2 DEF ProbeStep, ProbeList, ProbeGet, ProbeRaises, Route, Relay
<1> QED BY <1>1, <1>2, ProgressStays

\* Only the bind step of a tool binds a chat, to the tenant it has in hand.
LEMMA BindsTheOwn ==
    ASSUME TypeInv, NEW p \in Tools, ToolStep(p)
    PROVE  \/ UNCHANGED bound
           \/ /\ At(p, "bind")
              /\ bound' = [bound EXCEPT ![task[p].chat] = task[p].tenant]
  BY DEF database, docker, Put, ToolStep, NextTask, CheckPhone, CheckPhoneRefuses,
     StoreTenant, StoreTenantRefused, StoreCredentials, ReadCredentials, DecryptFails,
     EnsureContainer, RemoveContainer, InspectFails, StoreRuntime, HaltRuntime,
     BindBaleUser, DeactivateBindings, SetStatus

\* What a tool has behind it when it binds.
LEMMA BindComesLast ==
    ASSUME TypeInv, Progress, NEW p \in Tools, At(p, "bind")
    PROVE  /\ task[p].tenant \in Tenants
           /\ Stored(task[p].tenant)
           /\ rname[task[p].tenant] # NoName
           /\ cred[task[p].tenant] # NoAccount
<1>1. task[p] # NoTask BY DEF At
<1>2. /\ task[p].kind \in Kinds /\ task[p].tenant \in Tenants
      /\ at[p] \in 1 .. Len(Script[task[p].kind])
  BY <1>1, TaskInHand DEF TypeInv
<1>3. /\ Before(task[p].kind, at[p], "tenant")
      /\ Before(task[p].kind, at[p], "credentials")
      /\ Before(task[p].kind, at[p], "runtime")
  BY <1>2, StepPlaces DEF At
<1> QED BY <1>1, <1>2, <1>3 DEF Progress, ProgressOK

\* A chat is only ever bound to a tenant that has its row, its credentials and
\* its address, for any number of tools that run side by side and fail
\* anywhere; on SQLite, for the MySQL upsert may store no row for the tenant.
THEOREM BindingsAreComplete ==
    ASSUME Backend = "sqlite"
    PROVE  Spec => []BoundIsComplete
<1>1. Init => CompleteInv
  BY DEF Init, CompleteInv, Progress, ProgressOK, BoundIsComplete
<1>2. TypeInv /\ CompleteInv /\ [Next]_vars => CompleteInv'
  <2> SUFFICES ASSUME TypeInv, CompleteInv, [Next]_vars PROVE CompleteInv' OBVIOUS
  <2> USE DEF CompleteInv
  <2>1. ASSUME Kept, Progress', UNCHANGED bound PROVE CompleteInv'
    <3>1. \A c \in Chats : bound[c] # NoTenant => bound[c] \in Tenants
      BY DEF TypeInv, TypeOK
    <3> QED BY <2>1, <3>1 DEF BoundIsComplete, Kept
  <2>2. CASE UNCHANGED vars
    <3>1. Kept /\ UNCHANGED <<task, at, bound>>
      BY <2>2 DEF vars, database, tools, Kept, Stored
    <3> QED BY <2>1, <3>1, ProgressStays
  <2>3. ASSUME NEW p \in Tools, ToolStep(p) PROVE CompleteInv'
    <3>1. Kept /\ Progress' BY <2>3, ToolKeeps
    <3>2. CASE UNCHANGED bound BY <2>1, <3>1, <3>2
    <3>3. CASE At(p, "bind") /\ bound' = [bound EXCEPT ![task[p].chat] = task[p].tenant]
      <4>1. PICK t : t = task[p].tenant OBVIOUS
      <4>2. t \in Tenants /\ Stored(t) /\ rname[t] # NoName /\ cred[t] # NoAccount
        BY <3>3, <4>1, BindComesLast
      <4>3. \A c \in Chats : bound'[c] = t \/ bound'[c] = bound[c]
        BY <3>3, <4>1 DEF TypeInv, TypeOK
      <4>4. \A c \in Chats : bound[c] # NoTenant => bound[c] \in Tenants
        BY DEF TypeInv, TypeOK
      <4>5. BoundIsComplete'
        <5> SUFFICES ASSUME NEW c \in Chats, bound'[c] # NoTenant
                     PROVE  /\ tstatus'[bound'[c]] # "absent"
                            /\ rname'[bound'[c]] # NoName
                            /\ cred'[bound'[c]] # NoAccount
          BY DEF BoundIsComplete, Stored
        <5>1. CASE bound'[c] = t BY <3>1, <4>2, <5>1 DEF Kept, Stored
        <5>2. CASE bound'[c] = bound[c]
          BY <3>1, <4>4, <5>2 DEF BoundIsComplete, Kept, Stored
        <5> QED BY <4>3, <5>1, <5>2
      <4> QED BY <3>1, <4>5
    <3> QED BY <2>3, <3>2, <3>3, BindsTheOwn
  <2>4. ASSUME NEW p \in Tools, StepRaises(p) PROVE CompleteInv'
    BY <2>1, <2>4, FailureKeeps DEF StepRaises, database
  <2>5. ASSUME NEW p \in Tools, Command(p) PROVE CompleteInv'
    BY <2>1, <2>5, CommandKeeps
  <2>6. ASSUME \/ ProbeStep \/ ProbeRaises
               \/ \E c \in Chats : Route(c) \/ Relay(c)
        PROVE  CompleteInv'
    BY <2>1, <2>6, BotKeeps
  <2> QED BY <2>2, <2>3, <2>4, <2>5, <2>6 DEF Next
<1>3. CompleteInv => BoundIsComplete BY DEF CompleteInv
<1> QED BY <1>1, <1>2, <1>3, TypeInvariance, PTL DEF Spec

-----------------------------------------------------------------------------
(* Containers.  A tool runs a container under the name of the slug that    *)
(* its tenant has, as long as an operator never gives a tenant another     *)
(* slug.                                                                   *)

SlugsKept == \A d, e \in Entries : d.tenant = e.tenant => d.slug = e.slug

\* The slug of a row is the one all entries for the tenant have.
SlugOK == \A e \in Entries : Stored(e.tenant) => slug[e.tenant] = e.slug

\* A task names the container of its own tenant.
OwnName(k) ==
    /\ k.kind \in Entered =>
         \E e \in Entries : e.tenant = k.tenant /\ e.slug = k.slug /\ k.name = NameOf[k.slug]
    /\ k.kind \in {"reconcile", "report"} =>
         Stored(k.tenant) /\ k.name = NameOf[slug[k.tenant]]

NamesOK ==
    \A p \in Tools :
        /\ \A k \in work[p] : OwnName(k)
        /\ task[p] # NoTask => OwnName(task[p])

BoxesOK == \A n \in Names : box[n] # NoSession => boxOf[n] \in Tenants

KnownInv ==
    /\ Backend = "sqlite" /\ SlugsKept
    /\ Progress /\ SlugOK /\ NamesOK /\ BoxesOK /\ ContainerIsKnown

\* The rows keep their slugs, and the tools go on with the tasks they have.
SlugsStay == \A t \in Tenants : Stored(t) => slug'[t] = slug[t]

SameTarget(j, k) ==
    /\ \/ j.kind = k.kind
       \/ j.kind = "report" /\ k.kind = "reconcile"
    /\ j.tenant = k.tenant /\ j.name = k.name /\ j.slug = k.slug

TasksStay ==
    \A q \in Tools :
        /\ work'[q] \subseteq work[q]
        /\ \/ task'[q] \in {task[q], NoTask}
           \/ task'[q] \in work[q]
           \/ task[q] # NoTask /\ SameTarget(task'[q], task[q])

\* A name that is the own one stays so while the rows do.
LEMMA OwnNameStays ==
    ASSUME TypeInv, Kept, SlugsStay, NEW k, k.tenant \in Tenants, OwnName(k)
    PROVE  OwnName(k)'
  BY DEF OwnName, Kept, SlugsStay

\* Hence all tasks keep naming the containers of their tenants.
LEMMA NamesStay ==
    ASSUME TypeInv, Kept, SlugsStay, TasksStay, NamesOK
    PROVE  NamesOK'
<1> SUFFICES ASSUME NEW q \in Tools
             PROVE  /\ \A k \in work'[q] : OwnName(k)'
                    /\ task'[q] # NoTask => OwnName(task[q])'
  BY DEF NamesOK
<1>1. \A k \in work[q] : OwnName(k)'
  BY OwnNameStays DEF NamesOK, TypeInv, ToolsOK, Task
<1>2. CASE task'[q] = NoTask BY <1>1, <1>2 DEF TasksStay
<1>3. CASE task'[q] # NoTask
  <2>1. PICK j : j = task'[q] OBVIOUS
  <2>2. ASSUME j \in work[q] PROVE OwnName(j)' BY <1>1, <2>2
  <2>3. ASSUME task[q] # NoTask /\ SameTarget(j, task[q]) PROVE OwnName(j)'
    <3>1. PICK k : k = task[q] OBVIOUS
    <3>2. k.tenant \in Tenants /\ OwnName(k)
      BY <2>3, <3>1, TaskInHand DEF NamesOK, TypeInv
    <3>3. OwnName(k)' BY <3>2, OwnNameStays
    <3>4. SameTarget(j, k) BY <2>3, <3>1
    <3> QED BY <3>3, <3>4 DEF OwnName, SameTarget, Entered
  <2>4. j = task[q] => SameTarget(j, task[q]) BY DEF SameTarget
  <2>5. OwnName(j)' BY <1>3, <2>1, <2>2, <2>3, <2>4 DEF TasksStay
  <2>6. OwnName(task[q])' BY <2>1, <2>5 DEF OwnName, Stored, Entered
  <2> QED BY <1>1, <2>6 DEF TasksStay
<1> QED BY <1>2, <1>3

\* Every step of a tool but the beginning of a command keeps the tasks.
LEMMA AdvanceKeepsTasks ==
    ASSUME TypeInv, NEW p \in Tools, task[p] # NoTask, Advance(p)
    PROVE  TasksStay
  BY DEF TypeInv, ToolsOK, Advance, EndTask, Put, TasksStay

\* So does the end of a task, or of a tool.
LEMMA EndTaskKeepsTasks ==
    ASSUME TypeInv, NEW p \in Tools, EndTask(p), UNCHANGED work \/ work' = Put(work, p, {})
    PROVE  TasksStay
  BY DEF TypeInv, ToolsOK, EndTask, Put, TasksStay

\* All steps of a tool, and its failure, are of that kind.
LEMMA ToolTasks ==
    ASSUME TypeInv, NEW p \in Tools, ToolStep(p) \/ StepRaises(p)
    PROVE  TasksStay
<1>1. CASE NextTask(p)
  BY <1>1 DEF NextTask, Put, TypeInv, ToolsOK, TasksStay
<1>2. CASE ReadCredentials(p)
  <2>1. CASE EndTask(p) BY <1>2, <2>1, EndTaskKeepsTasks DEF ReadCredentials
  <2>2. CASE ~EndTask(p)
    <3>1. /\ task' = [task EXCEPT ![p] = WithCredentials(task[p])]
          /\ UNCHANGED work /\ task[p] # NoTask
      BY <1>2, <2>2 DEF ReadCredentials, At, WithCredentials
    <3>2. task[p] \in Task BY <3>1, TaskInHand DEF TypeInv
    <3>3. PICK j : j = WithCredentials(task[p]) OBVIOUS
    <3>4. SameTarget(j, task[p])
      <4>1. /\ j.kind = task[p].kind /\ j.tenant = task[p].tenant
            /\ j.name = task[p].name /\ j.slug = task[p].slug
        BY <3>2, <3>3 DEF Task, WithCredentials
      <4> QED BY <4>1 DEF SameTarget
    <3>5. task' = [task EXCEPT ![p] = j] BY <3>1, <3>3
    <3>6. task'[p] = j /\ \A q \in Tools \ {p} : task'[q] = task[q]
      BY <3>5 DEF TypeInv, ToolsOK
    <3> QED BY <3>1, <3>4, <3>6 DEF TasksStay
  <2> QED BY <2>1, <2>2
<1>3. CASE StepRaises(p)
  <2>1. CASE Abort(p) BY <2>1, EndTaskKeepsTasks DEF Abort
  <2>2. CASE ~Abort(p)
    <3>1. /\ task' = [task EXCEPT ![p] = [task[p] EXCEPT !.kind = "report"]]
          /\ UNCHANGED work /\ task[p] # NoTask /\ task[p].kind = "reconcile"
      BY <1>3, <2>2 DEF StepRaises, Put
    <3>2. task[p] \in Task BY <3>1, TaskInHand DEF TypeInv
    <3>3. PICK j : j = [task[p] EXCEPT !.kind = "report"] OBVIOUS
    <3>4. SameTarget(j, task[p]) BY <3>1, <3>2, <3>3 DEF Task, SameTarget
    <3>5. task' = [task EXCEPT ![p] = j] BY <3>1, <3>3
    <3>6. task'[p] = j /\ \A q \in Tools \ {p} : task'[q] = task[q]
      BY <3>5 DEF TypeInv, ToolsOK
    <3> QED BY <3>1, <3>4, <3>6 DEF TasksStay
  <2> QED BY <2>1, <2>2
<1>4. CASE RemoveContainer(p) \/ InspectFails(p)
  BY <1>4, AdvanceKeepsTasks, EndTaskKeepsTasks
     DEF RemoveContainer, InspectFails, AfterRemoval, At
<1>5. CASE CheckPhoneRefuses(p) \/ StoreTenantRefused(p)
  BY <1>5, EndTaskKeepsTasks DEF CheckPhoneRefuses, StoreTenantRefused, Abort
<1>6. CASE \/ CheckPhone(p) \/ StoreTenant(p) \/ StoreCredentials(p)
           \/ EnsureContainer(p) \/ StoreRuntime(p) \/ HaltRuntime(p)
           \/ BindBaleUser(p) \/ DeactivateBindings(p) \/ SetStatus(p)
  BY <1>6, AdvanceKeepsTasks DEF CheckPhone, StoreTenant, StoreCredentials,
     EnsureContainer, StoreRuntime, HaltRuntime, BindBaleUser, DeactivateBindings,
     SetStatus, At
<1>7. CASE DecryptFails(p) BY <1>7, EndTaskKeepsTasks DEF DecryptFails
<1> QED BY <1>1, <1>2, <1>3, <1>4, <1>5, <1>6, <1>7 DEF ToolStep

\* A row keeps its slug, for the tools only write what an entry says.
LEMMA ToolSlugs ==
    ASSUME TypeInv, Backend = "sqlite", SlugsKept, SlugOK, NamesOK, NEW p \in Tools,
           ToolStep(p)
    PROVE  SlugsStay /\ SlugOK'
<1>1. CASE StoreTenant(p)
  <2>1. PICK k : k = task[p] OBVIOUS
  <2>2. task[p] # NoTask /\ Script[k.kind][at[p]] = "tenant"
    BY <1>1, <2>1 DEF StoreTenant, At
  <2>3. /\ k.kind \in Entered /\ k.tenant \in Tenants
        /\ OwnName(k)
    BY <2>1, <2>2, TaskInHand, StepPlaces DEF TypeInv, NamesOK
  <2>4. PICK e \in Entries : e.tenant = k.tenant /\ e.slug = k.slug
    BY <2>3 DEF OwnName
  <2>5. PICK status \in {"active", "disabled"} :
            /\ tstatus' = [tstatus EXCEPT ![k.tenant] = status]
            /\ slug' = [slug EXCEPT ![k.tenant] = k.slug]
    BY <1>1, <2>1 DEF StoreTenant, UpsertTenant, Put
  <2>6. slug'[k.tenant] = k.slug /\ (Stored(k.tenant) => slug[k.tenant] = k.slug)
    BY <2>3, <2>4, <2>5 DEF SlugOK, TypeInv, TypeOK
  <2>7. \A u \in Tenants \ {k.tenant} : slug'[u] = slug[u] /\ tstatus'[u] = tstatus[u]
    BY <2>5 DEF TypeInv, TypeOK
  <2>8. SlugsStay BY <2>6, <2>7 DEF SlugsStay
  <2>9. ASSUME NEW d \in Entries, tstatus'[d.tenant] # "absent"
        PROVE  slug'[d.tenant] = d.slug
    <3>1. d.tenant \in Tenants BY DEF EntryType
    <3>2. CASE d.tenant = k.tenant BY <2>4, <2>6, <3>2 DEF SlugsKept
    <3>3. CASE d.tenant # k.tenant BY <2>7, <2>9, <3>1, <3>3 DEF SlugOK, Stored
    <3> QED BY <3>2, <3>3
  <2> QED BY <2>8, <2>9 DEF SlugOK, Stored
<1>2. CASE SetStatus(p)
  <2>1. UNCHANGED slug /\ \A t \in Tenants : tstatus'[t] # "absent" => Stored(t)
    BY <1>2 DEF SetStatus, Put, Stored, TypeInv, TypeOK
  <2>2. \A e \in Entries : e.tenant \in Tenants BY DEF EntryType
  <2> QED BY <2>1, <2>2 DEF SlugsStay, SlugOK, Stored
<1>3. CASE UNCHANGED <<tstatus, slug>> BY <1>3 DEF SlugsStay, SlugOK, Stored
<1> QED
  BY <1>1, <1>2, <1>3 DEF database, docker, ToolStep, NextTask, CheckPhone,
     CheckPhoneRefuses, StoreTenantRefused, StoreCredentials, ReadCredentials,
     DecryptFails, EnsureContainer, RemoveContainer, InspectFails, StoreRuntime,
     HaltRuntime, BindBaleUser, DeactivateBindings

\* The tasks a command makes name the containers of their tenants.
LEMMA CommandNames ==
    ASSUME TypeInv, NamesOK, NEW p \in Tools, Command(p)
    PROVE  NamesOK'
<1> DEFINE Fine(ts) == \A k \in ts : OwnName(k)
<1>1. /\ \A e \in Entries, kind \in Entered : OwnName(TaskOf(kind, e))
      /\ \A t \in Tenants, kind \in {"enable", "disable"} :
              OwnName(TaskFor(kind, t, NoName, FALSE))
      /\ \A t \in Tenants :
              tstatus[t] = "active" =>
                  OwnName(TaskFor("reconcile", t, NameOf[slug[t]], FALSE))
  BY DEF OwnName, TaskOf, TaskFor, Entered, Stored
<1>2. ASSUME NEW ts, NEW file, Begin(p, ts, file), Fine(ts) PROVE NamesOK'
  <2>1. UNCHANGED <<tstatus, slug, task>> BY <1>2 DEF Begin, database
  <2>2. /\ work'[p] = ts
        /\ \A q \in Tools \ {p} : work'[q] = work[q]
    BY <1>2 DEF Begin, Put, TypeInv, ToolsOK
  <2>3. \A k : OwnName(k) => OwnName(k)' BY <2>1 DEF OwnName, Stored
  <2>4. \A q \in Tools : \A k \in work'[q] : OwnName(k)'
    BY <1>2, <2>2, <2>3 DEF NamesOK
  <2>5. \A q \in Tools : task[q] # NoTask => OwnName(task[q])'
    BY <2>1 DEF NamesOK, OwnName, Stored
  <2> QED BY <2>1, <2>4, <2>5 DEF NamesOK
<1>3. CASE TenantAdd(p) BY <1>1, <1>2, <1>3 DEF TenantAdd, Entered
<1>4. CASE ProvisionSelected(p) BY <1>1, <1>2, <1>4 DEF ProvisionSelected, Entered
<1>5. CASE TenantSetStatus(p)
  <2>1. PICK t \in Tenants, kind \in {"enable", "disable"} :
            Begin(p, {TaskFor(kind, t, NoName, FALSE)}, NoFile)
    BY <1>5 DEF TenantSetStatus
  <2>2. PICK ts : ts = {TaskFor(kind, t, NoName, FALSE)} OBVIOUS
  <2>3. Begin(p, ts, NoFile) BY <2>1, <2>2
  <2>4. Fine(ts) BY <1>1, <2>2
  <2> QED BY <1>2, <2>3, <2>4
<1>6. CASE Reconcile(p)
  <2>1. PICK ts \in SUBSET {t \in Tenants : tstatus[t] = "active"} :
            Begin(p, {TaskFor("reconcile", t, NameOf[slug[t]], FALSE) : t \in ts}, NoFile)
    BY <1>6 DEF Reconcile
  <2>2. Fine({TaskFor("reconcile", t, NameOf[slug[t]], FALSE) : t \in ts}) BY <1>1
  <2> QED BY <1>2, <2>1, <2>2
<1>7. CASE LoadUsers(p)
  <2>1. PICK f \in Files :
            Begin(p,
                  {TaskOf(IF e.status = "active" THEN "load" ELSE "unload", e) : e \in f}
                      \cup {DropTask(t) :
                               t \in {u \in Tenants \ {e.tenant : e \in f} : Stored(u)}},
                  f)
    BY <1>7 DEF LoadUsers
  <2>2. \A e \in f : OwnName(TaskOf(IF e.status = "active" THEN "load" ELSE "unload", e))
    BY <1>1 DEF Entered
  <2>3. \A t \in Tenants : OwnName(DropTask(t))
    BY DEF DropTask, TaskFor, OwnName, Entered
  <2>4. Fine({TaskOf(IF e.status = "active" THEN "load" ELSE "unload", e) : e \in f}
                 \cup {DropTask(t) :
                          t \in {u \in Tenants \ {e.tenant : e \in f} : Stored(u)}})
    BY <2>2, <2>3
  <2> QED BY <1>2, <2>1, <2>4
<1> QED BY <1>3, <1>4, <1>5, <1>6, <1>7 DEF Command

\* A container is run under the name its tenant's slug stands for, and the
\* tenant has its credentials by then.
LEMMA RunsTheOwn ==
    ASSUME TypeInv, KnownInv, NEW p \in Tools, EnsureContainer(p)
    PROVE  /\ Stored(task[p].tenant)
           /\ task[p].tenant \in Tenants
           /\ NameOf[slug[task[p].tenant]] = task[p].name
           /\ cred[task[p].tenant] # NoAccount
<1>1. PICK k : k = task[p] OBVIOUS
<1>2. PICK i : i = at[p] OBVIOUS
<1>3. task[p] # NoTask /\ Script[k.kind][i] = "container"
  BY <1>1, <1>2 DEF EnsureContainer, At
<1>4. k.kind \in Kinds /\ k.tenant \in Tenants /\ i \in 1 .. Len(Script[k.kind])
  BY <1>1, <1>2, <1>3, TaskInHand DEF TypeInv
<1>5. OwnName(k) BY <1>1, <1>3 DEF KnownInv, NamesOK
<1>6. /\ Before(k.kind, i, "tenant") => Stored(k.tenant)
      /\ Before(k.kind, i, "credentials") \/ Before(k.kind, i, "read")
              => cred[k.tenant] # NoAccount
  BY <1>1, <1>2, <1>3 DEF KnownInv, Progress, ProgressOK
<1>7. k.kind \notin {"drop", "report"}
  <2>1. CASE k.kind = "drop" BY <1>3, <1>4, <2>1, OtherScripts DEF ScriptIs
  <2>2. CASE k.kind = "report" BY <1>3, <1>4, <2>2, OtherScripts DEF ScriptIs
  <2> QED BY <2>1, <2>2
<1>8. /\ k.kind \in Addressed
      /\ \/ Before(k.kind, i, "tenant") /\ Before(k.kind, i, "credentials")
         \/ k.kind = "reconcile" /\ Before(k.kind, i, "read")
  BY <1>3, <1>4, StepPlaces
<1>9. CASE k.kind = "reconcile"
  BY <1>1, <1>4, <1>5, <1>6, <1>8, <1>9 DEF OwnName
<1>10. CASE /\ k.kind \in Entered
            /\ Before(k.kind, i, "tenant") /\ Before(k.kind, i, "credentials")
  <2>1. PICK e \in Entries :
            e.tenant = k.tenant /\ e.slug = k.slug /\ k.name = NameOf[k.slug]
    BY <1>5, <1>10 DEF OwnName
  <2>2. slug[k.tenant] = k.slug BY <1>6, <1>10, <2>1 DEF KnownInv, SlugOK
  <2> QED BY <1>1, <1>4, <1>6, <1>10, <2>1, <2>2
<1> QED BY <1>7, <1>8, <1>9, <1>10 DEF Addressed

\* Docker and the rest of the world: only EnsureContainer runs a container.
LEMMA BoxesStay ==
    ASSUME TypeInv, KnownInv, Kept, SlugsStay,
           \A n \in Names : box'[n] \in {box[n], NoSession}, UNCHANGED boxOf
    PROVE  (BoxesOK /\ ContainerIsKnown)'
<1> SUFFICES ASSUME NEW n \in Names, box'[n] # NoSession
             PROVE  /\ boxOf[n] \in Tenants
                    /\ tstatus'[boxOf[n]] # "absent"
                    /\ NameOf[slug'[boxOf[n]]] = n
                    /\ cred'[boxOf[n]] # NoAccount
  BY DEF BoxesOK, ContainerIsKnown, Stored
<1>1. /\ boxOf[n] \in Tenants /\ Stored(boxOf[n])
      /\ NameOf[slug[boxOf[n]]] = n /\ cred[boxOf[n]] # NoAccount
  BY DEF KnownInv, BoxesOK, ContainerIsKnown
<1> QED BY <1>1 DEF Kept, SlugsStay, Stored

\* The containers stay known when a tool runs or removes one, or fails.
LEMMA ToolBoxes ==
    ASSUME TypeInv, KnownInv, Kept, SlugsStay, NEW p \in Tools,
           ToolStep(p) \/ StepRaises(p)
    PROVE  (BoxesOK /\ ContainerIsKnown)'
<1>1. CASE EnsureContainer(p)
  <2>1. CASE UNCHANGED docker BY <2>1, BoxesStay DEF docker
  <2>2. CASE RunContainer(task[p].name, task[p].session, task[p].tenant)
    <3>1. PICK t : t = task[p].tenant OBVIOUS
    <3>2. PICK m : m = task[p].name OBVIOUS
    <3>3. t \in Tenants /\ Stored(t) /\ NameOf[slug[t]] = m /\ cred[t] # NoAccount
      BY <1>1, <3>1, <3>2, RunsTheOwn
    <3>4. /\ \A n \in Names \ {m} : box'[n] = box[n] /\ boxOf'[n] = boxOf[n]
          /\ m \in Names => boxOf'[m] = t
      BY <2>2, <3>1, <3>2 DEF RunContainer, Put, TypeInv, TypeOK
    <3> SUFFICES ASSUME NEW n \in Names, box'[n] # NoSession
                 PROVE  /\ boxOf'[n] \in Tenants
                        /\ tstatus'[boxOf'[n]] # "absent"
                        /\ NameOf[slug'[boxOf'[n]]] = n
                        /\ cred'[boxOf'[n]] # NoAccount
      BY DEF BoxesOK, ContainerIsKnown, Stored
    <3>5. CASE n = m BY <3>3, <3>4, <3>5 DEF Kept, SlugsStay, Stored
    <3>6. CASE n # m
      <4>1. /\ boxOf[n] \in Tenants /\ Stored(boxOf[n])
            /\ NameOf[slug[boxOf[n]]] = n /\ cred[boxOf[n]] # NoAccount
        BY <3>4, <3>6 DEF KnownInv, BoxesOK, ContainerIsKnown
      <4> QED BY <3>4, <3>6, <4>1 DEF Kept, SlugsStay, Stored
    <3> QED BY <3>5, <3>6
  <2> QED BY <1>1, <2>1, <2>2 DEF EnsureContainer
<1>2. CASE RemoveContainer(p)
  BY <1>2, BoxesStay DEF RemoveContainer, Put, TypeInv, TypeOK
<1>3. CASE StepRaises(p)
  BY <1>3, BoxesStay DEF StepRaises, ContainerGone, Put, TypeInv, TypeOK
<1>4. CASE UNCHANGED docker BY <1>4, BoxesStay DEF docker
<1> QED
  BY <1>1, <1>2, <1>3, <1>4 DEF ToolStep, NextTask, CheckPhone, CheckPhoneRefuses,
     StoreTenant, StoreTenantRefused, StoreCredentials, ReadCredentials, DecryptFails,
     InspectFails, StoreRuntime, HaltRuntime, BindBaleUser, DeactivateBindings, SetStatus

\* Every step keeps the containers known, the rows and their slugs.
LEMMA KnownStep ==
    ASSUME TypeInv, KnownInv, [Next]_vars
    PROVE  KnownInv' /\ Kept /\ SlugsStay
<1> DEFINE Goal == KnownInv' /\ Kept /\ SlugsStay
<1> USE DEF database, docker, tools, bot
<1>1. Backend = "sqlite" /\ SlugsKept /\ Progress /\ SlugOK /\ NamesOK BY DEF KnownInv
<1>2. CASE UNCHANGED vars
  <2>1. /\ Kept /\ SlugsStay /\ SlugOK'
        /\ UNCHANGED <<tstatus, slug, box, boxOf, work, task, at>>
    BY <1>1, <1>2 DEF vars, Kept, SlugsStay, SlugOK, Stored
  <2>2. Progress' BY <1>1, <2>1, ProgressStays
  <2>3. NamesOK' BY <1>1, <2>1 DEF NamesOK, OwnName, Stored
  <2>4. (BoxesOK /\ ContainerIsKnown)' BY <2>1, BoxesStay
  <2> QED BY <2>1, <2>2, <2>3, <2>4 DEF KnownInv, SlugsKept
<1>3. ASSUME NEW p \in Tools, ToolStep(p) PROVE Goal
  <2>1. Kept /\ Progress' BY <1>1, <1>3, ToolKeeps
  <2>2. SlugsStay /\ SlugOK' BY <1>1, <1>3, ToolSlugs
  <2>3. NamesOK' BY <1>1, <1>3, <2>1, <2>2, ToolTasks, NamesStay
  <2>4. (BoxesOK /\ ContainerIsKnown)' BY <1>3, <2>1, <2>2, ToolBoxes
  <2> QED BY <2>1, <2>2, <2>3, <2>4 DEF KnownInv, SlugsKept
<1>4. ASSUME NEW p \in Tools, StepRaises(p) PROVE Goal
  <2>1. Kept /\ Progress' BY <1>1, <1>4, FailureKeeps
  <2>2. SlugsStay /\ SlugOK' BY <1>1, <1>4 DEF StepRaises, SlugsStay, SlugOK, Stored
  <2>3. NamesOK' BY <1>1, <1>4, <2>1, <2>2, ToolTasks, NamesStay
  <2>4. (BoxesOK /\ ContainerIsKnown)' BY <1>4, <2>1, <2>2, ToolBoxes
  <2> QED BY <2>1, <2>2, <2>3, <2>4 DEF KnownInv, SlugsKept
<1>5. ASSUME NEW p \in Tools, Command(p) PROVE Goal
  <2>1. Kept /\ Progress' BY <1>1, <1>5, CommandKeeps
  <2>2. UNCHANGED <<tstatus, slug, box, boxOf>>
    BY <1>5 DEF Command, TenantAdd, ProvisionSelected, TenantSetStatus, Reconcile,
       LoadUsers, Begin
  <2>3. SlugsStay /\ SlugOK' BY <1>1, <2>2 DEF SlugsStay, SlugOK, Stored
  <2>4. NamesOK' BY <1>1, <1>5, CommandNames
  <2>5. (BoxesOK /\ ContainerIsKnown)' BY <2>1, <2>2, <2>3, BoxesStay
  <2> QED BY <2>1, <2>3, <2>4, <2>5 DEF KnownInv, SlugsKept
<1>6. ASSUME \/ ProbeStep \/ ProbeRaises
             \/ \E c \in Chats : Route(c) \/ Relay(c)
      PROVE  Goal
  <2>1. Kept /\ Progress' BY <1>1, <1>6, BotKeeps
  <2>2. UNCHANGED <<tstatus, slug, box, boxOf, work, task>>
    BY <1>6 DEF ProbeStep, ProbeList, ProbeGet, ProbeWrite, ProbeRaises, Route, Relay,
       botFrame
  <2>3. SlugsStay /\ SlugOK' BY <1>1, <2>2 DEF SlugsStay, SlugOK, Stored
  <2>4. NamesOK' BY <1>1, <2>2 DEF NamesOK, OwnName, Stored
  <2>5. (BoxesOK /\ ContainerIsKnown)' BY <2>1, <2>2, <2>3, BoxesStay
  <2> QED BY <2>1, <2>3, <2>4, <2>5 DEF KnownInv, SlugsKept
<1> QED BY <1>2, <1>3, <1>4, <1>5, <1>6 DEF Next

\* Every container belongs to a tenant that has a row and credentials and
\* whose slug gives the container's name: load_users finds it to drop it, and
\* reconcile to rebuild it, wherever the tool that ran it has failed.  On
\* SQLite, and if an operator never gives a tenant another slug.
THEOREM ContainersAreKnown ==
    ASSUME Backend = "sqlite", SlugsKept
    PROVE  Spec => []ContainerIsKnown
<1>1. Init => KnownInv
  BY DEF Init, KnownInv, Progress, ProgressOK, SlugOK, NamesOK, BoxesOK,
         ContainerIsKnown, Stored, EntryType
<1>2. TypeInv /\ KnownInv /\ [Next]_vars => KnownInv' BY KnownStep
<1>3. KnownInv => ContainerIsKnown BY DEF KnownInv
<1> QED BY <1>1, <1>2, <1>3, TypeInvariance, PTL DEF Spec

-----------------------------------------------------------------------------
(* Addresses.  Wherever an address is kept, in a row, in a listing of the  *)
(* probe or in a request, it is the one its tenant's slug stands for, so   *)
(* that it can only lead to a container of that tenant.                    *)

NamesDistinct == \A r, s \in Slugs : NameOf[r] = NameOf[s] => r = s

SlugsDistinct ==
    \A t, u \in Tenants : Stored(t) /\ Stored(u) /\ slug[t] = slug[u] => t = u

OwnAddress(row) == Stored(row.tenant) /\ row.name = NameOf[slug[row.tenant]]

RowsAddressed ==
    \A t \in Tenants : rname[t] # NoName => Stored(t) /\ rname[t] = NameOf[slug[t]]

ListingsAddressed ==
    /\ \A row \in listed : OwnAddress(row)
    /\ probed # NoRow => OwnAddress(probed.row)
    /\ \A c \in Chats : \A row \in jobs[c] : OwnAddress(row)

RouteInv == SlugsDistinct /\ RowsAddressed /\ ListingsAddressed

\* An address that is the own one stays so while the rows do.
LEMMA OwnAddressStays ==
    ASSUME Kept, SlugsStay, NEW row, row.tenant \in Tenants, OwnAddress(row)
    PROVE  OwnAddress(row)'
  BY DEF OwnAddress, Kept, SlugsStay

\* Listings and requests that nobody touches keep their addresses.
LEMMA ListingsStay ==
    ASSUME TypeInv, Kept, SlugsStay, ListingsAddressed, UNCHANGED <<listed, probed, jobs>>
    PROVE  ListingsAddressed'
<1>1. \A row \in listed : OwnAddress(row)'
  BY OwnAddressStays DEF ListingsAddressed, TypeInv, TypeOK, Row
<1>2. \A c \in Chats : \A row \in jobs[c] : OwnAddress(row)'
  BY OwnAddressStays DEF ListingsAddressed, TypeInv, TypeOK, Row
<1>3. probed # NoRow => OwnAddress(probed.row)'
  <2>1. PICK row : row = probed.row OBVIOUS
  <2>2. probed # NoRow => row.tenant \in Tenants /\ OwnAddress(row)
    BY <2>1 DEF ListingsAddressed, TypeInv, TypeOK, Row
  <2>3. probed # NoRow => OwnAddress(row)' BY <2>2, OwnAddressStays
  <2> QED BY <2>1, <2>3 DEF OwnAddress, Stored
<1> QED BY <1>1, <1>2, <1>3 DEF ListingsAddressed, OwnAddress, Stored

\* No tool gives two tenants one slug; an error of the database prevents it.
LEMMA ToolSlugsDistinct ==
    ASSUME TypeInv, Backend = "sqlite", SlugsDistinct, NEW p \in Tools, ToolStep(p)
    PROVE  SlugsDistinct'
<1>1. CASE StoreTenant(p)
  <2>1. PICK k : k = task[p] OBVIOUS
  <2>2. PICK status \in {"active", "disabled"} :
            /\ ~SlugTaken(k.tenant, k.slug)
            /\ tstatus' = [tstatus EXCEPT ![k.tenant] = status]
            /\ slug' = [slug EXCEPT ![k.tenant] = k.slug]
    BY <1>1, <2>1 DEF StoreTenant, UpsertTenant, Put
  <2>3. k.tenant \in Tenants => slug'[k.tenant] = k.slug
    BY <2>2 DEF TypeInv, TypeOK
  <2>4. \A u \in Tenants \ {k.tenant} :
            /\ slug'[u] = slug[u] /\ tstatus'[u] = tstatus[u]
            /\ Stored(u) => slug[u] # k.slug
    BY <2>2 DEF TypeInv, TypeOK, SlugTaken
  <2> QED BY <2>3, <2>4 DEF SlugsDistinct, Stored
<1>2. CASE SetStatus(p)
  <2>1. UNCHANGED slug /\ \A t \in Tenants : tstatus'[t] # "absent" => Stored(t)
    BY <1>2 DEF SetStatus, Put, Stored, TypeInv, TypeOK
  <2> QED BY <2>1 DEF SlugsDistinct, Stored
<1>3. CASE UNCHANGED <<tstatus, slug>> BY <1>3 DEF SlugsDistinct, Stored
<1> QED
  BY <1>1, <1>2, <1>3 DEF database, docker, ToolStep, NextTask, CheckPhone,
     CheckPhoneRefuses, StoreTenantRefused, StoreCredentials, ReadCredentials,
     DecryptFails, EnsureContainer, RemoveContainer, InspectFails, StoreRuntime,
     HaltRuntime, BindBaleUser, DeactivateBindings

\* A tool writes the address of the tenant it has in hand.
LEMMA WritesTheOwn ==
    ASSUME TypeInv, KnownInv, NEW p \in Tools, StoreRuntime(p)
    PROVE  Stored(task[p].tenant) /\ task[p].name = NameOf[slug[task[p].tenant]]
<1>1. PICK k : k = task[p] OBVIOUS
<1>2. PICK i : i = at[p] OBVIOUS
<1>3. task[p] # NoTask /\ Script[k.kind][i] = "runtime"
  BY <1>1, <1>2 DEF StoreRuntime, At
<1>4. k.kind \in Kinds /\ k.tenant \in Tenants /\ i \in 1 .. Len(Script[k.kind])
  BY <1>1, <1>2, <1>3, TaskInHand DEF TypeInv
<1>5. OwnName(k) BY <1>1, <1>3 DEF KnownInv, NamesOK
<1>6. \/ k.kind \in Entered /\ Before(k.kind, i, "tenant")
      \/ k.kind \in {"reconcile", "report"}
  BY <1>3, <1>4, StepPlaces
<1>7. CASE k.kind \in {"reconcile", "report"} BY <1>1, <1>5, <1>7 DEF OwnName
<1>8. CASE k.kind \in Entered /\ Before(k.kind, i, "tenant")
  <2>1. Stored(k.tenant)
    BY <1>1, <1>2, <1>3, <1>8 DEF KnownInv, Progress, ProgressOK
  <2>2. PICK e \in Entries :
            e.tenant = k.tenant /\ e.slug = k.slug /\ k.name = NameOf[k.slug]
    BY <1>5, <1>8 DEF OwnName
  <2>3. slug[k.tenant] = k.slug BY <2>1, <2>2 DEF KnownInv, SlugOK
  <2> QED BY <1>1, <2>1, <2>2, <2>3
<1> QED BY <1>6, <1>7, <1>8

\* Rows keep their addresses right if each one that is written is right.
LEMMA RowsAddressedStay ==
    ASSUME TypeInv, Kept, SlugsStay, RowsAddressed,
           \A t \in Tenants :
               \/ rname'[t] = rname[t]
               \/ Stored(t) /\ rname'[t] = NameOf[slug[t]]
    PROVE  RowsAddressed'
  BY DEF RowsAddressed, Kept, SlugsStay, Stored

\* The rows keep their addresses right under the steps of a tool.
LEMMA ToolAddresses ==
    ASSUME TypeInv, KnownInv, RowsAddressed, Kept, SlugsStay, NEW p \in Tools, ToolStep(p)
    PROVE  RowsAddressed'
<1>1. CASE StoreRuntime(p)
  <2>1. PICK t : t = task[p].tenant OBVIOUS
  <2>2. PICK n : n = task[p].name OBVIOUS
  <2>3. rname' = [rname EXCEPT ![t] = n]
    BY <1>1, <2>1, <2>2 DEF StoreRuntime, UpsertRuntime, Put
  <2>4. Stored(t) /\ n = NameOf[slug[t]] BY <1>1, <2>1, <2>2, WritesTheOwn
  <2> QED BY <2>3, <2>4, RowsAddressedStay DEF TypeInv, TypeOK
<1>2. CASE UNCHANGED rname BY <1>2, RowsAddressedStay
<1> QED
  BY <1>1, <1>2 DEF database, docker, ToolStep, NextTask, CheckPhone,
     CheckPhoneRefuses, StoreTenant, StoreTenantRefused, StoreCredentials,
     ReadCredentials, DecryptFails, EnsureContainer, RemoveContainer, InspectFails,
     HaltRuntime, BindBaleUser, DeactivateBindings, SetStatus

\* The bot copies addresses from rows to listings, and back.
LEMMA BotAddresses ==
    ASSUME TypeInv, KnownInv, RouteInv, Kept, SlugsStay,
           \/ ProbeStep \/ ProbeRaises
           \/ \E c \in Chats : Route(c) \/ Relay(c)
    PROVE  RouteInv'
<1> USE DEF RouteInv, database, docker, tools, botFrame
<1>1. UNCHANGED <<tstatus, slug>>
  BY DEF ProbeStep, ProbeList, ProbeGet, ProbeWrite, ProbeRaises, Route, Relay
<1>2. SlugsDistinct' BY <1>1 DEF SlugsDistinct, Stored
<1>3. \A row : OwnAddress(row) => OwnAddress(row)' BY <1>1 DEF OwnAddress, Stored
<1>4. \A t \in Tenants : rname[t] # NoName => OwnAddress(Listing(t))
  BY DEF RowsAddressed, OwnAddress, Listing
<1>5. CASE ProbeWrite
  <2>1. PICK row : row = probed.row OBVIOUS
  <2>2. OwnAddress(row) /\ rname' = [rname EXCEPT ![row.tenant] = row.name]
    BY <1>5, <2>1 DEF ProbeWrite, UpsertRuntime, Put, ListingsAddressed
  <2>3. RowsAddressed'
    BY <2>2, RowsAddressedStay DEF OwnAddress, TypeInv, TypeOK
  <2>4. /\ \A r \in listed' : OwnAddress(r)'
        /\ probed' = NoRow
        /\ \A c \in Chats : \A r \in jobs'[c] : OwnAddress(r)'
    BY <1>3, <1>5 DEF ProbeWrite, ListingsAddressed
  <2> QED BY <1>2, <2>3, <2>4 DEF ListingsAddressed
<1>6. ASSUME UNCHANGED rname, ListingsAddressed' PROVE RouteInv'
  BY <1>2, <1>6, RowsAddressedStay
<1>7. CASE ProbeList
  <2>1. /\ \A r \in listed' : OwnAddress(r)'
        /\ probed' = NoRow
        /\ \A c \in Chats : \A r \in jobs'[c] : OwnAddress(r)'
    BY <1>3, <1>4, <1>7 DEF ProbeList, ListingsAddressed
  <2> QED BY <1>6, <1>7, <2>1 DEF ProbeList, ListingsAddressed
<1>8. CASE ProbeGet
  <2>1. PICK row \in listed, verdict \in Verdicts :
            probed' = [row |-> row, verdict |-> verdict] /\ listed' = listed \ {row}
    BY <1>8 DEF ProbeGet
  <2>2. /\ \A r \in listed' : OwnAddress(r)'
        /\ OwnAddress(row)'
        /\ \A c \in Chats : \A r \in jobs'[c] : OwnAddress(r)'
    BY <1>3, <1>8, <2>1 DEF ProbeGet, ListingsAddressed
  <2>3. probed'.row = row BY <2>1
  <2>4. OwnAddress(probed.row)' BY <2>2, <2>3 DEF OwnAddress, Stored
  <2> QED BY <1>6, <1>8, <2>2, <2>4 DEF ProbeGet, ListingsAddressed
<1>9. CASE ProbeRaises
  <2>1. /\ \A r \in listed' : OwnAddress(r)'
        /\ probed' = NoRow
        /\ \A c \in Chats : \A r \in jobs'[c] : OwnAddress(r)'
    BY <1>3, <1>9 DEF ProbeRaises, ListingsAddressed
  <2> QED BY <1>6, <1>9, <2>1 DEF ProbeRaises, ListingsAddressed
<1>10. ASSUME NEW c \in Chats, Route(c) \/ Relay(c) PROVE RouteInv'
  <2>1. UNCHANGED <<rname, listed, probed>> BY <1>10 DEF Route, Relay
  <2>2. /\ \A r \in listed' : OwnAddress(r)'
        /\ probed # NoRow => OwnAddress(probed.row)'
    <3>1. PICK row : row = probed.row OBVIOUS
    <3>2. probed # NoRow => OwnAddress(row)' BY <1>3, <3>1 DEF ListingsAddressed
    <3>3. probed # NoRow => OwnAddress(probed.row)'
      BY <2>1, <3>1, <3>2 DEF OwnAddress, Stored
    <3> QED BY <1>3, <2>1, <3>3 DEF ListingsAddressed
  <2>3. ASSUME NEW d \in Chats, NEW r \in jobs'[d] PROVE OwnAddress(r)
    <3>1. CASE r \in jobs[d] BY <3>1 DEF ListingsAddressed
    <3>2. CASE r \notin jobs[d]
      <4>1. Route(c) /\ r = Listing(bound[c]) /\ d = c
        BY <1>10, <2>3, <3>2 DEF Route, Relay, Put, TypeInv, TypeOK
      <4>2. bound[c] \in Tenants /\ rname[bound[c]] # NoName
        BY <4>1 DEF Route, Routable, TypeInv, RowsOK
      <4> QED BY <1>4, <4>1, <4>2
    <3> QED BY <3>1, <3>2
  <2>4. \A d \in Chats : \A r \in jobs'[d] : OwnAddress(r)' BY <1>3, <2>3
  <2> QED BY <1>6, <2>1, <2>2, <2>4 DEF ListingsAddressed
<1> QED BY <1>5, <1>7, <1>8, <1>9, <1>10 DEF ProbeStep

\* Every step keeps every address right.
LEMMA RouteStep ==
    ASSUME TypeInv, KnownInv, RouteInv, [Next]_vars
    PROVE  RouteInv'
<1>1. Kept /\ SlugsStay BY KnownStep
<1>2. Backend = "sqlite" /\ SlugsDistinct /\ RowsAddressed /\ ListingsAddressed
  BY DEF KnownInv, RouteInv
<1>3. ASSUME UNCHANGED <<tstatus, slug, rname, listed, probed, jobs>> PROVE RouteInv'
  <2>1. SlugsDistinct' BY <1>2, <1>3 DEF SlugsDistinct, Stored
  <2>2. RowsAddressed' BY <1>1, <1>2, <1>3, RowsAddressedStay
  <2> QED BY <1>1, <1>2, <1>3, <2>1, <2>2, ListingsStay DEF RouteInv
<1>4. CASE UNCHANGED vars BY <1>3, <1>4 DEF vars, database, bot
<1>5. ASSUME NEW p \in Tools, ToolStep(p) PROVE RouteInv'
  <2>1. UNCHANGED <<listed, probed, jobs>>
    BY <1>5 DEF stepFrame, bot, ToolStep, NextTask, CheckPhone, CheckPhoneRefuses,
       StoreTenant, StoreTenantRefused, StoreCredentials, ReadCredentials,
       DecryptFails, EnsureContainer, RemoveContainer, InspectFails, StoreRuntime,
       HaltRuntime, BindBaleUser, DeactivateBindings, SetStatus
  <2>2. ListingsAddressed' BY <1>1, <1>2, <2>1, ListingsStay
  <2>3. SlugsDistinct' BY <1>2, <1>5, ToolSlugsDistinct
  <2>4. RowsAddressed' BY <1>1, <1>2, <1>5, ToolAddresses
  <2> QED BY <2>2, <2>3, <2>4 DEF RouteInv
<1>6. ASSUME NEW p \in Tools, StepRaises(p) PROVE RouteInv'
  BY <1>3, <1>6 DEF StepRaises, database, bot
<1>7. ASSUME NEW p \in Tools, Command(p) PROVE RouteInv'
  BY <1>3, <1>7 DEF Command, TenantAdd, ProvisionSelected, TenantSetStatus, Reconcile,
     LoadUsers, Begin, database, bot
<1>8. ASSUME \/ ProbeStep \/ ProbeRaises
             \/ \E c \in Chats : Route(c) \/ Relay(c)
      PROVE  RouteInv'
  BY <1>1, <1>8, BotAddresses
<1> QED BY <1>4, <1>5, <1>6, <1>7, <1>8 DEF Next

\* A request never reaches the session of another tenant, however old the
\* address is that it carries, what tools and probe have done since, and where
\* they have failed.  On SQLite, if slugs are kept and give distinct names:
\* without any of the three it is false.
THEOREM Isolation ==
    ASSUME Backend = "sqlite", SlugsKept, NamesDistinct
    PROVE  Spec => []RelayReachesOwnTenant
<1>1. Init => KnownInv
  BY DEF Init, KnownInv, Progress, ProgressOK, SlugOK, NamesOK, BoxesOK,
         ContainerIsKnown, Stored, EntryType
<1>2. Init => RouteInv
  BY DEF Init, RouteInv, SlugsDistinct, RowsAddressed, ListingsAddressed, Stored
<1>3. TypeInv /\ KnownInv /\ [Next]_vars => KnownInv' BY KnownStep
<1>4. TypeInv /\ KnownInv /\ RouteInv /\ [Next]_vars => RouteInv' BY RouteStep
<1>5. TypeInv /\ KnownInv /\ RouteInv => RelayReachesOwnTenant
  <2> SUFFICES ASSUME TypeInv, KnownInv, RouteInv,
                      NEW c \in Chats, NEW row \in jobs[c], box[row.name] # NoSession
               PROVE  boxOf[row.name] = row.tenant
    BY DEF RelayReachesOwnTenant
  <2>1. /\ row.tenant \in Tenants /\ Stored(row.tenant)
        /\ row.name = NameOf[slug[row.tenant]]
    BY DEF RouteInv, ListingsAddressed, OwnAddress, TypeInv, TypeOK, Row
  <2>2. slug[row.tenant] \in Slugs /\ row.name \in Names
    BY <2>1 DEF TypeInv, RowsOK
  <2>3. /\ boxOf[row.name] \in Tenants /\ Stored(boxOf[row.name])
        /\ NameOf[slug[boxOf[row.name]]] = row.name
    BY <2>2 DEF KnownInv, BoxesOK, ContainerIsKnown
  <2>4. slug[boxOf[row.name]] \in Slugs BY <2>3 DEF TypeInv, RowsOK
  <2>5. slug[boxOf[row.name]] = slug[row.tenant]
    BY <2>1, <2>2, <2>3, <2>4 DEF NamesDistinct
  <2> QED BY <2>1, <2>3, <2>5 DEF RouteInv, SlugsDistinct
<1> QED BY <1>1, <1>2, <1>3, <1>4, <1>5, TypeInvariance, PTL DEF Spec

-----------------------------------------------------------------------------
(* How a tool goes from one task or step to another.                       *)

Moves(p) ==
    /\ \A q \in Tools : work'[q] \subseteq work[q]
    /\ \A q \in Tools \ {p} : task'[q] = task[q] /\ at'[q] = at[q]
    /\ \/ task'[p] = NoTask
       \/ task'[p] \in work[p] /\ at'[p] = 1
       \/ /\ task[p] # NoTask /\ task[p].kind = "reconcile"
          /\ task'[p] = [task[p] EXCEPT !.kind = "report"] /\ at'[p] = 1
       \/ /\ task[p] # NoTask /\ ~At(p, "read")
          /\ task'[p] = task[p] /\ at'[p] = at[p] + 1
       \/ /\ At(p, "read") /\ cred[task[p].tenant] # NoAccount
          /\ task'[p] = WithCredentials(task[p])
          /\ at'[p] = at[p] + 1

\* All its steps, and its failure, are of that kind.
LEMMA ToolMoves ==
    ASSUME TypeInv, NEW p \in Tools, ToolStep(p) \/ StepRaises(p)
    PROVE  Moves(p)
<1>0. /\ work \in [Tools -> SUBSET Task] /\ at \in [Tools -> Nat]
      /\ task \in [Tools -> Task \cup {NoTask}]
  BY DEF TypeInv, ToolsOK
<1>1. ASSUME EndTask(p), UNCHANGED work \/ work' = Put(work, p, {}) PROVE Moves(p)
  BY <1>0, <1>1 DEF EndTask, Put, Moves
<1>2. ASSUME task[p] # NoTask, ~At(p, "read"), Advance(p) PROVE Moves(p)
  BY <1>0, <1>1, <1>2 DEF Advance, Put, Moves
<1>3. CASE NextTask(p) BY <1>0, <1>3 DEF NextTask, Put, Moves
<1>4. CASE ReadCredentials(p)
  <2>1. CASE EndTask(p) BY <1>1, <1>4, <2>1 DEF ReadCredentials
  <2>2. CASE ~EndTask(p)
    <3>1. /\ task' = [task EXCEPT ![p] = WithCredentials(task[p])]
          /\ at' = [at EXCEPT ![p] = at[p] + 1]
          /\ UNCHANGED work /\ At(p, "read") /\ cred[task[p].tenant] # NoAccount
      BY <1>4, <2>2 DEF ReadCredentials, Put, WithCredentials
    <3> QED BY <1>0, <3>1 DEF Moves
  <2> QED BY <2>1, <2>2
<1>5. CASE StepRaises(p)
  <2>1. CASE Abort(p) BY <1>1, <2>1 DEF Abort
  <2>2. CASE ~Abort(p)
    <3>1. /\ task' = [task EXCEPT ![p] = [task[p] EXCEPT !.kind = "report"]]
          /\ at' = [at EXCEPT ![p] = 1]
          /\ UNCHANGED work /\ task[p] # NoTask /\ task[p].kind = "reconcile"
      BY <1>5, <2>2 DEF StepRaises, Put
    <3> QED BY <1>0, <3>1 DEF Moves
  <2> QED BY <2>1, <2>2
<1>6. \A r, s : At(p, r) /\ At(p, s) => r = s BY DEF At
<1>7. \A s : At(p, s) => task[p] # NoTask BY DEF At
<1>8. CASE RemoveContainer(p) \/ InspectFails(p)
  BY <1>1, <1>2, <1>6, <1>7, <1>8 DEF RemoveContainer, InspectFails, AfterRemoval
<1>9. CASE CheckPhoneRefuses(p) \/ StoreTenantRefused(p)
  BY <1>1, <1>9 DEF CheckPhoneRefuses, StoreTenantRefused, Abort
<1>10. CASE CheckPhone(p) \/ StoreTenant(p) \/ StoreCredentials(p) \/ EnsureContainer(p)
  BY <1>2, <1>6, <1>7, <1>10 DEF CheckPhone, StoreTenant, StoreCredentials,
     EnsureContainer
<1>11. CASE \/ StoreRuntime(p) \/ HaltRuntime(p) \/ BindBaleUser(p)
            \/ DeactivateBindings(p) \/ SetStatus(p)
  <2>1. Advance(p) /\ \E s \in {"runtime", "halt", "bind", "unbind", "activate", "disable"} :
                         At(p, s)
    BY <1>11 DEF StoreRuntime, HaltRuntime, BindBaleUser, DeactivateBindings, SetStatus
  <2> QED BY <1>2, <1>6, <1>7, <2>1
<1>12. CASE DecryptFails(p) BY <1>1, <1>12 DEF DecryptFails
<1> QED BY <1>3, <1>4, <1>5, <1>8, <1>9, <1>10, <1>11, <1>12 DEF ToolStep
=============================================================================
