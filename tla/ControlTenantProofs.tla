------------------------ MODULE ControlTenantProofs --------------------------
(***************************************************************************)
(* Two proofs that follow a tenant through whole commands.                 *)
(*                                                                         *)
(* No Telegram session runs in two containers.  The tools compare accounts *)
(* (find_active_tenant_by_phone), before the login; the credentials are    *)
(* stored after it, and the container runs the session the task says.      *)
(* What the code does not prevent must be excluded:                        *)
(*  - a session is given under two phone numbers or api ids, which nobody  *)
(*    compares (the property excepts such a session),                      *)
(*  - two tools check one account side by side (excepted as well),         *)
(*  - users.json gives an account to a tenant that another one has         *)
(*    (load_users makes no check; the run control_session shows it), and   *)
(*  - a tenant is given another account, and somebody else takes the old   *)
(*    one before the container with the old session is replaced.           *)
(*                                                                         *)
(* load_users converges: run alone and to its end, it leaves what its file *)
(* asks for, whatever was there before, but for a container that a failing *)
(* docker inspect hid from it.  While it runs, a tenant is either still to *)
(* be done, in hand and done up to some step, or done, and no step for one *)
(* tenant undoes what was done for another.                                *)
(***************************************************************************)
EXTENDS ControlPlaneProofs

-----------------------------------------------------------------------------
(* One container per session.                                              *)

\* Whatever an operator says of a tenant, it is the same account.
AccountsKept == \A d, e \in Entries : d.tenant = e.tenant => d.account = e.account

\* The file gives no account away that somebody else is said to have.
NothingTakenOver ==
    \A f \in Files : \A e \in ActiveIn(f) : \A d \in Entries :
        d.account = e.account => d.tenant = e.tenant

Said(t, a) == \E e \in Entries : e.tenant = t /\ e.account = a

\* Whoever has an account was given it, and has a row.
CredsSaid == \A t \in Tenants : cred[t] # NoAccount => Stored(t) /\ Said(t, cred[t])

Loads(t, a) == \E f \in Files : \E e \in ActiveIn(f) : e.tenant = t /\ e.account = a

AccountOK(k) ==
    /\ k.kind \in Entered => Said(k.tenant, k.account)
    /\ k.kind = "load" => Loads(k.tenant, k.account)

AccountsOK ==
    /\ \A p \in Tools : \A k \in work[p] : AccountOK(k)
    /\ \A p \in Tools :
          task[p] # NoTask =>
              /\ AccountOK(task[p])
              /\ Before(task[p].kind, at[p], "read") => Said(task[p].tenant, task[p].account)

\* The session that is stored for a tenant was stored with its account.
CredsGiven == \A t \in Tenants : cred[t] # NoAccount => cred[t] \in given[session[t]]

\* So was the session of a task whose credentials are stored, or were read.
TaskGiven(k, i) ==
    Before(k.kind, i, "credentials") \/ Before(k.kind, i, "read") =>
        k.account \in given[k.session]

TasksGiven == \A p \in Tools : task[p] # NoTask => TaskGiven(task[p], at[p])

\* A container runs a session that was stored with the account of its tenant.
BoxesRun == \A n \in Names : box[n] # NoSession => cred[boxOf[n]] \in given[box[n]]

\* Who has an account, or will have it after the login.
Claims(a) ==
    {u \in Tenants : \/ cred[u] = a
                     \/ \E q \in Tools : LoggingIn(q, a) /\ task[q].tenant = u}

ClaimsUnique ==
    \A a \in Accounts \ raced : \A t, u \in Claims(a) : t = u

SessionInv ==
    /\ AccountsKept /\ NothingTakenOver
    /\ CredsSaid /\ AccountsOK /\ ClaimsUnique
    /\ CredsGiven /\ TasksGiven /\ BoxesRun

-----------------------------------------------------------------------------
(* The account of a task.                                                  *)

\* Where the account is checked, and where it is stored.
LEMMA AccountSteps ==
    ASSUME NEW kind \in Kinds, NEW i \in 1 .. Len(Script[kind])
    PROVE  /\ Script[kind][i] = "check" => i = 1
           /\ Script[kind][1] = "check" => kind \in {"add", "register"}
           /\ Script[kind][1] # "check" /\ kind \in Entered => kind \in {"load", "unload"}
           /\ Script[kind][i] = "read" => kind = "reconcile" /\ i = 1
           /\ Script[kind][i] = "credentials" =>
                  /\ kind \in {"add", "register", "load"}
                  /\ Before(kind, i, "tenant")
                  /\ i > 1
                  /\ \A j \in 1 .. i - 1 : Script[kind][j] # "credentials"
<1> USE DEF Before, Entered, ScriptIs
<1>1. CASE kind = "add" BY <1>1, Provisioning
<1>2. CASE kind = "register" BY <1>2, Provisioning
<1>3. CASE kind = "load" BY <1>3, Provisioning
<1>4. CASE kind = "unload" BY <1>4, OtherScripts
<1>5. CASE kind = "drop" BY <1>5, OtherScripts
<1>6. CASE kind = "enable" BY <1>6, OtherScripts
<1>7. CASE kind = "disable" BY <1>7, OtherScripts
<1>8. CASE kind = "reconcile" BY <1>8, OtherScripts
<1>9. CASE kind = "report" BY <1>9, OtherScripts
<1> QED BY <1>1, <1>2, <1>3, <1>4, <1>5, <1>6, <1>7, <1>8, <1>9, KindsAre

\* The tools keep to the accounts that were said when they go on.
LEMMA AccountsMove ==
    ASSUME TypeInv, CredsSaid, AccountsOK, NEW p \in Tools, Moves(p)
    PROVE  AccountsOK'
<1>1. \A q \in Tools : \A k \in work'[q] : AccountOK(k) BY DEF AccountsOK, Moves
<1>2. ASSUME NEW q \in Tools, task'[q] # NoTask
      PROVE  /\ AccountOK(task'[q])
             /\ Before(task'[q].kind, at'[q], "read")
                    => Said(task'[q].tenant, task'[q].account)
  <2>0. PICK j, k : j = task'[q] /\ k = task[q] OBVIOUS
  <2>1. CASE q # p BY <1>2, <2>1 DEF AccountsOK, Moves
  <2>2. CASE q = p /\ j \in work[p] /\ at'[p] = 1
    BY <2>0, <2>2, NothingBefore DEF AccountsOK
  <2>3. CASE /\ q = p /\ k # NoTask /\ k.kind = "reconcile"
             /\ j = [k EXCEPT !.kind = "report"] /\ at'[p] = 1
    <3>1. k \in Task BY <2>0, <2>3, TaskInHand DEF TypeInv
    <3>2. j.kind = "report" BY <2>3, <3>1 DEF Task
    <3> QED BY <2>0, <2>3, <3>2, NothingBefore DEF AccountOK, Entered
  <2>4. ASSUME q = p, k # NoTask, at'[p] = at[p] + 1 PROVE
            /\ k \in Task /\ k.kind \in Kinds /\ k.tenant \in Tenants
            /\ Before(k.kind, at'[p], "read") =>
                   Before(k.kind, at[p], "read") \/ At(p, "read")
            /\ At(p, "read") => k.kind = "reconcile"
    BY <2>0, <2>4, TaskInHand, BeforeNext, AccountSteps DEF TypeInv, At
  <2>5. CASE q = p /\ k # NoTask /\ ~At(p, "read") /\ j = k /\ at'[p] = at[p] + 1
    <3>1. AccountOK(k) /\ (Before(k.kind, at[p], "read") => Said(k.tenant, k.account))
      BY <2>0, <2>5 DEF AccountsOK
    <3> QED BY <2>0, <2>4, <2>5, <3>1
  <2>6. CASE /\ q = p /\ At(p, "read") /\ cred[k.tenant] # NoAccount
             /\ j = WithCredentials(k) /\ at'[p] = at[p] + 1
    <3>1. k # NoTask BY <2>0, <2>6 DEF At
    <3>2. k \in Task /\ k.kind = "reconcile" /\ k.tenant \in Tenants
      BY <2>4, <2>6, <3>1
    <3>3. j.kind = "reconcile" /\ j.tenant = k.tenant /\ j.account = cred[k.tenant]
      BY <2>6, <3>2 DEF Task, WithCredentials
    <3>4. Said(j.tenant, j.account) BY <2>6, <3>2, <3>3 DEF CredsSaid
    <3>5. AccountOK(j) BY <3>3 DEF AccountOK, Entered
    <3> QED BY <2>0, <2>6, <3>4, <3>5
  <2> QED BY <1>2, <2>0, <2>1, <2>2, <2>3, <2>5, <2>6 DEF Moves
<1> QED BY <1>1, <1>2 DEF AccountsOK, AccountOK, Said, Loads

\* The commands hand out tasks with such accounts, and move nobody.
LEMMA CommandAccounts ==
    ASSUME TypeInv, AccountsOK, NEW p \in Tools, Command(p)
    PROVE  AccountsOK'
<1> DEFINE Fine(ts) == \A k \in ts : AccountOK(k)
<1>1. \A e \in Entries, kind \in Entered \ {"load"} : AccountOK(TaskOf(kind, e))
  BY DEF AccountOK, TaskOf, Said
<1>2. \A f \in Files : \A e \in ActiveIn(f) : AccountOK(TaskOf("load", e))
  <2> SUFFICES ASSUME NEW f \in Files, NEW e \in ActiveIn(f)
               PROVE  AccountOK(TaskOf("load", e))
    OBVIOUS
  <2>1. e \in Entries BY ConstantAssumption DEF ActiveIn
  <2> QED BY <2>1 DEF AccountOK, TaskOf, Said, Loads
<1>3. \A t, n, b : \A kind \in Kinds \ Entered : AccountOK(TaskFor(kind, t, n, b))
  BY DEF AccountOK, TaskFor, Entered
<1>4. ASSUME NEW ts, NEW file, Begin(p, ts, file), Fine(ts) PROVE AccountsOK'
  <2>1. /\ UNCHANGED <<task, at>>
        /\ work'[p] = ts
        /\ \A q \in Tools \ {p} : work'[q] = work[q]
    BY <1>4 DEF Begin, Put, TypeInv, ToolsOK
  <2>2. \A q \in Tools : \A k \in work'[q] : AccountOK(k) BY <1>4, <2>1 DEF AccountsOK
  <2> QED BY <2>1, <2>2 DEF AccountsOK, AccountOK, Said, Loads
<1>5. CASE TenantAdd(p) BY <1>1, <1>4, <1>5 DEF TenantAdd, Entered
<1>6. CASE ProvisionSelected(p) BY <1>1, <1>4, <1>6 DEF ProvisionSelected, Entered
<1>7. {"enable", "disable", "reconcile", "drop"} \subseteq Kinds \ Entered
  BY KindsAre DEF Entered
<1>8. CASE TenantSetStatus(p)
  <2>1. PICK t \in Tenants, kind \in {"enable", "disable"} :
            Begin(p, {TaskFor(kind, t, NoName, FALSE)}, NoFile)
    BY <1>8 DEF TenantSetStatus
  <2>2. PICK ts : ts = {TaskFor(kind, t, NoName, FALSE)} OBVIOUS
  <2>3. Fine(ts) BY <1>3, <1>7, <2>2
  <2>4. Begin(p, ts, NoFile) BY <2>1, <2>2
  <2> QED BY <1>4, <2>3, <2>4
<1>9. CASE Reconcile(p)
  <2>1. PICK ts \in SUBSET {t \in Tenants : tstatus[t] = "active"} :
            Begin(p, {TaskFor("reconcile", t, NameOf[slug[t]], FALSE) : t \in ts}, NoFile)
    BY <1>9 DEF Reconcile
  <2>2. PICK ks : ks = {TaskFor("reconcile", t, NameOf[slug[t]], FALSE) : t \in ts}
    OBVIOUS
  <2>3. Fine(ks) BY <1>3, <1>7, <2>2
  <2> QED BY <1>4, <2>1, <2>2, <2>3
<1>10. CASE LoadUsers(p)
  <2> DEFINE loaded(f) == {TaskOf(IF e.status = "active" THEN "load" ELSE "unload", e) :
                                e \in f}
             dropped(f) == {DropTask(t) :
                                t \in {u \in Tenants \ {e.tenant : e \in f} : Stored(u)}}
  <2>1. PICK f \in Files : Begin(p, loaded(f) \cup dropped(f), f)
    BY <1>10 DEF LoadUsers
  <2>2. \A e \in f : AccountOK(TaskOf(IF e.status = "active" THEN "load" ELSE "unload", e))
    <3> SUFFICES ASSUME NEW e \in f
                 PROVE AccountOK(TaskOf(IF e.status = "active" THEN "load" ELSE "unload", e))
      OBVIOUS
    <3>1. CASE e.status = "active"
      <4>1. e \in ActiveIn(f) BY <3>1 DEF ActiveIn
      <4> QED BY <1>2, <3>1, <4>1
    <3>2. CASE e.status # "active"
      <4>1. e \in Entries BY ConstantAssumption
      <4> QED BY <1>1, <3>2, <4>1 DEF Entered
    <3> QED BY <3>1, <3>2
  <2>3. \A t \in Tenants : AccountOK(DropTask(t)) BY <1>3, <1>7 DEF DropTask
  <2>4. PICK ks : ks = loaded(f) \cup dropped(f) OBVIOUS
  <2>5. Fine(ks) BY <2>2, <2>3, <2>4
  <2> QED BY <1>4, <2>1, <2>4, <2>5
<1> QED BY <1>5, <1>6, <1>8, <1>9, <1>10 DEF Command

-----------------------------------------------------------------------------
(* The stored credentials.                                                 *)

\* What is stored is the account of the task, for a tenant that has a row.
LEMMA StoresTheOwn ==
    ASSUME TypeInv, KnownInv, SessionInv, NEW p \in Tools, StoreCredentials(p)
    PROVE  /\ task[p].tenant \in Tenants /\ task[p].account \in Accounts
           /\ Stored(task[p].tenant) /\ Said(task[p].tenant, task[p].account)
           /\ cred' = [cred EXCEPT ![task[p].tenant] = task[p].account]
           /\ Loads(task[p].tenant, task[p].account) \/ LoggingIn(p, task[p].account)
<1>1. PICK k, i : k = task[p] /\ i = at[p] OBVIOUS
<1>2. task[p] # NoTask /\ Script[k.kind][i] = "credentials"
  BY <1>1 DEF StoreCredentials, At
<1>3. /\ k.kind \in Kinds /\ k.tenant \in Tenants /\ i \in 1 .. Len(Script[k.kind])
      /\ TaskOK(k)
  BY <1>1, <1>2, TaskInHand DEF TypeInv
<1>4. /\ k.kind \in {"add", "register", "load"} /\ Before(k.kind, i, "tenant")
      /\ i > 1 /\ \A j \in 1 .. i - 1 : Script[k.kind][j] # "credentials"
      /\ k.kind # "load" => Script[k.kind][1] = "check"
  BY <1>2, <1>3, AccountSteps DEF Entered
<1>5. k.account \in Accounts BY <1>3, <1>4 DEF TaskOK, Entered
<1>6. Stored(k.tenant) BY <1>1, <1>2, <1>4 DEF KnownInv, Progress, ProgressOK
<1>7. AccountOK(k) BY <1>1, <1>2 DEF SessionInv, AccountsOK
<1>8. LoggingIn(p, k.account) \/ k.kind = "load"
  BY <1>1, <1>2, <1>4 DEF LoggingIn
<1>9. Said(k.tenant, k.account) /\ (k.kind = "load" => Loads(k.tenant, k.account))
  BY <1>4, <1>7 DEF AccountOK, Entered
<1>10. cred' = [cred EXCEPT ![k.tenant] = k.account]
  BY <1>1 DEF StoreCredentials, Put
<1> QED BY <1>1, <1>3, <1>5, <1>6, <1>8, <1>9, <1>10

\* Nothing else stores credentials.
LEMMA OthersStoreNone ==
    ASSUME NEW p \in Tools, ToolStep(p) \/ StepRaises(p), ~StoreCredentials(p)
    PROVE  UNCHANGED <<cred, session, given>>
  BY DEF database, history, stepFrame, ToolStep, NextTask, CheckPhone, CheckPhoneRefuses,
     StoreTenant, StoreTenantRefused, ReadCredentials, DecryptFails, EnsureContainer,
     RemoveContainer, InspectFails, StoreRuntime, HaltRuntime, BindBaleUser,
     DeactivateBindings, SetStatus, StepRaises

\* A tenant that has an account keeps it, and has one only if it was said so.
CredsStay == \A t \in Tenants : cred[t] # NoAccount => cred'[t] = cred[t]

LEMMA ToolCreds ==
    ASSUME TypeInv, KnownInv, SessionInv, Kept, NEW p \in Tools,
           ToolStep(p) \/ StepRaises(p)
    PROVE  CredsSaid' /\ CredsStay
<1>1. CASE StoreCredentials(p)
  <2>1. PICK t, a : t = task[p].tenant /\ a = task[p].account OBVIOUS
  <2>2. /\ t \in Tenants /\ Stored(t) /\ Said(t, a)
        /\ cred' = [cred EXCEPT ![t] = a]
    BY <1>1, <2>1, StoresTheOwn
  <2>3. cred'[t] = a /\ \A u \in Tenants \ {t} : cred'[u] = cred[u]
    BY <2>2 DEF TypeInv, TypeOK
  <2>4. cred[t] # NoAccount => cred[t] = a
    BY <2>2 DEF SessionInv, CredsSaid, AccountsKept, Said
  <2>5. CredsSaid'
    BY <2>2, <2>3 DEF SessionInv, CredsSaid, Kept, Stored, Said
  <2> QED BY <2>3, <2>4, <2>5 DEF CredsStay
<1>2. CASE UNCHANGED cred
  BY <1>2 DEF SessionInv, CredsSaid, CredsStay, Kept, Stored, Said
<1> QED BY <1>1, <1>2, OthersStoreNone

-----------------------------------------------------------------------------
(* The sessions that were stored with the accounts.                        *)

GivenGrows == \A x \in Sessions : given[x] \subseteq given'[x]

\* What a tool stores, it has noted by then.
LEMMA StoresGiven ==
    ASSUME TypeInv, NEW p \in Tools, StoreCredentials(p)
    PROVE  /\ task[p].tenant \in Tenants
           /\ task[p].account \in Accounts /\ task[p].session \in Sessions
           /\ cred' = [cred EXCEPT ![task[p].tenant] = task[p].account]
           /\ session' = [session EXCEPT ![task[p].tenant] = task[p].session]
           /\ GivenGrows /\ task[p].account \in given'[task[p].session]
<1>1. PICK k, i : k = task[p] /\ i = at[p] OBVIOUS
<1>2. task[p] # NoTask /\ Script[k.kind][i] = "credentials"
  BY <1>1 DEF StoreCredentials, At
<1>3. /\ k.kind \in Kinds /\ k.tenant \in Tenants /\ i \in 1 .. Len(Script[k.kind])
      /\ TaskOK(k)
  BY <1>1, <1>2, TaskInHand DEF TypeInv
<1>4. k.account \in Accounts /\ k.session \in Sessions
  BY <1>2, <1>3, StepPlaces DEF TaskOK
<1>5. /\ cred' = [cred EXCEPT ![k.tenant] = k.account]
      /\ session' = [session EXCEPT ![k.tenant] = k.session]
      /\ given' = [given EXCEPT ![k.session] = @ \cup {k.account}]
  BY <1>1 DEF StoreCredentials, Put
<1>6. GivenGrows /\ k.account \in given'[k.session]
  BY <1>4, <1>5 DEF GivenGrows, TypeInv, TypeOK
<1> QED BY <1>1, <1>3, <1>4, <1>5, <1>6

\* No step of a tool forgets any of it, and the rows keep to it.
LEMMA ToolGiven ==
    ASSUME TypeInv, CredsGiven, NEW p \in Tools, ToolStep(p) \/ StepRaises(p)
    PROVE  GivenGrows /\ CredsGiven'
<1>0. \A t \in Tenants : cred[t] # NoAccount => session[t] \in Sessions
  BY DEF TypeInv, RowsOK
<1>1. CASE StoreCredentials(p)
  <2>1. PICK k : k = task[p] OBVIOUS
  <2>2. /\ k.tenant \in Tenants
        /\ cred' = [cred EXCEPT ![k.tenant] = k.account]
        /\ session' = [session EXCEPT ![k.tenant] = k.session]
        /\ GivenGrows /\ k.account \in given'[k.session]
    BY <1>1, <2>1, StoresGiven
  <2>3. /\ cred'[k.tenant] = k.account /\ session'[k.tenant] = k.session
        /\ \A u \in Tenants \ {k.tenant} : cred'[u] = cred[u] /\ session'[u] = session[u]
    BY <2>2 DEF TypeInv, TypeOK
  <2> QED BY <1>0, <2>2, <2>3 DEF CredsGiven, GivenGrows
<1>2. CASE ~StoreCredentials(p)
  BY <1>2, OthersStoreNone DEF CredsGiven, GivenGrows
<1> QED BY <1>1, <1>2

\* Nobody leaves the step "credentials" behind without storing them.
LEMMA StoredOrEnded ==
    ASSUME TypeInv, NEW p \in Tools, ToolStep(p) \/ StepRaises(p), At(p, "credentials")
    PROVE  StoreCredentials(p) \/ task'[p] = NoTask \/ at'[p] = 1
<1>1. \A s : At(p, s) => s = "credentials" BY DEF At
<1>2. CASE ToolStep(p)
  BY <1>1, <1>2 DEF ToolStep, NextTask, CheckPhone, CheckPhoneRefuses, StoreTenant,
     StoreTenantRefused, ReadCredentials, DecryptFails, EnsureContainer, RemoveContainer,
     InspectFails, StoreRuntime, HaltRuntime, BindBaleUser, DeactivateBindings, SetStatus,
     At
<1>3. CASE StepRaises(p)
  <2>1. CASE EndTask(p) BY <2>1, EndTaskEnds
  <2>2. CASE ~EndTask(p)
    BY <1>3, <2>2 DEF StepRaises, Abort, Put, TypeInv, ToolsOK
  <2> QED BY <2>1, <2>2
<1> QED BY <1>2, <1>3

\* A task keeps to what was stored, too, also when its tool goes on.
LEMMA ToolTasksGiven ==
    ASSUME TypeInv, CredsGiven, TasksGiven, NEW p \in Tools,
           ToolStep(p) \/ StepRaises(p)
    PROVE  TasksGiven'
<1>1. Moves(p) /\ GivenGrows BY ToolMoves, ToolGiven
<1>2. SUFFICES ASSUME NEW q \in Tools, task'[q] # NoTask
               PROVE  Before(task'[q].kind, at'[q], "credentials")
                        \/ Before(task'[q].kind, at'[q], "read")
                          => task'[q].account \in given'[task'[q].session]
  BY DEF TasksGiven, TaskGiven
<1>3. PICK k, i : k = task[q] /\ i = at[q] OBVIOUS
<1>4. ASSUME k # NoTask
      PROVE  /\ k \in Task /\ k.kind \in Kinds /\ k.tenant \in Tenants
             /\ i \in 1 .. Len(Script[k.kind])
             /\ Before(k.kind, i, "credentials") \/ Before(k.kind, i, "read") =>
                    k.session \in Sessions /\ k.account \in given'[k.session]
  <2>1. /\ k \in Task /\ TaskOK(k) /\ k.kind \in Kinds /\ k.tenant \in Tenants
        /\ i \in 1 .. Len(Script[k.kind])
    BY <1>3, <1>4, TaskInHand DEF TypeInv
  <2>2. Before(k.kind, i, "credentials") => k.session \in Sessions
    <3>1. ASSUME Before(k.kind, i, "credentials") PROVE k.kind \in Entered
      <4>1. PICK j \in 1 .. i - 1 : Script[k.kind][j] = "credentials" BY <3>1 DEF Before
      <4>2. j \in 1 .. Len(Script[k.kind]) BY <2>1, ScriptsBegin
      <4> QED BY <2>1, <4>1, <4>2, StepPlaces
    <3> QED BY <2>1, <3>1 DEF TaskOK
  <2>3. Before(k.kind, i, "read") => k.session \in Sessions
    BY <1>3, <1>4 DEF TypeInv, ToolsOK, PlaceOK
  <2>4. Before(k.kind, i, "credentials") \/ Before(k.kind, i, "read") =>
            k.account \in given[k.session]
    BY <1>3, <1>4 DEF TasksGiven, TaskGiven
  <2> QED BY <1>1, <2>1, <2>2, <2>3, <2>4 DEF GivenGrows
<1>5. CASE q # p
  <2>1. task'[q] = k /\ at'[q] = i BY <1>1, <1>3, <1>5 DEF Moves
  <2> QED BY <1>2, <1>4, <2>1
<1>6. CASE q = p /\ at'[p] = 1 BY <1>6, NothingBefore
<1>7. CASE q = p /\ k # NoTask /\ ~At(p, "read") /\ task'[p] = k /\ at'[p] = i + 1
  <2>1. /\ Before(k.kind, i + 1, "credentials")
              => Before(k.kind, i, "credentials") \/ Script[k.kind][i] = "credentials"
        /\ Before(k.kind, i + 1, "read") => Before(k.kind, i, "read")
    BY <1>3, <1>4, <1>7, BeforeNext DEF At
  <2>2. CASE Script[k.kind][i] = "credentials" /\ at'[p] # 1
    <3>1. StoreCredentials(p) BY <1>2, <1>3, <1>7, <2>2, StoredOrEnded DEF At
    <3> QED BY <1>3, <1>7, <3>1, StoresGiven
  <2>3. CASE Script[k.kind][i] # "credentials" BY <1>4, <1>7, <2>1, <2>3
  <2> QED BY <1>6, <1>7, <2>2, <2>3
<1>8. CASE /\ q = p /\ At(p, "read") /\ cred[k.tenant] # NoAccount
           /\ task'[p] = WithCredentials(k)
  <2>1. k # NoTask BY <1>3, <1>8 DEF At
  <2>2. k \in Task /\ k.tenant \in Tenants BY <1>4, <2>1
  <2>3. PICK j : j = task'[p] OBVIOUS
  <2>4. j.account = cred[k.tenant] /\ j.session = session[k.tenant]
    BY <1>8, <2>2, <2>3 DEF Task, WithCredentials
  <2>5. session[k.tenant] \in Sessions /\ cred[k.tenant] \in given[session[k.tenant]]
    BY <1>8, <2>2 DEF CredsGiven, TypeInv, RowsOK
  <2>6. cred[k.tenant] \in given'[session[k.tenant]] BY <1>1, <2>5 DEF GivenGrows
  <2> QED BY <1>8, <2>3, <2>4, <2>6
<1> QED BY <1>1, <1>2, <1>3, <1>5, <1>6, <1>7, <1>8 DEF Moves

-----------------------------------------------------------------------------
(* The containers.                                                         *)

\* Docker left to itself.
LEMMA SessionsStay ==
    ASSUME TypeInv, KnownInv, BoxesRun, CredsStay, GivenGrows,
           \A n \in Names : box'[n] \in {box[n], NoSession}, UNCHANGED boxOf
    PROVE  BoxesRun'
<1> SUFFICES ASSUME NEW n \in Names, box'[n] # NoSession
             PROVE  cred'[boxOf[n]] \in given'[box'[n]]
  BY DEF BoxesRun
<1>1. /\ box'[n] = box[n] /\ cred[boxOf[n]] \in given[box[n]] /\ boxOf[n] \in Tenants
      /\ cred[boxOf[n]] # NoAccount
  BY DEF BoxesRun, KnownInv, BoxesOK, ContainerIsKnown
<1>2. box[n] \in Sessions BY <1>1 DEF TypeInv, TypeOK
<1> QED BY <1>1, <1>2 DEF CredsStay, GivenGrows

\* What a tool runs was stored with the account that its tenant has.
LEMMA RunsTheStored ==
    ASSUME TypeInv, KnownInv, SessionInv, NEW p \in Tools, EnsureContainer(p)
    PROVE  /\ task[p].tenant \in Tenants
           /\ task[p].account = cred[task[p].tenant]
           /\ cred[task[p].tenant] # NoAccount
           /\ task[p].session \in Sessions /\ task[p].account \in given[task[p].session]
<1>1. PICK k, i : k = task[p] /\ i = at[p] OBVIOUS
<1>2. task[p] # NoTask /\ Script[k.kind][i] = "container"
  BY <1>1 DEF EnsureContainer, At
<1>3. /\ k.kind \in Kinds /\ k.tenant \in Tenants /\ i \in 1 .. Len(Script[k.kind])
      /\ TaskOK(k)
  BY <1>1, <1>2, TaskInHand DEF TypeInv
<1>4. cred[k.tenant] # NoAccount BY <1>1, RunsTheOwn
<1>5. \/ Before(k.kind, i, "credentials")
      \/ k.kind = "reconcile" /\ Before(k.kind, i, "read")
  BY <1>2, <1>3, StepPlaces
<1>6. k.kind \in Entered \/ (k.kind = "reconcile" /\ Before(k.kind, i, "read"))
  <2>1. ASSUME Before(k.kind, i, "credentials") PROVE k.kind \in Entered
    <3>1. PICK j \in 1 .. i - 1 : Script[k.kind][j] = "credentials" BY <2>1 DEF Before
    <3>2. j \in 1 .. Len(Script[k.kind]) BY <1>3, ScriptsBegin
    <3> QED BY <1>3, <3>1, <3>2, StepPlaces
  <2> QED BY <1>5, <2>1
<1>7. Said(k.tenant, k.account)
  BY <1>1, <1>2, <1>6 DEF SessionInv, AccountsOK, AccountOK
<1>8. Said(k.tenant, cred[k.tenant]) BY <1>3, <1>4 DEF SessionInv, CredsSaid
<1>9. k.account = cred[k.tenant] BY <1>7, <1>8 DEF SessionInv, AccountsKept, Said
<1>10. k.account \in given[k.session]
  BY <1>1, <1>2, <1>5 DEF SessionInv, TasksGiven, TaskGiven
<1>11. k.session \in Sessions
  BY <1>1, <1>2, <1>3, <1>6 DEF TaskOK, TypeInv, ToolsOK, PlaceOK
<1> QED BY <1>1, <1>3, <1>4, <1>9, <1>10, <1>11

\* The containers keep running the sessions that are stored.
LEMMA ToolSessions ==
    ASSUME TypeInv, KnownInv, SessionInv, CredsStay, GivenGrows, NEW p \in Tools,
           ToolStep(p) \/ StepRaises(p)
    PROVE  BoxesRun'
<1>0. BoxesRun BY DEF SessionInv
<1>1. CASE EnsureContainer(p)
  <2>1. CASE UNCHANGED docker BY <1>0, <2>1, SessionsStay DEF docker
  <2>2. CASE RunContainer(task[p].name, task[p].session, task[p].tenant)
    <3>1. PICK t, m, x : t = task[p].tenant /\ m = task[p].name /\ x = task[p].session
      OBVIOUS
    <3>2. /\ t \in Tenants /\ x \in Sessions /\ cred[t] # NoAccount
          /\ cred[t] \in given[x]
      BY <1>1, <3>1, RunsTheStored
    <3>3. \A n \in Names : \/ box'[n] = x /\ boxOf'[n] = t
                           \/ box'[n] = box[n] /\ boxOf'[n] = boxOf[n]
      BY <2>2, <3>1 DEF RunContainer, Put, TypeInv, TypeOK
    <3>4. \A n \in Names : box[n] # NoSession =>
              /\ cred[boxOf[n]] \in given[box[n]] /\ boxOf[n] \in Tenants
              /\ cred[boxOf[n]] # NoAccount /\ box[n] \in Sessions
      BY <1>0 DEF BoxesRun, KnownInv, BoxesOK, ContainerIsKnown, TypeInv, TypeOK
    <3> QED BY <3>2, <3>3, <3>4 DEF BoxesRun, CredsStay, GivenGrows
  <2> QED BY <1>1, <2>1, <2>2 DEF EnsureContainer
<1>2. CASE RemoveContainer(p)
  BY <1>0, <1>2, SessionsStay DEF RemoveContainer, Put, TypeInv, TypeOK
<1>3. CASE StepRaises(p)
  BY <1>0, <1>3, SessionsStay DEF StepRaises, ContainerGone, Put, TypeInv, TypeOK
<1>4. CASE UNCHANGED docker BY <1>0, <1>4, SessionsStay DEF docker
<1> QED
  BY <1>1, <1>2, <1>3, <1>4 DEF ToolStep, NextTask, CheckPhone, CheckPhoneRefuses,
     StoreTenant, StoreTenantRefused, StoreCredentials, ReadCredentials, DecryptFails,
     InspectFails, StoreRuntime, HaltRuntime, BindBaleUser, DeactivateBindings, SetStatus

-----------------------------------------------------------------------------
(* The claims.  A tool that has checked an account claims it until it is   *)
(* stored; the check lets in nobody but the one who claims it already.     *)

\* No step but the check makes a tool log in.
LEMMA LoginsBegin ==
    ASSUME TypeInv, NEW p \in Tools, Moves(p), ~At(p, "check"),
           NEW q \in Tools, NEW a, LoggingIn(q, a)'
    PROVE  LoggingIn(q, a) /\ task'[q].tenant = task[q].tenant
<1>1. CASE q # p BY <1>1 DEF Moves, LoggingIn
<1>2. CASE q = p
  <2>0. PICK j, k, i : j = task'[p] /\ k = task[p] /\ i = at'[p] OBVIOUS
  <2>1. /\ j # NoTask /\ j.account = a
        /\ i > 1 /\ Script[j.kind][1] = "check"
        /\ \A n \in 1 .. i - 1 : Script[j.kind][n] # "credentials"
    BY <1>2, <2>0 DEF LoggingIn
  <2>2. CASE k # NoTask /\ j = k /\ i = at[p] + 1
    <3>1. k.kind \in Kinds /\ at[p] \in 1 .. Len(Script[k.kind])
      BY <2>0, <2>2, TaskInHand DEF TypeInv
    <3>2. at[p] \in Nat /\ at[p] # 1
      BY <2>0, <2>1, <2>2, <3>1, ScriptsBegin DEF At
    <3>3. at[p] > 1 /\ \A n \in 1 .. at[p] - 1 : n \in 1 .. i - 1
      BY <2>2, <3>1, <3>2, ScriptsBegin
    <3> QED BY <1>2, <2>0, <2>1, <2>2, <3>3 DEF LoggingIn
  <2>3. CASE At(p, "read") /\ j = WithCredentials(k)
    <3>1. /\ k # NoTask /\ k \in Task /\ k.kind \in Kinds
          /\ at[p] \in 1 .. Len(Script[k.kind])
      BY <2>0, <2>3, TaskInHand DEF TypeInv, At
    <3>2. k.kind = "reconcile" BY <2>0, <2>3, <3>1, AccountSteps DEF At
    <3>3. j.kind = "reconcile" BY <2>3, <3>1, <3>2 DEF Task, WithCredentials
    <3> QED BY <2>1, <3>3, OtherScripts DEF ScriptIs
  <2>4. i # 1 BY <2>1
  <2> QED BY <2>0, <2>1, <2>2, <2>3, <2>4 DEF Moves
<1> QED BY <1>1, <1>2

\* Hence nobody claims more than before, if the credentials stay.
LEMMA ClaimsStay ==
    ASSUME TypeInv, ClaimsUnique, NEW p \in Tools, Moves(p), ~At(p, "check"),
           UNCHANGED <<cred, raced>>
    PROVE  ClaimsUnique'
<1>1. \A a : Claims(a)' \subseteq Claims(a)
  <2> SUFFICES ASSUME NEW a, NEW u \in Claims(a)' PROVE u \in Claims(a) OBVIOUS
  <2>1. CASE cred'[u] = a BY <2>1 DEF Claims
  <2>2. ASSUME NEW q \in Tools, LoggingIn(q, a)', task'[q].tenant = u
        PROVE  u \in Claims(a)
    <3>1. LoggingIn(q, a) /\ task[q].tenant = u BY <2>2, LoginsBegin
    <3> QED BY <3>1 DEF Claims
  <2> QED BY <2>1, <2>2 DEF Claims
<1> QED BY <1>1 DEF ClaimsUnique

\* The check lets a tool in only if nobody else has the account, or notes that
\* another tool is about to store it.
LEMMA CheckClaims ==
    ASSUME TypeInv, SessionInv, NEW p \in Tools, Moves(p), CheckPhone(p)
    PROVE  ClaimsUnique'
<1>1. PICK t, b : t = task[p].tenant /\ b = task[p].account OBVIOUS
<1>2. /\ task[p] # NoTask /\ At(p, "check") /\ ~At(p, "read") /\ ~Conflict(t, b)
      /\ raced' = IF \E q \in Tools : LoggingIn(q, b) /\ task[q].tenant # t
                  THEN raced \cup {b} ELSE raced
      /\ UNCHANGED cred
  BY <1>1 DEF CheckPhone, At, database
<1>3. /\ t \in Tenants
      /\ task'[p] = NoTask \/ (task'[p] = task[p] /\ at'[p] = at[p] + 1) \/ at'[p] = 1
  BY <1>1, <1>2, TaskInHand DEF Moves, TypeInv
<1>4. ASSUME NEW a, NEW q \in Tools, LoggingIn(q, a)', ~LoggingIn(q, a)
      PROVE  q = p /\ a = b /\ task'[p].tenant = t
  <2>1. q = p BY <1>4 DEF LoggingIn, Moves
  <2>2. task'[p] # NoTask /\ at'[p] > 1 /\ task'[p].account = a
    BY <1>4, <2>1 DEF LoggingIn
  <2>3. task'[p] = task[p] BY <1>3, <2>2
  <2> QED BY <1>1, <2>1, <2>2, <2>3
<1>5. \A a, q : LoggingIn(q, a) /\ q \in Tools /\ task'[q] # task[q] => q = p
  BY DEF Moves
<1>6. ASSUME NEW a, NEW u \in Claims(a)', u \notin Claims(a) PROVE a = b /\ u = t
  <2>1. u \in Tenants /\ cred[u] # a BY <1>2, <1>6 DEF Claims
  <2>2. PICK q \in Tools : LoggingIn(q, a)' /\ task'[q].tenant = u
    BY <1>2, <1>6, <2>1 DEF Claims
  <2>3. CASE LoggingIn(q, a)
    <3>1. task[q].tenant # u BY <1>6, <2>1, <2>3 DEF Claims
    <3>2. q = p BY <1>5, <2>2, <2>3, <3>1
    <3>3. task'[p] = task[p] BY <1>3, <2>2, <3>2 DEF LoggingIn
    <3> QED BY <2>2, <3>1, <3>2, <3>3
  <2>4. CASE ~LoggingIn(q, a) BY <1>4, <2>2, <2>4
  <2> QED BY <2>3, <2>4
<1>7. ASSUME b \notin raced', b \in Accounts, NEW u \in Claims(b) PROVE u = t
  <2>1. \A q \in Tools : LoggingIn(q, b) => task[q].tenant = t BY <1>2, <1>7
  <2>2. CASE cred[u] = b
    <3>1. u \in Tenants /\ Stored(u)
      BY <1>7, <2>2, NullAssumption DEF Claims, SessionInv, CredsSaid
    <3>2. b \in Accounts \ raced BY <1>2, <1>7
    <3>3. \A v \in Holders(b) : v = u
      BY <1>7, <3>2 DEF Holders, Claims, SessionInv, ClaimsUnique
    <3>4. u \in Holders(b) /\ born[u] \in Nat
      BY <2>2, <3>1 DEF Holders, TypeInv, TypeOK
    <3> QED BY <1>2, <3>3, <3>4 DEF Conflict
  <2>3. CASE cred[u] # b BY <1>7, <2>1, <2>3 DEF Claims
  <2> QED BY <2>2, <2>3
<1>8. ASSUME NEW a \in Accounts \ raced', NEW u \in Claims(a)', NEW v \in Claims(a)'
      PROVE  u = v
  <2>1. a \notin raced BY <1>2, <1>8
  <2>2. CASE a = b BY <1>6, <1>7, <1>8, <2>2
  <2>3. CASE a # b
    <3>1. u \in Claims(a) /\ v \in Claims(a) BY <1>6, <2>3
    <3> QED BY <1>8, <2>1, <3>1 DEF SessionInv, ClaimsUnique
  <2> QED BY <2>2, <2>3
<1> QED BY <1>8 DEF ClaimsUnique

\* Who stores an account has claimed it, or it is a file that gives it, and
\* nobody else is said to have it.
LEMMA StoreClaims ==
    ASSUME TypeInv, KnownInv, SessionInv, NEW p \in Tools, Moves(p), StoreCredentials(p)
    PROVE  ClaimsUnique'
<1>1. PICK t, b : t = task[p].tenant /\ b = task[p].account OBVIOUS
<1>2. /\ t \in Tenants /\ b \in Accounts
      /\ Loads(t, b) \/ LoggingIn(p, b)
      /\ cred' = [cred EXCEPT ![t] = b]
  BY <1>1, StoresTheOwn
<1>3. cred'[t] = b /\ \A u \in Tenants \ {t} : cred'[u] = cred[u]
  BY <1>2 DEF TypeInv, TypeOK
<1>4. UNCHANGED raced /\ ~At(p, "check") BY DEF StoreCredentials, At
<1>5. ASSUME NEW a, NEW u \in Claims(a)', u # t \/ a # b PROVE u \in Claims(a)
  <2>1. u \in Tenants BY <1>5 DEF Claims
  <2>2. CASE cred'[u] = a
    <3>1. u # t BY <1>3, <1>5, <2>2
    <3> QED BY <1>3, <2>1, <2>2, <3>1 DEF Claims
  <2>3. ASSUME NEW q \in Tools, LoggingIn(q, a)', task'[q].tenant = u
        PROVE  u \in Claims(a)
    <3>1. LoggingIn(q, a) /\ task[q].tenant = u BY <1>4, <2>3, LoginsBegin
    <3> QED BY <2>1, <3>1 DEF Claims
  <2> QED BY <1>5, <2>2, <2>3 DEF Claims
<1>6. ASSUME b \notin raced, NEW u \in Claims(b) PROVE u = t
  <2>1. CASE LoggingIn(p, b)
    <3>1. t \in Claims(b) BY <1>1, <1>2, <2>1 DEF Claims
    <3> QED BY <1>2, <1>6, <3>1 DEF SessionInv, ClaimsUnique
  <2>2. CASE Loads(t, b)
    <3>1. Said(u, b)
      <4>1. CASE cred[u] = b
        BY <1>2, <1>6, <4>1, NullAssumption DEF Claims, SessionInv, CredsSaid
      <4>2. ASSUME NEW q \in Tools, LoggingIn(q, b), task[q].tenant = u
            PROVE  Said(u, b)
        <5>1. /\ task[q] # NoTask /\ task[q].account = b
              /\ Script[task[q].kind][1] = "check"
          BY <4>2 DEF LoggingIn
        <5>2. task[q].kind \in Kinds /\ 1 \in 1 .. Len(Script[task[q].kind])
          BY <5>1, TaskInHand, ScriptsBegin DEF TypeInv
        <5>3. task[q].kind \in Entered BY <5>1, <5>2, AccountSteps DEF Entered
        <5> QED BY <4>2, <5>1, <5>3 DEF SessionInv, AccountsOK, AccountOK
      <4> QED BY <1>6, <4>1, <4>2 DEF Claims
    <3> QED BY <2>2, <3>1 DEF Loads, Said, SessionInv, NothingTakenOver
  <2> QED BY <1>2, <2>1, <2>2
<1>7. ASSUME NEW a \in Accounts \ raced, NEW u \in Claims(a)', NEW v \in Claims(a)'
      PROVE  u = v
  <2>1. CASE a = b BY <1>5, <1>6, <1>7, <2>1
  <2>2. CASE a # b BY <1>5, <1>7, <2>2 DEF SessionInv, ClaimsUnique
  <2> QED BY <2>1, <2>2
<1> QED BY <1>4, <1>7 DEF ClaimsUnique

\* Under every step of a tool.
LEMMA ToolClaims ==
    ASSUME TypeInv, KnownInv, SessionInv, NEW p \in Tools,
           ToolStep(p) \/ StepRaises(p)
    PROVE  ClaimsUnique'
<1>0. Moves(p) /\ ClaimsUnique BY ToolMoves DEF SessionInv
<1>1. CASE CheckPhone(p) BY <1>0, <1>1, CheckClaims
<1>2. CASE StoreCredentials(p) BY <1>0, <1>2, StoreClaims
<1>3. CASE At(p, "check") /\ ~CheckPhone(p)
  <2>1. \A s : At(p, s) => s = "check" BY <1>3 DEF At
  <2>2. Abort(p) \/ StepRaises(p) \/ NextTask(p)
    BY <1>3, <2>1 DEF ToolStep, CheckPhoneRefuses, StoreTenant, StoreTenantRefused,
       StoreCredentials, ReadCredentials, DecryptFails, EnsureContainer,
       RemoveContainer, InspectFails, StoreRuntime, HaltRuntime, BindBaleUser,
       DeactivateBindings, SetStatus
  <2>3. task'[p] = NoTask \/ at'[p] = 1
    <3>1. CASE NextTask(p) BY <1>3, <3>1 DEF NextTask, At
    <3>2. CASE EndTask(p) BY <3>2, EndTaskEnds
    <3>3. CASE StepRaises(p) /\ ~EndTask(p)
      BY <3>3 DEF StepRaises, Abort, Put, TypeInv, ToolsOK
    <3> QED BY <2>2, <3>1, <3>2, <3>3 DEF Abort
  <2>4. UNCHANGED <<cred, raced>>
    BY <1>3, <2>1 DEF ToolStep, CheckPhoneRefuses, StoreTenant, StoreTenantRefused,
       StoreCredentials, ReadCredentials, DecryptFails, EnsureContainer,
       RemoveContainer, InspectFails, StoreRuntime, HaltRuntime, BindBaleUser,
       DeactivateBindings, SetStatus, NextTask, StepRaises, database, stepFrame, history
  <2>5. \A a : Claims(a)' \subseteq Claims(a)
    <3> SUFFICES ASSUME NEW a, NEW q \in Tools, LoggingIn(q, a)'
                 PROVE  LoggingIn(q, a) /\ task'[q].tenant = task[q].tenant
      BY <2>4 DEF Claims
    <3>1. q # p BY <2>3 DEF LoggingIn
    <3> QED BY <1>0, <3>1 DEF Moves, LoggingIn
  <2> QED BY <1>0, <2>4, <2>5 DEF ClaimsUnique
<1>4. CASE ~At(p, "check") /\ ~StoreCredentials(p)
  <2>1. UNCHANGED raced
    BY <1>4 DEF stepFrame, history, ToolStep, NextTask, CheckPhone, CheckPhoneRefuses,
       StoreTenant, StoreTenantRefused, ReadCredentials, DecryptFails, EnsureContainer,
       RemoveContainer, InspectFails, StoreRuntime, HaltRuntime, BindBaleUser,
       DeactivateBindings, SetStatus, StepRaises
  <2>2. UNCHANGED cred BY <1>4, OthersStoreNone
  <2> QED BY <1>0, <1>4, <2>1, <2>2, ClaimsStay
<1> QED BY <1>1, <1>2, <1>3, <1>4

\* The whole invariant, under every step.
LEMMA SessionStep ==
    ASSUME TypeInv, KnownInv, SessionInv, [Next]_vars
    PROVE  SessionInv'
<1>0. Kept BY KnownStep
<1>1. /\ AccountsKept' /\ NothingTakenOver' /\ CredsSaid /\ AccountsOK
      /\ ClaimsUnique /\ CredsGiven /\ TasksGiven /\ BoxesRun
  BY DEF SessionInv, AccountsKept, NothingTakenOver, ActiveIn
<1>2. ASSUME NEW p \in Tools, ToolStep(p) \/ StepRaises(p) PROVE SessionInv'
  <2>1. CredsSaid' /\ CredsStay BY <1>0, <1>2, ToolCreds
  <2>2. AccountsOK' BY <1>1, <1>2, ToolMoves, AccountsMove
  <2>3. GivenGrows /\ CredsGiven' /\ TasksGiven'
    BY <1>1, <1>2, ToolGiven, ToolTasksGiven
  <2>4. BoxesRun' BY <1>2, <2>1, <2>3, ToolSessions
  <2>5. ClaimsUnique' BY <1>2, ToolClaims
  <2> QED BY <1>1, <2>1, <2>2, <2>3, <2>4, <2>5 DEF SessionInv
<1>3. ASSUME UNCHANGED <<tstatus, cred, session, docker, raced, given, task, at>>,
             AccountsOK'
      PROVE  SessionInv'
  <2>1. CredsSaid' BY <1>1, <1>3 DEF CredsSaid, Stored, Said
  <2>2. BoxesRun' BY <1>1, <1>3 DEF BoxesRun, docker
  <2>3. ClaimsUnique' BY <1>1, <1>3 DEF ClaimsUnique, Claims, LoggingIn
  <2>4. CredsGiven' /\ TasksGiven'
    BY <1>1, <1>3 DEF CredsGiven, TasksGiven, TaskGiven
  <2> QED BY <1>1, <1>3, <2>1, <2>2, <2>3, <2>4 DEF SessionInv
<1>4. ASSUME UNCHANGED <<work, task, at>> PROVE AccountsOK'
  BY <1>1, <1>4 DEF AccountsOK, AccountOK, Said, Loads
<1>5. ASSUME NEW p \in Tools, Command(p) PROVE SessionInv'
  <2>1. AccountsOK' BY <1>1, <1>5, CommandAccounts
  <2> QED BY <1>3, <1>5, <2>1 DEF Command, TenantAdd, ProvisionSelected,
      TenantSetStatus, Reconcile, LoadUsers, Begin, database
<1>6. ASSUME \/ ProbeStep \/ ProbeRaises
             \/ \E c \in Chats : Route(c) \/ Relay(c)
      PROVE  SessionInv'
  BY <1>3, <1>4, <1>6 DEF ProbeStep, ProbeList, ProbeGet, ProbeWrite, ProbeRaises, Route,
     Relay, database, botFrame, history, tools
<1>7. CASE UNCHANGED vars
  BY <1>3, <1>4, <1>7 DEF vars, database, history, tools
<1> QED BY <1>2, <1>5, <1>6, <1>7 DEF Next

\* No Telegram session runs in two containers at a time, unless it was stored
\* under two accounts or two tools checked its account before either had stored
\* it: for any number of tenants and tools, wherever they fail.  On SQLite, if
\* a tenant keeps its slug and its account, and users.json gives no account of
\* one tenant to another.
THEOREM OneContainer ==
    ASSUME Backend = "sqlite", SlugsKept, AccountsKept, NothingTakenOver
    PROVE  Spec => []OneContainerPerSession
<1>1. Init => KnownInv
  BY ConstantAssumption, NullAssumption
     DEF Init, KnownInv, Progress, ProgressOK, SlugOK, NamesOK, BoxesOK,
         ContainerIsKnown, Stored, EntryType
<1>2. Init => SessionInv
  BY NullAssumption DEF Init, SessionInv, CredsSaid, AccountsOK, BoxesRun, ClaimsUnique, Claims,
         LoggingIn, CredsGiven, TasksGiven
<1>3. TypeInv /\ KnownInv /\ [Next]_vars => KnownInv' BY KnownStep
<1>4. TypeInv /\ KnownInv /\ SessionInv /\ [Next]_vars => SessionInv' BY SessionStep
<1>5. TypeInv /\ KnownInv /\ SessionInv => OneContainerPerSession
  <2> SUFFICES ASSUME TypeInv, KnownInv, SessionInv,
                      NEW m \in Names, NEW n \in Names, box[m] = box[n],
                      box[m] # NoSession, Unambiguous(box[m])
               PROVE  m = n
    BY DEF OneContainerPerSession
  <2>1. /\ boxOf[m] \in Tenants /\ NameOf[slug[boxOf[m]]] = m
        /\ boxOf[n] \in Tenants /\ NameOf[slug[boxOf[n]]] = n
        /\ cred[boxOf[m]] # NoAccount
    BY DEF KnownInv, BoxesOK, ContainerIsKnown
  <2>2. cred[boxOf[m]] \in given[box[m]] /\ cred[boxOf[n]] \in given[box[m]]
    BY DEF SessionInv, BoxesRun
  <2>3. PICK a : a = cred[boxOf[m]] OBVIOUS
  <2>4. cred[boxOf[n]] = a /\ a \notin raced BY <2>2, <2>3 DEF Unambiguous
  <2>5. a \in Accounts \ raced BY <2>1, <2>3, <2>4 DEF TypeInv, TypeOK
  <2>6. boxOf[m] \in Claims(a) /\ boxOf[n] \in Claims(a)
    BY <2>1, <2>3, <2>4 DEF Claims
  <2>7. boxOf[m] = boxOf[n] BY <2>5, <2>6 DEF SessionInv, ClaimsUnique
  <2> QED BY <2>1, <2>7
<1> QED BY <1>1, <1>2, <1>3, <1>4, <1>5, TypeInvariance, PTL DEF Spec

-----------------------------------------------------------------------------
(* Convergence of load_users.                                              *)

\* No two active users of a file share a chat: the later one would take it.
ChatsDistinct ==
    \A f \in Files : \A d, e \in ActiveIn(f) : d.chat = e.chat => d = e

\* The tasks of load_users for the file f.
SyncTask(f, k) ==
    \/ \E e \in ActiveIn(f) : k = TaskOf("load", e)
    \/ \E e \in f \ ActiveIn(f) : k = TaskOf("unload", e)
    \/ /\ k.kind = "drop" /\ \A e \in f : e.tenant # k.tenant
       /\ Stored(k.tenant) /\ k.name = NameOf[slug[k.tenant]]
       /\ k.settled => tstatus[k.tenant] = "disabled"

\* No container has the name, or a failing docker inspect hid it.
Gone(n) == box[n] = NoSession \/ n \in overlooked

\* What the file says of a tenant is so.
Finished(f, t) ==
    /\ \A e \in ActiveIn(f) :
          e.tenant = t =>
              /\ tstatus[t] = "active" /\ box[NameOf[e.slug]] = e.session
              /\ bound[e.chat] = t /\ e.chat \in enabled
    /\ (\A e \in ActiveIn(f) : e.tenant # t) =>
              /\ tstatus[t] # "active"
              /\ Stored(t) => Gone(NameOf[slug[t]])

\* What is so of a tenant that a tool has in hand.
HalfWay(p) ==
    LET k == task[p] IN
    /\ Before(k.kind, at[p], "container") => box[k.name] = k.session
    /\ Before(k.kind, at[p], "remove") => Gone(k.name)
    /\ Before(k.kind, at[p], "bind") => bound[k.chat] = k.tenant /\ k.chat \in enabled
    /\ Before(k.kind, at[p], "disable") => tstatus[k.tenant] # "active"

Pending(t) ==
    \E p \in Tools :
        \/ task[p] # NoTask /\ task[p].tenant = t
        \/ \E k \in work[p] : k.tenant = t

OneTool == \A p, q \in Tools : ~Idle(p) /\ ~Idle(q) => p = q

TasksOfFile(f) ==
    \A p \in Tools :
        /\ \A k \in work[p] : SyncTask(f, k)
        /\ \A j, k \in work[p] : j.tenant = k.tenant => j = k
        /\ task[p] # NoTask =>
               /\ SyncTask(f, task[p])
               /\ HalfWay(p)
               /\ \A k \in work[p] : k.tenant # task[p].tenant

DoneOrPending(f) == \A t \in Tenants : Pending(t) \/ Finished(f, t)

SyncInv ==
    syncedTo # NoFile =>
        OneTool /\ TasksOfFile(syncedTo) /\ DoneOrPending(syncedTo)

-----------------------------------------------------------------------------
(* The steps of load_users.                                                *)

SyncKinds == {"load", "unload", "drop"}

\* No step undoes what came before it in the same script, and at the end all
\* that the file asks for has been behind.
LEMMA SyncScripts ==
    ASSUME NEW kind \in SyncKinds, NEW i \in 1 .. Len(Script[kind])
    PROVE  LET step == Script[kind][i] IN
           /\ step \notin {"check", "read"}
           /\ step \in {"container", "bind", "activate"} => kind = "load"
           /\ step \in {"unbind", "remove", "disable"} => kind # "load"
           /\ step = "bind" => Before(kind, i, "tenant")
           /\ step = "remove" => kind = "drop" \/ Before(kind, i, "tenant")
           /\ Before(kind, i, "container") => step # "remove"
           /\ Before(kind, i, "remove") => step # "container"
           /\ Before(kind, i, "bind") => step # "unbind"
           /\ Before(kind, i, "disable") => step \notin {"tenant", "activate"}
           /\ i = Len(Script[kind]) =>
                  /\ kind = "load" =>
                         /\ step = "activate" /\ Before(kind, i, "tenant")
                         /\ Before(kind, i, "container") /\ Before(kind, i, "bind")
                  /\ kind = "unload" => Before(kind, i, "tenant")
                  /\ kind # "load" =>
                         /\ step \in {"runtime", "halt"}
                         /\ Before(kind, i, "remove") /\ Before(kind, i, "disable")
<1> USE DEF Before, ScriptIs
<1>1. CASE kind = "load" BY <1>1, Provisioning
<1>2. CASE kind = "unload" BY <1>2, OtherScripts
<1>3. CASE kind = "drop" BY <1>3, OtherScripts
<1> QED BY <1>1, <1>2, <1>3 DEF SyncKinds

\* What a step writes, and what it leaves to the other tenants.
Writes(p) ==
    LET k == task[p]
        step == Script[k.kind][at[p]]
    IN  /\ step \notin {"tenant", "activate", "disable"} => UNCHANGED tstatus
        /\ \A u \in Tenants \ {k.tenant} : tstatus'[u] = tstatus[u] /\ slug'[u] = slug[u]
        /\ step = "disable" => tstatus'[k.tenant] # "active"
        /\ step = "activate" /\ Stored(k.tenant) => tstatus'[k.tenant] = "active"
        /\ step \notin {"container", "remove"} => UNCHANGED box
        /\ \A n \in Names \ {k.name} : box'[n] = box[n]
        /\ step = "container" => box'[k.name] = k.session
        /\ step = "remove" => box'[k.name] = NoSession \/ k.name \in overlooked'
        /\ overlooked \subseteq overlooked'
        /\ step # "bind" => UNCHANGED bound
        /\ \A c \in Chats \ {k.chat} : bound'[c] = bound[c]
        /\ step = "bind" => bound'[k.chat] = k.tenant /\ k.chat \in enabled'
        /\ step # "unbind" => enabled \subseteq enabled'
        /\ \A c \in enabled : bound[c] # k.tenant => c \in enabled'

LEMMA SyncWrites ==
    ASSUME TypeInv, Backend = "sqlite", NEW p \in Tools, ToolStep(p), task[p] # NoTask,
           task[p].kind \in SyncKinds, syncedTo' # NoFile
    PROVE  /\ Writes(p) /\ UNCHANGED <<syncedTo, work>>
           /\ \/ Advance(p)
              \/ At(p, "remove") /\ task[p].settled /\ EndTask(p)
<1> USE DEF stepFrame, history, database, docker, bot, Put
<1>1. PICK k \in Task : k = task[p] BY TaskInHand DEF TypeInv
<1>2. PICK step : step = Script[k.kind][at[p]] OBVIOUS
<1>3. /\ k.kind \in SyncKinds /\ k.tenant \in Tenants /\ k.name \in Names
      /\ k.kind = "load" => k.chat \in Chats
      /\ at[p] \in 1 .. Len(Script[k.kind])
  BY <1>1, TaskInHand DEF TypeInv, TaskOK, SyncKinds, Addressed, Entered
<1>4. step \notin {"check", "read"} /\ (step = "bind" => k.kind = "load")
  BY <1>2, <1>3, SyncScripts
<1>5. \A s : At(p, s) <=> step = s BY <1>1, <1>2 DEF At
<1>6. TypeOK BY DEF TypeInv
<1>7. Writes(p) <=>
        /\ step \notin {"tenant", "activate", "disable"} => UNCHANGED tstatus
        /\ \A u \in Tenants \ {k.tenant} : tstatus'[u] = tstatus[u] /\ slug'[u] = slug[u]
        /\ step = "disable" => tstatus'[k.tenant] # "active"
        /\ step = "activate" /\ Stored(k.tenant) => tstatus'[k.tenant] = "active"
        /\ step \notin {"container", "remove"} => UNCHANGED box
        /\ \A n \in Names \ {k.name} : box'[n] = box[n]
        /\ step = "container" => box'[k.name] = k.session
        /\ step = "remove" => box'[k.name] = NoSession \/ k.name \in overlooked'
        /\ overlooked \subseteq overlooked'
        /\ step # "bind" => UNCHANGED bound
        /\ \A c \in Chats \ {k.chat} : bound'[c] = bound[c]
        /\ step = "bind" => bound'[k.chat] = k.tenant /\ k.chat \in enabled'
        /\ step # "unbind" => enabled \subseteq enabled'
        /\ \A c \in enabled : bound[c] # k.tenant => c \in enabled'
  BY <1>1, <1>2 DEF Writes
<1>8. ~NextTask(p) /\ ~CheckPhone(p) /\ ~CheckPhoneRefuses(p) /\ ~ReadCredentials(p)
      /\ ~DecryptFails(p) /\ ~StoreTenantRefused(p)
  BY <1>4, <1>5 DEF NextTask, CheckPhone, CheckPhoneRefuses, ReadCredentials,
     DecryptFails, StoreTenantRefused, Abort
<1>9. Advance(p) => UNCHANGED work BY DEF Advance
<1>10. CASE StoreTenant(p)
  <2>1. step = "tenant" BY <1>5, <1>10 DEF StoreTenant
  <2>2. PICK status \in {"active", "disabled"} :
            /\ tstatus' = [tstatus EXCEPT ![k.tenant] = status]
            /\ slug' = [slug EXCEPT ![k.tenant] = k.slug]
    BY <1>1, <1>10 DEF StoreTenant, UpsertTenant
  <2>3. \A u \in Tenants \ {k.tenant} : tstatus'[u] = tstatus[u] /\ slug'[u] = slug[u]
    BY <1>6, <2>2 DEF TypeOK
  <2> QED BY <1>7, <1>9, <1>10, <2>1, <2>3 DEF StoreTenant
<1>11. CASE StoreCredentials(p) \/ StoreRuntime(p) \/ HaltRuntime(p)
  <2>1. step \in {"credentials", "runtime", "halt"}
    BY <1>5, <1>11 DEF StoreCredentials, StoreRuntime, HaltRuntime
  <2> QED BY <1>7, <1>9, <1>11, <2>1 DEF StoreCredentials, StoreRuntime, HaltRuntime
<1>12. CASE EnsureContainer(p)
  <2>1. step = "container" BY <1>5, <1>12 DEF EnsureContainer
  <2>2. /\ \A n \in Names \ {k.name} : box'[n] = box[n]
        /\ box'[k.name] = k.session
    BY <1>1, <1>3, <1>6, <1>12 DEF EnsureContainer, RunContainer, NeedsRecreate, TypeOK
  <2> QED BY <1>7, <1>9, <1>12, <2>1, <2>2 DEF EnsureContainer
<1>13. CASE RemoveContainer(p)
  <2>1. step = "remove" BY <1>5, <1>13 DEF RemoveContainer
  <2>2. /\ \A n \in Names \ {k.name} : box'[n] = box[n]
        /\ box'[k.name] = NoSession
    BY <1>1, <1>3, <1>6, <1>13 DEF RemoveContainer, TypeOK
  <2>3. Writes(p) BY <1>7, <1>13, <2>1, <2>2 DEF RemoveContainer
  <2> QED BY <1>1, <1>9, <1>13, <2>3 DEF RemoveContainer, AfterRemoval
<1>17. CASE InspectFails(p)
  <2>1. step = "remove" BY <1>5, <1>17 DEF InspectFails
  <2>2. UNCHANGED box /\ overlooked' = overlooked \cup {k.name}
    BY <1>1, <1>17 DEF InspectFails
  <2>3. Writes(p) BY <1>7, <1>17, <2>1, <2>2 DEF InspectFails
  <2> QED BY <1>1, <1>9, <1>17, <2>3 DEF InspectFails, AfterRemoval
<1>14. CASE BindBaleUser(p)
  <2>1. step = "bind" BY <1>5, <1>14 DEF BindBaleUser
  <2>2. /\ bound'[k.chat] = k.tenant /\ \A c \in Chats \ {k.chat} : bound'[c] = bound[c]
        /\ enabled' = enabled \cup {k.chat}
    BY <1>1, <1>3, <1>4, <1>6, <1>14, <2>1 DEF BindBaleUser, TypeOK
  <2> QED BY <1>7, <1>9, <1>14, <2>1, <2>2 DEF BindBaleUser
<1>15. CASE DeactivateBindings(p)
  <2>1. step = "unbind" /\ enabled' = {c \in enabled : bound[c] # k.tenant}
    BY <1>1, <1>5, <1>15 DEF DeactivateBindings
  <2> QED BY <1>7, <1>9, <1>15, <2>1 DEF DeactivateBindings
<1>16. CASE SetStatus(p)
  <2>1. /\ step \in {"activate", "disable"}
        /\ tstatus' = IF Stored(k.tenant)
                      THEN [tstatus EXCEPT ![k.tenant] =
                               IF step = "activate" THEN "active" ELSE "disabled"]
                      ELSE tstatus
    BY <1>1, <1>5, <1>16 DEF SetStatus
  <2>2. /\ \A u \in Tenants \ {k.tenant} : tstatus'[u] = tstatus[u]
        /\ step = "disable" => tstatus'[k.tenant] # "active"
        /\ step = "activate" /\ Stored(k.tenant) => tstatus'[k.tenant] = "active"
    BY <1>3, <1>6, <2>1 DEF TypeOK, Stored
  <2> QED BY <1>7, <1>9, <1>16, <2>1, <2>2 DEF SetStatus
<1> QED BY <1>8, <1>10, <1>11, <1>12, <1>13, <1>14, <1>15, <1>16, <1>17 DEF ToolStep

-----------------------------------------------------------------------------
(* The tasks of a file.                                                    *)

\* What they say, and that no other entry of the file says it.
LEMMA SyncTaskSays ==
    ASSUME NEW f \in Files, NEW k, SyncTask(f, k)
    PROVE  /\ k.kind \in SyncKinds
           /\ k.kind = "load" =>
                \E e \in ActiveIn(f) :
                    /\ e.tenant = k.tenant /\ e.chat = k.chat /\ e.session = k.session
                    /\ k.name = NameOf[e.slug] /\ e \in Entries
                    /\ \A d \in ActiveIn(f) : d.tenant = k.tenant => d = e
           /\ k.kind # "load" => \A d \in ActiveIn(f) : d.tenant # k.tenant
           /\ k.kind # "drop" =>
                /\ ~k.settled
                /\ \E e \in Entries : e.tenant = k.tenant /\ k.name = NameOf[e.slug]
<1>1. f \subseteq Entries /\ FileAccepted(f) BY ConstantAssumption
<1>2. ActiveIn(f) \subseteq f BY DEF ActiveIn
<1>3. CASE \E e \in ActiveIn(f) : k = TaskOf("load", e)
  <2>1. PICK e \in ActiveIn(f) : k = TaskOf("load", e) BY <1>3
  <2>2. /\ k.kind = "load" /\ k.tenant = e.tenant /\ k.chat = e.chat
        /\ k.session = e.session /\ k.name = NameOf[e.slug] /\ ~k.settled
    BY <2>1 DEF TaskOf
  <2>3. \A d \in ActiveIn(f) : d.tenant = e.tenant => d = e
    BY <1>1, <1>2 DEF FileAccepted
  <2> QED BY <1>1, <1>2, <2>2, <2>3 DEF SyncKinds
<1>4. CASE \E e \in f \ ActiveIn(f) : k = TaskOf("unload", e)
  <2>1. PICK e \in f \ ActiveIn(f) : k = TaskOf("unload", e) BY <1>4
  <2>2. /\ k.kind = "unload" /\ k.tenant = e.tenant
        /\ k.name = NameOf[e.slug] /\ ~k.settled
    BY <2>1 DEF TaskOf
  <2>3. \A d \in ActiveIn(f) : d.tenant # e.tenant
    BY <1>1, <1>2 DEF FileAccepted
  <2> QED BY <1>1, <2>2, <2>3 DEF SyncKinds
<1>5. CASE k.kind = "drop" /\ \A e \in f : e.tenant # k.tenant
  BY <1>2, <1>5 DEF SyncKinds
<1> QED BY <1>3, <1>4, <1>5 DEF SyncTask

\* Once the tenant has a row, the task names its container.
LEMMA SyncName ==
    ASSUME KnownInv, NEW f \in Files, NEW k, SyncTask(f, k), Stored(k.tenant)
    PROVE  k.name = NameOf[slug[k.tenant]]
<1>1. CASE k.kind = "drop"
  BY <1>1 DEF SyncTask, TaskOf
<1>2. CASE k.kind # "drop"
  <2>1. PICK e \in Entries : e.tenant = k.tenant /\ k.name = NameOf[e.slug]
    BY <1>2, SyncTaskSays
  <2> QED BY <2>1 DEF KnownInv, SlugOK
<1> QED BY <1>1, <1>2

\* The step at hand: where it writes to a container, there is a row for it.
LEMMA SyncPlace ==
    ASSUME TypeInv, KnownInv, NEW f \in Files, NEW p \in Tools, task[p] # NoTask,
           SyncTask(f, task[p])
    PROVE  LET k == task[p]
               step == Script[k.kind][at[p]]
           IN  /\ k.kind \in SyncKinds /\ k.tenant \in Tenants /\ k.name \in Names
               /\ at[p] \in 1 .. Len(Script[k.kind])
               /\ step \in {"container", "remove"} =>
                      Stored(k.tenant) /\ k.name = NameOf[slug[k.tenant]]
               /\ step = "bind" =>
                      \E e \in ActiveIn(f) : e.tenant = k.tenant /\ e.chat = k.chat
<1>1. PICK k, i : k = task[p] /\ i = at[p] OBVIOUS
<1>2. PICK step : step = Script[k.kind][i] OBVIOUS
<1>0. SyncTask(f, k) BY <1>1
<1>3. /\ k.kind \in SyncKinds /\ k.kind \in Kinds /\ k.tenant \in Tenants
      /\ k.name \in Names /\ i \in 1 .. Len(Script[k.kind])
  BY <1>1, TaskInHand, SyncTaskSays DEF TypeInv, TaskOK, SyncKinds, Addressed, Entered
<1>4. Before(k.kind, i, "tenant") => Stored(k.tenant)
  BY <1>1 DEF KnownInv, Progress, ProgressOK
<1>5. step \in {"container", "remove"} => Stored(k.tenant)
  <2>1. CASE step = "container"
    <3>1. Before(k.kind, i, "tenant") BY <1>2, <1>3, <2>1, StepPlaces DEF SyncKinds
    <3> QED BY <1>4, <3>1
  <2>2. CASE step = "remove" /\ k.kind = "drop"
    BY <1>0, <2>2 DEF SyncTask, TaskOf
  <2>3. CASE step = "remove" /\ k.kind # "drop"
    BY <1>2, <1>3, <1>4, <2>3, SyncScripts
  <2> QED BY <2>1, <2>2, <2>3
<1>6. step \in {"container", "remove"} => k.name = NameOf[slug[k.tenant]]
  BY <1>0, <1>5, SyncName
<1>7. step = "bind" => \E e \in ActiveIn(f) : e.tenant = k.tenant /\ e.chat = k.chat
  <2>1. step = "bind" => k.kind = "load" BY <1>2, <1>3, SyncScripts
  <2> QED BY <1>0, <2>1, SyncTaskSays
<1> QED BY <1>1, <1>2, <1>3, <1>5, <1>6, <1>7

-----------------------------------------------------------------------------
(* A step for one tenant leaves the others as they are.                    *)

\* Two tenants do not share a container.
LEMMA OwnContainers ==
    ASSUME TypeInv, RouteInv, NamesDistinct, NEW t \in Tenants, NEW u \in Tenants,
           Stored(t), Stored(u), NameOf[slug[t]] = NameOf[slug[u]]
    PROVE  t = u
<1>1. slug[t] \in Slugs /\ slug[u] \in Slugs BY DEF TypeInv, RowsOK
<1> QED BY <1>1 DEF NamesDistinct, RouteInv, SlugsDistinct

LEMMA FinishedStays ==
    ASSUME TypeInv, KnownInv, RouteInv, NamesDistinct, ChatsDistinct,
           NEW f \in Files, NEW p \in Tools, task[p] # NoTask, SyncTask(f, task[p]),
           Writes(p), NEW u \in Tenants, u # task[p].tenant, Finished(f, u)
    PROVE  Finished(f, u)'
<1>1. PICK k, step : k = task[p] /\ step = Script[k.kind][at[p]] OBVIOUS
<1>2. /\ k.tenant \in Tenants /\ k.name \in Names
      /\ step \in {"container", "remove"} =>
             Stored(k.tenant) /\ k.name = NameOf[slug[k.tenant]]
      /\ step = "bind" =>
             \E e \in ActiveIn(f) : e.tenant = k.tenant /\ e.chat = k.chat
  BY <1>1, SyncPlace
<1>3. tstatus'[u] = tstatus[u] /\ slug'[u] = slug[u] BY <1>1 DEF Writes
<1>4. Stored(u) => box'[NameOf[slug[u]]] = box[NameOf[slug[u]]]
  <2> SUFFICES ASSUME Stored(u) PROVE box'[NameOf[slug[u]]] = box[NameOf[slug[u]]]
    OBVIOUS
  <2>1. NameOf[slug[u]] \in Names
    BY ConstantAssumption DEF TypeInv, RowsOK
  <2>2. CASE step \in {"container", "remove"}
    <3>1. NameOf[slug[u]] # k.name BY <1>1, <1>2, <2>2, OwnContainers
    <3> QED BY <1>1, <2>1, <3>1 DEF Writes
  <2>3. CASE step \notin {"container", "remove"} BY <1>1, <2>3 DEF Writes
  <2> QED BY <2>2, <2>3
<1>5. ASSUME NEW e \in ActiveIn(f), e.tenant = u
      PROVE  /\ tstatus'[u] = "active" /\ box'[NameOf[e.slug]] = e.session
             /\ bound'[e.chat] = u /\ e.chat \in enabled'
  <2>1. /\ tstatus[u] = "active" /\ box[NameOf[e.slug]] = e.session
        /\ bound[e.chat] = u /\ e.chat \in enabled
    BY <1>5 DEF Finished
  <2>2. e \in Entries /\ e.chat \in Chats
    BY ConstantAssumption DEF ActiveIn, EntryType
  <2>3. Stored(u) /\ slug[u] = e.slug BY <1>5, <2>1, <2>2 DEF Stored, KnownInv, SlugOK
  <2>4. box'[NameOf[e.slug]] = e.session BY <1>4, <2>1, <2>3
  <2>5. bound'[e.chat] = u
    <3>1. CASE step = "bind"
      <4>1. PICK d \in ActiveIn(f) : d.tenant = k.tenant /\ d.chat = k.chat BY <1>2, <3>1
      <4>2. e.chat # k.chat BY <1>1, <1>5, <4>1 DEF ChatsDistinct
      <4> QED BY <1>1, <2>1, <2>2, <4>2 DEF Writes
    <3>2. CASE step # "bind" BY <1>1, <2>1, <3>2 DEF Writes
    <3> QED BY <3>1, <3>2
  <2>6. e.chat \in enabled' BY <1>1, <2>1 DEF Writes
  <2> QED BY <1>3, <2>1, <2>4, <2>5, <2>6
<1>6. ASSUME \A e \in ActiveIn(f) : e.tenant # u
      PROVE  /\ tstatus'[u] # "active"
             /\ tstatus'[u] # "absent" =>
                    \/ box'[NameOf[slug'[u]]] = NoSession
                    \/ NameOf[slug'[u]] \in overlooked'
  <2>1. overlooked \subseteq overlooked' BY <1>1 DEF Writes
  <2> QED BY <1>3, <1>4, <1>6, <2>1 DEF Finished, Stored, Gone
<1> QED BY <1>5, <1>6 DEF Finished, Stored, ActiveIn, Gone

-----------------------------------------------------------------------------
(* A step for a tenant takes it further, and the last one is the end.      *)

\* What is known of the tenant in hand after the step.
Reached(p) ==
    LET k == task[p]
        Past(step) == Before(k.kind, at[p], step) \/ Script[k.kind][at[p]] = step
    IN  /\ Past("container") => box'[k.name] = k.session
        /\ Past("remove") => box'[k.name] = NoSession \/ k.name \in overlooked'
        /\ Past("bind") => bound'[k.chat] = k.tenant /\ k.chat \in enabled'
        /\ Past("disable") => tstatus'[k.tenant] # "active"

LEMMA StepReaches ==
    ASSUME TypeInv, KnownInv, NEW f \in Files, NEW p \in Tools, task[p] # NoTask,
           SyncTask(f, task[p]), HalfWay(p), Writes(p)
    PROVE  Reached(p)
<1>1. PICK k, i : k = task[p] /\ i = at[p] OBVIOUS
<1>2. PICK step : step = Script[k.kind][i] OBVIOUS
<1>3. k.kind \in SyncKinds /\ i \in 1 .. Len(Script[k.kind]) BY <1>1, SyncPlace
<1>4. /\ Before(k.kind, i, "container") => step # "remove"
      /\ Before(k.kind, i, "remove") => step # "container"
      /\ Before(k.kind, i, "bind") => step # "unbind"
      /\ Before(k.kind, i, "disable") => step \notin {"tenant", "activate"}
  BY <1>2, <1>3, SyncScripts
<1>5. Before(k.kind, i, "container") \/ step = "container" => box'[k.name] = k.session
  BY <1>1, <1>2, <1>4 DEF HalfWay, Writes
<1>6. Before(k.kind, i, "remove") \/ step = "remove" =>
          box'[k.name] = NoSession \/ k.name \in overlooked'
  BY <1>1, <1>2, <1>4 DEF HalfWay, Writes, Gone
<1>7. Before(k.kind, i, "bind") \/ step = "bind"
          => bound'[k.chat] = k.tenant /\ k.chat \in enabled'
  BY <1>1, <1>2, <1>4 DEF HalfWay, Writes
<1>8. Before(k.kind, i, "disable") \/ step = "disable" => tstatus'[k.tenant] # "active"
  BY <1>1, <1>2, <1>4 DEF HalfWay, Writes
<1> QED BY <1>1, <1>2, <1>5, <1>6, <1>7, <1>8 DEF Reached

\* At the last step of the script the tenant is finished.
LEMMA EndFinishes ==
    ASSUME TypeInv, KnownInv, SlugsStay, NEW f \in Files, NEW p \in Tools,
           task[p] # NoTask, SyncTask(f, task[p]), Writes(p), Reached(p),
           at[p] = Len(Script[task[p].kind]), NEW t, t = task[p].tenant
    PROVE  Finished(f, t)'
<1>1. PICK k, i : k = task[p] /\ i = at[p] OBVIOUS
<1>2. PICK step : step = Script[k.kind][i] OBVIOUS
<1>3. /\ k.kind \in SyncKinds /\ t \in Tenants /\ i \in 1 .. Len(Script[k.kind])
      /\ i = Len(Script[k.kind]) /\ k.tenant = t /\ SyncTask(f, k)
  BY <1>1, SyncPlace
<1>4. Stored(t) /\ slug'[t] = slug[t]
  <2>1. Before(k.kind, i, "tenant") => Stored(t)
    BY <1>1 DEF KnownInv, Progress, ProgressOK
  <2>2. Stored(t)
    <3>1. CASE k.kind = "drop" BY <1>3, <3>1 DEF SyncTask, TaskOf
    <3>2. CASE k.kind # "drop" BY <1>3, <2>1, <3>2, SyncScripts DEF SyncKinds
    <3> QED BY <3>1, <3>2
  <2> QED BY <1>3, <2>2 DEF SlugsStay
<1>5. /\ Before(k.kind, i, "container") => box'[k.name] = k.session
      /\ Before(k.kind, i, "remove") =>
             box'[k.name] = NoSession \/ k.name \in overlooked'
      /\ Before(k.kind, i, "bind") => bound'[k.chat] = k.tenant /\ k.chat \in enabled'
      /\ Before(k.kind, i, "disable") => tstatus'[k.tenant] # "active"
  BY <1>1 DEF Reached
<1>6. CASE k.kind = "load"
  <2>1. PICK e \in ActiveIn(f) :
            /\ e.tenant = k.tenant /\ e.chat = k.chat /\ e.session = k.session
            /\ k.name = NameOf[e.slug]
            /\ \A d \in ActiveIn(f) : d.tenant = k.tenant => d = e
    BY <1>3, <1>6, SyncTaskSays
  <2>2. /\ box'[k.name] = k.session
        /\ bound'[k.chat] = k.tenant /\ k.chat \in enabled'
    BY <1>3, <1>5, <1>6, SyncScripts
  <2>3. tstatus'[t] = "active"
    <3>1. step = "activate" BY <1>2, <1>3, <1>6, SyncScripts
    <3> QED BY <1>1, <1>2, <1>4, <3>1 DEF Writes
  <2>4. ASSUME NEW d \in ActiveIn(f), d.tenant = t
        PROVE  /\ tstatus'[t] = "active" /\ box'[NameOf[d.slug]] = d.session
               /\ bound'[d.chat] = t /\ d.chat \in enabled'
    BY <1>3, <2>1, <2>2, <2>3, <2>4
  <2> QED BY <1>3, <2>1, <2>4 DEF Finished, ActiveIn
<1>7. CASE k.kind # "load"
  <2>1. /\ box'[k.name] = NoSession \/ k.name \in overlooked'
        /\ tstatus'[t] # "active"
    BY <1>3, <1>5, <1>7, SyncScripts
  <2>2. k.name = NameOf[slug'[t]] BY <1>3, <1>4, SyncName
  <2>3. \A d \in ActiveIn(f) : d.tenant # t BY <1>3, <1>7, SyncTaskSays
  <2> QED BY <2>1, <2>2, <2>3 DEF Finished, ActiveIn, Gone
<1> QED BY <1>6, <1>7

\* The short cut of a tenant that was disabled before, without a container.
LEMMA SettledFinishes ==
    ASSUME TypeInv, KnownInv, SlugsStay, NEW f \in Files, NEW p \in Tools,
           task[p] # NoTask, SyncTask(f, task[p]), Writes(p),
           At(p, "remove"), task[p].settled, NEW t, t = task[p].tenant
    PROVE  Finished(f, t)'
<1>1. PICK k : k = task[p] OBVIOUS
<1>2. SyncTask(f, k) /\ k.settled /\ t = k.tenant /\ t \in Tenants
  BY <1>1, SyncPlace
<1>3. k.kind = "drop" BY <1>2, SyncTaskSays
<1>4. Stored(t) /\ tstatus[t] = "disabled" /\ k.name = NameOf[slug[t]]
  BY <1>2, <1>3 DEF SyncTask, TaskOf
<1>5. \A d \in ActiveIn(f) : d.tenant # t BY <1>2, <1>3, SyncTaskSays
<1>6. /\ box'[k.name] = NoSession \/ k.name \in overlooked'
      /\ tstatus'[t] = "disabled"
  BY <1>1, <1>4 DEF Writes, At
<1>7. slug'[t] = slug[t] BY <1>2, <1>4 DEF SlugsStay
<1> QED BY <1>4, <1>5, <1>6, <1>7 DEF Finished, ActiveIn, Gone

\* The tasks still to be done remain tasks of the file.
LEMMA SyncTaskStays ==
    ASSUME TypeInv, Kept, SlugsStay, NEW f \in Files, NEW k, k.tenant \in Tenants,
           SyncTask(f, k),
           tstatus'[k.tenant] = tstatus[k.tenant] \/ tstatus'[k.tenant] = "disabled"
    PROVE  SyncTask(f, k)'
<1>1. CASE \E e \in ActiveIn(f) : k = TaskOf("load", e)
  BY <1>1 DEF SyncTask, ActiveIn, TaskOf
<1>2. CASE \E e \in f \ ActiveIn(f) : k = TaskOf("unload", e)
  BY <1>2 DEF SyncTask, ActiveIn, TaskOf
<1>3. CASE /\ k.kind = "drop" /\ \A e \in f : e.tenant # k.tenant
           /\ Stored(k.tenant) /\ k.name = NameOf[slug[k.tenant]]
           /\ k.settled => tstatus[k.tenant] = "disabled"
  BY <1>3 DEF SyncTask, Kept, SlugsStay, Stored
<1> QED BY <1>1, <1>2, <1>3 DEF SyncTask

-----------------------------------------------------------------------------
(* The invariant under the steps of load_users.                            *)

\* What the invariant says of the one tool that is at work.
LEMMA OthersIdle ==
    ASSUME TypeInv, OneTool, NEW p \in Tools, ~Idle(p), NEW q \in Tools \ {p}
    PROVE  task[q] = NoTask /\ work[q] = {}
  BY DEF OneTool, Idle

\* To begin with the next tenant changes nothing that the file speaks of.
LEMMA SyncNextTask ==
    ASSUME TypeInv, SyncInv, syncedTo # NoFile, NEW p \in Tools, NextTask(p)
    PROVE  SyncInv'
<1>1. PICK f \in Files : f = syncedTo BY DEF TypeInv, TypeOK
<1>2. OneTool /\ TasksOfFile(f) /\ DoneOrPending(f) BY <1>1 DEF SyncInv
<1>3. UNCHANGED <<tstatus, slug, box, bound, enabled, overlooked, syncedTo>>
  BY DEF NextTask, database, docker, history, stepFrame
<1>4. PICK k \in work[p] :
          /\ task'[p] = k /\ at'[p] = 1 /\ work'[p] = work[p] \ {k}
          /\ \A q \in Tools \ {p} : task'[q] = task[q] /\ at'[q] = at[q] /\ work'[q] = work[q]
  BY DEF NextTask, Put, TypeInv, ToolsOK
<1>5. task[p] = NoTask /\ ~Idle(p) BY <1>4 DEF NextTask, Idle
<1>6. k # NoTask BY TaskAssumption DEF TypeInv, ToolsOK
<1>7. \A q \in Tools \ {p} : task[q] = NoTask /\ work[q] = {} BY <1>2, <1>5, OthersIdle
<1>8. OneTool' BY <1>4, <1>7 DEF OneTool, Idle
<1>9. \A j : SyncTask(f, j) => SyncTask(f, j)'
  BY <1>3 DEF SyncTask, ActiveIn, TaskOf, Stored
<1>10. TasksOfFile(f)'
  <2>1. /\ \A j \in work'[p] : SyncTask(f, j)'
        /\ \A i, j \in work'[p] : i.tenant = j.tenant => i = j
    BY <1>2, <1>4, <1>9 DEF TasksOfFile
  <2>2. SyncTask(f, k)' BY <1>2, <1>9 DEF TasksOfFile
  <2>3. SyncTask(f, task[p])' BY <1>4, <2>2 DEF SyncTask, ActiveIn, TaskOf, Stored
  <2>4. HalfWay(p)' BY <1>4, NothingBefore DEF HalfWay
  <2>5. \A j \in work'[p] : j.tenant # task'[p].tenant
    BY <1>2, <1>4 DEF TasksOfFile
  <2> QED BY <1>4, <1>7, <2>1, <2>3, <2>4, <2>5 DEF TasksOfFile
<1>11. DoneOrPending(f)'
  <2> SUFFICES ASSUME NEW t \in Tenants, ~Pending(t)' PROVE Finished(f, t)'
    BY DEF DoneOrPending
  <2>1. ~Pending(t) BY <1>4, <1>5, <1>6, <1>7 DEF Pending
  <2>2. Finished(f, t) BY <1>2, <2>1 DEF DoneOrPending
  <2> QED BY <1>3, <2>2 DEF Finished, ActiveIn, Stored, Gone
<1> QED BY <1>1, <1>3, <1>8, <1>10, <1>11 DEF SyncInv

\* A step of the task in hand.
LEMMA SyncTaskStep ==
    ASSUME TypeInv, KnownInv, RouteInv, NamesDistinct, ChatsDistinct, Kept, SlugsStay,
           SyncInv, syncedTo # NoFile, syncedTo' # NoFile,
           NEW p \in Tools, ToolStep(p), task[p] # NoTask
    PROVE  SyncInv'
<1>1. PICK f \in Files : f = syncedTo BY DEF TypeInv, TypeOK
<1>2. OneTool /\ TasksOfFile(f) /\ DoneOrPending(f) BY <1>1 DEF SyncInv
<1>3. PICK k, i : k = task[p] /\ i = at[p] OBVIOUS
<1>4. /\ SyncTask(f, k) /\ HalfWay(p) /\ \A j \in work[p] : j.tenant # k.tenant
  BY <1>2, <1>3 DEF TasksOfFile
<1>5. /\ k.kind \in SyncKinds /\ k.tenant \in Tenants /\ i \in 1 .. Len(Script[k.kind])
      /\ k.kind \in Kinds
  BY <1>3, <1>4, SyncPlace, KindsAre DEF SyncKinds, Entered
<1>6. /\ Writes(p) /\ UNCHANGED <<syncedTo, work>>
      /\ \/ Advance(p)
         \/ At(p, "remove") /\ k.settled /\ EndTask(p)
  BY <1>3, <1>5, SyncWrites DEF KnownInv
<1>7. Reached(p) BY <1>3, <1>4, <1>6, StepReaches
<1>8. ~Idle(p) /\ \A q \in Tools \ {p} : task[q] = NoTask /\ work[q] = {}
  BY <1>2, OthersIdle DEF Idle
<1>9. \A q \in Tools \ {p} : task'[q] = NoTask /\ work'[q] = {}
  BY <1>6, <1>8 DEF Advance, EndTask, Put, TypeInv, ToolsOK
<1>10. OneTool' BY <1>9 DEF OneTool, Idle
<1>11. \A u \in Tenants : u # k.tenant /\ Finished(f, u) => Finished(f, u)'
  BY <1>3, <1>4, <1>6, FinishedStays
<1>12. \A j \in work'[p] : SyncTask(f, j)'
  <2> SUFFICES ASSUME NEW j \in work[p] PROVE SyncTask(f, j)' BY <1>6
  <2>1. SyncTask(f, j) /\ j.tenant # k.tenant BY <1>2, <1>4 DEF TasksOfFile
  <2>2. j.tenant \in Tenants BY DEF TypeInv, ToolsOK, Task
  <2>3. tstatus'[j.tenant] = tstatus[j.tenant] BY <1>3, <1>6, <2>1, <2>2 DEF Writes
  <2> QED BY <2>1, <2>2, <2>3, SyncTaskStays
<1>13. \A j, l \in work'[p] : j.tenant = l.tenant => j = l
  BY <1>2, <1>6 DEF TasksOfFile
<1>14. CASE task'[p] = NoTask
  <2>1. TasksOfFile(f)' BY <1>9, <1>12, <1>13, <1>14 DEF TasksOfFile
  <2>2. Finished(f, k.tenant)'
    <3>1. CASE At(p, "remove") /\ k.settled
      BY <1>3, <1>4, <1>6, <3>1, SettledFinishes
    <3>2. CASE Advance(p) /\ at[p] = Len(Script[k.kind])
      BY <1>3, <1>4, <1>6, <1>7, <3>2, EndFinishes
    <3>3. CASE Advance(p) /\ at[p] # Len(Script[k.kind])
      BY <1>3, <1>14, <3>3 DEF Advance
    <3> QED BY <1>6, <3>1, <3>2, <3>3
  <2>3. ASSUME NEW u \in Tenants, ~Pending(u)', u # k.tenant PROVE Finished(f, u)'
    <3>1. ~Pending(u) BY <1>3, <1>6, <1>8, <2>3 DEF Pending
    <3> QED BY <1>2, <1>11, <2>3, <3>1 DEF DoneOrPending
  <2>4. DoneOrPending(f)' BY <2>2, <2>3 DEF DoneOrPending
  <2> QED BY <1>1, <1>6, <1>10, <2>1, <2>4 DEF SyncInv
<1>15. CASE task'[p] # NoTask
  <2>1. task'[p] = k /\ at'[p] = i + 1
    BY <1>3, <1>6, <1>15 DEF Advance, EndTask, Put, TypeInv, ToolsOK
  <2>2. SyncTask(f, k)'
    <3>1. tstatus'[k.tenant] = tstatus[k.tenant] \/ tstatus'[k.tenant] = "disabled"
            \/ k.kind # "drop"
      <4>1. CASE k.kind = "drop" /\ ~At(p, "disable")
        BY <1>3, <1>5, <1>6, <4>1, OtherScripts DEF Writes, At, ScriptIs
      <4>2. CASE At(p, "disable")
        BY <1>3, <1>5, <4>2 DEF At, ToolStep, SetStatus, Stored, Put, TypeInv, TypeOK,
           NextTask, CheckPhone, CheckPhoneRefuses, StoreTenant, StoreTenantRefused,
           StoreCredentials, ReadCredentials, DecryptFails, EnsureContainer,
           RemoveContainer, InspectFails, StoreRuntime, HaltRuntime, BindBaleUser,
           DeactivateBindings
      <4> QED BY <4>1, <4>2
    <3>2. CASE k.kind = "drop" BY <1>4, <1>5, <3>1, <3>2, SyncTaskStays
    <3>3. CASE k.kind # "drop" BY <1>4, <3>3 DEF SyncTask, ActiveIn, TaskOf
    <3> QED BY <3>2, <3>3
  <2>3. SyncTask(f, task[p])'
    BY <2>1, <2>2 DEF SyncTask, ActiveIn, TaskOf, Stored
  <2>4. HalfWay(p)'
    <3>1. \A step : Before(k.kind, i + 1, step)
                      <=> Before(k.kind, i, step) \/ Script[k.kind][i] = step
      BY <1>5, BeforeNext
    <3> QED BY <1>3, <1>7, <2>1, <3>1 DEF HalfWay, Reached, Gone
  <2>5. \A j \in work'[p] : j.tenant # task'[p].tenant BY <1>4, <1>6, <2>1
  <2>6. TasksOfFile(f)'
    BY <1>9, <1>12, <1>13, <2>3, <2>4, <2>5 DEF TasksOfFile
  <2>7. DoneOrPending(f)'
    <3> SUFFICES ASSUME NEW u \in Tenants, ~Pending(u)' PROVE Finished(f, u)'
      BY DEF DoneOrPending
    <3>1. u # k.tenant BY <1>15, <2>1 DEF Pending
    <3>2. ~Pending(u) BY <1>3, <1>6, <1>8, <1>15, <2>1 DEF Pending
    <3> QED BY <1>2, <1>11, <3>1, <3>2 DEF DoneOrPending
  <2> QED BY <1>1, <1>6, <1>10, <2>6, <2>7 DEF SyncInv
<1> QED BY <1>14, <1>15

\* A tool that fails during load_users ends it.
LEMMA SyncFailure ==
    ASSUME TypeInv, SyncInv, NEW p \in Tools, StepRaises(p)
    PROVE  syncedTo' = NoFile
<1>1. CASE Abort(p) BY <1>1 DEF Abort
<1>2. CASE ~Abort(p)
  <2>1. task[p] # NoTask /\ task[p].kind = "reconcile" /\ UNCHANGED syncedTo
    BY <1>2 DEF StepRaises
  <2>2. ASSUME syncedTo # NoFile PROVE FALSE
    <3>1. PICK f \in Files : f = syncedTo BY <2>2 DEF TypeInv, TypeOK
    <3>2. SyncTask(f, task[p]) BY <2>1, <2>2, <3>1 DEF SyncInv, TasksOfFile
    <3>3. task[p].kind \in SyncKinds BY <3>2, SyncTaskSays
    <3> QED BY <2>1, <3>3 DEF SyncKinds
  <2> QED BY <2>1, <2>2
<1> QED BY <1>1, <1>2

\* load_users gives each tenant one task, and needs none for a tenant that
\* neither the file nor the database knows.
LEMMA SyncBegins ==
    ASSUME TypeInv, KnownInv, RouteInv, NEW p \in Tools, LoadUsers(p), syncedTo' # NoFile
    PROVE  SyncInv'
<1> DEFINE loaded(f) == {TaskOf(IF e.status = "active" THEN "load" ELSE "unload", e) :
                              e \in f}
           dropped(f) == {DropTask(t) :
                              t \in {u \in Tenants \ {e.tenant : e \in f} : Stored(u)}}
<1>1. PICK f \in Files : Begin(p, loaded(f) \cup dropped(f), f) BY DEF LoadUsers
<1>2. PICK ts : ts = loaded(f) \cup dropped(f) OBVIOUS
<1>3. Begin(p, ts, f) BY <1>1, <1>2
<1>4. /\ \A q \in Tools : task[q] = NoTask /\ work[q] = {}
      /\ syncedTo' = f
      /\ UNCHANGED <<tstatus, slug, box, bound, enabled, task>>
  BY <1>3 DEF Begin, database, docker, Idle
<1>5. work'[p] = ts /\ \A q \in Tools \ {p} : work'[q] = {}
  BY <1>3, <1>4 DEF Begin, Put, TypeInv, ToolsOK
<1>6. OneTool' BY <1>4, <1>5 DEF OneTool, Idle
<1>7. f \subseteq Entries /\ FileAccepted(f) /\ ActiveIn(f) = {e \in f : e.status = "active"}
  BY ConstantAssumption DEF ActiveIn
<1>8. ASSUME NEW e \in f
      PROVE  LET k == TaskOf(IF e.status = "active" THEN "load" ELSE "unload", e)
             IN  k.tenant = e.tenant /\ SyncTask(f, k)
  <2>1. CASE e.status = "active" BY <1>7, <2>1 DEF SyncTask, TaskOf
  <2>2. CASE e.status # "active" BY <1>7, <2>2 DEF SyncTask, TaskOf
  <2> QED BY <2>1, <2>2
<1>9. ASSUME NEW t \in Tenants, Stored(t), t \notin {e.tenant : e \in f}
      PROVE  DropTask(t).tenant = t /\ SyncTask(f, DropTask(t))
  <2>1. PICK k : k = DropTask(t) OBVIOUS
  <2>2. /\ k.kind = "drop" /\ k.tenant = t
        /\ k.name = IF rname[t] # NoName THEN rname[t] ELSE NameOf[slug[t]]
        /\ k.settled => tstatus[t] = "disabled"
    BY <2>1 DEF DropTask, TaskFor
  <2>3. k.name = NameOf[slug[t]] BY <1>9, <2>2 DEF RouteInv, RowsAddressed
  <2> QED BY <1>9, <2>1, <2>2, <2>3 DEF SyncTask
<1>10. \A k \in ts :
          /\ SyncTask(f, k)
          /\ \/ \E e \in f : k.tenant = e.tenant
                    /\ k = TaskOf(IF e.status = "active" THEN "load" ELSE "unload", e)
             \/ /\ k.tenant \notin {e.tenant : e \in f}
                /\ k = DropTask(k.tenant)
  BY <1>2, <1>8, <1>9
<1>11. \A j, k \in ts : j.tenant = k.tenant => j = k
  BY <1>7, <1>10 DEF FileAccepted
<1>12. \A j : SyncTask(f, j) => SyncTask(f, j)'
  BY <1>4 DEF SyncTask, ActiveIn, TaskOf, Stored
<1>13. TasksOfFile(f)' BY <1>4, <1>5, <1>10, <1>11, <1>12 DEF TasksOfFile
<1>14. DoneOrPending(f)'
  <2> SUFFICES ASSUME NEW t \in Tenants, ~Pending(t)' PROVE Finished(f, t)'
    BY DEF DoneOrPending
  <2>1. \A k \in ts : k.tenant # t BY <1>5 DEF Pending
  <2>2. t \notin {e.tenant : e \in f}
    <3> SUFFICES ASSUME NEW e \in f, e.tenant = t PROVE FALSE OBVIOUS
    <3>1. PICK k : k = TaskOf(IF e.status = "active" THEN "load" ELSE "unload", e) OBVIOUS
    <3>2. k \in ts /\ k.tenant = t BY <1>2, <1>8, <3>1
    <3> QED BY <2>1, <3>2
  <2>3. ~Stored(t)
    <3> SUFFICES ASSUME Stored(t) PROVE FALSE OBVIOUS
    <3>1. DropTask(t) \in ts BY <1>2, <2>2
    <3> QED BY <1>9, <2>1, <2>2, <3>1
  <2>4. tstatus'[t] = "absent" BY <1>4, <2>3 DEF Stored
  <2> QED BY <1>7, <2>2, <2>4 DEF Finished, ActiveIn, Stored
<1> QED BY <1>4, <1>6, <1>13, <1>14 DEF SyncInv

\* Every other command, or one that is started beside a tool, ends the claim.
LEMMA OtherCommands ==
    ASSUME NEW p \in Tools, Command(p), ~LoadUsers(p)
    PROVE  syncedTo' = NoFile
  BY DEF Command, TenantAdd, ProvisionSelected, TenantSetStatus, Reconcile, Begin

\* The invariant under all steps.
LEMMA SyncStep ==
    ASSUME TypeInv, KnownInv, RouteInv, NamesDistinct, ChatsDistinct, SyncInv, [Next]_vars
    PROVE  SyncInv'
<1>0. Kept /\ SlugsStay BY KnownStep
<1>1. SUFFICES ASSUME syncedTo' # NoFile PROVE SyncInv' BY DEF SyncInv
<1>2. ASSUME NEW p \in Tools, ToolStep(p) PROVE SyncInv'
  <2>1. syncedTo # NoFile
    BY <1>1, <1>2 DEF ToolStep, NextTask, CheckPhone, CheckPhoneRefuses, StoreTenant,
       StoreTenantRefused, StoreCredentials, ReadCredentials, DecryptFails,
       EnsureContainer, RemoveContainer, InspectFails, StoreRuntime, HaltRuntime,
       BindBaleUser, DeactivateBindings, SetStatus, Abort, stepFrame
  <2>2. CASE task[p] # NoTask BY <1>0, <1>1, <1>2, <2>1, <2>2, SyncTaskStep
  <2>3. CASE task[p] = NoTask
    <3>1. \A s : ~At(p, s) BY <2>3 DEF At
    <3>2. NextTask(p)
      BY <1>2, <3>1 DEF ToolStep, CheckPhone, CheckPhoneRefuses, StoreTenant,
         StoreTenantRefused, StoreCredentials, ReadCredentials, DecryptFails,
         EnsureContainer, RemoveContainer, InspectFails, StoreRuntime, HaltRuntime,
         BindBaleUser, DeactivateBindings, SetStatus
    <3> QED BY <2>1, <3>2, SyncNextTask
  <2> QED BY <2>2, <2>3
<1>3. ASSUME NEW p \in Tools, StepRaises(p) PROVE SyncInv' BY <1>1, <1>3, SyncFailure
<1>4. ASSUME NEW p \in Tools, Command(p) PROVE SyncInv'
  BY <1>1, <1>4, SyncBegins, OtherCommands
<1>5. ASSUME UNCHANGED <<tstatus, slug, bound, enabled, docker, tools, overlooked, syncedTo>>
      PROVE  SyncInv'
  <2>1. PICK f \in Files : f = syncedTo BY <1>1, <1>5 DEF TypeInv, TypeOK
  <2>2. OneTool /\ TasksOfFile(f) /\ DoneOrPending(f) BY <1>1, <1>5, <2>1 DEF SyncInv
  <2>3. OneTool' BY <1>5, <2>2 DEF OneTool, Idle, tools
  <2>4. TasksOfFile(f)'
    <3>1. UNCHANGED <<work, task, at>> BY <1>5 DEF tools
    <3>2. \A k : SyncTask(f, k) => SyncTask(f, k)'
      BY <1>5 DEF SyncTask, ActiveIn, TaskOf, Stored
    <3>3. \A p \in Tools : SyncTask(f, task[p]) => SyncTask(f, task[p])'
      BY <1>5, <3>1 DEF SyncTask, ActiveIn, TaskOf, Stored
    <3>4. \A p \in Tools : HalfWay(p) => HalfWay(p)'
      BY <1>5, <3>1 DEF HalfWay, docker, Gone
    <3> QED BY <2>2, <3>1, <3>2, <3>3, <3>4 DEF TasksOfFile
  <2>5. DoneOrPending(f)'
    BY <1>5, <2>2 DEF DoneOrPending, Pending, Finished, ActiveIn, Stored, docker, tools,
       Gone
  <2> QED BY <1>5, <2>1, <2>3, <2>4, <2>5 DEF SyncInv
<1>6. ASSUME \/ ProbeStep \/ ProbeRaises
             \/ \E c \in Chats : Route(c) \/ Relay(c)
      PROVE  SyncInv'
  BY <1>5, <1>6 DEF ProbeStep, ProbeList, ProbeGet, ProbeWrite, ProbeRaises, Route,
     Relay, database, history, botFrame
<1>7. CASE UNCHANGED vars BY <1>5, <1>7 DEF vars, database, history
<1> QED BY <1>2, <1>3, <1>4, <1>6, <1>7 DEF Next

\* A load_users that ran alone and to its end leaves the active tenants, the
\* bindings and the containers of its file, and no other container but where
\* docker inspect failed in this run: for any number of tenants and whatever
\* commands that failed half way had left behind.  On SQLite, if slugs are kept
\* and give distinct names, and no two active users of a file share a chat.
THEOREM Convergence ==
    ASSUME Backend = "sqlite", SlugsKept, NamesDistinct, ChatsDistinct
    PROVE  Spec => []SyncConverges
<1>1. Init => KnownInv
  BY ConstantAssumption, NullAssumption
     DEF Init, KnownInv, Progress, ProgressOK, SlugOK, NamesOK, BoxesOK,
         ContainerIsKnown, Stored, EntryType
<1>2. Init => RouteInv
  BY DEF Init, RouteInv, SlugsDistinct, RowsAddressed, ListingsAddressed, Stored
<1>3. Init => SyncInv BY DEF Init, SyncInv
<1>4. TypeInv /\ KnownInv /\ [Next]_vars => KnownInv' BY KnownStep
<1>5. TypeInv /\ KnownInv /\ RouteInv /\ [Next]_vars => RouteInv' BY RouteStep
<1>6. TypeInv /\ KnownInv /\ RouteInv /\ SyncInv /\ [Next]_vars => SyncInv' BY SyncStep
<1>7. TypeInv /\ KnownInv /\ SyncInv => SyncConverges
  <2> SUFFICES ASSUME TypeInv, KnownInv, SyncInv, Synced
               PROVE  /\ \A e \in ActiveIn(syncedTo) :
                           /\ box[NameOf[e.slug]] = e.session
                           /\ bound[e.chat] = e.tenant /\ e.chat \in enabled
                      /\ \A n \in Names :
                           box[n] # NoSession =>
                               \/ n \in overlooked
                               \/ \E e \in ActiveIn(syncedTo) : NameOf[e.slug] = n
                      /\ \A t \in Tenants :
                           tstatus[t] = "active" <=>
                               \E e \in ActiveIn(syncedTo) : e.tenant = t
    BY DEF SyncConverges
  <2>1. PICK f \in Files : f = syncedTo BY DEF Synced, TypeInv, TypeOK
  <2>2. \A t \in Tenants : Finished(f, t)
    <3>1. \A t : ~Pending(t) BY DEF Synced, Idle, Pending
    <3> QED BY <2>1, <3>1 DEF Synced, SyncInv, DoneOrPending
  <2>3. \A e \in ActiveIn(f) :
            /\ e \in Entries /\ e.tenant \in Tenants
            /\ tstatus[e.tenant] = "active" /\ box[NameOf[e.slug]] = e.session
            /\ bound[e.chat] = e.tenant /\ e.chat \in enabled
    <3>1. \A e \in ActiveIn(f) : e \in Entries /\ e.tenant \in Tenants
      BY ConstantAssumption DEF ActiveIn, EntryType
    <3> QED BY <2>2, <3>1 DEF Finished
  <2>4. ASSUME NEW n \in Names, box[n] # NoSession, n \notin overlooked
        PROVE  \E e \in ActiveIn(f) : NameOf[e.slug] = n
    <3>1. PICK t \in Tenants : /\ t = boxOf[n] /\ Stored(t) /\ NameOf[slug[t]] = n
      BY <2>4 DEF KnownInv, BoxesOK, ContainerIsKnown
    <3>2. PICK e \in ActiveIn(f) : e.tenant = t
      BY <2>2, <2>4, <3>1 DEF Finished, Gone
    <3>3. slug[t] = e.slug BY <2>3, <3>1, <3>2 DEF KnownInv, SlugOK
    <3> QED BY <3>1, <3>2, <3>3
  <2>5. \A t \in Tenants :
            tstatus[t] = "active" => \E e \in ActiveIn(f) : e.tenant = t
    BY <2>2 DEF Finished
  <2> QED BY <2>1, <2>3, <2>4, <2>5
<1> QED BY <1>1, <1>2, <1>3, <1>4, <1>5, <1>6, <1>7, TypeInvariance, PTL DEF Spec
=============================================================================
