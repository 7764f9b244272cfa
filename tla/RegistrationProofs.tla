------------------------- MODULE RegistrationProofs -------------------------
(***************************************************************************)
(* Proofs about Registration for all messages, handlers, tools, tenants    *)
(* and bounds.                                                             *)
(***************************************************************************)
EXTENDS Registration, Integers, SequenceTheorems, TLAPS

USE RegistrationAssumption, RowAssumption

-----------------------------------------------------------------------------
(* Type correctness.  It needs PlacesOK: what an actor knows at a place.   *)

HandlerPlaces == {"idle", "resolve", "ask", "answer", "check", "mark"}
ToolPlaces    == {"idle", "bind_admin", "bind_load", "read_admin", "read_load",
                  "write", "notify"}

HandlerOK(h) ==
    /\ at[h] \in HandlerPlaces
    /\ at[h] # "idle" => msg[h] \in Messages
    /\ at[h] \in {"check", "mark"} => for[h] \in Tenants

ToolOK(p) ==
    /\ at[p] \in ToolPlaces
    /\ at[p] # "idle" => for[p] \in Tenants
    /\ at[p] = "write" => seen[p] \in Row

PlacesOK ==
    /\ \A h \in Handlers : HandlerOK(h)
    /\ \A p \in Tools : ToolOK(p)

TypeInv == TypeOK /\ PlacesOK

\* What a step may do to the places and to what the actors know.
ActorsOK ==
    /\ at \in [Actors -> Places]
    /\ msg \in [Handlers -> Messages \cup {NoMessage}]
    /\ seen \in [Actors -> Row \cup {NoRow}]
    /\ for \in [Actors -> Tenants \cup {NoTenant}]
    /\ PlacesOK

\* An actor that is done knows nothing.
LEMMA FinishOK ==
    ASSUME ActorsOK, NEW a \in Actors, Finish(a)
    PROVE  ActorsOK'
  BY DEF ActorsOK, Actors, Finish, Goto, Places, PlacesOK, HandlerOK, ToolOK,
         HandlerPlaces, ToolPlaces

\* An actor that reads the row is sent on with what it knows.
LEMMA HandlerReadOK ==
    ASSUME ActorsOK, row \in Row \cup {NoRow}, NEW h \in Handlers,
           at[h] # "idle",
           NEW place \in {"answer", "mark"}, Read(h, place),
           for[h] \in Tenants \/ place = "answer"
    PROVE  ActorsOK'
<1>1. h \in Actors /\ h \notin Tools BY DEF Actors
<1>2. /\ at' \in [Actors -> Places]
      /\ seen' \in [Actors -> Row \cup {NoRow}]
      /\ UNCHANGED <<msg, for>>
  BY DEF ActorsOK, Read, Goto, Places
<1>3. \A a \in Actors \ {h} : at'[a] = at[a] /\ seen'[a] = seen[a]
  BY <1>1 DEF ActorsOK, Read, Goto
<1>4. \A p \in Tools : ToolOK(p)'
  BY <1>1, <1>2, <1>3 DEF ActorsOK, PlacesOK, ToolOK, Actors
<1>5. HandlerOK(h)'
  BY <1>1, <1>2 DEF ActorsOK, PlacesOK, HandlerOK, HandlerPlaces, Read, Goto
<1>6. \A g \in Handlers : HandlerOK(g)'
  BY <1>2, <1>3, <1>5 DEF ActorsOK, PlacesOK, HandlerOK, Actors
<1> QED BY <1>2, <1>4, <1>6 DEF ActorsOK, PlacesOK

\* The same for a tool.
LEMMA ToolReadOK ==
    ASSUME ActorsOK, row \in Row \cup {NoRow}, NEW p \in Tools, at[p] # "idle",
           NEW place \in {"write", "notify"}, Read(p, place),
           row # NoRow \/ place = "notify"
    PROVE  ActorsOK'
<1>1. p \in Actors /\ p \notin Handlers BY DEF Actors
<1>2. /\ at' \in [Actors -> Places]
      /\ seen' \in [Actors -> Row \cup {NoRow}]
      /\ UNCHANGED <<msg, for>>
  BY DEF ActorsOK, Read, Goto, Places
<1>3. \A a \in Actors \ {p} : at'[a] = at[a] /\ seen'[a] = seen[a]
  BY <1>1 DEF ActorsOK, Read, Goto
<1>4. \A h \in Handlers : HandlerOK(h)'
  BY <1>1, <1>2, <1>3 DEF ActorsOK, PlacesOK, HandlerOK, Actors
<1>5. ToolOK(p)'
  BY <1>1, <1>2 DEF ActorsOK, PlacesOK, ToolOK, ToolPlaces, Read, Goto
<1>6. \A q \in Tools : ToolOK(q)'
  BY <1>2, <1>3, <1>5 DEF ActorsOK, PlacesOK, ToolOK, Actors
<1> QED BY <1>2, <1>4, <1>6 DEF ActorsOK, PlacesOK

\* The window has a last message more and may have lost its first.
LEMMA RememberOK ==
    ASSUME recent \in Seq(Messages), NEW m \in Messages, Remember(m)
    PROVE  recent' \in Seq(Messages)
<1> DEFINE s == Append(recent, m)
<1>1. s \in Seq(Messages) /\ s # << >> /\ Tail(s) \in Seq(Messages) OBVIOUS
<1> QED BY <1>1 DEF Remember

\* A row that is written is a row.
LEMMA RowsWritten ==
    /\ Fresh \in Row
    /\ \A r \in Row, t \in Tenants : Marked(r, t) \in Row
    /\ \A r \in Row, m \in Messages :
            /\ [r EXCEPT !.name = m, !.status = "awaiting_phone"] \in Row
            /\ [r EXCEPT !.phone = m, !.status = "pending_admin"] \in Row
  BY DEF Row, Statuses, Fresh, Marked

\* Every step keeps every variable in its type and every actor in its place.
LEMMA TypeStep ==
    ASSUME TypeInv, [Next]_vars
    PROVE  TypeInv'
<1> USE DEF TypeInv, TypeOK, actors, history, budget, handlerFrame, toolFrame
<1>a. ActorsOK BY DEF ActorsOK
<1>b. ASSUME ActorsOK' PROVE /\ PlacesOK'
                             /\ at' \in [Actors -> Places]
                             /\ msg' \in [Handlers -> Messages \cup {NoMessage}]
                             /\ seen' \in [Actors -> Row \cup {NoRow}]
                             /\ for' \in [Actors -> Tenants \cup {NoTenant}]
  BY <1>b DEF ActorsOK
<1>1. ASSUME NEW m \in Messages, ReceiveDuplicate(m) PROVE TypeInv'
  BY <1>1 DEF ReceiveDuplicate, Deliver, PlacesOK, HandlerOK, ToolOK
<1>2. ASSUME NEW m \in Messages, Accept(m)
      PROVE  /\ recent' \in Seq(Messages) /\ deliveries' \in Nat
             /\ accepted' \in Seq(Messages) /\ booted' \in 0 .. Len(accepted')
  <2>1. Len(accepted') = Len(accepted) + 1 /\ accepted' \in Seq(Messages)
    BY <1>2 DEF Accept
  <2>2. booted' = booted /\ deliveries' \in Nat BY <1>2 DEF Accept, Deliver
  <2> QED BY <1>2, <2>1, <2>2, RememberOK DEF Accept
<1>3. ASSUME NEW m \in Messages, ReceiveElsewhere(m) PROVE TypeInv'
  BY <1>2, <1>3 DEF ReceiveElsewhere, Accept, PlacesOK, HandlerOK, ToolOK
<1>4. ASSUME NEW m \in Messages, NEW h \in Handlers, Receive(h, m) PROVE TypeInv'
  <2>1. ActorsOK'
    BY <1>a, <1>4 DEF Receive, Goto, ActorsOK, Actors, Places, PlacesOK,
       HandlerOK, ToolOK, HandlerPlaces, ToolPlaces
  <2> QED BY <1>b, <1>2, <1>4, <2>1 DEF Receive, Accept
<1>5. ASSUME NEW h \in Handlers, HandlerStep(h) PROVE TypeInv'
  <2>1. CASE ResolveUnbound(h) \/ ResolveBound(h)
    <3>1. ActorsOK'
      BY <1>a, <2>1 DEF ResolveUnbound, ResolveBound, Goto, ActorsOK, Actors,
         Places, PlacesOK, HandlerOK, ToolOK, HandlerPlaces, ToolPlaces
    <3> QED BY <1>b, <2>1, <3>1 DEF ResolveUnbound, ResolveBound
  <2>8. CASE ReadForAnswer(h) \/ ReadForMark(h)
    <3>1. ActorsOK'
      BY <1>a, <2>8, HandlerReadOK DEF ReadForAnswer, ReadForMark, PlacesOK,
         HandlerOK
    <3> QED BY <1>b, <2>8, <3>1 DEF ReadForAnswer, ReadForMark
  <2>2. CASE ResolveTurnedAway(h) \/ AskAgain(h) \/ NothingToMark(h)
    <3>1. ActorsOK'
      BY <1>a, <2>2, FinishOK DEF ResolveTurnedAway, AskAgain, NothingToMark,
         Actors
    <3> QED
      BY <1>b, <2>2, <3>1 DEF ResolveTurnedAway, AskAgain, NothingToMark
  <2>3. ASSUME NEW r \in Row, Write(h, r) PROVE TypeInv'
    <3>1. ActorsOK' BY <1>a, <2>3, FinishOK DEF Write, Actors
    <3> QED BY <1>b, <2>3, <3>1 DEF Write, Upsert
  <2>4. CASE FirstContact(h) BY <2>3, <2>4, RowsWritten DEF FirstContact
  <2>5. seen[h] # NoRow => seen[h] \in Row BY DEF Actors
  <2>6. CASE TakeName(h) \/ TakePhone(h)
    <3>1. msg[h] \in Messages /\ seen[h] \in Row
      BY <2>5, <2>6 DEF TakeName, TakePhone, Answering, PlacesOK, HandlerOK
    <3> QED BY <2>3, <2>6, <3>1, RowsWritten DEF TakeName, TakePhone
  <2>7. CASE MarkSilently(h)
    <3>1. for[h] \in Tenants /\ seen[h] \in Row
      BY <2>5, <2>7 DEF MarkSilently, PlacesOK, HandlerOK
    <3>2. ActorsOK' BY <1>a, <2>7, FinishOK DEF MarkSilently, Actors
    <3>3. row' \in Row BY <2>7, <3>1, RowsWritten DEF MarkSilently, Upsert
    <3> QED BY <1>b, <2>7, <3>1, <3>2, <3>3 DEF MarkSilently
  <2> QED BY <1>5, <2>1, <2>2, <2>4, <2>6, <2>7, <2>8 DEF HandlerStep
<1>6. ASSUME NEW h \in Handlers, HandlerFails(h) PROVE TypeInv'
  <2>1. ActorsOK' BY <1>a, <1>6, FinishOK DEF HandlerFails, Actors
  <2> QED BY <1>b, <1>6, <2>1 DEF HandlerFails
<1>7. ASSUME NEW p \in Tools,
             Select(p) \/ SyncUser(p) \/ Unload(p) \/ ToolStep(p) \/ ToolFails(p)
      PROVE  TypeInv'
  <2>1. ASSUME NEW t \in Tenants, NEW place \in {"bind_admin", "bind_load"},
               Begin(p, t, place)
        PROVE  TypeInv'
    <3>1. ActorsOK'
      BY <1>a, <2>1, SMTT(30) DEF Begin, Goto, ActorsOK, Actors, Places, PlacesOK,
         HandlerOK, ToolOK, HandlerPlaces, ToolPlaces
    <3> QED BY <1>b, <2>1, <3>1 DEF Begin
  <2>2. CASE Select(p) \/ SyncUser(p) BY <2>1, <2>2 DEF Select, SyncUser
  <2>3. CASE Unload(p) BY <2>3 DEF Unload, PlacesOK, HandlerOK, ToolOK
  <2>4. CASE Bind(p)
    <3>1. ActorsOK'
      <4>1. /\ p \in Actors /\ p \notin Handlers
            /\ at[p] # "idle" /\ UNCHANGED <<msg, seen, for>>
            /\ \E place \in {"read_admin", "read_load"} : Goto(p, place)
        BY <2>4 DEF Bind, Actors
      <4>2. at' \in [Actors -> Places] BY <4>1 DEF Goto, Places
      <4>3. at'[p] \in {"read_admin", "read_load"} BY <4>1 DEF Goto
      <4>4. \A a \in Actors \ {p} : at'[a] = at[a] BY <4>1 DEF Goto
      <4>5. \A h \in Handlers : HandlerOK(h)'
        BY <1>a, <4>1, <4>4 DEF ActorsOK, PlacesOK, HandlerOK, Actors
      <4>6. \A q \in Tools : ToolOK(q)'
        BY <1>a, <4>1, <4>3, <4>4 DEF ActorsOK, PlacesOK, ToolOK, ToolPlaces, Actors
      <4> QED BY <1>a, <4>1, <4>2, <4>5, <4>6 DEF ActorsOK, PlacesOK
    <3>2. bound' \in Tenants \cup {NoTenant} BY <2>4 DEF Bind, Actors
    <3> QED BY <1>b, <2>4, <3>1, <3>2 DEF Bind
  <2>5. CASE ReadForAdmin(p) \/ ReadForLoad(p)
    <3>1. at[p] \in {"read_admin", "read_load"} /\ for[p] \in Tenants
      BY <2>5 DEF ReadForAdmin, ReadForLoad, PlacesOK, ToolOK
    <3>a. UNCHANGED <<row, bound, commands, faults, told, unsent, toolFrame>>
      BY <2>5 DEF ReadForAdmin, ReadForLoad
    <3>2. CASE Finish(p)
      BY <1>a, <1>b, <3>a, <3>2, FinishOK DEF Actors
    <3>3. CASE Read(p, "notify") \/ (Read(p, "write") /\ row # NoRow)
      <4>1. ActorsOK'
        BY <1>a, <3>1, <3>3, ToolReadOK
      <4> QED BY <1>b, <3>a, <4>1
    <3>4. CASE ReadForAdmin(p)
      <4>1. row = NoRow => Read(p, "notify") BY <3>4 DEF ReadForAdmin
      <4>2. row # NoRow => Read(p, "write") BY <3>4 DEF ReadForAdmin
      <4> QED BY <3>3, <4>1, <4>2
    <3>5. CASE ReadForLoad(p)
      <4>1. Finish(p) \/ (Read(p, "write") /\ row # NoRow) BY <3>5 DEF ReadForLoad
      <4> QED BY <3>2, <3>3, <4>1
    <3> QED BY <2>5, <3>4, <3>5
  <2>6. CASE MarkAndNotify(p)
    <3>1. for[p] \in Tenants /\ seen[p] \in Row
      BY <2>6 DEF MarkAndNotify, PlacesOK, ToolOK
    <3>2. ActorsOK'
      BY <1>a, <2>6 DEF MarkAndNotify, Goto, ActorsOK, Actors, Places, PlacesOK,
         HandlerOK, ToolOK, HandlerPlaces, ToolPlaces
    <3>3. row' \in Row BY <2>6, <3>1, RowsWritten DEF MarkAndNotify, Upsert
    <3> QED BY <1>b, <2>6, <3>2, <3>3 DEF MarkAndNotify
  <2>7. CASE Notify(p) \/ NoticeSkipped(p) \/ ToolFails(p)
    <3>1. for[p] \in Tenants
      BY <2>7 DEF Notify, NoticeSkipped, ToolFails, PlacesOK, ToolOK
    <3>2. ActorsOK' BY <1>a, <2>7, FinishOK DEF Notify, NoticeSkipped, ToolFails, Actors
    <3> QED BY <1>b, <2>7, <3>1, <3>2 DEF Notify, NoticeSkipped, ToolFails
  <2> QED BY <1>7, <2>2, <2>3, <2>4, <2>5, <2>6, <2>7 DEF ToolStep
<1>8. CASE Restart
  <2>1. ActorsOK'
    BY <1>a, <1>8 DEF Restart, ActorsOK, Actors, Places, PlacesOK, HandlerOK,
       ToolOK, HandlerPlaces, ToolPlaces
  <2>2. Len(accepted) \in Nat OBVIOUS
  <2> QED BY <1>b, <1>8, <2>1, <2>2 DEF Restart
<1>9. CASE UNCHANGED vars
  BY <1>9 DEF vars, PlacesOK, HandlerOK, ToolOK
<1> QED
  BY <1>1, <1>3, <1>4, <1>5, <1>6, <1>7, <1>8, <1>9 DEF Next

\* Every actor is at one of its places with what that place needs.
THEOREM TypeInvariance == Spec => []TypeInv
<1>1. Init => TypeInv
  BY DEF Init, TypeInv, TypeOK, PlacesOK, HandlerOK, ToolOK, HandlerPlaces,
     ToolPlaces, Places, Actors
<1> QED BY <1>1, TypeStep, PTL DEF Spec

\* The variables keep their types.
THEOREM TypeCorrect == Spec => []TypeOK
<1>1. TypeInv => TypeOK BY DEF TypeInv
<1> QED BY <1>1, TypeInvariance, PTL

-----------------------------------------------------------------------------
(* What a step may write into the row, keep of it in mind, and say.        *)

Named(r, m)  == [r EXCEPT !.name = m, !.status = "awaiting_phone"]
Phoned(r, m) == [r EXCEPT !.phone = m, !.status = "pending_admin"]

\* Its fields, and those of a row that is marked.
LEMMA Fields ==
    ASSUME NEW r \in Row, NEW m, NEW t
    PROVE  /\ Named(r, m) = [status |-> "awaiting_phone", name |-> m,
                             phone |-> r.phone, tenant |-> r.tenant]
           /\ Phoned(r, m) = [status |-> "pending_admin", name |-> r.name,
                              phone |-> m, tenant |-> r.tenant]
           /\ Marked(r, t) = [status |-> "provisioned", name |-> r.name,
                              phone |-> r.phone, tenant |-> t]
<1>1. Named(r, m) =
          [status |-> "awaiting_phone", name |-> m,
           phone |-> r.phone, tenant |-> r.tenant]
  <2>1. PICK q : q = [r EXCEPT !.name = m] OBVIOUS
  <2>2. q = [status |-> r.status, name |-> m,
             phone |-> r.phone, tenant |-> r.tenant]
    BY <2>1 DEF Row
  <2>3. [q EXCEPT !.status = "awaiting_phone"] =
            [status |-> "awaiting_phone", name |-> m,
             phone |-> r.phone, tenant |-> r.tenant]
    BY <2>2
  <2> QED BY <2>1, <2>3 DEF Named
<1>2. Phoned(r, m) =
          [status |-> "pending_admin", name |-> r.name,
           phone |-> m, tenant |-> r.tenant]
  <2>1. PICK q : q = [r EXCEPT !.phone = m] OBVIOUS
  <2>2. q = [status |-> r.status, name |-> r.name,
             phone |-> m, tenant |-> r.tenant]
    BY <2>1 DEF Row
  <2>3. [q EXCEPT !.status = "pending_admin"] =
            [status |-> "pending_admin", name |-> r.name,
             phone |-> m, tenant |-> r.tenant]
    BY <2>2
  <2> QED BY <2>1, <2>3 DEF Phoned
<1>3. Marked(r, t) =
          [status |-> "provisioned", name |-> r.name,
           phone |-> r.phone, tenant |-> t]
  <2>1. PICK q : q = [r EXCEPT !.status = "provisioned"] OBVIOUS
  <2>2. q = [status |-> "provisioned", name |-> r.name,
             phone |-> r.phone, tenant |-> r.tenant]
    BY <2>1 DEF Row
  <2>3. [q EXCEPT !.tenant = t] =
            [status |-> "provisioned", name |-> r.name,
             phone |-> r.phone, tenant |-> t]
    BY <2>2
  <2> QED BY <2>1, <2>3 DEF Marked
<1> QED BY <1>1, <1>2, <1>3

\* They are rows.
LEMMA Stages ==
    ASSUME NEW r \in Row
    PROVE  /\ \A m \in Messages :
                /\ Named(r, m) \in Row /\ Named(r, m).status = "awaiting_phone"
                /\ Phoned(r, m) \in Row /\ Phoned(r, m).status = "pending_admin"
           /\ \A t \in Tenants :
                Marked(r, t) \in Row /\ Marked(r, t).status = "provisioned"
  BY Fields DEF Row, Statuses

\* An answer is written by its handler, on top of the row as that has read it.
Answered(h) ==
    /\ at[h] = "answer" /\ at'[h] = "idle"
    /\ \/ seen[h] = NoRow /\ row' = Fresh
       \/ /\ seen[h] # NoRow /\ seen[h].status = "awaiting_username"
          /\ row' = Named(seen[h], msg[h])
       \/ /\ seen[h] # NoRow /\ seen[h].status = "awaiting_phone"
          /\ row' = Phoned(seen[h], msg[h])

\* So is a mark, by a handler that says nothing or by a tool that will.
MarkedBy(a) ==
    /\ at[a] \in {"mark", "write"} /\ at'[a] # at[a]
    /\ seen[a] # NoRow /\ for[a] \in Tenants
    /\ row' = Marked(seen[a], for[a])
    /\ \/ for[a] \in silently'
       \/ a \in Tools /\ at'[a] = "notify" /\ for'[a] = for[a]

RowStep ==
    \/ row' = row
    \/ \E h \in Handlers : Answered(h)
    \/ \E a \in Actors : MarkedBy(a)

SeenStep == \A a \in Actors : seen'[a] \in {seen[a], NoRow, row}

\* A notice that is due stays due until it is sent or lost.
NoticeStep ==
    /\ told \subseteq told' /\ silently \subseteq silently' /\ unsent \subseteq unsent'
    /\ \A p \in Tools : at[p] = "notify" =>
            \/ at'[p] = "notify" /\ for'[p] = for[p]
            \/ for[p] \in told' \cup unsent'

Shape == RowStep /\ SeenStep /\ NoticeStep

\* A step of one actor that leaves the row and the notices alone.
LEMMA QuietStep ==
    ASSUME TypeInv, NEW a \in Actors, at[a] # "notify",
           UNCHANGED <<row, told, silently, unsent>>,
           \A b \in Actors \ {a} :
                at'[b] = at[b] /\ seen'[b] = seen[b] /\ for'[b] = for[b],
           seen'[a] \in {seen[a], NoRow, row}
    PROVE  Shape
<1>1. \A b \in Actors : b = a \/ b \in Actors \ {a} OBVIOUS
<1>2. SeenStep BY <1>1 DEF SeenStep
<1>3. NoticeStep BY <1>1 DEF NoticeStep, Actors
<1> QED BY <1>2, <1>3 DEF Shape, RowStep

\* Who is done is forgotten, and nobody else.
LEMMA FinishFrame ==
    ASSUME TypeInv, NEW a \in Actors, Finish(a)
    PROVE  /\ \A b \in Actors \ {a} :
                    at'[b] = at[b] /\ seen'[b] = seen[b] /\ for'[b] = for[b]
           /\ at'[a] = "idle" /\ seen'[a] = NoRow
  BY DEF TypeInv, TypeOK, Finish, Goto

\* Every step has that shape.
LEMMA StepShape ==
    ASSUME TypeInv, [Next]_vars
    PROVE  Shape
<1> USE DEF actors, history, budget, handlerFrame, toolFrame
<1>0. ASSUME UNCHANGED <<row, at, seen, for, told, silently, unsent>> PROVE Shape
  BY <1>0 DEF Shape, RowStep, SeenStep, NoticeStep
<1>1. ASSUME NEW m \in Messages, ReceiveDuplicate(m) \/ ReceiveElsewhere(m)
      PROVE  Shape
  BY <1>0, <1>1 DEF ReceiveDuplicate, ReceiveElsewhere, Accept
<1>2. ASSUME NEW m \in Messages, NEW h \in Handlers, Receive(h, m) PROVE Shape
  <2>1. h \in Actors /\ at[h] # "notify" BY <1>2 DEF Actors, Receive
  <2> QED
    BY <1>2, <2>1, QuietStep DEF Receive, Accept, Goto, TypeInv, TypeOK
<1>3. ASSUME NEW h \in Handlers, HandlerStep(h) \/ HandlerFails(h) PROVE Shape
  <2>1. h \in Actors /\ h \notin Tools /\ at[h] # "notify"
    BY DEF Actors, TypeInv, PlacesOK, HandlerOK, HandlerPlaces
  <2>2. CASE ResolveUnbound(h) \/ ResolveBound(h) \/ ReadForAnswer(h)
             \/ ReadForMark(h)
    BY <2>1, <2>2, QuietStep DEF ResolveUnbound, ResolveBound, ReadForAnswer,
       ReadForMark, Read, Goto, TypeInv, TypeOK
  <2>3. CASE ResolveTurnedAway(h) \/ AskAgain(h) \/ NothingToMark(h)
             \/ HandlerFails(h)
    BY <2>1, <2>3, QuietStep, FinishFrame DEF ResolveTurnedAway, AskAgain,
       NothingToMark, HandlerFails
  <2>4. ASSUME Finish(h), UNCHANGED <<told, unsent>>, silently \subseteq silently'
        PROVE  SeenStep /\ NoticeStep
    <3>1. \A b \in Actors : b = h \/ b \in Actors \ {h} OBVIOUS
    <3>2. SeenStep BY <2>1, <2>4, <3>1, FinishFrame DEF SeenStep
    <3>3. NoticeStep BY <2>1, <2>4, <3>1, FinishFrame DEF NoticeStep, Actors
    <3> QED BY <3>2, <3>3
  <2>5. CASE FirstContact(h) \/ TakeName(h) \/ TakePhone(h)
    <3>1. Finish(h) /\ UNCHANGED <<told, unsent, silently>> /\ at[h] = "answer"
      BY <2>5 DEF FirstContact, TakeName, TakePhone, Write, Answering
    <3>2. Answered(h)
      BY <2>1, <2>5, <3>1, FinishFrame DEF FirstContact, TakeName, TakePhone,
         Write, Upsert, Answering, Answered, Named, Phoned
    <3> QED BY <2>4, <3>1, <3>2 DEF Shape, RowStep
  <2>6. CASE MarkSilently(h)
    <3>1. Finish(h) /\ UNCHANGED <<told, unsent>> /\ at[h] = "mark"
      BY <2>6 DEF MarkSilently
    <3>2. for[h] \in Tenants
      BY <3>1 DEF TypeInv, PlacesOK, HandlerOK
    <3>3. MarkedBy(h)
      BY <2>1, <2>6, <3>1, <3>2, FinishFrame DEF MarkSilently, MarkedBy, Upsert
    <3>4. silently \subseteq silently' BY <2>6 DEF MarkSilently
    <3> QED BY <2>1, <2>4, <3>1, <3>3, <3>4 DEF Shape, RowStep
  <2> QED BY <1>3, <2>2, <2>3, <2>5, <2>6 DEF HandlerStep
<1>4. ASSUME NEW p \in Tools,
             Select(p) \/ SyncUser(p) \/ Unload(p) \/ ToolStep(p) \/ ToolFails(p)
      PROVE  Shape
  <2>1. p \in Actors BY DEF Actors
  <2>2. ASSUME NEW t \in Tenants, NEW place \in ToolPlaces, Begin(p, t, place)
        PROVE  Shape
    BY <2>1, <2>2, QuietStep DEF Begin, Goto, TypeInv, TypeOK
  <2>3. CASE Select(p) \/ SyncUser(p)
    BY <2>2, <2>3 DEF Select, SyncUser, ToolPlaces
  <2>4. CASE Unload(p) BY <1>0, <2>4 DEF Unload
  <2>5. CASE Bind(p)
    BY <2>1, <2>5, QuietStep DEF Bind, Goto, TypeInv, TypeOK
  <2>6. CASE ReadForAdmin(p) \/ ReadForLoad(p)
    <3>1. /\ at[p] # "notify" /\ UNCHANGED <<row, told, silently, unsent>>
          /\ Finish(p) \/ \E place \in ToolPlaces : Read(p, place)
      BY <2>6 DEF ReadForAdmin, ReadForLoad, ToolPlaces
    <3>2. CASE Finish(p) BY <2>1, <3>1, <3>2, QuietStep, FinishFrame
    <3>3. ASSUME NEW place \in ToolPlaces, Read(p, place) PROVE Shape
      BY <2>1, <3>1, <3>3, QuietStep DEF Read, Goto, TypeInv, TypeOK
    <3> QED BY <3>1, <3>2, <3>3
  <2>7. CASE MarkAndNotify(p)
    <3>1. /\ at[p] = "write" /\ at' = [at EXCEPT ![p] = "notify"]
          /\ row' = Marked(seen[p], for[p])
          /\ UNCHANGED <<seen, for, told, silently, unsent>>
      BY <2>7 DEF MarkAndNotify, Goto, Upsert
    <3>2. for[p] \in Tenants /\ seen[p] # NoRow
      BY <3>1 DEF TypeInv, PlacesOK, ToolOK
    <3>3. MarkedBy(p) BY <2>1, <3>1, <3>2 DEF MarkedBy, TypeInv, TypeOK
    <3>4. SeenStep /\ NoticeStep
      BY <2>1, <3>1 DEF SeenStep, NoticeStep, TypeInv, TypeOK, Actors
    <3> QED BY <2>1, <3>3, <3>4 DEF Shape, RowStep
  <2>8. CASE Notify(p) \/ NoticeSkipped(p) \/ ToolFails(p)
    <3>1. /\ Finish(p) /\ UNCHANGED <<row, silently>>
          /\ told \subseteq told' /\ unsent \subseteq unsent'
          /\ at[p] = "notify" => for[p] \in told' \cup unsent'
      BY <2>8 DEF Notify, NoticeSkipped, ToolFails
    <3>2. \A b \in Actors : b = p \/ b \in Actors \ {p} OBVIOUS
    <3>3. SeenStep BY <2>1, <3>1, <3>2, FinishFrame DEF SeenStep
    <3>4. NoticeStep BY <2>1, <3>1, <3>2, FinishFrame DEF NoticeStep, Actors
    <3> QED BY <3>1, <3>3, <3>4 DEF Shape, RowStep
  <2> QED BY <1>4, <2>3, <2>4, <2>5, <2>6, <2>7, <2>8 DEF ToolStep
<1>5. CASE Restart
  BY <1>5 DEF Restart, Shape, RowStep, SeenStep, NoticeStep, TypeInv, TypeOK, Actors
<1>6. CASE UNCHANGED vars BY <1>0, <1>6 DEF vars
<1> QED BY <1>1, <1>2, <1>3, <1>4, <1>5, <1>6 DEF Next

-----------------------------------------------------------------------------
(* Who is provisioned is told.                                             *)

\* A chat whose row says provisioned has been told, or will be.
THEOREM NobodyForgotten == Spec => []NobodyIsForgotten
<1>1. Init => NobodyIsForgotten BY DEF Init, NobodyIsForgotten
<1>2. TypeInv /\ NobodyIsForgotten /\ [Next]_vars => NobodyIsForgotten'
  <2> SUFFICES ASSUME TypeInv, NobodyIsForgotten, [Next]_vars,
                      row' # NoRow, row'.status = "provisioned"
               PROVE  \/ row'.tenant \in told' \cup silently' \cup unsent'
                      \/ \E p \in Tools : at'[p] = "notify" /\ for'[p] = row'.tenant
    BY DEF NobodyIsForgotten
  <2>1. RowStep /\ NoticeStep BY StepShape DEF Shape
  <2>2. CASE row' = row BY <2>1, <2>2 DEF NobodyIsForgotten, NoticeStep
  <2>3. ASSUME NEW h \in Handlers, Answered(h) PROVE FALSE
    <3>1. seen[h] = NoRow \/ seen[h] \in Row BY DEF TypeInv, TypeOK, Actors
    <3> QED BY <2>3, <3>1, Fields DEF Answered, Fresh
  <2>4. ASSUME NEW a \in Actors, MarkedBy(a)
        PROVE  \/ row'.tenant \in silently'
               \/ \E p \in Tools : at'[p] = "notify" /\ for'[p] = row'.tenant
    <3>1. seen[a] \in Row BY <2>4 DEF MarkedBy, TypeInv, TypeOK
    <3>2. row'.tenant = for[a] BY <2>4, <3>1 DEF MarkedBy, Marked, Row
    <3> QED BY <2>4, <3>2 DEF MarkedBy
  <2> QED BY <2>1, <2>2, <2>3, <2>4 DEF RowStep
<1> QED BY <1>1, <1>2, TypeInvariance, PTL DEF Spec

-----------------------------------------------------------------------------
(* A row is one version, the one in the table and those in mind.           *)

IsVersion(r) == r # NoRow => OneVersion(r)

VersionsOK ==
    /\ IsVersion(row)
    /\ \A a \in Actors : IsVersion(seen[a])

\* What is written on top of a version is a version.
LEMMA VersionsWritten ==
    /\ OneVersion(Fresh)
    /\ \A r \in Row, m \in Messages : OneVersion(r) =>
            /\ r.status = "awaiting_username" => OneVersion(Named(r, m))
            /\ r.status = "awaiting_phone" => OneVersion(Phoned(r, m))
    /\ \A r \in Row, t \in Tenants : OneVersion(r) => OneVersion(Marked(r, t))
  BY DEF OneVersion, Fresh, Named, Phoned, Marked, Row

\* Nobody has a mixture of two versions in mind.
THEOREM VersionInvariance == Spec => []VersionsOK
<1>1. Init => VersionsOK BY DEF Init, VersionsOK, IsVersion
<1>2. TypeInv /\ VersionsOK /\ [Next]_vars => VersionsOK'
  <2> SUFFICES ASSUME TypeInv, VersionsOK, [Next]_vars PROVE VersionsOK'
    OBVIOUS
  <2>1. RowStep /\ SeenStep BY StepShape DEF Shape
  <2>2. \A a \in Actors : IsVersion(seen'[a])
    BY <2>1 DEF SeenStep, VersionsOK, IsVersion
  <2>3. \A a \in Actors : seen[a] # NoRow => seen[a] \in Row /\ OneVersion(seen[a])
    BY DEF TypeInv, TypeOK, VersionsOK, IsVersion
  <2>4. ASSUME row' = row PROVE IsVersion(row')
    BY <2>4 DEF VersionsOK, IsVersion
  <2>5. ASSUME NEW h \in Handlers, Answered(h) PROVE OneVersion(row')
    <3>1. h \in Actors /\ msg[h] \in Messages
      BY <2>5 DEF Answered, Actors, TypeInv, PlacesOK, HandlerOK
    <3> QED BY <2>3, <2>5, <3>1, VersionsWritten DEF Answered
  <2>6. ASSUME NEW a \in Actors, MarkedBy(a) PROVE OneVersion(row')
    BY <2>3, <2>6, VersionsWritten DEF MarkedBy
  <2>7. IsVersion(row') BY <2>1, <2>4, <2>5, <2>6 DEF RowStep, IsVersion
  <2> QED BY <2>2, <2>7 DEF VersionsOK, IsVersion, OneVersion, Fresh
<1> QED BY <1>1, <1>2, TypeInvariance, PTL DEF Spec

\* A row that says pending_admin is complete and nobody's.
THEOREM RowsAreVersions == Spec => []RowIsOneVersion
<1>1. VersionsOK => RowIsOneVersion BY DEF VersionsOK, IsVersion, RowIsOneVersion
<1> QED BY <1>1, VersionInvariance, PTL

-----------------------------------------------------------------------------
(* A registration goes back only when a later version is overwritten.      *)

\* The stages of a registration, compared.
LEMMA Ranks ==
    /\ Rank(NoRow) = 0
    /\ \A r \in Row :
        /\ Rank(r) \in 1 .. 4
        /\ r.status = "awaiting_username" => Rank(r) = 1
        /\ r.status = "awaiting_phone" => Rank(r) = 2
        /\ r.status = "pending_admin" => Rank(r) = 3
        /\ r.status = "provisioned" => Rank(r) = 4
<1> SUFFICES ASSUME NEW r \in Row
             PROVE  /\ Rank(r) \in 1 .. 4
                    /\ r.status = "awaiting_username" => Rank(r) = 1
                    /\ r.status = "awaiting_phone" => Rank(r) = 2
                    /\ r.status = "pending_admin" => Rank(r) = 3
                    /\ r.status = "provisioned" => Rank(r) = 4
  BY DEF Rank
<1>1. r # NoRow /\ r.status \in Statuses BY DEF Row
<1> QED BY <1>1 DEF Rank, Statuses

\* Whoever has read the row since it was last written moves it forward.
THEOREM BackwardsIsLostUpdate == Spec => BackwardsOnlyByLostUpdate
<1> DEFINE Forward ==
        Rank(row') < Rank(row) =>
            \E a \in Actors : at[a] \in {"answer", "mark", "write"} /\ at'[a] # at[a]
                              /\ seen[a] # row
<1>1. TypeInv /\ [Next]_vars => Forward
  <2> SUFFICES ASSUME TypeInv, [Next]_vars, Rank(row') < Rank(row)
               PROVE  \E a \in Actors :
                        /\ at[a] \in {"answer", "mark", "write"} /\ at'[a] # at[a]
                        /\ seen[a] # row
    OBVIOUS
  <2>1. RowStep BY StepShape DEF Shape
  <2>2. Rank(row) \in 0 .. 4 BY Ranks DEF TypeInv, TypeOK
  <2>3. row' # row BY <2>2
  <2>4. ASSUME NEW h \in Handlers, Answered(h)
        PROVE  h \in Actors /\ seen[h] # row
    <3>1. h \in Actors /\ msg[h] \in Messages
      BY <2>4 DEF Answered, Actors, TypeInv, PlacesOK, HandlerOK
    <3>2. SUFFICES ASSUME seen[h] = row PROVE FALSE BY <3>1
    <3>3. CASE seen[h] = NoRow
      <4>1. Fresh \in Row /\ Fresh.status = "awaiting_username"
        BY RowsWritten DEF Fresh
      <4>2. row' = Fresh BY <2>4, <3>3 DEF Answered
      <4>3. Rank(row') = 1 BY <4>1, <4>2, Ranks
      <4>4. Rank(row) = 0 BY <3>2, <3>3, Ranks
      <4> QED BY <4>3, <4>4
    <3>4. CASE seen[h] # NoRow
      <4>1. seen[h] \in Row BY <3>1, <3>4 DEF TypeInv, TypeOK
      <4>2. /\ Named(seen[h], msg[h]) \in Row
            /\ Named(seen[h], msg[h]).status = "awaiting_phone"
            /\ Phoned(seen[h], msg[h]) \in Row
            /\ Phoned(seen[h], msg[h]).status = "pending_admin"
        BY <3>1, <4>1, Stages
      <4> QED BY <2>4, <3>2, <3>4, <4>1, <4>2, Ranks DEF Answered
    <3> QED BY <3>3, <3>4
  <2>5. ASSUME NEW a \in Actors, MarkedBy(a) PROVE FALSE
    <3>1. seen[a] \in Row /\ for[a] \in Tenants
      BY <2>5 DEF MarkedBy, TypeInv, TypeOK
    <3>2. row' \in Row /\ row'.status = "provisioned"
      BY <2>5, <3>1, Stages DEF MarkedBy
    <3>3. Rank(row') = 4 BY <3>2, Ranks
    <3> QED BY <2>2, <3>3
  <2>6. ASSUME NEW h \in Handlers, Answered(h)
        PROVE  at[h] \in {"answer", "mark", "write"} /\ at'[h] # at[h]
    BY <2>6 DEF Answered
  <2> QED BY <2>1, <2>3, <2>4, <2>5, <2>6 DEF RowStep
<1> QED BY <1>1, TypeInvariance, PTL DEF Spec, BackwardsOnlyByLostUpdate

-----------------------------------------------------------------------------
(* The window of messages.                                                 *)

\* What a step does to the messages: nothing but let a handler be done, lose
\* all handlers, or let one more message in.
HandlersGoOn ==
    /\ UNCHANGED accepted
    /\ \A h \in Handlers :
            at'[h] = "idle" \/ (at[h] # "idle" /\ msg'[h] = msg[h])

LetIn(m) ==
    /\ Accept(m)
    /\ UNCHANGED <<row, seen>>
    /\ \/ UNCHANGED <<at, msg>>
       \/ \E h \in Handlers :
            /\ at[h] = "idle"
            /\ at' = [at EXCEPT ![h] = "resolve"]
            /\ msg' = [msg EXCEPT ![h] = m]

MessageStep ==
    \/ HandlersGoOn /\ (UNCHANGED <<recent, booted>> \/ Restart)
    \/ \E m \in Messages : LetIn(m)

\* Every step moves messages in one of these ways.
LEMMA StepOfMessages ==
    ASSUME TypeInv, [Next]_vars
    PROVE  MessageStep
<1> USE DEF actors, history, budget, handlerFrame, toolFrame
<1>0. ASSUME UNCHANGED <<recent, accepted, booted, at, msg>> PROVE MessageStep
  BY <1>0 DEF MessageStep, HandlersGoOn
<1>1. ASSUME UNCHANGED <<recent, accepted, booted>>, NEW a \in Actors,
             Finish(a) \/ (UNCHANGED msg /\ \E place \in Places : Goto(a, place)),
             a \in Tools \/ at[a] # "idle"
      PROVE  MessageStep
  <2>1. HandlersGoOn
    BY <1>1 DEF HandlersGoOn, Finish, Goto, TypeInv, TypeOK, Actors
  <2> QED BY <1>1, <2>1 DEF MessageStep
<1>2. ASSUME NEW m \in Messages,
             ReceiveElsewhere(m) \/ \E h \in Handlers : Receive(h, m)
      PROVE  MessageStep
  BY <1>2 DEF ReceiveElsewhere, Receive, LetIn, Goto, Accept, MessageStep
<1>3. ASSUME NEW h \in Handlers, HandlerStep(h) \/ HandlerFails(h)
      PROVE  MessageStep
  <2>1. UNCHANGED <<recent, accepted, booted>> /\ at[h] # "idle"
    BY <1>3 DEF HandlerStep, HandlerFails, ResolveUnbound, ResolveTurnedAway,
       ResolveBound, ReadForAnswer, FirstContact, TakeName, TakePhone, AskAgain,
       ReadForMark, NothingToMark, MarkSilently, Write, Answering
  <2>2. Finish(h) \/ (UNCHANGED msg /\ \E place \in Places : Goto(h, place))
    BY <1>3 DEF HandlerStep, HandlerFails, ResolveUnbound, ResolveTurnedAway,
       ResolveBound, ReadForAnswer, FirstContact, TakeName, TakePhone, AskAgain,
       ReadForMark, NothingToMark, MarkSilently, Write, Read, Places
  <2> QED BY <1>1, <2>1, <2>2 DEF Actors
<1>4. ASSUME NEW p \in Tools,
             Select(p) \/ SyncUser(p) \/ Unload(p) \/ ToolStep(p) \/ ToolFails(p)
      PROVE  MessageStep
  <2>1. CASE Unload(p) BY <1>0, <2>1 DEF Unload
  <2>2. CASE Select(p) \/ SyncUser(p)
    <3>1. /\ UNCHANGED <<recent, accepted, booted, msg>>
          /\ \E place \in Places : Goto(p, place)
      BY <2>2 DEF Select, SyncUser, Begin, Places
    <3> QED BY <1>1, <3>1 DEF Actors
  <2>3. CASE ToolStep(p) \/ ToolFails(p)
    <3>1. UNCHANGED <<recent, accepted, booted>>
      BY <2>3 DEF ToolStep, ToolFails, Bind, ReadForAdmin, ReadForLoad,
         MarkAndNotify, Notify, NoticeSkipped
    <3>2. Finish(p) \/ (UNCHANGED msg /\ \E place \in Places : Goto(p, place))
      BY <2>3 DEF ToolStep, ToolFails, Bind, ReadForAdmin, ReadForLoad,
         MarkAndNotify, Notify, NoticeSkipped, Read, Places
    <3> QED BY <1>1, <3>1, <3>2 DEF Actors
  <2> QED BY <1>4, <2>1, <2>2, <2>3
<1>5. CASE Restart
  BY <1>5 DEF Restart, MessageStep, HandlersGoOn, Actors
<1>6. CASE UNCHANGED vars BY <1>0, <1>6 DEF vars
<1>7. ASSUME NEW m \in Messages, ReceiveDuplicate(m) PROVE MessageStep
  BY <1>0, <1>7 DEF ReceiveDuplicate
<1> QED BY <1>2, <1>3, <1>4, <1>5, <1>6, <1>7 DEF Next

\* The window holds the last messages that were let in, as many as fit or as
\* there are since the bot was started.
WindowOK ==
    /\ Len(recent) <= Window
    /\ Len(recent) <= Len(accepted) - booted
    /\ Len(recent) < Window => Len(recent) = Len(accepted) - booted
    /\ \A k \in 1 .. Len(recent) :
            recent[k] = accepted[Len(accepted) - Len(recent) + k]

\* Letting a message in keeps the window.
LEMMA WindowKept ==
    ASSUME TypeOK, WindowOK, NEW m \in Messages, Accept(m)
    PROVE  WindowOK'
<1> DEFINE s == Append(recent, m)
<1>1. /\ recent \in Seq(Messages) /\ accepted \in Seq(Messages)
      /\ Len(recent) \in Nat /\ Len(accepted) \in Nat
      /\ booted \in Nat /\ Window \in Nat \ {0}
  BY DEF TypeOK
<1>2. /\ accepted' = Append(accepted, m) /\ booted' = booted
      /\ recent' = IF Len(recent) + 1 > Window THEN Tail(s) ELSE s
  BY DEF Accept, Remember
<1>3. /\ Len(accepted') = Len(accepted) + 1
      /\ accepted'[Len(accepted) + 1] = m
      /\ \A i \in 1 .. Len(accepted) : accepted'[i] = accepted[i]
  BY <1>1, <1>2
<1>4. /\ s \in Seq(Messages) /\ Len(s) = Len(recent) + 1 /\ s # << >>
      /\ \A k \in 1 .. Len(s) : s[k] = accepted'[Len(accepted') - Len(s) + k]
  <2>1. /\ s \in Seq(Messages) /\ Len(s) = Len(recent) + 1 /\ s # << >>
        /\ s[Len(recent) + 1] = m
        /\ \A k \in 1 .. Len(recent) : s[k] = recent[k]
    BY <1>1
  <2>2. ASSUME NEW k \in 1 .. Len(recent)
        PROVE  s[k] = accepted'[Len(accepted') - Len(s) + k]
    <3>1. Len(accepted') - Len(s) + k = Len(accepted) - Len(recent) + k
      BY <1>1, <1>3, <2>1
    <3>2. Len(accepted) - Len(recent) + k \in 1 .. Len(accepted)
      BY <1>1 DEF WindowOK
    <3> QED BY <1>3, <2>1, <3>1, <3>2 DEF WindowOK
  <2>3. Len(accepted') - Len(s) + (Len(recent) + 1) = Len(accepted) + 1
    BY <1>1, <1>3, <2>1
  <2> HIDE DEF s
  <2>4. \A k \in 1 .. Len(s) : k \in 1 .. Len(recent) \/ k = Len(recent) + 1
    BY <1>1, <2>1
  <2> QED BY <1>3, <2>1, <2>2, <2>3, <2>4
<1> HIDE DEF s
<1>7. /\ Len(s) = Len(recent) + 1 /\ Len(accepted') = Len(accepted) + 1
      /\ Len(recent) <= Window /\ Len(recent) <= Len(accepted) - booted
      /\ Len(recent) < Window => Len(recent) = Len(accepted) - booted
  BY <1>3, <1>4 DEF WindowOK
<1>5. CASE Len(recent) + 1 > Window
  <2>1. Len(recent) = Window /\ Len(s) = Window + 1
    BY <1>1, <1>4, <1>5 DEF WindowOK
  <2>2. /\ recent' = Tail(s) /\ Len(recent') = Window
        /\ \A k \in 1 .. Len(recent') : recent'[k] = s[k + 1]
    BY <1>1, <1>2, <1>4, <1>5, <2>1
  <2>3. \A k \in 1 .. Len(recent') :
            /\ k + 1 \in 1 .. Len(s)
            /\ Len(accepted') - Len(s) + (k + 1) = Len(accepted') - Len(recent') + k
    <3>1. /\ Len(accepted) \in Nat /\ Window \in Nat /\ Len(s) = Window + 1
          /\ Len(recent') = Window /\ Len(accepted') = Len(accepted) + 1
      BY <1>1, <1>7, <2>1, <2>2
    <3> QED BY <3>1
  <2>4. \A k \in 1 .. Len(recent') :
            recent'[k] = accepted'[Len(accepted') - Len(recent') + k]
    BY <1>4, <2>2, <2>3
  <2>5. Len(recent') <= Len(accepted') - booted'
    <3>1. booted' = booted /\ Len(recent') = Window BY <1>2, <2>2
    <3>2. Len(recent) <= Len(accepted) - booted BY <1>7
    <3>3. Len(accepted') = Len(accepted) + 1 BY <1>7
    <3> QED BY <1>1, <2>1, <3>1, <3>2, <3>3
  <2>6. Len(recent') <= Window /\ ~(Len(recent') < Window)
    BY <1>1, <2>2
  <2> QED BY <2>4, <2>5, <2>6 DEF WindowOK
<1>6. CASE ~(Len(recent) + 1 > Window)
  <2>1. recent' = s BY <1>2, <1>6
  <2>2. Len(recent) < Window BY <1>1, <1>6
  <2>3. /\ Len(recent') <= Window
        /\ Len(recent') = Len(accepted') - booted'
        /\ Len(recent') <= Len(accepted') - booted'
    <3>1. booted' = booted /\ Len(recent') = Len(recent) + 1 BY <1>2, <1>7, <2>1
    <3> QED BY <1>1, <1>7, <2>2, <3>1
  <2>4. \A k \in 1 .. Len(recent') :
            recent'[k] = accepted'[Len(accepted') - Len(recent') + k]
    BY <1>4, <2>1, Zenon
  <2> QED BY <2>3, <2>4, Zenon DEF WindowOK
<1> QED BY <1>5, <1>6

\* A message that is not in the window is let in far behind its last copy.
LEMMA FarBehind ==
    ASSUME TypeOK, WindowOK, NEW m \in Messages, ~IsDuplicate(m),
           NEW i \in booted + 1 .. Len(accepted), accepted[i] = m
    PROVE  Len(accepted) + 1 - i > Window
<1>1. /\ Len(recent) \in Nat /\ Len(accepted) \in Nat
      /\ booted \in Nat /\ Window \in Nat /\ i \in Nat
  BY DEF TypeOK
<1>2. ASSUME i > Len(accepted) - Len(recent) PROVE FALSE
  <2> DEFINE k == i - (Len(accepted) - Len(recent))
  <2>1. k \in 1 .. Len(recent) /\ Len(accepted) - Len(recent) + k = i
    BY <1>1, <1>2
  <2>2. recent[k] = m BY <2>1 DEF WindowOK
  <2> QED BY <2>1, <2>2 DEF IsDuplicate
<1>3. Len(recent) = Window BY <1>1, <1>2 DEF WindowOK
<1> QED BY <1>1, <1>2, <1>3

\* A message comes twice only after a restart or behind Window others.
THEOREM WindowHolds == Spec => []DedupWindow
<1>1. Init => WindowOK /\ DedupWindow
  BY DEF Init, WindowOK, DedupWindow
<1>2. TypeInv /\ WindowOK /\ DedupWindow /\ [Next]_vars => WindowOK' /\ DedupWindow'
  <2> SUFFICES ASSUME TypeInv, WindowOK, DedupWindow, [Next]_vars
               PROVE  WindowOK' /\ DedupWindow'
    OBVIOUS
  <2>1. MessageStep BY StepOfMessages
  <2>2. CASE UNCHANGED <<recent, booted, accepted>>
    BY <2>2 DEF WindowOK, DedupWindow
  <2>3. CASE Restart
    <3>1. recent' = << >> /\ booted' = Len(accepted) /\ accepted' = accepted
      BY <2>3 DEF Restart
    <3>2. Len(accepted) \in Nat BY DEF TypeInv, TypeOK
    <3> QED BY <3>1, <3>2 DEF WindowOK, DedupWindow
  <2>4. ASSUME NEW m \in Messages, LetIn(m) PROVE WindowOK' /\ DedupWindow'
    <3>1. Accept(m) /\ ~IsDuplicate(m) /\ booted' = booted
      BY <2>4 DEF LetIn, Accept
    <3>2. /\ accepted \in Seq(Messages) /\ accepted' = Append(accepted, m)
          /\ Len(accepted) \in Nat /\ booted \in Nat
      BY <3>1 DEF Accept, TypeInv, TypeOK
    <3>3. /\ Len(accepted') = Len(accepted) + 1
          /\ accepted'[Len(accepted) + 1] = m
          /\ \A i \in 1 .. Len(accepted) : accepted'[i] = accepted[i]
      BY <3>2
    <3>4. SUFFICES ASSUME NEW i \in booted + 1 .. Len(accepted'),
                          NEW j \in booted + 1 .. Len(accepted'),
                          i < j, accepted'[i] = accepted'[j]
                   PROVE  j - i > Window
      BY <3>1, WindowKept DEF DedupWindow, TypeInv
    <3>5. i \in booted + 1 .. Len(accepted) /\ accepted'[i] = accepted[i]
      BY <3>2, <3>3, <3>4
    <3>6. CASE j = Len(accepted) + 1
      <4>1. accepted[i] = m BY <3>3, <3>4, <3>5, <3>6
      <4>2. Len(accepted) + 1 - i > Window BY <3>1, <3>5, <4>1, FarBehind DEF TypeInv
      <4> QED BY <3>6, <4>2
    <3>7. CASE j # Len(accepted) + 1
      <4>1. j \in booted + 1 .. Len(accepted) /\ accepted'[j] = accepted[j]
        BY <3>2, <3>3, <3>7
      <4> QED BY <3>4, <3>5, <4>1 DEF DedupWindow
    <3> QED BY <3>6, <3>7
  <2> QED BY <2>1, <2>2, <2>3, <2>4 DEF MessageStep, HandlersGoOn
<1> QED BY <1>1, <1>2, TypeInvariance, PTL DEF Spec

-----------------------------------------------------------------------------
(* The name and the phone number are two messages.                         *)

Occurs(m) == \E i \in 1 .. Len(accepted) : accepted[i] = m

HandledBy(h, m) == at[h] # "idle" /\ msg[h] = m

\* The name in a row is a message that is no longer handled.
NameOK(r) ==
    r # NoRow /\ r.name # NoMessage =>
        /\ Occurs(r.name)
        /\ \A h \in Handlers : HandledBy(h, r.name) => Twice(r.name)
        /\ r.name = r.phone => Twice(r.name)

HandledOK ==
    /\ \A h \in Handlers : at[h] # "idle" => Occurs(msg[h])
    /\ \A g, h \in Handlers :
            g # h /\ HandledBy(g, msg[h]) /\ at[h] # "idle" => Twice(msg[h])

AnswersOK ==
    /\ HandledOK
    /\ NameOK(row)
    /\ \A a \in Actors : NameOK(seen[a])

\* One message more: what occurred occurs, and what comes again is there twice.
LEMMA LetInTwice ==
    ASSUME TypeOK, NEW m \in Messages, Accept(m)
    PROVE  /\ \A x : Occurs(x) => Occurs(x)'
           /\ \A x : Twice(x) => Twice(x)'
           /\ Occurs(m)'
           /\ Occurs(m) => Twice(m)'
<1>1. accepted \in Seq(Messages) /\ accepted' = Append(accepted, m)
  BY DEF TypeOK, Accept
<1>2. /\ Len(accepted) \in Nat /\ Len(accepted') = Len(accepted) + 1
      /\ accepted'[Len(accepted')] = m
      /\ \A i \in 1 .. Len(accepted) :
            i \in 1 .. Len(accepted') /\ i < Len(accepted') /\ accepted'[i] = accepted[i]
  BY <1>1
<1>3. Len(accepted') \in 1 .. Len(accepted') BY <1>2
<1> QED BY <1>2, <1>3 DEF Occurs, Twice

\* A message that is let in keeps all that.
LEMMA LetInKeeps ==
    ASSUME TypeInv, AnswersOK, NEW m \in Messages, LetIn(m)
    PROVE  AnswersOK'
<1>1. /\ Accept(m) /\ UNCHANGED <<row, seen>>
      /\ \A x : Occurs(x) => Occurs(x)'
      /\ \A x : Twice(x) => Twice(x)'
      /\ Occurs(m)'
      /\ Occurs(m) => Twice(m)'
  BY LetInTwice DEF LetIn, TypeInv
<1>2. \A h \in Handlers : \A x : HandledBy(h, x)' => HandledBy(h, x) \/ x = m
  BY DEF LetIn, HandledBy, TypeInv, TypeOK, Actors
<1>3. \A h \in Handlers : at'[h] # "idle" =>
            \/ at[h] # "idle" /\ msg'[h] = msg[h]
            \/ at[h] = "idle" /\ msg'[h] = m
  BY DEF LetIn, TypeInv, TypeOK, Actors
<1>4. ASSUME NEW r, NameOK(r) PROVE NameOK(r)'
  <2>1. SUFFICES ASSUME r # NoRow, r.name # NoMessage
                 PROVE  /\ Occurs(r.name)'
                        /\ \A h \in Handlers : HandledBy(h, r.name)' => Twice(r.name)'
                        /\ r.name = r.phone => Twice(r.name)'
    BY DEF NameOK
  <2> QED BY <1>1, <1>2, <1>4, <2>1 DEF NameOK
<1>5. NameOK(row)' /\ \A a \in Actors : NameOK(seen[a])'
  BY <1>1, <1>4 DEF AnswersOK, NameOK
<1>6. \A h \in Handlers : at'[h] # "idle" => Occurs(msg[h])'
  BY <1>1, <1>3 DEF AnswersOK, HandledOK, Occurs
<1>7. ASSUME NEW g \in Handlers, NEW h \in Handlers,
             g # h, at'[g] # "idle", at'[h] # "idle", msg'[g] = msg'[h]
      PROVE  Twice(msg[h])'
  <2>1. CASE at[g] # "idle" /\ at[h] # "idle"
    <3>1. Twice(msg[h])
      BY <1>3, <1>7, <2>1 DEF AnswersOK, HandledOK, HandledBy
    <3> QED BY <1>1, <1>3, <1>7, <2>1, <3>1 DEF Twice
  <2>2. CASE at[g] = "idle" \/ at[h] = "idle"
    <3>1. msg'[h] = m BY <1>3, <1>7, <2>2
    <3>2. at[g] # "idle" \/ at[h] # "idle"
      BY <1>7 DEF LetIn, TypeInv, TypeOK, Actors
    <3>3. Occurs(m)
      BY <1>3, <1>7, <3>1, <3>2 DEF AnswersOK, HandledOK
    <3> QED BY <1>1, <3>1, <3>3 DEF Twice
  <2> QED BY <2>1, <2>2
<1>8. HandledOK' BY <1>6, <1>7 DEF HandledOK, HandledBy
<1> QED BY <1>5, <1>8 DEF AnswersOK

\* The rest of the steps let handlers go and write what was read.
LEMMA WritingKeeps ==
    ASSUME TypeInv, VersionsOK, AnswersOK, HandlersGoOn, RowStep, SeenStep
    PROVE  AnswersOK'
<1>1. \A x : (Occurs(x)' <=> Occurs(x)) /\ (Twice(x)' <=> Twice(x))
  BY DEF HandlersGoOn, Occurs, Twice
<1>2. \A h \in Handlers : \A x : HandledBy(h, x)' => HandledBy(h, x)
  BY DEF HandlersGoOn, HandledBy
<1>3. ASSUME NEW r, NameOK(r) PROVE NameOK(r)'
  <2>1. SUFFICES ASSUME r # NoRow, r.name # NoMessage
                 PROVE  /\ Occurs(r.name)'
                        /\ \A h \in Handlers : HandledBy(h, r.name)' => Twice(r.name)'
                        /\ r.name = r.phone => Twice(r.name)'
    BY DEF NameOK
  <2> QED BY <1>1, <1>2, <1>3, <2>1 DEF NameOK
<1>4. HandledOK'
  <2>1. \A h \in Handlers : at'[h] # "idle" => at[h] # "idle" /\ msg'[h] = msg[h]
    BY DEF HandlersGoOn
  <2>2. accepted' = accepted BY DEF HandlersGoOn
  <2> QED BY <2>1, <2>2 DEF AnswersOK, HandledOK, HandledBy, Occurs, Twice
<1>5. \A a \in Actors : NameOK(seen[a])'
  <2> SUFFICES ASSUME NEW a \in Actors PROVE NameOK(seen[a])' OBVIOUS
  <2>1. NameOK(row) /\ NameOK(seen[a]) BY DEF AnswersOK
  <2>2. seen'[a] \in {seen[a], NoRow, row} BY DEF SeenStep
  <2>3. accepted' = accepted BY DEF HandlersGoOn
  <2> QED BY <1>2, <2>1, <2>2, <2>3 DEF NameOK, Occurs, Twice
<1>6. NameOK(row)'
  <2>1. ASSUME NEW r, NameOK(r), row' = r PROVE NameOK(row)'
    BY <1>3, <2>1 DEF NameOK
  <2>2. CASE row' = row BY <2>1, <2>2 DEF AnswersOK
  <2>3. ASSUME NEW n, NEW p, row'.name = n, row'.phone = p,
               n # NoMessage =>
                    /\ Occurs(n)
                    /\ \A g \in Handlers : HandledBy(g, n)' => Twice(n)
                    /\ n = p => Twice(n)
        PROVE  NameOK(row)'
    <3>1. accepted' = accepted BY DEF HandlersGoOn
    <3> QED BY <2>3, <3>1 DEF NameOK, Occurs, Twice
  <2>4. ASSUME NEW h \in Handlers, Answered(h) PROVE NameOK(row)'
    <3>1. PICK m \in Messages : m = msg[h]
      BY <2>4 DEF Answered, TypeInv, PlacesOK, HandlerOK
    <3>2. /\ h \in Actors /\ at[h] # "idle" /\ at'[h] = "idle" /\ Occurs(m)
          /\ NameOK(seen[h])
      BY <2>4, <3>1 DEF Answered, Actors, AnswersOK, HandledOK
    <3>3. CASE seen[h] = NoRow
      BY <2>4, <3>3 DEF Answered, Fresh, NameOK
    <3>4. CASE seen[h] # NoRow /\ seen[h].status = "awaiting_username"
      <4>1. seen[h] \in Row /\ seen[h] = Fresh
        BY <3>2, <3>4 DEF TypeInv, TypeOK, VersionsOK, IsVersion, OneVersion
      <4>2. row' = Named(seen[h], m) BY <2>4, <3>1, <3>4 DEF Answered
      <4>3. row'.name = m /\ row'.phone = NoMessage
        BY <4>1, <4>2, Fields DEF Fresh
      <4>4. ASSUME NEW g \in Handlers, HandledBy(g, m)' PROVE Twice(m)
        <5>1. g # h /\ HandledBy(g, m)
          BY <1>2, <3>2, <4>4 DEF HandledBy
        <5> QED BY <3>1, <3>2, <5>1 DEF AnswersOK, HandledOK
      <4> QED BY <2>3, <3>1, <3>2, <4>3, <4>4
    <3>5. CASE seen[h] # NoRow /\ seen[h].status = "awaiting_phone"
      <4>1. seen[h] \in Row BY <3>2, <3>5 DEF TypeInv, TypeOK
      <4>2. row' = Phoned(seen[h], m) BY <2>4, <3>1, <3>5 DEF Answered
      <4>3. PICK n : n = seen[h].name OBVIOUS
      <4>4. row'.name = n /\ row'.phone = m BY <4>1, <4>2, <4>3, Fields
      <4>5. HandledBy(h, m) BY <3>1, <3>2 DEF HandledBy
      <4>6. n # NoMessage =>
                /\ Occurs(n)
                /\ \A g \in Handlers : HandledBy(g, n) => Twice(n)
        BY <3>2, <3>5, <4>3 DEF NameOK
      <4> QED BY <1>2, <2>3, <4>4, <4>5, <4>6
    <3> QED BY <2>4, <3>3, <3>4, <3>5 DEF Answered
  <2>5. ASSUME NEW a \in Actors, MarkedBy(a) PROVE NameOK(row)'
    <3>1. seen[a] \in Row /\ seen[a] # NoRow /\ NameOK(seen[a])
      BY <2>5 DEF MarkedBy, TypeInv, TypeOK, AnswersOK
    <3>2. PICK n, p : n = seen[a].name /\ p = seen[a].phone OBVIOUS
    <3>3. row'.name = n /\ row'.phone = p
      BY <2>5, <3>1, <3>2, Fields DEF MarkedBy
    <3>4. n # NoMessage =>
              /\ Occurs(n)
              /\ \A g \in Handlers : HandledBy(g, n) => Twice(n)
              /\ n = p => Twice(n)
      BY <3>1, <3>2 DEF NameOK
    <3> QED BY <1>2, <2>3, <3>3, <3>4
  <2> QED BY <2>2, <2>4, <2>5 DEF RowStep
<1> QED BY <1>4, <1>5, <1>6 DEF AnswersOK

\* A name that is also the phone number is a message that was let in twice.
THEOREM TwoAnswers == Spec => []AnswersAreTwoMessages
<1>1. Init => AnswersOK
  BY DEF Init, AnswersOK, HandledOK, NameOK, HandledBy, Actors
<1>2. TypeInv /\ VersionsOK /\ AnswersOK /\ [Next]_vars => AnswersOK'
  <2> SUFFICES ASSUME TypeInv, VersionsOK, AnswersOK, [Next]_vars PROVE AnswersOK'
    OBVIOUS
  <2>1. RowStep /\ SeenStep /\ MessageStep BY StepShape, StepOfMessages DEF Shape
  <2> QED BY <2>1, LetInKeeps, WritingKeeps DEF MessageStep
<1>3. AnswersOK => AnswersAreTwoMessages
  BY DEF AnswersOK, NameOK, AnswersAreTwoMessages
<1> QED BY <1>1, <1>2, <1>3, TypeInvariance, VersionInvariance, PTL DEF Spec

-----------------------------------------------------------------------------
(* _normalize_phone yields a normal form, for texts of any length.         *)
(* Dropping the spaces is a fold over the text; FoldProofs says what it    *)
(* computes.                                                               *)

Kept == INSTANCE FoldProofs WITH Step <- Keep, Base <- << >>

Inked == Characters \ {" "}

LEMMA SpacelessIsFold == ASSUME NEW text PROVE Spaceless(text) = Kept!Folded(text)
BY DEF Spaceless, Kept!Folded, FoldLeft, MapThenFoldSet, Max,
       Kept!FoldLeft, Kept!MapThenFoldSet, Kept!Max

LEMMA SpacelessSteps ==
    ASSUME NEW text \in Seq(Characters)
    PROVE  \E f : /\ f[0] = << >>
                  /\ \A i \in 1 .. Len(text) : f[i] = Keep(f[i - 1], text[i])
                  /\ Spaceless(text) = f[Len(text)]
BY Kept!FoldSteps, SpacelessIsFold

LEMMA AppendToConcat ==
    \A s, t \in Seq(Characters) : \A c \in Characters :
        Append(s \o t, c) = s \o Append(t, c)
OBVIOUS

LEMMA InkedSubset == ASSUME NEW s \in Seq(Inked) PROVE s \in Seq(Characters)
BY SeqMonotonic DEF Inked

LEMMA KeepType ==
    ASSUME NEW s \in Seq(Inked), NEW c \in Characters
    PROVE  Keep(s, c) \in Seq(Inked)
<1>1. CASE c = " " BY <1>1 DEF Keep
<1>2. CASE c # " "
  <2>1. c \in Inked BY <1>2 DEF Inked
  <2>2. Append(s, c) \in Seq(Inked) BY <2>1, AppendProperties
  <2> QED BY <1>2, <2>2 DEF Keep
<1> QED BY <1>1, <1>2

\* What is left has no spaces.
LEMMA SpacelessType ==
    ASSUME NEW text \in Seq(Characters)
    PROVE  Spaceless(text) \in Seq(Inked)
<1>1. << >> \in Seq(Inked) BY EmptySeq
<1>2. \A s \in Seq(Inked) : \A i \in 1 .. Len(text) : Keep(s, text[i]) \in Seq(Inked)
  BY ElementOfSeq, KeepType
<1>3. Kept!Folded(text) \in Seq(Inked) BY <1>1, <1>2, Kept!FoldInvariant
<1> QED BY <1>3, SpacelessIsFold

\* A prefix without spaces is left as it is.
LEMMA SpacelessPrefix ==
    ASSUME NEW s \in Seq(Inked), NEW text \in Seq(Characters)
    PROVE  Spaceless(s \o text) = s \o Spaceless(text)
<1> DEFINE all == s \o text
<1>1. s \in Seq(Characters) /\ all \in Seq(Characters) BY InkedSubset, ConcatProperties
<1>2. PICK f : /\ f[0] = << >>
               /\ \A i \in 1 .. Len(all) : f[i] = Keep(f[i - 1], all[i])
               /\ Spaceless(all) = f[Len(all)]
  <2> HIDE DEF all
  <2> QED BY <1>1, SpacelessSteps
<1>3. PICK g : /\ g[0] = << >>
               /\ \A i \in 1 .. Len(text) : g[i] = Keep(g[i - 1], text[i])
               /\ Spaceless(text) = g[Len(text)]
  BY SpacelessSteps
<1>4. /\ Len(s) \in Nat /\ Len(text) \in Nat /\ Len(all) = Len(s) + Len(text)
      /\ \A i \in 1 .. Len(s) : all[i] = s[i]
      /\ \A i \in 1 .. Len(text) : all[Len(s) + i] = text[i]
  BY <1>1, ConcatProperties, LenProperties
<1> HIDE DEF all
<1>5. f[Len(s)] = s
  <2> DEFINE Good == {n \in 0 .. Len(s) : f[n] = SubSeq(s, 1, n)}
  <2>1. 0 \in Good
    <3>1. SubSeq(s, 1, 0) = << >> BY SubSeqEmpty
    <3>2. f[0] = SubSeq(s, 1, 0) BY <1>2, <3>1
    <3>3. 0 \in 0 .. Len(s) BY <1>4
    <3> QED BY <3>2, <3>3
  <2>2. ASSUME NEW n \in 1 .. Len(s), n - 1 \in Good PROVE n \in Good
    <3>1. n \in 1 .. Len(all) /\ all[n] = s[n] BY <1>4
    <3>2. s[n] \in Characters /\ s[n] # " "
      <4>1. s[n] \in Inked BY ElementOfSeq
      <4> QED BY <4>1 DEF Inked
    <3>3. f[n] = Append(SubSeq(s, 1, n - 1), s[n])
      BY <1>2, <2>2, <3>1, <3>2 DEF Keep
    <3>4. SubSeq(s, 1, n - 1) \in Seq(Characters)
      <4>1. \A i \in 1 .. n - 1 : s[i] \in Characters BY <1>1, <1>4, ElementOfSeq
      <4> QED BY <4>1, SubSeqProperties
    <3>5. SubSeq(s, 1, n) = SubSeq(s, 1, n - 1) \o <<s[n]>>
      BY <1>1, <1>4, SubSeqRecursiveSecond
    <3>6. f[n] = SubSeq(s, 1, n) BY <3>2, <3>3, <3>4, <3>5, AppendIsConcat
    <3> QED BY <3>6, <1>4
  <2>3. 0 .. Len(s) \subseteq Good
    <3> HIDE DEF Good
    <3> QED BY <1>4, <2>1, <2>2, Kept!Induction
  <2>4. f[Len(s)] = SubSeq(s, 1, Len(s)) BY <1>4, <2>3
  <2> QED BY <2>4, SubSeqFull
<1>6. f[Len(s) + Len(text)] = s \o g[Len(text)]
  <2> DEFINE Good == {n \in 0 .. Len(text) :
                        g[n] \in Seq(Characters) /\ f[Len(s) + n] = s \o g[n]}
  <2>1. 0 \in Good
    <3>1. g[0] \in Seq(Characters) /\ s \o g[0] = s
      BY <1>1, <1>3, EmptySeq, ConcatEmptySeq
    <3> QED BY <3>1, <1>4, <1>5
  <2>2. ASSUME NEW n \in 1 .. Len(text), n - 1 \in Good PROVE n \in Good
    <3> DEFINE kept == g[n - 1]
               c == text[n]
    <3>1. /\ kept \in Seq(Characters)
          /\ f[Len(s) + (n - 1)] = s \o kept
          /\ c \in Characters
      BY <2>2, <1>4, ElementOfSeq
    <3>2. g[n] = Keep(kept, c) BY <1>3
    <3>3. f[Len(s) + n] = Keep(s \o kept, c)
      <4>1. /\ Len(s) + n \in 1 .. Len(all)
            /\ (Len(s) + n) - 1 = Len(s) + (n - 1)
            /\ all[Len(s) + n] = c
        BY <1>4
      <4> QED BY <1>2, <3>1, <4>1
    <3> HIDE DEF kept, c
    <3>4. Append(kept, c) \in Seq(Characters) BY <3>1, AppendProperties
    <3>5. Append(s \o kept, c) = s \o Append(kept, c)
      BY <1>1, <3>1, AppendToConcat, ZenonT(60)
    <3>6. g[n] \in Seq(Characters) /\ f[Len(s) + n] = s \o g[n]
      BY <3>1, <3>2, <3>3, <3>4, <3>5 DEF Keep
    <3> QED BY <3>6, <1>4
  <2>3. 0 .. Len(text) \subseteq Good
    <3> HIDE DEF Good
    <3> QED BY <1>4, <2>1, <2>2, Kept!Induction
  <2>4. Len(text) \in 0 .. Len(text) BY <1>4
  <2> QED BY <2>3, <2>4
<1> QED BY <1>2, <1>3, <1>4, <1>6 DEF all

LEMMA SpacelessSame ==
    ASSUME NEW s \in Seq(Inked)
    PROVE  Spaceless(s) = s
<1>1. << >> \in Seq(Characters) /\ Len(<< >>) = 0 BY EmptySeq
<1>2. Spaceless(<< >>) = << >>
  <2>1. PICK f : f[0] = << >> /\ Spaceless(<< >>) = f[Len(<< >>)]
    BY <1>1, SpacelessSteps
  <2> QED BY <1>1, <2>1
<1>3. s \o << >> = s BY ConcatEmptySeq
<1> QED BY <1>1, <1>2, <1>3, SpacelessPrefix

-----------------------------------------------------------------------------
(* The replacements of prefixes.                                           *)

\* A text that starts with something else than 0 is left alone.
LEMMA DialledSame ==
    ASSUME NEW s \in Seq(Characters), s # << >>, s[1] # "0"
    PROVE  Dialled(s) = s
<1>1. ASSUME NEW prefix \in {International, Trunk} PROVE ~StartsWith(s, prefix)
  <2>1. prefix[1] = "0" /\ Len(prefix) \in {1, 2} BY DEF International, Trunk
  <2>2. Len(s) \in Nat \ {0} BY EmptySeq
  <2>3. SubSeq(s, 1, Len(prefix))[1] = s[1] BY <2>1, <2>2
  <2> QED BY <2>1, <2>3 DEF StartsWith
<1> QED BY <1>1 DEF Dialled, Replace

\* What starts with 0 is dialled as the rest after the prefix.
LEMMA DialledPrefix ==
    ASSUME NEW s \in Seq(Characters)
    PROVE  /\ Dialled(International \o s) = Plus \o s
           /\ Dialled(Plus \o s) = Plus \o s
           /\ Dialled(Iran \o s) = Iran \o s
           /\ ~StartsWith(s, Trunk) => Dialled(Trunk \o s) = Iran \o s
           /\ Dialled(s) \in Seq(Characters)
<1>1. /\ International \in Seq(Characters) /\ Trunk \in Seq(Characters)
      /\ Plus \in Seq(Characters) /\ Iran \in Seq(Characters)
  <2>1. "0" \in Characters /\ "+" \in Characters /\ "9" \in Characters /\ "8" \in Characters
    BY PhoneAssumption DEF Digits
  <2> QED BY <2>1 DEF International, Trunk, Plus, Iran
<1>2. /\ Plus \o s \in Seq(Characters) /\ Plus \o s # << >> /\ (Plus \o s)[1] = "+"
      /\ Iran \o s \in Seq(Characters) /\ Iran \o s # << >> /\ (Iran \o s)[1] = "+"
  <2>1. Len(Plus) = 1 /\ Plus[1] = "+" /\ Len(Iran) = 3 /\ Iran[1] = "+"
    BY DEF Plus, Iran
  <2>2. ASSUME NEW t \in Seq(Characters), t # << >>
        PROVE  t \o s \in Seq(Characters) /\ t \o s # << >> /\ (t \o s)[1] = t[1]
    <3>1. Len(t) \in Nat \ {0} /\ Len(s) \in Nat BY <2>2, EmptySeq, LenProperties
    <3> QED BY <2>2, <3>1, ConcatProperties, ConcatEqualIffEmpty
  <2>3. Plus # << >> /\ Iran # << >> BY <2>1
  <2> QED BY <1>1, <2>1, <2>2, <2>3
<1>3. Dialled(Plus \o s) = Plus \o s /\ Dialled(Iran \o s) = Iran \o s
  BY <1>2, DialledSame
<1>4. ASSUME NEW prefix \in {International, Trunk}
      PROVE  StartsWith(prefix \o s, prefix) /\ Without(prefix \o s, prefix) = s
  BY DEF StartsWith, Without, International, Trunk
<1>5. Dialled(International \o s) = Plus \o s
  <2>1. Replace(International \o s, International, Plus) = Plus \o s
    BY <1>4 DEF Replace
  <2>2. ~StartsWith(Plus \o s, Trunk)
    <3>1. SubSeq(Plus \o s, 1, 1)[1] = "+" BY <1>1, <1>2
    <3>2. Trunk[1] = "0" /\ Len(Trunk) = 1 BY DEF Trunk
    <3> QED BY <3>1, <3>2 DEF StartsWith
  <2> QED BY <2>1, <2>2 DEF Dialled, Replace
<1>6. ASSUME ~StartsWith(s, Trunk) PROVE Dialled(Trunk \o s) = Iran \o s
  <2>1. ~StartsWith(Trunk \o s, International)
    <3>1. SUFFICES ASSUME StartsWith(Trunk \o s, International) PROVE FALSE
      OBVIOUS
    <3>2. Len(Trunk) = 1 /\ Trunk[1] = "0" BY DEF Trunk
    <3>3. /\ Len(International) = 2
          /\ International[1] = "0" /\ International[2] = "0"
      BY DEF International
    <3>4. 2 <= Len(Trunk \o s) /\ SubSeq(Trunk \o s, 1, 2)[2] = "0"
      BY <3>1, <3>3 DEF StartsWith
    <3>5. Len(s) \in Nat /\ Len(Trunk \o s) = 1 + Len(s)
      <4>1. Len(Trunk \o s) = Len(Trunk) + Len(s) BY <1>1, ConcatProperties
      <4> QED BY <3>2, <4>1, LenProperties
    <3>6. 1 <= Len(s) BY <3>4, <3>5
    <3>7. SubSeq(Trunk \o s, 1, 2)[2] = (Trunk \o s)[2] BY <1>1, <3>4, <3>5
    <3>8. (Trunk \o s)[2] = s[1] BY <1>1, <3>2, <3>5, <3>6
    <3>9. SubSeq(s, 1, 1) = Trunk
      <4>1. \A i \in 1 .. 1 : s[i] \in Characters BY <3>5, <3>6, ElementOfSeq
      <4>2. /\ SubSeq(s, 1, 1) \in Seq(Characters) /\ Len(SubSeq(s, 1, 1)) = 1
            /\ SubSeq(s, 1, 1)[1] = s[1]
        BY <4>1, SubSeqProperties
      <4> QED BY <1>1, <3>2, <3>4, <3>7, <3>8, <4>2, SeqEqual
    <3> QED BY <1>6, <3>2, <3>5, <3>6, <3>9 DEF StartsWith
  <2>2. Replace(Trunk \o s, International, Plus) = Trunk \o s
    BY <2>1 DEF Replace
  <2>3. Replace(Trunk \o s, Trunk, Iran) = Iran \o s BY <1>4 DEF Replace
  <2> QED BY <2>2, <2>3 DEF Dialled
<1>7. ASSUME NEW t \in Seq(Characters), NEW prefix \in Seq(Characters), NEW by \in Seq(Characters)
      PROVE  Replace(t, prefix, by) \in Seq(Characters)
  BY DEF Replace, StartsWith, Without
<1>8. Dialled(s) \in Seq(Characters) BY <1>1, <1>7 DEF Dialled
<1> QED BY <1>3, <1>5, <1>6, <1>8

-----------------------------------------------------------------------------
(* The normal form.                                                        *)

LEMMA Constants ==
    /\ International \in Seq(Inked) /\ Trunk \in Seq(Inked)
    /\ Plus \in Seq(Inked) /\ Iran \in Seq(Inked)
    /\ Len(Plus) = 1 /\ Plus[1] = "+"
    /\ "+" \in Inked /\ Digits \subseteq Inked
<1>1. "+" \in Inked /\ Digits \subseteq Inked BY PhoneAssumption DEF Inked, Digits
<1>2. "0" \in Inked /\ "9" \in Inked /\ "8" \in Inked BY <1>1 DEF Digits
<1> QED BY <1>1, <1>2 DEF International, Trunk, Plus, Iran

LEMMA PlusNumber ==
    ASSUME NEW s \in Seq(Characters)
    PROVE  Plus \o s # << >> /\ (Plus \o s)[1] = "+" /\ Tail(Plus \o s) = s
<1>1. Plus \in Seq(Characters) BY Constants, InkedSubset
<1>2. Plus # << >> BY DEF Plus
<1> DEFINE t == Plus \o s
<1>3. /\ t \in Seq(Characters) /\ Len(t) = 1 + Len(s)
      /\ \A i \in 1 .. 1 + Len(s) : t[i] = IF i <= 1 THEN Plus[i] ELSE s[i - 1]
  <2>1. /\ t \in Seq(Characters) /\ Len(t) = Len(Plus) + Len(s)
        /\ \A i \in 1 .. Len(Plus) + Len(s) :
              t[i] = IF i <= Len(Plus) THEN Plus[i] ELSE s[i - Len(Plus)]
    BY <1>1, ConcatProperties
  <2> HIDE DEF t
  <2> QED BY <2>1, Constants
<1>4. t # << >> BY <1>1, <1>2, ConcatEqualIffEmpty
<1>5. Len(s) \in Nat BY LenProperties
<1> HIDE DEF t
<1>6. t[1] = "+" BY <1>3, <1>5, Constants
<1>7. /\ Tail(t) \in Seq(Characters) /\ Len(Tail(t)) = Len(s)
      /\ \A i \in 1 .. Len(s) : Tail(t)[i] = t[i + 1]
  BY <1>3, <1>4, <1>5, HeadTailProperties
<1>8. \A i \in 1 .. Len(s) : Tail(t)[i] = s[i] BY <1>3, <1>5, <1>7
<1>9. Tail(t) = s BY <1>7, <1>8, SeqEqual
<1> QED BY <1>4, <1>6, <1>9 DEF t

LEMMA E164Same ==
    ASSUME NEW s \in Seq(Characters), E164(s)
    PROVE  Normalize(s) = s
<1>1. s # << >> /\ s[1] = "+" /\ IsNumber(Tail(s)) BY DEF E164
<1>2. Len(s) \in Nat \ {0} /\ Len(Tail(s)) = Len(s) - 1
      /\ \A i \in 1 .. Len(Tail(s)) : Tail(s)[i] = s[i + 1]
  BY <1>1, EmptySeq, HeadTailProperties
<1>3. \A i \in 1 .. Len(Tail(s)) : Tail(s)[i] \in Digits
  BY <1>1, <1>2 DEF IsNumber
<1>4. \A i \in 1 .. Len(s) : s[i] \in Inked
  <2>1. TAKE i \in 1 .. Len(s)
  <2>2. CASE i = 1 BY <2>2, <1>1, Constants
  <2>3. CASE i # 1
    <3>1. i - 1 \in 1 .. Len(Tail(s)) /\ (i - 1) + 1 = i BY <1>2, <2>3
    <3>2. s[i] = Tail(s)[i - 1] BY <1>2, <3>1
    <3> QED BY <1>3, <3>1, <3>2, Constants
  <2> QED BY <2>2, <2>3
<1>5. s \in Seq(Inked)
  <2>1. \A i \in 1 .. Len(s) : s[i] \in Inked BY <1>4
  <2>2. SubSeq(s, 1, Len(s)) \in Seq(Inked) BY <1>2, <2>1, SubSeqProperties
  <2> QED BY <2>2, SubSeqFull
<1>6. Spaceless(s) = s BY <1>5, SpacelessSame
<1>7. Dialled(s) = s BY <1>1, DialledSame
<1>8. PhoneRe(s) BY <1>1 DEF PhoneRe
<1> QED BY <1>1, <1>6, <1>7, <1>8 DEF Normalize

\* _normalize_phone returns nothing or a number in the form that load_users
\* demands, and what it returned it returns again.
LEMMA NormalizeTwice ==
    ASSUME NEW text \in Seq(Characters), Normalize(text) # << >>
    PROVE  E164(Normalize(text)) /\ Normalize(Normalize(text)) = Normalize(text)
<1> DEFINE s == Dialled(Spaceless(text))
<1>1. s \in Seq(Characters)
  <2>1. Spaceless(text) \in Seq(Characters) BY SpacelessType, InkedSubset
  <2> QED BY <2>1, DialledPrefix
<1>2. Normalize(text) = IF ~PhoneRe(s) THEN << >>
                        ELSE IF s[1] = "+" THEN s ELSE Plus \o s
  BY DEF Normalize
<1> HIDE DEF s
<1>3. PhoneRe(s) BY <1>2
<1>4. CASE s[1] = "+"
  <2>1. ~IsNumber(s) BY <1>4 DEF IsNumber, Digits
  <2>2. E164(s) BY <1>3, <2>1 DEF PhoneRe, E164
  <2>3. Normalize(text) = s BY <1>2, <1>3, <1>4
  <2> QED BY <1>1, <2>2, <2>3, E164Same
<1>5. CASE s[1] # "+"
  <2>1. IsNumber(s) BY <1>3, <1>5 DEF PhoneRe
  <2>2. E164(Plus \o s) BY <1>1, <2>1, PlusNumber DEF E164
  <2>3. Normalize(text) = Plus \o s BY <1>2, <1>3, <1>5
  <2>4. Plus \o s \in Seq(Characters)
    BY <1>1, Constants, InkedSubset, ConcatProperties
  <2> QED BY <2>2, <2>3, <2>4, E164Same
<1> QED BY <1>4, <1>5

\* _normalize_phone of src/rivas/app.py: a number that is dialled with 00 or
\* +, with the trunk 0 or +98, is stored in one form, which load_users.py
\* accepts and which is its own normal form, whatever was typed.
THEOREM OneNormalForm == NormalForm
<1>1. SUFFICES ASSUME NEW text \in PhoneTexts
               PROVE  /\ Normalize(text) # << >> =>
                            /\ E164(Normalize(text))
                            /\ Normalize(Normalize(text)) = Normalize(text)
                      /\ Normalize(International \o text) = Normalize(Plus \o text)
                      /\ ~StartsWith(Spaceless(text), Trunk) =>
                            Normalize(Trunk \o text) = Normalize(Iran \o text)
  BY DEF NormalForm
<1>2. text \in Seq(Characters) BY PhoneAssumption
<1>3. Spaceless(text) \in Seq(Characters) BY <1>2, SpacelessType, InkedSubset
<1>4. ASSUME NEW prefix \in {International, Plus, Trunk, Iran}
      PROVE  Spaceless(prefix \o text) = prefix \o Spaceless(text)
  BY <1>2, Constants, SpacelessPrefix
<1>5. Normalize(International \o text) = Normalize(Plus \o text)
  <2>1. Dialled(Spaceless(International \o text)) = Dialled(Spaceless(Plus \o text))
    BY <1>3, <1>4, DialledPrefix
  <2> QED BY <2>1 DEF Normalize
<1>6. ASSUME ~StartsWith(Spaceless(text), Trunk)
      PROVE  Normalize(Trunk \o text) = Normalize(Iran \o text)
  <2>1. Dialled(Spaceless(Trunk \o text)) = Dialled(Spaceless(Iran \o text))
    BY <1>3, <1>4, <1>6, DialledPrefix
  <2> QED BY <2>1 DEF Normalize
<1> QED BY <1>2, <1>5, <1>6, NormalizeTwice

\* In every state of the registration the numbers that its handler accepts
\* have a normal form.
THEOREM NormalNumbers == Spec => []PhoneNormalForm
<1>1. PhoneNormalForm BY OneNormalForm DEF PhoneNormalForm
<1> QED BY <1>1, PTL
=============================================================================
