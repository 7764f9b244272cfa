------------------------- MODULE StatusMessageProofs -------------------------
(***************************************************************************)
(* Proofs about StatusMessage for all jobs and any number of faults.       *)
(***************************************************************************)
EXTENDS StatusMessage, FiniteSetTheorems, TLAPS

USE JobAssumption

-----------------------------------------------------------------------------
(* Sequences of texts: is one there, how often, does it follow.            *)

Without(s, text) == \A i \in 1 .. Len(s) : s[i] # text
Times(s, text)   == Cardinality({i \in 1 .. Len(s) : s[i] = text})
Follows(s, text, before) ==
    \E i, k \in 1 .. Len(s) : i < k /\ s[i] = before /\ s[k] = text

\* Nothing is said in an empty list.
LEMMA NothingSaid ==
    ASSUME NEW text, NEW before
    PROVE  /\ Without(<< >>, text) /\ Times(<< >>, text) = 0
           /\ ~Follows(<< >>, text, before)
<1>1. {i \in 1 .. Len(<< >>) : << >>[i] = text} = {} OBVIOUS
<1>2. Times(<< >>, text) = 0 BY <1>1, FS_EmptySet, Zenon DEF Times
<1> QED BY <1>2 DEF Without, Follows

\* How often is a number.
LEMMA TimesType ==
    ASSUME NEW s \in Seq(Texts), NEW text
    PROVE  Times(s, text) \in Nat
<1>1. Len(s) \in Nat OBVIOUS
<1>2. IsFiniteSet(1 .. Len(s)) BY <1>1, FS_Interval
<1>3. {i \in 1 .. Len(s) : s[i] = text} \in SUBSET (1 .. Len(s)) OBVIOUS
<1>4. IsFiniteSet({i \in 1 .. Len(s) : s[i] = text})
  BY <1>2, <1>3, FS_Subset
<1> QED BY <1>4, FS_CardinalityType DEF Times

\* One text more.
LEMMA OneMore ==
    ASSUME NEW s \in Seq(Texts), NEW new \in Texts, NEW text
    PROVE  /\ Append(s, new) \in Seq(Texts)
           /\ Without(s, text) /\ new # text => Without(Append(s, new), text)
           /\ Times(Append(s, new), text) =
                IF new = text THEN Times(s, text) + 1 ELSE Times(s, text)
<1> DEFINE u == Append(s, new)
           S == {i \in 1 .. Len(s) : s[i] = text}
           U == {i \in 1 .. Len(u) : u[i] = text}
<1>1. /\ u \in Seq(Texts) /\ Len(s) \in Nat /\ Len(u) = Len(s) + 1
      /\ u[Len(s) + 1] = new /\ \A i \in 1 .. Len(s) : u[i] = s[i]
  OBVIOUS
<1> HIDE DEF u
<1>2. \A i \in 1 .. Len(u) : i \in 1 .. Len(s) \/ i = Len(s) + 1 BY <1>1
<1>3. Without(s, text) /\ new # text => Without(u, text)
  BY <1>1, <1>2 DEF Without
<1>4. \A i \in 1 .. Len(s) : i \in 1 .. Len(u) BY <1>1
<1>5. Len(s) + 1 \in 1 .. Len(u) BY <1>1
<1>6. U = IF new = text THEN S \cup {Len(s) + 1} ELSE S
  BY <1>1, <1>2, <1>4, <1>5
<1>7. Len(s) + 1 \notin S BY <1>1
<1>8. IsFiniteSet(S)
  <2>1. IsFiniteSet(1 .. Len(s)) BY <1>1, FS_Interval
  <2>2. S \in SUBSET (1 .. Len(s)) OBVIOUS
  <2> QED BY <2>1, <2>2, FS_Subset
<1> HIDE DEF S, U
<1>9. Cardinality(S \cup {Len(s) + 1}) = Cardinality(S) + 1
  BY <1>7, <1>8, FS_AddElement
<1>10. Cardinality(U) = IF new = text THEN Cardinality(S) + 1 ELSE Cardinality(S)
  BY <1>6, <1>9
<1>11. Times(u, text) = Cardinality(U) /\ Times(s, text) = Cardinality(S)
  BY DEF Times, U, S
<1> QED BY <1>1, <1>3, <1>10, <1>11 DEF u

\* It follows those that were there.
LEMMA OneMoreFollows ==
    ASSUME NEW s \in Seq(Texts), NEW new \in Texts, NEW text, NEW before
    PROVE  Follows(Append(s, new), text, before) =>
                Follows(s, text, before) \/ (new = text /\ ~Without(s, before))
<1> DEFINE u == Append(s, new)
<1>1. /\ Len(s) \in Nat /\ Len(u) = Len(s) + 1
      /\ u[Len(s) + 1] = new /\ \A i \in 1 .. Len(s) : u[i] = s[i]
  OBVIOUS
<1> HIDE DEF u
<1>2. ASSUME NEW i \in 1 .. Len(u), NEW k \in 1 .. Len(u),
             i < k, u[i] = before, u[k] = text
      PROVE  Follows(s, text, before) \/ (new = text /\ ~Without(s, before))
  <2>1. i \in 1 .. Len(s) /\ s[i] = before BY <1>1, <1>2
  <2>2. CASE k \in 1 .. Len(s) BY <1>1, <1>2, <2>1, <2>2 DEF Follows
  <2>3. CASE k = Len(s) + 1 BY <1>1, <1>2, <2>1, <2>3 DEF Without
  <2> QED BY <1>1, <2>2, <2>3
<1> QED BY <1>2 DEF Follows, u

-----------------------------------------------------------------------------
(* The invariant.                                                          *)

InQueue(j) == \E i \in 1 .. Len(queue) : queue[i] = j

\* Every job is in the queue at most once.
NoneTwice == \A i, k \in 1 .. Len(queue) : queue[i] = queue[k] => i = k

WorkingOK == working = NoJob <=> wpc \in {"get", "dead"}

\* Where the job is, and who may talk about it.
PlaceOK(j) ==
    /\ hpc[j] = "idle" => ~hasId[j]
    /\ hpc[j] \in {"idle", "put"} => ping[j] = "off" /\ ~InQueue(j)
    /\ InQueue(j) => ping[j] = "off"
    /\ working = j => ping[j] # "off"
    /\ working = j /\ wpc \notin {"work", "stop"} => ping[j] = "over"
    /\ ping[j] \in Running <=> working = j /\ wpc \in {"work", "stop"}
    /\ ping[j] = "edit" => hasId[j]
    /\ late[j] # "none" => ping[j] = "over"

\* What a ping and a late call may still say, and the failed call it is owed to.
WaitOK(j) ==
    /\ ping[j] \in {"off", "sleep", "edit"} => Times(extra[j], "wait") = 0
    /\ ping[j] = "send" => Times(extra[j], "wait") + 1 <= failures[j]
    /\ late[j] = "send" =>
            stoppedAt[j] = "send" /\ Times(extra[j], "wait") + 1 <= failures[j]
    /\ Times(extra[j], "wait") <= failures[j]
    /\ Follows(extra[j], "wait", "reply") => stoppedAt[j] = "send" /\ Troubled(j)

\* The status message, on its way to be gone before the reply.
ShownOK(j) ==
    /\ hpc[j] # "idle" /\ ~hasId[j] => Troubled(j)
    /\ hasId[j] => shown[j] \in Visible \cup {"gone"}
    /\ shown[j] = "gone" => ping[j] = "over"
    /\ ping[j] # "over" => Without(extra[j], "reply")
    /\ working = j /\ wpc \in {"reply", "again", "apology"} /\ ~Troubled(j) =>
            shown[j] = "gone"
    /\ ~Without(extra[j], "reply") /\ ~Troubled(j) => shown[j] = "gone"

JobOK(j) == PlaceOK(j) /\ WaitOK(j) /\ ShownOK(j)

ChatInv == TypeOK /\ NoneTwice /\ WorkingOK /\ \A j \in Jobs : JobOK(j)

\* A step that is about job j leaves the others as they are.
About(j) ==
    /\ \A k \in Jobs \ {j} :
            /\ hpc'[k] = hpc[k] /\ hasId'[k] = hasId[k] /\ ping'[k] = ping[k]
            /\ stoppedAt'[k] = stoppedAt[k] /\ late'[k] = late[k]
            /\ shown'[k] = shown[k] /\ extra'[k] = extra[k]
            /\ failures'[k] = failures[k]
            /\ InQueue(k)' => InQueue(k)
    /\ failures'[j] \in Nat /\ failures'[j] >= failures[j]
    /\ \/ working' = working /\ wpc' = wpc
       \/ working \in {j, NoJob} /\ working' \in {j, NoJob}

\* A step about one job keeps what is said of the others.
LEMMA OthersKept ==
    ASSUME ChatInv, NEW j \in Jobs, About(j), NEW k \in Jobs, k # j
    PROVE  JobOK(k)'
<1>1. JobOK(k) BY DEF ChatInv
<1>2. /\ hpc'[k] = hpc[k] /\ hasId'[k] = hasId[k] /\ ping'[k] = ping[k]
      /\ stoppedAt'[k] = stoppedAt[k] /\ late'[k] = late[k]
      /\ shown'[k] = shown[k] /\ extra'[k] = extra[k]
      /\ InQueue(k)' => InQueue(k)
      /\ failures'[k] = failures[k]
  BY DEF About
<1>3. \/ working' = working /\ wpc' = wpc
      \/ working # k /\ working' # k
  BY DEF About
<1>4. PlaceOK(k)' BY <1>1, <1>2, <1>3 DEF JobOK, PlaceOK, Running, Calling
<1>5. WaitOK(k)' BY <1>1, <1>2 DEF JobOK, WaitOK, Troubled
<1>6. ShownOK(k)' BY <1>1, <1>2, <1>3 DEF JobOK, ShownOK, Troubled
<1> QED BY <1>4, <1>5, <1>6 DEF JobOK

-----------------------------------------------------------------------------
(* Type correctness.                                                       *)

\* What is known of a job that waits.
LEMMA Queued ==
    ASSUME queue \in Seq(Jobs), queue # << >>
    PROVE  /\ Head(queue) \in Jobs /\ Head(queue) = queue[1]
           /\ Tail(queue) \in Seq(Jobs)
           /\ Len(queue) \in Nat /\ Len(queue) > 0
           /\ Len(Tail(queue)) = Len(queue) - 1
           /\ \A i \in 1 .. Len(Tail(queue)) : Tail(queue)[i] = queue[i + 1]
  OBVIOUS

\* The helpers of the chat keep types: a message is added ...
LEMMA PostOK ==
    ASSUME TypeOK, NEW j \in Jobs, NEW text \in Texts, Post(j, text)
    PROVE  extra' \in [Jobs -> Seq(Texts)]
<1>1. Append(extra[j], text) \in Seq(Texts) BY DEF TypeOK
<1> QED BY <1>1 DEF TypeOK, Post

\* ... a failure is noted ...
LEMMA TroubleOK ==
    ASSUME TypeOK, NEW j \in Jobs, Trouble(j) \/ NoTrouble
    PROVE  /\ faults' \in Nat /\ failures' \in [Jobs -> Nat]
           /\ \A k \in Jobs \ {j} : failures'[k] = failures[k]
           /\ failures'[j] >= failures[j]
           /\ Trouble(j) => failures'[j] = failures[j] + 1
  BY DEF TypeOK, Trouble, NoTrouble

\* ... a message is sent or fails ...
LEMMA SendOK ==
    ASSUME TypeOK, NEW j \in Jobs, NEW text \in Texts, Send(j, text)
    PROVE  /\ extra' \in [Jobs -> Seq(Texts)]
           /\ faults' \in Nat /\ failures' \in [Jobs -> Nat]
  BY PostOK, TroubleOK DEF TypeOK, Send

\* ... or the status message is edited.
LEMMA EditOK ==
    ASSUME TypeOK, NEW j \in Jobs, NEW text \in Visible,
           EditSucceeds(j, text) \/ EditFails(j, text)
    PROVE  /\ shown' \in [Jobs -> Displays]
           /\ faults' \in Nat /\ failures' \in [Jobs -> Nat]
<1>1. Trouble(j) \/ NoTrouble BY DEF EditSucceeds, EditFails
<1>2. faults' \in Nat /\ failures' \in [Jobs -> Nat] BY <1>1, TroubleOK
<1>3. shown' \in [Jobs -> Displays]
  BY DEF TypeOK, EditSucceeds, EditFails, Display, Displays
<1> QED BY <1>2, <1>3

\* Every step keeps every variable in its type.
LEMMA TypeStep ==
    ASSUME TypeOK, WorkingOK, [Next]_vars
    PROVE  TypeOK'
<1> USE DEF noticeFrame, pingFrame, workerFrame
<1>a. "ack" \in Texts /\ "wait" \in Texts \cap Visible /\ "busy" \in Texts \cap Visible /\ "reply" \in Texts
  BY DEF Texts, Visible
<1>1. ASSUME NEW j \in Jobs, Ack(j) PROVE TypeOK'
  <2>1. shown' \in [Jobs -> Displays]
    BY <1>1 DEF TypeOK, Ack, Display, Displays, Visible
  <2>2. faults' \in Nat /\ failures' \in [Jobs -> Nat] BY <1>1, TroubleOK DEF Ack
  <2>3. hpc' \in [Jobs -> HandlerPCs] /\ hasId' \in [Jobs -> BOOLEAN]
    BY <1>1 DEF TypeOK, Ack, HandlerGoto, HandlerPCs
  <2>4. extra' \in [Jobs -> Seq(Texts)]
    <3>1. UNCHANGED extra \/ Post(j, "ack") BY <1>1 DEF Ack
    <3> QED BY <1>a, <3>1, PostOK DEF TypeOK
  <2> QED BY <1>1, <2>1, <2>2, <2>3, <2>4 DEF TypeOK, Ack
<1>2. ASSUME NEW j \in Jobs, HandlerStep(j) PROVE TypeOK'
  <2>1. hpc' \in [Jobs -> HandlerPCs]
    BY <1>2 DEF TypeOK, HandlerStep, Put, PutRaises, NoticeEdit, NoticeSend,
       HandlerGoto, HandlerPCs
  <2>2. CASE Put(j)
    <3>1. queue' \in Seq(Jobs) /\ wpc' \in WorkerPCs
      BY <2>2 DEF TypeOK, Put, WorkerPCs
    <3> QED BY <2>1, <2>2, <3>1 DEF TypeOK, Put
  <2>3. CASE PutRaises(j)
    BY <2>1, <2>3, TroubleOK DEF TypeOK, PutRaises
  <2>4. CASE NoticeEdit(j)
    BY <1>a, <2>1, <2>4, EditOK DEF TypeOK, NoticeEdit
  <2>5. CASE NoticeSend(j)
    BY <1>a, <2>1, <2>5, SendOK DEF TypeOK, NoticeSend
  <2> QED BY <1>2, <2>2, <2>3, <2>4, <2>5 DEF HandlerStep
<1>3. ASSUME NEW j \in Jobs, PingStep(j) PROVE TypeOK'
  <2>1. ping' \in [Jobs -> PingPCs]
    BY <1>3 DEF TypeOK, PingStep, PingTimeout, PingEdit, PingSend, PingGoto,
       PingPCs, Running, Calling
  <2>2. CASE PingTimeout(j) BY <2>1, <2>2 DEF TypeOK, PingTimeout
  <2>3. CASE PingEdit(j) BY <1>a, <2>1, <2>3, EditOK DEF TypeOK, PingEdit
  <2>4. CASE PingSend(j) BY <1>a, <2>1, <2>4, SendOK DEF TypeOK, PingSend
  <2> QED BY <1>3, <2>2, <2>3, <2>4 DEF PingStep
<1>4. ASSUME NEW j \in Jobs, LateCall(j) PROVE TypeOK'
  <2>1. late' \in [Jobs -> LateCalls] BY <1>4 DEF TypeOK, LateCall, LateCalls
  <2>2. shown' \in [Jobs -> Displays]
    BY <1>4 DEF TypeOK, LateCall, Display, Displays, Visible
  <2>3. Post(j, "wait") \/ UNCHANGED extra BY <1>4 DEF LateCall
  <2>4. extra' \in [Jobs -> Seq(Texts)] BY <1>a, <2>3, PostOK DEF TypeOK
  <2> QED BY <1>4, <2>1, <2>2, <2>4 DEF TypeOK, LateCall
<1>5. ASSUME WorkerStep PROVE TypeOK'
  <2>0. wpc # "dead"
    BY <1>5 DEF WorkerStep, Get, WorkDone, WorkerDies, StopPing, Dismiss, Reply,
       DeliverRaises, DismissAgain, Apologise, DismissFrom, SendReplyFrom
  <2>1. wpc # "get" => working \in Jobs BY <2>0 DEF TypeOK, WorkingOK
  <2>2. wpc' \in WorkerPCs
    BY <1>5 DEF WorkerStep, Get, WorkDone, WorkerDies, StopPing, Dismiss, Reply,
       DeliverRaises, DismissAgain, Apologise, DismissFrom, SendReplyFrom, WorkerPCs
  <2>3. ASSUME working \in Jobs, CancelPing(working)
        PROVE  /\ ping' \in [Jobs -> PingPCs] /\ stoppedAt' \in [Jobs -> PingPCs]
               /\ late' \in [Jobs -> LateCalls]
    BY <2>3 DEF TypeOK, CancelPing, PingGoto, PingPCs, LateCalls
  <2>4. CASE Get
    <3>1. Head(queue) \in Jobs /\ Tail(queue) \in Seq(Jobs)
      BY <2>4, Queued DEF TypeOK, Get
    <3>2. ping' \in [Jobs -> PingPCs]
      BY <2>4, <3>1 DEF TypeOK, Get, PingGoto, PingPCs, Running
    <3> QED BY <2>2, <2>4, <3>1, <3>2 DEF TypeOK, Get
  <2>5. CASE WorkDone BY <2>2, <2>5 DEF TypeOK, WorkDone
  <2>6. CASE WorkerDies
    <3>1. working \in Jobs BY <2>1, <2>6 DEF WorkerDies
    <3> QED BY <2>2, <2>3, <2>6, <3>1, TroubleOK DEF TypeOK, WorkerDies
  <2>7. CASE StopPing
    <3>1. working \in Jobs BY <2>1, <2>7 DEF StopPing
    <3> QED BY <2>2, <2>3, <2>7, <3>1 DEF TypeOK, StopPing
  <2>8. CASE Dismiss \/ DismissAgain
    <3>1. working \in Jobs
      BY <2>1, <2>8 DEF Dismiss, DismissAgain, DismissFrom
    <3>2. shown' \in [Jobs -> Displays]
      BY <2>8, <3>1 DEF TypeOK, Dismiss, DismissAgain, DismissFrom, Display, Displays
    <3>3. faults' \in Nat /\ failures' \in [Jobs -> Nat]
      BY <2>8, <3>1, TroubleOK DEF Dismiss, DismissAgain, DismissFrom
    <3> QED
      BY <2>2, <2>8, <3>2, <3>3 DEF TypeOK, Dismiss, DismissAgain, DismissFrom
  <2>9. CASE Reply \/ Apologise
    <3>1. working \in Jobs BY <2>1, <2>9 DEF Reply, Apologise, SendReplyFrom
    <3> QED
      BY <1>a, <2>2, <2>9, <3>1, SendOK DEF TypeOK, Reply, Apologise, SendReplyFrom
  <2>10. CASE DeliverRaises
    <3>1. working \in Jobs BY <2>1, <2>10 DEF DeliverRaises
    <3> QED BY <1>a, <2>2, <2>10, <3>1, PostOK DEF TypeOK, DeliverRaises
  <2> QED BY <1>5, <2>4, <2>5, <2>6, <2>7, <2>8, <2>9, <2>10 DEF WorkerStep
<1>6. ASSUME NEW j \in Jobs, FailedAttempt(j) PROVE TypeOK'
  <2>1. faults' \in Nat /\ failures' \in [Jobs -> Nat]
    BY <1>6, TroubleOK DEF FailedAttempt
  <2>2. shown' \in [Jobs -> Displays]
    BY <1>6 DEF TypeOK, FailedAttempt, Display, Displays
  <2>3. UNCHANGED extra \/ \E text \in Texts : Post(j, text)
    BY <1>6 DEF FailedAttempt
  <2>4. extra' \in [Jobs -> Seq(Texts)] BY <2>3, PostOK DEF TypeOK
  <2> QED BY <1>6, <2>1, <2>2, <2>4 DEF TypeOK, FailedAttempt
<1>7. CASE UNCHANGED vars BY <1>7 DEF TypeOK, vars
<1> QED BY <1>1, <1>2, <1>3, <1>4, <1>5, <1>6, <1>7 DEF Next

-----------------------------------------------------------------------------
(* Every step keeps the invariant.                                         *)

\* The queue keeps its jobs.
LEMMA SameQueue ==
    ASSUME ChatInv, UNCHANGED queue
    PROVE  NoneTwice' /\ \A k : InQueue(k)' => InQueue(k)
  BY DEF ChatInv, NoneTwice, InQueue

\* A step about one job need only be checked for that job.
LEMMA StepAbout ==
    ASSUME ChatInv, TypeOK', NoneTwice', WorkingOK',
           NEW j \in Jobs, About(j), JobOK(j)'
    PROVE  ChatInv'
  BY OthersKept DEF ChatInv

\* What a further text does to what was said about a job.
LEMMA PostSays ==
    ASSUME TypeOK, NEW j \in Jobs, NEW new \in Texts, Post(j, new)
    PROVE  /\ \A k \in Jobs \ {j} : extra'[k] = extra[k]
           /\ Times(extra'[j], "wait") =
                IF new = "wait" THEN Times(extra[j], "wait") + 1
                                ELSE Times(extra[j], "wait")
           /\ Without(extra[j], "reply") /\ new # "reply" => Without(extra'[j], "reply")
           /\ Follows(extra'[j], "wait", "reply") =>
                \/ Follows(extra[j], "wait", "reply")
                \/ new = "wait" /\ ~Without(extra[j], "reply")
<1>1. extra[j] \in Seq(Texts) BY DEF TypeOK
<1>2. /\ \A k \in Jobs \ {j} : extra'[k] = extra[k]
      /\ extra'[j] = Append(extra[j], new)
  BY DEF TypeOK, Post
<1> QED BY <1>1, <1>2, OneMore, OneMoreFollows

\* The counts are numbers.
LEMMA Counts ==
    ASSUME TypeOK, NEW j \in Jobs
    PROVE  Times(extra[j], "wait") \in Nat /\ failures[j] \in Nat
<1>1. extra[j] \in Seq(Texts) BY DEF TypeOK
<1> QED BY <1>1, TimesType DEF TypeOK

\* Another text than "wait" leaves what is said of a job that does not change
\* otherwise.
LEMMA OtherTextKeeps ==
    ASSUME ChatInv, NEW j \in Jobs,
           UNCHANGED extra \/ \E text \in Texts \ {"wait"} : Post(j, text),
           ping'[j] = ping[j], stoppedAt'[j] = stoppedAt[j], late'[j] = late[j],
           failures'[j] \in Nat, failures'[j] >= failures[j]
    PROVE  /\ WaitOK(j)'
           /\ \A k \in Jobs \ {j} : extra'[k] = extra[k]
<1>1. TypeOK /\ JobOK(j) BY DEF ChatInv
<1>2. Times(extra[j], "wait") \in Nat /\ failures[j] \in Nat BY <1>1, Counts
<1>3. /\ \A k \in Jobs \ {j} : extra'[k] = extra[k]
      /\ Times(extra'[j], "wait") = Times(extra[j], "wait")
      /\ Follows(extra'[j], "wait", "reply") => Follows(extra[j], "wait", "reply")
  BY <1>1, PostSays
<1> QED BY <1>1, <1>2, <1>3 DEF JobOK, WaitOK, Troubled

\* The handler of a message.
LEMMA HandlerKeeps ==
    ASSUME ChatInv, TypeOK', NEW j \in Jobs, Ack(j) \/ HandlerStep(j)
    PROVE  ChatInv'
<1> USE DEF noticeFrame
<1>1. TypeOK /\ JobOK(j) BY DEF ChatInv
<1>2. CASE Ack(j)
  <2>1. NoneTwice' /\ \A k : InQueue(k)' => InQueue(k)
    BY <1>2, SameQueue DEF Ack
  <2>2. WorkingOK' BY <1>2 DEF ChatInv, WorkingOK, Ack
  <2>a. UNCHANGED extra \/ \E text \in Texts \ {"wait", "reply"} : Post(j, text)
    BY <1>2 DEF Ack, Texts
  <2>b. /\ \A k \in Jobs \ {j} : failures'[k] = failures[k] /\ extra'[k] = extra[k]
        /\ failures'[j] \in Nat /\ failures'[j] >= failures[j]
    BY <1>1, <1>2, <2>a, TroubleOK, PostSays DEF Ack
  <2>3. About(j)
    BY <1>1, <1>2, <2>1, <2>b DEF About, Ack, HandlerGoto, Display, TypeOK
  <2>4. /\ hpc[j] = "idle" /\ hpc'[j] = "put"
        /\ ping'[j] = ping[j] /\ late'[j] = late[j] /\ working' = working
        /\ stoppedAt'[j] = stoppedAt[j] /\ wpc' = wpc
        /\ InQueue(j)' => InQueue(j)
        /\ (hasId'[j] /\ shown'[j] = "ack") \/ (~hasId'[j] /\ failures'[j] > 0)
        /\ shown'[j] \in {"ack", shown[j]}
    BY <1>1, <1>2, <2>1 DEF Ack, HandlerGoto, Display, Trouble, NoTrouble, TypeOK,
       JobOK, PlaceOK
  <2>5. /\ ping[j] = "off" /\ working # j /\ late[j] = "none" /\ shown[j] # "gone"
        /\ ~InQueue(j) /\ Without(extra[j], "reply")
    BY <1>1, <2>4 DEF JobOK, PlaceOK, WaitOK, ShownOK
  <2>6. PlaceOK(j)' BY <2>4, <2>5 DEF PlaceOK, Running, Calling
  <2>7. WaitOK(j)' BY <2>4, <2>a, <2>b, OtherTextKeeps
  <2>c. Without(extra'[j], "reply")
    BY <1>1, <2>5, <2>a, PostSays
  <2>8. ShownOK(j)' BY <2>4, <2>5, <2>c DEF ShownOK, Visible, Troubled
  <2> QED BY <1>1, <2>1, <2>2, <2>3, <2>6, <2>7, <2>8, StepAbout DEF JobOK
<1>3. CASE Put(j)
  <2>1. /\ queue' = Append(queue, j) /\ queue \in Seq(Jobs)
        /\ Len(queue) \in Nat /\ ~InQueue(j) /\ NoneTwice
    BY <1>1, <1>3 DEF Put, TypeOK, JobOK, PlaceOK, ChatInv
  <2>2. /\ Len(queue') = Len(queue) + 1 /\ queue'[Len(queue) + 1] = j
        /\ \A i \in 1 .. Len(queue) : queue'[i] = queue[i]
    BY <2>1
  <2>3. NoneTwice'
    BY <2>1, <2>2 DEF NoneTwice, InQueue
  <2>4. \A k \in Jobs \ {j} : InQueue(k)' => InQueue(k)
    BY <2>1, <2>2 DEF InQueue
  <2>5. /\ hpc[j] = "put" /\ hpc'[j] \in {"notice", "done"}
        /\ \A k \in Jobs \ {j} : hpc'[k] = hpc[k]
        /\ wpc' = wpc \/ (wpc = "dead" /\ wpc' = "get")
        /\ UNCHANGED <<hasId, working, ping, stoppedAt, late, shown, extra, failures>>
    BY <1>1, <1>3 DEF Put, HandlerGoto, TypeOK
  <2>6. WorkingOK' BY <2>5 DEF ChatInv, WorkingOK
  <2>f. failures[j] \in Nat BY <1>1, Counts
  <2>7. About(j) BY <2>4, <2>5, <2>f DEF About, ChatInv, WorkingOK
  <2>8. working # j BY <1>1, <2>5 DEF JobOK, PlaceOK
  <2>9. JobOK(j)'
    BY <1>1, <2>5, <2>8 DEF JobOK, PlaceOK, WaitOK, ShownOK, Running, Calling, Troubled
  <2> QED BY <1>1, <2>3, <2>6, <2>7, <2>9, StepAbout
<1>4. CASE PutRaises(j) \/ NoticeEdit(j) \/ NoticeSend(j)
  <2>1. NoneTwice' /\ \A k : InQueue(k)' => InQueue(k)
    BY <1>4, SameQueue DEF PutRaises, NoticeEdit, NoticeSend
  <2>2. /\ UNCHANGED <<hasId, working, wpc, ping, stoppedAt, late>>
        /\ hpc[j] # "idle" /\ hpc'[j] \in {"resend", "done"}
        /\ \A k \in Jobs \ {j} : hpc'[k] = hpc[k]
    BY <1>1, <1>4 DEF PutRaises, NoticeEdit, NoticeSend, HandlerGoto, TypeOK
  <2>3. /\ \A k \in Jobs \ {j} : failures'[k] = failures[k]
        /\ failures'[j] \in Nat /\ failures'[j] >= failures[j]
    <3>1. Trouble(j) \/ NoTrouble
      BY <1>4 DEF PutRaises, NoticeEdit, NoticeSend, EditSucceeds, EditFails, Send
    <3> QED BY <1>1, <3>1, TroubleOK
  <2>4. /\ \A k \in Jobs \ {j} : shown'[k] = shown[k]
        /\ shown'[j] = shown[j] \/ (shown[j] \in Visible /\ shown'[j] = "busy")
    BY <1>1, <1>4 DEF PutRaises, NoticeEdit, NoticeSend, EditSucceeds, EditFails,
       Display, TypeOK
  <2>5. UNCHANGED extra \/ \E text \in Texts \ {"wait", "reply"} : Post(j, text)
    BY <1>4 DEF PutRaises, NoticeEdit, NoticeSend, Send, Texts
  <2>6. WaitOK(j)' /\ \A k \in Jobs \ {j} : extra'[k] = extra[k]
    BY <2>2, <2>3, <2>5, OtherTextKeeps
  <2>7. Without(extra[j], "reply") => Without(extra'[j], "reply")
    BY <1>1, <2>5, PostSays
  <2>8. WorkingOK' BY <2>2 DEF ChatInv, WorkingOK
  <2>9. About(j) BY <2>1, <2>2, <2>3, <2>4, <2>6 DEF About
  <2>10. PlaceOK(j)' BY <1>1, <2>1, <2>2 DEF JobOK, PlaceOK
  <2>11. failures[j] \in Nat BY <1>1, Counts
  <2>12. ShownOK(j)'
    BY <1>1, <2>2, <2>3, <2>4, <2>7, <2>11 DEF JobOK, ShownOK, Visible, Troubled
  <2> QED BY <1>1, <2>1, <2>6, <2>8, <2>9, <2>10, <2>12, StepAbout DEF JobOK
<1> QED BY <1>2, <1>3, <1>4 DEF HandlerStep

\* The ping of a job, which runs only while the worker has the job.
LEMMA PingKeeps ==
    ASSUME ChatInv, TypeOK', NEW j \in Jobs, PingStep(j)
    PROVE  ChatInv'
<1> USE DEF pingFrame
<1>1. TypeOK /\ JobOK(j) BY DEF ChatInv
<1>2. /\ UNCHANGED <<hpc, hasId, queue, wpc, working, stoppedAt, late>>
      /\ ping[j] \in Running /\ ping'[j] \in {"edit", "send", "quiet"}
      /\ \A k \in Jobs \ {j} : ping'[k] = ping[k]
  BY <1>1 DEF PingStep, PingTimeout, PingEdit, PingSend, PingGoto, TypeOK, Running,
     Calling
<1>3. /\ working = j /\ wpc \in {"work", "stop"}
      /\ hpc[j] \notin {"idle", "put"} /\ ~InQueue(j) /\ late[j] = "none"
      /\ shown[j] # "gone" /\ Without(extra[j], "reply")
      /\ ~hasId[j] => failures[j] > 0
      /\ hasId[j] => shown[j] \in Visible
  BY <1>1, <1>2 DEF JobOK, PlaceOK, ShownOK, Running, Calling, Troubled
<1>4. /\ NoneTwice' /\ \A k : InQueue(k)' => InQueue(k)
      /\ WorkingOK'
  BY <1>2, SameQueue DEF ChatInv, WorkingOK
<1>5. /\ \A k \in Jobs \ {j} : failures'[k] = failures[k]
      /\ failures'[j] \in Nat /\ failures'[j] >= failures[j]
  <2>1. Trouble(j) \/ NoTrouble
    BY DEF PingStep, PingTimeout, PingEdit, PingSend, EditSucceeds, EditFails, Send,
       NoTrouble
  <2> QED BY <1>1, <2>1, TroubleOK
<1>a. Times(extra[j], "wait") \in Nat /\ failures[j] \in Nat BY <1>1, Counts
<1>6. /\ \A k \in Jobs \ {j} : shown'[k] = shown[k]
      /\ shown'[j] = shown[j] \/ (shown[j] \in Visible /\ shown'[j] = "wait")
  BY <1>1 DEF PingStep, PingTimeout, PingEdit, PingSend, EditSucceeds, EditFails,
     Display, TypeOK
<1>7. ping'[j] = "edit" => hasId[j]
  BY <1>1 DEF PingStep, PingTimeout, PingEdit, PingSend, PingGoto, TypeOK
<1>8. ping'[j] = "send" => ping[j] \in {"sleep", "edit"} /\ failures'[j] > 0
  <2>1. CASE PingTimeout(j)
    BY <1>1, <1>3, <2>1 DEF PingTimeout, PingGoto, TypeOK
  <2>2. CASE PingEdit(j)
    <3>1. shown[j] \in Visible BY <1>1, <1>3, <2>2 DEF PingEdit, JobOK, PlaceOK
    <3>2. PingGoto(j, "quiet") \/ Trouble(j)
      BY <2>2, <3>1 DEF PingEdit, EditFails
    <3>3. Trouble(j) => failures'[j] = failures[j] + 1 BY <1>1, TroubleOK
    <3> QED BY <1>1, <1>a, <2>2, <3>2, <3>3 DEF PingEdit, PingGoto, TypeOK
  <2>3. CASE PingSend(j) BY <1>1, <2>3 DEF PingSend, PingGoto, TypeOK
  <2> QED BY <2>1, <2>2, <2>3 DEF PingStep
<1>9. /\ \A k \in Jobs \ {j} : extra'[k] = extra[k]
      /\ Without(extra'[j], "reply")
      /\ ~Follows(extra'[j], "wait", "reply")
      /\ Times(extra'[j], "wait") <= failures'[j]
      /\ ping'[j] # "quiet" => Times(extra'[j], "wait") = 0
  <2>0. ~Follows(extra[j], "wait", "reply") BY <1>3 DEF Without, Follows
  <2>1. CASE UNCHANGED extra
    <3>1. ping'[j] # "quiet" => ping[j] \in {"sleep", "edit"}
      BY <1>1, <1>2 DEF PingStep, PingTimeout, PingEdit, PingSend, PingGoto, TypeOK
    <3> QED BY <1>1, <1>3, <1>5, <1>a, <2>0, <2>1, <3>1 DEF JobOK, WaitOK
  <2>2. CASE Post(j, "wait") /\ PingSend(j)
    <3>1. Times(extra[j], "wait") + 1 <= failures[j] /\ ping'[j] = "quiet"
      BY <1>1, <2>2 DEF PingSend, PingGoto, JobOK, WaitOK, TypeOK
    <3> QED BY <1>1, <1>3, <1>5, <1>a, <2>0, <2>2, <3>1, PostSays DEF Texts
  <2> QED BY <2>1, <2>2 DEF PingStep, PingTimeout, PingEdit, PingSend, Send
<1>10. About(j) BY <1>2, <1>4, <1>5, <1>6, <1>9 DEF About
<1>11. PlaceOK(j)' BY <1>2, <1>3, <1>4, <1>7 DEF PlaceOK, Running, Calling
<1>12. WaitOK(j)'
  BY <1>1, <1>2, <1>3, <1>5, <1>8, <1>9 DEF JobOK, WaitOK
<1>13. ShownOK(j)'
  BY <1>2, <1>3, <1>5, <1>6, <1>9, <1>a DEF ShownOK, Visible, Troubled
<1> QED BY <1>4, <1>10, <1>11, <1>12, <1>13, StepAbout DEF JobOK

\* A call whose caller is gone.
LEMMA LateCallKeeps ==
    ASSUME ChatInv, TypeOK', NEW j \in Jobs, LateCall(j)
    PROVE  ChatInv'
<1>1. TypeOK /\ JobOK(j) BY DEF ChatInv
<1>2. /\ UNCHANGED <<hpc, hasId, queue, wpc, working, ping, stoppedAt, failures>>
      /\ late[j] # "none" /\ late'[j] = "none"
      /\ \A k \in Jobs \ {j} : late'[k] = late[k]
  BY <1>1 DEF LateCall, TypeOK
<1>3. ping[j] = "over" BY <1>1, <1>2 DEF JobOK, PlaceOK
<1>4. /\ NoneTwice' /\ \A k : InQueue(k)' => InQueue(k)
      /\ WorkingOK'
  BY <1>2, SameQueue DEF ChatInv, WorkingOK
<1>5. /\ \A k \in Jobs \ {j} : shown'[k] = shown[k]
      /\ shown'[j] = shown[j] \/ (shown[j] \in Visible /\ shown'[j] = "wait")
  BY <1>1 DEF LateCall, Display, TypeOK
<1>a. Times(extra[j], "wait") \in Nat /\ failures[j] \in Nat BY <1>1, Counts
<1>6. /\ \A k \in Jobs \ {j} : extra'[k] = extra[k]
      /\ Without(extra[j], "reply") => Without(extra'[j], "reply")
      /\ Times(extra'[j], "wait") <= failures[j]
      /\ Follows(extra'[j], "wait", "reply") =>
            stoppedAt[j] = "send" /\ failures[j] > 0
  <2>1. CASE UNCHANGED extra BY <1>1, <2>1 DEF JobOK, WaitOK, Troubled
  <2>2. CASE late[j] = "send" /\ Post(j, "wait")
    <3>1. stoppedAt[j] = "send" /\ Times(extra[j], "wait") + 1 <= failures[j]
      BY <1>1, <2>2 DEF JobOK, WaitOK
    <3> QED BY <1>1, <1>a, <2>2, <3>1, PostSays DEF Texts
  <2> QED BY <2>1, <2>2 DEF LateCall
<1>7. About(j) BY <1>2, <1>4, <1>5, <1>6, <1>a DEF About
<1>8. PlaceOK(j)' BY <1>1, <1>2, <1>4 DEF JobOK, PlaceOK
<1>9. WaitOK(j)' BY <1>1, <1>2, <1>3, <1>6 DEF JobOK, WaitOK, Troubled
<1>10. ShownOK(j)' BY <1>1, <1>2, <1>3, <1>5, <1>6 DEF JobOK, ShownOK, Visible, Troubled
<1> QED BY <1>4, <1>7, <1>8, <1>9, <1>10, StepAbout DEF JobOK

\* An attempt that fails leaves its caller where it is.
LEMMA FailedAttemptKeeps ==
    ASSUME ChatInv, TypeOK', NEW j \in Jobs, FailedAttempt(j)
    PROVE  ChatInv'
<1>1. TypeOK /\ JobOK(j) BY DEF ChatInv
<1>2. UNCHANGED <<hpc, hasId, queue, wpc, working, ping, stoppedAt, late>>
  BY DEF FailedAttempt
<1>3. /\ \A k \in Jobs \ {j} : failures'[k] = failures[k]
      /\ failures'[j] \in Nat /\ failures'[j] = failures[j] + 1
      /\ Times(extra[j], "wait") \in Nat /\ failures[j] \in Nat
  BY <1>1, TroubleOK, Counts DEF FailedAttempt, TypeOK
<1>4. /\ NoneTwice' /\ \A k : InQueue(k)' => InQueue(k)
      /\ WorkingOK'
  BY <1>2, SameQueue DEF ChatInv, WorkingOK
<1>5. /\ \A k \in Jobs \ {j} : shown'[k] = shown[k]
      /\ \/ shown'[j] = shown[j]
         \/ shown[j] \in Visible /\ shown'[j] \in Visible
         \/ working = j /\ wpc \in {"dismiss", "again"} /\ shown'[j] = "gone"
  BY <1>1 DEF FailedAttempt, Display, Deleting, TypeOK
<1>6. \/ UNCHANGED extra
      \/ \E text \in Texts \ {"wait"} : Post(j, text) /\ Sending(j, text)
      \/ Post(j, "wait") /\ ping[j] = "send"
  BY DEF FailedAttempt, Sending
<1>7. Without(extra[j], "reply") /\ ping[j] # "over" => Without(extra'[j], "reply")
  <2>1. CASE UNCHANGED extra BY <2>1
  <2>2. ASSUME NEW text \in Texts, Post(j, text), Sending(j, text)
        PROVE  Without(extra[j], "reply") /\ ping[j] # "over"
                    => Without(extra'[j], "reply")
    <3>1. text = "reply" => ping[j] = "over"
      BY <1>1, <2>2 DEF Sending, JobOK, PlaceOK
    <3> QED BY <1>1, <2>2, <3>1, PostSays
  <2> QED BY <2>1, <2>2 DEF FailedAttempt
<1>8. WaitOK(j)' /\ \A k \in Jobs \ {j} : extra'[k] = extra[k]
  <2>1. CASE UNCHANGED extra \/ \E text \in Texts \ {"wait"} : Post(j, text)
    BY <1>2, <1>3, <2>1, OtherTextKeeps
  <2>2. CASE Post(j, "wait") /\ ping[j] = "send"
    <3>1. /\ Times(extra[j], "wait") + 1 <= failures[j]
          /\ Without(extra[j], "reply") /\ late[j] # "send"
      BY <1>1, <2>2 DEF JobOK, PlaceOK, WaitOK, ShownOK
    <3>2. /\ Times(extra'[j], "wait") = Times(extra[j], "wait") + 1
          /\ ~Follows(extra'[j], "wait", "reply")
          /\ \A k \in Jobs \ {j} : extra'[k] = extra[k]
      BY <1>1, <2>2, <3>1, PostSays DEF Texts, Follows, Without
    <3> QED BY <1>2, <1>3, <2>2, <3>1, <3>2 DEF WaitOK
  <2> QED BY <1>6, <2>1, <2>2
<1>9. About(j) BY <1>2, <1>3, <1>4, <1>5, <1>8 DEF About
<1>10. PlaceOK(j)' BY <1>1, <1>2, <1>4 DEF JobOK, PlaceOK
<1>11. working = j /\ wpc \in {"dismiss", "again"} => ping[j] = "over"
  BY <1>1 DEF JobOK, PlaceOK
<1>12. ShownOK(j)'
  BY <1>1, <1>2, <1>3, <1>5, <1>7, <1>11 DEF JobOK, ShownOK, Visible, Troubled
<1> QED BY <1>4, <1>8, <1>9, <1>10, <1>12, StepAbout DEF JobOK

\* The worker takes a job that nobody has talked about yet.
LEMMA GetKeeps ==
    ASSUME ChatInv, TypeOK', Get
    PROVE  ChatInv'
<1> USE DEF workerFrame
<1>1. TypeOK /\ queue # << >> /\ queue \in Seq(Jobs)
  BY DEF ChatInv, TypeOK, Get
<1>2. PICK j \in Jobs : j = Head(queue) BY <1>1, Queued
<1>3. /\ wpc = "get" /\ wpc' = "work" /\ working = NoJob /\ working' = j
      /\ queue' = Tail(queue) /\ ping'[j] = "sleep"
      /\ \A k \in Jobs \ {j} : ping'[k] = ping[k]
      /\ UNCHANGED <<hpc, hasId, stoppedAt, late, shown, extra, failures>>
  BY <1>1, <1>2 DEF Get, PingGoto, ChatInv, WorkingOK, TypeOK
<1>4. /\ Len(queue) \in Nat /\ Len(queue) > 0 /\ queue[1] = j
      /\ Len(queue') = Len(queue) - 1
      /\ \A i \in 1 .. Len(queue') : queue'[i] = queue[i + 1]
  BY <1>1, <1>2, <1>3, Queued
<1>5. \A i \in 1 .. Len(queue') : i + 1 \in 1 .. Len(queue) /\ i + 1 # 1 BY <1>4
<1>6. 1 \in 1 .. Len(queue) BY <1>4
<1>7. InQueue(j) BY <1>4, <1>6 DEF InQueue
<1>8. NoneTwice'
  <2> SUFFICES ASSUME NEW i \in 1 .. Len(queue'), NEW k \in 1 .. Len(queue'),
                      queue'[i] = queue'[k]
               PROVE  i = k
    BY DEF NoneTwice
  <2>1. i + 1 = k + 1 BY <1>4, <1>5 DEF ChatInv, NoneTwice
  <2> QED BY <2>1
<1>9. ~InQueue(j)' BY <1>4, <1>5, <1>6 DEF ChatInv, NoneTwice, InQueue
<1>10. \A k : InQueue(k)' => InQueue(k) BY <1>4, <1>5 DEF InQueue
<1>11. /\ ping[j] = "off" /\ hpc[j] \notin {"idle", "put"} /\ late[j] = "none"
       /\ shown[j] # "gone" /\ JobOK(j)
  BY <1>7 DEF ChatInv, JobOK, PlaceOK, ShownOK
<1>12. WorkingOK' BY <1>3 DEF WorkingOK
<1>a. Times(extra[j], "wait") \in Nat /\ failures[j] \in Nat BY <1>1, Counts DEF ChatInv
<1>13. About(j) BY <1>3, <1>10, <1>a DEF About
<1>14. PlaceOK(j)' BY <1>3, <1>9, <1>11 DEF PlaceOK, Running, Calling
<1>15. WaitOK(j)' BY <1>3, <1>11 DEF JobOK, WaitOK, Troubled
<1>16. ShownOK(j)' BY <1>3, <1>11 DEF JobOK, ShownOK, Troubled
<1> QED BY <1>8, <1>12, <1>13, <1>14, <1>15, <1>16, StepAbout DEF JobOK

\* It stops the ping, dismisses the status message and replies, in this order.
LEMMA WorkerKeeps ==
    ASSUME ChatInv, TypeOK', WorkerStep
    PROVE  ChatInv'
<1> USE DEF workerFrame
<1>0. CASE Get BY <1>0, GetKeeps
<1>1. TypeOK /\ WorkingOK BY DEF ChatInv
<1> SUFFICES ASSUME ~Get PROVE ChatInv' BY <1>0
<1>2. wpc \notin {"get", "dead"}
  BY DEF WorkerStep, WorkDone, WorkerDies, StopPing, Dismiss, Reply, DeliverRaises,
     DismissAgain, Apologise, DismissFrom, SendReplyFrom
<1>3. PICK j \in Jobs : j = working BY <1>1, <1>2 DEF WorkingOK, TypeOK
<1>4. /\ JobOK(j) /\ ping[j] # "off" /\ hpc[j] \notin {"idle", "put"}
      /\ ~InQueue(j) /\ (hasId[j] \/ failures[j] > 0)
  BY <1>3 DEF ChatInv, JobOK, PlaceOK, ShownOK, Troubled
<1>5. UNCHANGED <<hpc, hasId, queue>>
  BY DEF WorkerStep, WorkDone, WorkerDies, StopPing, Dismiss, Reply, DeliverRaises,
     DismissAgain, Apologise, DismissFrom, SendReplyFrom
<1>6. NoneTwice' /\ \A k : InQueue(k)' => InQueue(k) BY <1>5, SameQueue
<1>7. j # NoJob BY <1>3
<1>8. WorkingOK' /\ working' \in {j, NoJob}
  BY <1>1, <1>3, <1>7 DEF WorkerStep, WorkDone, WorkerDies, StopPing, Dismiss, Reply,
     DeliverRaises, DismissAgain, Apologise, DismissFrom, SendReplyFrom, WorkingOK
<1>a. Trouble(j) \/ NoTrouble
  BY <1>3 DEF WorkerStep, WorkDone, WorkerDies, StopPing, Dismiss, Reply, DeliverRaises,
     DismissAgain, Apologise, DismissFrom, SendReplyFrom, Send, NoTrouble
<1>9. /\ \A k \in Jobs \ {j} : failures'[k] = failures[k]
      /\ failures'[j] \in Nat /\ failures'[j] >= failures[j]
      /\ Times(extra[j], "wait") \in Nat /\ failures[j] \in Nat
  BY <1>1, <1>a, TroubleOK, Counts DEF TypeOK
<1>10. ASSUME UNCHANGED <<ping, stoppedAt, late>> \/ CancelPing(j)
       PROVE  /\ \A k \in Jobs \ {j} : /\ ping'[k] = ping[k] /\ late'[k] = late[k]
                                       /\ stoppedAt'[k] = stoppedAt[k]
              /\ \/ /\ ping'[j] = ping[j] /\ stoppedAt'[j] = stoppedAt[j]
                    /\ late'[j] = late[j]
                 \/ /\ ping'[j] = "over" /\ stoppedAt'[j] = ping[j]
                    /\ late'[j] \in {late[j], ping[j]}
  BY <1>1, <1>10 DEF CancelPing, PingGoto, TypeOK
<1>11. CASE WorkDone
  <2>1. /\ UNCHANGED <<working, ping, stoppedAt, late, shown, extra, failures>>
        /\ wpc = "work" /\ wpc' = "stop"
    BY <1>11 DEF WorkDone
  <2>2. About(j) BY <1>3, <1>5, <1>6, <1>9, <2>1 DEF About
  <2>3. PlaceOK(j)' BY <1>4, <1>5, <1>6, <2>1 DEF JobOK, PlaceOK
  <2>4. WaitOK(j)' BY <1>4, <2>1 DEF JobOK, WaitOK, Troubled
  <2>5. ShownOK(j)' BY <1>4, <1>5, <2>1 DEF JobOK, ShownOK, Troubled
  <2> QED BY <1>6, <1>8, <2>2, <2>3, <2>4, <2>5, StepAbout DEF JobOK
<1>12. CASE WorkerDies \/ StopPing
  <2>1. /\ UNCHANGED <<shown, extra>>
        /\ \/ wpc = "again" /\ UNCHANGED <<ping, stoppedAt, late>>
           \/ wpc \in {"work", "stop"} /\ CancelPing(j)
        /\ working' = NoJob \/ (working' = j /\ wpc' = "dismiss" /\ wpc = "stop")
    BY <1>3, <1>12 DEF WorkerDies, StopPing
  <2>2. About(j)
    BY <1>3, <1>5, <1>6, <1>8, <1>9, <1>10, <2>1 DEF About
  <2>3. ASSUME wpc = "again" PROVE JobOK(j)'
    <3>1. /\ UNCHANGED <<ping, stoppedAt, late, shown, extra>>
          /\ working' = NoJob /\ ping[j] = "over"
      BY <1>3, <1>4, <2>1, <2>3 DEF JobOK, PlaceOK
    <3>2. PlaceOK(j)'
      BY <1>4, <1>5, <1>6, <1>7, <3>1 DEF JobOK, PlaceOK, Running, Calling
    <3>3. WaitOK(j)' BY <1>4, <1>9, <3>1 DEF JobOK, WaitOK, Troubled
    <3>4. ShownOK(j)' BY <1>4, <1>5, <1>7, <1>9, <3>1 DEF JobOK, ShownOK, Troubled
    <3> QED BY <3>2, <3>3, <3>4 DEF JobOK
  <2>4. ASSUME wpc \in {"work", "stop"} PROVE JobOK(j)'
    <3>1. /\ ping'[j] = "over" /\ stoppedAt'[j] = ping[j]
          /\ late'[j] = IF ping[j] \in Calling THEN ping[j] ELSE late[j]
      BY <1>1, <2>1, <2>4 DEF CancelPing, PingGoto, TypeOK
    <3>2. PlaceOK(j)'
      BY <1>4, <1>5, <1>6, <1>7, <2>1, <3>1 DEF JobOK, PlaceOK, Running, Calling
    <3>3. ping[j] # "over"
      BY <1>3, <1>4, <2>4 DEF JobOK, PlaceOK, Running, Calling
    <3>4. ~Follows(extra[j], "wait", "reply")
      BY <1>4, <3>3 DEF JobOK, ShownOK, Without, Follows
    <3>5. /\ late'[j] = "send" => ping[j] = "send"
          /\ late[j] = "none"
      BY <1>4, <3>1, <3>3 DEF JobOK, PlaceOK, Calling
    <3>6. WaitOK(j)' BY <1>4, <1>9, <2>1, <3>1, <3>4, <3>5 DEF JobOK, WaitOK, Troubled
    <3>7. ShownOK(j)' BY <1>4, <1>5, <1>7, <1>9, <2>1, <3>1 DEF JobOK, ShownOK, Troubled
    <3> QED BY <3>2, <3>6, <3>7 DEF JobOK
  <2> QED BY <1>6, <1>8, <2>1, <2>2, <2>3, <2>4, StepAbout
<1>13. CASE Dismiss \/ DismissAgain
  <2>1. /\ UNCHANGED <<working, ping, stoppedAt, late, extra>>
        /\ \/ wpc = "dismiss" /\ wpc' = "reply"
           \/ wpc = "again" /\ wpc' = "apology"
        /\ \A k \in Jobs \ {j} : shown'[k] = shown[k]
        /\ shown'[j] \in {shown[j], "gone"}
        /\ shown'[j] = "gone" \/ failures'[j] > 0
    BY <1>1, <1>3, <1>4, <1>9, <1>13 DEF Dismiss, DismissAgain, DismissFrom, Display,
       Trouble, NoTrouble, TypeOK
  <2>2. ping[j] = "over" BY <1>3, <1>4, <2>1 DEF JobOK, PlaceOK
  <2>3. About(j) BY <1>3, <1>5, <1>6, <1>9, <2>1 DEF About
  <2>4. PlaceOK(j)'
    BY <1>4, <1>5, <1>6, <2>1, <2>2 DEF JobOK, PlaceOK, Running, Calling
  <2>5. WaitOK(j)' BY <1>4, <1>9, <2>1 DEF JobOK, WaitOK, Troubled
  <2>6. ShownOK(j)' BY <1>4, <1>5, <1>9, <2>1, <2>2 DEF JobOK, ShownOK, Troubled
  <2> QED BY <1>6, <1>8, <2>3, <2>4, <2>5, <2>6, StepAbout DEF JobOK
<1>14. CASE Reply \/ Apologise \/ DeliverRaises
  <2>1. /\ UNCHANGED <<ping, stoppedAt, late, shown>>
        /\ wpc \in {"reply", "apology"}
        /\ working' = NoJob \/ (working' = j /\ wpc' = "again")
        /\ UNCHANGED extra \/ Post(j, "reply")
    BY <1>3, <1>14 DEF Reply, Apologise, DeliverRaises, SendReplyFrom, Send
  <2>2. ping[j] = "over" /\ (~Troubled(j) => shown[j] = "gone")
    BY <1>3, <1>4, <2>1 DEF JobOK, PlaceOK, ShownOK
  <2>3. /\ \A k \in Jobs \ {j} : extra'[k] = extra[k]
        /\ WaitOK(j)'
    <3>1. UNCHANGED extra \/ \E text \in Texts \ {"wait"} : Post(j, text)
      BY <2>1 DEF Texts
    <3> QED BY <1>9, <2>1, <3>1, OtherTextKeeps
  <2>4. About(j) BY <1>3, <1>5, <1>6, <1>8, <1>9, <2>1, <2>3 DEF About
  <2>5. PlaceOK(j)'
    BY <1>4, <1>5, <1>6, <1>7, <2>1, <2>2 DEF JobOK, PlaceOK, Running, Calling
  <2>7. ShownOK(j)' BY <1>4, <1>5, <1>7, <1>9, <2>1, <2>2 DEF JobOK, ShownOK, Troubled
  <2> QED BY <1>6, <1>8, <2>3, <2>4, <2>5, <2>7, StepAbout DEF JobOK
<1> QED BY <1>11, <1>12, <1>13, <1>14 DEF WorkerStep

-----------------------------------------------------------------------------
(* What follows.                                                           *)

\* The places of a job, its texts and its status message go together.
THEOREM Invariance == Spec => []ChatInv
<1>1. Init => ChatInv
  <2> SUFFICES ASSUME Init PROVE ChatInv OBVIOUS
  <2>1. TypeOK
    BY DEF Init, TypeOK, HandlerPCs, WorkerPCs, PingPCs, Running, Calling, LateCalls,
       Displays
  <2>2. NoneTwice /\ WorkingOK BY DEF Init, NoneTwice, WorkingOK
  <2>3. ASSUME NEW j \in Jobs PROVE JobOK(j)
    <3>1. ~InQueue(j) BY DEF Init, InQueue
    <3>2. PlaceOK(j) BY <3>1 DEF Init, PlaceOK, Running, Calling
    <3>3. extra[j] = << >> BY DEF Init
    <3>4. /\ Without(extra[j], "reply") /\ Times(extra[j], "wait") = 0
          /\ ~Follows(extra[j], "wait", "reply")
      BY <3>3, NothingSaid
    <3>5. WaitOK(j) BY <3>4 DEF Init, WaitOK
    <3>6. ShownOK(j) BY <3>4 DEF Init, ShownOK
    <3> QED BY <3>2, <3>5, <3>6 DEF JobOK
  <2> QED BY <2>1, <2>2, <2>3 DEF ChatInv
<1>2. ChatInv /\ [Next]_vars => ChatInv'
  <2> SUFFICES ASSUME ChatInv, [Next]_vars PROVE ChatInv' OBVIOUS
  <2>1. TypeOK' BY TypeStep DEF ChatInv
  <2>2. CASE UNCHANGED vars
    BY <2>2 DEF vars, ChatInv, TypeOK, NoneTwice, WorkingOK, JobOK, PlaceOK, WaitOK,
       ShownOK, InQueue, Troubled
  <2> QED
    BY <2>1, <2>2, HandlerKeeps, PingKeeps, LateCallKeeps, FailedAttemptKeeps, WorkerKeeps
    DEF Next
<1> QED BY <1>1, <1>2, PTL DEF Spec

\* The variables keep their types.
THEOREM TypeCorrect == Spec => []TypeOK
<1>1. ChatInv => TypeOK BY DEF ChatInv
<1> QED BY <1>1, Invariance, PTL

\* No ping task outlives the work on its job.
THEOREM PingsEndWithWork == Spec => []PingOnlyWhileWorking
<1>1. ChatInv => PingOnlyWhileWorking
  BY DEF ChatInv, JobOK, PlaceOK, PingOnlyWhileWorking
<1> QED BY <1>1, Invariance, PTL

\* The status message is gone when the reply is there.
THEOREM StatusGoneBeforeReply == Spec => []NoStatusAfterReply
<1>1. ASSUME ChatInv PROVE NoStatusAfterReply
  <2> SUFFICES ASSUME NEW j \in Jobs, Position(j, "reply") # {}, ~Troubled(j)
               PROVE  shown[j] \notin Visible
    BY DEF NoStatusAfterReply
  <2>1. ~Without(extra[j], "reply") BY DEF Position, Without
  <2> QED BY <1>1, <2>1 DEF ChatInv, JobOK, ShownOK, Visible
<1> QED BY <1>1, Invariance, PTL

\* The text that asks for patience follows the reply only after a failed call.
THEOREM WaitBeforeReply == Spec => []NoWaitAfterReply
<1>1. ASSUME ChatInv PROVE NoWaitAfterReply
  <2> SUFFICES ASSUME NEW j \in Jobs, AfterReply(j, "wait")
               PROVE  stoppedAt[j] = "send" /\ Troubled(j)
    BY DEF NoWaitAfterReply
  <2>1. Follows(extra[j], "wait", "reply") BY DEF AfterReply, Position, Follows
  <2> QED BY <1>1, <2>1 DEF ChatInv, JobOK, WaitOK
<1> QED BY <1>1, Invariance, PTL

\* No new message asks for patience that is not owed to a failed call.
THEOREM WaitTextsOwed == Spec => []WaitTextsExplained
<1>1. ChatInv => WaitTextsExplained
  BY DEF ChatInv, JobOK, WaitOK, Times, WaitTextsExplained, Position
<1> QED BY <1>1, Invariance, PTL
=============================================================================
