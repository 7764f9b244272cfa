-------------------------- MODULE RequestLifecycle --------------------------
(***************************************************************************)
(* What the bot promises about one accepted request, seen from outside:    *)
(* its row in the "requests" table (RequestStatus of models.py) and what   *)
(* the user has been told in the chat.  Queues, workers, crashes and the   *)
(* clock are not visible here; RequestPipeline has them and implements     *)
(* this specification.                                                     *)
(***************************************************************************)

CONSTANT Requests

VARIABLES
    status,     \* [Requests -> Statuses]: the row of the request
    told        \* [Requests -> Replies]: the reply the user has got so far

vars == <<status, told>>

Active   == {"queued", "processing"}
Statuses == {"absent", "purged", "completed", "failed"} \cup Active

\* Why a request failed: the three except-branches of the tenant worker.
Reasons == {"remote", "unavailable", "internal"}
Replies == {"nothing", "partial", "answer"} \cup Reasons

TypeOK ==
    /\ status \in [Requests -> Statuses]
    /\ told \in [Requests -> Replies]

\* Nothing final has been said: no whole answer, no error message.
Undecided(r) == told[r] \in {"nothing", "partial"}

Init ==
    /\ status = [r \in Requests |-> "absent"]
    /\ told = [r \in Requests |-> "nothing"]

Move(r, from, to) ==
    /\ status[r] = from
    /\ status' = [status EXCEPT ![r] = to]
    /\ UNCHANGED told

Admit(r)    == Move(r, "absent", "queued")
Begin(r)    == Move(r, "queued", "processing")
Complete(r) == Move(r, "processing", "completed")

\* A completed request may still be recorded as failed, but only while no
\* whole answer has been delivered for it.
Fail(S) ==
    /\ \A r \in S : status[r] \in Active \cup {"completed"} /\ Undecided(r)
    /\ status' = [r \in Requests |-> IF r \in S THEN "failed" ELSE status[r]]
    /\ UNCHANGED told

Purge(S) ==
    /\ \A r \in S : status[r] # "absent"
    /\ status' = [r \in Requests |-> IF r \in S THEN "purged" ELSE status[r]]
    /\ UNCHANGED told

\* Part of the answer, the whole answer, or an error message is sent; each
\* needs the row to agree, unless the row is past its retention.
Tell(r, reply) ==
    /\ Undecided(r)
    /\ reply # "nothing"
    /\ status[r] \in {"purged",
                      IF reply \in Reasons THEN "failed" ELSE "completed"}
    /\ told' = [told EXCEPT ![r] = reply]
    /\ UNCHANGED status

Next ==
    \/ \E r \in Requests : Admit(r) \/ Begin(r) \/ Complete(r)
    \/ \E S \in SUBSET Requests : Fail(S) \/ Purge(S)
    \/ \E r \in Requests, reply \in Replies : Tell(r, reply)

Spec == Init /\ [][Next]_vars
=============================================================================
