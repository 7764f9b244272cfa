------------------------------ MODULE Delivery ------------------------------
(***************************************************************************)
(* An answer on its way into the chat: _send_response sends the chunks of  *)
(* the text and then the media, each by a call that is tried again by two  *)
(* nested loops and whose last exception is swallowed.  Bale may have      *)
(* shown a message although the call for it fails.                         *)
(*                                                                         *)
(* Python source: src/rivas/app.py (_send_response, the _safe_ calls,      *)
(* _call_bale_with_retry, _patch_bale_http_client) and, in SplitText,      *)
(* src/rivas/text_utils.py.  The waits between attempts are left out.      *)
(***************************************************************************)
EXTENDS SplitText

CONSTANTS
    Texts,      \* answers of the tenant's service, no letter twice in a text
    MaxMedia,   \* bound on the media that come with them
    Attempts,   \* BALE_RETRY_ATTEMPTS
    MaxErrors   \* bound on calls that fail

ASSUME DeliveryAssumption ==
    /\ Texts \subseteq Seq(Characters)
    /\ Attempts \in Nat \ {0}
    /\ MaxMedia \in Nat
    /\ MaxErrors \in Nat

VARIABLES
    text,          \* the text of the answer, until it is split
    media,         \* number of its media
    parts,         \* messages to send: the chunks, then the media; 0 until then
    next,          \* the part that is being sent
    outer, inner,  \* attempt of _call_bale_with_retry, of patched_request
    failed,        \* parts whose last call raised, as logged
    raised,        \* an exception has left _send_response
    \* the chat and history
    chat,          \* the parts as they appear
    calls,         \* calls made for each part
    refused,       \* parts that failed with an error not to be tried again
    errors

vars ==
    <<text, media, parts, next, outer, inner, failed, raised, chat, calls, refused,
      errors>>

\* Without chunks and media there is one message, ERR_NO_RESPONSE.
PartCount(t, n) == Max({1, Len(Chunks(t)) + n})

TypeOK ==
    /\ text \in Seq(Characters)
    /\ media \in 0 .. MaxMedia
    /\ parts \in Nat
    /\ next \in 1 .. parts + 1
    /\ outer \in 1 .. Attempts
    /\ inner \in 1 .. Attempts
    /\ failed \subseteq 1 .. parts
    /\ raised \in BOOLEAN
    /\ chat \in Seq(1 .. parts)
    /\ calls \in [1 .. parts -> 0 .. Attempts * Attempts]
    /\ refused \subseteq failed
    /\ errors \in 0 .. MaxErrors

Init ==
    /\ text \in Texts
    /\ media \in 0 .. MaxMedia
    /\ parts = 0
    /\ next = 1
    /\ outer = 1 /\ inner = 1
    /\ failed = {} /\ raised = FALSE
    /\ chat = << >>
    /\ calls = << >>
    /\ refused = {}
    /\ errors = 0

-----------------------------------------------------------------------------

\* The text is not needed once the parts are known.
Split ==
    /\ parts = 0
    /\ parts' = PartCount(text, media)
    /\ calls' = [i \in 1 .. parts' |-> 0]
    /\ text' = << >>
    /\ UNCHANGED <<media, next, outer, inner, failed, raised, chat, refused, errors>>

Call ==
    /\ next <= parts /\ ~raised
    /\ calls' = [calls EXCEPT ![next] = @ + 1]
    /\ UNCHANGED <<text, media, parts, raised>>

Shown == chat' = Append(chat, next)

\* The call raises; what it asked for may have been done.
CallFails ==
    /\ Call
    /\ errors < MaxErrors
    /\ errors' = errors + 1
    /\ Shown \/ UNCHANGED chat

NextPart == next' = next + 1 /\ outer' = 1 /\ inner' = 1

\* Mutants of Exhausted: one attempt less, one more.
Bug_ExhaustedEarly(attempt) == attempt + 1 >= Attempts
Bug_ExhaustedLate(attempt)  == attempt > Attempts

Exhausted(attempt) == attempt >= Attempts

\* The call returns.
Send ==
    /\ Call
    /\ Shown
    /\ NextPart
    /\ UNCHANGED <<failed, refused, errors>>

\* patched_request tries again: a transient NetworkError.
RetryRequest ==
    /\ CallFails
    /\ ~Exhausted(inner)
    /\ inner' = inner + 1
    /\ UNCHANGED <<next, outer, failed, refused>>

\* _call_bale_with_retry tries again: a transient NetworkError of the last
\* request or, at any of them, another error with the words of a transient one.
RetryCall ==
    /\ CallFails
    /\ ~Exhausted(outer)
    /\ outer' = outer + 1
    /\ inner' = 1
    /\ UNCHANGED <<next, failed, refused>>

\* Mutant of SwallowError: the exception ends _send_response.
Bug_SwallowErrorNot ==
    /\ failed' = failed \cup {next}
    /\ next' = parts + 1
    /\ UNCHANGED <<outer, inner>>

SwallowError ==
    /\ failed' = failed \cup {next}
    /\ NextPart

GiveUp ==
    /\ CallFails
    /\ Exhausted(outer)
    /\ SwallowError
    /\ UNCHANGED refused

\* An error that is not transient, at any attempt.
Refused ==
    /\ CallFails
    /\ refused' = refused \cup {next}
    /\ SwallowError

\* A medium cannot be made into an InputFile: the exception leaves
\* _send_response, and the parts from here on are not sent.
MediaRaises ==
    /\ next \in parts - media + 1 .. parts
    /\ calls[next] = 0
    /\ ~raised /\ raised' = TRUE
    /\ UNCHANGED <<text, media, parts, next, outer, inner, failed, chat, calls, refused,
                   errors>>

\* _send_response has ended.
Done == parts > 0 /\ (raised \/ next > parts) /\ UNCHANGED vars

Next ==
    \/ Split \/ Send \/ RetryRequest \/ RetryCall \/ GiveUp \/ Refused
    \/ MediaRaises \/ Done

Spec == Init /\ [][Next]_vars

-----------------------------------------------------------------------------

\* A part that the chat lacks was refused for good, or Bale was asked for it
\* as often as the outer loop allows; and what was sent without an error is
\* there.
HolesAreExplained ==
    \A i \in 1 .. next - 1 :
        i \notin Range(chat) =>
            i \in failed /\ (i \in refused \/ calls[i] >= Attempts)

\* Whatever is repeated by the two loops, the reader sees the parts in order,
\* each at most Attempts * Attempts times in a row, and none is missing of
\* which no failure is logged.  The copies of the part that is being sent do
\* not count yet: it may be sent again.  An exception only ends the delivery.
Promise ==
    INSTANCE OrderedDelivery WITH
        MaxCopies <- Attempts * Attempts,
        parts     <- IF parts = 0 THEN PartCount(text, media) ELSE parts,
        shown     <- Restrict(chat, {i \in DOMAIN chat : chat[i] < next})

ImplementsOrderedDelivery == Promise!Spec

\* Bale accepts each chunk of an answer, and no letter of the answer is lost,
\* added or moved.
SplitIsComplete == [][parts' # parts => Complete(text, Chunks(text))]_vars

\* The chunks read like the answer: no word that fits into a message is torn,
\* and the lines stay lines.
SplitIsReadable == [][parts' # parts => Readable(text, Chunks(text))]_vars
=============================================================================
