--------------------------- MODULE DeliveryProofs ---------------------------
(***************************************************************************)
(* Proofs about Delivery for any number of parts, attempts and errors.     *)
(* What split_text makes of an answer is known from SplitTextProofs.       *)
(***************************************************************************)
EXTENDS Delivery, SplitTextProofs

USE DeliveryAssumption

\* The part that is being sent has had a call for every attempt that is over.
CallsOK ==
    /\ parts \in Nat
    /\ next \in Nat /\ next >= 1
    /\ outer \in 1 .. Attempts
    /\ calls \in [1 .. parts -> Nat]
    /\ chat \in Seq(Nat)
    /\ next <= parts => calls[next] >= outer - 1
    /\ parts = 0 => next = 1 /\ outer = 1
    /\ text \in Seq(Characters)
    /\ media \in 0 .. MaxMedia

HolesInv == CallsOK /\ HolesAreExplained

\* An answer has at least one part.
LEMMA PartCountIsPositive ==
    ASSUME NEW t \in Seq(Characters), NEW n \in Nat
    PROVE  PartCount(t, n) \in Nat /\ PartCount(t, n) >= 1
<1>1. PICK k \in Nat : k = Len(Chunks(t)) + n
  <2>1. Chunks(t) \in Seq(Chunk) BY EveryChunkFits DEF Str
  <2> QED BY <2>1, LenProperties
<1>2. PICK S : S = {1, k} OBVIOUS
<1>3. \E m \in S : \A j \in S : j <= m
  <2>1. CASE k >= 1 BY <1>1, <1>2, <2>1
  <2>2. CASE k < 1 BY <1>1, <1>2, <2>2
  <2> QED BY <1>1, <2>1, <2>2
<1>4. Max(S) \in S /\ \A j \in S : j <= Max(S) BY <1>3 DEF Max
<1> QED BY <1>1, <1>2, <1>4 DEF PartCount

\* What is in a sequence after an append.
LEMMA AppendRange ==
    ASSUME NEW s \in Seq(Nat), NEW i \in Nat
    PROVE  /\ Append(s, i) \in Seq(Nat)
           /\ Range(Append(s, i)) = Range(s) \cup {i}
<1>1. Append(s, i) \in Seq(Nat) OBVIOUS
<1>2. /\ DOMAIN s = 1 .. Len(s) /\ Len(s) \in Nat
      /\ DOMAIN Append(s, i) = 1 .. Len(s) + 1
      /\ Append(s, i)[Len(s) + 1] = i
      /\ \A j \in 1 .. Len(s) : Append(s, i)[j] = s[j]
  OBVIOUS
<1>3. 1 .. Len(s) + 1 = (1 .. Len(s)) \cup {Len(s) + 1} BY <1>2
<1> QED BY <1>1, <1>2, <1>3 DEF Range

\* A call is counted, and shows its part or not.
LEMMA CallCounts ==
    ASSUME CallsOK, Call, Shown \/ UNCHANGED chat
    PROVE  /\ calls' \in [1 .. parts -> Nat] /\ chat' \in Seq(Nat)
           /\ calls'[next] >= outer
           /\ \A i \in 1 .. next - 1 : calls'[i] = calls[i]
           /\ Range(chat) \subseteq Range(chat')
           /\ Shown => next \in Range(chat')
<1>1. /\ next \in 1 .. parts
      /\ calls' = [calls EXCEPT ![next] = calls[next] + 1]
  BY DEF CallsOK, Call
<1>2. /\ calls' \in [1 .. parts -> Nat]
      /\ calls'[next] = calls[next] + 1
      /\ \A i \in 1 .. next - 1 : calls'[i] = calls[i]
  BY <1>1 DEF CallsOK
<1>3. calls'[next] >= outer BY <1>1, <1>2 DEF CallsOK
<1>4. /\ chat' \in Seq(Nat)
      /\ Range(chat) \subseteq Range(chat')
      /\ Shown => next \in Range(chat')
  BY AppendRange DEF CallsOK, Shown
<1> QED BY <1>2, <1>3, <1>4

\* Another attempt, of either loop, for the part that is being sent.
LEMMA RetryKeeps ==
    ASSUME HolesInv, CallFails, next' = next, failed' = failed, refused' = refused,
           outer' \in 1 .. Attempts, outer' <= outer + 1
    PROVE  HolesInv'
<1>1. Call /\ (Shown \/ UNCHANGED chat) /\ CallsOK /\ HolesAreExplained
  BY DEF CallFails, HolesInv
<1>2. /\ calls' \in [1 .. parts -> Nat] /\ chat' \in Seq(Nat)
      /\ calls'[next] >= outer
      /\ \A i \in 1 .. next - 1 : calls'[i] = calls[i]
      /\ Range(chat) \subseteq Range(chat')
  BY <1>1, CallCounts
<1>3. /\ parts' = parts /\ next \in 1 .. parts /\ parts \in Nat
      /\ text' \in Seq(Characters) /\ media' \in 0 .. MaxMedia
  BY <1>1 DEF Call, CallsOK
<1>4. calls'[next'] >= outer' - 1
  <2>1. calls'[next] \in Nat BY <1>2, <1>3
  <2>2. outer \in Nat /\ outer' \in Nat BY <1>1 DEF CallsOK
  <2>3. PICK n \in Nat : n = calls'[next] BY <2>1
  <2>4. PICK m \in Nat : m = outer' BY <2>2
  <2>5. n >= m - 1 BY <1>2, <2>2, <2>3, <2>4
  <2> QED BY <2>3, <2>4, <2>5
<1>5. CallsOK'
  <2>1. calls' \in [1 .. parts' -> Nat] /\ parts' # 0 /\ parts' \in Nat
    BY <1>2, <1>3
  <2>2. next' \in Nat /\ next' >= 1 BY <1>3
  <2> QED BY <1>2, <1>3, <1>4, <2>1, <2>2 DEF CallsOK
<1>6. HolesAreExplained'
  <2> SUFFICES ASSUME NEW i \in 1 .. next - 1, i \notin Range(chat')
               PROVE  i \in failed /\ (i \in refused \/ calls'[i] >= Attempts)
    BY DEF HolesAreExplained
  <2>1. i \notin Range(chat) /\ calls'[i] = calls[i] BY <1>2
  <2> QED BY <1>1, <2>1 DEF HolesAreExplained
<1> QED BY <1>5, <1>6 DEF HolesInv

\* The part is shown, or its last call has failed: on to the next one.
LEMMA PartEnds ==
    ASSUME HolesInv, Call, Shown \/ UNCHANGED chat, NextPart,
           failed \subseteq failed', refused \subseteq refused',
           Shown \/ (next \in failed' /\ (next \in refused' \/ outer >= Attempts))
    PROVE  HolesInv'
<1>1. CallsOK /\ HolesAreExplained BY DEF HolesInv
<1>2. /\ calls' \in [1 .. parts -> Nat] /\ chat' \in Seq(Nat)
      /\ calls'[next] >= outer
      /\ \A i \in 1 .. next - 1 : calls'[i] = calls[i]
      /\ Range(chat) \subseteq Range(chat')
      /\ Shown => next \in Range(chat')
  BY <1>1, CallCounts
<1>3. /\ parts' = parts /\ next \in 1 .. parts /\ parts \in Nat
      /\ text' \in Seq(Characters) /\ media' \in 0 .. MaxMedia
  BY <1>1 DEF Call, CallsOK
<1>4. next' = next + 1 /\ outer' = 1 BY DEF NextPart
<1>5. CallsOK'
  <2>1. calls' \in [1 .. parts' -> Nat] /\ parts' # 0 /\ parts' \in Nat
    BY <1>2, <1>3
  <2>2. next' \in Nat /\ next' >= 1 BY <1>3, <1>4
  <2>3. next' <= parts' => calls'[next'] >= outer' - 1
    <3>1. next' <= parts' => calls'[next'] \in Nat BY <2>1, <2>2
    <3> QED BY <1>4, <3>1
  <2>4. outer' \in 1 .. Attempts BY <1>4, DeliveryAssumption
  <2> QED BY <1>2, <1>3, <2>1, <2>2, <2>3, <2>4 DEF CallsOK
<1>6. HolesAreExplained'
  <2> SUFFICES ASSUME NEW i \in 1 .. next, i \notin Range(chat')
               PROVE  i \in failed' /\ (i \in refused' \/ calls'[i] >= Attempts)
    BY <1>3, <1>4 DEF HolesAreExplained
  <2>1. CASE i = next
    <3>1. calls'[next] \in Nat /\ outer \in Nat BY <1>1, <1>2, <1>3 DEF CallsOK
    <3>2. outer >= Attempts => calls'[next] >= Attempts BY <1>2, <3>1
    <3> QED BY <1>2, <2>1, <3>2
  <2>2. CASE i # next
    <3>1. i \in 1 .. next - 1 BY <1>3, <2>2
    <3>2. i \notin Range(chat) /\ calls'[i] = calls[i] BY <1>2, <3>1
    <3> QED BY <1>1, <3>1, <3>2 DEF HolesAreExplained
  <2> QED BY <2>1, <2>2
<1> QED BY <1>5, <1>6 DEF HolesInv

\* A part that the chat lacks was refused for good, or Bale was asked for it as
\* often as the outer loop allows, for any number of attempts and errors.
THEOREM HolesExplained == Spec => []HolesAreExplained
<1>1. Init => HolesInv
  BY DEF Init, HolesInv, CallsOK, HolesAreExplained
<1>2. HolesInv /\ [Next]_vars => HolesInv'
  <2> SUFFICES ASSUME HolesInv, [Next]_vars PROVE HolesInv' OBVIOUS
  <2>1. CASE Split
    <3>1. parts' \in Nat /\ parts' >= 1
      BY <2>1, PartCountIsPositive DEF Split, HolesInv, CallsOK
    <3>2. calls' \in [1 .. parts' -> Nat] /\ next' = 1 /\ media' = media
      BY <2>1, <3>1 DEF Split, HolesInv, CallsOK
    <3>3. next' <= parts' => calls'[next'] >= outer' - 1
      BY <2>1, <3>1, <3>2 DEF Split, HolesInv, CallsOK
    <3> QED BY <2>1, <3>1, <3>2, <3>3 DEF Split, HolesInv, CallsOK, HolesAreExplained
  <2>2. CASE RetryRequest \/ RetryCall
    <3>1. outer' \in 1 .. Attempts /\ outer' <= outer + 1
      BY <2>2 DEF RetryRequest, RetryCall, Exhausted, HolesInv, CallsOK
    <3>2. CallFails /\ next' = next /\ failed' = failed /\ refused' = refused
      BY <2>2 DEF RetryRequest, RetryCall
    <3> QED BY <3>1, <3>2, RetryKeeps
  <2>3. CASE Send
    <3>1. Call /\ Shown /\ NextPart /\ failed' = failed /\ refused' = refused
      BY <2>3 DEF Send
    <3> QED BY <3>1, PartEnds
  <2>4. CASE GiveUp
    <3>1. /\ Call /\ (Shown \/ UNCHANGED chat) /\ NextPart
          /\ failed' = failed \cup {next} /\ refused' = refused
          /\ outer >= Attempts
      BY <2>4 DEF GiveUp, CallFails, Exhausted, SwallowError
    <3> QED BY <3>1, PartEnds
  <2>5. CASE Refused
    <3>1. /\ Call /\ (Shown \/ UNCHANGED chat) /\ NextPart
          /\ failed' = failed \cup {next} /\ refused' = refused \cup {next}
      BY <2>5 DEF Refused, CallFails, SwallowError
    <3> QED BY <3>1, PartEnds
  <2>6. CASE UNCHANGED vars
    BY <2>6 DEF vars, HolesInv, CallsOK, HolesAreExplained
  <2>7. CASE MediaRaises
    BY <2>7 DEF MediaRaises, HolesInv, CallsOK, HolesAreExplained
  <2> QED BY <2>1, <2>2, <2>3, <2>4, <2>5, <2>6, <2>7 DEF Next, Done
<1>3. HolesInv => HolesAreExplained BY DEF HolesInv
<1> QED BY <1>1, <1>2, <1>3, PTL DEF Spec

-----------------------------------------------------------------------------
(* Type correctness: in particular, no part is asked for more often than   *)
(* the two loops allow together.                                           *)

\* The calls that can have been made before the attempts outer and inner.
Budget == (outer - 1) * Attempts + (inner - 1)

TypeInv ==
    /\ TypeOK
    /\ parts = 0 => next = 1 /\ outer = 1 /\ inner = 1 /\ failed = {} /\ chat = << >>
    /\ next <= parts => calls[next] <= Budget
    /\ \A i \in 1 .. parts : i > next => calls[i] = 0

\* The two loops: inner goes through its attempts for every attempt of outer.
LEMMA Loops ==
    ASSUME NEW i \in 1 .. Attempts, NEW o \in 1 .. Attempts
    PROVE  /\ (o - 1) * Attempts + (i - 1) \in Nat
           /\ (o - 1) * Attempts + i <= Attempts * Attempts
           /\ o < Attempts => (o - 1) * Attempts + i <= ((o + 1) - 1) * Attempts + (1 - 1)
<1>1. PICK a \in Nat : a = Attempts OBVIOUS
<1>2. PICK k \in Nat : k = o - 1 OBVIOUS
<1>3. k * a \in Nat /\ (k + 1) * a = k * a + a BY <1>1, <1>2
<1>4. k + 1 <= a => (k + 1) * a <= a * a
  <2>1. SUFFICES ASSUME k + 1 <= a PROVE (k + 1) * a <= a * a OBVIOUS
  <2>2. PICK d \in Nat : a = (k + 1) + d BY <2>1
  <2>3. a * a = (k + 1) * a + d * a /\ d * a >= 0 BY <2>2
  <2> QED BY <2>3
<1> QED BY <1>1, <1>2, <1>3, <1>4

\* A call is one of those, and moves the part that is sent only forward.
LEMMA CallFits ==
    ASSUME TypeInv, Call, Shown \/ UNCHANGED chat
    PROVE  /\ calls' \in [1 .. parts -> 0 .. Attempts * Attempts]
           /\ chat' \in Seq(1 .. parts)
           /\ next \in 1 .. parts /\ parts # 0
           /\ calls'[next] <= Budget + 1
           /\ \A i \in 1 .. parts \ {next} : calls'[i] = calls[i]
<1>1. /\ next \in 1 .. parts /\ parts \in Nat
      /\ calls' = [calls EXCEPT ![next] = calls[next] + 1]
  BY DEF TypeInv, TypeOK, Call
<1>2. calls[next] <= Budget /\ calls[next] \in Nat BY <1>1 DEF TypeInv, TypeOK
<1>3. Budget \in Nat /\ Budget + 1 <= Attempts * Attempts
  <2>1. /\ Budget \in Nat
        /\ (outer - 1) * Attempts + inner <= Attempts * Attempts
    BY Loops DEF TypeInv, TypeOK, Budget
  <2>2. PICK b \in Int : b = (outer - 1) * Attempts BY DEF TypeInv, TypeOK
  <2> QED BY <2>1, <2>2 DEF Budget, TypeInv, TypeOK
<1>4. PICK m \in Nat : m = Attempts * Attempts OBVIOUS
<1>5. calls[next] + 1 \in 0 .. m BY <1>2, <1>3, <1>4
<1>6. calls \in [1 .. parts -> 0 .. m] BY <1>4 DEF TypeInv, TypeOK
<1>7. /\ calls' \in [1 .. parts -> 0 .. m]
      /\ calls'[next] = calls[next] + 1
      /\ \A i \in 1 .. parts \ {next} : calls'[i] = calls[i]
  BY <1>1, <1>5, <1>6
<1>8. chat' \in Seq(1 .. parts)
  <2>1. PICK P : P = 1 .. parts OBVIOUS
  <2>2. chat \in Seq(P) /\ next \in P BY <1>1, <2>1 DEF TypeInv, TypeOK
  <2>3. chat' \in Seq(P) BY <2>2 DEF Shown
  <2> QED BY <2>1, <2>3
<1>9. calls'[next] <= Budget + 1 BY <1>2, <1>3, <1>7
<1> QED BY <1>1, <1>4, <1>7, <1>8, <1>9

\* The calls made for a part keep within what the loops allow.
THEOREM TypeInvariance == Spec => []TypeInv
<1>1. Init => TypeInv
  <2> SUFFICES ASSUME Init PROVE TypeInv OBVIOUS
  <2>1. calls \in [1 .. parts -> 0 .. Attempts * Attempts] BY DEF Init
  <2>2. text \in Seq(Characters) BY DEF Init
  <2>3. /\ parts = 0 /\ next = 1 /\ outer = 1 /\ inner = 1 /\ chat = << >>
        /\ failed = {} /\ refused = {} /\ errors = 0 /\ raised = FALSE
        /\ media \in 0 .. MaxMedia
    BY DEF Init
  <2>4. chat \in Seq(1 .. parts) /\ outer \in 1 .. Attempts BY <2>3
  <2>5. TypeOK
    <3>1. PICK m : m = Attempts * Attempts OBVIOUS
    <3>2. parts \in Nat /\ next \in 1 .. parts + 1 /\ inner \in 1 .. Attempts
      BY <2>3, <2>4
    <3>3. failed \subseteq 1 .. parts /\ refused \subseteq failed BY <2>3
    <3>4. errors \in 0 .. MaxErrors BY <2>3
    <3> QED BY <2>1, <2>2, <2>3, <2>4, <3>1, <3>2, <3>3, <3>4 DEF TypeOK
  <2>6. ~(next <= parts) /\ \A i \in 1 .. parts : FALSE BY <2>3
  <2> QED BY <2>3, <2>5, <2>6 DEF TypeInv
<1>2. TypeInv /\ [Next]_vars => TypeInv'
  <2> SUFFICES ASSUME TypeInv, [Next]_vars PROVE TypeInv' OBVIOUS
  <2> USE DEF TypeInv, TypeOK
  <2>1. CASE Split
    <3>1. parts' \in Nat /\ parts' >= 1 BY <2>1, PartCountIsPositive DEF Split
    <3>2. PICK m \in Nat : m = Attempts * Attempts OBVIOUS
    <3>3. /\ calls' \in [1 .. parts' -> 0 .. m]
          /\ \A i \in 1 .. parts' : calls'[i] = 0
      BY <2>1, <3>1, <3>2 DEF Split
    <3>4. next' = 1 /\ outer' = 1 /\ inner' = 1 /\ chat' = << >> /\ failed' = {}
      BY <2>1 DEF Split
    <3>5. calls'[next'] <= Budget'
      <4>1. Budget' = 0 BY <3>4 DEF Budget
      <4> QED BY <3>1, <3>3, <3>4, <4>1
    <3> QED BY <2>1, <3>1, <3>2, <3>3, <3>4, <3>5 DEF Split
  <2>2. ASSUME Call, Shown \/ UNCHANGED chat, errors' \in 0 .. MaxErrors,
               next' = next, outer' \in 1 .. Attempts, inner' \in 1 .. Attempts,
               Budget + 1 <= Budget', UNCHANGED <<failed, refused>>
        PROVE  TypeInv'
    <3>1. /\ calls' \in [1 .. parts -> 0 .. Attempts * Attempts]
          /\ chat' \in Seq(1 .. parts)
          /\ next \in 1 .. parts /\ parts # 0
          /\ calls'[next] <= Budget + 1
          /\ \A i \in 1 .. parts \ {next} : calls'[i] = calls[i]
      <4> HIDE DEF TypeInv, TypeOK
      <4> QED BY <2>2, CallFits
    <3>2. Budget \in Nat /\ Budget' \in Nat BY <2>2, Loops DEF Budget
    <3>3. PICK m \in Nat : m = Attempts * Attempts OBVIOUS
    <3>4. calls'[next] <= Budget'
      <4>1. calls'[next] \in Nat BY <3>1, <3>3
      <4> QED BY <2>2, <3>1, <3>2, <4>1
    <3>5. \A i \in 1 .. parts : i > next => calls'[i] = 0 BY <3>1
    <3>6. UNCHANGED <<text, media, parts, raised>> BY <2>2 DEF Call
    <3> QED BY <2>2, <3>1, <3>4, <3>5, <3>6
  <2>3. ASSUME Call, Shown \/ UNCHANGED chat, errors' \in 0 .. MaxErrors, NextPart,
               failed' \subseteq 1 .. parts, refused' \subseteq failed'
        PROVE  TypeInv'
    <3>1. /\ calls' \in [1 .. parts -> 0 .. Attempts * Attempts]
          /\ chat' \in Seq(1 .. parts)
          /\ next \in 1 .. parts /\ parts # 0
          /\ \A i \in 1 .. parts \ {next} : calls'[i] = calls[i]
      <4> HIDE DEF TypeInv, TypeOK
      <4> QED BY <2>3, CallFits
    <3>2. \A i \in 1 .. parts : i > next => calls'[i] = 0 BY <3>1
    <3>3. next' = next + 1 /\ outer' = 1 /\ inner' = 1 BY <2>3 DEF NextPart
    <3>4. Budget' = 0 BY <3>3 DEF Budget
    <3>5. /\ next' <= parts => calls'[next'] <= Budget'
          /\ \A i \in 1 .. parts : i > next' => calls'[i] = 0
      BY <3>1, <3>2, <3>3, <3>4
    <3>6. UNCHANGED <<text, media, parts, raised>> BY <2>3 DEF Call
    <3>7. TypeOK'
      <4>1. next' \in 1 .. parts' + 1 /\ outer' \in 1 .. Attempts
            /\ inner' \in 1 .. Attempts
        BY <3>1, <3>3, <3>6
      <4>2. /\ text' \in Seq(Characters) /\ media' \in 0 .. MaxMedia
            /\ parts' \in Nat /\ raised' \in BOOLEAN
        BY <3>6
      <4> HIDE DEF TypeInv
      <4> QED BY <2>3, <3>1, <3>6, <4>1, <4>2
    <3> QED BY <2>3, <3>1, <3>3, <3>5, <3>6, <3>7
  <2>4. CASE RetryRequest
    <3>1. inner' = inner + 1 /\ outer' = outer /\ inner' \in 1 .. Attempts
      BY <2>4 DEF RetryRequest, Exhausted
    <3>2. Budget + 1 <= Budget'
      <4>1. Budget \in Nat BY Loops DEF Budget
      <4>2. PICK b \in Int : b = (outer - 1) * Attempts OBVIOUS
      <4>3. Budget = b + (inner - 1) /\ Budget' = b + (inner' - 1)
        BY <3>1, <4>2 DEF Budget
      <4>4. PICK j \in Int : j = inner OBVIOUS
      <4>5. Budget = b + (j - 1) /\ Budget' = b + ((j + 1) - 1) BY <3>1, <4>3, <4>4
      <4> HIDE DEF TypeInv, TypeOK
      <4> QED BY <4>5
    <3>3. outer' \in 1 .. Attempts /\ inner' \in 1 .. Attempts BY <3>1
    <3>4. /\ Call /\ (Shown \/ UNCHANGED chat) /\ errors' \in 0 .. MaxErrors
          /\ next' = next /\ UNCHANGED <<failed, refused>>
      BY <2>4 DEF RetryRequest, CallFails
    <3> HIDE DEF TypeInv, TypeOK
    <3> QED BY <2>2, <3>2, <3>3, <3>4
  <2>5. CASE RetryCall
    <3>1. outer' = outer + 1 /\ inner' = 1 /\ outer < Attempts
      BY <2>5 DEF RetryCall, Exhausted
    <3>2. (outer - 1) * Attempts + inner <= ((outer + 1) - 1) * Attempts + (1 - 1)
      BY <3>1, Loops
    <3>3. Budget + 1 <= Budget'
      <4>1. PICK b \in Int : b = (outer - 1) * Attempts OBVIOUS
      <4>2. PICK d \in Int : d = ((outer + 1) - 1) * Attempts OBVIOUS
      <4>3. Budget = b + (inner - 1) /\ Budget' = d + (1 - 1)
        BY <3>1, <4>1, <4>2 DEF Budget
      <4>4. PICK j \in Int : j = inner OBVIOUS
      <4>5. /\ Budget = b + (j - 1) /\ Budget' = d + (1 - 1)
            /\ b + j <= d + (1 - 1)
        BY <3>2, <4>1, <4>2, <4>3, <4>4
      <4> HIDE DEF TypeInv, TypeOK
      <4> QED BY <4>5
    <3>4. outer' \in 1 .. Attempts /\ inner' \in 1 .. Attempts BY <3>1
    <3>5. /\ Call /\ (Shown \/ UNCHANGED chat) /\ errors' \in 0 .. MaxErrors
          /\ next' = next /\ UNCHANGED <<failed, refused>>
      BY <2>5 DEF RetryCall, CallFails
    <3> HIDE DEF TypeInv, TypeOK
    <3> QED BY <2>2, <3>3, <3>4, <3>5
  <2>6. CASE Send BY <2>3, <2>6, CallFits DEF Send
  <2>7. CASE GiveUp \/ Refused
    <3>1. /\ Call /\ (Shown \/ UNCHANGED chat) /\ NextPart
          /\ errors < MaxErrors /\ errors' = errors + 1
          /\ failed' = failed \cup {next}
          /\ refused' \in {refused, refused \cup {next}}
      BY <2>7 DEF GiveUp, Refused, CallFails, SwallowError
    <3>2. next \in 1 .. parts BY <3>1, CallFits
    <3>3. failed' \subseteq 1 .. parts /\ refused' \subseteq failed'
      BY <3>1, <3>2
    <3>4. errors' \in 0 .. MaxErrors BY <3>1
    <3> QED BY <2>3, <3>1, <3>3, <3>4
  <2>8. CASE UNCHANGED vars BY <2>8 DEF vars, Budget
  <2>9. CASE MediaRaises BY <2>9 DEF MediaRaises, Budget
  <2> QED BY <2>1, <2>4, <2>5, <2>6, <2>7, <2>8, <2>9 DEF Next, Done
<1> QED BY <1>1, <1>2, PTL DEF Spec

\* Every variable keeps its type, for any number of attempts, media and errors:
\* Bale is never asked for a part more than Attempts * Attempts times.
THEOREM TypeCorrect == Spec => []TypeOK
<1>1. TypeInv => TypeOK BY DEF TypeInv
<1> QED BY <1>1, TypeInvariance, PTL

-----------------------------------------------------------------------------
(* The refinement.  The chat consists of the parts that are done with and  *)
(* of copies of the part that is being sent; only the former are shown.    *)

Shows(c, n) == Restrict(c, {i \in DOMAIN c : c[i] < n})

InOrder(c, n, k) ==
    /\ k \in 0 .. Len(c)
    /\ \A i \in 1 .. k : c[i] < n
    /\ \A i \in k + 1 .. Len(c) : c[i] = n

\* There is a copy for no more than the calls that were made.
ChatInOrder ==
    \E k \in 0 .. Len(chat) :
        /\ InOrder(chat, next, k)
        /\ Len(chat) - k <= IF next \in 1 .. parts THEN calls[next] ELSE 0

\* What is shown is the beginning of the chat.
LEMMA ShowsBeginning ==
    ASSUME NEW c \in Seq(Nat), NEW n \in Nat, NEW k, InOrder(c, n, k)
    PROVE  Shows(c, n) = [i \in 1 .. k |-> c[i]]
<1>1. {i \in DOMAIN c : c[i] < n} = 1 .. k
  <2>1. DOMAIN c = 1 .. Len(c) /\ Len(c) \in Nat /\ k \in 0 .. Len(c) BY DEF InOrder
  <2>2. \A i \in 1 .. Len(c) : i <= k \/ i \in k + 1 .. Len(c) BY <2>1
  <2>3. \A i \in 1 .. Len(c) : c[i] < n <=> i <= k
    BY <2>1, <2>2 DEF InOrder
  <2> QED BY <2>1, <2>3
<1> QED BY <1>1 DEF Shows, Restrict

\* It grows by the copies when the next part is taken up.
LEMMA ShowsMore ==
    ASSUME NEW c \in Seq(Nat), NEW n \in Nat, NEW k, InOrder(c, n, k)
    PROVE  /\ InOrder(c, n + 1, Len(c))
           /\ Shows(c, n + 1) = Shows(c, n) \o [i \in 1 .. Len(c) - k |-> n]
<1>1. Len(c) \in Nat /\ k \in Nat /\ k <= Len(c) BY DEF InOrder
<1>2. \A i \in 1 .. Len(c) : c[i] <= n
  <2>1. \A i \in 1 .. Len(c) : i \in 1 .. k \/ i \in k + 1 .. Len(c) BY <1>1
  <2> QED BY <2>1 DEF InOrder
<1>3. InOrder(c, n + 1, Len(c)) BY <1>1, <1>2 DEF InOrder
<1>4. Shows(c, n + 1) = [i \in 1 .. Len(c) |-> c[i]] BY <1>3, ShowsBeginning
<1>5. Shows(c, n) = [i \in 1 .. k |-> c[i]] BY ShowsBeginning
<1>6. PICK m \in Nat : m = Len(c) - k BY <1>1
<1>7. [i \in 1 .. Len(c) |-> c[i]] = [i \in 1 .. k |-> c[i]] \o [i \in 1 .. m |-> n]
  <2> DEFINE s == [i \in 1 .. k |-> c[i]]
             t == [i \in 1 .. m |-> n]
  <2>1. s \in Seq(Nat) /\ t \in Seq(Nat) /\ Len(s) = k /\ Len(t) = m BY <1>1, <1>6
  <2> HIDE DEF s, t
  <2>2. /\ s \o t \in Seq(Nat) /\ Len(s \o t) = k + m
        /\ \A i \in 1 .. k + m : (s \o t)[i] = IF i <= k THEN s[i] ELSE t[i - k]
    BY <2>1, ConcatProperties
  <2>3. ASSUME NEW i \in 1 .. k + m PROVE (s \o t)[i] = c[i]
    <3>1. CASE i <= k BY <1>1, <2>2, <3>1 DEF s
    <3>2. CASE i > k
      <4>1. i - k \in 1 .. m /\ i \in k + 1 .. Len(c) BY <1>1, <1>6, <3>2
      <4>2. c[i] = n BY <4>1 DEF InOrder
      <4>3. t[i - k] = n BY <4>1 DEF t
      <4>4. ~(i <= k) BY <1>1, <3>2
      <4> QED BY <2>2, <4>2, <4>3, <4>4
    <3>3. i <= k \/ i > k BY <1>1
    <3> QED BY <3>1, <3>2, <3>3
  <2>4. c = [i \in 1 .. Len(c) |-> c[i]] BY LenProperties
  <2>5. Len(s \o t) = Len(c) BY <1>1, <1>6, <2>2
  <2>6. \A i \in 1 .. Len(s \o t) : (s \o t)[i] = c[i] BY <2>2, <2>3
  <2>7. s \o t = c BY <2>2, <2>5, <2>6, SeqEqual
  <2> QED BY <2>4, <2>7 DEF s, t
<1> QED BY <1>3, <1>4, <1>5, <1>6, <1>7

\* One more copy of the part that is being sent.
LEMMA OneMoreCopy ==
    ASSUME NEW c \in Seq(Nat), NEW n \in Nat, NEW k, InOrder(c, n, k)
    PROVE  InOrder(Append(c, n), n, k)
<1>1. /\ Len(Append(c, n)) = Len(c) + 1 /\ Len(c) \in Nat
      /\ \A i \in 1 .. Len(c) : Append(c, n)[i] = c[i]
      /\ Append(c, n)[Len(c) + 1] = n
  OBVIOUS
<1>2. k \in 0 .. Len(c) BY DEF InOrder
<1>3. \A i \in 1 .. k : Append(c, n)[i] < n BY <1>1, <1>2 DEF InOrder
<1>4. \A i \in k + 1 .. Len(c) + 1 : Append(c, n)[i] = n
  <2>1. \A i \in k + 1 .. Len(c) + 1 : i \in k + 1 .. Len(c) \/ i = Len(c) + 1
    BY <1>1, <1>2
  <2> QED BY <1>1, <1>2, <2>1 DEF InOrder
<1> QED BY <1>1, <1>2, <1>3, <1>4 DEF InOrder

\* A call adds at most one copy.
LEMMA CallInOrder ==
    ASSUME TypeInv, ChatInOrder, Call, Shown \/ UNCHANGED chat
    PROVE  \E k \in 0 .. Len(chat) :
               /\ InOrder(chat, next, k) /\ InOrder(chat', next, k)
               /\ Len(chat') - k <= calls'[next]
               /\ Shown => Len(chat') - k >= 1
               /\ Shows(chat', next) = Shows(chat, next)
<1>1. /\ next \in 1 .. parts /\ parts \in Nat /\ calls'[next] = calls[next] + 1
      /\ calls[next] \in Nat /\ chat \in Seq(1 .. parts)
  BY DEF TypeInv, TypeOK, Call
<1>2. chat \in Seq(Nat) BY <1>1, SeqMonotonic
<1>3. PICK k \in 0 .. Len(chat) :
          InOrder(chat, next, k) /\ Len(chat) - k <= calls[next]
  BY <1>1 DEF ChatInOrder
<1>4. CASE Shown
  <2>1. chat' = Append(chat, next) BY <1>4 DEF Shown
  <2>2. InOrder(chat', next, k) BY <1>1, <1>2, <1>3, <2>1, OneMoreCopy
  <2>3. /\ Append(chat, next) \in Seq(Nat) /\ Len(Append(chat, next)) = Len(chat) + 1
        /\ Len(chat) \in Nat
        /\ \A i \in 1 .. Len(chat) : Append(chat, next)[i] = chat[i]
    BY <1>1, <1>2
  <2>4. Shows(chat, next) = [i \in 1 .. k |-> chat[i]] BY <1>1, <1>2, <1>3, ShowsBeginning
  <2>5. Shows(Append(chat, next), next) = [i \in 1 .. k |-> Append(chat, next)[i]]
    <3>1. PICK d \in Seq(Nat) : d = Append(chat, next) BY <2>3
    <3>2. InOrder(d, next, k) /\ next \in Nat BY <1>1, <2>1, <2>2, <3>1
    <3>3. Shows(d, next) = [i \in 1 .. k |-> d[i]] BY <3>2, ShowsBeginning
    <3> QED BY <3>1, <3>3
  <2>6. \A i \in 1 .. k : Append(chat, next)[i] = chat[i] BY <2>3
  <2>7. Shows(chat', next) = Shows(chat, next) BY <2>1, <2>4, <2>5, <2>6
  <2> QED BY <1>1, <1>3, <2>1, <2>2, <2>3, <2>7
<1>5. CASE UNCHANGED chat
  <2>1. Len(chat) \in Nat BY <1>2
  <2>2. ~Shown \/ Len(chat) >= k + 1
    <3>1. Shown => chat = Append(chat, next) BY <1>5 DEF Shown
    <3>2. Len(Append(chat, next)) = Len(chat) + 1 BY <1>2
    <3> QED BY <2>1, <3>1, <3>2
  <2> QED BY <1>1, <1>3, <1>5, <2>1, <2>2
<1> QED BY <1>4, <1>5

\* Every step of the two loops is none of the promise, or delivers the part.
LEMMA StepDelivers ==
    ASSUME TypeInv, ChatInOrder, [Next]_vars, TypeInv'
    PROVE  ChatInOrder' /\ [Promise!Deliver]_(Promise!vars)
<1> DEFINE count == IF parts = 0 THEN PartCount(text, media) ELSE parts
           shown == Shows(chat, next)
<1>0. /\ UNCHANGED Promise!vars <=> UNCHANGED <<count, next, shown, failed>>
      /\ Promise!Deliver =
            /\ next <= count
            /\ \/ /\ failed' = failed
                  /\ \E copies \in 1 .. Attempts * Attempts :
                        shown' = shown \o [i \in 1 .. copies |-> next]
               \/ /\ failed' = failed \cup {next}
                  /\ \E copies \in 0 .. Attempts * Attempts :
                        shown' = shown \o [i \in 1 .. copies |-> next]
            /\ next' = next + 1
            /\ count' = count
  BY DEF Promise!vars, Promise!Deliver, Promise!Show, Shows
<1>1. CASE Split
  <2>1. /\ parts = 0 /\ next = 1 /\ chat = << >>
        /\ UNCHANGED <<next, chat, failed>>
        /\ parts' = PartCount(text, media)
    BY <1>1 DEF Split, TypeInv
  <2>2. parts' # 0 BY <1>1, <2>1, PartCountIsPositive DEF TypeInv, TypeOK
  <2>3. UNCHANGED Promise!vars BY <1>0, <2>1, <2>2
  <2>4. ChatInOrder'
    <3>1. InOrder(<< >>, 1, 0) /\ Len(<< >>) = 0 BY DEF InOrder
    <3>2. calls'[1] \in Nat BY <2>1, <2>2 DEF TypeInv, TypeOK
    <3> QED BY <2>1, <3>1, <3>2 DEF ChatInOrder
  <2> QED BY <2>3, <2>4
<1>2. ASSUME Call, Shown \/ UNCHANGED chat, UNCHANGED <<next, failed>>
      PROVE  ChatInOrder' /\ UNCHANGED Promise!vars
  <2>1. next \in 1 .. parts /\ parts' = parts /\ parts # 0 BY <1>2 DEF Call, TypeInv, TypeOK
  <2>2. PICK k \in 0 .. Len(chat) :
            /\ InOrder(chat, next, k) /\ InOrder(chat', next, k)
            /\ Len(chat') - k <= calls'[next]
            /\ Shown => Len(chat') - k >= 1
            /\ Shows(chat', next) = Shows(chat, next)
    BY <1>2, CallInOrder
  <2>3. ChatInOrder' BY <1>2, <2>1, <2>2 DEF ChatInOrder, InOrder
  <2>4. shown' = shown BY <1>2, <2>2 DEF Shows
  <2>5. count' = count BY <2>1
  <2> QED BY <1>0, <1>2, <2>3, <2>4, <2>5
<1>3. ASSUME Call, Shown \/ UNCHANGED chat, NextPart,
             \/ Shown /\ failed' = failed
             \/ failed' = failed \cup {next}
      PROVE  ChatInOrder' /\ Promise!Deliver
  <2>1. /\ next \in 1 .. parts /\ parts' = parts /\ parts # 0 /\ parts \in Nat
        /\ next' = next + 1
    BY <1>3 DEF Call, NextPart, TypeInv, TypeOK
  <2>2. PICK k \in 0 .. Len(chat) :
            /\ InOrder(chat, next, k) /\ InOrder(chat', next, k)
            /\ Len(chat') - k <= calls'[next]
            /\ Shown => Len(chat') - k >= 1
            /\ Shows(chat', next) = Shows(chat, next)
    BY <1>3, CallInOrder
  <2>3. PICK d : d = chat' OBVIOUS
  <2>4. d \in Seq(Nat)
    <3>1. d \in Seq(1 .. parts) BY <2>1, <2>3 DEF TypeInv, TypeOK
    <3> QED BY <2>1, <3>1, SeqMonotonic
  <2>5. PICK m \in Nat : m = Attempts * Attempts OBVIOUS
  <2>6. calls'[next] \in 0 .. m BY <2>1, <2>5 DEF TypeInv, TypeOK
  <2>7. /\ InOrder(d, next + 1, Len(d))
        /\ Shows(d, next + 1) = Shows(d, next) \o [i \in 1 .. Len(d) - k |-> next]
    <3>1. InOrder(d, next, k) /\ next \in Nat BY <2>1, <2>2, <2>3
    <3> QED BY <2>4, <3>1, ShowsMore
  <2>8. PICK copies : copies = Len(d) - k OBVIOUS
  <2>9. copies \in 0 .. m /\ (Shown => copies \in 1 .. m) /\ Len(d) \in Nat
    <3>1. Len(d) \in Nat /\ k \in 0 .. Len(d) BY <2>2, <2>3, <2>4 DEF InOrder
    <3> QED BY <2>2, <2>3, <2>6, <2>8, <3>1
  <2>10. shown' = shown \o [i \in 1 .. copies |-> next]
    BY <2>1, <2>2, <2>3, <2>7, <2>8 DEF Shows
  <2>11. count' = count /\ next <= count BY <2>1
  <2>12. Promise!Deliver
    <3>1. CASE Shown /\ failed' = failed
      BY <1>0, <2>1, <2>5, <2>9, <2>10, <2>11, <3>1
    <3>2. CASE failed' = failed \cup {next}
      BY <1>0, <2>1, <2>5, <2>9, <2>10, <2>11, <3>2
    <3> QED BY <1>3, <3>1, <3>2
  <2>13. ChatInOrder'
    <3>1. next' \in 1 .. parts' => calls'[next'] \in Nat
      BY <2>5 DEF TypeInv, TypeOK
    <3>2. InOrder(d, next', Len(d)) /\ Len(d) \in 0 .. Len(d) BY <2>1, <2>7, <2>9
    <3> QED BY <2>3, <2>9, <3>1, <3>2 DEF ChatInOrder, InOrder
  <2> QED BY <2>12, <2>13
<1>4. CASE RetryRequest BY <1>2, <1>4 DEF RetryRequest, CallFails
<1>5. CASE RetryCall BY <1>2, <1>5 DEF RetryCall, CallFails
<1>6. CASE Send BY <1>3, <1>6 DEF Send
<1>7. CASE GiveUp BY <1>3, <1>7 DEF GiveUp, CallFails, SwallowError
<1>8. CASE Refused BY <1>3, <1>8 DEF Refused, CallFails, SwallowError
<1>9. CASE MediaRaises \/ UNCHANGED vars
  <2>0. UNCHANGED <<text, media, parts, next, chat, failed, calls>>
    BY <1>9 DEF MediaRaises, vars
  <2>1. UNCHANGED Promise!vars BY <1>0, <2>0 DEF Shows
  <2>2. ChatInOrder' BY <2>0 DEF ChatInOrder, InOrder
  <2> QED BY <2>1, <2>2
<1> QED BY <1>1, <1>4, <1>5, <1>6, <1>7, <1>8, <1>9 DEF Next, Done

\* The two loops keep the promise of OrderedDelivery for any number of parts,
\* attempts and errors: the reader sees the parts in order, none too often, and
\* none is missing without a failure that was logged.
THEOREM Refinement == Spec => ImplementsOrderedDelivery
<1>1. Init => ChatInOrder /\ Promise!Init
  <2> SUFFICES ASSUME Init PROVE ChatInOrder /\ Promise!Init OBVIOUS
  <2>1. ChatInOrder BY DEF Init, ChatInOrder, InOrder
  <2>2. PartCount(text, media) \in Nat /\ PartCount(text, media) >= 1
    BY PartCountIsPositive DEF Init
  <2>3. Restrict(<< >>, {i \in DOMAIN << >> : << >>[i] < 1}) = << >>
    BY DEF Restrict
  <2> QED BY <2>1, <2>2, <2>3 DEF Init, Promise!Init
<1>2. /\ TypeInv /\ TypeInv' /\ ChatInOrder /\ [Next]_vars
      => ChatInOrder' /\ [Promise!Deliver]_(Promise!vars)
  BY StepDelivers
<1> QED
  BY <1>1, <1>2, TypeInvariance, PTL DEF Spec, ImplementsOrderedDelivery, Promise!Spec

-----------------------------------------------------------------------------

\* Bale accepts each chunk of an answer, and no letter of the answer is lost,
\* added or moved, for answers of any length and any limit.
THEOREM Completeness == Spec => SplitIsComplete
<1>1. TypeOK => [parts' # parts => Complete(text, Chunks(text))]_vars
  BY NothingLost DEF TypeOK, Str
<1> QED BY <1>1, TypeCorrect, PTL DEF Spec, SplitIsComplete
=============================================================================
