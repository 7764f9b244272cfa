------------------------------- MODULE Phone --------------------------------
(***************************************************************************)
(* _normalize_phone of src/rivas/app.py: from what a user types to the     *)
(* phone_e164 that the operator's tools work with.  A text is a sequence   *)
(* of characters; the space is its only whitespace, so that strip() takes  *)
(* away nothing that replace(" ", "") leaves.                              *)
(***************************************************************************)
EXTENDS Naturals, Sequences, SequencesExt

CONSTANTS
    Characters,         \* with those that a phone number is made of
    PhoneTexts,         \* texts to consider
    MinRest, MaxRest    \* digits after the first one: 9 and 14 in PHONE_RE

Digits == {"0", "1", "2", "3", "4", "5", "6", "7", "8", "9"}

ASSUME PhoneAssumption ==
    /\ Digits \cup {"+", " "} \subseteq Characters
    /\ PhoneTexts \subseteq Seq(Characters)
    /\ MinRest \in Nat /\ MaxRest \in Nat

StartsWith(s, prefix) ==
    Len(prefix) <= Len(s) /\ SubSeq(s, 1, Len(prefix)) = prefix

Without(s, prefix) == SubSeq(s, Len(prefix) + 1, Len(s))

\* [1-9]\d{MinRest,MaxRest}
IsNumber(s) ==
    /\ s # << >>
    /\ s[1] \in Digits \ {"0"}
    /\ \A i \in 2 .. Len(s) : s[i] \in Digits
    /\ Len(s) - 1 \in MinRest .. MaxRest

\* PHONE_RE of app.py, where the plus is optional, and of load_users.py.
PhoneRe(s) == IsNumber(s) \/ (s # << >> /\ s[1] = "+" /\ IsNumber(Tail(s)))
E164(s)    == s # << >> /\ s[1] = "+" /\ IsNumber(Tail(s))

International == <<"0", "0">>
Trunk         == <<"0">>
Plus          == <<"+">>
Iran          == <<"+", "9", "8">>

Replace(s, prefix, by) ==
    IF StartsWith(s, prefix) THEN by \o Without(s, prefix) ELSE s

\* Mutant of Dialled: the prefixes in the other order.
Bug_DialledTrunkFirst(s) == Replace(Replace(s, Trunk, Iran), International, Plus)

Dialled(s) == Replace(Replace(s, International, Plus), Trunk, Iran)

\* replace(" ", "")
Keep(kept, c) == IF c = " " THEN kept ELSE Append(kept, c)

Spaceless(text) == FoldLeft(Keep, << >>, text)

\* The normal form, or the empty text for None.
Normalize(text) ==
    LET s == Dialled(Spaceless(text)) IN
    IF ~PhoneRe(s) THEN << >>
    ELSE IF s[1] = "+" THEN s ELSE Plus \o s

-----------------------------------------------------------------------------

\* What a handler accepts as a phone number is in the form that load_users
\* demands and stays what it is when it is sent again; the ways to dial one
\* number, with 00 or +, with the trunk 0 or +98, have one normal form.
NormalForm ==
    \A text \in PhoneTexts :
        LET phone == Normalize(text) IN
            /\ phone # << >> => E164(phone) /\ Normalize(phone) = phone
            /\ Normalize(International \o text) = Normalize(Plus \o text)
            /\ ~StartsWith(Spaceless(text), Trunk) =>
                  Normalize(Trunk \o text) = Normalize(Iran \o text)
=============================================================================
