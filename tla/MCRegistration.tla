--------------------------- MODULE MCRegistration ---------------------------
(* Instances of Registration, with Phone, for TLC.                         *)
EXTENDS Registration, TLC

CONSTANTS m1, m2, m3, m4, h1, h2, p1, p2, t1, t2

\* Two numbers (either of them may be the name), a /start and a message of
\* another chat.
SomeKinds == m1 :> "phone" @@ m2 :> "phone" @@ m3 :> "start" @@ m4 :> "elsewhere"

\* Every text of up to six characters; numbers of three to five digits are
\* long enough here, so that the prefixes fit in.
SomeCharacters == Digits \cup {"+", " ", "x"}
SomeTexts == UNION {[1 .. n -> {"+", " ", "0", "8", "9", "x"}] : n \in 0 .. 6}

SomeSymmetry ==
    Permutations({m1, m2}) \cup Permutations({h1, h2}) \cup Permutations({p1, p2})
        \cup Permutations({t1, t2})
=============================================================================
