----------------------------- MODULE MCDelivery -----------------------------
(* An instance of Delivery and of SplitText for TLC.                       *)
EXTENDS Delivery

Letter == 0

SomeCharacters == 0 .. 6 \cup {Space, Newline}

\* Every text of up to six characters, each letter numbered by its place.
SomeTexts ==
    {[i \in DOMAIN s |-> IF s[i] = Letter THEN i ELSE s[i]] :
        s \in UNION {[1 .. n -> {Letter, Space, Newline}] : n \in 0 .. 6}}
=============================================================================
