----------------------------- MODULE SplitText ------------------------------
(***************************************************************************)
(* split_text of src/rivas/text_utils.py: an answer of any length as       *)
(* messages that Bale accepts.  A text is a sequence of characters; Space  *)
(* and Newline stand for the whitespace, everything else is a letter.      *)
(***************************************************************************)
EXTENDS Naturals, Sequences, SequencesExt, FiniteSetsExt

CONSTANTS
    Characters,      \* of which texts consist
    Space, Newline,
    Limit            \* max_text_chunk_chars

ASSUME LimitAssumption ==
    /\ Limit \in Nat \ {0}
    /\ {Space, Newline} \subseteq Characters /\ Space # Newline

IsBlank(c) == c \in {Space, Newline}

Inked(s) == {i \in DOMAIN s : ~IsBlank(s[i])}

Strip(s)  == IF Inked(s) = {} THEN << >> ELSE SubSeq(s, Min(Inked(s)), Max(Inked(s)))
RStrip(s) == IF Inked(s) = {} THEN << >> ELSE SubSeq(s, 1, Max(Inked(s)))

\* split(separator): one part more than there are separators.
InParts(parts, c, separator) ==
    IF c = separator THEN Append(parts, << >>)
    ELSE [parts EXCEPT ![Len(parts)] = Append(@, c)]

InWords(words, c) == InParts(words, c, Space)
InLines(lines, c) == InParts(lines, c, Newline)

Words(s) == FoldLeft(InWords, << << >> >>, s)
Lines(s) == FoldLeft(InLines, << << >> >>, s)

\* What is cut off already, and what is still being filled.
Cut(pieces, current) == [pieces |-> pieces, current |-> current]

Flush(cut) ==
    IF cut.current = << >> THEN cut
    ELSE Cut(Append(cut.pieces, RStrip(cut.current)), << >>)

HardSplit(word) ==
    [k \in 1 .. (Len(word) + Limit - 1) \div Limit |->
        SubSeq(word, (k - 1) * Limit + 1, Min({k * Limit, Len(word)}))]

\* Mutant of Joined: the lines run together.
Bug_JoinedOnOneLine(current, separator, s) ==
    IF current = << >> THEN s ELSE Strip(current \o <<Space>> \o s)

Joined(current, separator, s) ==
    IF current = << >> THEN s ELSE Strip(current \o <<separator>> \o s)

AddWord(cut, word) ==
    LET candidate == Joined(cut.current, Space, word) IN
    IF word = << >> THEN cut
    ELSE IF Len(candidate) <= Limit THEN Cut(cut.pieces, candidate)
    ELSE IF Len(word) <= Limit THEN Cut(Flush(cut).pieces, word)
    ELSE Cut(Flush(cut).pieces \o HardSplit(word), << >>)

SplitLongLine(line) ==
    Flush(FoldLeft(AddWord, Cut(<< >>, << >>), Words(line))).pieces

\* Mutant of AddParagraph: a long line does not wait for what is before it.
Bug_AddParagraphOvertakes(cut, paragraph) ==
    LET line == Strip(paragraph)
        potential == Joined(cut.current, Newline, line)
    IN  IF line # << >> /\ Len(line) > Limit
        THEN Cut(cut.pieces \o SplitLongLine(line), cut.current)
        ELSE IF Len(potential) <= Limit THEN Cut(cut.pieces, potential)
        ELSE Cut(Flush(cut).pieces, line)

AddParagraph(cut, paragraph) ==
    LET line == Strip(paragraph)
        potential == Joined(cut.current, Newline, line)
    IN  IF line = << >>
        THEN IF cut.current # << >> /\ Len(cut.current) + 1 <= Limit
             THEN Cut(cut.pieces, Append(cut.current, Newline))
             ELSE Flush(cut)
        ELSE IF Len(line) > Limit
        THEN Cut(Flush(cut).pieces \o SplitLongLine(line), << >>)
        ELSE IF Len(potential) <= Limit THEN Cut(cut.pieces, potential)
        ELSE Cut(Flush(cut).pieces, line)

WithChunk(chunks, chunk) == IF chunk = << >> THEN chunks ELSE Append(chunks, chunk)

NonEmpty(chunks) == FoldLeft(WithChunk, << >>, chunks)

Chunks(text) ==
    LET s == Strip(text) IN
    IF s = << >> THEN << >>
    ELSE IF Len(s) <= Limit THEN <<s>>
    ELSE NonEmpty(Flush(FoldLeft(AddParagraph, Cut(<< >>, << >>), Lines(s))).pieces)

-----------------------------------------------------------------------------
(* What split_text promises.  Readable tells letters apart by what they   *)
(* are, and speaks of texts without a letter twice.                        *)

WithLetter(letters, c) == IF IsBlank(c) THEN letters ELSE Append(letters, c)

Letters(s) == FoldLeft(WithLetter, << >>, s)

WithLetters(letters, chunk) == letters \o Letters(chunk)

AllLetters(chunks) == FoldLeft(WithLetters, << >>, chunks)

Between(s, a, b) == SubSeq(s, Min({i \in DOMAIN s : s[i] = a}),
                              Min({i \in DOMAIN s : s[i] = b}))

\* Every chunk can be sent, and none starts or ends with a blank.
Sendable(chunks) ==
    \A chunk \in Range(chunks) :
        chunk # << >> /\ Len(chunk) <= Limit /\ Strip(chunk) = chunk

\* Nothing is lost, added or moved.
SameLetters(text, chunks) == AllLetters(chunks) = Letters(text)

\* A word that fits into a chunk is not taken apart.
IsWord(text, i, j) ==
    /\ i .. j \subseteq Inked(text)
    /\ {i - 1, j + 1} \cap Inked(text) = {}

WordsWhole(text, chunks) ==
    \A i, j \in Inked(text) :
        i <= j /\ j - i < Limit /\ IsWord(text, i, j) =>
            \E chunk \in Range(chunks) : {text[i], text[j]} \subseteq Range(chunk)

\* Inside a chunk there is a line break exactly where the text has one.
LinesKept(text, chunks) ==
    \A chunk \in Range(chunks) :
        \A i \in 1 .. Len(Letters(chunk)) - 1 :
            LET a == Letters(chunk)[i]
                b == Letters(chunk)[i + 1]
            IN  Newline \in Range(Between(chunk, a, b))
                    <=> Newline \in Range(Between(text, a, b))

Complete(text, chunks) == Sendable(chunks) /\ SameLetters(text, chunks)

Readable(text, chunks) == WordsWhole(text, chunks) /\ LinesKept(text, chunks)
=============================================================================
