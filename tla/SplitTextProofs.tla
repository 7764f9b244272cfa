-------------------------- MODULE SplitTextProofs ----------------------------
(***************************************************************************)
(* Proofs about split_text for texts of any length and any limit: Bale     *)
(* accepts every chunk, and no letter is lost, added or moved.  The folds  *)
(* of SplitText are taken apart by the laws of FoldProofs.                 *)
(***************************************************************************)
EXTENDS SplitText, Integers, SequenceTheorems, TLAPS

USE LimitAssumption

Str  == Seq(Characters)
Inks == {c \in Characters : ~IsBlank(c)}

\* Neither starts nor ends with a blank.
Trimmed(s) == s # << >> /\ ~IsBlank(s[1]) /\ ~IsBlank(s[Len(s)])

-----------------------------------------------------------------------------
(* strip and rstrip                                                        *)

Letterwise == INSTANCE FoldProofs WITH Step <- WithLetter, Base <- << >>

LEMMA ExtremesOf ==
    ASSUME NEW n \in Nat, NEW T \in SUBSET (1 .. n), T # {}
    PROVE  /\ Max(T) \in T /\ \A m \in T : m <= Max(T)
           /\ Min(T) \in T /\ \A m \in T : Min(T) <= m
<1>1. Max(T) \in T /\ \A m \in T : m <= Max(T)
  BY Letterwise!MaxOfPlaces DEF Max, Letterwise!Max
<1>2. T \subseteq Nat OBVIOUS
<1>3. \E k \in T : \A m \in T : k <= m BY <1>2, Letterwise!Least
<1> QED BY <1>1, <1>3 DEF Min

LEMMA InkedPlaces ==
    ASSUME NEW S, NEW s \in Seq(S), Inked(s) # {}
    PROVE  /\ Min(Inked(s)) \in 1 .. Len(s) /\ ~IsBlank(s[Min(Inked(s))])
           /\ Max(Inked(s)) \in 1 .. Len(s) /\ ~IsBlank(s[Max(Inked(s))])
           /\ \A i \in 1 .. Len(s) :
                 ~IsBlank(s[i]) => Min(Inked(s)) <= i /\ i <= Max(Inked(s))
<1>1. Len(s) \in Nat /\ DOMAIN s = 1 .. Len(s) OBVIOUS
<1>2. Inked(s) \in SUBSET (1 .. Len(s)) BY <1>1 DEF Inked
<1> DEFINE T == Inked(s)
<1>3. /\ Max(T) \in T /\ \A m \in T : m <= Max(T)
      /\ Min(T) \in T /\ \A m \in T : Min(T) <= m
  BY <1>1, <1>2, ExtremesOf
<1> QED BY <1>1, <1>2, <1>3 DEF Inked

LEMMA SubSeqOf ==
    ASSUME NEW S, NEW s \in Seq(S), NEW i \in 1 .. Len(s), NEW j \in i .. Len(s)
    PROVE  /\ SubSeq(s, i, j) \in Seq(S) /\ SubSeq(s, i, j) # << >>
           /\ Len(SubSeq(s, i, j)) = j - i + 1
           /\ SubSeq(s, i, j)[1] = s[i]
           /\ SubSeq(s, i, j)[Len(SubSeq(s, i, j))] = s[j]
<1>1. Len(s) \in Nat /\ i \in Int /\ j \in Int /\ i <= j OBVIOUS
<1>2. \A k \in i .. j : s[k] \in S BY <1>1, ElementOfSeq
<1> DEFINE t == SubSeq(s, i, j)
<1>3. /\ t \in Seq(S) /\ Len(t) = j - i + 1
      /\ \A k \in 1 .. j - i + 1 : t[k] = s[i + k - 1]
  BY <1>1, <1>2, SubSeqProperties
<1> HIDE DEF t
<1>4. t[1] = s[i] /\ t[Len(t)] = s[j] BY <1>1, <1>3
<1>5. t # << >> BY <1>1, <1>3, EmptySeq
<1> QED BY <1>3, <1>4, <1>5 DEF t

\* What strip leaves.
LEMMA StripType ==
    ASSUME NEW S, NEW s \in Seq(S)
    PROVE  /\ Strip(s) \in Seq(S) /\ Len(Strip(s)) <= Len(s)
           /\ Strip(s) # << >> => Trimmed(Strip(s))
<1>1. CASE Inked(s) = {}
  <2>1. Strip(s) = << >> BY <1>1 DEF Strip
  <2>2. Len(s) \in Nat /\ Len(<< >>) = 0 /\ << >> \in Seq(S) OBVIOUS
  <2> QED BY <2>1, <2>2
<1>2. CASE Inked(s) # {}
  <2> DEFINE i == Min(Inked(s))
             j == Max(Inked(s))
  <2>1. /\ i \in 1 .. Len(s) /\ ~IsBlank(s[i])
        /\ j \in 1 .. Len(s) /\ ~IsBlank(s[j]) /\ i <= j
    BY <1>2, InkedPlaces
  <2>2. Strip(s) = SubSeq(s, i, j) BY <1>2 DEF Strip
  <2> HIDE DEF i, j
  <2>3. Len(s) \in Nat /\ j \in i .. Len(s) BY <2>1
  <2> DEFINE t == SubSeq(s, i, j)
  <2>4. /\ t \in Seq(S) /\ t # << >> /\ Len(t) = j - i + 1
        /\ t[1] = s[i] /\ t[Len(t)] = s[j]
    BY <2>1, <2>3, SubSeqOf
  <2>5. Trimmed(t) BY <2>1, <2>4 DEF Trimmed
  <2> HIDE DEF t
  <2>6. Len(t) <= Len(s) BY <2>1, <2>3, <2>4
  <2> QED BY <2>2, <2>4, <2>5, <2>6 DEF t
<1> QED BY <1>1, <1>2

LEMMA StripTrimmed ==
    ASSUME NEW S, NEW s \in Seq(S), Trimmed(s)
    PROVE  Strip(s) = s /\ RStrip(s) = s
<1>1. Len(s) \in Nat \ {0} /\ DOMAIN s = 1 .. Len(s)
  BY EmptySeq, LenProperties DEF Trimmed
<1>2. 1 \in Inked(s) /\ Len(s) \in Inked(s) BY <1>1 DEF Inked, Trimmed
<1>3. Min(Inked(s)) = 1 /\ Max(Inked(s)) = Len(s)
  BY <1>1, <1>2, InkedPlaces DEF Trimmed
<1>4. SubSeq(s, 1, Len(s)) = s BY SubSeqFull
<1> QED BY <1>2, <1>3, <1>4 DEF Strip, RStrip

\* What rstrip leaves of a text that does not start with a blank.
LEMMA RStripType ==
    ASSUME NEW S, NEW s \in Seq(S), s # << >>, ~IsBlank(s[1])
    PROVE  /\ RStrip(s) \in Seq(S) /\ Len(RStrip(s)) <= Len(s)
           /\ Trimmed(RStrip(s))
<1>1. Len(s) \in Nat \ {0} /\ DOMAIN s = 1 .. Len(s)
  BY EmptySeq, LenProperties
<1>2. 1 \in Inked(s) BY <1>1 DEF Inked
<1> DEFINE j == Max(Inked(s))
           t == SubSeq(s, 1, j)
<1>3. j \in 1 .. Len(s) /\ ~IsBlank(s[j]) BY <1>2, InkedPlaces
<1>4. RStrip(s) = t BY <1>2 DEF RStrip
<1> HIDE DEF j
<1>5. /\ t \in Seq(S) /\ t # << >> /\ Len(t) = j - 1 + 1
      /\ t[1] = s[1] /\ t[Len(t)] = s[j]
  BY <1>1, <1>3, SubSeqOf
<1> HIDE DEF t
<1>6. Trimmed(t) /\ Len(t) <= Len(s) BY <1>1, <1>3, <1>5 DEF Trimmed
<1> QED BY <1>4, <1>5, <1>6

-----------------------------------------------------------------------------
(* split                                                                   *)

Wordwise == INSTANCE FoldProofs WITH Step <- InWords, Base <- << << >> >>
Linewise == INSTANCE FoldProofs WITH Step <- InLines, Base <- << << >> >>

LEMMA WordsIsFold == ASSUME NEW s PROVE Words(s) = Wordwise!Folded(s)
BY DEF Words, Wordwise!Folded, FoldLeft, MapThenFoldSet, Max,
       Wordwise!FoldLeft, Wordwise!MapThenFoldSet, Wordwise!Max

LEMMA LinesIsFold == ASSUME NEW s PROVE Lines(s) = Linewise!Folded(s)
BY DEF Lines, Linewise!Folded, FoldLeft, MapThenFoldSet, Max,
       Linewise!FoldLeft, Linewise!MapThenFoldSet, Linewise!Max

PartsOf(D) == {parts \in Seq(Seq(D)) : parts # << >>}

\* A part has no separator.
LEMMA InPartsType ==
    ASSUME NEW D, NEW separator, NEW parts \in PartsOf(D \ {separator}), NEW c \in D
    PROVE  InParts(parts, c, separator) \in PartsOf(D \ {separator})
<1> DEFINE E == D \ {separator}
<1>1. parts \in Seq(Seq(E)) /\ parts # << >> BY DEF PartsOf
<1>2. CASE c = separator
  <2>1. << >> \in Seq(E) BY EmptySeq
  <2> HIDE DEF E
  <2>2. /\ Append(parts, << >>) \in Seq(Seq(E))
        /\ Append(parts, << >>) # << >>
    BY <1>1, <2>1, AppendProperties
  <2> QED BY <1>2, <2>2 DEF InParts, PartsOf, E
<1>3. CASE c # separator
  <2>1. c \in E BY <1>3
  <2> HIDE DEF E
  <2> DEFINE n == Len(parts)
             t == Append(parts[n], c)
  <2>2. n \in 1 .. Len(parts) /\ n # 0 BY <1>1, EmptySeq
  <2>3. parts[n] \in Seq(E) BY <1>1, <2>2, ElementOfSeq
  <2>4. t \in Seq(E) BY <2>1, <2>3, AppendProperties
  <2> HIDE DEF t
  <2>5. /\ [parts EXCEPT ![n] = t] \in Seq(Seq(E))
        /\ Len([parts EXCEPT ![n] = t]) = n
    BY <1>1, <2>2, <2>4, ExceptSeq
  <2>6. [parts EXCEPT ![n] = t] # << >> BY <2>2, <2>5, EmptySeq
  <2>7. InParts(parts, c, separator) = [parts EXCEPT ![n] = t]
    BY <1>3 DEF InParts, t
  <2> QED BY <2>5, <2>6, <2>7 DEF PartsOf, E
<1> QED BY <1>2, <1>3

LEMMA FirstPart == ASSUME NEW D PROVE << << >> >> \in PartsOf(D)
BY DEF PartsOf

LEMMA WordsType ==
    ASSUME NEW D, NEW s \in Seq(D)
    PROVE  Words(s) \in PartsOf(D \ {Space})
<1> DEFINE Good == PartsOf(D \ {Space})
<1>1. << << >> >> \in Good BY FirstPart
<1>2. \A x \in Good : \A i \in 1 .. Len(s) : InWords(x, s[i]) \in Good
  BY ElementOfSeq, InPartsType DEF InWords
<1> HIDE DEF Good
<1>3. Wordwise!Folded(s) \in Good BY <1>1, <1>2, Wordwise!FoldInvariant
<1> QED BY <1>3, WordsIsFold DEF Good

LEMMA LinesType ==
    ASSUME NEW D, NEW s \in Seq(D)
    PROVE  Lines(s) \in PartsOf(D \ {Newline})
<1> DEFINE Good == PartsOf(D \ {Newline})
<1>1. << << >> >> \in Good BY FirstPart
<1>2. \A x \in Good : \A i \in 1 .. Len(s) : InLines(x, s[i]) \in Good
  BY ElementOfSeq, InPartsType DEF InLines
<1> HIDE DEF Good
<1>3. Linewise!Folded(s) \in Good BY <1>1, <1>2, Linewise!FoldInvariant
<1> QED BY <1>3, LinesIsFold DEF Good

-----------------------------------------------------------------------------
(* What can be sent.                                                       *)

Chunk == {c \in Str : Trimmed(c) /\ Len(c) <= Limit}

LEMMA HardSplitType ==
    ASSUME NEW word \in Seq(Inks), word # << >>
    PROVE  HardSplit(word) \in Seq(Chunk)
<1> DEFINE n == Len(word)
           count == (n + Limit - 1) \div Limit
<1>1. n \in Nat \ {0} /\ word \in Str
  BY EmptySeq, SeqMonotonic DEF Inks, Str
<1>2. count \in Nat /\ \A k \in 1 .. count : k * Limit <= n + Limit - 1
  BY <1>1
<1>3. ASSUME NEW k \in 1 .. count
      PROVE  SubSeq(word, (k - 1) * Limit + 1, Min({k * Limit, n})) \in Chunk
  <2> DEFINE i == (k - 1) * Limit + 1
             j == Min({k * Limit, n})
  <2>1. k * Limit \in Nat /\ (k - 1) * Limit = k * Limit - Limit /\ (k - 1) * Limit \in Nat
    BY <1>2
  <2>2. j \in {k * Limit, n} /\ j <= k * Limit /\ j <= n
    BY <1>1, <2>1 DEF Min
  <2>3. i \in 1 .. n /\ j \in i .. n /\ j - i + 1 <= Limit
    BY <1>1, <1>2, <2>1, <2>2
  <2> HIDE DEF i, j
  <2> DEFINE t == SubSeq(word, i, j)
  <2>4. /\ t \in Seq(Inks) /\ t # << >> /\ Len(t) = j - i + 1
        /\ t[1] = word[i] /\ t[Len(t)] = word[j]
    BY <2>3, SubSeqOf
  <2>5. ~IsBlank(word[i]) /\ ~IsBlank(word[j])
    <3>1. i \in 1 .. Len(word) /\ j \in 1 .. Len(word) BY <1>1, <2>3
    <3>2. word[i] \in Inks /\ word[j] \in Inks BY <3>1, ElementOfSeq
    <3> QED BY <3>2 DEF Inks
  <2> HIDE DEF t
  <2>6. t \in Str BY <2>4, SeqMonotonic DEF Inks, Str
  <2>7. t \in Chunk BY <2>3, <2>4, <2>5, <2>6 DEF Chunk, Trimmed
  <2> QED BY <2>7 DEF t, i, j
<1> DEFINE Piece(k) == SubSeq(word, (k - 1) * Limit + 1, Min({k * Limit, n}))
<1>4. HardSplit(word) = [k \in 1 .. count |-> Piece(k)] BY DEF HardSplit
<1>5. \A k \in 1 .. count : Piece(k) \in Chunk BY <1>3
<1> HIDE DEF count, Piece
<1> QED BY <1>2, <1>4, <1>5

\* What is still being filled: it may end with line breaks.
Filling == {c \in Str : c # << >> /\ ~IsBlank(c[1]) /\ Len(c) <= Limit}

Cuts(currents) == [pieces : Seq(Chunk), current : currents \cup {<< >>}]

LEMMA ChunkFacts ==
    /\ Chunk \subseteq Filling /\ << >> \notin Filling
    /\ Filling \subseteq Str /\ << >> \in Str
BY EmptySeq DEF Chunk, Filling, Trimmed, Str

LEMMA FlushType ==
    ASSUME NEW cut \in Cuts(Filling)
    PROVE  Flush(cut) \in Cuts({}) /\ Flush(cut).current = << >>
<1>1. cut.pieces \in Seq(Chunk) BY DEF Cuts
<1>2. CASE cut.current = << >>
  <2>1. Flush(cut) = cut BY <1>2 DEF Flush
  <2> QED BY <1>2, <2>1 DEF Cuts
<1>3. CASE cut.current # << >>
  <2> DEFINE c == cut.current
  <2>1. c \in Str /\ c # << >> /\ ~IsBlank(c[1]) /\ Len(c) <= Limit
    BY <1>3 DEF Cuts, Filling
  <2> HIDE DEF c
  <2>2. /\ RStrip(c) \in Str /\ Len(RStrip(c)) <= Len(c) /\ Trimmed(RStrip(c))
    BY <2>1, RStripType DEF Str
  <2>3. Len(c) \in Nat /\ Len(RStrip(c)) \in Nat BY <2>1, <2>2, LenProperties DEF Str
  <2>4. RStrip(c) \in Chunk BY <2>1, <2>2, <2>3 DEF Chunk
  <2>5. Append(cut.pieces, RStrip(c)) \in Seq(Chunk) BY <1>1, <2>4, AppendProperties
  <2>6. Flush(cut) = Cut(Append(cut.pieces, RStrip(c)), << >>) BY <1>3 DEF Flush, c
  <2> QED BY <2>5, <2>6 DEF Cuts, Cut
<1> QED BY <1>2, <1>3

\* A separator between what does not start and what does not end with a blank
\* stays.
LEMMA JoinedType ==
    ASSUME NEW current \in Filling \cup {<< >>}, NEW separator \in {Space, Newline},
           NEW s \in Str, Trimmed(s)
    PROVE  /\ Joined(current, separator, s) =
                  IF current = << >> THEN s ELSE current \o <<separator>> \o s
           /\ Joined(current, separator, s) \in Str
           /\ Trimmed(Joined(current, separator, s))
<1>1. CASE current = << >> BY <1>1 DEF Joined
<1>2. CASE current # << >>
  <2> DEFINE t == current \o <<separator>> \o s
             u == current \o <<separator>>
  <2>1. current \in Seq(Characters) /\ ~IsBlank(current[1]) /\ s \in Seq(Characters)
    BY <1>2 DEF Filling, Str
  <2>2. <<separator>> \in Seq(Characters) /\ Len(<<separator>>) = 1 OBVIOUS
  <2>3. /\ u \in Seq(Characters) /\ Len(u) = Len(current) + 1
        /\ \A i \in 1 .. Len(current) : u[i] = current[i]
    BY <2>1, <2>2
  <2>4. Len(current) \in Nat \ {0} /\ Len(s) \in Nat \ {0}
    BY <1>2, <2>1, EmptySeq DEF Trimmed
  <2> HIDE DEF u
  <2>5. /\ t \in Seq(Characters) /\ Len(t) = Len(u) + Len(s)
        /\ \A i \in 1 .. Len(u) + Len(s) :
              t[i] = IF i <= Len(u) THEN u[i] ELSE s[i - Len(u)]
    BY <2>1, <2>3, ConcatProperties DEF u
  <2> HIDE DEF t
  <2>6. t[1] = current[1] /\ t[Len(t)] = s[Len(s)] /\ Len(t) > 0
    BY <2>3, <2>4, <2>5
  <2>7. t # << >> BY <2>6, EmptySeq
  <2>8. Trimmed(t) BY <2>1, <2>6, <2>7 DEF Trimmed
  <2>9. Strip(t) = t BY <2>5, <2>8, StripTrimmed
  <2> QED BY <1>2, <2>5, <2>8, <2>9 DEF Joined, t, u, Str
<1> QED BY <1>1, <1>2

LEMMA CutType ==
    ASSUME NEW currents, NEW p \in Seq(Chunk), NEW c \in currents \cup {<< >>}
    PROVE  /\ Cut(p, c) \in Cuts(currents)
           /\ Cut(p, c).pieces = p /\ Cut(p, c).current = c
BY DEF Cut, Cuts

LEMMA WordTrimmed ==
    ASSUME NEW word \in Seq(Inks), word # << >>
    PROVE  word \in Str /\ Trimmed(word)
<1>1. word \in Str BY SeqMonotonic DEF Inks, Str
<1>2. Len(word) \in Nat \ {0} BY EmptySeq
<1>3. word[1] \in Inks /\ word[Len(word)] \in Inks BY <1>2, ElementOfSeq
<1> QED BY <1>1, <1>3 DEF Trimmed, Inks

LEMMA AddWordType ==
    ASSUME NEW cut \in Cuts(Chunk), NEW word \in Seq(Inks)
    PROVE  AddWord(cut, word) \in Cuts(Chunk)
<1>1. cut.pieces \in Seq(Chunk) /\ cut.current \in Chunk \cup {<< >>} BY DEF Cuts
<1>2. CASE word = << >> BY <1>2 DEF AddWord
<1>3. CASE word # << >>
  <2> DEFINE candidate == Joined(cut.current, Space, word)
  <2>1. word \in Str /\ Trimmed(word) BY <1>3, WordTrimmed
  <2>2. candidate \in Str /\ Trimmed(candidate)
    BY <1>1, <2>1, JoinedType, ChunkFacts
  <2> HIDE DEF candidate
  <2>3. CASE Len(candidate) <= Limit
    <3>1. candidate \in Chunk BY <2>2, <2>3 DEF Chunk
    <3>2. AddWord(cut, word) = Cut(cut.pieces, candidate)
      BY <1>3, <2>3 DEF AddWord, candidate
    <3> QED BY <1>1, <3>1, <3>2, CutType
  <2>4. Flush(cut).pieces \in Seq(Chunk)
    <3>1. cut \in Cuts(Filling) BY ChunkFacts DEF Cuts
    <3> QED BY <3>1, FlushType DEF Cuts
  <2>5. CASE Len(candidate) > Limit /\ Len(word) <= Limit
    <3>1. word \in Chunk BY <2>1, <2>5 DEF Chunk
    <3>2. ~(Len(candidate) <= Limit) BY <2>2, <2>5, LenProperties DEF Str
    <3>3. AddWord(cut, word) = Cut(Flush(cut).pieces, word)
      BY <1>3, <2>5, <3>2 DEF AddWord, candidate
    <3> QED BY <2>4, <3>1, <3>3, CutType
  <2>6. CASE ~(Len(candidate) <= Limit) /\ ~(Len(word) <= Limit)
    <3>1. Flush(cut).pieces \o HardSplit(word) \in Seq(Chunk)
      BY <1>3, <2>4, HardSplitType, ConcatProperties
    <3>2. AddWord(cut, word) = Cut(Flush(cut).pieces \o HardSplit(word), << >>)
      BY <1>3, <2>6 DEF AddWord, candidate
    <3> QED BY <3>1, <3>2 DEF Cut, Cuts
  <2>7. Len(candidate) \in Nat BY <2>2, LenProperties DEF Str
  <2> QED BY <2>3, <2>5, <2>6, <2>7
<1> QED BY <1>2, <1>3

Piecewise == INSTANCE FoldProofs WITH Step <- AddWord, Base <- Cut(<< >>, << >>)

LEMMA PiecesAreFold ==
    ASSUME NEW s
    PROVE  FoldLeft(AddWord, Cut(<< >>, << >>), s) = Piecewise!Folded(s)
BY DEF Piecewise!Folded, FoldLeft, MapThenFoldSet, Max,
       Piecewise!FoldLeft, Piecewise!MapThenFoldSet, Piecewise!Max

NoBreaks == Characters \ {Newline}

\* A long line becomes pieces that can be sent.
LEMMA SplitLongLineType ==
    ASSUME NEW line \in Seq(NoBreaks)
    PROVE  SplitLongLine(line) \in Seq(Chunk)
<1>1. Words(line) \in Seq(Seq(Inks))
  <2>1. NoBreaks \ {Space} = Inks BY DEF NoBreaks, Inks, IsBlank
  <2> QED BY <2>1, WordsType DEF PartsOf
<1>2. Cut(<< >>, << >>) \in Cuts(Chunk) BY CutType, EmptySeq
<1>3. \A x \in Cuts(Chunk) : \A i \in 1 .. Len(Words(line)) :
        AddWord(x, Words(line)[i]) \in Cuts(Chunk)
  BY <1>1, ElementOfSeq, AddWordType
<1>4. Piecewise!Folded(Words(line)) \in Cuts(Chunk)
  BY <1>1, <1>2, <1>3, Piecewise!FoldInvariant
<1>5. Piecewise!Folded(Words(line)) \in Cuts(Filling) BY <1>4, ChunkFacts DEF Cuts
<1>6. Flush(Piecewise!Folded(Words(line))).pieces \in Seq(Chunk)
  BY <1>5, FlushType DEF Cuts
<1>7. SplitLongLine(line) = Flush(Piecewise!Folded(Words(line))).pieces
  BY PiecesAreFold DEF SplitLongLine
<1> QED BY <1>6, <1>7

LEMMA AddParagraphType ==
    ASSUME NEW cut \in Cuts(Filling), NEW paragraph \in Seq(NoBreaks)
    PROVE  AddParagraph(cut, paragraph) \in Cuts(Filling)
<1> DEFINE line == Strip(paragraph)
           potential == Joined(cut.current, Newline, line)
<1>1. cut.pieces \in Seq(Chunk) /\ cut.current \in Filling \cup {<< >>} BY DEF Cuts
<1>2. Flush(cut).pieces \in Seq(Chunk) /\ Flush(cut) \in Cuts(Filling)
  BY FlushType DEF Cuts
<1>3. line \in Seq(NoBreaks) /\ (line # << >> => Trimmed(line)) BY StripType
<1>4. line \in Str BY <1>3, SeqMonotonic DEF NoBreaks, Str
<1> HIDE DEF line
<1>5. CASE line = << >>
  <2>1. CASE cut.current # << >> /\ Len(cut.current) + 1 <= Limit
    <3> DEFINE c == cut.current
    <3>1. c \in Seq(Characters) /\ c # << >> /\ ~IsBlank(c[1])
      BY <1>1, <2>1 DEF Filling, Str
    <3> HIDE DEF c
    <3>2. Newline \in Characters OBVIOUS
    <3>3. Len(c) \in Nat \ {0} BY <3>1, EmptySeq
    <3>4. /\ Append(c, Newline) \in Seq(Characters) /\ Append(c, Newline) # << >>
          /\ Len(Append(c, Newline)) = Len(c) + 1
          /\ Append(c, Newline)[1] = c[1]
      BY <3>1, <3>2, <3>3, AppendProperties
    <3>5. Append(c, Newline) \in Filling BY <2>1, <3>1, <3>4 DEF Filling, Str, c
    <3>6. AddParagraph(cut, paragraph) = Cut(cut.pieces, Append(c, Newline))
      BY <1>5, <2>1 DEF AddParagraph, line, c
    <3> QED BY <1>1, <3>5, <3>6, CutType
  <2>2. CASE ~(cut.current # << >> /\ Len(cut.current) + 1 <= Limit)
    <3>1. AddParagraph(cut, paragraph) = Flush(cut)
      BY <1>5, <2>2 DEF AddParagraph, line
    <3> QED BY <1>2, <3>1
  <2> QED BY <2>1, <2>2
<1>6. CASE line # << >> /\ Len(line) > Limit
  <2>1. Flush(cut).pieces \o SplitLongLine(line) \in Seq(Chunk)
    BY <1>2, <1>3, SplitLongLineType, ConcatProperties
  <2>2. AddParagraph(cut, paragraph) =
            Cut(Flush(cut).pieces \o SplitLongLine(line), << >>)
    BY <1>6 DEF AddParagraph, line
  <2> QED BY <2>1, <2>2 DEF Cut, Cuts
<1>7. CASE line # << >> /\ ~(Len(line) > Limit)
  <2>1. potential \in Str /\ Trimmed(potential)
    BY <1>1, <1>3, <1>4, <1>7, JoinedType
  <2> HIDE DEF potential
  <2>2. CASE Len(potential) <= Limit
    <3>1. potential \in Filling BY <2>1, <2>2 DEF Filling, Trimmed
    <3>2. AddParagraph(cut, paragraph) = Cut(cut.pieces, potential)
      BY <1>7, <2>2 DEF AddParagraph, line, potential
    <3> QED BY <1>1, <3>1, <3>2, CutType
  <2>3. CASE ~(Len(potential) <= Limit)
    <3>1. Len(line) \in Nat BY <1>4, LenProperties DEF Str
    <3>2. line \in Filling BY <1>3, <1>4, <1>7, <3>1 DEF Filling, Trimmed
    <3>3. AddParagraph(cut, paragraph) = Cut(Flush(cut).pieces, line)
      BY <1>7, <2>3 DEF AddParagraph, line, potential
    <3> QED BY <1>2, <3>2, <3>3, CutType
  <2> QED BY <2>2, <2>3
<1> QED BY <1>5, <1>6, <1>7

Paragraphwise ==
    INSTANCE FoldProofs WITH Step <- AddParagraph, Base <- Cut(<< >>, << >>)

LEMMA ParagraphsAreFold ==
    ASSUME NEW s
    PROVE  FoldLeft(AddParagraph, Cut(<< >>, << >>), s) = Paragraphwise!Folded(s)
BY DEF Paragraphwise!Folded, FoldLeft, MapThenFoldSet, Max,
       Paragraphwise!FoldLeft, Paragraphwise!MapThenFoldSet, Paragraphwise!Max

Chunkwise == INSTANCE FoldProofs WITH Step <- WithChunk, Base <- << >>

LEMMA NonEmptyIsFold == ASSUME NEW s PROVE NonEmpty(s) = Chunkwise!Folded(s)
BY DEF NonEmpty, Chunkwise!Folded, FoldLeft, MapThenFoldSet, Max,
       Chunkwise!FoldLeft, Chunkwise!MapThenFoldSet, Chunkwise!Max

\* The chunks of the loop, before the last line of split_text.
Uncleaned(s) == Flush(Paragraphwise!Folded(Lines(s))).pieces

LEMMA UncleanedType ==
    ASSUME NEW s \in Str
    PROVE  /\ Lines(s) \in Seq(Seq(NoBreaks))
           /\ Uncleaned(s) \in Seq(Chunk)
<1>1. Lines(s) \in Seq(Seq(NoBreaks)) BY LinesType DEF PartsOf, NoBreaks, Str
<1>2. Cut(<< >>, << >>) \in Cuts(Filling) BY CutType, EmptySeq
<1>3. \A x \in Cuts(Filling) : \A i \in 1 .. Len(Lines(s)) :
        AddParagraph(x, Lines(s)[i]) \in Cuts(Filling)
  BY <1>1, ElementOfSeq, AddParagraphType
<1>4. Paragraphwise!Folded(Lines(s)) \in Cuts(Filling)
  BY <1>1, <1>2, <1>3, Paragraphwise!FoldInvariant
<1> QED BY <1>1, <1>4, FlushType DEF Cuts, Uncleaned

\* The loop leaves nothing for the last line to drop.
LEMMA NonEmptySame ==
    ASSUME NEW chunks \in Seq(Chunk)
    PROVE  NonEmpty(chunks) = chunks
<1> DEFINE Good == {c \in Seq(Chunk) : NonEmpty(c) = c}
<1>1. << >> \in Good BY NonEmptyIsFold, Chunkwise!FoldEmpty, EmptySeq
<1>2. ASSUME NEW c \in Seq(Chunk), NEW e \in Chunk, c \in Good
      PROVE  Append(c, e) \in Good
  <2>1. NonEmpty(Append(c, e)) = WithChunk(NonEmpty(c), e)
    BY NonEmptyIsFold, Chunkwise!FoldAppend
  <2>2. e # << >> BY ChunkFacts
  <2>3. NonEmpty(Append(c, e)) = Append(c, e) BY <1>2, <2>1, <2>2 DEF WithChunk
  <2> QED BY <2>3, AppendProperties
<1>3. Seq(Chunk) \subseteq Good
  <2> HIDE DEF Good
  <2> QED BY <1>1, <1>2, Chunkwise!SequenceInduction
<1> QED BY <1>3

LEMMA ChunksAre ==
    ASSUME NEW text \in Str
    PROVE  LET s == Strip(text) IN
           /\ s \in Str /\ (s # << >> => Trimmed(s))
           /\ Chunks(text) = IF s = << >> THEN << >>
                             ELSE IF Len(s) <= Limit THEN <<s>>
                             ELSE Uncleaned(s)
<1>1. Strip(text) \in Str /\ (Strip(text) # << >> => Trimmed(Strip(text)))
  BY StripType DEF Str
<1> DEFINE s == Strip(text)
<1>2. NonEmpty(Uncleaned(s)) = Uncleaned(s) BY <1>1, UncleanedType, NonEmptySame
<1>3. Uncleaned(s) = Flush(FoldLeft(AddParagraph, Cut(<< >>, << >>), Lines(s))).pieces
  BY ParagraphsAreFold DEF Uncleaned
<1> QED BY <1>1, <1>2, <1>3 DEF Chunks

\* split_text: whatever the text and the limit, each chunk is within the limit,
\* not empty, and has no blanks around it.
THEOREM EveryChunkFits ==
    ASSUME NEW text \in Str
    PROVE  Chunks(text) \in Seq(Chunk) /\ Sendable(Chunks(text))
<1> DEFINE s == Strip(text)
<1>1. Chunks(text) \in Seq(Chunk)
  <2>1. /\ s \in Str /\ (s # << >> => Trimmed(s))
        /\ Chunks(text) = IF s = << >> THEN << >>
                          ELSE IF Len(s) <= Limit THEN <<s>>
                          ELSE Uncleaned(s)
    BY ChunksAre
  <2> HIDE DEF s
  <2>2. CASE s = << >> BY <2>1, <2>2
  <2>3. CASE s # << >> /\ Len(s) <= Limit
    <3>1. s \in Chunk BY <2>1, <2>3 DEF Chunk
    <3> QED BY <2>1, <2>3, <3>1
  <2>4. CASE s # << >> /\ ~(Len(s) <= Limit) BY <2>1, <2>4, UncleanedType
  <2> QED BY <2>2, <2>3, <2>4
<1>2. ASSUME NEW chunk \in Range(Chunks(text))
      PROVE  chunk # << >> /\ Len(chunk) <= Limit /\ Strip(chunk) = chunk
  <2>1. PICK i \in DOMAIN Chunks(text) : chunk = Chunks(text)[i] BY DEF Range
  <2>2. chunk \in Chunk BY <1>1, <2>1, LenProperties, ElementOfSeq
  <2> QED BY <2>2, StripTrimmed DEF Chunk, Trimmed, Str
<1> QED BY <1>1, <1>2 DEF Sendable

-----------------------------------------------------------------------------
(* Letters.                                                                *)

LEMMA LettersAreFold == ASSUME NEW s PROVE Letters(s) = Letterwise!Folded(s)
BY DEF Letters, Letterwise!Folded, FoldLeft, MapThenFoldSet, Max,
       Letterwise!FoldLeft, Letterwise!MapThenFoldSet, Letterwise!Max

LEMMA WithLetterType ==
    ASSUME NEW s \in Str, NEW t \in Str, NEW c \in Characters
    PROVE  WithLetter(s, c) \in Str /\ WithLetter(s \o t, c) = s \o WithLetter(t, c)
BY DEF WithLetter, Str

LEMMA LettersType == ASSUME NEW s \in Str PROVE Letters(s) \in Str
<1>1. << >> \in Str BY EmptySeq DEF Str
<1>2. \A x \in Str : \A i \in 1 .. Len(s) : WithLetter(x, s[i]) \in Str
  BY WithLetterType, ElementOfSeq DEF Str
<1>3. Letterwise!Folded(s) \in Str BY <1>1, <1>2, Letterwise!FoldInvariant DEF Str
<1> QED BY <1>3, LettersAreFold

LEMMA LettersEmpty == Letters(<< >>) = << >> /\ << >> \in Str
BY LettersAreFold, Letterwise!FoldEmpty, EmptySeq DEF Str

LEMMA LettersAppend ==
    ASSUME NEW s \in Str, NEW c \in Characters
    PROVE  Append(s, c) \in Str /\ Letters(Append(s, c)) = WithLetter(Letters(s), c)
BY LettersAreFold, Letterwise!FoldAppend, AppendProperties DEF Str

LEMMA LettersConcat ==
    ASSUME NEW s \in Str, NEW t \in Str
    PROVE  s \o t \in Str /\ Letters(s \o t) = Letters(s) \o Letters(t)
<1> DEFINE Good == {u \in Str : Letters(s \o u) = Letters(s) \o Letters(u)}
<1>1. << >> \in Good
  <2>1. s \o << >> = s /\ Letters(s) \o << >> = Letters(s)
    BY LettersType, ConcatEmptySeq DEF Str
  <2> QED BY <2>1, LettersEmpty
<1>2. ASSUME NEW u \in Seq(Characters), NEW c \in Characters, u \in Good
      PROVE  Append(u, c) \in Good
  <2>1. s \o u \in Str BY ConcatProperties DEF Str
  <2>2. s \o Append(u, c) = Append(s \o u, c) BY DEF Str
  <2>3. Letters(s \o Append(u, c)) = WithLetter(Letters(s) \o Letters(u), c)
    BY <1>2, <2>1, <2>2, LettersAppend
  <2>4. WithLetter(Letters(s) \o Letters(u), c) = Letters(s) \o WithLetter(Letters(u), c)
    <3>1. Letters(s) \in Str /\ Letters(u) \in Str BY <1>2, LettersType
    <3> QED BY <3>1, WithLetterType
  <2>5. Letters(Append(u, c)) = WithLetter(Letters(u), c) /\ Append(u, c) \in Str
    BY <1>2, LettersAppend
  <2> QED BY <2>3, <2>4, <2>5
<1>3. Seq(Characters) \subseteq Good
  <2> HIDE DEF Good
  <2> QED BY <1>1, <1>2, Letterwise!SequenceInduction
<1> QED BY <1>3, ConcatProperties DEF Str

\* Blanks are no letters.
LEMMA LettersOfBlanks ==
    ASSUME NEW s \in Str, \A i \in 1 .. Len(s) : IsBlank(s[i])
    PROVE  Letters(s) = << >>
<1> DEFINE Good == {u \in Str : (\A i \in 1 .. Len(u) : IsBlank(u[i])) => Letters(u) = << >>}
<1>1. << >> \in Good BY LettersEmpty
<1>2. ASSUME NEW u \in Seq(Characters), NEW c \in Characters, u \in Good
      PROVE  Append(u, c) \in Good
  <2>1. SUFFICES ASSUME \A i \in 1 .. Len(Append(u, c)) : IsBlank(Append(u, c)[i])
                 PROVE  Letters(Append(u, c)) = << >>
    BY LettersAppend DEF Str
  <2>2. /\ Len(u) \in Nat /\ Len(Append(u, c)) = Len(u) + 1
        /\ \A i \in 1 .. Len(u) : Append(u, c)[i] = u[i]
        /\ Append(u, c)[Len(u) + 1] = c
    BY AppendProperties, LenProperties
  <2>3. IsBlank(c) /\ \A i \in 1 .. Len(u) : IsBlank(u[i]) BY <2>1, <2>2
  <2>4. Letters(u) = << >> BY <1>2, <2>3
  <2> QED BY <2>3, <2>4, LettersAppend DEF WithLetter, Str
<1>3. Seq(Characters) \subseteq Good
  <2> HIDE DEF Good
  <2> QED BY <1>1, <1>2, Letterwise!SequenceInduction
<1> QED BY <1>3 DEF Str

\* strip and rstrip take no letters away.
LEMMA LettersStripped ==
    ASSUME NEW s \in Str
    PROVE  Letters(Strip(s)) = Letters(s) /\ Letters(RStrip(s)) = Letters(s)
<1>1. Len(s) \in Nat /\ DOMAIN s = 1 .. Len(s) BY LenProperties DEF Str
<1>2. CASE Inked(s) = {}
  <2>1. Letters(s) = << >> BY <1>1, <1>2, LettersOfBlanks DEF Inked
  <2> QED BY <1>2, <2>1, LettersEmpty DEF Strip, RStrip
<1>3. CASE Inked(s) # {}
  <2> DEFINE i == Min(Inked(s))
             j == Max(Inked(s))
             n == Len(s)
  <2>1. /\ i \in 1 .. n /\ j \in i .. n
        /\ \A k \in 1 .. n : ~IsBlank(s[k]) => i <= k /\ k <= j
    BY <1>1, <1>3, InkedPlaces DEF Str
  <2>2. Strip(s) = SubSeq(s, i, j) /\ RStrip(s) = SubSeq(s, 1, j)
    BY <1>3 DEF Strip, RStrip
  <2> HIDE DEF i, j
  <2>3. ASSUME NEW a \in Int, NEW b \in Int, a >= 1, b <= n,
               \A k \in a .. b : IsBlank(s[k])
        PROVE  SubSeq(s, a, b) \in Str /\ Letters(SubSeq(s, a, b)) = << >>
    <3>1. \A k \in a .. b : s[k] \in Characters
      <4>1. \A k \in 1 .. n : s[k] \in Characters BY ElementOfSeq DEF Str
      <4> QED BY <1>1, <2>3, <4>1
    <3>2. /\ SubSeq(s, a, b) \in Seq(Characters)
          /\ Len(SubSeq(s, a, b)) = IF a <= b THEN b - a + 1 ELSE 0
          /\ \A k \in 1 .. b - a + 1 : SubSeq(s, a, b)[k] = s[a + k - 1]
      BY <3>1, SubSeqProperties
    <3>3. \A k \in 1 .. Len(SubSeq(s, a, b)) : IsBlank(SubSeq(s, a, b)[k])
      BY <2>3, <3>2
    <3> QED BY <3>2, <3>3, LettersOfBlanks DEF Str
  <2>4. SubSeq(s, 1, j) \in Str /\ SubSeq(s, i, j) \in Str
    BY <1>1, <2>1, SubSeqOf DEF Str
  <2>5. Letters(SubSeq(s, 1, j)) = Letters(s)
    <3>1. SubSeq(s, 1, j) \o SubSeq(s, j + 1, n) = s
      <4>1. SubSeq(s, 1, j) \o SubSeq(s, j + 1, n) = SubSeq(s, 1, n)
        <5>1. 1 \in 1 .. n + 1 /\ j \in 1 - 1 .. n /\ n \in j .. n BY <1>1, <2>1
        <5> QED BY <5>1, ConcatAdjacentSubSeq DEF Str
      <4> QED BY <4>1, SubSeqFull DEF Str
    <3>2. \A k \in j + 1 .. n : IsBlank(s[k]) BY <1>1, <2>1
    <3>3. SubSeq(s, j + 1, n) \in Str /\ Letters(SubSeq(s, j + 1, n)) = << >>
      BY <1>1, <2>1, <2>3, <3>2
    <3>4. Letters(s) = Letters(SubSeq(s, 1, j)) \o << >>
      <4> DEFINE t == SubSeq(s, 1, j)
                 u == SubSeq(s, j + 1, n)
      <4>1. t \in Str /\ u \in Str /\ Letters(u) = << >> /\ t \o u = s
        BY <2>4, <3>1, <3>3
      <4> HIDE DEF t, u
      <4>2. Letters(t \o u) = Letters(t) \o Letters(u) BY <4>1, LettersConcat
      <4> QED BY <4>1, <4>2 DEF t
    <3>5. Letters(SubSeq(s, 1, j)) \in Seq(Characters) BY <2>4, LettersType DEF Str
    <3>6. Letters(SubSeq(s, 1, j)) \o << >> = Letters(SubSeq(s, 1, j))
      BY <3>5, ConcatEmptySeq
    <3> QED BY <3>4, <3>6
  <2>6. Letters(SubSeq(s, i, j)) = Letters(SubSeq(s, 1, j))
    <3>1. SubSeq(s, 1, i - 1) \o SubSeq(s, i, j) = SubSeq(s, 1, j)
      <4>1. /\ 1 \in 1 .. n + 1 /\ i - 1 \in 1 - 1 .. n /\ j \in i - 1 .. n
            /\ (i - 1) + 1 = i
        BY <1>1, <2>1
      <4>2. SubSeq(s, 1, i - 1) \o SubSeq(s, (i - 1) + 1, j) = SubSeq(s, 1, j)
        BY <4>1, ConcatAdjacentSubSeq DEF Str
      <4> QED BY <4>1, <4>2
    <3>3. \A k \in 1 .. i - 1 : IsBlank(s[k]) BY <1>1, <2>1
    <3>4. SubSeq(s, 1, i - 1) \in Str /\ Letters(SubSeq(s, 1, i - 1)) = << >>
      BY <1>1, <2>1, <2>3, <3>3
    <3>5. Letters(SubSeq(s, 1, j)) = << >> \o Letters(SubSeq(s, i, j))
      BY <2>4, <3>1, <3>4, LettersConcat
    <3>6. Letters(SubSeq(s, i, j)) \in Seq(Characters) BY <2>4, LettersType DEF Str
    <3>7. << >> \o Letters(SubSeq(s, i, j)) = Letters(SubSeq(s, i, j))
      BY <3>6, ConcatEmptySeq
    <3> QED BY <3>5, <3>7
  <2> QED BY <2>2, <2>5, <2>6
<1> QED BY <1>2, <1>3

\* Texts behind each other, as their letters are.
LEMMA ConcatStrings ==
    ASSUME NEW s \in Str, NEW t \in Str
    PROVE  s \o t \in Str /\ s \o << >> = s /\ << >> \o s = s
BY ConcatProperties, ConcatEmptySeq DEF Str

LEMMA Associative ==
    \A s, t, u : s \in Str /\ t \in Str /\ u \in Str => (s \o t) \o u = s \o (t \o u)
BY ConcatAssociative DEF Str

Listwise == INSTANCE FoldProofs WITH Step <- WithLetters, Base <- << >>

LEMMA AllIsFold == ASSUME NEW p PROVE AllLetters(p) = Listwise!Folded(p)
BY DEF AllLetters, Listwise!Folded, FoldLeft, MapThenFoldSet, Max,
       Listwise!FoldLeft, Listwise!MapThenFoldSet, Listwise!Max

LEMMA AllType == ASSUME NEW p \in Seq(Str) PROVE AllLetters(p) \in Str
<1>1. << >> \in Str BY LettersEmpty
<1>2. \A x \in Str : \A i \in 1 .. Len(p) : WithLetters(x, p[i]) \in Str
  BY ElementOfSeq, LettersType, ConcatStrings DEF WithLetters
<1>3. Listwise!Folded(p) \in Str BY <1>1, <1>2, Listwise!FoldInvariant
<1> QED BY <1>3, AllIsFold

LEMMA AllEmpty == AllLetters(<< >>) = << >> /\ << >> \in Seq(Str)
BY AllIsFold, Listwise!FoldEmpty, EmptySeq

LEMMA AllAppend ==
    ASSUME NEW p \in Seq(Str), NEW s \in Str
    PROVE  /\ Append(p, s) \in Seq(Str)
           /\ AllLetters(Append(p, s)) = AllLetters(p) \o Letters(s)
BY AllIsFold, Listwise!FoldAppend, AppendProperties DEF WithLetters

LEMMA AllConcat ==
    ASSUME NEW p \in Seq(Str), NEW q \in Seq(Str)
    PROVE  p \o q \in Seq(Str) /\ AllLetters(p \o q) = AllLetters(p) \o AllLetters(q)
<1> DEFINE Good == {r \in Seq(Str) : AllLetters(p \o r) = AllLetters(p) \o AllLetters(r)}
<1>1. << >> \in Good
  <2>1. p \o << >> = p BY ConcatEmptySeq
  <2>2. AllLetters(p) \o << >> = AllLetters(p) BY AllType, ConcatStrings
  <2> QED BY <2>1, <2>2, AllEmpty
<1>2. ASSUME NEW r \in Seq(Str), NEW s \in Str, r \in Good
      PROVE  Append(r, s) \in Good
  <2>1. p \o r \in Seq(Str) BY ConcatProperties
  <2>2. p \o Append(r, s) = Append(p \o r, s) OBVIOUS
  <2>3. AllLetters(p \o Append(r, s)) = (AllLetters(p) \o AllLetters(r)) \o Letters(s)
    BY <1>2, <2>1, <2>2, AllAppend
  <2>4. AllLetters(p) \in Str /\ AllLetters(r) \in Str /\ Letters(s) \in Str
    BY AllType, LettersType
  <2>5. (AllLetters(p) \o AllLetters(r)) \o Letters(s)
            = AllLetters(p) \o (AllLetters(r) \o Letters(s))
    BY <2>4, Associative, SMTT(30)
  <2> QED BY <2>3, <2>5, AllAppend
<1>3. Seq(Str) \subseteq Good
  <2> HIDE DEF Good
  <2> QED BY <1>1, <1>2, Listwise!SequenceInduction
<1> QED BY <1>3, ConcatProperties

\* split takes separators away, and these are no letters.
LEMMA InPartsLetters ==
    ASSUME NEW parts \in Seq(Str), parts # << >>, NEW c \in Characters,
           NEW separator \in {Space, Newline}
    PROVE  AllLetters(InParts(parts, c, separator)) = WithLetter(AllLetters(parts), c)
<1>1. CASE c = separator
  <2>1. InParts(parts, c, separator) = Append(parts, << >>) BY <1>1 DEF InParts
  <2>2. AllLetters(Append(parts, << >>)) = AllLetters(parts) \o << >>
    BY AllAppend, LettersEmpty
  <2>3. IsBlank(c) BY <1>1 DEF IsBlank
  <2> QED BY <2>1, <2>2, <2>3, AllType, ConcatStrings DEF WithLetter
<1>2. CASE c # separator
  <2>1. PICK front \in Seq(Str), last \in Str : parts = Append(front, last)
    BY SequenceEmptyOrAppend
  <2> DEFINE t == Append(last, c)
  <2>2. t \in Str /\ Letters(t) = WithLetter(Letters(last), c) BY LettersAppend
  <2> HIDE DEF t
  <2>3. InParts(parts, c, separator) = Append(front, t)
    <3> DEFINE n == Len(parts)
    <3>1. /\ n = Len(front) + 1 /\ Len(front) \in Nat /\ parts[n] = last
          /\ \A i \in 1 .. Len(front) : parts[i] = front[i]
      BY <2>1, AppendProperties, LenProperties
    <3>2. InParts(parts, c, separator) = [parts EXCEPT ![n] = t]
      BY <1>2, <3>1 DEF InParts, t
    <3> HIDE DEF n
    <3>3. /\ n \in 1 .. Len(parts) /\ n = Len(parts) BY <3>1 DEF n
    <3>4. /\ [parts EXCEPT ![n] = t] \in Seq(Str) /\ Len([parts EXCEPT ![n] = t]) = n
          /\ \A i \in 1 .. n : [parts EXCEPT ![n] = t][i] = IF i = n THEN t ELSE parts[i]
      BY <2>2, <3>3, ExceptSeq
    <3>5. /\ Append(front, t) \in Seq(Str) /\ Len(Append(front, t)) = n
          /\ \A i \in 1 .. n : Append(front, t)[i] = IF i = n THEN t ELSE front[i]
      BY <2>2, <3>1, AppendProperties
    <3> DEFINE u == [parts EXCEPT ![n] = t]
               v == Append(front, t)
    <3>6. \A i \in 1 .. n : u[i] = v[i] BY <3>1, <3>4, <3>5
    <3> HIDE DEF u, v
    <3>7. u \in Seq(Str) /\ v \in Seq(Str) /\ Len(u) = Len(v) /\ Len(u) = n
      BY <3>4, <3>5 DEF u, v
    <3>8. u = v BY <3>6, <3>7, SeqEqual
    <3> QED BY <3>2, <3>8 DEF u, v
  <2>4. /\ AllLetters(parts) = AllLetters(front) \o Letters(last)
        /\ AllLetters(InParts(parts, c, separator))
              = AllLetters(front) \o WithLetter(Letters(last), c)
    BY <2>1, <2>2, <2>3, AllAppend
  <2>5. AllLetters(front) \in Str /\ Letters(last) \in Str BY AllType, LettersType
  <2>6. \A a, b \in Str : WithLetter(a \o b, c) = a \o WithLetter(b, c) BY WithLetterType
  <2> QED BY <2>4, <2>5, <2>6
<1> QED BY <1>1, <1>2

LEMMA WordsLetters ==
    ASSUME NEW s \in Str
    PROVE  Words(s) \in Seq(Str) /\ AllLetters(Words(s)) = Letters(s)
<1>1. ASSUME NEW t \in Str PROVE Words(t) \in Seq(Str) /\ Words(t) # << >>
  <2>1. Seq(Characters \ {Space}) \subseteq Str BY SeqMonotonic DEF Str
  <2> QED BY <2>1, WordsType, SeqMonotonic DEF Str, PartsOf
<1> DEFINE Good == {t \in Str : AllLetters(Words(t)) = Letters(t)}
<1>2. << >> \in Good
  <2>1. Words(<< >>) = <<<< >>>> BY WordsIsFold, Wordwise!FoldEmpty
  <2>2. AllLetters(<<<< >>>>) = << >>
    <3>1. <<<< >>>> = Append(<< >>, << >>) OBVIOUS
    <3>2. << >> \o << >> = << >> BY LettersEmpty, ConcatStrings
    <3> QED BY <3>1, <3>2, AllAppend, AllEmpty, LettersEmpty
  <2> QED BY <2>1, <2>2, LettersEmpty
<1>3. ASSUME NEW t \in Seq(Characters), NEW c \in Characters, t \in Good
      PROVE  Append(t, c) \in Good
  <2>1. Words(Append(t, c)) = InParts(Words(t), c, Space)
    BY WordsIsFold, Wordwise!FoldAppend DEF InWords
  <2>2. AllLetters(Words(Append(t, c))) = WithLetter(Letters(t), c)
    BY <1>1, <1>3, <2>1, InPartsLetters
  <2> QED BY <1>3, <2>2, LettersAppend
<1>4. Seq(Characters) \subseteq Good
  <2> HIDE DEF Good
  <2> QED BY <1>2, <1>3, Wordwise!SequenceInduction
<1> QED BY <1>1, <1>4 DEF Str

LEMMA LinesLetters ==
    ASSUME NEW s \in Str
    PROVE  Lines(s) \in Seq(Str) /\ AllLetters(Lines(s)) = Letters(s)
<1>1. ASSUME NEW t \in Str PROVE Lines(t) \in Seq(Str) /\ Lines(t) # << >>
  <2>1. Seq(Characters \ {Newline}) \subseteq Str BY SeqMonotonic DEF Str
  <2> QED BY <2>1, LinesType, SeqMonotonic DEF Str, PartsOf
<1> DEFINE Good == {t \in Str : AllLetters(Lines(t)) = Letters(t)}
<1>2. << >> \in Good
  <2>1. Lines(<< >>) = <<<< >>>> BY LinesIsFold, Linewise!FoldEmpty
  <2>2. AllLetters(<<<< >>>>) = << >>
    <3>1. <<<< >>>> = Append(<< >>, << >>) OBVIOUS
    <3>2. << >> \o << >> = << >> BY LettersEmpty, ConcatStrings
    <3> QED BY <3>1, <3>2, AllAppend, AllEmpty, LettersEmpty
  <2> QED BY <2>1, <2>2, LettersEmpty
<1>3. ASSUME NEW t \in Seq(Characters), NEW c \in Characters, t \in Good
      PROVE  Append(t, c) \in Good
  <2>1. Lines(Append(t, c)) = InParts(Lines(t), c, Newline)
    BY LinesIsFold, Linewise!FoldAppend DEF InLines
  <2>2. AllLetters(Lines(Append(t, c))) = WithLetter(Letters(t), c)
    BY <1>1, <1>3, <2>1, InPartsLetters
  <2> QED BY <1>3, <2>2, LettersAppend
<1>4. Seq(Characters) \subseteq Good
  <2> HIDE DEF Good
  <2> QED BY <1>2, <1>3, Linewise!SequenceInduction
<1> QED BY <1>1, <1>4 DEF Str

\* The letters of what is cut off already and of what is still being filled.
Held(cut) == AllLetters(cut.pieces) \o Letters(cut.current)

LEMMA ChunksAreStrings == Seq(Chunk) \subseteq Seq(Str)
BY ChunkFacts, SeqMonotonic

LEMMA CutLetters ==
    ASSUME NEW p \in Seq(Str), NEW c \in Str
    PROVE  /\ Held(Cut(p, c)) = AllLetters(p) \o Letters(c) /\ Held(Cut(p, c)) \in Str
           /\ Held(Cut(p, << >>)) = AllLetters(p)
BY AllType, LettersType, LettersEmpty, ConcatStrings DEF Held, Cut

LEMMA FlushLetters ==
    ASSUME NEW cut \in Cuts(Filling)
    PROVE  /\ AllLetters(Flush(cut).pieces) = Held(cut) /\ Held(cut) \in Str
           /\ Flush(cut).pieces \in Seq(Str) /\ cut.pieces \in Seq(Str) /\ cut.current \in Str
<1>1. cut.pieces \in Seq(Str) /\ cut.current \in Str
  BY ChunksAreStrings, ChunkFacts DEF Cuts
<1>2. Held(cut) \in Str BY <1>1, AllType, LettersType, ConcatStrings DEF Held
<1>3. Flush(cut).pieces \in Seq(Str) BY FlushType, ChunksAreStrings DEF Cuts
<1>4. CASE cut.current = << >>
  <2>1. Flush(cut) = cut BY <1>4 DEF Flush
  <2>2. AllLetters(cut.pieces) \o << >> = AllLetters(cut.pieces)
    BY <1>1, AllType, ConcatStrings
  <2> QED BY <1>1, <1>2, <1>4, <2>1, <2>2, LettersEmpty DEF Held
<1>5. CASE cut.current # << >>
  <2> DEFINE c == cut.current
             r == RStrip(c)
  <2>1. c \in Str /\ c # << >> /\ ~IsBlank(c[1]) BY <1>5 DEF Cuts, Filling
  <2> HIDE DEF c
  <2>2. r \in Str /\ Letters(r) = Letters(c) BY <2>1, RStripType, LettersStripped DEF Str
  <2>3. Flush(cut).pieces = Append(cut.pieces, r) BY <1>5 DEF Flush, Cut, c
  <2> HIDE DEF r
  <2>4. AllLetters(Append(cut.pieces, r)) = AllLetters(cut.pieces) \o Letters(r)
    BY <1>1, <2>2, AllAppend
  <2> QED BY <1>1, <1>2, <1>3, <2>2, <2>3, <2>4 DEF Held, c
<1> QED BY <1>4, <1>5

LEMMA JoinedLetters ==
    ASSUME NEW current \in Filling \cup {<< >>}, NEW separator \in {Space, Newline},
           NEW s \in Str, Trimmed(s)
    PROVE  Letters(Joined(current, separator, s)) = Letters(current) \o Letters(s)
<1>1. CASE current = << >>
  <2>1. Letters(s) \in Str BY LettersType
  <2>2. << >> \o Letters(s) = Letters(s) BY <2>1, ConcatStrings
  <2> QED BY <1>1, <2>2, LettersEmpty, JoinedType
<1>2. CASE current # << >>
  <2>1. current \in Str BY <1>2, ChunkFacts
  <2>2. Append(current, separator) = current \o <<separator>> BY <2>1 DEF Str
  <2>3. Append(current, separator) \in Str
        /\ Letters(Append(current, separator)) = Letters(current)
    BY <2>1, LettersAppend DEF WithLetter, IsBlank
  <2>4. Joined(current, separator, s) = Append(current, separator) \o s
    <3>1. Joined(current, separator, s) = current \o <<separator>> \o s
      BY <1>2, JoinedType
    <3> QED BY <2>2, <3>1
  <2> HIDE DEF Str
  <2> QED BY <2>3, <2>4, LettersConcat
<1> QED BY <1>1, <1>2

LEMMA HardSplitLetters ==
    ASSUME NEW word \in Seq(Inks), word # << >>
    PROVE  AllLetters(HardSplit(word)) = Letters(word)
<1> DEFINE n == Len(word)
           count == (n + Limit - 1) \div Limit
           End(k) == Min({k * Limit, n})
           hs == HardSplit(word)
<1>1. n \in Nat \ {0} /\ word \in Str
  BY EmptySeq, SeqMonotonic DEF Inks, Str
<1>2. /\ count \in Nat /\ count * Limit >= n
      /\ \A k \in 1 .. count : k * Limit <= n + Limit - 1
  BY <1>1
<1>3. \A k \in 0 .. count : /\ k * Limit \in Nat
                            /\ End(k) = IF k * Limit <= n THEN k * Limit ELSE n
  BY <1>1, <1>2 DEF Min
<1>4. hs \in Seq(Str) /\ Len(hs) = count
  <2>1. hs \in Seq(Str) BY HardSplitType, ChunksAreStrings
  <2>2. DOMAIN hs = 1 .. count BY <1>2 DEF HardSplit
  <2>3. DOMAIN hs = 1 .. Len(hs) /\ Len(hs) \in Nat BY <2>1, LenProperties
  <2> QED BY <1>2, <2>1, <2>2, <2>3
<1> DEFINE Done(k) == AllLetters(SubSeq(hs, 1, k))
           Read(k) == Letters(SubSeq(word, 1, End(k)))
           Good == {k \in 0 .. count : Done(k) = Read(k)}
<1>5. 0 \in Good
  <2>1. End(0) = 0 BY <1>1, <1>2, <1>3
  <2>2. SubSeq(hs, 1, 0) = << >> /\ SubSeq(word, 1, 0) = << >> BY SubSeqEmpty
  <2>3. Done(0) = Read(0) BY <2>1, <2>2, AllEmpty, LettersEmpty
  <2>4. 0 \in 0 .. count BY <1>2
  <2> HIDE DEF Done, Read, count
  <2> QED BY <2>3, <2>4
<1>6. ASSUME NEW k \in 1 .. count, k - 1 \in Good PROVE k \in Good
  <2> DEFINE i == (k - 1) * Limit
             j == End(k)
             piece == SubSeq(word, i + 1, j)
  <2>1. i \in Nat /\ i = k * Limit - Limit BY <1>2
  <2>2. i \in 0 .. n /\ End(k - 1) = i
    <3>1. i <= n - 1 BY <1>1, <1>2, <2>1
    <3>2. k - 1 \in 0 .. count BY <1>2
    <3>3. End(k - 1) = IF i <= n THEN i ELSE n BY <1>3, <3>2
    <3> HIDE DEF End, i
    <3> QED BY <1>1, <2>1, <3>1, <3>3
  <2>3. j \in i + 1 .. n
    <3>1. k \in 0 .. count BY <1>2
    <3>2. k * Limit \in Nat /\ j = IF k * Limit <= n THEN k * Limit ELSE n
      BY <1>3, <3>1
    <3>3. i + 1 <= k * Limit /\ i + 1 <= n BY <1>1, <1>2, <2>1
    <3> HIDE DEF i, j
    <3> QED BY <1>1, <2>1, <3>2, <3>3
  <2>4. hs[k] = piece BY DEF HardSplit
  <2>5. k \in Nat \ {0} /\ k <= count /\ k - 1 \in 0 .. count /\ k \in 0 .. count
    BY <1>2
  <2>6. Done(k - 1) = Read(k - 1)
    <3> HIDE DEF Done, Read, count
    <3> QED BY <1>6
  <2> HIDE DEF hs, i, j, count
  <2>7. piece \in Str BY <1>1, <2>2, <2>3, SubSeqOf DEF Str
  <2>8. SubSeq(hs, 1, k - 1) \in Seq(Str) /\ SubSeq(hs, 1, k) = Append(SubSeq(hs, 1, k - 1), piece)
    <3>1. 1 \in 1 .. Len(hs) /\ k \in 1 .. Len(hs) BY <1>4, <2>5
    <3>2. SubSeq(hs, 1, k) = SubSeq(hs, 1, k - 1) \o <<hs[k]>>
      BY <1>4, <3>1, SubSeqRecursiveSecond
    <3>3. SubSeq(hs, 1, k - 1) \in Seq(Str)
      <4>1. k - 1 \in Int /\ \A m \in 1 .. k - 1 : hs[m] \in Str
        BY <1>4, <3>1, ElementOfSeq
      <4> QED BY <4>1, SubSeqProperties
    <3>4. Append(SubSeq(hs, 1, k - 1), piece) = SubSeq(hs, 1, k - 1) \o <<piece>>
      BY <2>7, <3>3, AppendIsConcat
    <3> QED BY <2>4, <3>2, <3>3, <3>4
  <2>9. SubSeq(word, 1, i) \in Str /\ SubSeq(word, 1, i) \o piece = SubSeq(word, 1, j)
    <3>1. /\ 1 \in 1 .. n + 1 /\ i \in 1 - 1 .. n /\ j \in i .. n /\ i \in Int
          /\ \A m \in 1 .. i : m \in 1 .. n
      BY <1>1, <2>2, <2>3
    <3>2. \A m \in 1 .. i : word[m] \in Characters
      BY <1>1, <3>1, ElementOfSeq DEF Str
    <3>3. SubSeq(word, 1, i) \in Str BY <3>1, <3>2, SubSeqProperties DEF Str
    <3> QED BY <1>1, <3>1, <3>3, ConcatAdjacentSubSeq DEF Str
  <2>10. Letters(SubSeq(word, 1, j)) = Letters(SubSeq(word, 1, i)) \o Letters(piece)
    BY <2>7, <2>9, LettersConcat
  <2>11. Done(k) = Done(k - 1) \o Letters(piece)
    BY <2>7, <2>8, AllAppend
  <2>12. Read(k - 1) = Letters(SubSeq(word, 1, i)) BY <2>2
  <2>13. Read(k) = Letters(SubSeq(word, 1, j)) BY DEF j
  <2> HIDE DEF Done, Read
  <2>14. Done(k) = Read(k) BY <2>6, <2>10, <2>11, <2>12, <2>13
  <2> QED BY <2>5, <2>14
<1>7. 0 .. count \subseteq Good
  <2> HIDE DEF Good, count
  <2>1. count \in Nat /\ 0 \in Good BY <1>2, <1>5
  <2>2. \A k \in 1 .. count : k - 1 \in Good => k \in Good BY <1>6
  <2> QED BY <2>1, <2>2, Letterwise!Induction
<1>8. End(count) = n
  <2>1. count \in 0 .. count BY <1>2
  <2>2. /\ count * Limit \in Nat /\ count * Limit >= n
        /\ End(count) = IF count * Limit <= n THEN count * Limit ELSE n
    BY <1>2, <1>3, <2>1
  <2> HIDE DEF count, End
  <2> QED BY <1>1, <2>2
<1>9. SubSeq(hs, 1, count) = hs /\ SubSeq(word, 1, n) = word
  <2>1. SubSeq(hs, 1, Len(hs)) = hs BY <1>4, SubSeqFull
  <2>2. SubSeq(word, 1, n) = word BY SubSeqFull
  <2> HIDE DEF hs, count, n
  <2> QED BY <1>4, <2>1, <2>2 DEF n
<1>10. Done(count) = Read(count)
  <2> HIDE DEF Done, Read, count
  <2> QED BY <1>2, <1>7
<1> QED BY <1>8, <1>9, <1>10

LEMMA AddWordLetters ==
    ASSUME NEW cut \in Cuts(Chunk), NEW word \in Seq(Inks)
    PROVE  Held(AddWord(cut, word)) = Held(cut) \o Letters(word)
<1> DEFINE candidate == Joined(cut.current, Space, word)
           p == Flush(cut).pieces
<1>1. cut.current \in Filling \cup {<< >>} /\ cut \in Cuts(Filling)
  BY ChunkFacts DEF Cuts
<1>2. /\ p \in Seq(Str) /\ AllLetters(p) = Held(cut) /\ Held(cut) \in Str
      /\ cut.pieces \in Seq(Str) /\ cut.current \in Str
  BY <1>1, FlushLetters
<1> HIDE DEF p
<1>3. CASE word = << >>
  <2>1. Held(cut) \o << >> = Held(cut) BY <1>2, ConcatStrings
  <2> QED BY <1>3, <2>1, LettersEmpty DEF AddWord
<1>4. CASE word # << >>
  <2>1. word \in Str /\ Trimmed(word) BY <1>4, WordTrimmed
  <2>2. candidate \in Str /\ Letters(candidate) = Letters(cut.current) \o Letters(word)
    BY <1>1, <2>1, JoinedType, JoinedLetters
  <2> HIDE DEF candidate
  <2>3. CASE Len(candidate) <= Limit
    <3>1. AddWord(cut, word) = Cut(cut.pieces, candidate)
      BY <1>4, <2>3 DEF AddWord, candidate
    <3>2. Held(AddWord(cut, word))
              = AllLetters(cut.pieces) \o (Letters(cut.current) \o Letters(word))
      BY <1>2, <2>2, <3>1, CutLetters
    <3>3. /\ AllLetters(cut.pieces) \in Str /\ Letters(cut.current) \in Str
          /\ Letters(word) \in Str
      BY <1>2, <2>1, AllType, LettersType
    <3>4. AllLetters(cut.pieces) \o (Letters(cut.current) \o Letters(word))
              = (AllLetters(cut.pieces) \o Letters(cut.current)) \o Letters(word)
      BY <3>3, Associative, SMTT(30)
    <3> QED BY <3>2, <3>4 DEF Held
  <2>4. CASE ~(Len(candidate) <= Limit) /\ Len(word) <= Limit
    <3>1. AddWord(cut, word) = Cut(p, word)
      BY <1>4, <2>4 DEF AddWord, candidate, p
    <3> QED BY <1>2, <2>1, <3>1, CutLetters
  <2>5. CASE ~(Len(candidate) <= Limit) /\ ~(Len(word) <= Limit)
    <3>1. AddWord(cut, word) = Cut(p \o HardSplit(word), << >>)
      BY <1>4, <2>5 DEF AddWord, candidate, p
    <3>2. /\ HardSplit(word) \in Seq(Str) /\ AllLetters(HardSplit(word)) = Letters(word)
      BY <1>4, HardSplitType, HardSplitLetters, ChunksAreStrings
    <3>3. /\ p \o HardSplit(word) \in Seq(Str)
          /\ AllLetters(p \o HardSplit(word)) = AllLetters(p) \o Letters(word)
      BY <1>2, <3>2, AllConcat
    <3> QED BY <1>2, <3>1, <3>3, CutLetters, LettersEmpty
  <2> QED BY <2>3, <2>4, <2>5
<1> QED BY <1>3, <1>4

LEMMA SplitLongLineLetters ==
    ASSUME NEW line \in Seq(NoBreaks)
    PROVE  AllLetters(SplitLongLine(line)) = Letters(line)
<1> DEFINE F(w) == Piecewise!Folded(w)
           Good == {w \in Seq(Seq(Inks)) :
                       F(w) \in Cuts(Chunk) /\ Held(F(w)) = AllLetters(w)}
<1>1. Seq(Seq(Inks)) \subseteq Seq(Str) BY SeqMonotonic DEF Str, Inks
<1>2. << >> \in Good
  <2>1. F(<< >>) = Cut(<< >>, << >>) BY Piecewise!FoldEmpty
  <2>2. Cut(<< >>, << >>) \in Cuts(Chunk) BY CutType, EmptySeq
  <2>3. Held(Cut(<< >>, << >>)) = AllLetters(<< >>) BY CutLetters, AllEmpty, LettersEmpty
  <2>4. << >> \in Seq(Seq(Inks)) BY EmptySeq
  <2> QED BY <2>1, <2>2, <2>3, <2>4
<1>3. ASSUME NEW w \in Seq(Seq(Inks)), NEW word \in Seq(Inks), w \in Good
      PROVE  Append(w, word) \in Good
  <2>1. F(Append(w, word)) = AddWord(F(w), word) BY Piecewise!FoldAppend
  <2>2. F(Append(w, word)) \in Cuts(Chunk) BY <1>3, <2>1, AddWordType
  <2>3. Held(F(Append(w, word))) = AllLetters(w) \o Letters(word)
    BY <1>3, <2>1, AddWordLetters
  <2>4. w \in Seq(Str) /\ word \in Str BY <1>1, SeqMonotonic DEF Str, Inks
  <2>5. AllLetters(Append(w, word)) = AllLetters(w) \o Letters(word) BY <2>4, AllAppend
  <2>6. Append(w, word) \in Seq(Seq(Inks)) BY AppendProperties
  <2> QED BY <2>2, <2>3, <2>5, <2>6
<1>4. Seq(Seq(Inks)) \subseteq Good
  <2> HIDE DEF Good
  <2> QED BY <1>2, <1>3, Piecewise!SequenceInduction
<1>5. Words(line) \in Seq(Seq(Inks))
  <2>1. NoBreaks \ {Space} = Inks BY DEF NoBreaks, Inks, IsBlank
  <2> QED BY <2>1, WordsType DEF PartsOf
<1>6. F(Words(line)) \in Cuts(Chunk) /\ Held(F(Words(line))) = AllLetters(Words(line))
  BY <1>4, <1>5
<1> HIDE DEF F
<1>7. F(Words(line)) \in Cuts(Filling) BY <1>6, ChunkFacts DEF Cuts
<1>8. SplitLongLine(line) = Flush(F(Words(line))).pieces
  BY PiecesAreFold DEF SplitLongLine, F
<1>9. line \in Str BY SeqMonotonic DEF NoBreaks, Str
<1> QED BY <1>6, <1>7, <1>8, <1>9, FlushLetters, WordsLetters

LEMMA AddParagraphLetters ==
    ASSUME NEW cut \in Cuts(Filling), NEW paragraph \in Seq(NoBreaks)
    PROVE  Held(AddParagraph(cut, paragraph)) = Held(cut) \o Letters(paragraph)
<1> DEFINE line == Strip(paragraph)
           potential == Joined(cut.current, Newline, line)
           p == Flush(cut).pieces
<1>1. cut.current \in Filling \cup {<< >>} BY DEF Cuts
<1>2. /\ p \in Seq(Str) /\ AllLetters(p) = Held(cut) /\ Held(cut) \in Str
      /\ cut.pieces \in Seq(Str) /\ cut.current \in Str
  BY FlushLetters
<1>3. line \in Seq(NoBreaks) /\ (line # << >> => Trimmed(line)) BY StripType
<1>4. line \in Str /\ Letters(line) = Letters(paragraph)
  <2>1. paragraph \in Str /\ line \in Str BY <1>3, SeqMonotonic DEF NoBreaks, Str
  <2> QED BY <2>1, LettersStripped
<1> HIDE DEF line, p
<1>5. CASE line = << >>
  <2>1. Held(cut) \o Letters(paragraph) = Held(cut)
    BY <1>2, <1>4, <1>5, LettersEmpty, ConcatStrings
  <2>2. CASE cut.current # << >> /\ Len(cut.current) + 1 <= Limit
    <3>1. AddParagraph(cut, paragraph) = Cut(cut.pieces, Append(cut.current, Newline))
      BY <1>5, <2>2 DEF AddParagraph, line
    <3>2. /\ Append(cut.current, Newline) \in Str
          /\ Letters(Append(cut.current, Newline)) = Letters(cut.current)
      BY <1>2, LettersAppend DEF WithLetter, IsBlank
    <3>3. Held(AddParagraph(cut, paragraph)) = AllLetters(cut.pieces) \o Letters(cut.current)
      BY <1>2, <3>1, <3>2, CutLetters
    <3> QED BY <2>1, <3>3 DEF Held
  <2>3. CASE ~(cut.current # << >> /\ Len(cut.current) + 1 <= Limit)
    <3>1. AddParagraph(cut, paragraph) = Flush(cut)
      BY <1>5, <2>3 DEF AddParagraph, line
    <3>2. Flush(cut).current = << >> BY FlushType
    <3>3. Held(Flush(cut)) = AllLetters(p)
      BY <1>2, <3>2, AllType, LettersEmpty, ConcatStrings DEF Held, p
    <3> QED BY <1>2, <2>1, <3>1, <3>3
  <2> QED BY <2>2, <2>3
<1>6. CASE line # << >> /\ Len(line) > Limit
  <2>1. AddParagraph(cut, paragraph) = Cut(p \o SplitLongLine(line), << >>)
    BY <1>6 DEF AddParagraph, line, p
  <2>2. /\ SplitLongLine(line) \in Seq(Str)
        /\ AllLetters(SplitLongLine(line)) = Letters(line)
    BY <1>3, SplitLongLineType, SplitLongLineLetters, ChunksAreStrings
  <2>3. /\ p \o SplitLongLine(line) \in Seq(Str)
        /\ AllLetters(p \o SplitLongLine(line)) = AllLetters(p) \o Letters(line)
    BY <1>2, <2>2, AllConcat
  <2> QED BY <1>2, <1>4, <2>1, <2>3, CutLetters, LettersEmpty
<1>7. CASE line # << >> /\ ~(Len(line) > Limit)
  <2>1. /\ potential \in Str
        /\ Letters(potential) = Letters(cut.current) \o Letters(line)
    BY <1>1, <1>3, <1>4, <1>7, JoinedType, JoinedLetters
  <2> HIDE DEF potential
  <2>2. CASE Len(potential) <= Limit
    <3>1. AddParagraph(cut, paragraph) = Cut(cut.pieces, potential)
      BY <1>7, <2>2 DEF AddParagraph, line, potential
    <3>2. Held(AddParagraph(cut, paragraph))
              = AllLetters(cut.pieces) \o (Letters(cut.current) \o Letters(line))
      BY <1>2, <2>1, <3>1, CutLetters
    <3>3. /\ AllLetters(cut.pieces) \in Str /\ Letters(cut.current) \in Str
          /\ Letters(line) \in Str
      BY <1>2, <1>4, AllType, LettersType
    <3>4. AllLetters(cut.pieces) \o (Letters(cut.current) \o Letters(line))
              = (AllLetters(cut.pieces) \o Letters(cut.current)) \o Letters(line)
      BY <3>3, Associative, SMTT(30)
    <3> QED BY <1>4, <3>2, <3>4 DEF Held
  <2>3. CASE ~(Len(potential) <= Limit)
    <3>1. AddParagraph(cut, paragraph) = Cut(p, line)
      BY <1>7, <2>3 DEF AddParagraph, line, potential, p
    <3> QED BY <1>2, <1>4, <3>1, CutLetters
  <2> QED BY <2>2, <2>3
<1> QED BY <1>5, <1>6, <1>7

LEMMA UncleanedLetters ==
    ASSUME NEW s \in Str
    PROVE  AllLetters(Uncleaned(s)) = Letters(s)
<1> DEFINE F(l) == Paragraphwise!Folded(l)
           Good == {l \in Seq(Seq(NoBreaks)) :
                       F(l) \in Cuts(Filling) /\ Held(F(l)) = AllLetters(l)}
<1>1. << >> \in Good
  <2>1. F(<< >>) = Cut(<< >>, << >>) BY Paragraphwise!FoldEmpty
  <2>2. Cut(<< >>, << >>) \in Cuts(Filling) BY CutType, EmptySeq
  <2>3. Held(Cut(<< >>, << >>)) = AllLetters(<< >>) BY CutLetters, AllEmpty, LettersEmpty
  <2>4. << >> \in Seq(Seq(NoBreaks)) BY EmptySeq
  <2> QED BY <2>1, <2>2, <2>3, <2>4
<1>2. ASSUME NEW l \in Seq(Seq(NoBreaks)), NEW paragraph \in Seq(NoBreaks), l \in Good
      PROVE  Append(l, paragraph) \in Good
  <2>1. F(Append(l, paragraph)) = AddParagraph(F(l), paragraph)
    BY Paragraphwise!FoldAppend
  <2>2. F(Append(l, paragraph)) \in Cuts(Filling) BY <1>2, <2>1, AddParagraphType
  <2>3. Held(F(Append(l, paragraph))) = AllLetters(l) \o Letters(paragraph)
    BY <1>2, <2>1, AddParagraphLetters
  <2>4. l \in Seq(Str) /\ paragraph \in Str BY SeqMonotonic DEF Str, NoBreaks
  <2>5. AllLetters(Append(l, paragraph)) = AllLetters(l) \o Letters(paragraph)
    BY <2>4, AllAppend
  <2>6. Append(l, paragraph) \in Seq(Seq(NoBreaks)) BY AppendProperties
  <2> QED BY <2>2, <2>3, <2>5, <2>6
<1>3. Seq(Seq(NoBreaks)) \subseteq Good
  <2> HIDE DEF Good
  <2> QED BY <1>1, <1>2, Paragraphwise!SequenceInduction
<1>4. F(Lines(s)) \in Cuts(Filling) /\ Held(F(Lines(s))) = AllLetters(Lines(s))
  BY <1>3, UncleanedType
<1> HIDE DEF F
<1>5. AllLetters(Uncleaned(s)) = Held(F(Lines(s)))
  BY <1>4, FlushLetters DEF Uncleaned, F
<1> QED BY <1>4, <1>5, LinesLetters

\* split_text loses, adds and moves no letter, and Bale accepts what it returns.
THEOREM NothingLost ==
    ASSUME NEW text \in Str
    PROVE  Complete(text, Chunks(text))
<1> DEFINE s == Strip(text)
<1>1. /\ s \in Str
      /\ Chunks(text) = IF s = << >> THEN << >>
                        ELSE IF Len(s) <= Limit THEN <<s>>
                        ELSE Uncleaned(s)
  BY ChunksAre
<1>2. Letters(s) = Letters(text) BY LettersStripped
<1> HIDE DEF s
<1>3. CASE s = << >> BY <1>1, <1>2, <1>3, AllEmpty, LettersEmpty, EveryChunkFits DEF Complete, SameLetters
<1>4. CASE s # << >> /\ Len(s) <= Limit
  <2>1. <<s>> = Append(<< >>, s) OBVIOUS
  <2>2. AllLetters(Append(<< >>, s)) = << >> \o Letters(s) BY <1>1, AllAppend, AllEmpty
  <2>3. << >> \o Letters(s) = Letters(s) BY <1>1, LettersType, ConcatStrings
  <2> QED BY <1>1, <1>2, <1>4, <2>1, <2>2, <2>3, EveryChunkFits DEF Complete, SameLetters
<1>5. CASE s # << >> /\ ~(Len(s) <= Limit)
  BY <1>1, <1>2, <1>5, UncleanedLetters, EveryChunkFits DEF Complete, SameLetters
<1> QED BY <1>3, <1>4, <1>5
=============================================================================
