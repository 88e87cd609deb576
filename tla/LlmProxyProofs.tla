---------------------------- MODULE LlmProxyProofs ----------------------------
(***************************************************************************)
(* Proofs about the LLM proxy: what the client got is a prefix of what     *)
(* litellm sent and the whole of it when the stream came to its end, the   *)
(* bill of a stream is what the events sent to the client say however      *)
(* chunks were cut, and no body stays open.                                *)
(***************************************************************************)
EXTENDS LlmProxyProperties, SequenceTheorems, FiniteSetTheorems, WellFoundedInduction, TLAPS

Breaks == {"n", "r"}

\* Litellm writes every line of data as an event of its own.
OneLine(q) ==
  \A i, j \in DOMAIN q :
    (i < j /\ q[i] \notin Breaks /\ q[j] \notin Breaks) => \E b \in Blank(q) : i < b /\ b < j
LinesApart == \A s \in Streams : OneLine(s)

-----------------------------------------------------------------------------
\* Sequences.

\* What lies between two cuts.
Piece(s, a, b) == SubSeq(s, a + 1, b)

\* A piece is as long as its cuts are apart, and shows the sequence from the first on.
LEMMA PieceProperties ==
  ASSUME NEW S, NEW s \in Seq(S), NEW a \in Nat, NEW b \in Nat, a <= b, b <= Len(s)
  PROVE  /\ Piece(s, a, b) \in Seq(S)
         /\ Len(Piece(s, a, b)) = b - a
         /\ \A i \in 1..(b - a) : Piece(s, a, b)[i] = s[a + i]
<1>1. \A i \in (a + 1)..b : s[i] \in S
  BY ElementOfSeq
<1>2. /\ SubSeq(s, a + 1, b) \in Seq(S)
      /\ Len(SubSeq(s, a + 1, b)) = IF a + 1 <= b THEN b - (a + 1) + 1 ELSE 0
      /\ \A i \in 1..(b - (a + 1) + 1) : SubSeq(s, a + 1, b)[i] = s[(a + 1) + i - 1]
  BY <1>1, SubSeqProperties
<1>3. b - (a + 1) + 1 = b - a /\ \A i \in 1..(b - a) : (a + 1) + i - 1 = a + i
  OBVIOUS
<1>q. QED  BY <1>2, <1>3 DEF Piece

\* A piece of a piece is a piece, the one of what is left among them.
LEMMA PieceOfPiece ==
  ASSUME NEW S, NEW s \in Seq(S), NEW a \in Nat, NEW b \in Nat, a <= b, b <= Len(s),
         NEW m \in Nat, NEW n \in Nat, m <= n, n <= b - a
  PROVE  Piece(Piece(s, a, b), m, n) = Piece(s, a + m, a + n)
<1>1. /\ Piece(s, a, b) \in Seq(S)
      /\ Len(Piece(s, a, b)) = b - a
      /\ \A i \in 1..(b - a) : Piece(s, a, b)[i] = s[a + i]
  BY PieceProperties
<1>2. ASSUME NEW p \in Seq(S), Len(p) = b - a
      PROVE  /\ Piece(p, m, n) \in Seq(S)
             /\ Len(Piece(p, m, n)) = n - m
             /\ \A i \in 1..(n - m) : Piece(p, m, n)[i] = p[m + i]
  <2>1. n <= Len(p)
    BY <1>2
  <2>q. QED  BY <2>1, PieceProperties
<1>3. /\ Piece(s, a + m, a + n) \in Seq(S)
      /\ Len(Piece(s, a + m, a + n)) = n - m
      /\ \A i \in 1..(n - m) : Piece(s, a + m, a + n)[i] = s[a + m + i]
  <2>1. a + m \in Nat /\ a + n \in Nat /\ a + m <= a + n /\ a + n <= Len(s) /\ (a + n) - (a + m) = n - m
    BY LenProperties
  <2>2. ASSUME NEW x \in Nat, NEW y \in Nat, x = a + m, y = a + n
        PROVE  /\ Piece(s, x, y) \in Seq(S)
               /\ Len(Piece(s, x, y)) = y - x
               /\ \A i \in 1..(y - x) : Piece(s, x, y)[i] = s[x + i]
    <3>1. x <= y /\ y <= Len(s)
      BY <2>1, <2>2
    <3>q. QED  BY ZenonT(40), <3>1, PieceProperties
  <2>q. QED  BY <2>1, <2>2
<1>4. \A i \in 1..(n - m) : m + i \in 1..(b - a) /\ a + (m + i) = a + m + i
  OBVIOUS
<1>5. \A i \in 1..(n - m) : Piece(Piece(s, a, b), m, n)[i] = Piece(s, a + m, a + n)[i]
  BY <1>1, <1>2, <1>3, <1>4
<1>6. /\ Piece(Piece(s, a, b), m, n) \in Seq(S)
      /\ Len(Piece(Piece(s, a, b), m, n)) = n - m
  BY <1>1, <1>2
<1>q. QED  BY <1>3, <1>5, <1>6, SeqEqual

LEMMA PieceOfTail ==
  ASSUME NEW S, NEW s \in Seq(S), NEW a \in Nat, a <= Len(s),
         NEW m \in Nat, NEW n \in Nat, m <= n, n <= Len(s) - a
  PROVE  Piece(Piece(s, a, Len(s)), m, n) = Piece(s, a + m, a + n)
<1>1. PICK b \in Nat : b = Len(s)
  BY LenProperties
<1>2. a <= b /\ b <= Len(s) /\ n <= b - a
  BY <1>1
<1>3. Piece(Piece(s, a, b), m, n) = Piece(s, a + m, a + n)
  BY <1>2, PieceOfPiece
<1>q. QED  BY <1>1, <1>3

\* Two pieces that meet make one.
LEMMA PiecesMeet ==
  ASSUME NEW S, NEW s \in Seq(S), NEW a \in Nat, NEW b \in Nat, NEW c \in Nat,
         a <= b, b <= c, c <= Len(s)
  PROVE  Piece(s, a, b) \o Piece(s, b, c) = Piece(s, a, c)
<1>1. a + 1 \in 1..(Len(s) + 1) /\ b \in ((a + 1) - 1)..Len(s) /\ c \in b..Len(s)
  BY LenProperties
<1>q. QED  BY <1>1, ConcatAdjacentSubSeq DEF Piece

\* All of it, and nothing of it.
LEMMA PieceEnds ==
  ASSUME NEW S, NEW s \in Seq(S)
  PROVE  /\ Piece(s, 0, Len(s)) = s
         /\ \A a \in Nat : Piece(s, a, a) = <<>>
<1>1. Piece(s, 0, Len(s)) = s
  BY SubSeqFull DEF Piece
<1>2. \A a \in Nat : Piece(s, a, a) = <<>>
  BY SubSeqEmpty DEF Piece
<1>q. QED  BY <1>1, <1>2

-----------------------------------------------------------------------------
\* Where text is cut.

\* A set of numbers that is not empty has a smallest one, and a bounded one a
\* largest.
LEMMA SmallestExists ==
  ASSUME NEW S \in SUBSET Nat, S # {}
  PROVE  \E k \in S : \A y \in S : k <= y
<1>1. DEFINE R == OpToRel(<, Nat)
<1>2. \E k \in S : \A y \in S : ~ (<<y, k>> \in R)
  BY NatLessThanWellFounded, WFMin
<1>3. PICK k \in S : \A y \in S : ~ (<<y, k>> \in R)
  BY <1>2
<1>4. ASSUME NEW y \in S  PROVE k <= y
  <2>1. ~ (y < k)
    BY <1>3 DEF OpToRel
  <2>q. QED  BY <2>1
<1>q. QED  BY <1>3, <1>4

LEMMA LargestExists ==
  ASSUME NEW n \in Nat, NEW S \in SUBSET (0..n), S # {}
  PROVE  Max(S) \in S /\ \A y \in S : Max(S) >= y
<1>1. DEFINE T == {x \in Nat : n - x \in S}
<1>2. T \in SUBSET Nat /\ T # {}
  <2>1. PICK y \in S : TRUE
    OBVIOUS
  <2>2. n - y \in Nat /\ n - (n - y) = y
    BY <2>1
  <2>q. QED  BY <2>1, <2>2
<1>3. PICK k \in T : \A x \in T : k <= x
  BY <1>2, SmallestExists
<1>4. n - k \in S /\ k \in Nat
  BY <1>3
<1>5. \A y \in S : n - k >= y
  <2>1. TAKE y \in S
  <2>2. n - y \in T
    <3>1. n - y \in Nat /\ n - (n - y) = y
      OBVIOUS
    <3>q. QED  BY <3>1
  <2>3. k <= n - y
    BY <2>2, <1>3
  <2>q. QED  BY <2>3, <1>4
<1>q. QED  BY <1>4, <1>5 DEF Max

\* The cut before j is zero or a blank line before j, and no later one is.
LEMMA CutBefore ==
  ASSUME NEW text \in Seq(Atoms), NEW j \in Nat
  PROVE  /\ CutAt(text, j) \in Nat
         /\ CutAt(text, j) # 0 => CutAt(text, j) \in Blank(text) /\ CutAt(text, j) < j
         /\ \A i \in Blank(text) : i < j => i <= CutAt(text, j)
<1>1. DEFINE B == {0} \cup {i \in Blank(text) : i < j}
<1>2. Blank(text) \subseteq 1..Len(text) /\ Len(text) \in Nat
  BY LenProperties DEF Blank
<1>3. B \in SUBSET (0..Len(text)) /\ B # {}
  BY <1>2
<1>4. Max(B) \in B /\ \A y \in B : Max(B) >= y
  BY <1>2, <1>3, LargestExists
<1>5. CutAt(text, j) = Max(B)
  BY DEF CutAt
<1>6. CutAt(text, j) \in B /\ \A y \in B : CutAt(text, j) >= y
  BY <1>4, <1>5
<1>7. ASSUME NEW i \in Blank(text), i < j  PROVE i <= CutAt(text, j)
  <2>1. i \in B /\ i \in Nat
    BY <1>7, <1>2
  <2>2. CutAt(text, j) \in Nat
    BY <1>6, <1>2
  <2>q. QED  BY <2>1, <2>2, <1>6
<1>8. CutAt(text, j) \in Nat
  BY <1>2, <1>6
<1>9. CutAt(text, j) # 0 => CutAt(text, j) \in Blank(text) /\ CutAt(text, j) < j
  BY <1>6
<1>q. QED  BY <1>7, <1>8, <1>9

\* A line of text that is complete, and all of them.
Lines(text) == {i \in DOMAIN text : text[i] \notin Breaks /\ Complete(text, i)}

\* The lines that Parse takes to mean something.
Parsed(text) == {i \in DOMAIN text : \E j \in Blank(text) : ParseEvent(text, j) = {i}}

\* Where every line is an event of its own, Parse finds the complete ones.
LEMMA ParsedIsComplete ==
  ASSUME NEW text \in Seq(Atoms), OneLine(text)
  PROVE  Parsed(text) = Lines(text)
<1>1. Len(text) \in Nat /\ DOMAIN text = 1..Len(text)
  BY LenProperties
<1>2. ASSUME NEW i \in Parsed(text)  PROVE i \in Lines(text)
  <2>1. PICK j \in Blank(text) : ParseEvent(text, j) = {i}
    BY <1>2 DEF Parsed
  <2>2. i \in DOMAIN text /\ i \in (CutAt(text, j) + 1)..j /\ text[i] \notin Breaks
    BY <1>2, <2>1 DEF Parsed, ParseEvent, Breaks
  <2>3. j \in 1..Len(text) /\ j > 1 /\ text[j - 1] = "n" /\ text[j] = "n"
    BY <1>1 DEF Blank
  <2>4. CutAt(text, j) \in Nat
    BY <2>3, CutBefore
  <2>5. i # j /\ i # j - 1
    BY <2>2, <2>3 DEF Breaks
  <2>6. (j - 1) \in (i + 1)..(Len(text) - 1) /\ (j - 1) + 1 = j
    BY <1>1, <2>2, <2>3, <2>4, <2>5
  <2>7. Complete(text, i)
    BY <2>3, <2>6 DEF Complete
  <2>q. QED  BY <2>2, <2>7 DEF Lines
<1>3. ASSUME NEW i \in Lines(text)  PROVE i \in Parsed(text)
  <2>1. i \in 1..Len(text) /\ text[i] \notin Breaks /\ Complete(text, i)
    BY <1>1, <1>3 DEF Lines
  <2>2. PICK k \in (i + 1)..(Len(text) - 1) : text[k] = "n" /\ text[k + 1] = "n"
    BY <2>1 DEF Complete
  <2>3. DEFINE B == {j \in Blank(text) : j > i}
  <2>4. k + 1 \in B
    <3>1. k + 1 \in 1..Len(text) /\ k + 1 > 1 /\ (k + 1) - 1 = k /\ k + 1 > i
      BY <1>1, <2>1, <2>2
    <3>q. QED  BY <1>1, <2>2, <3>1 DEF Blank
  <2>5. B \in SUBSET Nat
    BY <1>1 DEF Blank
  <2>6. PICK j \in B : \A y \in B : j <= y
    BY <2>4, <2>5, SmallestExists
  <2>7. j \in Blank(text) /\ j > i /\ j \in 1..Len(text)
    BY <1>1, <2>6 DEF Blank
  <2>8. /\ CutAt(text, j) \in Nat
        /\ CutAt(text, j) # 0 => CutAt(text, j) \in Blank(text) /\ CutAt(text, j) < j
        /\ \A b \in Blank(text) : b < j => b <= CutAt(text, j)
    BY SMTT(30), <2>7, CutBefore
  <2>9. CutAt(text, j) < i
    <3>1. CASE CutAt(text, j) = 0
      BY <3>1, <2>1
    <3>2. CASE CutAt(text, j) # 0
      <4>1. CutAt(text, j) \notin B
        BY <3>2, <2>5, <2>6, <2>7, <2>8
      <4>2. text[CutAt(text, j)] = "n"
        BY <3>2, <2>8 DEF Blank
      <4>3. CutAt(text, j) # i
        BY <4>2, <2>1 DEF Breaks
      <4>q. QED  BY <3>2, <4>1, <4>3, <2>1, <2>8
    <3>q. QED  BY <3>1, <3>2
  <2>10. i \in ParseEvent(text, j)
    <3>1. i \in (CutAt(text, j) + 1)..j
      BY <2>1, <2>7, <2>8, <2>9
    <3>q. QED  BY <3>1, <2>1 DEF ParseEvent, Breaks
  <2>11. ASSUME NEW l \in ParseEvent(text, j), l # i  PROVE FALSE
    <3>1. l \in (CutAt(text, j) + 1)..j /\ text[l] \notin Breaks
      BY DEF ParseEvent, Breaks
    <3>2. l \in 1..Len(text)
      BY <3>1, <2>7, <2>8
    <3>3. CASE l < i
      <4>1. PICK b \in Blank(text) : l < b /\ b < i
        BY <1>1, <2>1, <3>1, <3>2, <3>3 DEF OneLine
      <4>2. b \in Nat
        BY <1>1 DEF Blank
      <4>3. b < j
        BY <4>1, <4>2, <2>1, <2>7
      <4>q. QED  BY <4>1, <4>2, <4>3, <2>8, <3>1, <3>2
    <3>4. CASE l > i
      <4>1. PICK b \in Blank(text) : i < b /\ b < l
        BY <1>1, <2>1, <3>1, <3>2, <3>4 DEF OneLine
      <4>2. b \in Nat
        BY <1>1 DEF Blank
      <4>3. b \in B
        BY <4>1, <4>2, <2>1
      <4>q. QED  BY <4>1, <4>2, <4>3, <2>6, <2>7, <3>1, <3>2
    <3>q. QED  BY <2>11, <3>2, <3>3, <3>4, <2>1
  <2>12. ParseEvent(text, j) = {i}
    BY <2>10, <2>11
  <2>q. QED  BY <1>1, <2>1, <2>7, <2>12 DEF Parsed
<1>q. QED  BY <1>2, <1>3

-----------------------------------------------------------------------------
\* More text.

\* Where the last event of text ends.
Cut(text) == CutAt(text, Len(text) + 1)

OneBlank(text) == \A i \in DOMAIN text : i > 2 => {text[i - 2], text[i - 1], text[i]} # {"n"}

LEMMA CutProperties ==
  ASSUME NEW text \in Seq(Atoms)
  PROVE  /\ Cut(text) \in 0..Len(text)
         /\ Cut(text) # 0 => Cut(text) \in Blank(text)
         /\ \A i \in Blank(text) : i <= Cut(text)
<1>1. Blank(text) \subseteq 1..Len(text) /\ Len(text) \in Nat /\ Len(text) + 1 \in Nat
  BY LenProperties DEF Blank
<1>2. /\ Cut(text) \in Nat
      /\ Cut(text) # 0 => Cut(text) \in Blank(text)
      /\ \A i \in Blank(text) : i < Len(text) + 1 => i <= Cut(text)
  BY <1>1, CutBefore DEF Cut
<1>3. \A i \in Blank(text) : i < Len(text) + 1
  BY <1>1
<1>4. Cut(text) \in 0..Len(text)
  BY <1>1, <1>2
<1>q. QED  BY <1>2, <1>3, <1>4

\* A line is complete when a blank line ends after the end of the line.
LEMMA CompleteBefore ==
  ASSUME NEW text \in Seq(Atoms), NEW i \in Nat
  PROVE  Complete(text, i) <=> \E b \in Blank(text) : b > i + 1
<1>1. Len(text) \in Nat /\ DOMAIN text = 1..Len(text)
  BY LenProperties
<1>2. ASSUME Complete(text, i)  PROVE \E b \in Blank(text) : b > i + 1
  <2>1. PICK j \in (i + 1)..(Len(text) - 1) : text[j] = "n" /\ text[j + 1] = "n"
    BY <1>2 DEF Complete
  <2>2. j + 1 \in 1..Len(text) /\ j + 1 > 1 /\ (j + 1) - 1 = j /\ j + 1 > i + 1
    BY <1>1, <2>1
  <2>3. j + 1 \in Blank(text)
    BY <1>1, <2>1, <2>2 DEF Blank
  <2>q. QED  BY <2>2, <2>3
<1>3. ASSUME NEW b \in Blank(text), b > i + 1  PROVE Complete(text, i)
  <2>1. b \in 1..Len(text) /\ text[b - 1] = "n" /\ text[b] = "n"
    BY <1>1 DEF Blank
  <2>2. (b - 1) \in (i + 1)..(Len(text) - 1) /\ (b - 1) + 1 = b
    BY <1>1, <1>3, <2>1
  <2>q. QED  BY <2>1, <2>2 DEF Complete
<1>q. QED  BY <1>2, <1>3

\* Parsing goes on where it stopped: the lines of the longer text are those of
\* the shorter one and those of what follows its last cut.
LEMMA ParsingGoesOn ==
  ASSUME NEW q \in Seq(Atoms), OneBlank(q), NEW n \in Nat, n <= Len(q),
         NEW p, p = Piece(q, 0, n),
         NEW c, c = Cut(p),
         NEW text, text = Piece(q, c, Len(q))
  PROVE  /\ c \in 0..n
         /\ Cut(q) = c + Cut(text)
         /\ Lines(q) = Lines(p) \cup {c + i : i \in Lines(text)}
         /\ Lines(p) \subseteq 1..c
         /\ p \in Seq(Atoms) /\ Len(p) = n /\ \A i \in 1..n : p[i] = q[i]
         /\ text \in Seq(Atoms) /\ Len(text) = Len(q) - c
         /\ \A i \in 1..(Len(q) - c) : text[i] = q[c + i]
         /\ OneLine(q) => OneLine(text)
<1>1. Len(q) \in Nat /\ DOMAIN q = 1..Len(q)
  BY LenProperties
<1>2. p \in Seq(Atoms) /\ Len(p) = n /\ \A i \in 1..n : p[i] = q[i]
  <2>1. 0 \in Nat /\ 0 <= n
    OBVIOUS
  <2>2. /\ Piece(q, 0, n) \in Seq(Atoms)
        /\ Len(Piece(q, 0, n)) = n - 0
        /\ \A i \in 1..(n - 0) : Piece(q, 0, n)[i] = q[0 + i]
    BY <2>1, PieceProperties
  <2>3. n - 0 = n /\ \A i \in 1..n : 0 + i = i
    OBVIOUS
  <2>q. QED  BY <2>2, <2>3
<1>3. /\ c \in 0..n
      /\ c # 0 => c \in Blank(p)
      /\ \A i \in Blank(p) : i <= c
  BY <1>2, CutProperties
<1>4. /\ text \in Seq(Atoms) /\ Len(text) = Len(q) - c
      /\ \A i \in 1..(Len(q) - c) : text[i] = q[c + i]
  <2>1. c \in Nat /\ c <= Len(q)
    BY <1>1, <1>3
  <2>2. Len(q) \in Nat /\ Len(q) <= Len(q)
    BY <1>1
  <2>3. /\ Piece(q, c, Len(q)) \in Seq(Atoms)
        /\ Len(Piece(q, c, Len(q))) = Len(q) - c
        /\ \A i \in 1..(Len(q) - c) : Piece(q, c, Len(q))[i] = q[c + i]
    <3>1. ASSUME NEW x \in Nat, NEW y \in Nat, x <= y, y <= Len(q)
          PROVE  /\ Piece(q, x, y) \in Seq(Atoms)
                 /\ Len(Piece(q, x, y)) = y - x
                 /\ \A i \in 1..(y - x) : Piece(q, x, y)[i] = q[x + i]
      BY <3>1, PieceProperties
    <3>q. QED  BY <2>1, <2>2, <3>1
  <2>q. QED  BY <2>3
<1>5. /\ DOMAIN p = 1..n
      /\ DOMAIN text = 1..(Len(q) - c)
  BY <1>2, <1>4, LenProperties
<1>6. \A i \in Blank(p) : i \in Blank(q) /\ i \in 1..n
  BY <1>1, <1>2, <1>5 DEF Blank
<1>7. ASSUME NEW b \in Blank(q), b <= n  PROVE b \in Blank(p)
  BY <1>1, <1>2, <1>5, <1>7 DEF Blank
<1>8. ASSUME NEW b \in Blank(text)  PROVE c + b \in Blank(q)
  <2>1. b \in 1..(Len(q) - c) /\ b > 1 /\ text[b - 1] = "n" /\ text[b] = "n"
    BY <1>5 DEF Blank
  <2>2. b - 1 \in 1..(Len(q) - c) /\ c + (b - 1) = (c + b) - 1
    BY <1>1, <1>3, <2>1
  <2>3. q[(c + b) - 1] = "n" /\ q[c + b] = "n"
    BY <1>4, <2>1, <2>2
  <2>4. c + b \in 1..Len(q) /\ c + b > 1
    BY <1>1, <1>3, <2>1
  <2>q. QED  BY <1>1, <2>3, <2>4 DEF Blank
<1>9. ASSUME NEW b \in Blank(q), b > c + 1  PROVE b - c \in Blank(text)
  <2>1. b \in 1..Len(q) /\ b > 1 /\ q[b - 1] = "n" /\ q[b] = "n"
    BY <1>1 DEF Blank
  <2>2. /\ b - c \in 1..(Len(q) - c) /\ b - c > 1 /\ (b - c) - 1 \in 1..(Len(q) - c)
        /\ c + (b - c) = b /\ c + ((b - c) - 1) = b - 1
    BY <1>1, <1>3, <1>9, <2>1
  <2>3. text[(b - c) - 1] = "n" /\ text[b - c] = "n"
    BY <1>4, <2>1, <2>2
  <2>q. QED  BY <1>5, <2>2, <2>3 DEF Blank
<1>10. c + 1 \notin Blank(q)
  <2>1. SUFFICES ASSUME c + 1 \in Blank(q)  PROVE FALSE
    OBVIOUS
  <2>2. c + 1 \in 1..Len(q) /\ c + 1 > 1 /\ q[c] = "n" /\ q[c + 1] = "n"
    BY <1>1, <1>3, <2>1 DEF Blank
  <2>3. c # 0 /\ c \in Blank(q)
    BY <1>3, <1>6, <2>2
  <2>4. c > 1 /\ q[c - 1] = "n"
    BY <1>1, <2>3 DEF Blank
  <2>5. c + 1 > 2 /\ (c + 1) - 2 = c - 1 /\ (c + 1) - 1 = c
    BY <1>3, <2>4
  <2>6. {q[(c + 1) - 2], q[(c + 1) - 1], q[c + 1]} = {"n"}
    BY <2>2, <2>4, <2>5
  <2>q. QED  BY <1>1, <2>2, <2>5, <2>6 DEF OneBlank
<1>11. Cut(q) = c + Cut(text)
  <2>1. /\ Cut(q) \in 0..Len(q)
        /\ Cut(q) # 0 => Cut(q) \in Blank(q)
        /\ \A i \in Blank(q) : i <= Cut(q)
    BY CutProperties
  <2>2. /\ Cut(text) \in 0..Len(text)
        /\ Cut(text) # 0 => Cut(text) \in Blank(text)
        /\ \A i \in Blank(text) : i <= Cut(text)
    BY <1>4, CutProperties
  <2>3. Cut(q) >= c + Cut(text)
    <3>1. CASE Cut(text) # 0
      BY <3>1, <1>8, <2>1, <2>2
    <3>2. CASE Cut(text) = 0 /\ c # 0
      BY <3>2, <1>3, <1>6, <2>1
    <3>3. CASE Cut(text) = 0 /\ c = 0
      BY <3>3, <2>1
    <3>q. QED  BY <3>1, <3>2, <3>3
  <2>4. ASSUME Cut(q) > c + Cut(text)  PROVE FALSE
    <3>1. Cut(q) \in Blank(q) /\ Cut(q) # c + 1
      BY <1>3, <1>10, <2>1, <2>2, <2>4
    <3>2. Cut(q) > c + 1
      BY <1>1, <1>3, <1>4, <2>1, <2>2, <2>4, <3>1
    <3>3. Cut(q) - c <= Cut(text)
      BY <1>9, <2>2, <3>1, <3>2
    <3>q. QED  BY <1>1, <1>3, <1>4, <2>1, <2>2, <2>4, <3>3
  <2>q. QED  BY <1>1, <1>3, <1>4, <2>1, <2>2, <2>3, <2>4
<1>12. ASSUME NEW i \in Lines(p)  PROVE i \in Lines(q) /\ i \in 1..c
  <2>1. i \in 1..n /\ p[i] \notin Breaks /\ Complete(p, i)
    BY <1>5, <1>12 DEF Lines
  <2>2. PICK b \in Blank(p) : b > i + 1
    BY <1>2, <2>1, CompleteBefore
  <2>3. b \in Blank(q) /\ b \in 1..n /\ b <= c
    BY <1>3, <1>6
  <2>4. Complete(q, i)
    BY <2>1, <2>2, <2>3, CompleteBefore
  <2>5. i \in 1..c
    BY <1>3, <2>1, <2>2, <2>3
  <2>q. QED  BY <1>1, <1>2, <2>1, <2>4, <2>5 DEF Lines
<1>13. ASSUME NEW k \in Lines(text)  PROVE c + k \in Lines(q)
  <2>1. k \in 1..(Len(q) - c) /\ text[k] \notin Breaks /\ Complete(text, k)
    BY <1>5, <1>13 DEF Lines
  <2>2. PICK b \in Blank(text) : b > k + 1
    BY <1>4, <2>1, CompleteBefore
  <2>3. c + b \in Blank(q) /\ b \in 1..(Len(q) - c)
    BY <1>5, <1>8 DEF Blank
  <2>4. c + b > (c + k) + 1 /\ c + k \in 1..Len(q)
    BY <1>1, <1>3, <2>1, <2>2, <2>3
  <2>5. Complete(q, c + k)
    <3>1. c + k \in Nat
      BY <2>4
    <3>q. QED  BY <2>3, <2>4, <3>1, CompleteBefore
  <2>q. QED  BY <1>1, <1>4, <2>1, <2>4, <2>5 DEF Lines
<1>14. ASSUME NEW i \in Lines(q)  PROVE i \in Lines(p) \cup {c + k : k \in Lines(text)}
  <2>1. i \in 1..Len(q) /\ q[i] \notin Breaks /\ Complete(q, i)
    BY <1>1, <1>14 DEF Lines
  <2>2. CASE i <= c
    <3>1. c \in Blank(p) /\ c > 1 /\ q[c] = "n" /\ q[c - 1] = "n"
      BY <1>1, <1>3, <1>6, <2>1, <2>2 DEF Blank
    <3>2. i # c /\ i # c - 1
      BY <2>1, <3>1 DEF Breaks
    <3>3. c > i + 1 /\ i \in 1..n
      BY <1>3, <2>1, <2>2, <3>2
    <3>4. Complete(p, i)
      BY <1>2, <3>1, <3>3, CompleteBefore
    <3>q. QED  BY <1>2, <1>5, <2>1, <3>3, <3>4 DEF Lines
  <2>3. CASE i > c
    <3>1. i - c \in 1..(Len(q) - c) /\ c + (i - c) = i
      BY <1>1, <1>3, <2>1, <2>3
    <3>2. PICK b \in Blank(q) : b > i + 1
      BY <2>1, CompleteBefore
    <3>3. b \in Nat
      BY <1>1 DEF Blank
    <3>4. b > c + 1 /\ b - c > (i - c) + 1
      BY <1>3, <2>1, <2>3, <3>2, <3>3
    <3>5. b - c \in Blank(text)
      BY <1>9, <3>4
    <3>6. Complete(text, i - c)
      BY <1>4, <3>1, <3>4, <3>5, CompleteBefore
    <3>7. i - c \in Lines(text)
      BY <1>4, <1>5, <2>1, <3>1, <3>6 DEF Lines
    <3>q. QED  BY <3>1, <3>7
  <2>q. QED  BY <1>3, <2>1, <2>2, <2>3
<1>15. Lines(q) = Lines(p) \cup {c + i : i \in Lines(text)}
  BY <1>12, <1>13, <1>14
<1>16. Lines(p) \subseteq 1..c
  BY <1>12
<1>17. ASSUME OneLine(q), NEW i \in DOMAIN text, NEW j \in DOMAIN text,
              i < j, text[i] \notin Breaks, text[j] \notin Breaks
       PROVE  \E b \in Blank(text) : i < b /\ b < j
  <2>1. c + i \in DOMAIN q /\ c + j \in DOMAIN q /\ c + i < c + j
    BY <1>1, <1>3, <1>5, <1>17
  <2>2. q[c + i] \notin Breaks /\ q[c + j] \notin Breaks
    BY <1>4, <1>5, <1>17
  <2>3. PICK b \in Blank(q) : c + i < b /\ b < c + j
    BY <1>17, <2>1, <2>2 DEF OneLine
  <2>4. b \in Nat
    BY <1>1 DEF Blank
  <2>5. b > c + 1 /\ i < b - c /\ b - c < j
    BY SMTT(30), <1>3, <1>5, <2>3, <2>4
  <2>q. QED  BY <1>9, <2>5
<1>18. OneLine(q) => OneLine(text)
  BY <1>17 DEF OneLine
<1>q. QED  BY <1>2, <1>3, <1>4, <1>11, <1>15, <1>16, <1>18

-----------------------------------------------------------------------------
\* The sniffer.

ReportLines(q)  == {i \in Lines(q) : q[i] \in Reports}
ContentLines(q) == {i \in Lines(q) : q[i] = "c"}

\* What the reference counts is counted by lines.
LEMMA ByLines ==
  ASSUME NEW q \in Seq(Atoms)
  PROVE  /\ Reported(q) = IF ReportLines(q) = {} THEN None ELSE q[Max(ReportLines(q))]
         /\ Content(q) = Cardinality(ContentLines(q))
<1>1. {i \in DOMAIN q : q[i] \in Reports /\ Complete(q, i)} = ReportLines(q)
  BY DEF ReportLines, Lines, Reports, Breaks
<1>2. {i \in DOMAIN q : q[i] = "c" /\ Complete(q, i)} = ContentLines(q)
  BY DEF ContentLines, Lines, Breaks
<1>q. QED  BY <1>1, <1>2 DEF Reported, Content

\* There are finitely many lines.
LEMMA LinesFinite ==
  ASSUME NEW q \in Seq(Atoms)
  PROVE  /\ Lines(q) \subseteq 1..Len(q)
         /\ IsFiniteSet(ContentLines(q)) /\ Cardinality(ContentLines(q)) \in Nat
<1>1. Len(q) \in Nat /\ Lines(q) \subseteq 1..Len(q)
  BY LenProperties DEF Lines
<1>2. IsFiniteSet(1..Len(q))
  BY <1>1, FS_Interval
<1>3. ContentLines(q) \in SUBSET (1..Len(q))
  BY <1>1 DEF ContentLines
<1>4. IsFiniteSet(ContentLines(q))
  BY <1>2, <1>3, FS_Subset
<1>q. QED  BY <1>1, <1>4, FS_CardinalityType

\* A largest element is the only one.
LEMMA LargestUnique ==
  ASSUME NEW n \in Nat, NEW S \in SUBSET (0..n), NEW m \in S, \A y \in S : m >= y
  PROVE  Max(S) = m
<1>1. Max(S) \in S /\ \A y \in S : Max(S) >= y
  BY LargestExists
<1>2. Max(S) >= m /\ m >= Max(S)
  BY <1>1
<1>3. Max(S) \in 0..n /\ m \in 0..n
  BY <1>1
<1>q. QED  BY <1>2, <1>3

\* Moving a set of numbers up does not change its size.
LEMMA ShiftKeepsSize ==
  ASSUME NEW c \in Nat, NEW S \in SUBSET Nat, IsFiniteSet(S)
  PROVE  LET T == {c + i : i \in S}
         IN  IsFiniteSet(T) /\ Cardinality(T) = Cardinality(S)
<1>1. DEFINE T == {c + i : i \in S}
<1>2. DEFINE f == [i \in S |-> c + i]
<1>3. f \in Bijection(S, T)
  <2>1. f \in [S -> T]
    OBVIOUS
  <2>2. \A a, b \in S : f[a] = f[b] => a = b
    OBVIOUS
  <2>3. \A t \in T : \E s \in S : f[s] = t
    OBVIOUS
  <2>q. QED  BY <2>1, <2>2, <2>3 DEF Bijection, Injection, Surjection, IsInjective
<1>4. ExistsBijection(S, T)
  BY <1>3 DEF ExistsBijection
<1>q. QED  BY <1>4, FS_Bijection

\* A sniffer that has seen p.
Sniffed(p) ==
  [pending |-> Piece(p, Cut(p), Len(p)), usage |-> Reported(p), chars |-> Content(p)]

\* Fed with the part that follows p, it has seen both: where the text was cut
\* makes no difference.
LEMMA CutsMakeNoDifference ==
  ASSUME NEW q \in Seq(Atoms), OneBlank(q), OneLine(q), NEW n \in Nat, n <= Len(q)
  PROVE  Consume(Sniffed(Piece(q, 0, n)), Piece(q, n, Len(q))) = Sniffed(q)
<1>1. DEFINE p == Piece(q, 0, n)
<1>2. DEFINE c == Cut(p)
<1>3. DEFINE text == Piece(q, c, Len(q))
<1>4. /\ c \in 0..n
      /\ Cut(q) = c + Cut(text)
      /\ Lines(q) = Lines(p) \cup {c + i : i \in Lines(text)}
      /\ Lines(p) \subseteq 1..c
      /\ p \in Seq(Atoms) /\ Len(p) = n /\ \A i \in 1..n : p[i] = q[i]
      /\ text \in Seq(Atoms) /\ Len(text) = Len(q) - c
      /\ \A i \in 1..(Len(q) - c) : text[i] = q[c + i]
      /\ OneLine(text)
  BY ParsingGoesOn
<1>5. Len(q) \in Nat
  BY LenProperties
<1>6. Sniffed(p).pending \o Piece(q, n, Len(q)) = text
  <2>1. Piece(p, c, n) = Piece(q, c, n)
    <3>1. 0 \in Nat /\ n \in Nat /\ 0 <= n /\ n <= Len(q) /\ c \in Nat /\ c <= n /\ n <= n - 0
      BY <1>4
    <3>2. Piece(Piece(q, 0, n), c, n) = Piece(q, 0 + c, 0 + n)
      BY <3>1, PieceOfPiece
    <3>3. 0 + c = c /\ 0 + n = n
      BY <3>1
    <3>q. QED  BY <3>2, <3>3
  <2>2. Piece(q, c, n) \o Piece(q, n, Len(q)) = Piece(q, c, Len(q))
    <3>1. c \in Nat /\ c <= n /\ n <= Len(q) /\ Len(q) \in Nat /\ Len(q) <= Len(q)
      BY <1>4, <1>5
    <3>q. QED  BY <3>1, PiecesMeet
  <2>q. QED  BY <1>4, <2>1, <2>2 DEF Sniffed
<1>7. Parsed(text) = Lines(text)
  BY <1>4, ParsedIsComplete
<1>8. Lines(text) \subseteq 1..Len(text)
  BY <1>4, LinesFinite
<1>9. DEFINE shift(S) == {c + i : i \in S}
<1>10. /\ ReportLines(q) = ReportLines(p) \cup shift(ReportLines(text))
       /\ ContentLines(q) = ContentLines(p) \cup shift(ContentLines(text))
  <2>1. \A i \in Lines(p) : p[i] = q[i]
    BY <1>4
  <2>2. \A i \in Lines(text) : text[i] = q[c + i]
    BY <1>4, <1>8
  <2>3. /\ shift(ReportLines(text)) = {c + i : i \in ReportLines(text)}
        /\ shift(ContentLines(text)) = {c + i : i \in ContentLines(text)}
    OBVIOUS
  <2>4. ASSUME NEW i \in Lines(q)
        PROVE  i \in Lines(p) \/ \E k \in Lines(text) : i = c + k
    BY <1>4
  <2>5. Lines(p) \subseteq Lines(q) /\ \A k \in Lines(text) : c + k \in Lines(q)
    BY <1>4
  <2>. HIDE DEF p, c, text, shift
  <2>6. ReportLines(q) = ReportLines(p) \cup {c + i : i \in ReportLines(text)}
    BY <2>1, <2>2, <2>4, <2>5 DEF ReportLines
  <2>7. ContentLines(q) = ContentLines(p) \cup {c + i : i \in ContentLines(text)}
    BY <2>1, <2>2, <2>4, <2>5 DEF ContentLines
  <2>q. QED  BY <2>3, <2>6, <2>7
<1>11. /\ ReportLines(text) \subseteq 1..(Len(q) - c)
       /\ ContentLines(text) \subseteq 1..(Len(q) - c)
       /\ ReportLines(p) \subseteq 1..c /\ ContentLines(p) \subseteq 1..c
  BY <1>4, <1>8 DEF ReportLines, ContentLines
<1>12. Reported(q) = IF ReportLines(text) = {} THEN Reported(p)
                     ELSE text[Max(ReportLines(text))]
  <2>1. CASE ReportLines(text) = {}
    <3>1. ReportLines(q) = ReportLines(p)
      BY <1>10, <2>1
    <3>2. CASE ReportLines(p) = {}
      BY <1>4, <2>1, <3>1, <3>2, ByLines
    <3>3. CASE ReportLines(p) # {}
      <4>1. ReportLines(p) \in SUBSET (0..n)
        BY <1>4, <1>11
      <4>2. Max(ReportLines(p)) \in ReportLines(p)
        BY <3>3, <4>1, LargestExists
      <4>3. p[Max(ReportLines(p))] = q[Max(ReportLines(p))]
        BY <1>4, <1>11, <4>2
      <4>4. Reported(q) = q[Max(ReportLines(q))] /\ Reported(p) = p[Max(ReportLines(p))]
        BY <1>4, <3>1, <3>3, ByLines
      <4>q. QED  BY <2>1, <3>1, <4>3, <4>4
    <3>q. QED  BY <3>2, <3>3
  <2>2. CASE ReportLines(text) # {}
    <3>1. DEFINE m == Max(ReportLines(text))
    <3>2. ReportLines(text) \in SUBSET (0..(Len(q) - c)) /\ Len(q) - c \in Nat
      BY <1>4, <1>5, <1>11
    <3>3. m \in ReportLines(text) /\ \A y \in ReportLines(text) : m >= y
      BY <2>2, <3>2, LargestExists
    <3>4. c + m \in ReportLines(q) /\ m \in 1..(Len(q) - c)
      BY <1>10, <1>11, <3>3
    <3>5. \A y \in ReportLines(q) : c + m >= y
      <4>1. \A y \in ReportLines(p) : c + m >= y
        BY <1>4, <1>11, <3>4
      <4>2. \A y \in ReportLines(text) : c + m >= c + y
        BY <1>4, <1>11, <3>3, <3>4
      <4>q. QED  BY <1>10, <4>1, <4>2
    <3>6. ReportLines(q) \in SUBSET (0..Len(q))
      <4>1. Lines(q) \subseteq 1..Len(q)
        BY LinesFinite
      <4>q. QED  BY <1>5, <4>1 DEF ReportLines
    <3>7. Max(ReportLines(q)) = c + m
      BY <1>5, <3>4, <3>5, <3>6, LargestUnique
    <3>8. q[c + m] = text[m]
      BY <1>4, <3>4
    <3>9. Reported(q) = q[Max(ReportLines(q))]
      BY <3>4, ByLines
    <3>q. QED  BY <2>2, <3>7, <3>8, <3>9
  <2>q. QED  BY <2>1, <2>2
<1>13. Content(q) = Content(p) + Cardinality(ContentLines(text))
  <2>1. DEFINE T == shift(ContentLines(text))
  <2>2. IsFiniteSet(ContentLines(p)) /\ Cardinality(ContentLines(p)) \in Nat
    BY <1>4, LinesFinite
  <2>3. IsFiniteSet(ContentLines(text)) /\ Cardinality(ContentLines(text)) \in Nat
    BY <1>4, LinesFinite
  <2>4. IsFiniteSet(T) /\ Cardinality(T) = Cardinality(ContentLines(text))
    <3>1. c \in Nat /\ ContentLines(text) \in SUBSET Nat
      BY <1>4, <1>11
    <3>q. QED  BY <2>3, <3>1, ShiftKeepsSize
  <2>5. ContentLines(p) \cap T = {}
    BY <1>4, <1>11
  <2>6. Cardinality(ContentLines(p) \cup T) =
          Cardinality(ContentLines(p)) + Cardinality(T) - Cardinality(ContentLines(p) \cap T)
    BY <2>2, <2>4, FS_Union
  <2>7. Cardinality(ContentLines(p) \cap T) = 0
    BY <2>5, FS_EmptySet
  <2>8. Content(q) = Cardinality(ContentLines(p) \cup T) /\ Content(p) = Cardinality(ContentLines(p))
    BY <1>4, <1>10, ByLines
  <2>q. QED  BY <2>2, <2>3, <2>4, <2>6, <2>7, <2>8
<1>14. Piece(text, Cut(text), Len(text)) = Piece(q, Cut(q), Len(q))
  <2>1. Cut(text) \in 0..Len(text)
    BY <1>4, CutProperties
  <2>2. /\ c \in Nat /\ c <= Len(q) /\ Len(q) <= Len(q)
        /\ Cut(text) \in Nat /\ Len(text) \in Nat /\ Cut(text) <= Len(text)
        /\ Len(text) <= Len(q) - c
    BY <1>4, <1>5, <2>1
  <2>3. Piece(Piece(q, c, Len(q)), Cut(text), Len(text)) = Piece(q, c + Cut(text), c + Len(text))
    BY <1>5, <2>2, PieceOfTail
  <2>4. c + Len(text) = Len(q)
    BY <1>4, <1>5
  <2>q. QED  BY <1>4, <2>3, <2>4
<1>15. Parse(Sniffed(p), text) = Sniffed(q)
  <2>1. {i \in DOMAIN text : \E j \in Blank(text) : ParseEvent(text, j) = {i}} = Lines(text)
    BY <1>7 DEF Parsed
  <2>2. Parse(Sniffed(p), text) =
          [pending |-> Piece(text, Cut(text), Len(text)),
           usage   |-> IF ReportLines(text) = {} THEN Sniffed(p).usage
                       ELSE text[Max(ReportLines(text))],
           chars   |-> Sniffed(p).chars + Cardinality(ContentLines(text))]
    BY <2>1 DEF Parse, Piece, Cut, ReportLines, ContentLines
  <2>3. Sniffed(p).usage = Reported(p) /\ Sniffed(p).chars = Content(p)
    BY DEF Sniffed
  <2>4. Parse(Sniffed(p), text) =
          [pending |-> Piece(q, Cut(q), Len(q)), usage |-> Reported(q), chars |-> Content(q)]
    BY <1>12, <1>13, <1>14, <2>2, <2>3
  <2>q. QED  BY <2>4 DEF Sniffed
<1>q. QED  BY <1>6, <1>15 DEF Consume

-----------------------------------------------------------------------------
\* Types.

PCs == {"new", "body", "precheck", "forward", "heal", "answer", "json", "pump", "write",
        "record", "close", "cancel", "done"}
Errs     == {None, "eof", "reset"}
Outcomes == Errs \cup {"idle", "context", "client"}
Replies  == {None, "unavailable", "no subscription", "too large", "unreadable", "window exceeded"}
Handings == [data : Seq(Atoms), err : Errs]

CallOK ==
  call \in [op : AllOps, pc : PCs, stream : BOOLEAN, usage : BOOLEAN,
            status : Statuses \cup {None}, retried : BOOLEAN, chunk : Seq(Atoms),
            outcome : Outcomes, reply : Replies]
UpOK     == up \in [all : Seq(Atoms), left : Seq(Atoms), end : Ends]
ReaderOK ==
  reader \in [pc : {"off", "read", "send", "fail", "end"}, data : Seq(Atoms), err : Errs]
ChOK     == ch = <<>> \/ \E m \in Handings : ch = <<m>>
SniffOK  == sniff \in [pending : Seq(Atoms), usage : Reports \cup {None}, chars : Nat]
RestOK   == open \in Nat /\ context \in {"live", "done"} /\ gone \in BOOLEAN
            /\ sent \in Seq(Atoms) /\ bill \in Bills \cup {None}

TypeOK == CallOK /\ UpOK /\ ReaderOK /\ ChOK /\ SniffOK /\ RestOK

LEMMA EmptyText == <<>> \in Seq(Atoms) /\ Len(<<>>) = 0
BY EmptySeq

LEMMA AnswersAreText == Streams \subseteq Seq(Atoms) /\ Answers \subseteq Seq(Atoms)
BY LlmProxyAssumption DEF LlmProxyAssumption

\* Any part of a text is a text.
LEMMA PartOfText ==
  ASSUME NEW s \in Seq(Atoms), NEW n \in 0..Len(s)
  PROVE  /\ SubSeq(s, 1, n) \in Seq(Atoms) /\ Len(SubSeq(s, 1, n)) = n
         /\ SubSeq(s, n + 1, Len(s)) \in Seq(Atoms)
         /\ SubSeq(s, 1, n) = Piece(s, 0, n)
         /\ SubSeq(s, n + 1, Len(s)) = Piece(s, n, Len(s))
<1>1. PICK l \in Nat : l = Len(s)
  BY LenProperties
<1>2. n \in Nat /\ n <= l /\ l <= Len(s) /\ 0 <= n /\ 0 \in Nat /\ n <= Len(s) /\ n - 0 = n
  BY <1>1
<1>3. Piece(s, 0, n) \in Seq(Atoms) /\ Len(Piece(s, 0, n)) = n - 0
  BY <1>2, PieceProperties
<1>4. Piece(s, n, l) \in Seq(Atoms)
  BY <1>2, PieceProperties
<1>5. SubSeq(s, 1, n) = Piece(s, 0, n) /\ SubSeq(s, n + 1, Len(s)) = Piece(s, n, l)
  BY <1>1 DEF Piece
<1>q. QED  BY <1>1, <1>2, <1>3, <1>4, <1>5

\* What the sniffer keeps has its type.
LEMMA ConsumeType ==
  ASSUME NEW s \in [pending : Seq(Atoms), usage : Reports \cup {None}, chars : Nat],
         NEW p \in Seq(Atoms)
  PROVE  Consume(s, p) \in [pending : Seq(Atoms), usage : Reports \cup {None}, chars : Nat]
<1>1. PICK text \in Seq(Atoms) : text = s.pending \o p
  BY ConcatProperties
<1>2. Len(text) \in Nat /\ DOMAIN text = 1..Len(text)
  BY LenProperties
<1>3. DEFINE parsed == {i \in DOMAIN text : \E j \in Blank(text) : ParseEvent(text, j) = {i}}
<1>4. DEFINE reports == {i \in parsed : text[i] \in Reports}
<1>5. DEFINE content == {i \in parsed : text[i] = "c"}
<1>6. Cut(text) \in 0..Len(text)
  BY CutProperties
<1>7. SubSeq(text, CutAt(text, Len(text) + 1) + 1, Len(text)) \in Seq(Atoms)
  BY <1>6, PartOfText DEF Cut
<1>8. reports # {} => text[Max(reports)] \in Reports
  <2>1. reports \in SUBSET (0..Len(text))
    BY <1>2
  <2>2. reports # {} => Max(reports) \in reports
    BY <1>2, <2>1, LargestExists
  <2>q. QED  BY <2>2
<1>9. Cardinality(content) \in Nat
  <2>1. content \in SUBSET (1..Len(text)) /\ IsFiniteSet(1..Len(text))
    BY <1>2, FS_Interval
  <2>2. IsFiniteSet(content)
    BY <2>1, FS_Subset
  <2>q. QED  BY <2>2, FS_CardinalityType
<1>10. Consume(s, p) =
         [pending |-> SubSeq(text, CutAt(text, Len(text) + 1) + 1, Len(text)),
          usage   |-> IF reports = {} THEN s.usage ELSE text[Max(reports)],
          chars   |-> s.chars + Cardinality(content)]
  BY <1>1 DEF Consume, Parse
<1>11. (IF reports = {} THEN s.usage ELSE text[Max(reports)]) \in Reports \cup {None}
  BY <1>8
<1>. HIDE DEF reports, content
<1>q. QED  BY <1>7, <1>9, <1>10, <1>11

LEMMA JSONType ==
  ASSUME NEW b \in Seq(Atoms)
  PROVE  UsageFromJSON(b).usage \in Reports \cup {None} /\ UsageFromJSON(b).chars \in Nat
<1>1. Cardinality({i \in DOMAIN b : b[i] = "c"}) \in Nat
  <2>1. Len(b) \in Nat /\ DOMAIN b = 1..Len(b) /\ IsFiniteSet(1..Len(b))
    BY LenProperties, FS_Interval
  <2>2. IsFiniteSet({i \in DOMAIN b : b[i] = "c"})
    BY <2>1, FS_Subset
  <2>q. QED  BY <2>2, FS_CardinalityType
<1>q. QED  BY <1>1 DEF UsageFromJSON

\* The steps of the handler that leave the answer and the pump alone.
GateStep ==
  \/ ListModels \/ CheckSubscription \/ ReadBody \/ Precheck
  \/ ForwardImages \/ ForwardQianwen \/ PassOn

\* The type invariant holds in the initial states.
LEMMA TypeInit == Init => TypeOK
<1>1. SUFFICES ASSUME Init  PROVE TypeOK
  OBVIOUS
<1>2. <<>> \in Seq(Atoms)
  BY EmptyText
<1>3. Ops \subseteq AllOps
  BY LlmProxyAssumption DEF LlmProxyAssumption
<1>4. CallOK
  BY <1>1, <1>2, <1>3 DEF Init, CallOK, PCs, Outcomes, Errs, Replies
<1>5. UpOK /\ ReaderOK /\ ChOK /\ SniffOK
  BY <1>1, <1>2 DEF Init, UpOK, ReaderOK, ChOK, SniffOK, Ends, Errs
<1>6. RestOK
  BY <1>1, <1>2 DEF Init, RestOK
<1>q. QED  BY <1>4, <1>5, <1>6 DEF TypeOK

\* and is kept by every step.
LEMMA TypeStep == TypeOK /\ [Next]_vars => TypeOK'
<1>1. SUFFICES ASSUME TypeOK, [Next]_vars  PROVE TypeOK'
  OBVIOUS
<1>2. <<>> \in Seq(Atoms)
  BY EmptyText
<1>. USE <1>1 DEF TypeOK
<1>3. CASE GateStep
  <2>1. CallOK'
    <3>1. ASSUME NEW there \in {"body", "precheck", "forward", "close"}, Goto(there)
          PROVE  CallOK'
      BY <3>1 DEF Goto, CallOK, PCs
    <3>2. ASSUME NEW reply \in Replies, Refuse(reply)  PROVE CallOK'
      BY <3>2 DEF Refuse, CallOK, PCs
    <3>3. ASSUME NEW status \in Statuses, call' = Answered(status)  PROVE CallOK'
      <4>1. (IF status = "refused" /\ ~call.retried THEN "heal" ELSE "answer") \in PCs
        BY DEF PCs
      <4>q. QED  BY <3>3, <4>1 DEF Answered, CallOK
    <3>4. ASSUME NEW status \in Statuses, call' = [call EXCEPT !.status = status, !.pc = "answer"]
          PROVE  CallOK'
      BY <3>4 DEF CallOK, PCs
    <3>5. CASE ListModels
      BY <3>2, <3>4, <3>5 DEF ListModels, Replies
    <3>6. CASE CheckSubscription \/ ReadBody \/ Precheck \/ PassOn
      BY <3>1, <3>2, <3>6 DEF CheckSubscription, ReadBody, Precheck, PassOn, Replies
    <3>7. CASE ForwardImages \/ ForwardQianwen
      BY <3>2, <3>3, <3>7 DEF ForwardImages, ForwardQianwen, ForwardBuffered, Replies
    <3>q. QED  BY <1>3, <3>5, <3>6, <3>7 DEF GateStep
  <2>2. UNCHANGED <<up, open, reader, ch, fired, sniff, context, gone, sent, bill>>
    BY <1>3 DEF GateStep, ListModels, CheckSubscription, ReadBody, Precheck, ForwardImages,
       ForwardQianwen, ForwardBuffered, PassOn, upstream, pumping, client
  <2>q. QED  BY <2>1, <2>2 DEF UpOK, ReaderOK, ChOK, SniffOK, RestOK
<1>4. CASE Forward
  <2>1. CallOK'
    <3>1. CASE Refuse("unavailable")
      BY <3>1 DEF Refuse, CallOK, PCs, Replies
    <3>2. ASSUME NEW status \in Statuses,
                 call' = [Answered(status) EXCEPT !.usage = InjectIncludeUsage(call)]
          PROVE  CallOK'
      <4>1. call' = [call EXCEPT !.status = status,
              !.pc = IF status = "refused" /\ ~call.retried THEN "heal" ELSE "answer",
              !.usage = call.usage \/ call.stream]
        BY <3>2 DEF Answered, InjectIncludeUsage, CallOK
      <4>2. (IF status = "refused" /\ ~call.retried THEN "heal" ELSE "answer") \in PCs
        BY DEF PCs
      <4>3. (call.usage \/ call.stream) \in BOOLEAN
        OBVIOUS
      <4>q. QED  BY <4>1, <4>2, <4>3 DEF CallOK
    <3>q. QED  BY <1>4, <3>1, <3>2 DEF Forward
  <2>2. UpOK'
    <3>1. UNCHANGED up \/ \E all \in Streams \cup Answers, end \in Ends :
                               up' = [all |-> all, left |-> all, end |-> end]
      <4>1. CASE Refuse("unavailable") /\ UNCHANGED upstream
        BY <4>1 DEF upstream
      <4>2. ASSUME NEW status \in Statuses,
                   IF status = "ok"
                   THEN \E all \in IF call.stream THEN Streams ELSE Answers :
                          \E end \in Ends : up' = [all |-> all, left |-> all, end |-> end]
                   ELSE UNCHANGED up
            PROVE  UNCHANGED up \/ \E all \in Streams \cup Answers, end \in Ends :
                                     up' = [all |-> all, left |-> all, end |-> end]
        BY <4>2
      <4>q. QED  BY <1>4, <4>1, <4>2 DEF Forward
    <3>q. QED  BY <3>1, AnswersAreText DEF UpOK
  <2>3. open' \in Nat
    BY <1>4 DEF Forward, RestOK, upstream
  <2>4. UNCHANGED <<reader, ch, fired, sniff, context, gone, sent, bill>>
    BY <1>4 DEF Forward, pumping, client
  <2>q. QED  BY <2>1, <2>2, <2>3, <2>4 DEF ReaderOK, ChOK, SniffOK, RestOK
<1>5. CASE Heal
  <2>1. CallOK' /\ open' \in Nat
    <3>1. CASE call' = [call EXCEPT !.retried = TRUE, !.pc = "forward"] /\ open' = 0
      BY <3>1 DEF CallOK, PCs
    <3>2. CASE call' = [call EXCEPT !.pc = "answer"] /\ UNCHANGED open
      BY <3>2 DEF CallOK, PCs, RestOK
    <3>q. QED  BY <1>5, <3>1, <3>2 DEF Heal, Goto
  <2>2. UNCHANGED <<up, reader, ch, fired, sniff, context, gone, sent, bill>>
    BY <1>5 DEF Heal, pumping, client
  <2>q. QED  BY <2>1, <2>2 DEF UpOK, ReaderOK, ChOK, SniffOK, RestOK
<1>6. CASE Answer
  <2>1. CallOK' /\ ReaderOK'
    BY <1>6 DEF Answer, Goto, CallOK, ReaderOK, PCs
  <2>2. UNCHANGED <<up, open, ch, fired, sniff, context, gone, sent, bill>>
    BY <1>6 DEF Answer, upstream, client
  <2>q. QED  BY <2>1, <2>2 DEF UpOK, ChOK, SniffOK, RestOK
<1>7. CASE ReadJSON
  <2>1. CallOK'
    BY <1>7 DEF ReadJSON, Goto, CallOK, PCs
  <2>2. PICK n \in 0..Len(up.all) :
           /\ sent' = SubSeq(up.all, 1, n)
           /\ \/ UNCHANGED sniff
              \/ sniff' = [sniff EXCEPT !.usage = UsageFromJSON(SubSeq(up.all, 1, n)).usage,
                                        !.chars = UsageFromJSON(SubSeq(up.all, 1, n)).chars]
    BY <1>7 DEF ReadJSON
  <2>3. SubSeq(up.all, 1, n) \in Seq(Atoms)
    BY PartOfText DEF UpOK
  <2>4. SniffOK'
    BY <2>2, <2>3, JSONType DEF SniffOK
  <2>5. UNCHANGED <<up, open, reader, ch, fired, context, gone, bill>>
    BY <1>7 DEF ReadJSON, upstream
  <2>q. QED  BY <2>1, <2>2, <2>3, <2>4, <2>5 DEF UpOK, ReaderOK, ChOK, RestOK
<1>8. CASE TakeChunk
  <2>1. PICK m \in Handings : ch = <<m>>
    BY <1>8 DEF TakeChunk, ChOK
  <2>2. ch[1] = m
    BY <2>1
  <2>3. CallOK' /\ ChOK'
    <3>1. ch' = <<>> /\ m.data \in Seq(Atoms) /\ m.err \in Outcomes
      BY <1>8 DEF TakeChunk, Handings, Outcomes
    <3>2. \/ call' = [call EXCEPT !.pc = "write", !.chunk = m.data]
          \/ call' = [call EXCEPT !.pc = "record", !.outcome = m.err]
      BY <1>8, <2>2 DEF TakeChunk, EndPump
    <3>q. QED  BY <3>1, <3>2 DEF CallOK, ChOK, PCs
  <2>4. UNCHANGED <<up, open, reader, fired, sniff, context, gone, sent, bill>>
    BY <1>8 DEF TakeChunk, upstream, client
  <2>q. QED  BY <2>3, <2>4 DEF UpOK, ReaderOK, SniffOK, RestOK
<1>9. CASE Write
  <2>1. PICK n \in 0..Len(call.chunk) :
           /\ sent' = sent \o SubSeq(call.chunk, 1, n)
           /\ sniff' = Consume(sniff, SubSeq(call.chunk, 1, n))
           /\ \/ call' = [call EXCEPT !.pc = "pump", !.chunk = <<>>]
              \/ call' = [call EXCEPT !.pc = "record", !.outcome = "client", !.chunk = <<>>]
    BY <1>9 DEF Write
  <2>2. SubSeq(call.chunk, 1, n) \in Seq(Atoms)
    BY PartOfText DEF CallOK
  <2>3. SniffOK'
    BY <2>1, <2>2, ConsumeType DEF SniffOK
  <2>4. sent' \in Seq(Atoms)
    BY <2>1, <2>2, ConcatProperties DEF RestOK
  <2>5. CallOK'
    BY ZenonT(40), <1>2, <2>1 DEF CallOK, PCs, Outcomes
  <2>6. UNCHANGED <<up, open, reader, ch, context, gone, bill>>
    BY <1>9 DEF Write, upstream
  <2>q. QED  BY <2>3, <2>4, <2>5, <2>6 DEF UpOK, ReaderOK, ChOK, RestOK
<1>10. CASE TimeOut
  <2>1. CallOK'
    BY ZenonT(40), <1>10 DEF TimeOut, EndPump, CallOK, PCs, Outcomes
  <2>2. UNCHANGED <<up, open, reader, ch, fired, sniff, context, gone, sent, bill>>
    BY <1>10 DEF TimeOut, upstream, pumping, client
  <2>q. QED  BY <2>1, <2>2 DEF UpOK, ReaderOK, ChOK, SniffOK, RestOK
<1>11. CASE Record
  <2>1. CallOK'
    BY <1>11 DEF Record, Goto, CallOK, PCs
  <2>2. bill' \in Bills
    BY <1>11 DEF Record, SniffOK, Bills
  <2>3. UNCHANGED <<up, open, reader, ch, fired, sniff, context, gone, sent>>
    BY <1>11 DEF Record, upstream, pumping
  <2>q. QED  BY <2>1, <2>2, <2>3 DEF UpOK, ReaderOK, ChOK, SniffOK, RestOK
<1>12. CASE CloseBody \/ Cancel
  <2>1. CallOK'
    BY <1>12 DEF CloseBody, Cancel, Goto, CallOK, PCs
  <2>2. open' \in Nat /\ context' \in {"live", "done"}
    BY <1>12 DEF CloseBody, Cancel, RestOK, upstream, client
  <2>3. UNCHANGED <<up, reader, ch, fired, sniff, gone, sent, bill>>
    BY <1>12 DEF CloseBody, Cancel, upstream, pumping, client
  <2>q. QED  BY <2>1, <2>2, <2>3 DEF UpOK, ReaderOK, ChOK, SniffOK, RestOK
<1>13. CASE HandOver
  <2>1. ReaderOK'
    <3>1. DEFINE there == CASE reader.pc = "fail" -> "end"
                            [] reader.err = None -> "read"
                            [] OTHER -> "fail"
    <3>2. there \in {"read", "fail", "end"}
      OBVIOUS
    <3>3. \/ reader' = [reader EXCEPT !.data = <<>>, !.pc = there]
          \/ reader' = [pc |-> "end", data |-> <<>>, err |-> None]
      BY <1>13 DEF HandOver, ReaderOK
    <3>. HIDE DEF there
    <3>4. CASE reader' = [reader EXCEPT !.data = <<>>, !.pc = there]
      BY <1>2, <3>2, <3>4 DEF ReaderOK
    <3>5. CASE reader' = [pc |-> "end", data |-> <<>>, err |-> None]
      BY <1>2, <3>5 DEF ReaderOK, Errs
    <3>q. QED  BY <3>3, <3>4, <3>5
  <2>2. ChOK'
    <3>1. [data |-> reader.data, err |-> None] \in Handings /\ [data |-> <<>>, err |-> reader.err] \in Handings
      BY <1>2 DEF ReaderOK, Handings, Errs
    <3>q. QED  BY <1>13, <3>1 DEF HandOver, ChOK
  <2>3. UNCHANGED <<call, up, open, fired, sniff, context, gone, sent, bill>>
    BY <1>13 DEF HandOver, upstream, client
  <2>q. QED  BY <2>1, <2>2, <2>3 DEF CallOK, UpOK, SniffOK, RestOK
<1>14. ASSUME NEW n \in 0..Len(up.left), Read(n)  PROVE TypeOK'
  <2>1. SubSeq(up.left, 1, n) \in Seq(Atoms) /\ SubSeq(up.left, n + 1, Len(up.left)) \in Seq(Atoms)
    BY PartOfText DEF UpOK
  <2>2. ReaderOK' /\ UpOK'
    <3>1. PICK err \in {None, "eof", "reset"} :
             reader' = [pc |-> IF n > 0 THEN "send" ELSE "fail",
                        data |-> SubSeq(up.left, 1, n), err |-> err]
      BY <1>14 DEF Read
    <3>2. ReaderOK'
      BY <2>1, <3>1 DEF ReaderOK, Errs
    <3>3. up' = [up EXCEPT !.left = SubSeq(up.left, n + 1, Len(up.left))]
      BY <1>14 DEF Read
    <3>q. QED  BY <2>1, <3>2, <3>3 DEF UpOK
  <2>3. UNCHANGED <<call, open, ch, fired, sniff, context, gone, sent, bill>>
    BY <1>14 DEF Read, client
  <2>q. QED  BY <2>2, <2>3 DEF CallOK, ChOK, SniffOK, RestOK
<1>15. CASE IdleFires \/ Deadline \/ ClientGoes \/ Over \/ UNCHANGED vars
  <2>1. UNCHANGED <<call, up, open, reader, ch, sniff, sent, bill>>
    BY <1>15 DEF IdleFires, Deadline, ClientGoes, Over, vars, upstream, pumping, client
  <2>2. context' \in {"live", "done"} /\ gone' \in BOOLEAN
    BY <1>15 DEF IdleFires, Deadline, ClientGoes, Over, vars, client, RestOK
  <2>q. QED  BY <2>1, <2>2 DEF CallOK, UpOK, ReaderOK, ChOK, SniffOK, RestOK
<1>q. QED  BY <1>1, <1>3, <1>4, <1>5, <1>6, <1>7, <1>8, <1>9, <1>10, <1>11, <1>12, <1>13, <1>14, <1>15
             DEF Next, HandlerStep, ReaderStep, GateStep

\* Every variable keeps its type.
THEOREM ProxyTypes == Spec => []TypeOK
<1>1. Init => TypeOK
  BY TypeInit
<1>2. TypeOK /\ [Next]_vars => TypeOK'
  BY TypeStep
<1>q. QED  BY <1>1, <1>2, PTL DEF Spec

-----------------------------------------------------------------------------
\* The phases of a call.

Early == {"new", "body", "precheck", "forward", "heal", "answer", "json"}
Late  == {"close", "cancel", "done"}

\* Until an answer is passed on nothing has been sent, read ahead or billed.
Untouched ==
  call.pc \in Early =>
    /\ sent = <<>> /\ ch = <<>> /\ reader.pc = "off" /\ call.chunk = <<>>
    /\ sniff = [pending |-> <<>>, usage |-> None, chars |-> 0]
    /\ bill = None /\ call.outcome = None

\* A status is there with the answer; only an accepted chat goes on to be read.
Accepted ==
  /\ call.pc \in {"new", "body", "precheck", "forward", "heal"} => call.status # "ok"
  /\ call.pc \in {"json", "pump", "write", "record"} =>
       call.op = "chat" /\ call.status = "ok" /\ bill = None
  /\ call.pc \in Late => ((bill # None) <=> (call.op = "chat" /\ call.status = "ok"))

\* A stream was asked to report its usage.
Asked ==
  /\ (call.pc \in {"heal", "answer"} /\ call.op = "chat" /\ call.stream) => call.usage
  /\ Streamed => call.stream /\ call.usage
  /\ call.pc \in {"pump", "write"} => Streamed /\ call.outcome = None
  /\ ~Streamed => call.outcome = None

\* Chat has a body from the answer to CloseBody, and one.
Bodies ==
  /\ open \in {0, 1}
  /\ call.pc \in {"new", "body", "precheck", "forward", "cancel", "done"} => open = 0
  /\ call.op # "chat" => open = 0

Phases == Untouched /\ Accepted /\ Asked /\ Bodies

LEMMA PhasesInit == Init => Phases
<1>1. SUFFICES ASSUME Init  PROVE Phases
  OBVIOUS
<1>2. Untouched
  BY <1>1 DEF Init, Untouched
<1>3. call.pc = "new" /\ call.status = None /\ call.outcome = None /\ reader.pc = "off" /\ open = 0
  BY <1>1 DEF Init
<1>4. Accepted /\ Asked /\ Bodies
  BY <1>3, LlmProxyAssumption DEF Accepted, Asked, Bodies, Late, Streamed, LlmProxyAssumption, Statuses
<1>q. QED  BY <1>2, <1>4 DEF Phases

\* A step that moves the handler within the early phases keeps them.
LEMMA EarlyMove ==
  ASSUME TypeOK, Phases, call.pc \in Early, call.pc # "json",
         NEW there \in {"body", "precheck", "forward", "heal", "answer"},
         NEW status \in Statuses \cup {None},
         call'.pc = there, call'.op = call.op, call'.stream = call.stream,
         call'.status = status, call'.chunk = call.chunk, call'.outcome = call.outcome,
         there \in {"body", "precheck", "forward", "heal"} => status # "ok",
         (there \in {"heal", "answer"} /\ call.op = "chat" /\ call.stream) => call'.usage,
         open' \in {0, 1}, there \in {"body", "precheck", "forward"} => open' = 0,
         call.op # "chat" => open' = 0,
         UNCHANGED <<reader, ch, sniff, sent, bill>>
  PROVE  Phases'
<1>1. Untouched'
  BY DEF Phases, Untouched, Early
<1>2. Accepted'
  BY DEF Phases, Untouched, Accepted, Early, Late
<1>3. Asked'
  BY DEF Phases, Untouched, Asked, Early, Streamed
<1>4. Bodies'
  BY DEF Phases, Bodies
<1>q. QED  BY <1>1, <1>2, <1>3, <1>4 DEF Phases

\* A refusal ends the call, nothing open and nothing billed.
LEMMA RefusalKeepsPhases ==
  ASSUME TypeOK, Phases, call.pc \in {"new", "body", "precheck", "forward"},
         NEW reply, Refuse(reply), UNCHANGED <<open, reader, ch, sniff, sent, bill>>
  PROVE  Phases'
<1>1. call'.pc = "done" /\ call'.op = call.op /\ call'.status = call.status /\ call'.outcome = call.outcome
  BY DEF Refuse, TypeOK, CallOK
<1>2. call.status # "ok" /\ bill = None /\ reader.pc = "off" /\ open = 0 /\ call.outcome = None
  BY DEF Phases, Untouched, Accepted, Bodies, Early
<1>3. Untouched' /\ Accepted'
  BY <1>1, <1>2 DEF Untouched, Accepted, Early, Late
<1>4. Asked' /\ Bodies'
  BY <1>1, <1>2 DEF Asked, Bodies, Streamed
<1>q. QED  BY <1>3, <1>4 DEF Phases

\* The step of a chat that goes out, or of an answer that is taken, keeps them too.
LEMMA AnsweredMove ==
  ASSUME TypeOK, NEW status \in Statuses, NEW c, c = Answered(status), call.pc = "forward"
  PROVE  /\ c.pc \in {"heal", "answer"} /\ c.op = call.op /\ c.stream = call.stream
         /\ c.status = status /\ c.chunk = call.chunk /\ c.outcome = call.outcome
         /\ c.usage = call.usage
         /\ c.pc = "heal" => status # "ok"
BY DEF Answered, TypeOK, CallOK

LEMMA PhasesStep == TypeOK /\ Phases /\ [Next]_vars => Phases'
<1>1. SUFFICES ASSUME TypeOK, Phases, [Next]_vars  PROVE Phases'
  OBVIOUS
<1>. USE <1>1
<1>2. call.op \in AllOps /\ call.stream \in BOOLEAN /\ call.usage \in BOOLEAN /\ call.status \in Statuses \cup {None}
  BY DEF TypeOK, CallOK
<1>3. CASE ListModels
  <2>1. call.pc = "new" /\ call.op = "models" /\ UNCHANGED <<open, reader, ch, sniff, sent, bill>>
    BY <1>3 DEF ListModels, At, upstream, pumping, client
  <2>2. CASE Refuse("unavailable")
    BY <2>1, <2>2, RefusalKeepsPhases
  <2>3. ASSUME NEW status \in Statuses, call' = [call EXCEPT !.status = status, !.pc = "answer"]
        PROVE  Phases'
    <3>1. /\ call'.pc = "answer" /\ call'.op = call.op /\ call'.stream = call.stream
          /\ call'.status = status /\ call'.chunk = call.chunk /\ call'.outcome = call.outcome
      BY <2>3 DEF TypeOK, CallOK
    <3>2. call.pc \in Early /\ call.pc # "json" /\ open' = 0
      BY <2>1 DEF Early, Phases, Bodies
    <3>q. QED  BY <2>1, <3>1, <3>2, EarlyMove
  <2>q. QED  BY <1>3, <2>2, <2>3 DEF ListModels
<1>4. CASE CheckSubscription \/ ReadBody \/ Precheck
  <2>1. /\ call.pc \in {"new", "body", "precheck"}
        /\ UNCHANGED <<open, reader, ch, sniff, sent, bill>>
    BY <1>4 DEF CheckSubscription, ReadBody, Precheck, At, upstream, pumping, client
  <2>2. ASSUME NEW there \in {"body", "precheck", "forward"}, Goto(there)  PROVE Phases'
    <3>1. /\ call'.pc = there /\ call'.op = call.op /\ call'.stream = call.stream
          /\ call'.status = call.status /\ call'.chunk = call.chunk /\ call'.outcome = call.outcome
      BY <2>2 DEF Goto, TypeOK, CallOK
    <3>2. call.pc \in Early /\ call.pc # "json" /\ open' = 0 /\ call.status # "ok"
      BY <2>1 DEF Early, Phases, Bodies, Accepted
    <3>q. QED  BY <1>2, <2>1, <3>1, <3>2, EarlyMove
  <2>3. ASSUME NEW reply \in Replies, Refuse(reply)  PROVE Phases'
    BY <2>1, <2>3, RefusalKeepsPhases
  <2>q. QED  BY <1>4, <2>2, <2>3 DEF CheckSubscription, ReadBody, Precheck, Replies
<1>5. CASE ForwardImages \/ ForwardQianwen
  <2>1. /\ call.pc = "forward" /\ call.op # "chat"
        /\ UNCHANGED <<open, reader, ch, sniff, sent, bill>>
    BY <1>5 DEF ForwardImages, ForwardQianwen, ForwardBuffered, At, upstream, pumping, client
  <2>2. CASE Refuse("unavailable")
    BY <2>1, <2>2, RefusalKeepsPhases
  <2>3. ASSUME NEW status \in Statuses, call' = Answered(status)  PROVE Phases'
    <3>1. /\ call'.pc \in {"heal", "answer"} /\ call'.op = call.op /\ call'.stream = call.stream
          /\ call'.status = status /\ call'.chunk = call.chunk /\ call'.outcome = call.outcome
          /\ call'.pc = "heal" => status # "ok"
      BY <2>1, <2>3, AnsweredMove
    <3>2. call.pc \in Early /\ call.pc # "json" /\ open' = 0
      BY <2>1 DEF Early, Phases, Bodies
    <3>q. QED  BY <2>1, <3>1, <3>2, EarlyMove
  <2>q. QED  BY <1>5, <2>2, <2>3 DEF ForwardImages, ForwardQianwen, ForwardBuffered
<1>6. CASE Forward
  <2>1. /\ call.pc = "forward" /\ call.op = "chat" /\ UNCHANGED <<reader, ch, sniff, sent, bill>>
    BY <1>6 DEF Forward, At, pumping, client
  <2>2. CASE Refuse("unavailable") /\ UNCHANGED upstream
    BY <2>1, <2>2, RefusalKeepsPhases DEF upstream
  <2>3. ASSUME NEW status \in Statuses, open' = open + 1,
               call' = [Answered(status) EXCEPT !.usage = InjectIncludeUsage(call)]
        PROVE  Phases'
    <3>1. PICK c : c = Answered(status)
      OBVIOUS
    <3>2. /\ c.pc \in {"heal", "answer"} /\ c.op = call.op /\ c.stream = call.stream
          /\ c.status = status /\ c.chunk = call.chunk /\ c.outcome = call.outcome
          /\ c.pc = "heal" => status # "ok"
      BY <2>1, <3>1, AnsweredMove
    <3>3. c \in [op : AllOps, pc : PCs, stream : BOOLEAN, usage : BOOLEAN,
                 status : Statuses \cup {None}, retried : BOOLEAN, chunk : Seq(Atoms),
                 outcome : Outcomes, reply : Replies]
      BY <3>1 DEF Answered, TypeOK, CallOK, PCs
    <3>4. /\ call'.pc = c.pc /\ call'.op = c.op /\ call'.stream = c.stream
          /\ call'.status = c.status /\ call'.chunk = c.chunk /\ call'.outcome = c.outcome
          /\ call'.usage = InjectIncludeUsage(call)
      BY <2>3, <3>1, <3>3
    <3>5. call.stream => call'.usage
      BY <1>2, <3>4 DEF InjectIncludeUsage
    <3>6. call.pc \in Early /\ call.pc # "json" /\ open = 0 /\ open' \in {0, 1}
      BY <2>1, <2>3 DEF Early, Phases, Bodies
    <3>q. QED  BY <2>1, <3>2, <3>4, <3>5, <3>6, EarlyMove
  <2>q. QED  BY <1>6, <2>2, <2>3 DEF Forward
<1>7. CASE Heal
  <2>1. /\ call.pc = "heal" /\ UNCHANGED <<reader, ch, sniff, sent, bill>>
    BY <1>7 DEF Heal, At, pumping, client
  <2>2. /\ call'.pc \in {"forward", "answer"} /\ call'.op = call.op /\ call'.stream = call.stream
        /\ call'.status = call.status /\ call'.chunk = call.chunk /\ call'.outcome = call.outcome
        /\ call'.usage = call.usage
        /\ call'.pc = "forward" => open' = 0
        /\ call'.pc = "answer" => open' = open
    <3>1. CASE call' = [call EXCEPT !.retried = TRUE, !.pc = "forward"] /\ open' = 0
      BY <3>1 DEF TypeOK, CallOK
    <3>2. CASE Goto("answer") /\ UNCHANGED open
      BY <3>2 DEF Goto, TypeOK, CallOK
    <3>q. QED  BY <1>7, <3>1, <3>2 DEF Heal
  <2>3. call.pc \in Early /\ call.pc # "json" /\ call.status # "ok"
    BY <2>1 DEF Early, Phases, Accepted
  <2>4. open' \in {0, 1} /\ (call.op # "chat" => open' = 0)
    BY <2>2 DEF Phases, Bodies
  <2>5. (call.op = "chat" /\ call.stream) => call'.usage
    BY <2>1, <2>2 DEF Phases, Asked
  <2>q. QED  BY <1>2, <2>1, <2>2, <2>3, <2>4, <2>5, EarlyMove
<1>8. CASE PassOn \/ Answer
  <2>1. call.pc = "answer" /\ UNCHANGED <<open, ch, sniff, sent, bill>>
    BY <1>8 DEF PassOn, Answer, At, upstream, pumping, client
  <2>2. /\ sent = <<>> /\ ch = <<>> /\ reader.pc = "off" /\ call.chunk = <<>>
        /\ sniff = [pending |-> <<>>, usage |-> None, chars |-> 0]
        /\ bill = None /\ call.outcome = None
    BY <2>1 DEF Phases, Untouched, Early
  <2>3. \/ /\ Goto("close") /\ UNCHANGED reader /\ ~(call.op = "chat" /\ call.status = "ok")
        \/ /\ call.op = "chat" /\ call.status = "ok"
           /\ \/ Goto("json") /\ UNCHANGED reader
              \/ call.stream /\ Goto("pump") /\ reader' = [reader EXCEPT !.pc = "read"]
    BY <1>8 DEF PassOn, Answer, pumping
  <2>4. ASSUME NEW there, Goto(there)
        PROVE  /\ call'.pc = there /\ call'.op = call.op /\ call'.stream = call.stream
               /\ call'.status = call.status /\ call'.chunk = call.chunk
               /\ call'.outcome = call.outcome /\ call'.usage = call.usage
    BY <2>4 DEF Goto, TypeOK, CallOK
  <2>5. CASE Goto("close") /\ UNCHANGED reader /\ ~(call.op = "chat" /\ call.status = "ok")
    BY <2>1, <2>2, <2>4, <2>5 DEF Phases, Untouched, Accepted, Asked, Bodies, Early, Late, Streamed
  <2>6. CASE call.op = "chat" /\ call.status = "ok" /\ Goto("json") /\ UNCHANGED reader
    BY <2>1, <2>2, <2>4, <2>6 DEF Phases, Untouched, Accepted, Asked, Bodies, Early, Late, Streamed
  <2>7. CASE /\ call.op = "chat" /\ call.status = "ok" /\ call.stream
             /\ Goto("pump") /\ reader' = [reader EXCEPT !.pc = "read"]
    <3>1. reader'.pc = "read"
      BY <2>7 DEF TypeOK, ReaderOK
    <3>2. call.usage
      BY <2>1, <2>7 DEF Phases, Asked
    <3>3. /\ call'.pc = "pump" /\ call'.op = call.op /\ call'.stream /\ call'.status = "ok"
          /\ call'.outcome = None /\ call'.usage
      BY <2>2, <2>4, <2>7, <3>2
    <3>4. Untouched' /\ Accepted'
      BY <2>1, <2>2, <2>7, <3>3 DEF Untouched, Accepted, Early, Late
    <3>5. Asked' /\ Bodies'
      BY <2>1, <3>1, <3>3 DEF Phases, Asked, Bodies, Streamed
    <3>q. QED  BY <3>4, <3>5 DEF Phases
  <2>q. QED  BY <2>3, <2>5, <2>6, <2>7
<1>9. CASE ReadJSON
  <2>1. call.pc = "json" /\ Goto("record") /\ UNCHANGED <<open, reader, ch, bill>>
    BY <1>9 DEF ReadJSON, At, upstream
  <2>2. /\ call'.pc = "record" /\ call'.op = call.op /\ call'.status = call.status
        /\ call'.outcome = call.outcome /\ call'.usage = call.usage
    BY <2>1 DEF Goto, TypeOK, CallOK
  <2>3. reader.pc = "off" /\ bill = None /\ call.outcome = None
    BY <2>1 DEF Phases, Untouched, Early
  <2>q. QED  BY <2>1, <2>2, <2>3 DEF Phases, Untouched, Accepted, Asked, Bodies, Early, Late, Streamed
<1>10. CASE TakeChunk \/ Write \/ TimeOut
  <2>1. call.pc \in {"pump", "write"} /\ UNCHANGED <<open, reader, bill>>
    BY <1>10 DEF TakeChunk, Write, TimeOut, At, upstream, pumping, client
  <2>2. /\ call'.pc \in {"pump", "write", "record"} /\ call'.op = call.op
        /\ call'.status = call.status /\ call'.usage = call.usage /\ call'.stream = call.stream
        /\ call'.pc \in {"pump", "write"} => call'.outcome = call.outcome
    <3>1. CASE TakeChunk
      BY <3>1 DEF TakeChunk, EndPump, TypeOK, CallOK
    <3>2. CASE Write
      BY <3>2 DEF Write, TypeOK, CallOK
    <3>3. CASE TimeOut
      BY <3>3 DEF TimeOut, EndPump, TypeOK, CallOK
    <3>q. QED  BY <1>10, <3>1, <3>2, <3>3
  <2>3. Streamed /\ bill = None
    BY <2>1 DEF Phases, Asked, Accepted
  <2>4. Untouched' /\ Accepted'
    BY <2>1, <2>2, <2>3 DEF Phases, Untouched, Accepted, Early, Late
  <2>5. Asked' /\ Bodies'
    BY <2>1, <2>2, <2>3 DEF Phases, Asked, Bodies, Streamed
  <2>q. QED  BY <2>4, <2>5 DEF Phases
<1>11. CASE Record
  <2>1. /\ call.pc = "record" /\ Goto("close") /\ UNCHANGED <<open, reader>>
        /\ bill' = [by |-> sniff.usage, chars |-> IF sniff.usage = None THEN sniff.chars ELSE 0]
    BY <1>11 DEF Record, At, upstream, pumping
  <2>2. /\ call'.pc = "close" /\ call'.op = call.op /\ call'.status = call.status
        /\ call'.outcome = call.outcome /\ call'.usage = call.usage /\ call'.stream = call.stream
    BY <2>1 DEF Goto, TypeOK, CallOK
  <2>3. bill' # None
    <3>1. bill' \in Bills
      BY <2>1 DEF TypeOK, SniffOK, Bills
    <3>q. QED  BY <3>1, LlmProxyAssumption DEF LlmProxyAssumption
  <2>4. Untouched' /\ Accepted'
    BY <2>1, <2>2, <2>3 DEF Phases, Untouched, Accepted, Early, Late
  <2>5. Asked' /\ Bodies'
    BY <2>1, <2>2 DEF Phases, Asked, Bodies, Streamed
  <2>q. QED  BY <2>4, <2>5 DEF Phases
<1>12. CASE CloseBody \/ Cancel
  <2>1. /\ call.pc \in {"close", "cancel"}
        /\ \/ call.pc = "close" /\ Goto("cancel") /\ open' = 0
           \/ call.pc = "cancel" /\ Goto("done") /\ open' = open
        /\ UNCHANGED <<reader, bill>>
    BY <1>12 DEF CloseBody, Cancel, At, upstream, pumping, client
  <2>2. /\ call'.pc \in {"cancel", "done"} /\ call'.op = call.op /\ call'.status = call.status
        /\ call'.outcome = call.outcome /\ call'.usage = call.usage /\ call'.stream = call.stream
    BY <2>1 DEF Goto, TypeOK, CallOK
  <2>3. open' = 0
    BY <2>1 DEF Phases, Bodies
  <2>4. Untouched' /\ Accepted'
    BY <2>1, <2>2 DEF Phases, Untouched, Accepted, Early, Late
  <2>5. Asked' /\ Bodies'
    BY <2>1, <2>2, <2>3 DEF Phases, Asked, Bodies, Streamed
  <2>q. QED  BY <2>4, <2>5 DEF Phases
<1>13. CASE ReaderStep
  <2>1. /\ reader.pc # "off" /\ reader'.pc # "off"
        /\ UNCHANGED <<call, open, sniff, sent, bill>>
    <3>1. CASE HandOver
      <4>1. reader.pc \in {"send", "fail"} /\ UNCHANGED <<call, open, sniff, sent, bill>>
        BY <3>1 DEF HandOver, upstream, client
      <4>2. DEFINE there == CASE reader.pc = "fail" -> "end"
                              [] reader.err = None -> "read"
                              [] OTHER -> "fail"
      <4>3. there \in {"read", "fail", "end"}
        OBVIOUS
      <4>4. \/ reader' = [reader EXCEPT !.data = <<>>, !.pc = there]
            \/ reader' = [pc |-> "end", data |-> <<>>, err |-> None]
        BY <3>1 DEF HandOver, TypeOK, ReaderOK
      <4>. HIDE DEF there
      <4>5. reader'.pc # "off"
        <5>1. CASE reader' = [reader EXCEPT !.data = <<>>, !.pc = there]
          BY <4>3, <5>1 DEF TypeOK, ReaderOK
        <5>2. CASE reader' = [pc |-> "end", data |-> <<>>, err |-> None]
          BY <5>2
        <5>q. QED  BY <4>4, <5>1, <5>2
      <4>q. QED  BY <4>1, <4>5
    <3>2. ASSUME NEW n \in 0..Len(up.left), Read(n)
          PROVE  /\ reader.pc # "off" /\ reader'.pc # "off"
                 /\ UNCHANGED <<call, open, sniff, sent, bill>>
      BY <3>2 DEF Read, client
    <3>q. QED  BY <1>13, <3>1, <3>2 DEF ReaderStep
  <2>2. call.pc \notin Early
    BY <2>1 DEF Phases, Untouched
  <2>3. Untouched' /\ Accepted'
    BY <2>1, <2>2 DEF Phases, Untouched, Accepted
  <2>4. Asked' /\ Bodies'
    BY <2>1 DEF Phases, Asked, Bodies, Streamed
  <2>q. QED  BY <2>3, <2>4 DEF Phases
<1>14. CASE IdleFires \/ Deadline \/ ClientGoes \/ Over \/ UNCHANGED vars
  <2>1. UNCHANGED <<call, open, reader, ch, sniff, sent, bill>>
    BY <1>14 DEF IdleFires, Deadline, ClientGoes, Over, vars, upstream, pumping, client
  <2>q. QED  BY <2>1 DEF Phases, Untouched, Accepted, Asked, Bodies, Streamed
<1>q. QED  BY <1>3, <1>4, <1>5, <1>6, <1>7, <1>8, <1>9, <1>10, <1>11, <1>12, <1>13, <1>14
           DEF Next, HandlerStep

\* The type invariant and the phases of a call.
THEOREM CallPhases == Spec => [](TypeOK /\ Phases)
<1>1. Init => TypeOK /\ Phases
  BY TypeInit, PhasesInit
<1>2. TypeOK /\ Phases /\ [Next]_vars => (TypeOK /\ Phases)'
  BY TypeStep, PhasesStep
<1>q. QED  BY <1>1, <1>2, PTL DEF Spec

\* No body is left open when the handler returns, nor two open at once
\* (forwardChat closes the refused one before it tries again).
THEOREM BodiesAreClosed == Spec => []BodiesClosed
<1>1. Phases => BodiesClosed
  BY DEF Phases, Bodies, BodiesClosed, At
<1>q. QED  BY <1>1, CallPhases, PTL

-----------------------------------------------------------------------------
\* The flow of a stream.

Handed == IF ch = <<>> THEN <<>> ELSE ch[1].data

\* The stream is cut at a, b, c and d: what was sent, what is being written, what
\* waits in the channel, what the goroutine holds, and what is not read yet.  A
\* goroutine that has ended may have thrown away what it held.
Pipe(a, b, c, d) ==
  /\ a <= b /\ b <= c /\ c <= d /\ d <= Len(up.all)
  /\ sent = Piece(up.all, 0, a)
  /\ call.chunk = Piece(up.all, a, b)
  /\ Handed = Piece(up.all, b, c)
  /\ reader.pc # "end" => reader.data = Piece(up.all, c, d) /\ up.left = Piece(up.all, d, Len(up.all))
  /\ (ch # <<>> /\ ch[1].err = "eof") => c = Len(up.all)

\* What the goroutine and its channel say of the end of the stream.
ReaderInv ==
  /\ reader.pc \in {"off", "read"} => reader.err = None
  /\ reader.pc = "fail" => reader.err # None
  /\ (reader.pc \in {"send", "fail"} /\ reader.err = "eof") => up.left = <<>>
  /\ reader.pc # "send" => reader.data = <<>>
  /\ (ch # <<>> /\ ch[1].err # None) => ch[1].data = <<>>

UpInv ==
  /\ ~Streamed => up.left = up.all
  /\ (Streamed \/ (call.pc = "answer" /\ call.op = "chat" /\ call.status = "ok" /\ call.stream))
       => up.all \in Streams

FlowInv ==
  /\ call.pc \in {"pump", "write"} => \E a, b, c, d \in Nat : Pipe(a, b, c, d)
  /\ call.pc = "pump" => call.chunk = <<>>
  /\ \E a \in Nat : a <= Len(up.all) /\ sent = Piece(up.all, 0, a)
  /\ call.outcome = "eof" => sent = up.all

Flow == ReaderInv /\ UpInv /\ FlowInv

\* The sniffer has seen what was sent.
SniffInv == (Streamed \/ call.pc \in Early) => sniff = Sniffed(sent)

\* The bill of a stream.
BillInv ==
  (bill # None /\ Streamed) =>
     bill = [by |-> Reported(sent), chars |-> IF Reported(sent) = None THEN Content(sent) ELSE 0]

\* How long a piece is.
LEMMA PieceLength ==
  ASSUME NEW s \in Seq(Atoms), NEW a \in Nat, NEW b \in Nat, a <= b, b <= Len(s)
  PROVE  Len(Piece(s, a, b)) = b - a
<1>q. QED  BY PieceProperties

\* The ends of a piece meet just when it is empty; its front and its back are pieces.
LEMMA PieceParts ==
  ASSUME NEW s \in Seq(Atoms), NEW a \in Nat, NEW b \in Nat, a <= b, b <= Len(s)
  PROVE  /\ Len(Piece(s, a, b)) = b - a
         /\ Piece(s, a, b) = <<>> => a = b
         /\ \A n \in 0..(b - a) :
              /\ SubSeq(Piece(s, a, b), 1, n) = Piece(s, a, a + n)
              /\ SubSeq(Piece(s, a, b), n + 1, Len(Piece(s, a, b))) = Piece(s, a + n, b)
<1>1. Piece(s, a, b) \in Seq(Atoms) /\ Len(Piece(s, a, b)) = b - a
  BY PieceProperties
<1>2. Piece(s, a, b) = <<>> => a = b
  BY <1>1, EmptyText
<1>3. ASSUME NEW n \in 0..(b - a)
      PROVE  /\ SubSeq(Piece(s, a, b), 1, n) = Piece(s, a, a + n)
             /\ SubSeq(Piece(s, a, b), n + 1, Len(Piece(s, a, b))) = Piece(s, a + n, b)
  <2>1. PICK k \in Nat : k = b - a
    OBVIOUS
  <2>2. n \in Nat /\ 0 \in Nat /\ 0 <= n /\ n <= b - a /\ n <= k /\ k <= b - a
    BY <2>1
  <2>3. Piece(Piece(s, a, b), 0, n) = Piece(s, a + 0, a + n)
    BY <2>2, PieceOfPiece
  <2>4. Piece(Piece(s, a, b), n, k) = Piece(s, a + n, a + k)
    BY <2>2, PieceOfPiece
  <2>5. a + 0 = a /\ a + k = b
    BY <2>1
  <2>6. SubSeq(Piece(s, a, b), 1, n) = Piece(Piece(s, a, b), 0, n)
    BY DEF Piece
  <2>7. SubSeq(Piece(s, a, b), n + 1, Len(Piece(s, a, b))) = Piece(Piece(s, a, b), n, k)
    BY <1>1, <2>1 DEF Piece
  <2>q. QED  BY <2>3, <2>4, <2>5, <2>6, <2>7
<1>q. QED  BY <1>1, <1>2, <1>3

\* A step that touches neither the goroutine nor what it works on.
LEMMA ReaderUntouched ==
  ASSUME ReaderInv, UNCHANGED <<reader, ch>>, up'.left = up.left
  PROVE  ReaderInv'
BY DEF ReaderInv

LEMMA ReaderStepKeeps ==
  ASSUME TypeOK, Phases, ReaderInv, [Next]_vars
  PROVE  ReaderInv'
<1>1. CASE HandOver
  <2>1. reader.pc \in {"send", "fail"} /\ up' = up
    BY <1>1 DEF HandOver, upstream
  <2>2. CASE /\ ch = <<>> /\ reader.pc = "send"
             /\ ch' = <<[data |-> reader.data, err |-> None]>>
             /\ reader' = [reader EXCEPT !.data = <<>>,
                             !.pc = CASE reader.pc = "fail" -> "end"
                                      [] reader.err = None -> "read"
                                      [] OTHER -> "fail"]
    <3>1. ch'[1].err = None
      BY <2>2
    <3>2. \/ reader' = [reader EXCEPT !.data = <<>>, !.pc = "read"] /\ reader.err = None
          \/ reader' = [reader EXCEPT !.data = <<>>, !.pc = "fail"] /\ reader.err # None
      BY <2>2
    <3>3. /\ reader'.data = <<>> /\ reader'.err = reader.err
          /\ \/ reader'.pc = "read" /\ reader.err = None
             \/ reader'.pc = "fail" /\ reader.err # None
      BY <3>2 DEF TypeOK, ReaderOK
    <3>q. QED  BY <2>1, <2>2, <3>1, <3>3 DEF ReaderInv
  <2>3. CASE /\ ch = <<>> /\ reader.pc = "fail"
             /\ ch' = <<[data |-> <<>>, err |-> reader.err]>>
             /\ reader' = [reader EXCEPT !.data = <<>>,
                             !.pc = CASE reader.pc = "fail" -> "end"
                                      [] reader.err = None -> "read"
                                      [] OTHER -> "fail"]
    <3>1. ch'[1].data = <<>>
      BY <2>3
    <3>2. reader' = [reader EXCEPT !.data = <<>>, !.pc = "end"]
      BY <2>3 DEF ReaderInv
    <3>3. reader'.data = <<>> /\ reader'.pc = "end"
      BY <3>2 DEF TypeOK, ReaderOK
    <3>q. QED  BY <3>1, <3>3 DEF ReaderInv
  <2>4. CASE reader' = [pc |-> "end", data |-> <<>>, err |-> None] /\ UNCHANGED ch
    BY <2>1, <2>4 DEF ReaderInv
  <2>q. QED  BY <1>1, <2>1, <2>2, <2>3, <2>4 DEF HandOver
<1>2. ASSUME NEW n \in 0..Len(up.left), Read(n)  PROVE ReaderInv'
  <2>1. PICK err \in {None, "eof", "reset"} :
           /\ \/ err = None /\ n > 0
              \/ err = up.end /\ n = Len(up.left)
              \/ err = "reset" /\ n = 0 /\ (Closed \/ Cancelled)
           /\ reader' = [pc |-> IF n > 0 THEN "send" ELSE "fail",
                         data |-> SubSeq(up.left, 1, n), err |-> err]
    BY <1>2 DEF Read
  <2>2. reader.pc = "read" /\ ch' = ch /\ up'.left = SubSeq(up.left, n + 1, Len(up.left))
    BY <1>2 DEF Read, TypeOK, UpOK
  <2>3. up.left \in Seq(Atoms) /\ Len(up.left) \in Nat
    BY LenProperties DEF TypeOK, UpOK
  <2>4. None # "eof" /\ None # "reset"
    BY LlmProxyAssumption DEF LlmProxyAssumption, Ends
  <2>5. err = "eof" => up'.left = <<>>
    <3>1. SUFFICES ASSUME err = "eof"  PROVE SubSeq(up.left, n + 1, Len(up.left)) = <<>>
      BY <2>2
    <3>2. n = Len(up.left)
      BY <2>1, <2>4, <3>1
    <3>3. n + 1 \in Int /\ Len(up.left) \in Int /\ Len(up.left) < n + 1
      BY <2>3, <3>2
    <3>q. QED  BY <3>3, SubSeqEmpty
  <2>6. CASE n > 0
    <3>1. reader'.pc = "send" /\ reader'.err = err
      BY <2>1, <2>6
    <3>q. QED  BY <2>2, <2>5, <3>1 DEF ReaderInv
  <2>7. CASE n = 0
    <3>1. SubSeq(up.left, 1, n) = <<>>
      BY <2>7, SubSeqEmpty
    <3>2. reader'.pc = "fail" /\ reader'.err = err /\ reader'.data = <<>>
      BY <2>1, <2>7, <3>1
    <3>3. err # None
      <4>1. up.end \in Ends
        BY DEF TypeOK, UpOK
      <4>2. up.end # None
        BY <4>1, LlmProxyAssumption DEF LlmProxyAssumption
      <4>q. QED  BY <2>1, <2>4, <2>7, <4>2
    <3>q. QED  BY <2>2, <2>5, <3>2, <3>3 DEF ReaderInv
  <2>q. QED  BY <2>6, <2>7
<1>3. CASE Forward
  <2>1. call.pc = "forward" /\ UNCHANGED <<reader, ch>>
    BY <1>3 DEF Forward, At, pumping
  <2>2. reader.pc = "off"
    BY <2>1 DEF Phases, Untouched, Early
  <2>q. QED  BY <2>1, <2>2 DEF ReaderInv
<1>4. CASE Answer
  <2>1. call.pc = "answer" /\ UNCHANGED <<up, ch>>
    BY <1>4 DEF Answer, At, upstream
  <2>2. reader.pc = "off"
    BY <2>1 DEF Phases, Untouched, Early
  <2>3. \/ UNCHANGED reader
        \/ reader' = [reader EXCEPT !.pc = "read"]
    BY <1>4 DEF Answer
  <2>4. CASE reader' = [reader EXCEPT !.pc = "read"]
    <3>1. reader'.pc = "read" /\ reader'.data = reader.data /\ reader'.err = reader.err
      BY <2>4 DEF TypeOK, ReaderOK
    <3>q. QED  BY <2>1, <2>2, <3>1 DEF ReaderInv
  <2>q. QED  BY <2>1, <2>3, <2>4, ReaderUntouched
<1>5. CASE TakeChunk
  <2>1. ch' = <<>> /\ UNCHANGED <<reader, up>>
    BY <1>5 DEF TakeChunk, upstream
  <2>q. QED  BY <2>1 DEF ReaderInv
<1>6. CASE ListModels \/ CheckSubscription \/ ReadBody \/ Precheck \/ ForwardImages \/ ForwardQianwen
           \/ Heal \/ PassOn \/ ReadJSON \/ Write \/ TimeOut \/ Record \/ CloseBody \/ Cancel
  <2>1. UNCHANGED <<reader, ch, up>>
    BY <1>6 DEF ListModels, CheckSubscription, ReadBody, Precheck, ForwardImages, ForwardQianwen,
       ForwardBuffered, Heal, PassOn, ReadJSON, Write, TimeOut, Record, CloseBody, Cancel, upstream, pumping
  <2>q. QED  BY <2>1, ReaderUntouched
<1>7. CASE IdleFires \/ Deadline \/ ClientGoes \/ Over \/ UNCHANGED vars
  <2>1. UNCHANGED <<reader, ch, up>>
    BY <1>7 DEF IdleFires, Deadline, ClientGoes, Over, vars, upstream, pumping
  <2>q. QED  BY <2>1, ReaderUntouched
<1>q. QED  BY <1>1, <1>2, <1>3, <1>4, <1>5, <1>6, <1>7 DEF Next, HandlerStep, ReaderStep

LEMMA UpStepKeeps ==
  ASSUME TypeOK, Phases, UpInv, [Next]_vars
  PROVE  UpInv'
<1>1. CASE ReaderStep
  <2>1. reader.pc # "off" /\ call' = call /\ up'.all = up.all
    <3>1. CASE HandOver
      BY <3>1 DEF HandOver, upstream
    <3>2. ASSUME NEW n \in 0..Len(up.left), Read(n)
          PROVE  reader.pc # "off" /\ call' = call /\ up'.all = up.all
      BY <3>2 DEF Read, TypeOK, UpOK
    <3>q. QED  BY <1>1, <3>1, <3>2 DEF ReaderStep
  <2>2. call.pc \notin Early
    BY <2>1 DEF Phases, Untouched
  <2>3. reader'.pc # "off"
    <3>1. CASE HandOver
      <4>1. DEFINE there == CASE reader.pc = "fail" -> "end"
                              [] reader.err = None -> "read"
                              [] OTHER -> "fail"
      <4>2. there \in {"read", "fail", "end"}
        OBVIOUS
      <4>3. \/ reader' = [reader EXCEPT !.data = <<>>, !.pc = there]
            \/ reader' = [pc |-> "end", data |-> <<>>, err |-> None]
        BY <3>1 DEF HandOver, TypeOK, ReaderOK
      <4>. HIDE DEF there
      <4>4. CASE reader' = [reader EXCEPT !.data = <<>>, !.pc = there]
        BY <4>2, <4>4 DEF TypeOK, ReaderOK
      <4>5. CASE reader' = [pc |-> "end", data |-> <<>>, err |-> None]
        BY <4>5
      <4>q. QED  BY <4>3, <4>4, <4>5
    <3>2. ASSUME NEW n \in 0..Len(up.left), Read(n)  PROVE reader'.pc # "off"
      BY <3>2 DEF Read
    <3>q. QED  BY <1>1, <3>1, <3>2 DEF ReaderStep
  <2>q. QED  BY <2>1, <2>3 DEF UpInv, Streamed
<1>2. CASE Forward
  <2>1. /\ call.pc = "forward" /\ call.op = "chat" /\ UNCHANGED reader
    BY <1>2 DEF Forward, At, pumping
  <2>2. reader.pc = "off" /\ call.status # "ok"
    BY <2>1 DEF Phases, Untouched, Accepted, Early
  <2>3. CASE Refuse("unavailable") /\ UNCHANGED upstream
    <3>1. call'.pc = "done" /\ up' = up
      BY <2>3 DEF Refuse, upstream, TypeOK, CallOK
    <3>q. QED  BY <2>1, <2>2, <3>1 DEF UpInv, Streamed
  <2>4. ASSUME NEW status \in Statuses,
               call' = [Answered(status) EXCEPT !.usage = InjectIncludeUsage(call)],
               IF status = "ok"
               THEN \E all \in IF call.stream THEN Streams ELSE Answers :
                      \E end \in Ends : up' = [all |-> all, left |-> all, end |-> end]
               ELSE UNCHANGED up
        PROVE  UpInv'
    <3>1. call'.stream = call.stream /\ call'.status = status
      BY <2>4 DEF Answered, TypeOK, CallOK
    <3>2. CASE status = "ok"
      <4>1. PICK all \in IF call.stream THEN Streams ELSE Answers :
               \E end \in Ends : up' = [all |-> all, left |-> all, end |-> end]
        BY <2>4, <3>2
      <4>2. up'.all = all /\ up'.left = all
        BY <4>1
      <4>q. QED  BY <2>1, <2>2, <3>1, <4>1, <4>2 DEF UpInv, Streamed
    <3>3. CASE status # "ok"
      BY <2>1, <2>2, <2>4, <3>1, <3>3 DEF UpInv, Streamed
    <3>q. QED  BY <3>2, <3>3
  <2>q. QED  BY <1>2, <2>3, <2>4 DEF Forward
<1>3. CASE Answer
  <2>1. call.pc = "answer" /\ call.op = "chat" /\ UNCHANGED up
    BY <1>3 DEF Answer, At, upstream
  <2>2. call'.pc # "answer"
    BY <1>3 DEF Answer, Goto, TypeOK, CallOK
  <2>3. UNCHANGED reader \/ (call.status = "ok" /\ call.stream /\ reader' = [reader EXCEPT !.pc = "read"])
    BY <1>3 DEF Answer
  <2>4. CASE UNCHANGED reader
    BY <2>1, <2>2, <2>4 DEF UpInv, Streamed
  <2>5. CASE call.status = "ok" /\ call.stream /\ reader' = [reader EXCEPT !.pc = "read"]
    <3>1. reader'.pc = "read"
      BY <2>5 DEF TypeOK, ReaderOK
    <3>q. QED  BY <2>1, <2>2, <2>5, <3>1 DEF UpInv, Streamed
  <2>q. QED  BY <2>3, <2>4, <2>5
<1>4. CASE ListModels \/ ForwardImages \/ ForwardQianwen
  <2>1. call.op # "chat" /\ call'.op = call.op /\ UNCHANGED <<reader, up>>
    BY <1>4 DEF ListModels, ForwardImages, ForwardQianwen, ForwardBuffered, Refuse, Answered, upstream, pumping,
       TypeOK, CallOK
  <2>q. QED  BY <2>1 DEF UpInv, Streamed
<1>5. CASE Heal
  <2>1. call.pc = "heal" /\ UNCHANGED <<reader, up>> /\ call'.status = call.status
    BY <1>5 DEF Heal, Goto, At, pumping, TypeOK, CallOK
  <2>2. call.status # "ok"
    BY <2>1 DEF Phases, Accepted
  <2>q. QED  BY <2>1, <2>2 DEF UpInv, Streamed
<1>6. CASE CheckSubscription \/ ReadBody \/ Precheck \/ PassOn \/ ReadJSON \/ TakeChunk \/ Write
           \/ TimeOut \/ Record \/ CloseBody \/ Cancel
  <2>1. call'.pc # "answer" /\ UNCHANGED <<reader, up>>
    <3>1. CASE CheckSubscription \/ ReadBody \/ Precheck
      BY <3>1 DEF CheckSubscription, ReadBody, Precheck, Goto, Refuse, upstream, pumping, TypeOK, CallOK
    <3>2. CASE PassOn \/ ReadJSON \/ Record \/ CloseBody \/ Cancel
      BY <3>2 DEF PassOn, ReadJSON, Record, CloseBody, Cancel, Goto, upstream, pumping, TypeOK, CallOK
    <3>3. CASE TakeChunk
      BY <3>3 DEF TakeChunk, EndPump, upstream, TypeOK, CallOK
    <3>4. CASE Write
      BY <3>4 DEF Write, upstream, TypeOK, CallOK
    <3>5. CASE TimeOut
      BY <3>5 DEF TimeOut, EndPump, upstream, pumping, TypeOK, CallOK
    <3>q. QED  BY <1>6, <3>1, <3>2, <3>3, <3>4, <3>5
  <2>q. QED  BY <2>1 DEF UpInv, Streamed
<1>7. CASE IdleFires \/ Deadline \/ ClientGoes \/ Over \/ UNCHANGED vars
  <2>1. UNCHANGED <<call, reader, up>>
    BY <1>7 DEF IdleFires, Deadline, ClientGoes, Over, vars, upstream, pumping
  <2>q. QED  BY <2>1 DEF UpInv, Streamed
<1>q. QED  BY <1>1, <1>2, <1>3, <1>4, <1>5, <1>6, <1>7 DEF Next, HandlerStep

\* The ends of an empty rest meet.
LEMMA EmptyRest ==
  ASSUME NEW s \in Seq(Atoms), NEW a \in Nat, a <= Len(s), Piece(s, a, Len(s)) = <<>>
  PROVE  a = Len(s)
<1>1. PICK l \in Nat : l = Len(s)
  BY LenProperties
<1>2. Piece(s, a, l) = <<>> /\ a <= l /\ l <= Len(s)
  BY <1>1
<1>q. QED  BY <1>1, <1>2, PieceParts

\* A step outside the pump.
LEMMA FlowElsewhere ==
  ASSUME FlowInv, UNCHANGED sent, up'.all = up.all, call'.outcome = call.outcome,
         call'.pc \notin {"pump", "write"}
  PROVE  FlowInv'
BY DEF FlowInv

\* A step that leaves the whole pipe as it is.
LEMMA FlowUntouched ==
  ASSUME FlowInv, UNCHANGED <<call, sent, up, reader, ch>>
  PROVE  FlowInv'
<1>1. \A a, b, c, d \in Nat : Pipe(a, b, c, d) => Pipe(a, b, c, d)'
  BY DEF Pipe, Handed
<1>q. QED  BY <1>1 DEF FlowInv

\* The goroutine hands over what it holds, or throws it away.
LEMMA HandOverKeepsPipe ==
  ASSUME TypeOK, ReaderInv, HandOver,
         NEW a \in Nat, NEW b \in Nat, NEW c \in Nat, NEW d \in Nat, Pipe(a, b, c, d)
  PROVE  \E e \in Nat : Pipe(a, b, e, d)'
<1>1. /\ UNCHANGED <<call, sent, up>> /\ reader.pc \in {"send", "fail"}
  BY DEF HandOver, upstream, client
<1>2. /\ a <= b /\ b <= c /\ c <= d /\ d <= Len(up.all)
      /\ sent = Piece(up.all, 0, a)
      /\ call.chunk = Piece(up.all, a, b)
      /\ Handed = Piece(up.all, b, c)
      /\ reader.data = Piece(up.all, c, d) /\ up.left = Piece(up.all, d, Len(up.all))
  BY <1>1 DEF Pipe
<1>3. up.all \in Seq(Atoms) /\ Len(up.all) \in Nat
  BY LenProperties DEF TypeOK, UpOK
<1>4. c <= Len(up.all) /\ b <= d
  BY <1>2, <1>3
<1>5. CASE /\ ch = <<>> /\ reader.pc = "send"
           /\ ch' = <<[data |-> reader.data, err |-> None]>>
           /\ reader' = [reader EXCEPT !.data = <<>>,
                           !.pc = CASE reader.pc = "fail" -> "end"
                                    [] reader.err = None -> "read"
                                    [] OTHER -> "fail"]
  <2>1. b = c
    <3>1. Piece(up.all, b, c) = <<>>
      BY <1>2, <1>5 DEF Handed
    <3>q. QED  BY <1>2, <1>3, <1>4, <3>1, PieceParts
  <2>2. ch' # <<>> /\ ch'[1].data = reader.data /\ ch'[1].err = None
    BY <1>5
  <2>3. Handed' = Piece(up.all, b, d)
    BY <1>2, <2>1, <2>2 DEF Handed
  <2>4. reader'.data = <<>>
    BY <1>5 DEF TypeOK, ReaderOK
  <2>5. Piece(up.all, d, d) = <<>>
    BY <1>3, PieceEnds
  <2>6. None # "eof"
    BY LlmProxyAssumption DEF LlmProxyAssumption, Ends
  <2>7. Pipe(a, b, d, d)'
    BY <1>1, <1>2, <1>4, <2>2, <2>3, <2>4, <2>5, <2>6 DEF Pipe
  <2>q. QED  BY <2>7
<1>6. CASE /\ ch = <<>> /\ reader.pc = "fail"
           /\ ch' = <<[data |-> <<>>, err |-> reader.err]>>
           /\ reader' = [reader EXCEPT !.data = <<>>,
                           !.pc = CASE reader.pc = "fail" -> "end"
                                    [] reader.err = None -> "read"
                                    [] OTHER -> "fail"]
  <2>1. Handed = <<>> /\ Handed' = <<>> /\ ch'[1].err = reader.err
    BY <1>6 DEF Handed
  <2>2. reader' = [reader EXCEPT !.data = <<>>, !.pc = "end"]
    BY <1>6 DEF ReaderInv
  <2>3. reader'.pc = "end"
    BY <2>2 DEF TypeOK, ReaderOK
  <2>4. reader.err = "eof" => c = Len(up.all)
    <3>1. SUFFICES ASSUME reader.err = "eof"  PROVE c = Len(up.all)
      OBVIOUS
    <3>2. up.left = <<>> /\ reader.data = <<>>
      BY <1>6, <3>1 DEF ReaderInv
    <3>3. c = d
      <4>1. Piece(up.all, c, d) = <<>> /\ c <= d /\ d <= Len(up.all)
        BY <1>2, <3>2
      <4>q. QED  BY <1>3, <4>1, PieceParts
    <3>4. Piece(up.all, d, Len(up.all)) = <<>> /\ d <= Len(up.all)
      BY <1>2, <3>2
    <3>5. d = Len(up.all)
      BY <1>3, <3>4, EmptyRest
    <3>q. QED  BY <3>3, <3>5
  <2>5. Pipe(a, b, c, d)'
    BY <1>1, <1>2, <2>1, <2>3, <2>4 DEF Pipe
  <2>q. QED  BY <2>5
<1>7. CASE reader' = [pc |-> "end", data |-> <<>>, err |-> None] /\ UNCHANGED ch
  <2>1. reader'.pc = "end"
    BY <1>7
  <2>2. Handed' = Handed
    BY <1>7 DEF Handed
  <2>3. Pipe(a, b, c, d)'
    BY <1>1, <1>7, <2>1, <2>2 DEF Pipe
  <2>q. QED  BY <2>3
<1>q. QED  BY <1>1, <1>5, <1>6, <1>7 DEF HandOver

\* The goroutine reads on.
LEMMA ReadKeepsPipe ==
  ASSUME TypeOK, ReaderInv, NEW n \in 0..Len(up.left), Read(n),
         NEW a \in Nat, NEW b \in Nat, NEW c \in Nat, NEW d \in Nat, Pipe(a, b, c, d)
  PROVE  \E e \in Nat : Pipe(a, b, c, e)'
<1>1. /\ reader.pc = "read" /\ UNCHANGED <<call, sent, ch>>
      /\ up' = [up EXCEPT !.left = SubSeq(up.left, n + 1, Len(up.left))]
      /\ reader'.data = SubSeq(up.left, 1, n)
  BY DEF Read, client
<1>2. up'.all = up.all /\ up'.left = SubSeq(up.left, n + 1, Len(up.left))
  BY <1>1 DEF TypeOK, UpOK
<1>3. /\ a <= b /\ b <= c /\ c <= d /\ d <= Len(up.all)
      /\ reader.data = Piece(up.all, c, d) /\ up.left = Piece(up.all, d, Len(up.all))
      /\ reader.data = <<>>
  BY <1>1 DEF Pipe, ReaderInv
<1>4. up.all \in Seq(Atoms)
  BY DEF TypeOK, UpOK
<1>5. PICK l \in Nat : l = Len(up.all)
  BY <1>4, LenProperties
<1>6. d <= l /\ l <= Len(up.all) /\ up.left = Piece(up.all, d, l) /\ c <= l
  BY <1>3, <1>5
<1>7. c = d
  <2>1. Piece(up.all, c, d) = <<>> /\ c <= d /\ d <= Len(up.all)
    BY <1>3
  <2>q. QED  BY <1>4, <2>1, PieceParts
<1>8. Len(up.left) = l - d
  <2>1. Len(Piece(up.all, d, l)) = l - d
    BY <1>4, <1>6, PieceLength
  <2>q. QED  BY <1>6, <2>1
<1>9. n \in 0..(l - d)
  BY <1>8
<1>10. /\ reader'.data = Piece(up.all, d, d + n)
       /\ up'.left = Piece(up.all, d + n, l)
  <2>1. /\ SubSeq(Piece(up.all, d, l), 1, n) = Piece(up.all, d, d + n)
        /\ SubSeq(Piece(up.all, d, l), n + 1, Len(Piece(up.all, d, l))) = Piece(up.all, d + n, l)
    BY ZenonT(40), <1>4, <1>6, <1>9, PieceParts
  <2>q. QED  BY <1>1, <1>2, <1>6, <2>1
<1>11. d + n \in Nat /\ c <= d + n /\ d + n <= Len(up.all)
  BY <1>5, <1>7, <1>9
<1>12. Handed' = Handed
  BY <1>1 DEF Handed
<1>13. Pipe(a, b, c, d + n)'
  BY <1>1, <1>2, <1>3, <1>5, <1>7, <1>10, <1>11, <1>12 DEF Pipe
<1>q. QED  BY <1>11, <1>13

LEMMA FlowStepKeeps ==
  ASSUME TypeOK, Phases, ReaderInv, UpInv, FlowInv, [Next]_vars
  PROVE  FlowInv'
<1>1. up.all \in Seq(Atoms) /\ Len(up.all) \in Nat
  BY LenProperties DEF TypeOK, UpOK
<1>2. CASE HandOver
  <2>1. UNCHANGED <<call, sent, up>>
    BY <1>2 DEF HandOver, upstream, client
  <2>2. ASSUME call.pc \in {"pump", "write"}
        PROVE  \E a, b, c, d \in Nat : Pipe(a, b, c, d)'
    <3>1. PICK a, b, c, d \in Nat : Pipe(a, b, c, d)
      BY <2>2 DEF FlowInv
    <3>2. \E e \in Nat : Pipe(a, b, e, d)'
      BY <1>2, <3>1, HandOverKeepsPipe
    <3>q. QED  BY <3>2
  <2>q. QED  BY <2>1, <2>2 DEF FlowInv
<1>3. ASSUME NEW n \in 0..Len(up.left), Read(n)  PROVE FlowInv'
  <2>1. UNCHANGED <<call, sent>> /\ up'.all = up.all
    BY <1>3 DEF Read, client, TypeOK, UpOK
  <2>2. ASSUME call.pc \in {"pump", "write"}
        PROVE  \E a, b, c, d \in Nat : Pipe(a, b, c, d)'
    <3>1. PICK a, b, c, d \in Nat : Pipe(a, b, c, d)
      BY <2>2 DEF FlowInv
    <3>2. \E e \in Nat : Pipe(a, b, c, e)'
      BY <1>3, <3>1, ReadKeepsPipe
    <3>q. QED  BY <3>2
  <2>q. QED  BY <2>1, <2>2 DEF FlowInv
<1>4. CASE TakeChunk
  <2>1. call.pc = "pump" /\ ch # <<>> /\ ch' = <<>> /\ UNCHANGED <<sent, up, reader>>
    BY <1>4 DEF TakeChunk, At, upstream, client
  <2>2. PICK a, b, c, d \in Nat : Pipe(a, b, c, d)
    BY <2>1 DEF FlowInv
  <2>3. /\ a <= b /\ b <= c /\ c <= d /\ d <= Len(up.all)
        /\ call.chunk = Piece(up.all, a, b) /\ call.chunk = <<>>
        /\ ch[1].data = Piece(up.all, b, c)
        /\ sent = Piece(up.all, 0, a)
        /\ ch[1].err = "eof" => c = Len(up.all)
    BY <2>1, <2>2 DEF Pipe, Handed, FlowInv
  <2>4. b <= Len(up.all) /\ c <= Len(up.all) /\ a <= c
    BY <1>1, <2>3
  <2>5. a = b
    <3>1. Piece(up.all, a, b) = <<>>
      BY <2>3
    <3>q. QED  BY <1>1, <2>3, <2>4, <3>1, PieceParts
  <2>6. CASE ch[1].err = None
    <3>1. call' = [call EXCEPT !.pc = "write", !.chunk = ch[1].data]
      BY <1>4, <2>6 DEF TakeChunk
    <3>2. call'.pc = "write" /\ call'.chunk = ch[1].data /\ call'.outcome = call.outcome
      BY <3>1 DEF TypeOK, CallOK
    <3>3. Handed' = <<>> /\ Piece(up.all, c, c) = <<>>
      BY <1>1, <2>1, PieceEnds DEF Handed
    <3>4. Pipe(a, c, c, d)'
      BY <2>1, <2>2, <2>3, <2>4, <2>5, <3>2, <3>3 DEF Pipe
    <3>q. QED  BY <2>1, <3>2, <3>4 DEF FlowInv
  <2>7. CASE ch[1].err # None
    <3>1. call' = [call EXCEPT !.pc = "record", !.outcome = ch[1].err]
      BY <1>4, <2>7 DEF TakeChunk, EndPump
    <3>2. call'.pc = "record" /\ call'.outcome = ch[1].err
      BY <3>1 DEF TypeOK, CallOK
    <3>3. ch[1].err = "eof" => sent = up.all
      <4>1. SUFFICES ASSUME ch[1].err = "eof"  PROVE sent = up.all
        OBVIOUS
      <4>2. ch[1].data = <<>>
        BY <2>1, <2>7 DEF ReaderInv
      <4>3. b = c
        <5>1. Piece(up.all, b, c) = <<>>
          BY <2>3, <4>2
        <5>q. QED  BY <1>1, <2>3, <2>4, <5>1, PieceParts
      <4>4. a = Len(up.all)
        BY <2>3, <2>5, <4>1, <4>3
      <4>q. QED  BY <1>1, <2>3, <4>4, PieceEnds
    <3>q. QED  BY <2>1, <3>2, <3>3 DEF FlowInv
  <2>q. QED  BY <2>6, <2>7
<1>5. CASE Write
  <2>1. call.pc = "write" /\ UNCHANGED <<up, reader, ch>>
    BY <1>5 DEF Write, At, upstream
  <2>2. PICK a, b, c, d \in Nat : Pipe(a, b, c, d)
    BY <2>1 DEF FlowInv
  <2>3. /\ a <= b /\ b <= c /\ c <= d /\ d <= Len(up.all)
        /\ call.chunk = Piece(up.all, a, b)
        /\ sent = Piece(up.all, 0, a)
    BY <2>2 DEF Pipe
  <2>4. b <= Len(up.all)
    BY <1>1, <2>3
  <2>5. Len(call.chunk) = b - a
    <3>1. Len(Piece(up.all, a, b)) = b - a
      BY <1>1, <2>3, <2>4, PieceLength
    <3>q. QED  BY <2>3, <3>1
  <2>6. PICK n \in 0..Len(call.chunk) :
           /\ sent' = sent \o SubSeq(call.chunk, 1, n)
           /\ \/ /\ SubSeq(call.chunk, 1, n) = call.chunk
                 /\ call' = [call EXCEPT !.pc = "pump", !.chunk = <<>>]
              \/ call' = [call EXCEPT !.pc = "record", !.outcome = "client", !.chunk = <<>>]
    BY <1>5 DEF Write
  <2>7. n \in 0..(b - a) /\ a + n \in Nat /\ a <= a + n /\ a + n <= Len(up.all)
    BY <1>1, <2>4, <2>5, <2>6
  <2>8. SubSeq(call.chunk, 1, n) = Piece(up.all, a, a + n)
    <3>1. /\ SubSeq(Piece(up.all, a, b), 1, n) = Piece(up.all, a, a + n)
          /\ SubSeq(Piece(up.all, a, b), n + 1, Len(Piece(up.all, a, b))) = Piece(up.all, a + n, b)
      <4>1. a <= b /\ b <= Len(up.all)
        BY <2>3, <2>4
      <4>2. \A m \in 0..(b - a) :
              /\ SubSeq(Piece(up.all, a, b), 1, m) = Piece(up.all, a, a + m)
              /\ SubSeq(Piece(up.all, a, b), m + 1, Len(Piece(up.all, a, b))) = Piece(up.all, a + m, b)
        BY ZenonT(40), <1>1, <4>1, PieceParts
      <4>q. QED  BY <2>7, <4>2
    <3>q. QED  BY <2>3, <3>1
  <2>9. sent' = Piece(up.all, 0, a + n)
    <3>1. 0 \in Nat /\ 0 <= a
      OBVIOUS
    <3>2. Piece(up.all, 0, a) \o Piece(up.all, a, a + n) = Piece(up.all, 0, a + n)
      BY ZenonT(40), <1>1, <2>7, <3>1, PiecesMeet
    <3>q. QED  BY <2>3, <2>6, <2>8, <3>2
  <2>10. CASE /\ SubSeq(call.chunk, 1, n) = call.chunk
              /\ call' = [call EXCEPT !.pc = "pump", !.chunk = <<>>]
    <3>1. a + n = b
      <4>1. Len(Piece(up.all, a, a + n)) = (a + n) - a
        BY <1>1, <2>7, PieceParts
      <4>2. Len(Piece(up.all, a, a + n)) = b - a
        BY <2>5, <2>8, <2>10
      <4>q. QED  BY <4>1, <4>2, <2>7
    <3>2. call'.pc = "pump" /\ call'.chunk = <<>> /\ call'.outcome = call.outcome
      BY <2>10 DEF TypeOK, CallOK
    <3>3. call.outcome = None /\ None # "eof"
      BY <2>1, LlmProxyAssumption DEF Phases, Asked, LlmProxyAssumption, Ends
    <3>4. Piece(up.all, b, b) = <<>>
      BY <1>1, PieceEnds
    <3>5. Handed' = Handed
      BY <2>1 DEF Handed
    <3>6. Pipe(b, b, c, d)'
      BY <2>1, <2>2, <2>9, <3>1, <3>2, <3>4, <3>5 DEF Pipe
    <3>q. QED  BY <2>1, <2>4, <2>9, <3>1, <3>2, <3>3, <3>6 DEF FlowInv
  <2>11. CASE call' = [call EXCEPT !.pc = "record", !.outcome = "client", !.chunk = <<>>]
    <3>1. call'.pc = "record" /\ call'.outcome = "client"
      BY <2>11 DEF TypeOK, CallOK
    <3>q. QED  BY <2>1, <2>7, <2>9, <3>1 DEF FlowInv
  <2>q. QED  BY <2>6, <2>10, <2>11
<1>6. CASE Answer
  <2>1. call.pc = "answer" /\ UNCHANGED <<up, ch, sent>>
    BY <1>6 DEF Answer, At, upstream, client
  <2>2. sent = <<>> /\ ch = <<>> /\ reader.pc = "off" /\ call.chunk = <<>> /\ call.outcome = None
    BY <2>1 DEF Phases, Untouched, Early
  <2>3. \/ \E there \in {"json", "close"} : Goto(there)
        \/ Goto("pump") /\ reader' = [reader EXCEPT !.pc = "read"]
    BY <1>6 DEF Answer
  <2>4. ASSUME NEW there \in {"json", "close"}, Goto(there)  PROVE FlowInv'
    <3>1. call'.pc = there /\ call'.outcome = call.outcome
      BY <2>4 DEF Goto, TypeOK, CallOK
    <3>q. QED  BY <2>1, <3>1, FlowElsewhere
  <2>5. CASE Goto("pump") /\ reader' = [reader EXCEPT !.pc = "read"]
    <3>1. call'.pc = "pump" /\ call'.chunk = <<>> /\ call'.outcome = None
      BY <2>2, <2>5 DEF Goto, TypeOK, CallOK
    <3>2. reader'.data = <<>> /\ up.left = up.all
      <4>1. reader'.data = reader.data
        BY <2>5 DEF TypeOK, ReaderOK
      <4>q. QED  BY <2>2, <4>1 DEF ReaderInv, UpInv, Streamed
    <3>3. Piece(up.all, 0, 0) = <<>> /\ Piece(up.all, 0, Len(up.all)) = up.all
      BY <1>1, PieceEnds
    <3>4. Handed' = <<>> /\ ch' = <<>>
      BY <2>1, <2>2 DEF Handed
    <3>5. Pipe(0, 0, 0, 0)'
      BY <1>1, <2>1, <2>2, <3>1, <3>2, <3>3, <3>4 DEF Pipe
    <3>6. None # "eof"
      BY LlmProxyAssumption DEF LlmProxyAssumption, Ends
    <3>q. QED  BY <1>1, <2>1, <2>2, <3>1, <3>3, <3>5, <3>6 DEF FlowInv
  <2>q. QED  BY <2>3, <2>4, <2>5
<1>7. CASE ReadJSON
  <2>1. call.pc = "json" /\ Goto("record") /\ UNCHANGED up
    BY <1>7 DEF ReadJSON, At, upstream
  <2>2. call'.pc = "record" /\ call'.outcome = call.outcome /\ call.outcome = None
    BY <2>1 DEF Goto, TypeOK, CallOK, Phases, Untouched, Early
  <2>3. PICK n \in 0..Len(up.all) : sent' = SubSeq(up.all, 1, n)
    BY <1>7 DEF ReadJSON
  <2>4. n \in Nat /\ n <= Len(up.all) /\ sent' = Piece(up.all, 0, n)
    <3>1. Len(up.all) \in Nat
      BY <1>1, LenProperties
    <3>2. n \in Nat /\ n <= Len(up.all)
      BY <2>3, <3>1
    <3>3. SubSeq(up.all, 1, n) = Piece(up.all, 0, n)
      BY DEF Piece
    <3>q. QED  BY <2>3, <3>2, <3>3
  <2>5. None # "eof"
    BY LlmProxyAssumption DEF LlmProxyAssumption, Ends
  <2>q. QED  BY <2>1, <2>2, <2>4, <2>5 DEF FlowInv
<1>8. CASE Forward
  <2>1. call.pc = "forward" /\ UNCHANGED sent
    BY <1>8 DEF Forward, At, client
  <2>2. sent = <<>> /\ call.outcome = None
    BY <2>1 DEF Phases, Untouched, Early
  <2>3. call'.pc \in {"done", "heal", "answer"} /\ call'.outcome = None
    BY <1>8, <2>2 DEF Forward, Refuse, Answered, TypeOK, CallOK
  <2>4. up' \in [all : Seq(Atoms), left : Seq(Atoms), end : Ends]
    BY TypeStep DEF TypeOK, UpOK
  <2>5. Piece(up'.all, 0, 0) = <<>> /\ Len(up'.all) \in Nat
    BY <2>4, PieceEnds, LenProperties
  <2>6. None # "eof"
    BY LlmProxyAssumption DEF LlmProxyAssumption, Ends
  <2>7. sent' = Piece(up'.all, 0, 0) /\ 0 \in Nat /\ 0 <= Len(up'.all)
    BY <2>1, <2>2, <2>5
  <2>q. QED  BY <2>3, <2>6, <2>7 DEF FlowInv
<1>9. CASE ListModels \/ CheckSubscription \/ ReadBody \/ Precheck \/ ForwardImages \/ ForwardQianwen
  <2>1. call'.pc \notin {"pump", "write"} /\ call'.outcome = call.outcome
    <3>1. CASE ListModels \/ CheckSubscription \/ ReadBody \/ Precheck
      BY <3>1 DEF ListModels, CheckSubscription, ReadBody, Precheck, Goto, Refuse, TypeOK, CallOK
    <3>2. CASE ForwardImages \/ ForwardQianwen
      BY <3>2 DEF ForwardImages, ForwardQianwen, ForwardBuffered, Refuse, Answered, TypeOK, CallOK
    <3>q. QED  BY <1>9, <3>1, <3>2
  <2>2. UNCHANGED <<up, sent>>
    BY <1>9 DEF ListModels, CheckSubscription, ReadBody, Precheck, ForwardImages, ForwardQianwen,
       ForwardBuffered, upstream, client
  <2>q. QED  BY <2>1, <2>2, FlowElsewhere
<1>10. CASE Heal \/ PassOn \/ Record \/ CloseBody \/ Cancel
  <2>1. call'.pc \notin {"pump", "write"} /\ call'.outcome = call.outcome
    BY <1>10 DEF Heal, PassOn, Record, CloseBody, Cancel, Goto, TypeOK, CallOK
  <2>2. UNCHANGED <<up, sent>>
    BY <1>10 DEF Heal, PassOn, Record, CloseBody, Cancel, upstream, client
  <2>q. QED  BY <2>1, <2>2, FlowElsewhere
<1>11. CASE TimeOut
  <2>1. call'.pc = "record" /\ call'.outcome # "eof"
    BY <1>11 DEF TimeOut, EndPump, TypeOK, CallOK
  <2>2. UNCHANGED <<up, sent>>
    BY <1>11 DEF TimeOut, upstream, client
  <2>q. QED  BY <2>1, <2>2 DEF FlowInv
<1>12. CASE IdleFires \/ Deadline \/ ClientGoes \/ Over \/ UNCHANGED vars
  <2>1. UNCHANGED <<call, sent, up, reader, ch>>
    BY <1>12 DEF IdleFires, Deadline, ClientGoes, Over, vars, upstream, pumping, client
  <2>q. QED  BY <2>1, FlowUntouched
<1>q. QED  BY <1>2, <1>3, <1>4, <1>5, <1>6, <1>7, <1>8, <1>9, <1>10, <1>11, <1>12
           DEF Next, HandlerStep, ReaderStep

\* Where a stream is, and what was sent of it.
THEOREM StreamFlow == Spec => []Flow
<1>1. Init => Flow
  <2>1. SUFFICES ASSUME Init  PROVE Flow
    OBVIOUS
  <2>2. /\ sent = <<>> /\ ch = <<>> /\ call.pc = "new" /\ call.outcome = None
        /\ up.all = <<>> /\ up.left = <<>>
        /\ reader.pc = "off" /\ reader.err = None /\ reader.data = <<>>
    BY <2>1 DEF Init
  <2>3. Piece(up.all, 0, 0) = <<>> /\ 0 \in Nat /\ 0 <= Len(up.all)
    <3>1. PICK p \in Seq(Atoms) : p = <<>> /\ Len(p) = 0
      BY EmptyText
    <3>2. Piece(p, 0, 0) = <<>>
      BY PieceEnds
    <3>q. QED  BY <2>2, <3>1, <3>2
  <2>4. None # "eof"
    BY LlmProxyAssumption DEF LlmProxyAssumption, Ends
  <2>5. ReaderInv /\ UpInv
    BY <2>2 DEF ReaderInv, UpInv, Streamed
  <2>6. FlowInv
    BY <2>2, <2>3, <2>4 DEF FlowInv
  <2>q. QED  BY <2>5, <2>6 DEF Flow
<1>2. TypeOK /\ Phases /\ Flow /\ [Next]_vars => Flow'
  BY ReaderStepKeeps, UpStepKeeps, FlowStepKeeps DEF Flow
<1>q. QED  BY <1>1, <1>2, CallPhases, PTL DEF Spec

\* The client gets the answer in order and without gaps, and all of it when the
\* stream came to its end (PumpStream).
THEOREM ForwardsInOrder == Spec => []ForwardedInOrder
<1>1. TypeOK /\ Flow => ForwardedInOrder
  <2>1. SUFFICES ASSUME TypeOK, Flow  PROVE ForwardedInOrder
    OBVIOUS
  <2>2. up.all \in Seq(Atoms) /\ Len(up.all) \in Nat
    BY <2>1, LenProperties DEF TypeOK, UpOK
  <2>3. PICK a \in Nat : a <= Len(up.all) /\ sent = Piece(up.all, 0, a)
    BY <2>1 DEF Flow, FlowInv
  <2>4. Len(sent) = a
    <3>1. 0 \in Nat /\ 0 <= a /\ a - 0 = a
      OBVIOUS
    <3>2. Len(Piece(up.all, 0, a)) = a - 0
      BY <2>2, <2>3, <3>1, PieceParts
    <3>q. QED  BY <2>3, <3>1, <3>2
  <2>5. sent = SubSeq(up.all, 1, a)
    BY <2>3 DEF Piece
  <2>6. SubSeq(sent, 1, Len(sent)) = sent
    BY <2>1, SubSeqFull DEF TypeOK, RestOK
  <2>7. IsPrefix(sent, up.all)
    BY <2>3, <2>4, <2>5, <2>6 DEF IsPrefix
  <2>q. QED  BY <2>1, <2>7 DEF Flow, FlowInv, ForwardedInOrder
<1>q. QED  BY <1>1, CallPhases, StreamFlow, PTL

\* Before anything was sent the sniffer has seen nothing.
LEMMA NothingSniffed == Sniffed(<<>>) = [pending |-> <<>>, usage |-> None, chars |-> 0]
<1>1. PICK p \in Seq(Atoms) : p = <<>> /\ Len(p) = 0
  BY EmptyText
<1>2. Cut(p) = 0
  <2>1. Cut(p) \in 0..Len(p)
    BY CutProperties
  <2>q. QED  BY <1>1, <2>1
<1>3. Lines(p) = {}
  <2>1. Lines(p) \subseteq 1..Len(p)
    BY LinesFinite
  <2>q. QED  BY <1>1, <2>1
<1>4. Reported(p) = None /\ Content(p) = 0
  <2>1. ReportLines(p) = {} /\ ContentLines(p) = {}
    BY <1>3 DEF ReportLines, ContentLines
  <2>q. QED  BY <2>1, ByLines, FS_EmptySet
<1>5. Piece(p, Cut(p), Len(p)) = <<>>
  <2>1. Piece(p, 0, 0) = <<>>
    BY PieceEnds
  <2>q. QED  BY <1>1, <1>2, <2>1
<1>q. QED  BY <1>1, <1>4, <1>5 DEF Sniffed

\* A front of a stream is cut into lines like the stream.
LEMMA FrontOfStream ==
  ASSUME LinesApart, NEW s \in Streams, NEW n \in Nat, n <= Len(s)
  PROVE  OneBlank(Piece(s, 0, n)) /\ OneLine(Piece(s, 0, n))
<1>1. s \in Seq(Atoms)
  BY AnswersAreText
<1>2. Len(s) \in Nat /\ DOMAIN s = 1..Len(s)
  BY <1>1, LenProperties
<1>3. PICK p \in Seq(Atoms) : p = Piece(s, 0, n) /\ Len(p) = n /\ \A i \in 1..n : p[i] = s[i]
  <2>1. 0 \in Nat /\ 0 <= n
    OBVIOUS
  <2>2. /\ Piece(s, 0, n) \in Seq(Atoms)
        /\ Len(Piece(s, 0, n)) = n - 0
        /\ \A i \in 1..(n - 0) : Piece(s, 0, n)[i] = s[0 + i]
    BY <1>1, <2>1, PieceProperties
  <2>3. n - 0 = n /\ \A i \in 1..n : 0 + i = i
    OBVIOUS
  <2>q. QED  BY <2>2, <2>3
<1>4. DOMAIN p = 1..n
  BY <1>3, LenProperties
<1>5. OneBlank(s) /\ OneLine(s)
  BY LlmProxyAssumption DEF LlmProxyAssumption, OneBlank, LinesApart
<1>6. OneBlank(p)
  <2>1. SUFFICES ASSUME NEW i \in 1..n, i > 2  PROVE {p[i - 2], p[i - 1], p[i]} # {"n"}
    BY <1>4 DEF OneBlank
  <2>2. i - 2 \in 1..n /\ i - 1 \in 1..n /\ i \in DOMAIN s
    BY <1>2, <2>1
  <2>q. QED  BY <1>3, <1>5, <2>1, <2>2 DEF OneBlank
<1>7. OneLine(p)
  <2>1. SUFFICES ASSUME NEW i \in 1..n, NEW j \in 1..n, i < j, p[i] \notin Breaks, p[j] \notin Breaks
                 PROVE  \E b \in Blank(p) : i < b /\ b < j
    BY <1>4 DEF OneLine
  <2>2. PICK b \in Blank(s) : i < b /\ b < j
    BY <1>2, <1>3, <1>5, <2>1 DEF OneLine
  <2>3. b \in 1..n /\ b > 1 /\ s[b - 1] = "n" /\ s[b] = "n" /\ b - 1 \in 1..n
    BY <1>2, <2>2 DEF Blank
  <2>4. b \in Blank(p)
    BY <1>3, <1>4, <2>3 DEF Blank
  <2>q. QED  BY <2>2, <2>4
<1>q. QED  BY <1>3, <1>6, <1>7

LEMMA SniffStep ==
  ASSUME LinesApart, TypeOK, Phases, Flow, Flow', SniffInv, [Next]_vars
  PROVE  SniffInv'
<1>1. CASE Write
  <2>1. /\ call.pc = "write" /\ UNCHANGED <<up, reader>>
        /\ \E n \in 0..Len(call.chunk) :
             /\ sent' = sent \o SubSeq(call.chunk, 1, n)
             /\ sniff' = Consume(sniff, SubSeq(call.chunk, 1, n))
    BY <1>1 DEF Write, At, upstream
  <2>2. PICK n \in 0..Len(call.chunk) :
             /\ sent' = sent \o SubSeq(call.chunk, 1, n)
             /\ sniff' = Consume(sniff, SubSeq(call.chunk, 1, n))
    BY <2>1
  <2>3. Streamed /\ up.all \in Streams
    BY <2>1 DEF Phases, Asked, Flow, UpInv
  <2>4. PICK part \in Seq(Atoms) : part = SubSeq(call.chunk, 1, n)
    BY <2>2, PartOfText DEF TypeOK, CallOK
  <2>5. sent \in Seq(Atoms) /\ Len(sent) \in Nat /\ Len(part) \in Nat
    BY LenProperties DEF TypeOK, RestOK
  <2>6. /\ sent' \in Seq(Atoms) /\ Len(sent') = Len(sent) + Len(part)
        /\ sent' = sent \o part
    BY <2>2, <2>4, <2>5, ConcatProperties
  <2>7. PICK b \in Nat : b <= Len(up.all) /\ sent' = Piece(up.all, 0, b)
    BY <2>1 DEF Flow, FlowInv
  <2>8. OneBlank(sent') /\ OneLine(sent')
    BY <2>3, <2>7, FrontOfStream
  <2>9. Piece(sent', 0, Len(sent)) = sent /\ Piece(sent', Len(sent), Len(sent')) = part
    <3>1. PICK q \in Seq(Atoms) : q = sent \o part
      BY <2>6
    <3>2. PICK k \in Nat : k = Len(sent)
      BY <2>5
    <3>3. /\ Len(q) = k + Len(part)
          /\ \A i \in 1..(k + Len(part)) : q[i] = IF i <= k THEN sent[i] ELSE part[i - k]
      BY <2>5, <3>1, <3>2, ConcatProperties
    <3>4. PICK l \in Nat : l = Len(q)
      BY LenProperties
    <3>5. /\ 0 \in Nat /\ 0 <= k /\ k <= Len(q) /\ k <= l /\ l <= Len(q)
          /\ k - 0 = k /\ l - k = Len(part) /\ \A i \in 1..k : 0 + i = i
      BY <2>5, <3>3, <3>4
    <3>6. /\ Piece(q, 0, k) \in Seq(Atoms) /\ Len(Piece(q, 0, k)) = k - 0
          /\ \A i \in 1..(k - 0) : Piece(q, 0, k)[i] = q[0 + i]
      <4>1. 0 \in Nat /\ 0 <= k /\ k <= Len(q)
        BY <3>5
      <4>q. QED  BY ZenonT(40), <4>1, PieceProperties
    <3>7. \A i \in 1..k : Piece(q, 0, k)[i] = sent[i]
      <4>1. TAKE i \in 1..k
      <4>2. i \in 1..(k + Len(part)) /\ i <= k /\ 0 + i = i /\ i \in 1..(k - 0)
        BY <2>5
      <4>q. QED  BY <3>3, <3>6, <4>2
    <3>8. Piece(q, 0, k) = sent
      BY <2>5, <3>2, <3>5, <3>6, <3>7, SeqEqual
    <3>9. /\ Piece(q, k, l) \in Seq(Atoms) /\ Len(Piece(q, k, l)) = l - k
          /\ \A i \in 1..(l - k) : Piece(q, k, l)[i] = q[k + i]
      <4>1. k <= l /\ l <= Len(q)
        BY <3>5
      <4>q. QED  BY <4>1, PieceProperties
    <3>10. \A i \in 1..Len(part) : Piece(q, k, l)[i] = part[i]
      <4>1. TAKE i \in 1..Len(part)
      <4>2. k + i \in 1..(k + Len(part)) /\ ~(k + i <= k) /\ (k + i) - k = i /\ i \in 1..(l - k)
        BY <2>5, <3>5
      <4>q. QED  BY <3>3, <3>9, <4>2
    <3>11. Piece(q, k, l) = part
      BY <3>5, <3>9, <3>10, SeqEqual
    <3>q. QED  BY <2>6, <3>1, <3>2, <3>4, <3>8, <3>11
  <2>10. Consume(Sniffed(sent), part) = Sniffed(sent')
    <3>1. PICK q \in Seq(Atoms) : q = sent'
      BY <2>6
    <3>2. PICK k \in Nat : k = Len(sent)
      BY <2>5
    <3>3. k <= Len(q) /\ OneBlank(q) /\ OneLine(q)
      BY <2>5, <2>6, <2>8, <3>1, <3>2
    <3>4. Consume(Sniffed(Piece(q, 0, k)), Piece(q, k, Len(q))) = Sniffed(q)
      BY <3>3, CutsMakeNoDifference
    <3>q. QED  BY <2>9, <3>1, <3>2, <3>4
  <2>11. sniff = Sniffed(sent)
    BY <2>3 DEF SniffInv
  <2>q. QED  BY <2>2, <2>4, <2>10, <2>11 DEF SniffInv
<1>2. CASE ReadJSON
  <2>1. call.pc = "json" /\ call'.pc = "record" /\ UNCHANGED reader
    BY <1>2 DEF ReadJSON, Goto, At, TypeOK, CallOK
  <2>2. reader.pc = "off"
    BY <2>1 DEF Phases, Untouched, Early
  <2>q. QED  BY <2>1, <2>2 DEF SniffInv, Streamed, Early
<1>3. CASE Answer
  <2>1. call.pc = "answer" /\ UNCHANGED <<sniff, sent>>
    BY <1>3 DEF Answer, At, client
  <2>q. QED  BY <2>1 DEF SniffInv, Early
<1>4. CASE ReaderStep
  <2>1. reader.pc # "off" /\ UNCHANGED <<sniff, sent>>
    <3>1. CASE HandOver
      BY <3>1 DEF HandOver, client
    <3>2. ASSUME NEW n \in 0..Len(up.left), Read(n)  PROVE reader.pc # "off" /\ UNCHANGED <<sniff, sent>>
      BY <3>2 DEF Read, client
    <3>q. QED  BY <1>4, <3>1, <3>2 DEF ReaderStep
  <2>q. QED  BY <2>1 DEF SniffInv, Streamed
<1>5. CASE ListModels \/ CheckSubscription \/ ReadBody \/ Precheck \/ ForwardImages \/ ForwardQianwen
           \/ Forward \/ Heal \/ PassOn
  <2>1. call.pc \in Early
    BY <1>5 DEF ListModels, CheckSubscription, ReadBody, Precheck, ForwardImages, ForwardQianwen,
       ForwardBuffered, Forward, Heal, PassOn, At, Early
  <2>2. UNCHANGED <<sniff, sent>>
    BY <1>5 DEF ListModels, CheckSubscription, ReadBody, Precheck, ForwardImages, ForwardQianwen,
       ForwardBuffered, Forward, Heal, PassOn, pumping, client
  <2>q. QED  BY <2>1, <2>2 DEF SniffInv
<1>6. CASE TakeChunk \/ TimeOut \/ Record \/ CloseBody \/ Cancel
  <2>1. UNCHANGED <<reader, sniff, sent>> /\ call'.pc \notin Early
    BY <1>6 DEF TakeChunk, TimeOut, Record, CloseBody, Cancel, EndPump, Goto, pumping, client, Early,
       TypeOK, CallOK
  <2>q. QED  BY <2>1 DEF SniffInv, Streamed
<1>7. CASE IdleFires \/ Deadline \/ ClientGoes \/ Over \/ UNCHANGED vars
  <2>1. UNCHANGED <<call, reader, sniff, sent>>
    BY <1>7 DEF IdleFires, Deadline, ClientGoes, Over, vars, pumping, client
  <2>q. QED  BY <2>1 DEF SniffInv, Streamed
<1>q. QED  BY <1>1, <1>2, <1>3, <1>4, <1>5, <1>6, <1>7 DEF Next, HandlerStep

\* The bill is written from what the sniffer has, and neither changes after that.
LEMMA BillStep ==
  ASSUME TypeOK, Phases, SniffInv, BillInv, [Next]_vars
  PROVE  BillInv'
<1>1. CASE Record
  <2>1. /\ UNCHANGED <<reader, sent>>
        /\ bill' = [by |-> sniff.usage, chars |-> IF sniff.usage = None THEN sniff.chars ELSE 0]
    BY <1>1 DEF Record, pumping
  <2>2. Streamed => sniff.usage = Reported(sent) /\ sniff.chars = Content(sent)
    BY DEF SniffInv, Sniffed
  <2>q. QED  BY <2>1, <2>2 DEF BillInv, Streamed
<1>2. CASE Write \/ ReadJSON \/ TakeChunk \/ TimeOut
  <2>1. call.pc \in {"json", "pump", "write"} /\ bill' = bill
    BY <1>2 DEF Write, ReadJSON, TakeChunk, TimeOut, At, client
  <2>q. QED  BY <2>1 DEF Phases, Accepted, BillInv
<1>3. CASE Answer
  <2>1. call.pc = "answer" /\ bill' = bill
    BY <1>3 DEF Answer, At, client
  <2>q. QED  BY <2>1 DEF Phases, Untouched, Early, BillInv
<1>4. CASE ReaderStep
  <2>1. reader.pc # "off" /\ UNCHANGED <<sent, bill>>
    <3>1. CASE HandOver
      BY <3>1 DEF HandOver, client
    <3>2. ASSUME NEW n \in 0..Len(up.left), Read(n)  PROVE reader.pc # "off" /\ UNCHANGED <<sent, bill>>
      BY <3>2 DEF Read, client
    <3>q. QED  BY <1>4, <3>1, <3>2 DEF ReaderStep
  <2>q. QED  BY <2>1 DEF BillInv, Streamed
<1>5. CASE ListModels \/ CheckSubscription \/ ReadBody \/ Precheck \/ ForwardImages \/ ForwardQianwen
           \/ Forward \/ Heal \/ PassOn \/ CloseBody \/ Cancel
  <2>1. UNCHANGED <<reader, sent, bill>>
    BY <1>5 DEF ListModels, CheckSubscription, ReadBody, Precheck, ForwardImages, ForwardQianwen,
       ForwardBuffered, Forward, Heal, PassOn, CloseBody, Cancel, pumping, client
  <2>q. QED  BY <2>1 DEF BillInv, Streamed
<1>6. CASE IdleFires \/ Deadline \/ ClientGoes \/ Over \/ UNCHANGED vars
  <2>1. UNCHANGED <<reader, sent, bill>>
    BY <1>6 DEF IdleFires, Deadline, ClientGoes, Over, vars, pumping, client
  <2>q. QED  BY <2>1 DEF BillInv, Streamed
<1>q. QED  BY <1>1, <1>2, <1>3, <1>4, <1>5, <1>6 DEF Next, HandlerStep

\* Where litellm writes every line of data as an event of its own: a chat that was
\* accepted is billed when its handler returns and nothing else is, and the bill of
\* a stream says what the events sent to the client say, wherever its chunks were
\* cut and however it was broken off (SSESniffer, recordUsage, InjectIncludeUsage).
THEOREM BillsWhatWasSent ==
  ASSUME LinesApart
  PROVE  Spec => []BilledAsSent
<1>1. Init => SniffInv /\ BillInv
  <2>1. SUFFICES ASSUME Init  PROVE SniffInv /\ BillInv
    OBVIOUS
  <2>2. sent = <<>> /\ sniff = [pending |-> <<>>, usage |-> None, chars |-> 0] /\ bill = None
    BY <2>1 DEF Init
  <2>q. QED  BY <2>2, NothingSniffed DEF SniffInv, BillInv
<1>2. TypeOK /\ Phases /\ Flow /\ Flow' /\ SniffInv /\ BillInv /\ [Next]_vars => (SniffInv /\ BillInv)'
  BY SniffStep, BillStep
<1>3. Phases /\ BillInv => BilledAsSent
  <2>1. SUFFICES ASSUME Phases, BillInv  PROVE BilledAsSent
    OBVIOUS
  <2>2. At("done") => ((bill # None) <=> (call.op = "chat" /\ call.status = "ok"))
    BY <2>1 DEF Phases, Accepted, Late, At
  <2>3. (bill # None /\ Streamed) => call.usage
    BY <2>1 DEF Phases, Asked
  <2>q. QED  BY <2>1, <2>2, <2>3 DEF BilledAsSent, BillInv
<1>q. QED  BY <1>1, <1>2, <1>3, CallPhases, StreamFlow, PTL DEF Spec

=============================================================================
