------------------------------ MODULE LexerProofs ------------------------------
(***************************************************************************)
(* What the lexer cuts and tells, whatever it reads; and where it stands,  *)
(* and on which line, in a text it does not leave. Proofs about Lexer.     *)
(***************************************************************************)
EXTENDS Lexer, FiniteSetTheorems, WellFoundedInduction, TLAPS

\* The quotes that are left, and the line breaks up to a place.
QuotesFrom(i) == {k \in i..Len(text) : mem[k] = "dquot"}
LineBreaks(n) == {k \in 1..n : mem[k] = "newline"}

\* Up to here every line break follows a blank or a letter, and there was no
\* string: the texts whose lines are counted right.
Fair(n) ==
  /\ \A i \in LineBreaks(n) : i > 1 /\ mem[i-1] \in Blank \cup Letter
  /\ \A i \in 1..n-1 : mem[i] # "dquot"

Counted(n, l) ==
  /\ l \in Nat /\ l =< Cardinality(LineBreaks(n))
  /\ Fair(n) => l = Cardinality(LineBreaks(n))

\* Where the lexer stands in what it reads, the text and what lies behind it.
Somewhere == at \in 1..Len(mem) /\ left = (Len(text) + 1 - at) % SizeMod

\* What holds of the token cut last, wherever it was cut.
Cuts == Somewhere /\ LongestMatch /\ SpelledAsTold

\* Where the lexer stands in a text it does not leave.
Within ==
  /\ at \in 1..Len(text)+1
  /\ lost = FALSE
  /\ Cardinality(QuotesFrom(at)) % 2 = 0
  /\ Counted(at, line)

Inv ==
  /\ text \in Texts /\ beyond \in Beyonds
  /\ Cuts
  /\ Contained => Within
  /\ LineNumber

-----------------------------------------------------------------------------
(***************************************************************************)
(* The characters.                                                         *)
(***************************************************************************)
\* A table is defined where its pairs say.
LEMMA TableDomain == \A pairs : DOMAIN Table(pairs) = {p[1] : p \in pairs}
  BY DEF Table

\* The first character of an operator begins nothing else.
LEMMA OperatorChar ==
  \A c \in DOMAIN Alone : c \notin {NUL, "dquot"} \cup Blank \cup WordChar
<1>1. \A p \in OneChar : p[1] \notin {NUL, "dquot"} \cup Blank \cup WordChar
  BY DEF OneChar, NUL, Blank, WordChar, Letter, Digit
<1>2. DOMAIN Alone = {p[1] : p \in OneChar}
  BY TableDomain DEF Alone
<1> QED
  BY <1>1, <1>2

\* Nor does the second one; operators have two characters at most.
LEMMA OperatorChars ==
  \A s \in DOMAIN Both :
    /\ s = <<s[1], s[2]>>
    /\ s[1] \notin {NUL, "dquot"} \cup Blank \cup WordChar
    /\ s[2] \notin {NUL, "dquot"} \cup Blank \cup WordChar
<1>1. \A p \in TwoChars : p[1] = <<p[1][1], p[1][2]>>
  BY DEF TwoChars
<1>2. \A p \in TwoChars : p[1][2] \in {"=", ".", "&", "|", "+", "-", ">"}
  BY DEF TwoChars
<1>3. \A p \in TwoChars :
        p[1][1] \in {"<", ">", "!", "=", "?", "*", "/", "^", "&", "|", "+", "-"}
  BY DEF TwoChars
<1>4. \A c \in {"<", ">", "!", "=", "?", "*", "/", "^", "&", "|", "+", "-", "."} :
        c \notin {NUL, "dquot"} \cup Blank \cup WordChar
  BY DEF NUL, Blank, WordChar, Letter, Digit
<1>5. DOMAIN Both = {p[1] : p \in TwoChars}
  BY TableDomain DEF Both
<1>6. ASSUME NEW p \in TwoChars
      PROVE  /\ p[1] = <<p[1][1], p[1][2]>>
             /\ p[1][1] \notin {NUL, "dquot"} \cup Blank \cup WordChar
             /\ p[1][2] \notin {NUL, "dquot"} \cup Blank \cup WordChar
  <2>1. p[1][1] \notin {NUL, "dquot"} \cup Blank \cup WordChar
    BY <1>3, <1>4
  <2>2. p[1][2] \notin {NUL, "dquot"} \cup Blank \cup WordChar
    BY <1>2, <1>4
  <2> QED
    BY <1>1, <2>1, <2>2
<1> QED
  BY <1>5, <1>6

\* Operators are told as they are spelled, and nothing else is told so.
LEMMA OneSpelled ==
  \A c \in DOMAIN Alone : \A t \in DOMAIN Spelling : Alone[c] = t <=> <<c>> = Spelling[t]
<1>1. \A p \in OneChar : \A t \in DOMAIN Spelling : p[2] = t <=> <<p[1]>> = Spelling[t]
  BY DEF Spelling, OneChar
<1>2. \A c \in DOMAIN Alone : \E p \in OneChar : p[1] = c /\ Alone[c] = p[2]
  BY DEF Alone, Table
<1> QED
  BY <1>1, <1>2

LEMMA TwoSpelled ==
  \A s \in DOMAIN Both : \A t \in DOMAIN Spelling :
    Both[s] = t <=> (s = Spelling[t] \/ (t = "L_BANG_EQ" /\ s = <<"&", "=">>))
<1>1. \A p \in TwoChars : \A t \in DOMAIN Spelling :
        p[2] = t <=> (p[1] = Spelling[t] \/ (t = "L_BANG_EQ" /\ p[1] = <<"&", "=">>))
  BY DEF Spelling, TwoChars
<1>2. \A s \in DOMAIN Both : \E p \in TwoChars : p[1] = s /\ Both[s] = p[2]
  BY DEF Both, Table
<1>3. ASSUME NEW s \in DOMAIN Both, NEW t \in DOMAIN Spelling
      PROVE  Both[s] = t <=> (s = Spelling[t] \/ (t = "L_BANG_EQ" /\ s = <<"&", "=">>))
  <2>1. PICK p \in TwoChars : p[1] = s /\ Both[s] = p[2]
    BY <1>2
  <2> QED
    BY <1>1, <2>1
<1> QED
  BY <1>3

LEMMA NoOperator ==
  /\ \A t \in DOMAIN Spelling : Spelling[t][1] \notin {"dquot"} \cup WordChar
  /\ \A w : WordType(w) \notin DOMAIN Spelling
  /\ {"L_STRING", "L_INTEGER", "L_FLOAT", "L_EOF", "uninitialised"} \cap DOMAIN Spelling = {}
<1>1. \A t \in DOMAIN Spelling : Spelling[t][1] \notin {"dquot"} \cup WordChar
  BY DEF Spelling, WordChar, Letter, Digit
<1>2. \A w : WordType(w) \notin DOMAIN Spelling
  <2> DEFINE Types == {"L_CONST", "L_ELSE", "L_EXPORT", "L_IF", "L_NOTHING", "L_TRUE", "L_RETURN",
                       "L_VAR", "L_VOID", "L_WHILE", "L_FALSE", "L_FOR"}
  <2>1. \A w \in DOMAIN Keywords : Keywords[w] \in Types
    BY DEF Keywords, Table
  <2>2. \A t \in Types \cup {"L_IDENT"} : t \notin DOMAIN Spelling
    BY DEF Spelling
  <2> QED BY <2>1, <2>2 DEF WordType
<1>3. {"L_STRING", "L_INTEGER", "L_FLOAT", "L_EOF", "uninitialised"} \cap DOMAIN Spelling = {}
  BY DEF Spelling
<1> QED
  BY <1>1, <1>2, <1>3

\* The classes of characters are kept apart.
LEMMA Classes ==
  /\ NUL \notin Blank \cup WordChar \cup Digit \cup {".", "dquot"}
  /\ Blank \cap WordChar = {} /\ "newline" \in Blank
  /\ "dquot" \notin Blank \cup WordChar \cup Digit \cup {"."}
  /\ Digit \cap Letter = {} /\ WordChar = Letter \cup Digit
  /\ Blank \cap (Digit \cup {"."}) = {} /\ Letter \cap (Digit \cup {"."}) = {}
  BY DEF NUL, Blank, WordChar, Letter, Digit

-----------------------------------------------------------------------------
(***************************************************************************)
(* The memory.                                                             *)
(***************************************************************************)
\* A set of numbers that is not empty has a least one.
LEMMA LeastNumber ==
  ASSUME NEW T, T \subseteq Nat, T # {}
  PROVE  \E x \in T : \A y \in T : x =< y
<1> DEFINE less == {e \in Nat \X Nat : e[1] < e[2]}
<1>1. IsWellFoundedOn(less, Nat)
  <2>1. less = OpToRel(<, Nat)
    BY DEF OpToRel
  <2> QED
    BY <2>1, NatLessThanWellFounded
<1>2. \A x, y \in Nat : <<x, y>> \in less <=> x < y
  OBVIOUS
<1> HIDE DEF less
<1>3. PICK x \in T : \A y \in T : ~ (<<y, x>> \in less)
  BY <1>1, WFMin
<1>4. x \in Nat /\ x \in T
  BY <1>3
<1>5. ASSUME NEW y \in T PROVE x =< y
  <2>1. y \in Nat /\ ~ (<<y, x>> \in less)
    BY <1>3, <1>5
  <2>2. ~ (y < x)
    BY <1>2, <1>4, <2>1
  <2> QED
    BY <1>4, <2>1, <2>2
<1> QED
  BY <1>4, <1>5

\* The text, and what lies behind it: its last byte is zero, and the first one
\* too if the text is one the lexer does not leave.
LEMMA Memory ==
  ASSUME text \in Texts, beyond \in Beyonds
  PROVE  /\ Len(text) \in Nat /\ SizeMod \in Nat /\ Len(mem) < SizeMod
         /\ mem \in Seq(STRING) /\ Len(mem) \in Nat /\ Len(text) + 1 =< Len(mem)
         /\ \A k \in 1..Len(text) : mem[k] = text[k]
         /\ mem[Len(mem)] = NUL
         /\ Contained => mem[Len(text) + 1] = NUL
<1>1. text \in Seq(STRING) /\ beyond \in Seq(STRING) /\ beyond # <<>> /\ beyond[Len(beyond)] = NUL
  BY TextsAssumption, BeyondsAssumption
<1>2. Len(text) + Len(beyond) < SizeMod /\ SizeMod \in Nat
  BY SizeModAssumption
<1>3. /\ mem \in Seq(STRING) /\ Len(mem) = Len(text) + Len(beyond)
      /\ Len(text) \in Nat /\ Len(beyond) \in Nat \ {0}
      /\ \A k \in 1..Len(text) : mem[k] = text[k]
      /\ \A k \in Len(text)+1..Len(text)+Len(beyond) : mem[k] = beyond[k - Len(text)]
  BY <1>1 DEF mem
<1>4. mem[Len(mem)] = NUL
  BY <1>1, <1>3
<1>5. Contained => mem[Len(text) + 1] = NUL
  <2>1. mem[Len(text) + 1] = beyond[1]
    BY <1>3
  <2> QED
    BY <2>1 DEF Contained
<1> QED
  BY <1>2, <1>3, <1>4, <1>5

\* What a handler stops at; in a text the lexer does not leave, it stops at the
\* latest behind the text.
LEMMA StopsInside ==
  ASSUME text \in Texts, beyond \in Beyonds,
         NEW set, NUL \notin set, NEW i \in 1..Len(mem)
  PROVE  /\ Stop(set, i) \in i..Len(mem)
         /\ mem[Stop(set, i)] \notin set
         /\ \A k \in i..Stop(set, i)-1 : mem[k] \in set
         /\ Contained /\ i =< Len(text) + 1 => Stop(set, i) =< Len(text) + 1
<1> DEFINE T == {j \in i..Len(mem) : mem[j] \notin set}
<1>1. /\ Len(text) \in Nat /\ Len(mem) \in Nat /\ Len(text) + 1 =< Len(mem)
      /\ mem[Len(mem)] = NUL
      /\ Contained => mem[Len(text) + 1] = NUL
  BY Memory
<1>2. Len(mem) \in T
  BY <1>1
<1>3. PICK j \in T : \A y \in T : j =< y
  <2>1. T \subseteq Nat
    BY <1>1
  <2> QED
    BY <1>2, <2>1, LeastNumber
<1>4. \A k \in i..j-1 : mem[k] \in set
  BY <1>1, <1>3
<1>5. /\ Stop(set, i) \in i..Len(mem) /\ mem[Stop(set, i)] \notin set
      /\ \A k \in i..Stop(set, i)-1 : mem[k] \in set
  BY <1>3, <1>4 DEF Stop
<1>6. ASSUME Contained, i =< Len(text) + 1 PROVE Stop(set, i) =< Len(text) + 1
  BY <1>1, <1>5, <1>6
<1> QED
  BY <1>5, <1>6

\* The remainders of what lies less than one width from zero.
LEMMA Remainders ==
  ASSUME NEW M \in Nat
  PROVE  /\ \A n \in 0..M-1 : n % M = n
         /\ \A n \in -M+1..-1 : n % M = n + M /\ n % M # 0
  OBVIOUS

-----------------------------------------------------------------------------
(***************************************************************************)
(* Before a step: where the next token begins.                             *)
(***************************************************************************)
\* The lexer at some place of what it reads.
Anywhere == text \in Texts /\ beyond \in Beyonds /\ Somewhere

\* The token begins at the first character that is no blank, and the length
\* that is computed for a place is the one that place should have.
LEMMA TokenStart ==
  ASSUME Anywhere
  PROVE  /\ Start \in at..Len(mem) /\ Start \in 1..Len(mem) /\ Start \in Nat
         /\ mem[Start] \notin Blank /\ \A k \in at..Start-1 : mem[k] \in Blank
         /\ \A i \in 1..Len(mem) : LeftAt(i) = (Len(text) + 1 - i) % SizeMod
<1>1. /\ at \in 1..Len(mem) /\ Len(text) \in Nat /\ Len(mem) \in Nat /\ SizeMod \in Nat
      /\ Len(text) + 1 =< Len(mem) /\ Len(mem) < SizeMod
  BY Memory DEF Anywhere, Somewhere
<1>2. NUL \notin Blank
  BY Classes
<1>3. /\ Start \in at..Len(mem)
      /\ mem[Start] \notin Blank /\ \A k \in at..Start-1 : mem[k] \in Blank
  BY <1>1, <1>2, StopsInside DEF Anywhere, Start
<1>4. ASSUME NEW i \in 1..Len(mem) PROVE LeftAt(i) = (Len(text) + 1 - i) % SizeMod
  <2> DEFINE n == Len(text) + 1 - i
             m == Len(text) + 1 - at
  <2>1. left = IF m >= 0 THEN m ELSE m + SizeMod
    <3>1. m \in 0..SizeMod-1 \/ m \in -SizeMod+1..-1
      BY <1>1
    <3>2. left = m % SizeMod
      BY DEF Anywhere, Somewhere
    <3> HIDE DEF m
    <3>3. CASE m \in 0..SizeMod-1
      BY <1>1, <3>2, <3>3, Remainders
    <3>4. CASE m \in -SizeMod+1..-1
      <4>1. m % SizeMod = m + SizeMod
        BY <1>1, <3>4, Remainders
      <4> QED
        BY <1>1, <3>2, <3>4, <4>1
    <3> QED
      BY <3>1, <3>3, <3>4
  <2>2. left - (i - at) = n \/ left - (i - at) = n + SizeMod
    BY <1>1, <2>1
  <2>3. n \in -SizeMod+1..SizeMod-1
    BY <1>1
  <2>4. left - (i - at) \in -SizeMod+1..SizeMod-1 \/ left - (i - at) \in SizeMod..2*SizeMod-1
    BY <1>1, <2>2, <2>3
  <2>5. \A k \in SizeMod..2*SizeMod-1 : k % SizeMod = k - SizeMod
    BY <1>1
  <2>6. (left - (i - at)) % SizeMod = n % SizeMod
    <3> HIDE DEF n, m
    <3>1. CASE left - (i - at) = n
      BY <3>1
    <3>2. CASE left - (i - at) = n + SizeMod
      <4>1. CASE n >= 0
        <5>1. n \in 0..SizeMod-1 /\ n + SizeMod \in SizeMod..2*SizeMod-1
          BY <1>1, <2>3, <4>1
        <5> QED
          BY <1>1, <2>5, <3>2, <5>1, Remainders
      <4>2. CASE n < 0
        <5>1. n + SizeMod \in 0..SizeMod-1
          BY <1>1, <2>3, <4>2
        <5>2. (n + SizeMod) % SizeMod = n + SizeMod
          BY <1>1, <5>1
        <5>3. n % SizeMod = n + SizeMod
          <6>1. n \in -SizeMod+1..-1
            BY <1>1, <2>3, <4>2
          <6> QED
            BY <1>1, <6>1, Remainders
        <5> QED
          BY <3>2, <5>2, <5>3
      <4> QED
        BY <2>3, <4>1, <4>2
    <3> QED
      BY <2>2, <3>1, <3>2
  <2> QED
    BY <2>6 DEF LeftAt
<1> QED
  BY <1>1, <1>3, <1>4

\* No length is left right behind the text, and nowhere else.
LEMMA NoneLeft ==
  ASSUME Anywhere, NEW i \in 1..Len(mem)
  PROVE  LeftAt(i) = 0 <=> i = Len(text) + 1
<1> DEFINE n == Len(text) + 1 - i
<1>1. /\ Len(text) \in Nat /\ Len(mem) \in Nat /\ SizeMod \in Nat
      /\ Len(text) + 1 =< Len(mem) /\ Len(mem) < SizeMod
  BY Memory DEF Anywhere
<1>2. LeftAt(i) = n % SizeMod
  BY TokenStart
<1>3. n \in 0..SizeMod-1 \/ n \in -SizeMod+1..-1
  BY <1>1
<1>4. n = 0 <=> i = Len(text) + 1
  BY <1>1
<1> HIDE DEF n
<1>5. n % SizeMod = 0 <=> n = 0
  BY <1>1, <1>3, Remainders
<1> QED
  BY <1>2, <1>4, <1>5

\* What the switch of __next_token looks at; the last byte is zero.
LEMMA LooksAt ==
  ASSUME Anywhere
  PROVE  /\ AtEnd <=> Start = Len(text) + 1
         /\ AtEnd => Ahead = NUL
         /\ ~ AtEnd => Ahead = mem[Start]
         /\ mem[Start] # NUL => Start \in 1..Len(mem)-1
<1>1. Len(mem) \in Nat /\ mem[Len(mem)] = NUL
  BY Memory DEF Anywhere
<1>2. Start \in 1..Len(mem)
  BY TokenStart
<1>3. LeftAt(Start) = 0 <=> Start = Len(text) + 1
  BY <1>2, NoneLeft
<1> QED
  BY <1>1, <1>2, <1>3 DEF AtEnd, Ahead

-----------------------------------------------------------------------------
(***************************************************************************)
(* The longest token. What a piece can be is told by its first character.  *)
(***************************************************************************)
LEMMA WordPiece ==
  ASSUME NEW s \in Seq(STRING), s # <<>>, s[1] \in Letter, IsToken(s)
  PROVE  \A k \in 1..Len(s) : s[k] \in WordChar
<1>1. s[1] \notin DOMAIN Alone /\ s \notin DOMAIN Both /\ s[1] \notin Digit /\ s[1] # "dquot"
  BY OperatorChar, OperatorChars, Classes
<1>2. {k \in 1..Len(s) : s[k] = "dquot"} # {1, Len(s)}
  BY <1>1
<1> QED
  BY <1>1, <1>2 DEF IsToken

LEMMA NumberPiece ==
  ASSUME NEW s \in Seq(STRING), s # <<>>, s[1] \in Digit, IsToken(s)
  PROVE  \A k \in 1..Len(s) : s[k] \in Digit \cup {"."}
<1>1. s[1] \notin DOMAIN Alone /\ s \notin DOMAIN Both /\ s[1] \notin Letter /\ s[1] # "dquot"
  BY OperatorChar, OperatorChars, Classes
<1>2. {k \in 1..Len(s) : s[k] = "dquot"} # {1, Len(s)}
  BY <1>1
<1> QED
  BY <1>1, <1>2 DEF IsToken

LEMMA StringPiece ==
  ASSUME NEW s \in Seq(STRING), s # <<>>, s[1] = "dquot", IsToken(s)
  PROVE  {k \in 1..Len(s) : s[k] = "dquot"} = {1, Len(s)}
<1>1. s[1] \notin DOMAIN Alone /\ s \notin DOMAIN Both
  BY OperatorChar, OperatorChars
<1>2. s[1] \notin Letter /\ s[1] \notin Digit
  BY Classes
<1> QED
  BY <1>1, <1>2 DEF IsToken

LEMMA OperatorPiece ==
  ASSUME NEW s \in Seq(STRING), s # <<>>, s[1] \in DOMAIN Alone, IsToken(s)
  PROVE  Len(s) = 1 \/ (s \in DOMAIN Both /\ Len(s) = 2)
<1>1. s[1] \notin Letter /\ s[1] \notin Digit /\ s[1] # "dquot"
  BY OperatorChar, Classes
<1>2. {k \in 1..Len(s) : s[k] = "dquot"} # {1, Len(s)}
  BY <1>1
<1>3. s \in DOMAIN Both => Len(s) = 2
  BY OperatorChars
<1> QED
  BY <1>1, <1>2, <1>3 DEF IsToken

\* The piece of what is read from the start of the token up to j.
Piece(j) == SubSeq(mem, Start, j)

\* It has the characters that are read there.
LEMMA Pieces ==
  ASSUME Anywhere, NEW j \in Start..Len(mem)
  PROVE  /\ Piece(j) \in Seq(STRING) /\ Piece(j) # <<>>
         /\ Len(Piece(j)) = j - Start + 1
         /\ Piece(j)[1] = mem[Start]
         /\ \A k \in 1..Len(Piece(j)) : Piece(j)[k] = mem[Start + k - 1]
<1>1. Start \in 1..Len(mem) /\ Len(mem) \in Nat /\ mem \in Seq(STRING)
  BY TokenStart, Memory DEF Anywhere
<1>2. j \in 1..Len(mem) /\ Start =< j
  BY <1>1
<1>3. /\ Piece(j) \in Seq(STRING) /\ Len(Piece(j)) = j - Start + 1
      /\ \A k \in 1..Len(Piece(j)) : Piece(j)[k] = mem[Start + k - 1]
  BY <1>1, <1>2 DEF Piece
<1>4. 1 \in 1..Len(Piece(j)) /\ Start + 1 - 1 = Start
  BY <1>1, <1>2, <1>3
<1> QED
  BY <1>3, <1>4

\* A place of what is read within a piece.
LEMMA InPiece ==
  ASSUME Anywhere, NEW j \in Start..Len(mem), NEW k \in Start..j
  PROVE  /\ k - Start + 1 \in 1..Len(Piece(j))
         /\ Piece(j)[k - Start + 1] = mem[k]
<1>1. Start \in Nat /\ Len(mem) \in Nat
  BY TokenStart, Memory DEF Anywhere
<1>2. k - Start + 1 \in 1..Len(Piece(j)) /\ Start + (k - Start + 1) - 1 = k
  BY <1>1, Pieces
<1> QED
  BY <1>2, Pieces

LEMMA InPieceAt ==
  ASSUME Anywhere, NEW j \in Start..Len(mem), NEW k \in Start..j, NEW n, n = k - Start + 1
  PROVE  Piece(j)[n] = mem[k]
  BY InPiece

\* No longer piece than the one that ends before i is a token.
Longest(i) ==
  IsToken(Piece(i - 1)) /\ \A j \in i..Len(mem) : ~ IsToken(Piece(j))

LEMMA LongestWord ==
  ASSUME Anywhere, mem[Start] \in Letter
  PROVE  /\ WordEnd \in Start+1..Len(mem) /\ \A k \in Start..WordEnd-1 : mem[k] \in WordChar
         /\ Longest(WordEnd)
<1>1. Start \in 1..Len(mem) /\ Len(mem) \in Nat
  BY TokenStart, LooksAt, Memory DEF Anywhere
<1>2. /\ WordEnd \in Start..Len(mem) /\ mem[WordEnd] \notin WordChar
      /\ \A k \in Start..WordEnd-1 : mem[k] \in WordChar
  <2>1. NUL \notin WordChar /\ Start \in 1..Len(mem)
    BY Classes, TokenStart
  <2> QED
    BY <2>1, StopsInside DEF Anywhere, WordEnd
<1>3. WordEnd \in Start+1..Len(mem)
  BY <1>1, <1>2, Classes
<1>4. IsToken(Piece(WordEnd - 1))
  <2>1. WordEnd - 1 \in Start..Len(mem)
    BY <1>1, <1>3
  <2>2. \A k \in 1..Len(Piece(WordEnd - 1)) : Start + k - 1 \in Start..WordEnd-1
    BY <1>1, <2>1, Pieces
  <2>3. \A k \in 1..Len(Piece(WordEnd - 1)) : Piece(WordEnd - 1)[k] \in WordChar
    BY <1>2, <2>1, <2>2, Pieces
  <2> QED
    BY <2>1, <2>3, Pieces DEF IsToken
<1>5. ASSUME NEW j \in WordEnd..Len(mem), IsToken(Piece(j)) PROVE FALSE
  <2>1. j \in Start..Len(mem) /\ WordEnd \in Start..j
    BY <1>1, <1>3
  <2>2. \A k \in 1..Len(Piece(j)) : Piece(j)[k] \in WordChar
    BY <1>5, <2>1, Pieces, WordPiece
  <2> QED
    BY <1>2, <2>1, <2>2, InPiece
<1> QED
  BY <1>2, <1>3, <1>4, <1>5 DEF Longest

\* The dots of a piece are those of the text it was cut from.
LEMMA DotsOfPiece ==
  ASSUME Anywhere, NEW i \in Start+1..Len(mem)
  PROVE  Cardinality({k \in 1..Len(Piece(i-1)) : Piece(i-1)[k] = "."}) =
           Cardinality({k \in Start..i-1 : mem[k] = "."})
<1> DEFINE here == {k \in 1..Len(Piece(i-1)) : Piece(i-1)[k] = "."}
           there == {k \in Start..i-1 : mem[k] = "."}
           shift == [k \in there |-> k - Start + 1]
<1>1. Start \in Nat /\ Len(mem) \in Nat /\ i - 1 \in Start..Len(mem)
  BY TokenStart, Memory DEF Anywhere
<1>2. Len(Piece(i-1)) = i - Start /\ \A k \in 1..Len(Piece(i-1)) : Piece(i-1)[k] = mem[Start + k - 1]
  BY <1>1, Pieces
<1>3. IsFiniteSet(there)
  <2>1. IsFiniteSet(Start..i-1)
    BY <1>1, FS_Interval
  <2> QED
    BY <2>1, FS_Subset
<1>4. shift \in Bijection(there, here)
  <2>1. ASSUME NEW k \in there PROVE shift[k] \in here
    <3>1. k - Start + 1 \in 1..Len(Piece(i-1)) /\ Start + (k - Start + 1) - 1 = k
      BY <1>1, <1>2
    <3>2. Piece(i-1)[k - Start + 1] = mem[k]
      BY <1>2, <3>1
    <3> QED
      BY <3>1, <3>2
  <2>2. \A k, l \in there : shift[k] = shift[l] => k = l
    BY <1>1
  <2>3. ASSUME NEW k \in here PROVE \E l \in there : shift[l] = k
    <3>1. Start + k - 1 \in there /\ shift[Start + k - 1] = k
      BY <1>1, <1>2
    <3> QED
      BY <3>1
  <2> QED
    BY <2>1, <2>2, <2>3 DEF Bijection, Injection, Surjection, IsInjective
<1>5. ExistsBijection(there, here)
  BY <1>4 DEF ExistsBijection
<1> HIDE DEF here, there, shift
<1>6. Cardinality(here) = Cardinality(there)
  BY <1>3, <1>5, FS_Bijection
<1> QED
  BY <1>6 DEF here, there

LEMMA LongestNumber ==
  ASSUME Anywhere, mem[Start] \in Digit
  PROVE  /\ NumberEnd \in Start+1..Len(mem)
         /\ \A k \in Start..NumberEnd-1 : mem[k] \in Digit \cup {"."}
         /\ Dots < 2 => Longest(NumberEnd)
<1>1. Start \in 1..Len(mem) /\ Len(mem) \in Nat
  BY TokenStart, LooksAt, Memory DEF Anywhere
<1>2. /\ NumberEnd \in Start..Len(mem) /\ mem[NumberEnd] \notin Digit \cup {"."}
      /\ \A k \in Start..NumberEnd-1 : mem[k] \in Digit \cup {"."}
  <2>1. NUL \notin Digit \cup {"."} /\ Start \in 1..Len(mem)
    BY Classes, TokenStart
  <2> QED
    BY <2>1, StopsInside DEF Anywhere, NumberEnd
<1>3. NumberEnd \in Start+1..Len(mem)
  BY <1>1, <1>2
<1>4. ASSUME Dots < 2 PROVE IsToken(Piece(NumberEnd - 1))
  <2>1. NumberEnd - 1 \in Start..Len(mem)
    BY <1>1, <1>3
  <2>2. \A k \in 1..Len(Piece(NumberEnd - 1)) : Start + k - 1 \in Start..NumberEnd-1
    BY <1>1, <2>1, Pieces
  <2>3. \A k \in 1..Len(Piece(NumberEnd - 1)) : Piece(NumberEnd - 1)[k] \in Digit \cup {"."}
    BY <1>2, <2>1, <2>2, Pieces
  <2>4. Cardinality({k \in 1..Len(Piece(NumberEnd - 1)) : Piece(NumberEnd - 1)[k] = "."}) < 2
    BY <1>3, <1>4, DotsOfPiece DEF Dots
  <2> QED
    BY <2>1, <2>3, <2>4, Pieces DEF IsToken
<1>5. ASSUME NEW j \in NumberEnd..Len(mem), IsToken(Piece(j)) PROVE FALSE
  <2>1. j \in Start..Len(mem) /\ NumberEnd \in Start..j
    BY <1>1, <1>3
  <2>2. \A k \in 1..Len(Piece(j)) : Piece(j)[k] \in Digit \cup {"."}
    BY <1>5, <2>1, Pieces, NumberPiece
  <2> QED
    BY <1>2, <2>1, <2>2, InPiece
<1> QED
  BY <1>2, <1>3, <1>4, <1>5 DEF Longest

LEMMA LongestString ==
  ASSUME Anywhere, mem[Start] = "dquot",
         NEW q \in Quotes, \A k \in Quotes : q =< k
  PROVE  q \in Start+1..Len(mem)-1 /\ Longest(q + 1)
<1>1. /\ Start \in 1..Len(mem) /\ Len(mem) \in Nat /\ q \in Start..Len(mem)
      /\ q \in Start+1..Len(mem)-1
  <2>1. q \in Start+1..Len(mem) /\ mem[q] = "dquot"
    BY DEF Quotes
  <2>2. NUL # "dquot"
    BY Classes
  <2>3. mem[Len(mem)] = NUL /\ Len(mem) \in Nat /\ Start \in 1..Len(mem)
    BY TokenStart, Memory DEF Anywhere
  <2>4. q # Len(mem)
    BY <2>1, <2>2, <2>3
  <2> QED
    BY <2>1, <2>3, <2>4
<1>2. mem[q] = "dquot" /\ \A k \in Start+1..q-1 : mem[k] # "dquot"
  <2>1. ASSUME NEW k \in Start+1..q-1 PROVE mem[k] # "dquot"
    <3>1. k \notin Quotes /\ k \in Start+1..Len(mem)
      BY <1>1, <2>1
    <3> QED
      BY <3>1 DEF Quotes
  <2> QED
    BY <2>1 DEF Quotes
<1>3. q + 1 - 1 = q /\ q + 1 \in Nat
  BY <1>1
<1>4. IsToken(Piece(q))
  <2>1. Len(Piece(q)) = q - Start + 1 /\ \A k \in 1..Len(Piece(q)) : Piece(q)[k] = mem[Start + k - 1]
    BY <1>1, Pieces
  <2>2. ASSUME NEW k \in 1..Len(Piece(q))
        PROVE  Piece(q)[k] = "dquot" <=> k \in {1, Len(Piece(q))}
    <3>1. PICK l \in Start..q : l = Start + k - 1
      BY <1>1, <2>1, <2>2
    <3>2. Piece(q)[k] = mem[l]
      BY <2>1, <3>1
    <3>3. k = 1 <=> l = Start
      BY <1>1, <3>1
    <3>4. k = Len(Piece(q)) <=> l = q
      BY <1>1, <2>1, <3>1
    <3>5. mem[l] = "dquot" <=> l \in {Start, q}
      BY <1>1, <1>2, <3>1
    <3> QED
      BY <3>2, <3>3, <3>4, <3>5
  <2>3. Len(Piece(q)) > 1 /\ {k \in 1..Len(Piece(q)) : Piece(q)[k] = "dquot"} = {1, Len(Piece(q))}
    BY <1>1, <2>1, <2>2
  <2> QED
    BY <2>3 DEF IsToken
<1>5. ASSUME NEW j \in q+1..Len(mem), IsToken(Piece(j)) PROVE FALSE
  <2>1. j \in Start..Len(mem) /\ q \in Start..j
    BY <1>1
  <2>2. {k \in 1..Len(Piece(j)) : Piece(j)[k] = "dquot"} = {1, Len(Piece(j))}
    BY <1>5, <2>1, Pieces, StringPiece
  <2>3. q - Start + 1 \in 1..Len(Piece(j)) /\ Piece(j)[q - Start + 1] = "dquot"
    BY <1>2, <2>1, InPiece
  <2>4. Len(Piece(j)) = j - Start + 1
    BY <2>1, Pieces
  <2> QED
    BY <1>1, <2>2, <2>3, <2>4
<1> QED
  BY <1>1, <1>3, <1>4, <1>5 DEF Longest

LEMMA OneElement == ASSUME NEW s \in Seq(STRING), Len(s) = 1 PROVE s = <<s[1]>>
  OBVIOUS

\* One character, where it and the next are no operator.
LEMMA LongestAlone ==
  ASSUME Anywhere, mem[Start] \in DOMAIN Alone, <<mem[Start], NextChar>> \notin DOMAIN Both
  PROVE  /\ Start \in 1..Len(mem)-1
         /\ Longest(Start + 1) /\ Piece(Start) = <<mem[Start]>>
<1>1. Start \in 1..Len(mem)-1 /\ Len(mem) \in Nat /\ Start + 1 - 1 = Start
  BY OperatorChar, LooksAt, Memory DEF Anywhere
<1>2. IsToken(Piece(Start)) /\ Piece(Start) = <<mem[Start]>>
  <2>1. PICK j \in Start..Len(mem) : j = Start
    BY <1>1
  <2>2. /\ Len(Piece(j)) = j - Start + 1 /\ Piece(j)[1] = mem[Start]
        /\ Piece(j) \in Seq(STRING)
    BY Pieces
  <2>3. Len(Piece(j)) = 1
    BY <1>1, <2>1, <2>2
  <2>4. Piece(j) = <<mem[Start]>>
    BY <2>2, <2>3, OneElement
  <2> QED
    BY <2>1, <2>2, <2>3, <2>4 DEF IsToken
<1>3. ASSUME NEW j \in Start+1..Len(mem), IsToken(Piece(j)) PROVE FALSE
  <2>1. j \in Start..Len(mem) /\ Start + 1 \in Start..j
    BY <1>1
  <2>2. /\ Len(Piece(j)) = j - Start + 1 /\ Piece(j) \in Seq(STRING) /\ Piece(j) # <<>>
        /\ Piece(j)[1] = mem[Start]
    BY <2>1, Pieces
  <2>3. Piece(j) \in DOMAIN Both
    <3>1. Len(Piece(j)) # 1
      BY <1>1, <2>2
    <3> QED
      BY <1>3, <2>2, <3>1, OperatorPiece
  <2>4. Piece(j) = <<Piece(j)[1], Piece(j)[2]>>
    BY <2>3, OperatorChars
  <2>5. Piece(j)[2] = NextChar
    <3>1. PICK k \in Start..j : k = Start + 1
      BY <2>1
    <3>2. 2 = k - Start + 1
      BY <1>1, <3>1
    <3>3. Piece(j)[2] = mem[k]
      BY <2>1, <3>2, InPieceAt
    <3> QED
      BY <3>1, <3>3 DEF NextChar
  <2> QED
    BY <2>2, <2>3, <2>4, <2>5
<1> QED
  BY <1>1, <1>2, <1>3 DEF Longest

\* Two characters that are one operator.
LEMMA LongestBoth ==
  ASSUME Anywhere, mem[Start] \in DOMAIN Alone, <<mem[Start], NextChar>> \in DOMAIN Both
  PROVE  /\ Start + 2 \in Start+1..Len(mem)
         /\ mem[Start + 1] \notin {NUL, "dquot"} \cup Blank \cup WordChar
         /\ Longest(Start + 2) /\ Piece(Start + 1) = <<mem[Start], NextChar>>
<1>1. /\ Start \in 1..Len(mem)-1 /\ Len(mem) \in Nat /\ Start + 2 - 1 = Start + 1
      /\ mem[Len(mem)] = NUL
  BY OperatorChar, LooksAt, Memory DEF Anywhere
<1>2. mem[Start + 1] \notin {NUL, "dquot"} \cup Blank \cup WordChar
  <2>1. <<mem[Start], NextChar>>[2] = mem[Start + 1]
    BY DEF NextChar
  <2> QED
    BY <2>1, OperatorChars
<1>3. Start + 1 \in 1..Len(mem)-1
  BY <1>1, <1>2
<1>4. Start + 2 \in Start+1..Len(mem)
  BY <1>1, <1>3
<1>5. IsToken(Piece(Start + 1)) /\ Piece(Start + 1) = <<mem[Start], NextChar>>
  <2>1. PICK j \in Start..Len(mem) : j = Start + 1
    BY <1>1, <1>3
  <2>2. /\ Len(Piece(j)) = j - Start + 1 /\ Piece(j) \in Seq(STRING)
        /\ Piece(j)[1] = mem[Start]
    BY <2>1, Pieces
  <2>3. Len(Piece(j)) = 2 /\ j \in Start..j /\ 2 = j - Start + 1
    BY <1>1, <2>1, <2>2
  <2>4. Piece(j)[2] = NextChar
    BY <2>1, <2>3, InPieceAt DEF NextChar
  <2>5. Piece(j) = <<mem[Start], NextChar>>
    BY <2>2, <2>3, <2>4
  <2> QED
    BY <2>1, <2>5 DEF IsToken
<1>6. ASSUME NEW j \in Start+2..Len(mem), IsToken(Piece(j)) PROVE FALSE
  <2>1. j \in Start..Len(mem)
    BY <1>1
  <2>2. /\ Len(Piece(j)) = j - Start + 1 /\ Piece(j) \in Seq(STRING) /\ Piece(j) # <<>>
        /\ Piece(j)[1] = mem[Start]
    BY <2>1, Pieces
  <2>3. Len(Piece(j)) = 1 \/ Len(Piece(j)) = 2
    BY <1>6, <2>2, OperatorPiece
  <2> QED
    BY <1>1, <2>2, <2>3
<1> QED
  BY <1>1, <1>2, <1>3, <1>4, <1>5, <1>6 DEF Longest

-----------------------------------------------------------------------------
(***************************************************************************)
(* What a step cuts, wherever the lexer stands.                            *)
(***************************************************************************)
\* The place behind the last character a token is told by, if the pointer is
\* left at i.
ReadTo(i) == IF i = Len(text) + 1 /\ Piece(i) \in DOMAIN Both THEN i + 1 ELSE i

\* What is told of the token read up to i is what its characters say.
Told(type, i) ==
  \A t \in DOMAIN Spelling : type = t <=>
    (Piece(i - 1) = Spelling[t] \/ (t = "L_BANG_EQ" /\ Piece(i - 1) = <<"&", "=">>))

\* The token cut from Start up to i, if it is the longest and told as it is.
LEMMA CutCuts ==
  ASSUME Anywhere, NEW type, NEW i \in Start..Len(mem), Cut(type, i),
         type \in {"L_EOF", "uninitialised"} \/ Longest(ReadTo(i)),
         i > Start => Told(type, ReadTo(i))
  PROVE  Cuts'
<1>1. /\ Start \in 1..Len(mem) /\ Len(mem) \in Nat /\ i \in 1..Len(mem) /\ Len(text) \in Nat
      /\ LeftAt(i) = (Len(text) + 1 - i) % SizeMod
  BY TokenStart, Memory DEF Anywhere
<1>2. /\ text' = text /\ mem' = mem /\ at' = i /\ left' = LeftAt(i)
      /\ tok'.type = type /\ tok'.from = Start /\ tok'.to = i
  BY DEF Cut, mem
<1>3. Somewhere'
  BY <1>1, <1>2 DEF Somewhere
<1>4. LastRead' = ReadTo(i) - 1 /\ LastRead' + 1 = ReadTo(i)
  <2>1. Split' <=> i = Len(text) + 1 /\ Piece(i) \in DOMAIN Both
    BY <1>2 DEF Split, Piece
  <2> QED
    BY <1>1, <1>2, <2>1 DEF LastRead, ReadTo
<1>5. LongestMatch'
  <2>1. ASSUME type \notin {"none", "L_EOF", "uninitialised"}
        PROVE  /\ IsToken(SubSeq(mem, Start, ReadTo(i) - 1))
               /\ \A j \in ReadTo(i)..Len(mem) : ~ IsToken(SubSeq(mem, Start, j))
    BY <2>1 DEF Longest, Piece
  <2> QED
    BY <1>2, <1>4, <2>1 DEF LongestMatch
<1>6. SpelledAsTold'
  BY <1>2, <1>4 DEF SpelledAsTold, Told, Piece
<1> QED
  BY <1>3, <1>5, <1>6 DEF Cuts

\* Nothing is taken: the ends of the text, and the number with two dots.
LEMMA NothingCut ==
  ASSUME Anywhere, NEW type \in {"L_EOF", "uninitialised"}, Found(type, Start)
  PROVE  Cuts'
<1>1. Start \in Start..Len(mem) /\ ~ (Start > Start)
  BY TokenStart
<1>2. Cut(type, Start)
  BY DEF Found
<1> QED
  BY <1>1, <1>2, CutCuts

\* A string, a number or a word is no operator, and its type is none's.
LEMMA OtherCut ==
  ASSUME Anywhere, NEW type, type \notin DOMAIN Spelling, NEW i \in Start+1..Len(mem),
         mem[Start] \in {"dquot"} \cup WordChar, Cut(type, i), Longest(i)
  PROVE  Cuts'
<1>1. Start \in Nat /\ Len(mem) \in Nat
  BY TokenStart, Memory DEF Anywhere
<1>2. i \in Start..Len(mem) /\ i - 1 \in Start..Len(mem)
  BY <1>1
<1>3. Piece(i)[1] = mem[Start] /\ Piece(i - 1)[1] = mem[Start]
  BY <1>2, Pieces
<1>4. ReadTo(i) = i
  BY <1>3, OperatorChars DEF ReadTo
<1>5. \A t \in DOMAIN Spelling : Piece(i - 1) # Spelling[t]
  BY <1>3, NoOperator
<1>6. Piece(i - 1) # <<"&", "=">>
  <2>1. <<"&", "=">>[1] \notin {"dquot"} \cup WordChar
    BY DEF WordChar, Letter, Digit
  <2> QED
    BY <1>3, <2>1
<1>7. Told(type, i)
  BY <1>5, <1>6 DEF Told
<1> QED
  BY <1>2, <1>4, <1>7, CutCuts

\* An operator that reaches behind the text is told all the same; the second
\* character is taken if the first was not the last of the text.
LEMMA OperatorCut ==
  ASSUME Anywhere, Operator
  PROVE  Cuts'
<1>1. Ahead = mem[Start] /\ mem[Start] \in DOMAIN Alone
  <2>1. NUL \notin DOMAIN Alone
    BY OperatorChar
  <2> QED
    BY <2>1, LooksAt DEF Operator
<1>2. Start \in 1..Len(mem)-1 /\ Len(mem) \in Nat /\ Len(text) \in Nat
  <2>1. mem[Start] # NUL
    BY <1>1, OperatorChar
  <2> QED
    BY <2>1, LooksAt, Memory DEF Anywhere
<1>3. Piece(Start + 1) = <<mem[Start], NextChar>>
  <2>1. PICK j \in Start..Len(mem) : j = Start + 1
    BY <1>2
  <2>2. /\ Piece(j) \in Seq(STRING) /\ Len(Piece(j)) = j - Start + 1
        /\ Piece(j)[1] = mem[Start]
    BY Pieces
  <2>3. j \in Start..j /\ 2 = j - Start + 1
    BY <1>2, <2>1
  <2>4. Piece(j)[2] = NextChar
    BY <2>1, <2>3, InPieceAt DEF NextChar
  <2>5. Len(Piece(j)) = 2
    BY <2>2, <2>3
  <2> QED
    BY <2>1, <2>2, <2>4, <2>5
<1>4. CASE <<mem[Start], NextChar>> \in DOMAIN Both
  <2> DEFINE i == SecondTaken
  <2>1. i = IF Start + 1 = Len(text) + 1 THEN Start + 1 ELSE Start + 2
    BY <1>2, NoneLeft DEF SecondTaken
  <2>2. Start + 2 \in Start+1..Len(mem) /\ Longest(Start + 2)
    BY <1>1, <1>4, LongestBoth
  <2>3. i \in Start..Len(mem)
    BY <1>2, <2>1, <2>2
  <2>4. ReadTo(i) = Start + 2
    <3>1. CASE Start + 1 = Len(text) + 1
      BY <1>2, <1>3, <1>4, <2>1, <3>1 DEF ReadTo
    <3>2. CASE Start + 1 # Len(text) + 1
      <4>1. PICK j \in Start..Len(mem) : j = Start + 2
        BY <1>2, <2>2
      <4>2. Len(Piece(j)) = j - Start + 1
        BY Pieces
      <4>3. j - Start + 1 = 3
        BY <1>2, <4>1
      <4>4. \A s \in DOMAIN Both : Len(s) # 3
        BY OperatorChars
      <4>5. Piece(j) \notin DOMAIN Both
        <5>1. Len(Piece(j)) = 3
          BY <4>2, <4>3
        <5> QED
          BY <4>4, <5>1
      <4> QED
        BY <2>1, <3>2, <4>1, <4>5 DEF ReadTo
    <3> QED
      BY <3>1, <3>2
  <2>5. Told(Both[<<mem[Start], NextChar>>], Start + 2)
    <3>1. Piece((Start + 2) - 1) = <<mem[Start], NextChar>>
      BY <1>2, <1>3
    <3> QED
      BY <1>4, <3>1, TwoSpelled DEF Told
  <2>6. Cut(Both[<<mem[Start], NextChar>>], i)
    BY <1>1, <1>4 DEF Operator, Found
  <2> HIDE DEF i
  <2> QED
    BY <2>2, <2>3, <2>4, <2>5, <2>6, CutCuts
<1>5. CASE <<mem[Start], NextChar>> \notin DOMAIN Both
  <2>1. Longest(Start + 1) /\ Piece(Start) = <<mem[Start]>>
    BY <1>1, <1>5, LongestAlone
  <2>2. Start + 1 \in Start..Len(mem) /\ (Start + 1) - 1 = Start
    BY <1>2
  <2>3. ReadTo(Start + 1) = Start + 1
    BY <1>3, <1>5 DEF ReadTo
  <2>4. Told(Alone[mem[Start]], Start + 1)
    <3>1. Piece((Start + 1) - 1) = Piece(Start)
      BY <2>2
    <3>2. <<mem[Start]>> # <<"&", "=">>
      OBVIOUS
    <3> QED
      BY <1>1, <2>1, <3>1, <3>2, OneSpelled DEF Told
  <2>5. Cut(Alone[mem[Start]], Start + 1)
    BY <1>1, <1>5 DEF Operator, Found
  <2> QED
    BY <2>1, <2>2, <2>3, <2>4, <2>5, CutCuts
<1> QED
  BY <1>4, <1>5

LEMMA StringCut ==
  ASSUME Anywhere, String
  PROVE  Cuts'
<1>1. mem[Start] = "dquot"
  BY LooksAt, Classes DEF String
<1>2. PICK q \in Quotes : (\A k \in Quotes : q =< k) /\ Found("L_STRING", q + 1)
  BY DEF String
<1>3. q \in Start+1..Len(mem)-1 /\ Longest(q + 1)
  BY <1>1, <1>2, LongestString
<1>4. q + 1 \in Start+1..Len(mem)
  BY <1>3, TokenStart, Memory DEF Anywhere
<1>5. Cut("L_STRING", q + 1)
  BY <1>2 DEF Found
<1> QED
  BY <1>1, <1>3, <1>4, <1>5, NoOperator, OtherCut

LEMMA NumberCut ==
  ASSUME Anywhere, Number
  PROVE  Cuts'
<1>1. mem[Start] \in Digit
  BY LooksAt, Classes DEF Number
<1>2. NumberEnd \in Start+1..Len(mem) /\ Longest(NumberEnd)
  BY <1>1, LongestNumber DEF Number
<1>3. PICK type \in {"L_FLOAT", "L_INTEGER"} : Cut(type, NumberEnd)
  BY DEF Number, Found
<1> QED
  BY <1>1, <1>2, <1>3, NoOperator, OtherCut DEF WordChar

LEMMA WordCut ==
  ASSUME Anywhere, Word
  PROVE  Cuts'
<1>1. mem[Start] \in Letter
  BY LooksAt, Classes DEF Word
<1>2. WordEnd \in Start+1..Len(mem) /\ Longest(WordEnd)
  BY <1>1, LongestWord
<1>3. PICK type : Cut(type, WordEnd) /\ type \notin DOMAIN Spelling
  BY NoOperator DEF Word
<1> QED
  BY <1>1, <1>2, <1>3, OtherCut DEF WordChar

\* In a string that nothing closes, nothing is told any more.
LEMMA NoQuoteCut ==
  ASSUME Cuts, NoQuote
  PROVE  Cuts'
<1>1. mem' = mem /\ text' = text /\ at' = at /\ left' = left /\ tok' = tok
  BY DEF NoQuote, mem
<1> QED
  BY <1>1 DEF Cuts, Somewhere, LongestMatch, SpelledAsTold, LastRead, Split

-----------------------------------------------------------------------------
(***************************************************************************)
(* Before a step in a text the lexer does not leave: where the next token  *)
(* begins, and on which line.                                              *)
(***************************************************************************)
\* A text the lexer does not leave, at a place in it.
Good == Anywhere /\ Contained /\ Within

\* There the token begins in the text or right behind it.
LEMMA StartInside ==
  ASSUME Good
  PROVE  /\ Start \in at..Len(text)+1 /\ Start \in 1..Len(text)+1 /\ Start \in Nat
         /\ mem[Start] \notin Blank /\ \A k \in at..Start-1 : mem[k] \in Blank
<1>1. /\ at \in 1..Len(text)+1 /\ at \in 1..Len(mem) /\ Len(text) \in Nat /\ Len(mem) \in Nat
      /\ Contained
  BY Memory DEF Good, Anywhere, Somewhere, Within
<1>2. NUL \notin Blank
  BY Classes
<1>3. Start =< Len(text) + 1
  BY <1>1, <1>2, StopsInside DEF Good, Anywhere, Start
<1> QED
  BY <1>1, <1>3, TokenStart DEF Good

\* It is in the text if the end is not reached, and what is read from there on
\* stops in time.
LEMMA EndsInside ==
  ASSUME Good, ~ AtEnd
  PROVE  /\ Start \in 1..Len(text)
         /\ \A set : NUL \notin set => Stop(set, Start) =< Len(text) + 1
<1>1. /\ Start \in 1..Len(text)+1 /\ Start \in 1..Len(mem) /\ Len(text) \in Nat
      /\ Start # Len(text) + 1
  BY StartInside, TokenStart, LooksAt, Memory DEF Good, Anywhere
<1> QED
  BY <1>1, StopsInside DEF Good, Anywhere

\* The quotes that are left, if none was passed.
LEMMA QuotesKept ==
  ASSUME Good, NEW i \in at..Len(text)+1, \A k \in at..i-1 : mem[k] # "dquot"
  PROVE  Cardinality(QuotesFrom(i)) % 2 = 0
<1>1. at \in 1..Len(text)+1 /\ Len(text) \in Nat
  BY Memory DEF Good, Anywhere, Within
<1>2. QuotesFrom(i) = QuotesFrom(at)
  BY <1>1 DEF QuotesFrom
<1> QED
  BY <1>2 DEF Good, Anywhere, Within

LEMMA BreaksFinite ==
  ASSUME NEW n \in Nat
  PROVE  IsFiniteSet(LineBreaks(n)) /\ Cardinality(LineBreaks(n)) \in Nat
<1>1. IsFiniteSet(1..n)
  BY FS_Interval
<1>2. LineBreaks(n) \subseteq 1..n
  BY DEF LineBreaks
<1> QED
  BY <1>1, <1>2, FS_Subset, FS_CardinalityType

\* Line breaks further on can only be more.
LEMMA MoreBreaks ==
  ASSUME NEW m \in Nat, NEW n \in Nat, m =< n
  PROVE  Cardinality(LineBreaks(m)) =< Cardinality(LineBreaks(n))
<1>1. LineBreaks(m) \subseteq LineBreaks(n)
  BY DEF LineBreaks
<1> QED
  BY <1>1, BreaksFinite, FS_Subset

\* Those up to a place are those up to an earlier one and those between.
LEMMA BreaksBetween ==
  ASSUME NEW m \in Nat, NEW n \in Nat, m =< n
  PROVE  /\ Breaks(m + 1, n) \in Nat
         /\ Cardinality(LineBreaks(n)) = Cardinality(LineBreaks(m)) + Breaks(m + 1, n)
<1> DEFINE Between == {k \in m+1..n : mem[k] = "newline"}
<1>1. IsFiniteSet(Between)
  <2>1. IsFiniteSet(m+1..n)
    BY FS_Interval
  <2> QED
    BY <2>1, FS_Subset
<1>2. LineBreaks(n) = LineBreaks(m) \cup Between /\ LineBreaks(m) \cap Between = {}
  BY DEF LineBreaks
<1>3. Breaks(m + 1, n) = Cardinality(Between)
  BY DEF Breaks
<1>4. Cardinality({}) = 0
  BY FS_EmptySet
<1> HIDE DEF Between
<1>5. Cardinality(LineBreaks(n)) = Cardinality(LineBreaks(m)) + Cardinality(Between) - 0
  BY <1>1, <1>2, <1>4, BreaksFinite, FS_Union
<1> QED
  BY <1>1, <1>3, <1>5, BreaksFinite, FS_CardinalityType

\* The line told for the token is the line it stands on, where the text is fair.
LEMMA StartCounted ==
  ASSUME Good
  PROVE  /\ Counted(Start, LineAtStart) /\ LineBreaks(Start) = LineBreaks(Start - 1)
         /\ LineAtStart \in Nat
<1>1. at \in 1..Len(text)+1 /\ Len(text) \in Nat /\ Counted(at, line)
  BY Memory DEF Good, Anywhere, Within
<1>2. Start \in at..Len(text)+1 /\ Start \in Nat /\ mem[Start] \notin Blank
  BY StartInside
<1>3. mem[Start] # "newline"
  BY <1>2, Classes
<1>4. LineBreaks(Start) = LineBreaks(Start - 1)
  BY <1>1, <1>2, <1>3 DEF LineBreaks
<1>5. CASE Start = at
  <2>1. {k \in at+1..Start-1 : mem[k] = "newline"} = {}
    BY <1>1, <1>5
  <2>2. Breaks(at + 1, Start - 1) = 0
    BY <2>1, FS_EmptySet DEF Breaks
  <2> QED
    BY <1>1, <1>4, <1>5, <2>2 DEF LineAtStart, Counted
<1>6. CASE Start > at
  <2>1. /\ Breaks(at + 1, Start - 1) \in Nat
        /\ Cardinality(LineBreaks(Start - 1)) =
             Cardinality(LineBreaks(at)) + Breaks(at + 1, Start - 1)
    <3>1. at \in Nat /\ Start - 1 \in Nat /\ at =< Start - 1
      BY <1>1, <1>2, <1>6
    <3> QED
      BY <3>1, BreaksBetween
  <2>2. Fair(Start) => Fair(at)
    BY <1>1, <1>2 DEF Fair, LineBreaks
  <2>3. at \in Nat /\ Cardinality(LineBreaks(at)) \in Nat
    BY <1>1, BreaksFinite
  <2> QED
    BY <1>1, <1>4, <2>1, <2>2, <2>3 DEF LineAtStart, Counted
<1>7. Start = at \/ Start > at
  BY <1>1, <1>2
<1> QED
  BY <1>4, <1>5, <1>6, <1>7 DEF Counted

\* A token that is no word: the line counted is that of its start, and the
\* line break right behind it, if there is one, is no fair one.
LEMMA LaterCounted ==
  ASSUME Good, NEW i \in Start..Len(text)+1,
         Fair(i) => \A k \in Start+1..i : mem[k] # "newline"
  PROVE  Counted(i, LineAtStart)
<1>1. Len(text) \in Nat /\ Start \in Nat /\ i \in Nat /\ Start =< i
  BY StartInside, Memory DEF Good, Anywhere
<1>2. Counted(Start, LineAtStart)
  BY StartCounted
<1>3. Cardinality(LineBreaks(Start)) =< Cardinality(LineBreaks(i))
  BY <1>1, MoreBreaks
<1>4. Cardinality(LineBreaks(Start)) \in Nat /\ Cardinality(LineBreaks(i)) \in Nat
  BY <1>1, BreaksFinite
<1>5. ASSUME Fair(i) PROVE LineAtStart = Cardinality(LineBreaks(i))
  <2>1. LineBreaks(i) = LineBreaks(Start)
    BY <1>1, <1>5 DEF LineBreaks
  <2>2. Fair(Start)
    BY <1>1, <1>5 DEF Fair, LineBreaks
  <2> QED
    BY <1>2, <2>1, <2>2 DEF Counted
<1> QED
  BY <1>2, <1>3, <1>4, <1>5 DEF Counted

\* A word has no line break in it, and counts the one right behind it.
LEMMA WordCounted ==
  ASSUME Good, NEW i \in Start..Len(text)+1, \A k \in Start..i-1 : mem[k] # "newline"
  PROVE  Counted(i, LineAtStart + Breaks(i, i))
<1>1. Len(text) \in Nat /\ Start \in Nat /\ i \in Nat /\ Start =< i /\ Start >= 1
  BY StartInside, Memory DEF Good, Anywhere
<1>2. Counted(Start, LineAtStart) /\ LineBreaks(Start) = LineBreaks(Start - 1)
  BY StartCounted
<1>3. i - 1 \in Nat /\ LineBreaks(i - 1) = LineBreaks(Start - 1)
  BY <1>1 DEF LineBreaks
<1>4. /\ Breaks(i, i) \in Nat
      /\ Cardinality(LineBreaks(i)) = Cardinality(LineBreaks(Start)) + Breaks(i, i)
  <2>1. (i - 1) + 1 = i /\ i - 1 =< i
    BY <1>1
  <2> QED
    BY <1>1, <1>2, <1>3, <2>1, BreaksBetween
<1>5. Cardinality(LineBreaks(Start)) \in Nat
  BY <1>1, BreaksFinite
<1>6. Fair(i) => Fair(Start)
  BY <1>1 DEF Fair, LineBreaks
<1> QED
  BY <1>2, <1>4, <1>5, <1>6 DEF Counted

\* What LineNumber asks of a token is what is known of its start.
LEMMA StartTold ==
  ASSUME Good
  PROVE  LET breaks == {k \in 1..Start-1 : text[k] = "newline"} IN
         /\ LineAtStart =< Cardinality(breaks)
         /\ (\A k \in breaks : k > 1 /\ text[k-1] \in Blank \cup Letter)
              /\ (\A k \in 1..Start-1 : text[k] # "dquot")
            => LineAtStart = Cardinality(breaks)
<1> DEFINE breaks == {k \in 1..Start-1 : text[k] = "newline"}
<1>1. /\ Len(text) \in Nat /\ Start \in 1..Len(text)+1
      /\ \A k \in 1..Len(text) : mem[k] = text[k]
  BY StartInside, Memory DEF Good, Anywhere
<1>2. Counted(Start, LineAtStart) /\ LineBreaks(Start) = LineBreaks(Start - 1)
  BY StartCounted
<1>3. breaks = LineBreaks(Start)
  <2>1. breaks = LineBreaks(Start - 1)
    BY <1>1 DEF LineBreaks
  <2> QED
    BY <1>2, <2>1
<1>4. ASSUME \A k \in breaks : k > 1 /\ text[k-1] \in Blank \cup Letter,
             \A k \in 1..Start-1 : text[k] # "dquot"
      PROVE  Fair(Start)
  <2>1. \A k \in 1..Start-1 : mem[k] # "dquot"
    BY <1>1, <1>4
  <2>2. ASSUME NEW k \in LineBreaks(Start)
        PROVE  k > 1 /\ mem[k-1] \in Blank \cup Letter
    <3>1. k \in breaks /\ k \in 1..Start-1 /\ k > 1 /\ text[k-1] \in Blank \cup Letter
      BY <1>3, <1>4, <2>2
    <3>2. k - 1 \in 1..Len(text)
      BY <1>1, <3>1
    <3> QED
      BY <1>1, <3>1, <3>2
  <2> QED
    BY <2>1, <2>2 DEF Fair
<1> HIDE DEF breaks
<1>5. LineAtStart =< Cardinality(breaks)
  BY <1>2, <1>3 DEF Counted
<1>6. Fair(Start) => LineAtStart = Cardinality(breaks)
  BY <1>2, <1>3 DEF Counted
<1> QED
  BY <1>4, <1>5, <1>6 DEF breaks

\* A token cut from Start up to i leaves the lexer where it should be.
LEMMA CutKeeps ==
  ASSUME Good, NEW type, NEW i \in Start..Len(text)+1, Cut(type, i),
         Cardinality(QuotesFrom(i)) % 2 = 0, Counted(i, line')
  PROVE  Within' /\ LineNumber'
<1>1. at \in 1..Len(text)+1 /\ Len(text) \in Nat /\ lost = FALSE
  BY Memory DEF Good, Anywhere, Within
<1>2. Start \in at..Len(text)+1
  BY StartInside
<1>3. text' = text /\ lost' = lost /\ mem' = mem /\ at' = i
  BY DEF Cut, mem
<1>4. Within'
  <2>1. QuotesFrom(at)' = QuotesFrom(i)
    BY <1>3 DEF QuotesFrom
  <2>2. Counted(at, line)'
    BY <1>3 DEF Counted, Fair, LineBreaks
  <2>3. i \in 1..Len(text)+1
    BY <1>1, <1>2
  <2> QED
    BY <1>1, <1>3, <2>1, <2>2, <2>3 DEF Within
<1>5. LineNumber'
  <2>1. tok'.from = Start /\ tok'.line = LineAtStart
    BY DEF Cut
  <2> QED
    BY <1>3, <2>1, StartTold DEF LineNumber
<1> QED
  BY <1>4, <1>5

\* An even number of quotes is left: behind one there is another, and an even
\* number behind that.
LEMMA StringCloses ==
  ASSUME Good, ~ AtEnd, mem[Start] = "dquot"
  PROVE  /\ \E k \in Quotes : k =< Len(text)
         /\ \A q \in Quotes : (\A k \in Quotes : q =< k) =>
              q \in Start+1..Len(text) /\ Cardinality(QuotesFrom(q + 1)) % 2 = 0
<1>1. /\ Start \in 1..Len(text) /\ Len(text) \in Nat /\ Len(mem) \in Nat
      /\ Len(text) + 1 =< Len(mem)
  BY EndsInside, Memory DEF Good, Anywhere
<1>2. at \in Nat /\ Start \in at..Len(text)+1 /\ \A k \in at..Start-1 : mem[k] # "dquot"
  <2>1. at \in Nat
    BY <1>1 DEF Good, Anywhere, Within
  <2> QED
    BY <2>1, StartInside, Classes
<1>3. Cardinality(QuotesFrom(Start)) % 2 = 0
  BY <1>2, QuotesKept
<1>4. \A n \in Nat : IsFiniteSet(QuotesFrom(n)) /\ Cardinality(QuotesFrom(n)) \in Nat
  <2> TAKE n \in Nat
  <2>1. IsFiniteSet(n..Len(text))
    BY <1>1, FS_Interval
  <2> QED
    BY <2>1, FS_Subset, FS_CardinalityType DEF QuotesFrom
<1>5. /\ QuotesFrom(Start) = QuotesFrom(Start + 1) \cup {Start}
      /\ Start \notin QuotesFrom(Start + 1)
  BY <1>1 DEF QuotesFrom
<1>6. Cardinality(QuotesFrom(Start)) = Cardinality(QuotesFrom(Start + 1)) + 1
  <2>1. Start + 1 \in Nat
    BY <1>1
  <2>2. IsFiniteSet(QuotesFrom(Start + 1))
    BY <1>4, <2>1
  <2> QED
    BY <1>5, <2>2, FS_AddElement
<1>7. QuotesFrom(Start + 1) # {}
  <2>1. SUFFICES ASSUME QuotesFrom(Start + 1) = {} PROVE FALSE
    OBVIOUS
  <2>2. Cardinality(QuotesFrom(Start)) = 1
    BY <1>6, <2>1, FS_EmptySet
  <2> QED
    BY <1>3, <2>2
<1>8. PICK k \in QuotesFrom(Start + 1) : TRUE
  BY <1>7
<1>9. k \in Quotes /\ k =< Len(text)
  BY <1>1, <1>8 DEF QuotesFrom, Quotes
<1>10. ASSUME NEW q \in Quotes, \A l \in Quotes : q =< l
       PROVE  q \in Start+1..Len(text) /\ Cardinality(QuotesFrom(q + 1)) % 2 = 0
  <2>1. q \in Start+1..Len(text) /\ mem[q] = "dquot"
    BY <1>1, <1>9, <1>10 DEF Quotes
  <2>2. QuotesFrom(Start + 1) = QuotesFrom(q + 1) \cup {q} /\ q \notin QuotesFrom(q + 1)
    <3>1. ASSUME NEW l \in Start+1..q-1 PROVE mem[l] # "dquot"
      <4>1. l \notin Quotes
        BY <1>1, <1>10, <2>1, <3>1
      <4> QED
        BY <1>1, <2>1, <4>1 DEF Quotes
    <3> QED
      BY <1>1, <2>1, <3>1 DEF QuotesFrom
  <2>3. q + 1 \in Nat
    BY <1>1, <2>1
  <2>4. Cardinality(QuotesFrom(Start + 1)) = Cardinality(QuotesFrom(q + 1)) + 1
    BY <1>4, <2>2, <2>3, FS_AddElement
  <2>5. Cardinality(QuotesFrom(q + 1)) \in Nat
    BY <1>4, <2>3
  <2>6. (Cardinality(QuotesFrom(q + 1)) + 2) % 2 = 0
    BY <1>3, <1>6, <2>4, <2>5
  <2>7. \A n \in Nat : (n + 2) % 2 = 0 => n % 2 = 0
    OBVIOUS
  <2> QED
    BY <2>1, <2>5, <2>6, <2>7
<1> QED
  BY <1>9, <1>10

-----------------------------------------------------------------------------
(***************************************************************************)
(* The steps in a text the lexer does not leave.                           *)
(***************************************************************************)
\* Every token but a word.
LEMMA FoundKeeps ==
  ASSUME Good, NEW type, NEW i \in Start..Len(text)+1, Found(type, i),
         Cardinality(QuotesFrom(i)) % 2 = 0,
         Fair(i) => \A k \in Start+1..i : mem[k] # "newline"
  PROVE  Within' /\ LineNumber'
<1>1. Cut(type, i) /\ line' = LineAtStart
  BY DEF Found
<1>2. Counted(i, line')
  BY <1>1, LaterCounted
<1> QED
  BY <1>1, <1>2, CutKeeps

\* The ends of the text, and the number with two dots: nothing is taken.
LEMMA NothingTaken ==
  ASSUME Good, NEW type, Found(type, Start)
  PROVE  Within' /\ LineNumber'
<1>1. /\ Len(text) \in Nat /\ Start \in Nat /\ Start \in at..Len(text)+1
      /\ \A k \in at..Start-1 : mem[k] # "dquot"
  BY StartInside, Memory, Classes DEF Good, Anywhere
<1>2. Cardinality(QuotesFrom(Start)) % 2 = 0
  BY <1>1, QuotesKept
<1>3. /\ Start \in Start..Len(text)+1
      /\ \A k \in Start+1..Start : mem[k] # "newline"
  BY <1>1
<1> QED
  BY <1>2, <1>3, FoundKeeps

\* A token without a quote in it, the last character of which is no blank and
\* no letter.
LEMMA PlainToken ==
  ASSUME Good, NEW type, NEW i \in Start+1..Len(text)+1, Found(type, i),
         \A k \in Start..i-1 : mem[k] \notin {"dquot"} \cup Blank \cup Letter
  PROVE  Within' /\ LineNumber'
<1>1. /\ Len(text) \in Nat /\ at \in Nat /\ Start \in 1..Len(text)+1 /\ Start \in at..Len(text)+1
      /\ \A k \in at..Start-1 : mem[k] # "dquot"
  <2>1. Len(text) \in Nat /\ at \in 1..Len(text)+1
    BY Memory DEF Good, Anywhere, Within
  <2> QED
    BY <2>1, StartInside, Classes
<1>2. i \in at..Len(text)+1 /\ i \in Start..Len(text)+1
  BY <1>1
<1>3. Cardinality(QuotesFrom(i)) % 2 = 0
  <2>1. \A k \in at..i-1 : k \in at..Start-1 \/ k \in Start..i-1
    BY <1>1
  <2>2. \A k \in at..i-1 : mem[k] # "dquot"
    BY <1>1, <2>1
  <2> QED
    BY <1>2, <2>2, QuotesKept
<1>4. ASSUME Fair(i), NEW k \in Start+1..i PROVE mem[k] # "newline"
  <2>1. k - 1 \in Start..i-1 /\ k \in 1..i
    BY <1>1, <1>4
  <2>2. mem[k - 1] \notin Blank \cup Letter
    BY <2>1
  <2> QED
    BY <1>4, <2>1, <2>2 DEF Fair, LineBreaks
<1> QED
  BY <1>2, <1>3, <1>4, FoundKeeps

LEMMA StringStep ==
  ASSUME Good, String
  PROVE  Within' /\ LineNumber'
<1>1. ~ AtEnd /\ mem[Start] = "dquot"
  BY LooksAt, Classes DEF Good, String
<1>2. PICK q \in Quotes : (\A k \in Quotes : q =< k) /\ Found("L_STRING", q + 1)
  BY DEF String
<1>3. q \in Start+1..Len(text) /\ Cardinality(QuotesFrom(q + 1)) % 2 = 0
  BY <1>1, <1>2, StringCloses
<1>4. Start \in 1..Len(text) /\ Len(text) \in Nat
  BY <1>1, EndsInside, Memory DEF Good, Anywhere
<1>5. q + 1 \in Start..Len(text)+1 /\ Start \in 1..(q + 1)-1
  BY <1>3, <1>4
<1>6. ~ Fair(q + 1)
  BY <1>1, <1>5 DEF Fair
<1> QED
  BY <1>2, <1>3, <1>5, <1>6, FoundKeeps

\* A string that is not closed is not met.
LEMMA NoQuoteStep == Good => ~ NoQuote
<1> SUFFICES ASSUME Good, NoQuote PROVE FALSE
  OBVIOUS
<1>1. ~ AtEnd /\ mem[Start] = "dquot"
  BY LooksAt, Classes DEF Good, NoQuote
<1> QED
  BY <1>1, StringCloses DEF NoQuote

LEMMA NumberStep ==
  ASSUME Good, Number
  PROVE  Within' /\ LineNumber'
<1>1. ~ AtEnd /\ mem[Start] \in Digit
  BY LooksAt, Classes DEF Good, Number
<1>2. /\ NumberEnd \in Start+1..Len(text)+1
      /\ \A k \in Start..NumberEnd-1 : mem[k] \in Digit \cup {"."}
  <2>1. /\ NumberEnd \in Start+1..Len(mem)
        /\ \A k \in Start..NumberEnd-1 : mem[k] \in Digit \cup {"."}
    BY <1>1, LongestNumber DEF Good
  <2>2. NumberEnd =< Len(text) + 1
    BY <1>1, Classes, EndsInside DEF NumberEnd
  <2> QED
    BY <2>1, <2>2, StartInside, Memory DEF Good, Anywhere
<1>3. \A k \in Start..NumberEnd-1 : mem[k] \notin {"dquot"} \cup Blank \cup Letter
  BY <1>2, Classes
<1>4. PICK type : Found(type, NumberEnd)
  BY DEF Number
<1> QED
  BY <1>2, <1>3, <1>4, PlainToken

\* An operator ends in the text: behind it is a zero byte.
LEMMA OperatorStep ==
  ASSUME Good, Operator
  PROVE  Within' /\ LineNumber'
<1>1. ~ AtEnd /\ Ahead = mem[Start] /\ mem[Start] \in DOMAIN Alone
  <2>1. NUL \notin DOMAIN Alone
    BY OperatorChar
  <2> QED
    BY <2>1, LooksAt DEF Good, Operator
<1>2. mem[Start] \notin {"dquot"} \cup Blank \cup Letter
  BY <1>1, OperatorChar DEF WordChar
<1>3. Start \in 1..Len(text) /\ Len(text) \in Nat /\ mem[Len(text) + 1] = NUL
  BY <1>1, EndsInside, Memory DEF Good, Anywhere
<1>4. CASE <<mem[Start], NextChar>> \in DOMAIN Both
  <2>1. mem[Start + 1] \notin {NUL, "dquot"} \cup Blank \cup WordChar
    BY <1>1, <1>4, LongestBoth DEF Good
  <2>2. Start + 2 \in Start+1..Len(text)+1
    BY <1>3, <2>1
  <2>3. SecondTaken = Start + 2
    <3>1. Start + 1 \in 1..Len(mem) /\ Start + 1 # Len(text) + 1
      BY <1>3, <2>2, Memory DEF Good, Anywhere
    <3> QED
      BY <3>1, NoneLeft DEF Good, SecondTaken
  <2>4. Found(Both[<<mem[Start], NextChar>>], Start + 2)
    BY <1>1, <1>4, <2>3 DEF Operator
  <2>5. \A k \in Start..(Start + 2)-1 : k = Start \/ k = Start + 1
    BY <1>3
  <2>6. \A k \in Start..(Start + 2)-1 : mem[k] \notin {"dquot"} \cup Blank \cup Letter
    BY <1>2, <2>1, <2>5 DEF WordChar
  <2> QED
    BY <2>2, <2>4, <2>6, PlainToken
<1>5. CASE <<mem[Start], NextChar>> \notin DOMAIN Both
  <2>1. Found(Alone[mem[Start]], Start + 1)
    BY <1>1, <1>5 DEF Operator
  <2>2. Start + 1 \in Start+1..Len(text)+1
    BY <1>3
  <2>3. \A k \in Start..(Start + 1)-1 : k = Start
    BY <1>3
  <2>4. \A k \in Start..(Start + 1)-1 : mem[k] \notin {"dquot"} \cup Blank \cup Letter
    BY <1>2, <2>3
  <2> QED
    BY <2>1, <2>2, <2>4, PlainToken
<1> QED
  BY <1>4, <1>5

LEMMA WordStep ==
  ASSUME Good, Word
  PROVE  Within' /\ LineNumber'
<1>1. ~ AtEnd /\ mem[Start] \in Letter
  <2>1. NUL \notin Letter
    BY Classes
  <2> QED
    BY <2>1, LooksAt DEF Good, Word
<1>2. /\ WordEnd \in Start+1..Len(text)+1
      /\ \A k \in Start..WordEnd-1 : mem[k] \in WordChar
  <2>1. /\ WordEnd \in Start+1..Len(mem)
        /\ \A k \in Start..WordEnd-1 : mem[k] \in WordChar
    BY <1>1, LongestWord DEF Good
  <2>2. WordEnd =< Len(text) + 1
    BY <1>1, Classes, EndsInside DEF WordEnd
  <2> QED
    BY <2>1, <2>2, StartInside, Memory DEF Good, Anywhere
<1>3. PICK type : Cut(type, WordEnd)
  BY DEF Word
<1>4. line' = LineAtStart + Breaks(WordEnd, WordEnd)
  BY DEF Word
<1>5. /\ Len(text) \in Nat /\ at \in Nat /\ Start \in at..Len(text)+1 /\ Start \in Nat
      /\ \A k \in at..Start-1 : mem[k] # "dquot"
  <2>1. Len(text) \in Nat /\ at \in 1..Len(text)+1
    BY Memory DEF Good, Anywhere, Within
  <2> QED
    BY <2>1, StartInside, Classes
<1>6. WordEnd \in at..Len(text)+1 /\ WordEnd \in Start..Len(text)+1
  BY <1>2, <1>5
<1>7. Cardinality(QuotesFrom(WordEnd)) % 2 = 0
  <2>1. \A k \in at..WordEnd-1 : k \in at..Start-1 \/ k \in Start..WordEnd-1
    BY <1>5
  <2>2. \A k \in at..WordEnd-1 : mem[k] # "dquot"
    BY <1>2, <1>5, <2>1, Classes
  <2> QED
    BY <1>6, <2>2, QuotesKept
<1>8. Counted(WordEnd, line')
  <2>1. \A k \in Start..WordEnd-1 : mem[k] # "newline"
    BY <1>2, Classes
  <2> QED
    BY <1>4, <1>6, <2>1, WordCounted
<1> QED
  BY <1>3, <1>6, <1>7, <1>8, CutKeeps

-----------------------------------------------------------------------------
(***************************************************************************)
(* The theorems.                                                           *)
(***************************************************************************)
\* Before the first call all quotes are left and no line has been counted.
LEMMA InitInv == Init => Inv
<1> SUFFICES ASSUME Init PROVE Inv
  OBVIOUS
<1>1. text \in Texts /\ beyond \in Beyonds
  BY DEF Init
<1>2. ASSUME Contained PROVE Within
  <2>1. /\ Len(text) \in Nat /\ mem[Len(text) + 1] = NUL
        /\ \A k \in 1..Len(text) : mem[k] = text[k]
    BY <1>1, <1>2, Memory
  <2>2. at \in 1..Len(text)+1 /\ lost = FALSE
    BY <2>1 DEF Init
  <2>3. Cardinality(QuotesFrom(at)) % 2 = 0
    <3>1. QuotesFrom(at) = {k \in 1..Len(text) : text[k] = "dquot"}
      BY <2>1 DEF Init, QuotesFrom
    <3> QED
      BY <1>2, <3>1 DEF Contained
  <2>4. Counted(at, line)
    <3>1. at = 1 /\ line = 0 /\ at \in Nat
      BY DEF Init
    <3>2. Cardinality(LineBreaks(at)) \in Nat
      BY <3>1, BreaksFinite
    <3>3. ASSUME Fair(at) PROVE Cardinality(LineBreaks(at)) = 0
      <4>1. LineBreaks(at) = {}
        BY <3>1, <3>3 DEF Fair, LineBreaks
      <4> QED
        BY <4>1, FS_EmptySet
    <3> QED
      BY <3>1, <3>2, <3>3 DEF Counted
  <2> QED
    BY <2>2, <2>3, <2>4 DEF Within
<1>3. LineNumber
  <2>1. tok.from = 1 /\ tok.line = 0
    BY DEF Init
  <2>2. {i \in 1..tok.from-1 : text[i] = "newline"} = {}
    BY <2>1
  <2> QED
    BY <2>1, <2>2, FS_EmptySet DEF LineNumber
<1>4. Somewhere
  <2>1. /\ Len(text) \in Nat /\ Len(mem) \in Nat /\ SizeMod \in Nat
        /\ Len(text) + 1 =< Len(mem) /\ Len(mem) < SizeMod
    BY <1>1, Memory
  <2>2. Len(text) \in 0..SizeMod-1 /\ Len(text) + 1 - 1 = Len(text)
    BY <2>1
  <2>3. Len(text) % SizeMod = Len(text)
    BY <2>1, <2>2, Remainders
  <2> QED
    BY <2>1, <2>2, <2>3 DEF Init, Somewhere
<1>5. LongestMatch /\ SpelledAsTold
  BY DEF Init, LongestMatch, SpelledAsTold
<1> QED
  BY <1>1, <1>2, <1>3, <1>4, <1>5 DEF Inv, Cuts

\* Every step cuts as it should, and in a text the lexer does not leave it goes
\* on to where it should.
LEMMA StepInv == Inv /\ [Next]_vars => Inv'
<1> SUFFICES ASSUME Inv, [Next]_vars PROVE Inv'
  OBVIOUS
<1>1. text' = text /\ beyond' = beyond
  BY DEF Next, vars, EndOfText, String, NoQuote, Number, BadNumber, Operator, Word,
         Strange, Found, Cut
<1>2. Anywhere
  BY DEF Inv, Cuts, Anywhere
<1>3. CASE Next
  <2>1. Cuts'
    <3>1. CASE EndOfText
      BY <1>2, <3>1, NothingCut DEF EndOfText
    <3>2. CASE String
      BY <1>2, <3>2, StringCut
    <3>3. CASE NoQuote
      BY <3>3, NoQuoteCut DEF Inv
    <3>4. CASE Number
      BY <1>2, <3>4, NumberCut
    <3>5. CASE BadNumber
      BY <1>2, <3>5, NothingCut DEF BadNumber
    <3>6. CASE Operator
      BY <1>2, <3>6, OperatorCut
    <3>7. CASE Word
      BY <1>2, <3>7, WordCut
    <3>8. CASE Strange
      BY <1>2, <3>8, NothingCut DEF Strange
    <3> QED
      BY <1>3, <3>1, <3>2, <3>3, <3>4, <3>5, <3>6, <3>7, <3>8 DEF Next
  <2>2. ASSUME Contained PROVE Within' /\ LineNumber'
    <3>1. Good
      BY <1>2, <2>2 DEF Inv, Good
    <3>2. CASE EndOfText
      BY <3>1, <3>2, NothingTaken DEF EndOfText
    <3>3. CASE String
      BY <3>1, <3>3, StringStep
    <3>4. CASE NoQuote
      BY <3>1, <3>4, NoQuoteStep
    <3>5. CASE Number
      BY <3>1, <3>5, NumberStep
    <3>6. CASE BadNumber
      BY <3>1, <3>6, NothingTaken DEF BadNumber
    <3>7. CASE Operator
      BY <3>1, <3>7, OperatorStep
    <3>8. CASE Word
      BY <3>1, <3>8, WordStep
    <3>9. CASE Strange
      BY <3>1, <3>9, NothingTaken DEF Strange
    <3> QED
      BY <1>3, <3>2, <3>3, <3>4, <3>5, <3>6, <3>7, <3>8, <3>9 DEF Next
  <2>3. Contained' = Contained
    BY <1>1 DEF Contained
  <2>4. ~ Contained => LineNumber'
    BY <2>3 DEF LineNumber
  <2> QED
    BY <1>1, <2>1, <2>2, <2>3, <2>4 DEF Inv
<1>4. CASE UNCHANGED vars
  <2>1. mem' = mem
    BY <1>4 DEF vars, mem
  <2> QED
    BY <1>4, <2>1 DEF Inv, vars, Cuts, Somewhere, Within, Contained, Counted, Fair, LineBreaks,
                      QuotesFrom, LineNumber, LongestMatch, SpelledAsTold, LastRead, Split
<1> QED
  BY <1>3, <1>4

\* Wherever the lexer is, it cuts the longest token and tells its type; and in a
\* text it does not leave, every call of __next_token finds pointer, quotes and
\* lines where they should be.
THEOREM LexerInvariant == Spec => []Inv
  BY InitInv, StepInv, PTL DEF Spec

\* The pointer and the length of the view, moved by separate assignments in
\* every handler, agree; the length wraps where the lexer reads behind the text,
\* which it never does in a text it can cut (lexer.c:127-128, 153-165, 35-36).
THEOREM LexerViewIsTheRest == Spec => []ViewIsTheRest
<1>1. Inv => ViewIsTheRest
  <2> SUFFICES ASSUME Inv PROVE ViewIsTheRest
    OBVIOUS
  <2>1. Contained => at =< Len(text) + 1 /\ ~ lost
    BY Memory DEF Inv, Within
  <2> QED
    BY <2>1 DEF Inv, Cuts, Somewhere, ViewIsTheRest
<1> QED
  BY <1>1, LexerInvariant, PTL

\* The line told for a token is never beyond its own, and is its own in a fair
\* text: trim_left and the predicate of lex_word never count one break twice.
THEOREM LexerLineNumber == Spec => []LineNumber
<1>1. Inv => LineNumber
  BY DEF Inv
<1> QED
  BY <1>1, LexerInvariant, PTL

\* Whatever the text and whatever lies behind it, what is cut is a token, and no
\* longer piece from the same place is one (lex_num, lex_word, the tests for
\* operators of two characters).
THEOREM LexerLongestMatch == Spec => []LongestMatch
<1>1. Inv => LongestMatch
  BY DEF Inv, Cuts
<1> QED
  BY <1>1, LexerInvariant, PTL

\* Whatever the text and whatever lies behind it, the parser is told an operator
\* of its grammar only where that operator was read, but for "&=" (lexer.c:224).
THEOREM LexerSpelledAsTold == Spec => []SpelledAsTold
<1>1. Inv => SpelledAsTold
  BY DEF Inv, Cuts
<1> QED
  BY <1>1, LexerInvariant, PTL

=============================================================================
