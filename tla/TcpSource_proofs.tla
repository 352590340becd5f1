-------------------------- MODULE TcpSource_proofs --------------------------
(***************************************************************************)
(* Theorems about TcpSource, for messages of any number and length, any    *)
(* bounds and any way the stream is cut into chunks.                       *)
(***************************************************************************)
EXTENDS TcpSource, SequenceTheorems, WellFoundedInduction, TLAPS

-----------------------------------------------------------------------------
(* Frames                                                                  *)

\* The token at position k of the frame of message m.
Tok(fr, m, k) ==
    IF fr = "line" THEN IF k <= Size[m] THEN Piece(m, k) ELSE Delimiter
    ELSE IF k = 1 THEN Header(m) ELSE Piece(m, k - 1)

\* The place of a token in its message.
Place(x) == IF x.kind = "header" THEN 0 ELSE x.at

\* Stream s holds the frame of m behind position b.  The front of a line that is
\* too long may have been dropped: its frame begins before the stream.
Frame(fr, s, m, b) ==
    /\ b + Size[m] + 1 <= Len(s)
    /\ \A k \in 1..(Size[m] + 1) : b + k >= 1 => s[b + k] = Tok(fr, m, k)
    /\ b < 0 => fr = "line" /\ Oversized(m)

\* Stream s consists of frames of messages before n.
InFrames(fr, n, s) ==
    \A i \in 1..Len(s) : \E m \in 1..(n - 1), b \in Int :
        Frame(fr, s, m, b) /\ b < i /\ i <= b + Size[m] + 1

\* Its messages follow one another in their order.
InOrder(s) ==
    \A i, j \in 1..Len(s) :
        i < j /\ s[i].msg # 0 /\ s[j].msg # 0 =>
            \/ s[i].msg < s[j].msg
            \/ s[i].msg = s[j].msg /\ Place(s[j]) = Place(s[i]) + (j - i)

Framings == {"line", "length"}

\* The length of a message is a positive number.
LEMMA SizeIsPositive ==
  ASSUME NEW m \in Messages
  PROVE  m \in Nat \ {0} /\ Size[m] \in Nat \ {0}
  BY SizeAssumption DEF Messages

\* Delimiters and headers are tokens.
LEMMA FixedTokens ==
  ASSUME NEW m \in Messages
  PROVE  Delimiter \in Tokens /\ Header(m) \in Tokens
  BY DEF Tokens

\* What a token of a frame says.
LEMMA TokFacts ==
  ASSUME NEW fr \in Framings, NEW m \in Messages, NEW k \in 1..(Size[m] + 1)
  PROVE  /\ Tok(fr, m, k) \in Tokens
         /\ Tok(fr, m, k) = Delimiter <=> fr = "line" /\ k = Size[m] + 1
         /\ Tok(fr, m, k).msg = 0 <=> Tok(fr, m, k) = Delimiter
         /\ Tok(fr, m, k) # Delimiter =>
               /\ Tok(fr, m, k).msg = m
               /\ Place(Tok(fr, m, k)) = IF fr = "line" THEN k ELSE k - 1
<1>1. Size[m] \in Nat \ {0} /\ m \in Nat \ {0}
  BY SizeIsPositive
<1>2. ASSUME NEW i \in 1..Size[m] PROVE Piece(m, i) \in Tokens
  <2>1. Piece(m, i) = Whole(m)[i] /\ i \in DOMAIN Whole(m)
    BY DEF Whole
  <2>2. Piece(m, i) \in ToSet(Whole(m))
    BY <2>1 DEF ToSet
  <2> QED
    BY <2>2 DEF Tokens
<1>3. Delimiter \in Tokens /\ Header(m) \in Tokens
  BY FixedTokens
<1>4. \A i : Piece(m, i) # Delimiter /\ Piece(m, i).msg = m /\ Place(Piece(m, i)) = i
  BY <1>1 DEF Piece, Delimiter, Place
<1>5. Header(m) # Delimiter /\ Header(m).msg = m /\ Place(Header(m)) = 0 /\ Delimiter.msg = 0
  BY <1>1 DEF Header, Delimiter, Place
<1>6. CASE fr = "line"
  <2>1. CASE k <= Size[m]
    BY <1>1, <1>2, <1>4, <1>6, <2>1 DEF Tok
  <2>2. CASE k = Size[m] + 1
    BY <1>1, <1>3, <1>5, <1>6, <2>2 DEF Tok
  <2> QED
    BY <1>1, <2>1, <2>2
<1>7. CASE fr = "length"
  <2>1. CASE k = 1
    BY <1>1, <1>3, <1>5, <1>7, <2>1 DEF Tok
  <2>2. CASE k # 1
    <3>1. k - 1 \in 1..Size[m]
      BY <1>1, <2>2
    <3> QED
      BY <1>1, <1>2, <1>4, <1>7, <2>2, <3>1 DEF Tok
  <2> QED
    BY <2>1, <2>2
<1> QED
  BY <1>6, <1>7 DEF Framings

\* A token of a frame that names a message names that of the frame, and its
\* place is known.
LEMMA TokenOf ==
  ASSUME NEW fr \in Framings, NEW m \in Messages, NEW k \in 1..(Size[m] + 1),
         NEW x, x = Tok(fr, m, k)
  PROVE  /\ x.msg = 0 \/ x.msg = m
         /\ x # Delimiter => x.msg # 0
         /\ x.msg # 0 =>
               /\ Place(x) = IF fr = "line" THEN k ELSE k - 1
               /\ ~(fr = "line" /\ k = Size[m] + 1)
<1>1. CASE x = Delimiter
  <2>1. x.msg = 0
    BY <1>1 DEF Delimiter
  <2> QED
    BY <1>1, <2>1
<1>2. CASE x # Delimiter
  <2>1. x.msg # 0 /\ x.msg = m /\ Place(x) = IF fr = "line" THEN k ELSE k - 1
    BY <1>2, TokFacts
  <2>2. ~(fr = "line" /\ k = Size[m] + 1)
    BY <1>2, TokFacts
  <2> QED
    BY <1>2, <2>1, <2>2
<1> QED
  BY <1>1, <1>2

\* The first token of a frame is no later token of any frame, and the last one
\* no earlier token.
LEMMA FirstAndLast ==
  ASSUME NEW fr \in Framings, NEW m \in Messages, NEW o \in Messages, NEW k \in 1..(Size[o] + 1)
  PROVE  /\ Tok(fr, m, 1) = Tok(fr, o, k) => k = 1
         /\ Tok(fr, m, Size[m] + 1) = Tok(fr, o, k) => k = Size[o] + 1
<1>1. Size[m] \in Nat \ {0} /\ Size[o] \in Nat \ {0}
  BY SizeIsPositive
<1>2. CASE fr = "line"
  BY <1>1, <1>2 DEF Tok, Piece, Delimiter
<1>3. CASE fr = "length"
  BY <1>1, <1>3 DEF Tok, Piece, Header
<1> QED
  BY <1>2, <1>3 DEF Framings

\* The sequence that is sent for a message.
LEMMA FramedIsTokens ==
  ASSUME framing \in Framings, NEW m \in Messages
  PROVE  /\ Framed(m) \in Seq(Tokens)
         /\ Len(Framed(m)) = Size[m] + 1
         /\ \A k \in 1..(Size[m] + 1) : Framed(m)[k] = Tok(framing, m, k)
<1>1. Size[m] \in Nat \ {0}
  BY SizeIsPositive
<1>2. \A i \in 1..Size[m] : Piece(m, i) \in Tokens
  <2>1. ASSUME NEW i \in 1..Size[m] PROVE Piece(m, i) \in Tokens
    <3>1. i \in 1..(Size[m] + 1) /\ Tok("line", m, i) = Piece(m, i)
      BY <1>1 DEF Tok
    <3> QED
      BY <3>1, TokFacts DEF Framings
  <2> QED
    BY <2>1
<1>3. Whole(m) \in Seq(Tokens) /\ Len(Whole(m)) = Size[m] /\ \A i \in 1..Size[m] : Whole(m)[i] = Piece(m, i)
  BY <1>1, <1>2 DEF Whole
<1>4. Delimiter \in Tokens /\ Header(m) \in Tokens
  BY FixedTokens
<1>5. CASE framing = "line"
  <2>1. Framed(m) = Append(Whole(m), Delimiter)
    BY <1>5 DEF Framed
  <2> QED
    BY <1>1, <1>3, <1>4, <1>5, <2>1, AppendProperties DEF Tok
<1>6. CASE framing = "length"
  <2>1. Framed(m) = <<Header(m)>> \o Whole(m)
    BY <1>6 DEF Framed
  <2>2. <<Header(m)>> \in Seq(Tokens) /\ Len(<<Header(m)>>) = 1 /\ <<Header(m)>>[1] = Header(m)
    BY <1>4
  <2>3. /\ Framed(m) \in Seq(Tokens)
        /\ Len(Framed(m)) = 1 + Size[m]
        /\ \A i \in 1..(1 + Size[m]) :
              Framed(m)[i] = IF i <= 1 THEN <<Header(m)>>[i] ELSE Whole(m)[i - 1]
    BY <1>3, <2>1, <2>2, ConcatProperties
  <2>4. ASSUME NEW k \in 1..(Size[m] + 1) PROVE Framed(m)[k] = Tok("length", m, k)
    <3>1. CASE k = 1
      BY <1>1, <2>2, <2>3, <3>1 DEF Tok
    <3>2. CASE k # 1
      <4>1. k - 1 \in 1..Size[m] /\ ~(k <= 1)
        BY <1>1, <3>2
      <4> QED
        BY <1>1, <1>3, <2>3, <3>2, <4>1 DEF Tok
    <3> QED
      BY <3>1, <3>2
  <2> QED
    BY <1>1, <1>6, <2>3, <2>4
<1> QED
  BY <1>5, <1>6 DEF Framings

-----------------------------------------------------------------------------
(* Streams                                                                 *)

\* What the token at position i of a stream says.
LEMMA InAFrame ==
  ASSUME NEW fr \in Framings, NEW n \in 1..(Len(Size) + 1), NEW s \in Seq(Tokens),
         InFrames(fr, n, s), NEW i \in 1..Len(s)
  PROVE  \E m \in Messages, b \in Int :
            /\ m < n /\ Frame(fr, s, m, b) /\ b < i /\ i <= b + Size[m] + 1
            /\ i - b \in 1..(Size[m] + 1)
            /\ s[i] = Tok(fr, m, i - b)
<1>1. PICK m \in 1..(n - 1), b \in Int : Frame(fr, s, m, b) /\ b < i /\ i <= b + Size[m] + 1
  BY DEF InFrames
<1>2. Len(Size) \in Nat /\ DOMAIN Size = 1..Len(Size)
  BY SizeAssumption
<1>3. m \in Messages /\ m < n
  BY <1>2 DEF Messages
<1>4. Size[m] \in Nat \ {0}
  BY <1>3, SizeIsPositive
<1>5. i - b \in 1..(Size[m] + 1) /\ b + (i - b) = i /\ i >= 1
  BY <1>1, <1>4
<1>6. s[i] = Tok(fr, m, i - b)
  BY <1>1, <1>5 DEF Frame
<1> QED
  BY <1>1, <1>3, <1>5, <1>6

\* A frame begins where another ends.
LEMMA FrameBefore ==
  ASSUME NEW fr \in Framings, NEW n \in 1..(Len(Size) + 1), NEW s \in Seq(Tokens),
         InFrames(fr, n, s), NEW m \in Messages, NEW b \in Nat \ {0}, Frame(fr, s, m, b)
  PROVE  \E o \in Messages : s[b] = Tok(fr, o, Size[o] + 1)
<1>1. Size[m] \in Nat \ {0} /\ Len(s) \in Nat
  BY SizeIsPositive
<1>2. b + Size[m] + 1 <= Len(s)
  BY DEF Frame
<1>3. b \in 1..Len(s)
  BY <1>1, <1>2
<1>4. PICK o \in Messages, c \in Int :
        /\ Frame(fr, s, o, c) /\ c < b /\ b <= c + Size[o] + 1
        /\ b - c \in 1..(Size[o] + 1) /\ s[b] = Tok(fr, o, b - c)
  BY <1>3, InAFrame
<1>5. Size[o] \in Nat \ {0}
  BY SizeIsPositive
<1>6. CASE b = c + Size[o] + 1
  BY <1>4, <1>5, <1>6
<1>7. CASE b # c + Size[o] + 1
  <2>1. b + 1 - c \in 1..(Size[o] + 1) /\ b + 1 - c # 1 /\ c + (b + 1 - c) = b + 1 /\ b + 1 >= 1
    BY <1>4, <1>5, <1>7, SMTT(30)
  <2>2. s[b + 1] = Tok(fr, o, b + 1 - c)
    BY <1>4, <2>1 DEF Frame
  <2>3. s[b + 1] = Tok(fr, m, 1)
    BY <1>1 DEF Frame
  <2> QED
    BY <2>1, <2>2, <2>3, FirstAndLast
<1> QED
  BY <1>6, <1>7

\* What is sent next extends a stream by a frame.
LEMMA FrameSent ==
  ASSUME NEW fr \in Framings, NEW n \in Messages, NEW s \in Seq(Tokens), NEW f \in Seq(Tokens),
         InFrames(fr, n, s), InOrder(s),
         Len(f) = Size[n] + 1, \A k \in 1..(Size[n] + 1) : f[k] = Tok(fr, n, k)
  PROVE  InFrames(fr, n + 1, s \o f) /\ InOrder(s \o f)
<1> DEFINE t == s \o f
<1>1. Size[n] \in Nat \ {0} /\ n \in Nat \ {0} /\ Len(s) \in Nat /\ n \in 1..(Len(Size) + 1)
  BY SizeIsPositive, SizeAssumption DEF Messages
<1>2. /\ t \in Seq(Tokens) /\ Len(t) = Len(s) + Size[n] + 1
      /\ \A i \in 1..Len(t) : t[i] = IF i <= Len(s) THEN s[i] ELSE f[i - Len(s)]
  <2>1. /\ t \in Seq(Tokens) /\ Len(t) = Len(s) + Len(f)
        /\ \A i \in 1..(Len(s) + Len(f)) : t[i] = IF i <= Len(s) THEN s[i] ELSE f[i - Len(s)]
    BY ConcatProperties
  <2> HIDE DEF t
  <2> QED
    BY <1>1, <2>1
<1> HIDE DEF t
<1>3. ASSUME NEW i \in 1..Len(t), i > Len(s)
      PROVE  i - Len(s) \in 1..(Size[n] + 1) /\ t[i] = Tok(fr, n, i - Len(s))
  <2>1. i - Len(s) \in 1..(Size[n] + 1)
    BY <1>1, <1>2, <1>3, SMTT(30)
  <2>2. t[i] = f[i - Len(s)]
    BY <1>1, <1>2, <1>3
  <2> QED
    BY <2>1, <2>2
<1>4. ASSUME NEW i \in 1..Len(s) PROVE t[i] = s[i] /\ s[i].msg \in Int /\ s[i].msg < n
  <2>1. PICK m \in Messages, b \in Int :
            m < n /\ i - b \in 1..(Size[m] + 1) /\ s[i] = Tok(fr, m, i - b)
    BY <1>1, InAFrame, ZenonT(30)
  <2>2. s[i].msg \in {0, m} /\ m \in Nat
    <3>1. m \in Nat
      BY SizeIsPositive
    <3>2. s[i].msg = 0 \/ s[i].msg = m
      BY <2>1, TokenOf
    <3> QED
      BY <3>1, <3>2
  <2>3. i \in 1..Len(t) /\ i <= Len(s)
    BY <1>1, <1>2
  <2>4. t[i] = s[i]
    BY <1>2, <2>3
  <2> QED
    BY <1>1, <2>1, <2>2, <2>4
<1>5. Frame(fr, t, n, Len(s))
  <2>1. ASSUME NEW k \in 1..(Size[n] + 1) PROVE t[Len(s) + k] = Tok(fr, n, k)
    <3>1. Len(s) + k \in 1..Len(t) /\ Len(s) + k > Len(s) /\ (Len(s) + k) - Len(s) = k
      BY <1>1, <1>2, SMTT(30)
    <3> QED
      BY <1>3, <3>1
  <2> QED
    BY <1>1, <1>2, <2>1 DEF Frame
<1>6. InFrames(fr, n + 1, t)
  <2> SUFFICES ASSUME NEW i \in 1..Len(t)
               PROVE  \E m \in 1..n, b \in Int : Frame(fr, t, m, b) /\ b < i /\ i <= b + Size[m] + 1
    <3>1. 1..((n + 1) - 1) = 1..n
      BY <1>1
    <3> QED
      BY <3>1, Zenon DEF InFrames
  <2>1. CASE i > Len(s)
    <3>1. n \in 1..n /\ Len(s) \in Int /\ Len(s) < i /\ i <= Len(s) + Size[n] + 1
      BY <1>1, <1>2, <2>1
    <3> QED
      BY <1>5, <3>1
  <2>2. CASE i <= Len(s)
    <3>1. i \in 1..Len(s)
      BY <1>1, <2>2
    <3>2. PICK m \in 1..(n - 1), b \in Int : Frame(fr, s, m, b) /\ b < i /\ i <= b + Size[m] + 1
      BY <3>1 DEF InFrames
    <3>3. m \in Messages /\ Size[m] \in Nat \ {0}
      BY <1>1, SizeIsPositive, SizeAssumption, SMTT(30) DEF Messages
    <3>4. ASSUME NEW k \in 1..(Size[m] + 1), b + k >= 1 PROVE t[b + k] = Tok(fr, m, k)
      <4>1. b + k \in 1..Len(s)
        BY <1>1, <3>2, <3>3, <3>4, SMTT(30) DEF Frame
      <4> QED
        BY <1>4, <3>2, <3>4, <4>1 DEF Frame
    <3>5. b + Size[m] + 1 <= Len(t)
      <4>1. b + Size[m] + 1 <= Len(s)
        BY <3>2 DEF Frame
      <4>2. Len(t) \in Int /\ Len(s) \in Int /\ Len(s) <= Len(t)
        BY <1>1, <1>2, SMTT(30)
      <4>3. b \in Int /\ Size[m] \in Int
        BY <3>2, <3>3
      <4> QED
        BY <4>1, <4>2, <4>3
    <3>7. Frame(fr, t, m, b)
      BY <3>2, <3>4, <3>5, Zenon DEF Frame
    <3>6. m \in 1..n
      BY <1>1
    <3> QED
      BY <3>2, <3>6, <3>7
  <2> QED
    BY <1>1, <2>1, <2>2
<1>7. InOrder(t)
  <2> SUFFICES ASSUME NEW i \in 1..Len(t), NEW j \in 1..Len(t), i < j, t[i].msg # 0, t[j].msg # 0
               PROVE  \/ t[i].msg < t[j].msg
                      \/ t[i].msg = t[j].msg /\ Place(t[j]) = Place(t[i]) + (j - i)
    BY DEF InOrder
  <2>1. CASE j <= Len(s)
    <3>1. i \in 1..Len(s) /\ j \in 1..Len(s)
      BY <1>1, <2>1
    <3> QED
      BY <1>4, <3>1 DEF InOrder
  <2>2. CASE i <= Len(s) /\ j > Len(s)
    <3>1. i \in 1..Len(s)
      BY <1>1, <2>2
    <3>2. t[j].msg = n
      <4>1. j - Len(s) \in 1..(Size[n] + 1) /\ t[j] = Tok(fr, n, j - Len(s))
        BY <1>3, <2>2
      <4> QED
        BY <4>1, TokenOf
    <3> QED
      BY <1>4, <3>1, <3>2
  <2>3. CASE i > Len(s) /\ j > Len(s)
    <3>0. ASSUME NEW k \in 1..Len(t), k > Len(s), t[k].msg # 0
          PROVE  t[k].msg = n /\ Place(t[k]) = IF fr = "line" THEN k - Len(s) ELSE k - Len(s) - 1
      <4>1. k - Len(s) \in 1..(Size[n] + 1) /\ t[k] = Tok(fr, n, k - Len(s))
        BY <1>3, <3>0
      <4> QED
        BY <3>0, <4>1, TokenOf
    <3>1. /\ t[i].msg = n /\ t[j].msg = n
          /\ Place(t[i]) = IF fr = "line" THEN i - Len(s) ELSE i - Len(s) - 1
          /\ Place(t[j]) = IF fr = "line" THEN j - Len(s) ELSE j - Len(s) - 1
      BY <2>3, <3>0
    <3>2. i \in Int /\ j \in Int /\ Len(s) \in Int
      BY <1>1
    <3>3. CASE fr = "line"
      BY <3>1, <3>2, <3>3
    <3>4. CASE fr # "line"
      BY <3>1, <3>2, <3>4
    <3> QED
      BY <3>3, <3>4
  <2> QED
    BY <1>1, <2>1, <2>2, <2>3
<1> QED
  BY <1>6, <1>7 DEF t

\* The rest of a stream from which the first L tokens were taken, when they
\* break no frame but one of a line that is too long.
LEMMA Rest ==
  ASSUME NEW fr \in Framings, NEW n \in 1..(Len(Size) + 1), NEW s \in Seq(Tokens),
         InFrames(fr, n, s), InOrder(s), NEW L \in 0..Len(s),
         \A m \in Messages, b \in Int :
            Frame(fr, s, m, b) /\ b < L /\ L < b + Size[m] + 1 => fr = "line" /\ Oversized(m)
  PROVE  LET t == SubSeq(s, L + 1, Len(s))
         IN /\ t \in Seq(Tokens) /\ Len(t) = Len(s) - L
            /\ \A i \in 1..(Len(s) - L) : t[i] = s[L + i]
            /\ InFrames(fr, n, t) /\ InOrder(t)
<1> DEFINE t == SubSeq(s, L + 1, Len(s))
<1>1. Len(s) \in Nat /\ L \in Nat /\ L <= Len(s)
  OBVIOUS
<1>2. t \in Seq(Tokens) /\ Len(t) = Len(s) - L /\ \A i \in 1..(Len(s) - L) : t[i] = s[L + i]
  <2>1. \A i \in (L + 1)..Len(s) : s[i] \in Tokens
    OBVIOUS
  <2>2. /\ t \in Seq(Tokens)
        /\ Len(t) = IF L + 1 <= Len(s) THEN Len(s) - (L + 1) + 1 ELSE 0
        /\ \A i \in 1..(Len(s) - (L + 1) + 1) : t[i] = s[(L + 1) + i - 1]
    BY <1>1, <2>1, SubSeqProperties, SMTT(30)
  <2> HIDE DEF t
  <2>3. Len(s) - (L + 1) + 1 = Len(s) - L
    BY <1>1
  <2>4. ASSUME NEW i \in 1..(Len(s) - L) PROVE t[i] = s[L + i]
    <3>1. (L + 1) + i - 1 = L + i
      BY <1>1
    <3> QED
      BY <2>2, <2>3, <3>1
  <2>5. Len(t) = Len(s) - L
    BY <1>1, <2>2
  <2> QED
    BY <2>2, <2>4, <2>5
<1> HIDE DEF t
<1>3. InFrames(fr, n, t)
  <2> SUFFICES ASSUME NEW i \in 1..Len(t)
               PROVE  \E m \in 1..(n - 1), b \in Int : Frame(fr, t, m, b) /\ b < i /\ i <= b + Size[m] + 1
    BY DEF InFrames
  <2>1. L + i \in 1..Len(s)
    BY <1>1, <1>2
  <2>2. PICK m \in Messages, b \in Int :
            /\ m < n /\ Frame(fr, s, m, b) /\ b < L + i /\ L + i <= b + Size[m] + 1
    BY <2>1, InAFrame
  <2>3. Size[m] \in Nat \ {0} /\ m \in 1..(n - 1) /\ i \in Nat \ {0}
    BY <2>2, SizeIsPositive
  <2>4. ASSUME NEW k \in 1..(Size[m] + 1), (b - L) + k >= 1 PROVE t[(b - L) + k] = Tok(fr, m, k)
    <3>1. b + k >= 1 /\ b + Size[m] + 1 <= Len(s)
      BY <1>1, <2>2, <2>4 DEF Frame
    <3>2. (b - L) + k \in 1..(Len(s) - L) /\ L + ((b - L) + k) = b + k
      BY <1>1, <2>2, <2>3, <2>4, <3>1, SMTT(30)
    <3>3. t[(b - L) + k] = s[b + k]
      BY <1>2, <3>2
    <3> QED
      BY <2>2, <3>1, <3>3 DEF Frame
  <2>5. (b - L) + Size[m] + 1 <= Len(t)
    <3>1. b + Size[m] + 1 <= Len(s)
      BY <2>2 DEF Frame
    <3> QED
      BY <1>1, <1>2, <2>2, <2>3, <3>1, SMTT(30)
  <2>6. b - L < 0 => fr = "line" /\ Oversized(m)
    <3>1. b < L => L < b + Size[m] + 1
      BY <1>1, <2>2, <2>3
    <3>2. b - L < 0 => b < L
      BY <1>1, <2>2
    <3> QED
      BY <2>2, <3>1, <3>2
  <2>7. Frame(fr, t, m, b - L)
    BY <2>4, <2>5, <2>6, Zenon DEF Frame
  <2>8. b - L \in Int /\ b - L < i /\ i <= (b - L) + Size[m] + 1
    BY <1>1, <2>2, <2>3, SMTT(30)
  <2> QED
    BY <2>3, <2>7, <2>8
<1>4. InOrder(t)
  <2> SUFFICES ASSUME NEW i \in 1..Len(t), NEW j \in 1..Len(t), i < j, t[i].msg # 0, t[j].msg # 0
               PROVE  \/ t[i].msg < t[j].msg
                      \/ t[i].msg = t[j].msg /\ Place(t[j]) = Place(t[i]) + (j - i)
    BY DEF InOrder
  <2>1. /\ L + i \in 1..Len(s) /\ L + j \in 1..Len(s) /\ L + i < L + j /\ (L + j) - (L + i) = j - i
        /\ i \in 1..(Len(s) - L) /\ j \in 1..(Len(s) - L)
    BY <1>1, <1>2
  <2>2. t[i] = s[L + i] /\ t[j] = s[L + j]
    BY <1>2, <2>1
  <2>3. \/ s[L + i].msg < s[L + j].msg
        \/ s[L + i].msg = s[L + j].msg /\ Place(s[L + j]) = Place(s[L + i]) + ((L + j) - (L + i))
    BY <2>1, <2>2 DEF InOrder
  <2> QED
    BY <2>1, <2>2, <2>3
<1> QED
  BY <1>2, <1>3, <1>4 DEF t

\* A position of a stream is one of the frame around it.
LEMMA InFrameAt ==
  ASSUME NEW i \in Int, NEW b \in Int, NEW n \in Nat, b < i, i <= b + n + 1
  PROVE  i - b \in 1..(n + 1) /\ b + (i - b) = i
OBVIOUS

\* So is the last position of the frame.
LEMMA LastOfFrame ==
  ASSUME NEW b \in Int, NEW n \in Nat
  PROVE  n + 1 \in 1..(n + 1) /\ b + (n + 1) = b + n + 1 /\ ~(n + 1 <= n)
OBVIOUS

\* No frame reaches over the end of another.
LEMMA NoOverlap ==
  ASSUME NEW fr \in Framings, NEW s \in Seq(Tokens),
         NEW m \in Messages, NEW b \in Int, Frame(fr, s, m, b), b + Size[m] + 1 >= 1,
         NEW o \in Messages, NEW c \in Int, Frame(fr, s, o, c)
  PROVE  ~(c < b + Size[m] + 1 /\ b + Size[m] + 1 < c + Size[o] + 1)
<1> SUFFICES ASSUME c < b + Size[m] + 1, b + Size[m] + 1 < c + Size[o] + 1 PROVE FALSE
  OBVIOUS
<1> DEFINE d == b + Size[m] + 1
           k == d - c
<1>1. Size[m] \in Nat \ {0} /\ Size[o] \in Nat \ {0}
  BY SizeIsPositive
<1>2. k \in 1..(Size[o] + 1) /\ k # Size[o] + 1 /\ c + k = d
  <2>1. d \in Int /\ c < d /\ d < c + Size[o] + 1
    BY <1>1
  <2> HIDE DEF d
  <2>2. d <= c + Size[o] + 1
    BY <1>1, <2>1
  <2>3. k \in 1..(Size[o] + 1) /\ c + k = d
    BY <1>1, <2>1, <2>2, InFrameAt
  <2> QED
    BY <1>1, <2>1, <2>3
<1>3. Size[m] + 1 \in 1..(Size[m] + 1) /\ b + (Size[m] + 1) = d
  BY <1>1, LastOfFrame
<1>4. s[c + k] = Tok(fr, o, k)
  BY <1>2 DEF Frame
<1>5. s[b + (Size[m] + 1)] = Tok(fr, m, Size[m] + 1)
  BY <1>3 DEF Frame
<1> QED
  BY <1>2, <1>3, <1>4, <1>5, FirstAndLast

\* What follows the frame of a message is of later messages.
LEMMA Later ==
  ASSUME NEW fr \in Framings, NEW n \in 1..(Len(Size) + 1), NEW s \in Seq(Tokens),
         InFrames(fr, n, s), InOrder(s),
         NEW m \in Messages, NEW b \in Int, Frame(fr, s, m, b),
         NEW i \in 1..Len(s), b < i, i <= b + Size[m] + 1, s[i].msg # 0,
         NEW j \in 1..Len(s), b + Size[m] + 1 < j, s[j].msg # 0
  PROVE  m < s[j].msg
<1>1. Size[m] \in Nat \ {0} /\ m \in Nat
  BY SizeIsPositive
<1>2. i - b \in 1..(Size[m] + 1) /\ b + (i - b) = i /\ b + (i - b) >= 1
  <2>1. i \in Int /\ i >= 1
    OBVIOUS
  <2> QED
    BY <1>1, <2>1, InFrameAt
<1>3. s[i] = Tok(fr, m, i - b)
  BY <1>2 DEF Frame
<1>4. s[i].msg = m /\ Place(s[i]) = IF fr = "line" THEN i - b ELSE i - b - 1
  BY <1>2, <1>3, TokenOf
<1>5. PICK o \in Messages, c \in Int :
        j - c \in 1..(Size[o] + 1) /\ s[j] = Tok(fr, o, j - c)
  BY InAFrame
<1>6. /\ s[j].msg = o /\ Place(s[j]) = IF fr = "line" THEN j - c ELSE j - c - 1
      /\ ~(fr = "line" /\ j - c = Size[o] + 1)
  BY <1>5, TokenOf
<1>7. i < j
  BY <1>1
<1>8. \/ m < o
      \/ m = o /\ Place(s[j]) = Place(s[i]) + (j - i)
  BY <1>4, <1>6, <1>7 DEF InOrder
<1>9. ASSUME m = o, Place(s[j]) = Place(s[i]) + (j - i) PROVE FALSE
  <2>1. j - c <= Size[m] + 1
    BY <1>5, <1>9
  <2>2. CASE fr = "line"
    <3>1. j - c = (i - b) + (j - i)
      BY <1>4, <1>6, <1>9, <2>2
    <3>2. i \in Int /\ j \in Int /\ c \in Int
      BY <1>5
    <3>3. j - c = j - b
      BY <3>1, <3>2
    <3> QED
      BY <1>1, <2>1, <3>2, <3>3
  <2>3. CASE fr # "line"
    <3>1. j - c - 1 = (i - b - 1) + (j - i)
      BY <1>4, <1>6, <1>9, <2>3
    <3>2. i \in Int /\ j \in Int /\ c \in Int
      BY <1>5
    <3>3. j - c = j - b
      BY <3>1, <3>2
    <3> QED
      BY <1>1, <2>1, <3>2, <3>3
  <2> QED
    BY <2>2, <2>3
<1> QED
  BY <1>6, <1>8, <1>9

\* What stands before the first delimiter is a line, or the rest of one that is
\* too long.
LEMMA LineFound ==
  ASSUME NEW n \in 1..(Len(Size) + 1), NEW s \in Seq(Tokens), InFrames("line", n, s),
         NEW at \in 1..Len(s), s[at] = Delimiter, \A j \in 1..(at - 1) : s[j] # Delimiter
  PROVE  \E m \in Messages, b \in Int :
            /\ m < n /\ Frame("line", s, m, b) /\ b <= 0 /\ at = b + Size[m] + 1
            /\ \A i \in 1..(at - 1) : s[i] = Piece(m, i - b)
<1>1. 1 \in 1..Len(s) /\ "line" \in Framings
  BY DEF Framings
<1>2. PICK m \in Messages, b \in Int :
        m < n /\ Frame("line", s, m, b) /\ b < 1 /\ 1 <= b + Size[m] + 1
  BY <1>1, InAFrame
<1>3. Size[m] \in Nat \ {0}
  BY SizeIsPositive
<1>4. ASSUME NEW i \in 1..Len(s), i < b + Size[m] + 1 PROVE s[i] = Piece(m, i - b)
  <2>1. i - b \in 1..(Size[m] + 1) /\ b + (i - b) = i /\ b + (i - b) >= 1 /\ i - b <= Size[m]
    <3>1. i \in Int /\ i >= 1 /\ b \in Int /\ i < b + Size[m] + 1
      BY <1>2, <1>4
    <3>2. i <= b + Size[m] + 1
      BY <1>3, <3>1
    <3>3. i - b \in 1..(Size[m] + 1) /\ b + (i - b) = i
      BY <1>2, <1>3, <3>1, <3>2, InFrameAt
    <3> QED
      BY <1>3, <3>1, <3>3
  <2>2. s[i] = Tok("line", m, i - b)
    BY <1>2, <2>1 DEF Frame
  <2> QED
    BY <2>1, <2>2 DEF Tok
<1>5. s[b + Size[m] + 1] = Delimiter
  <2>1. Size[m] + 1 \in 1..(Size[m] + 1) /\ b + (Size[m] + 1) = b + Size[m] + 1 /\ ~(Size[m] + 1 <= Size[m])
    BY <1>2, <1>3, LastOfFrame
  <2> QED
    BY <1>2, <2>1 DEF Frame, Tok
<1>6. b + Size[m] + 1 >= at
  <2> SUFFICES ASSUME b + Size[m] + 1 < at PROVE FALSE
    BY <1>2, <1>3
  <2>1. b + Size[m] + 1 \in 1..(at - 1)
    BY <1>2, <1>3
  <2> QED
    BY <1>5, <2>1
<1>7. ~(at < b + Size[m] + 1)
  <2> SUFFICES ASSUME at < b + Size[m] + 1 PROVE FALSE
    OBVIOUS
  <2>1. s[at] = Piece(m, at - b)
    BY <1>4
  <2> QED
    BY <2>1 DEF Piece, Delimiter
<1>8. at = b + Size[m] + 1 /\ b <= 0
  BY <1>2, <1>3, <1>6, <1>7
<1>9. \A i \in 1..(at - 1) : s[i] = Piece(m, i - b)
  BY <1>4, <1>8
<1> QED
  BY <1>2, <1>8, <1>9

\* A rest without a delimiter that is longer than the limit is of a line that
\* is too long.
LEMMA LineTooLong ==
  ASSUME NEW n \in 1..(Len(Size) + 1), NEW s \in Seq(Tokens), InFrames("line", n, s),
         NEW L \in 1..Len(s), L > MaxLength, \A j \in 1..L : s[j] # Delimiter
  PROVE  /\ \A m \in Messages, b \in Int :
                Frame("line", s, m, b) /\ b < L /\ L < b + Size[m] + 1 => Oversized(m)
         /\ \A i \in 1..L : s[i].msg \in Messages /\ Oversized(s[i].msg)
<1>1. MaxLength \in Nat /\ Len(s) \in Nat /\ "line" \in Framings
  BY BoundsAssumption DEF Framings
<1>2. ASSUME NEW m \in Messages, NEW b \in Int, Frame("line", s, m, b), b < L
      PROVE  b <= 0
  <2> SUFFICES ASSUME b \in 1..L PROVE FALSE
    BY <1>1, <1>2
  <2>1. PICK o \in Messages : s[b] = Tok("line", o, Size[o] + 1)
    BY <1>1, <1>2, FrameBefore
  <2>2. Size[o] \in Nat
    BY SizeIsPositive
  <2>3. s[b] = Delimiter
    BY <2>1, <2>2 DEF Tok
  <2> QED
    BY <2>3
<1>3. ASSUME NEW m \in Messages, NEW b \in Int, Frame("line", s, m, b), b < L, L < b + Size[m] + 1
      PROVE  Oversized(m)
  <2>1. b <= 0 /\ Size[m] \in Nat
    BY <1>2, <1>3, SizeIsPositive
  <2> QED
    BY <1>1, <1>3, <2>1 DEF Oversized
<1>4. ASSUME NEW i \in 1..L PROVE s[i].msg \in Messages /\ Oversized(s[i].msg)
  <2>1. i \in 1..Len(s)
    BY <1>1
  <2>2. PICK m \in Messages, b \in Int :
            /\ Frame("line", s, m, b) /\ b < i /\ i <= b + Size[m] + 1
            /\ i - b \in 1..(Size[m] + 1) /\ s[i] = Tok("line", m, i - b)
    BY <1>1, <2>1, InAFrame
  <2>3. s[i].msg = m
    <3>1. s[i] # Delimiter
      OBVIOUS
    <3> QED
      BY <1>1, <2>2, <3>1, TokenOf DEF Framings
  <2>4. Size[m] \in Nat \ {0} /\ b < L
    BY <1>1, <2>2, SizeIsPositive
  <2>5. L < b + Size[m] + 1
    <3> SUFFICES ASSUME b + Size[m] + 1 <= L PROVE FALSE
      BY <2>2, <2>4
    <3>1. b + Size[m] + 1 \in 1..L
      BY <2>2, <2>4, SMTT(30)
    <3>2. b \in Int /\ Size[m] \in Nat
      BY <2>2, <2>4
    <3>3. Size[m] + 1 \in 1..(Size[m] + 1) /\ b + (Size[m] + 1) = b + Size[m] + 1 /\ ~(Size[m] + 1 <= Size[m])
      BY <3>2
    <3>4. s[b + Size[m] + 1] = Delimiter
      BY <2>2, <3>1, <3>3 DEF Frame, Tok
    <3> QED
      BY <3>1, <3>4
  <2> QED
    BY <1>3, <2>2, <2>3, <2>4, <2>5
<1> QED
  BY <1>3, <1>4

\* The payload cut out of a frame.
LEMMA PayloadOfFrame ==
  ASSUME NEW m \in Messages, NEW b \in Int, b <= 0, b + Size[m] >= 1,
         NEW p \in Seq(Tokens), Len(p) = b + Size[m], \A i \in 1..Len(p) : p[i] = Piece(m, i - b)
  PROVE  /\ p # << >> /\ p[1].msg = m
         /\ p \in Tails(m)
         /\ b = 0 => p = Whole(m)
<1>1. Size[m] \in Nat \ {0} /\ Len(p) \in Nat \ {0}
  BY SizeIsPositive
<1>2. p # << >> /\ p[1].msg = m
  <2>1. p[1] = Piece(m, 1 - b)
    BY <1>1
  <2>2. p # << >>
    BY <1>1
  <2> QED
    BY <2>1, <2>2 DEF Piece
<1>3. /\ Whole(m) \in Seq(Tokens) /\ Len(Whole(m)) = Size[m]
      /\ \A i \in 1..Size[m] : Whole(m)[i] = Piece(m, i)
  <2>1. \A i \in 1..Size[m] : Piece(m, i) \in Tokens
    <3>1. ASSUME NEW i \in 1..Size[m] PROVE Piece(m, i) \in Tokens
      <4>1. i \in 1..(Size[m] + 1) /\ Tok("line", m, i) = Piece(m, i)
        BY <1>1 DEF Tok
      <4> QED
        BY <4>1, TokFacts DEF Framings
    <3> QED
      BY <3>1
  <2> QED
    BY <1>1, <2>1 DEF Whole
<1>4. p = SubSeq(Whole(m), 1 - b, Size[m])
  <2> DEFINE q == SubSeq(Whole(m), 1 - b, Size[m])
  <2>1. 1 - b \in 1..Size[m] /\ Size[m] - (1 - b) + 1 = Len(p)
    BY <1>1
  <2>2. \A i \in (1 - b)..Size[m] : Whole(m)[i] \in Tokens
    BY <1>1, <1>3, <2>1
  <2>3. /\ q \in Seq(Tokens) /\ Len(q) = Len(p)
        /\ \A i \in 1..Len(p) : q[i] = Whole(m)[(1 - b) + i - 1]
    BY <1>1, <2>1, <2>2, SubSeqProperties
  <2> HIDE DEF q
  <2>4. ASSUME NEW i \in 1..Len(p) PROVE p[i] = q[i]
    <3>1. (1 - b) + i - 1 = i - b /\ i - b \in 1..Size[m]
      BY <1>1
    <3> QED
      BY <1>3, <2>3, <3>1
  <2>5. p = q
    BY <2>3, <2>4, SeqEqual
  <2> QED
    BY <2>5 DEF q
<1>5. p \in Tails(m)
  <2>1. 1 - b \in 1..Size[m]
    BY <1>1
  <2> QED
    BY <1>4, <2>1 DEF Tails
<1>6. ASSUME b = 0 PROVE p = Whole(m)
  <2>1. \A i \in 1..Len(p) : p[i] = Whole(m)[i]
    BY <1>1, <1>3, <1>6
  <2> QED
    BY <1>1, <1>3, <1>6, <2>1, SeqEqual
<1> QED
  BY <1>2, <1>5, <1>6

\* Conversely, what a payload of message m looks like.
LEMMA PayloadOfMessage ==
  ASSUME NEW m \in Messages, NEW p, p \in Tails(m) \/ p = Whole(m)
  PROVE  p # << >> /\ p[1].msg = m
<1>1. Size[m] \in Nat \ {0}
  BY SizeIsPositive
<1>2. Len(Whole(m)) = Size[m] /\ \A i \in 1..Size[m] : Whole(m)[i] = Piece(m, i)
  BY <1>1 DEF Whole
<1>3. CASE p = Whole(m)
  <2>1. Whole(m)[1] = Piece(m, 1)
    BY <1>1, <1>2
  <2>2. Whole(m) # << >>
    BY <1>1, <1>2
  <2> QED
    BY <1>3, <2>1, <2>2 DEF Piece
<1>4. CASE p \in Tails(m)
  <2>1. PICK i \in 1..Size[m] : p = SubSeq(Whole(m), i, Size[m])
    BY <1>4 DEF Tails
  <2>2. \A j \in i..Size[m] : Whole(m)[j] \in {Piece(m, k) : k \in 1..Size[m]}
    BY <1>1, <1>2, <2>1
  <2>3. /\ Len(SubSeq(Whole(m), i, Size[m])) = Size[m] - i + 1
        /\ \A j \in 1..(Size[m] - i + 1) : SubSeq(Whole(m), i, Size[m])[j] = Whole(m)[i + j - 1]
    BY <1>1, <2>1, <2>2, SubSeqProperties
  <2>4. Size[m] - i + 1 >= 1 /\ i + 1 - 1 = i /\ i \in 1..Size[m] /\ 1 \in 1..(Size[m] - i + 1)
    BY <1>1, <2>1
  <2>5. p[1] = Piece(m, i) /\ Len(p) >= 1
    BY <1>2, <2>1, <2>3, <2>4
  <2> QED
    BY <2>5 DEF Piece
<1> QED
  BY <1>3, <1>4

-----------------------------------------------------------------------------
(* Sequences                                                               *)

\* Elements of a concatenation.
LEMMA ConcatParts ==
  ASSUME NEW S, NEW p \in Seq(S), NEW q \in Seq(S)
  PROVE  /\ p \o q \in Seq(S) /\ Len(p \o q) = Len(p) + Len(q)
         /\ \A i \in 1..Len(p) : (p \o q)[i] = p[i]
         /\ \A i \in 1..Len(q) : (p \o q)[Len(p) + i] = q[i]
<1>1. Len(p) \in Nat /\ Len(q) \in Nat
  OBVIOUS
<1>2. /\ p \o q \in Seq(S) /\ Len(p \o q) = Len(p) + Len(q)
      /\ \A i \in 1..(Len(p) + Len(q)) : (p \o q)[i] = IF i <= Len(p) THEN p[i] ELSE q[i - Len(p)]
  BY ConcatProperties
<1>3. ASSUME NEW i \in 1..Len(p) PROVE (p \o q)[i] = p[i]
  <2>1. i \in 1..(Len(p) + Len(q)) /\ i <= Len(p)
    BY <1>1
  <2> QED
    BY <1>2, <2>1
<1>4. ASSUME NEW i \in 1..Len(q) PROVE (p \o q)[Len(p) + i] = q[i]
  <2>1. Len(p) + i \in 1..(Len(p) + Len(q)) /\ ~(Len(p) + i <= Len(p)) /\ (Len(p) + i) - Len(p) = i
    BY <1>1
  <2> QED
    BY <1>2, <2>1
<1> QED
  BY <1>2, <1>3, <1>4

\* The end of a sequence.
LEMMA SuffixParts ==
  ASSUME NEW S, NEW p \in Seq(S), NEW L \in 0..Len(p)
  PROVE  /\ SubSeq(p, L + 1, Len(p)) \in Seq(S)
         /\ Len(SubSeq(p, L + 1, Len(p))) = Len(p) - L
         /\ \A i \in 1..(Len(p) - L) : SubSeq(p, L + 1, Len(p))[i] = p[L + i]
<1> DEFINE t == SubSeq(p, L + 1, Len(p))
<1>1. Len(p) \in Nat /\ L \in Nat /\ L <= Len(p)
  OBVIOUS
<1>2. \A i \in (L + 1)..Len(p) : p[i] \in S
  OBVIOUS
<1>3. /\ t \in Seq(S)
      /\ Len(t) = IF L + 1 <= Len(p) THEN Len(p) - (L + 1) + 1 ELSE 0
      /\ \A i \in 1..(Len(p) - (L + 1) + 1) : t[i] = p[(L + 1) + i - 1]
  BY <1>1, <1>2, SubSeqProperties
<1> HIDE DEF t
<1>4. Len(p) - (L + 1) + 1 = Len(p) - L
  BY <1>1
<1>5. ASSUME NEW i \in 1..(Len(p) - L) PROVE t[i] = p[L + i]
  <2>1. (L + 1) + i - 1 = L + i
    BY <1>1
  <2> QED
    BY <1>3, <1>4, <2>1
<1>6. Len(t) = Len(p) - L
  BY <1>1, <1>3
<1> QED
  BY <1>3, <1>5, <1>6 DEF t

\* The end of a concatenation.
LEMMA SuffixOfConcat ==
  ASSUME NEW S, NEW p \in Seq(S), NEW q \in Seq(S), NEW L \in 0..Len(p)
  PROVE  SubSeq(p, L + 1, Len(p)) \o q = SubSeq(p \o q, L + 1, Len(p \o q))
<1> DEFINE t == SubSeq(p, L + 1, Len(p))
           u == SubSeq(p \o q, L + 1, Len(p \o q))
           c == p \o q
<1>1. Len(p) \in Nat /\ Len(q) \in Nat /\ L \in Nat /\ L <= Len(p)
  OBVIOUS
<1>2. /\ c \in Seq(S) /\ Len(c) = Len(p) + Len(q)
      /\ \A i \in 1..Len(p) : c[i] = p[i]
      /\ \A i \in 1..Len(q) : c[Len(p) + i] = q[i]
  BY ConcatParts
<1>3. t \in Seq(S) /\ Len(t) = Len(p) - L /\ \A i \in 1..(Len(p) - L) : t[i] = p[L + i]
  BY SuffixParts
<1>4. u \in Seq(S) /\ Len(u) = Len(c) - L /\ \A i \in 1..(Len(c) - L) : u[i] = c[L + i]
  <2>1. L \in 0..Len(c)
    BY <1>1, <1>2
  <2> QED
    BY <1>2, <2>1, SuffixParts
<1> HIDE DEF t, u, c
<1>5. /\ t \o q \in Seq(S) /\ Len(t \o q) = Len(t) + Len(q)
      /\ \A i \in 1..Len(t) : (t \o q)[i] = t[i]
      /\ \A i \in 1..Len(q) : (t \o q)[Len(t) + i] = q[i]
  <2>1. t \in Seq(S)
    BY <1>3
  <2> QED
    BY <2>1, ConcatParts
<1>6. Len(t \o q) = Len(u)
  BY <1>1, <1>2, <1>3, <1>4, <1>5
<1>7. ASSUME NEW i \in 1..Len(t \o q) PROVE (t \o q)[i] = u[i]
  <2>1. i \in 1..(Len(c) - L)
    BY <1>4, <1>6
  <2>2. CASE i <= Len(t)
    <3>1. i \in 1..(Len(p) - L) /\ i \in 1..Len(t) /\ L + i \in 1..Len(p)
      BY <1>1, <1>3, <2>2
    <3> QED
      BY <1>2, <1>3, <1>4, <1>5, <2>1, <3>1
  <2>3. CASE i > Len(t)
    <3> DEFINE k == i - Len(t)
    <3>1. k \in 1..Len(q) /\ Len(t) + k = i /\ L + i = Len(p) + k
      BY <1>1, <1>3, <1>5, <2>3
    <3> HIDE DEF k
    <3> QED
      BY <1>2, <1>4, <1>5, <2>1, <3>1
  <2> QED
    BY <1>3, <2>2, <2>3
<1>8. t \o q = u
  BY <1>4, <1>5, <1>6, <1>7, SeqEqual
<1> QED
  BY <1>8 DEF t, u, c

\* A chunk that moves from the wire to the buffer leaves the stream as it is.
LEMMA MovedChunk ==
  ASSUME NEW S, NEW p \in Seq(S), NEW q \in Seq(S), NEW k \in 1..Len(q)
  PROVE  /\ p \o SubSeq(q, 1, k) \in Seq(S) /\ SubSeq(q, k + 1, Len(q)) \in Seq(S)
         /\ (p \o SubSeq(q, 1, k)) \o SubSeq(q, k + 1, Len(q)) = p \o q
<1> DEFINE a == SubSeq(q, 1, k)
           b == SubSeq(q, k + 1, Len(q))
           x == p \o a
           y == x \o b
           z == p \o q
<1>1. Len(p) \in Nat /\ Len(q) \in Nat /\ k \in Nat \ {0} /\ k <= Len(q)
  OBVIOUS
<1>2. a \in Seq(S) /\ Len(a) = k /\ \A i \in 1..k : a[i] = q[i]
  <2>1. \A i \in 1..k : q[i] \in S
    OBVIOUS
  <2>2. a \in Seq(S) /\ Len(a) = k - 1 + 1 /\ \A i \in 1..(k - 1 + 1) : a[i] = q[1 + i - 1]
    BY <1>1, <2>1, SubSeqProperties
  <2> HIDE DEF a
  <2> QED
    BY <1>1, <2>2
<1>3. b \in Seq(S) /\ Len(b) = Len(q) - k /\ \A i \in 1..(Len(q) - k) : b[i] = q[k + i]
  <2>1. k \in 0..Len(q)
    BY <1>1
  <2> QED
    BY <2>1, SuffixParts
<1>4. /\ z \in Seq(S) /\ Len(z) = Len(p) + Len(q)
      /\ \A i \in 1..Len(p) : z[i] = p[i]
      /\ \A i \in 1..Len(q) : z[Len(p) + i] = q[i]
  BY ConcatParts
<1> HIDE DEF a, b, z
<1>5. /\ x \in Seq(S) /\ Len(x) = Len(p) + Len(a)
      /\ \A i \in 1..Len(p) : x[i] = p[i]
      /\ \A i \in 1..Len(a) : x[Len(p) + i] = a[i]
  <2>1. a \in Seq(S)
    BY <1>2
  <2> QED
    BY <2>1, ConcatParts
<1> HIDE DEF x
<1>6. /\ y \in Seq(S) /\ Len(y) = Len(x) + Len(b)
      /\ \A i \in 1..Len(x) : y[i] = x[i]
      /\ \A i \in 1..Len(b) : y[Len(x) + i] = b[i]
  <2>1. x \in Seq(S) /\ b \in Seq(S)
    BY <1>3, <1>5
  <2> QED
    BY <2>1, ConcatParts
<1> HIDE DEF y
<1>7. Len(y) = Len(z)
  BY <1>1, <1>2, <1>3, <1>4, <1>5, <1>6
<1>8. ASSUME NEW i \in 1..Len(y) PROVE y[i] = z[i]
  <2>1. CASE i <= Len(p)
    <3>1. i \in 1..Len(p) /\ i \in 1..Len(x)
      BY <1>1, <1>2, <1>5, <2>1
    <3> QED
      BY <1>4, <1>5, <1>6, <3>1
  <2>2. CASE i > Len(p)
    <3>1. PICK j \in 1..Len(q) : i = Len(p) + j
      <4>1. i - Len(p) \in 1..Len(q) /\ i = Len(p) + (i - Len(p))
        BY <1>1, <1>4, <1>7, <2>2
      <4> QED
        BY <4>1
    <3>2. z[i] = q[j]
      BY <1>4, <3>1
    <3>3. CASE j <= k
      <4>1. j \in 1..k /\ i \in 1..Len(x)
        BY <1>1, <1>2, <1>5, <3>1, <3>3
      <4> QED
        BY <1>2, <1>5, <1>6, <3>1, <3>2, <4>1
    <3>4. CASE j > k
      <4>1. PICK l \in 1..(Len(q) - k) : j = k + l
        <5>1. j - k \in 1..(Len(q) - k) /\ j = k + (j - k)
          BY <1>1, <3>1, <3>4
        <5> QED
          BY <5>1
      <4>2. i = Len(x) + l
        BY <1>1, <1>2, <1>5, <3>1, <4>1
      <4> QED
        BY <1>3, <1>6, <3>2, <4>1, <4>2
    <3> QED
      BY <1>1, <3>1, <3>3, <3>4
  <2> QED
    BY <1>1, <2>1, <2>2
<1>9. y = z
  BY <1>4, <1>6, <1>7, <1>8, SeqEqual
<1> QED
  BY <1>3, <1>5, <1>9 DEF a, b, x, y, z

-----------------------------------------------------------------------------
(* The invariant                                                           *)

Stream == buffer \o wire

\* What was received of a frame with a length prefix is less than the frame.
StreamInv ==
    /\ framing \in Framings
    /\ next \in 1..(Len(Size) + 1)
    /\ buffer \in Seq(Tokens) /\ wire \in Seq(Tokens)
    /\ InFrames(framing, next, Stream) /\ InOrder(Stream)
    /\ framing = "length" /\ buffer # << >> => Len(buffer) <= buffer[1].at

StateInv ==
    /\ receiver \in {"connect", "recv", "split", "route", "wait", "ended"}
    /\ stopped \in BOOLEAN
    /\ attempts \in Nat /\ losses \in Nat /\ attempts <= losses /\ losses <= MaxLosses
    /\ queue \in Seq(Seq(Tokens)) /\ Len(queue) <= QueueSize
    /\ routed \in Seq(Seq(Tokens))
    /\ message \in Seq(Tokens)
    /\ cut \subseteq Messages
    /\ receiver = "route" <=> message # << >>
    /\ receiver = "split" => framing = "line"

IsPayload(p) ==
    \E m \in 1..(next - 1) : IF framing = "line" /\ Oversized(m) THEN p \in Tails(m) ELSE p = Whole(m)

\* Payloads were sent, and are routed in the order in which they were.
PayloadInv ==
    /\ message # << >> => IsPayload(message)
    /\ \A i \in 1..Len(routed) : IsPayload(routed[i])
    /\ \A p \in refused : IsPayload(p)
    /\ \A i, j \in 1..Len(routed) : i < j => routed[i][1].msg < routed[j][1].msg
    /\ message # << >> => \A i \in 1..Len(routed) : routed[i][1].msg < message[1].msg
    /\ \A j \in 1..Len(Stream) : Stream[j].msg # 0 =>
          /\ \A i \in 1..Len(routed) : routed[i][1].msg < Stream[j].msg
          /\ message # << >> => message[1].msg < Stream[j].msg

Accounted(m) ==
    \/ \E j \in 1..Len(Stream) : Stream[j].msg = m
    \/ message # << >> /\ message[1].msg = m
    \/ \E i \in 1..Len(routed) : routed[i] = Whole(m)
    \/ Whole(m) \in refused
    \/ m \in cut
    \/ Oversized(m)

AccountInv == \A m \in 1..(next - 1) : Accounted(m)

SourceInv == StreamInv /\ StateInv /\ PayloadInv /\ AccountInv

\* A payload is of a message that was sent.
LEMMA PayloadSent ==
  ASSUME StreamInv, NEW p, IsPayload(p)
  PROVE  \E m \in Messages :
            /\ m < next /\ p # << >> /\ p[1].msg = m
            /\ ~Oversized(m) => p = Whole(m)
<1>1. PICK m \in 1..(next - 1) :
        IF framing = "line" /\ Oversized(m) THEN p \in Tails(m) ELSE p = Whole(m)
  BY DEF IsPayload
<1>2. m \in Messages /\ m < next
  BY SizeAssumption DEF StreamInv, Messages
<1>3. p # << >> /\ p[1].msg = m
  BY <1>1, <1>2, PayloadOfMessage
<1> QED
  BY <1>1, <1>2, <1>3

\* The stream consists of tokens of messages that were sent.
LEMMA StreamTokens ==
  ASSUME StreamInv
  PROVE  /\ Stream \in Seq(Tokens) /\ Len(Stream) = Len(buffer) + Len(wire)
         /\ \A j \in 1..Len(buffer) : Stream[j] = buffer[j]
         /\ \A j \in 1..Len(wire) : Stream[Len(buffer) + j] = wire[j]
         /\ \A j \in 1..Len(Stream) : Stream[j].msg \in Int /\ Stream[j].msg < next /\ Stream[j].msg >= 0
<1>1. /\ Stream \in Seq(Tokens) /\ Len(Stream) = Len(buffer) + Len(wire)
      /\ \A j \in 1..Len(buffer) : Stream[j] = buffer[j]
      /\ \A j \in 1..Len(wire) : Stream[Len(buffer) + j] = wire[j]
  BY ConcatParts DEF StreamInv, Stream
<1> HIDE DEF Stream
<1>2. ASSUME NEW j \in 1..Len(Stream)
      PROVE  Stream[j].msg \in Int /\ Stream[j].msg < next /\ Stream[j].msg >= 0
  <2>1. PICK m \in Messages, b \in Int :
            m < next /\ j - b \in 1..(Size[m] + 1) /\ Stream[j] = Tok(framing, m, j - b)
    BY <1>1, InAFrame DEF StreamInv
  <2>2. Stream[j].msg \in {0, m} /\ m \in Nat
    <3>1. framing \in Framings /\ m \in Nat
      BY SizeIsPositive DEF StreamInv
    <3>2. Stream[j].msg = 0 \/ Stream[j].msg = m
      BY <2>1, <3>1, TokenOf
    <3> QED
      BY <2>1, <3>1, <3>2
  <2>3. next \in Nat \ {0}
    BY SizeAssumption DEF StreamInv
  <2> QED
    BY <2>1, <2>2, <2>3
<1> QED
  BY <1>1, <1>2

\* Nothing new comes: payloads stay what they are.
LEMMA PayloadKept ==
  ASSUME PayloadInv, UNCHANGED <<framing, next, routed, refused>>,
         message' = message \/ message' = << >>,
         \A j \in 1..Len(Stream') : \E i \in 1..Len(Stream) : Stream'[j] = Stream[i]
  PROVE  PayloadInv'
<1>1. \A p : IsPayload(p)' <=> IsPayload(p)
  BY DEF IsPayload
<1>2. ASSUME NEW j \in 1..Len(Stream'), Stream'[j].msg # 0
      PROVE  /\ \A i \in 1..Len(routed') : routed'[i][1].msg < Stream'[j].msg
             /\ message' # << >> => message'[1].msg < Stream'[j].msg
  <2>1. PICK k \in 1..Len(Stream) : Stream'[j] = Stream[k]
    OBVIOUS
  <2> QED
    BY <1>2, <2>1 DEF PayloadInv
<1> HIDE DEF IsPayload, Stream
<1> QED
  BY <1>1, <1>2 DEF PayloadInv

\* Nothing is lost unless it is counted.
LEMMA AccountKept ==
  ASSUME AccountInv, UNCHANGED <<next, routed, refused, message>>, cut \subseteq cut',
         \A i \in 1..Len(Stream) :
            \/ Stream[i].msg = 0 \/ Stream[i].msg \in cut' \/ Oversized(Stream[i].msg)
            \/ \E j \in 1..Len(Stream') : Stream'[j] = Stream[i],
         next \in Nat
  PROVE  AccountInv'
<1> SUFFICES ASSUME NEW m \in 1..(next - 1) PROVE Accounted(m)'
  BY DEF AccountInv
<1>1. Accounted(m) /\ m # 0
  BY DEF AccountInv
<1> HIDE DEF Stream
<1>2. CASE \E j \in 1..Len(Stream) : Stream[j].msg = m
  BY <1>1, <1>2 DEF Accounted
<1>3. CASE ~\E j \in 1..Len(Stream) : Stream[j].msg = m
  BY <1>1, <1>3 DEF Accounted
<1> QED
  BY <1>2, <1>3

\* A step that leaves the stream and the payloads alone.
LEMMA StreamAlone ==
  ASSUME SourceInv, UNCHANGED <<framing, wire, buffer, message, next, cut, routed, refused>>, StateInv'
  PROVE  SourceInv'
<1>1. Stream' = Stream
  BY DEF Stream
<1>2. StreamInv'
  BY <1>1 DEF SourceInv, StreamInv
<1>3. PayloadInv'
  BY <1>1, PayloadKept DEF SourceInv
<1>4. next \in Nat
  BY SizeAssumption DEF SourceInv, StreamInv
<1>5. AccountInv'
  BY <1>1, <1>4, AccountKept DEF SourceInv
<1> QED
  BY <1>2, <1>3, <1>5 DEF SourceInv

\* A step that takes tokens off the stream without routing them.
LEMMA StreamShortened ==
  ASSUME SourceInv, UNCHANGED <<framing, next, routed, refused, message>>, cut \subseteq cut',
         StreamInv', StateInv',
         \A j \in 1..Len(Stream') : \E i \in 1..Len(Stream) : Stream'[j] = Stream[i],
         \A i \in 1..Len(Stream) :
            \/ Stream[i].msg = 0 \/ Stream[i].msg \in cut' \/ Oversized(Stream[i].msg)
            \/ \E j \in 1..Len(Stream') : Stream'[j] = Stream[i]
  PROVE  SourceInv'
<1>1. PayloadInv'
  BY PayloadKept DEF SourceInv
<1>2. next \in Nat
  BY SizeAssumption DEF SourceInv, StreamInv
<1>3. AccountInv'
  BY <1>2, AccountKept DEF SourceInv
<1> QED
  BY <1>1, <1>3 DEF SourceInv

\* A step that cuts the payload of a message off the front of the stream.
LEMMA PayloadTaken ==
  ASSUME SourceInv, UNCHANGED <<framing, next, routed, refused, cut>>, message = << >>,
         StreamInv', StateInv', NEW m \in Messages, m < next,
         IsPayload(message'), message'[1].msg = m,
         \E i \in 1..Len(Stream) : Stream[i].msg = m,
         \A j \in 1..Len(Stream') :
            /\ \E i \in 1..Len(Stream) : Stream'[j] = Stream[i]
            /\ Stream'[j].msg # 0 => m < Stream'[j].msg,
         \A i \in 1..Len(Stream) :
            \/ Stream[i].msg \in {0, m}
            \/ \E j \in 1..Len(Stream') : Stream'[j] = Stream[i]
  PROVE  SourceInv'
<1>1. \A p : IsPayload(p)' <=> IsPayload(p)
  BY DEF IsPayload
<1>2. m # 0 /\ message' # << >>
  <2>1. StreamInv
    BY DEF SourceInv
  <2> QED
    BY <2>1, PayloadSent, SizeIsPositive
<1> HIDE DEF IsPayload, Stream
<1>3. \A i \in 1..Len(routed) : routed[i][1].msg < m
  BY <1>2 DEF SourceInv, PayloadInv
<1>4. ASSUME NEW j \in 1..Len(Stream'), Stream'[j].msg # 0
      PROVE  /\ \A i \in 1..Len(routed') : routed'[i][1].msg < Stream'[j].msg
             /\ message'[1].msg < Stream'[j].msg
  <2>1. PICK i \in 1..Len(Stream) : Stream'[j] = Stream[i]
    OBVIOUS
  <2>2. \A k \in 1..Len(routed) : routed[k][1].msg < Stream[i].msg
    BY <1>4, <2>1 DEF SourceInv, PayloadInv
  <2> QED
    BY <1>4, <2>1, <2>2
<1>5. PayloadInv'
  BY <1>1, <1>2, <1>3, <1>4 DEF SourceInv, PayloadInv
<1>6. AccountInv'
  <2> SUFFICES ASSUME NEW o \in 1..(next - 1) PROVE Accounted(o)'
    BY DEF AccountInv
  <2>1. Accounted(o) /\ o # 0
    BY DEF SourceInv, AccountInv
  <2>2. CASE \E j \in 1..Len(Stream) : Stream[j].msg = o
    <3>1. PICK i \in 1..Len(Stream) : Stream[i].msg = o
      BY <2>2
    <3>2. o = m \/ \E j \in 1..Len(Stream') : Stream'[j].msg = o
      BY <2>1, <3>1
    <3> QED
      BY <1>2, <3>2 DEF Accounted
  <2>3. CASE ~\E j \in 1..Len(Stream) : Stream[j].msg = o
    BY <2>1, <2>3 DEF Accounted
  <2> QED
    BY <2>2, <2>3
<1> QED
  BY <1>5, <1>6 DEF SourceInv

-----------------------------------------------------------------------------
(* The steps                                                               *)

\* At first nothing has been sent.
LEMMA SourceInit == Init => SourceInv
<1> SUFFICES ASSUME Init PROVE SourceInv
  OBVIOUS
<1>1. << >> \in Seq(Tokens) /\ << >> \in Seq(Seq(Tokens)) /\ Len(<< >>) = 0
  OBVIOUS
<1>2. Stream = << >>
  <2>1. Stream = << >> \o << >>
    BY DEF Init, Stream
  <2> QED
    BY <1>1, <2>1
<1>3. 1 \in 1..(Len(Size) + 1) /\ 1..Len(<< >>) = {} /\ 1..0 = {} /\ 1 - 1 = 0
  BY <1>1, SizeAssumption
<1>4. StreamInv
  BY <1>1, <1>2, <1>3 DEF Init, StreamInv, Framings, InFrames, InOrder
<1>5. StateInv
  <2>1. queue = << >> /\ routed = << >> /\ message = << >> /\ receiver = "connect" /\ cut = {}
    BY DEF Init
  <2>2. stopped \in BOOLEAN /\ attempts = 0 /\ losses = 0
    BY DEF Init
  <2>3. attempts \in Nat /\ losses \in Nat /\ attempts <= losses /\ losses <= MaxLosses
    BY <2>2, BoundsAssumption
  <2>4. Len(queue) <= QueueSize
    BY <1>1, <2>1, BoundsAssumption
  <2> QED
    BY <1>1, <2>1, <2>2, <2>3, <2>4, Zenon DEF StateInv
<1>6. PayloadInv
  BY <1>2, <1>3 DEF Init, PayloadInv
<1>7. AccountInv
  BY <1>3 DEF Init, AccountInv
<1> QED
  BY <1>4, <1>5, <1>6, <1>7 DEF SourceInv

\* The feed sends a message.
LEMMA SendStep ==
  ASSUME SourceInv, Send
  PROVE  SourceInv'
<1> DEFINE f == Framed(next)
<1>1. /\ next \in Messages /\ wire' = wire \o f /\ next' = next + 1
      /\ UNCHANGED <<framing, receiver, stopped, attempts, losses, buffer, message, queue, routed, refused, cut>>
  BY DEF Send, queueVars
<1>2. next \in Nat \ {0} /\ Size[next] \in Nat \ {0} /\ Len(Size) \in Nat /\ next <= Len(Size)
  BY <1>1, SizeIsPositive, SizeAssumption DEF Messages
<1>3. f \in Seq(Tokens) /\ Len(f) = Size[next] + 1 /\ \A k \in 1..(Size[next] + 1) : f[k] = Tok(framing, next, k)
  BY <1>1, FramedIsTokens DEF SourceInv, StreamInv
<1> HIDE DEF f
<1>4. wire \in Seq(Tokens) /\ buffer \in Seq(Tokens) /\ f \in Seq(Tokens)
  BY <1>3 DEF SourceInv, StreamInv
<1>5. Stream' = Stream \o f
  <2>1. Stream' = buffer \o (wire \o f)
    BY <1>1 DEF Stream
  <2>2. (buffer \o wire) \o f = buffer \o (wire \o f)
    BY <1>4, ConcatAssociative
  <2> QED
    BY <2>1, <2>2 DEF Stream
<1>6. StreamInv /\ framing \in Framings
  BY DEF SourceInv, StreamInv
<1>7. /\ Stream \in Seq(Tokens)
      /\ \A j \in 1..Len(Stream) : Stream[j].msg \in Int /\ Stream[j].msg < next
  BY <1>6, StreamTokens
<1> HIDE DEF Stream
<1>8. /\ Len(Stream') = Len(Stream) + Size[next] + 1
      /\ \A j \in 1..Len(Stream) : Stream'[j] = Stream[j]
      /\ \A k \in 1..(Size[next] + 1) : Stream'[Len(Stream) + k] = Tok(framing, next, k)
  <2>1. Stream \in Seq(Tokens) /\ f \in Seq(Tokens)
    BY <1>3, <1>7
  <2>2. /\ Len(Stream \o f) = Len(Stream) + Len(f)
        /\ \A j \in 1..Len(Stream) : (Stream \o f)[j] = Stream[j]
        /\ \A k \in 1..Len(f) : (Stream \o f)[Len(Stream) + k] = f[k]
    BY <2>1, ConcatParts
  <2>3. Len(Stream) \in Nat
    BY <2>1
  <2>4. Len(Stream') = Len(Stream) + Size[next] + 1
    BY <1>2, <1>3, <1>5, <2>2, <2>3
  <2>5. ASSUME NEW k \in 1..(Size[next] + 1) PROVE Stream'[Len(Stream) + k] = Tok(framing, next, k)
    BY <1>3, <1>5, <2>2
  <2> QED
    BY <1>5, <2>2, <2>4, <2>5
<1>9. StreamInv'
  <2>1. wire' \in Seq(Tokens)
    BY <1>1, <1>4, ConcatProperties
  <2>2. InFrames(framing, next + 1, Stream \o f) /\ InOrder(Stream \o f)
    BY <1>1, <1>3, <1>6, <1>7, FrameSent DEF StreamInv
  <2>3. next + 1 \in 1..(Len(Size) + 1)
    BY <1>2
  <2> QED
    BY <1>1, <1>5, <1>6, <2>1, <2>2, <2>3 DEF StreamInv
<1>10. StateInv'
  BY <1>1 DEF SourceInv, StateInv
<1>11. ASSUME NEW p, IsPayload(p) PROVE IsPayload(p)' /\ p[1].msg < next
  <2>1. 1..(next - 1) \subseteq 1..((next + 1) - 1)
    BY <1>2
  <2>2. p[1].msg < next
    BY <1>6, <1>11, PayloadSent
  <2> QED
    BY <1>1, <1>11, <2>1, <2>2 DEF IsPayload
<1>12. ASSUME NEW j \in 1..Len(Stream'), Stream'[j].msg # 0
       PROVE  /\ \A i \in 1..Len(routed) : routed[i][1].msg < Stream'[j].msg
              /\ message # << >> => message[1].msg < Stream'[j].msg
  <2>1. CASE j \in 1..Len(Stream)
    BY <1>8, <1>12, <2>1 DEF SourceInv, PayloadInv
  <2>2. CASE j \notin 1..Len(Stream)
    <3>1. PICK k \in 1..(Size[next] + 1) : j = Len(Stream) + k
      <4>1. j - Len(Stream) \in 1..(Size[next] + 1) /\ j = Len(Stream) + (j - Len(Stream))
        BY <1>2, <1>7, <1>8, <2>2
      <4> QED
        BY <4>1
    <3>2. Stream'[j] = Tok(framing, next, k)
      BY <1>8, <3>1
    <3>3. Stream'[j].msg = next
      BY <1>1, <1>6, <1>12, <3>2, TokenOf
    <3> QED
      BY <1>11, <3>3 DEF SourceInv, PayloadInv
  <2> QED
    BY <2>1, <2>2
<1>13. PayloadInv'
  BY <1>1, <1>11, <1>12 DEF SourceInv, PayloadInv
<1>14. AccountInv'
  <2> SUFFICES ASSUME NEW m \in 1..(next' - 1) PROVE Accounted(m)'
    BY DEF AccountInv
  <2>1. CASE m = next
    <3>1. 1 \in 1..(Size[next] + 1) /\ 1 # Size[next] + 1 /\ Len(Stream) + 1 \in 1..Len(Stream')
      BY <1>2, <1>7, <1>8
    <3>2. Stream'[Len(Stream) + 1] = Tok(framing, next, 1)
      BY <1>8, <3>1
    <3>3. Stream'[Len(Stream) + 1].msg = next
      BY <1>1, <1>6, <3>1, <3>2, TokFacts
    <3> QED
      BY <2>1, <3>1, <3>3 DEF Accounted
  <2>2. CASE m # next
    <3>1. m \in 1..(next - 1)
      BY <1>1, <1>2, <2>2
    <3>2. Accounted(m)
      BY <3>1 DEF SourceInv, AccountInv
    <3>3. 1..Len(Stream) \subseteq 1..Len(Stream')
      BY <1>2, <1>7, <1>8
    <3> QED
      BY <1>1, <1>8, <3>2, <3>3 DEF Accounted
  <2> QED
    BY <2>1, <2>2
<1> QED
  BY <1>9, <1>10, <1>13, <1>14 DEF SourceInv

\* A chunk arrives.
LEMMA ChunkStep ==
  ASSUME SourceInv, ReceiveChunk
  PROVE  SourceInv'
<1>1. PICK k \in 1..Len(wire) :
        /\ buffer' = buffer \o SubSeq(wire, 1, k)
        /\ wire' = SubSeq(wire, k + 1, Len(wire))
  BY DEF ReceiveChunk
<1>2. /\ receiver = "recv" /\ framing = "line" /\ receiver' = "split"
      /\ UNCHANGED <<framing, stopped, attempts, losses, message, next, cut, queue, routed, refused>>
  BY DEF ReceiveChunk, feedVars, queueVars
<1>3. buffer \in Seq(Tokens) /\ wire \in Seq(Tokens) /\ next \in Nat
  BY SizeAssumption DEF SourceInv, StreamInv
<1>4. buffer' \in Seq(Tokens) /\ wire' \in Seq(Tokens) /\ buffer' \o wire' = buffer \o wire
  <2> HIDE DEF SourceInv
  <2> QED
    BY <1>1, <1>3, MovedChunk, ZenonT(30)
<1>5. Stream' = Stream
  BY <1>4 DEF Stream
<1>6. StreamInv'
  BY <1>2, <1>4, <1>5 DEF SourceInv, StreamInv
<1>7. StateInv'
  BY <1>2 DEF SourceInv, StateInv
<1>8. PayloadInv'
  BY <1>2, <1>5, PayloadKept DEF SourceInv
<1>9. AccountInv'
  BY <1>2, <1>3, <1>5, AccountKept DEF SourceInv
<1> QED
  BY <1>6, <1>7, <1>8, <1>9 DEF SourceInv

\* A set of numbers that is not empty has a least element.
LEMMA LeastNumber ==
  ASSUME NEW T, T \subseteq Nat, T # {}
  PROVE  \E x \in T : \A y \in T : x <= y
<1>1. PICK x \in T : \A y \in T : ~(<<y, x>> \in OpToRel(<, Nat))
  BY NatLessThanWellFounded, WFMin
<1>2. ASSUME NEW y \in T PROVE x <= y
  <2>1. x \in Nat /\ y \in Nat
    OBVIOUS
  <2>2. ~(y < x)
    BY <1>1, <2>1 DEF OpToRel
  <2> QED
    BY <2>1, <2>2
<1> QED
  BY <1>2

\* A line is split off the buffer.
LEMMA SplitStep ==
  ASSUME SourceInv, SplitLine
  PROVE  SourceInv'
<1> DEFINE at == CHOOSE i \in DOMAIN buffer :
                    buffer[i] = Delimiter /\ \A j \in 1..(i - 1) : buffer[j] # Delimiter
<1>1. /\ receiver = "split"
      /\ message' = SubSeq(buffer, 1, at - 1) /\ buffer' = SubSeq(buffer, at + 1, Len(buffer))
      /\ receiver' = IF message' = << >> THEN "split" ELSE "route"
      /\ UNCHANGED <<framing, stopped, attempts, losses, wire, next, cut, queue, routed, refused>>
  BY DEF SplitLine, feedVars, queueVars
<1>2. framing = "line" /\ message = << >>
  BY <1>1 DEF SourceInv, StateInv
<1>3. /\ StreamInv /\ buffer \in Seq(Tokens) /\ wire \in Seq(Tokens)
      /\ next \in 1..(Len(Size) + 1) /\ next \in Nat /\ "line" \in Framings
  BY SizeAssumption DEF SourceInv, StreamInv, Framings
<1>4. at \in 1..Len(buffer) /\ buffer[at] = Delimiter /\ \A j \in 1..(at - 1) : buffer[j] # Delimiter
  <2> DEFINE T == {i \in 1..Len(buffer) : buffer[i] = Delimiter}
  <2>1. DOMAIN buffer = 1..Len(buffer) /\ Len(buffer) \in Nat
    BY <1>3
  <2>2. T # {} /\ T \subseteq Nat
    BY <2>1, SMTT(30) DEF SplitLine, HasLine
  <2> HIDE DEF T
  <2>3. PICK x \in T : \A y \in T : x <= y
    BY <2>2, LeastNumber
  <2> USE DEF T
  <2>4. ASSUME NEW j \in 1..(x - 1) PROVE buffer[j] # Delimiter
    <3>1. j \in 1..Len(buffer) /\ ~(x <= j)
      BY <2>1
    <3> QED
      BY <2>3, <3>1
  <2>5. x \in DOMAIN buffer /\ buffer[x] = Delimiter /\ \A j \in 1..(x - 1) : buffer[j] # Delimiter
    BY <2>1, <2>4
  <2>6. at \in DOMAIN buffer /\ buffer[at] = Delimiter /\ \A j \in 1..(at - 1) : buffer[j] # Delimiter
    BY <2>5
  <2> HIDE DEF at
  <2> QED
    BY <2>1, <2>6
<1> HIDE DEF at
<1>5. /\ Stream \in Seq(Tokens) /\ Len(Stream) = Len(buffer) + Len(wire)
      /\ \A j \in 1..Len(buffer) : Stream[j] = buffer[j]
  BY <1>3, StreamTokens
<1>6. Len(buffer) \in Nat /\ Len(wire) \in Nat /\ Len(Stream) \in Nat
  BY <1>3, <1>5
<1>7. Stream' = SubSeq(Stream, at + 1, Len(Stream))
  <2>1. at \in 0..Len(buffer)
    BY <1>4, <1>6
  <2>2. SubSeq(buffer, at + 1, Len(buffer)) \o wire = SubSeq(buffer \o wire, at + 1, Len(buffer \o wire))
    BY <1>3, <2>1, SuffixOfConcat
  <2> QED
    BY <1>1, <2>2 DEF Stream
<1>8. /\ buffer' \in Seq(Tokens)
      /\ message' \in Seq(Tokens) /\ Len(message') = at - 1
      /\ \A i \in 1..(at - 1) : message'[i] = buffer[i]
  <2>1. at \in 0..Len(buffer) /\ at \in Nat
    BY <1>4, <1>6
  <2>2. buffer' \in Seq(Tokens)
    BY <1>1, <1>3, <2>1, SuffixParts
  <2> DEFINE t == SubSeq(buffer, 1, at - 1)
  <2>3. \A i \in 1..(at - 1) : buffer[i] \in Tokens
    BY <1>3, <1>4, <1>6
  <2>4. /\ t \in Seq(Tokens) /\ Len(t) = IF 1 <= at - 1 THEN (at - 1) - 1 + 1 ELSE 0
        /\ \A i \in 1..((at - 1) - 1 + 1) : t[i] = buffer[1 + i - 1]
    BY <2>1, <2>3, SubSeqProperties
  <2>5. (at - 1) - 1 + 1 = at - 1 /\ (~(1 <= at - 1) => at - 1 = 0)
    BY <1>4, <2>1
  <2> HIDE DEF t
  <2>6. Len(t) = at - 1
    BY <2>4, <2>5
  <2>7. ASSUME NEW i \in 1..(at - 1) PROVE t[i] = buffer[i]
    <3>1. 1 + i - 1 = i
      OBVIOUS
    <3> QED
      BY <2>4, <2>5, <3>1
  <2> QED
    BY <1>1, <2>2, <2>4, <2>6, <2>7 DEF t
<1> HIDE DEF Stream
<1>9. at \in 1..Len(Stream) /\ Stream[at] = Delimiter /\ \A j \in 1..(at - 1) : Stream[j] # Delimiter
  <2>1. at \in 1..Len(Stream) /\ 1..(at - 1) \subseteq 1..Len(buffer)
    BY <1>4, <1>5, <1>6
  <2> QED
    BY <1>4, <1>5, <2>1
<1>10. InFrames("line", next, Stream) /\ InOrder(Stream)
  BY <1>2, <1>3 DEF StreamInv
<1>11. PICK m \in Messages, b \in Int :
        /\ m < next /\ Frame("line", Stream, m, b) /\ b <= 0 /\ at = b + Size[m] + 1
        /\ \A i \in 1..(at - 1) : Stream[i] = Piece(m, i - b)
  BY <1>3, <1>5, <1>9, <1>10, LineFound
<1>12. m \in Nat \ {0} /\ Size[m] \in Nat \ {0} /\ b + Size[m] + 1 >= 1
  BY <1>9, <1>11, SizeIsPositive
<1>13. ASSUME NEW o \in Messages, NEW c \in Int, Frame("line", Stream, o, c), c < at, at < c + Size[o] + 1
       PROVE  FALSE
  BY <1>3, <1>5, <1>11, <1>12, <1>13, NoOverlap
<1>14. /\ Stream' \in Seq(Tokens) /\ Len(Stream') = Len(Stream) - at
       /\ \A i \in 1..(Len(Stream) - at) : Stream'[i] = Stream[at + i]
       /\ InFrames("line", next, Stream') /\ InOrder(Stream')
  <2>1. at \in 0..Len(Stream)
    BY <1>6, <1>9
  <2> QED
    BY <1>3, <1>5, <1>7, <1>10, <1>13, <2>1, Rest
<1>15. StreamInv'
  BY <1>1, <1>2, <1>3, <1>8, <1>14 DEF StreamInv
<1>16. StateInv'
  BY <1>1, <1>2, <1>8 DEF SourceInv, StateInv
<1>17. \A j \in 1..Len(Stream') : at + j \in 1..Len(Stream) /\ Stream'[j] = Stream[at + j]
  BY <1>6, <1>9, <1>14
<1>18. ASSUME NEW i \in 1..Len(Stream), i > at PROVE \E j \in 1..Len(Stream') : Stream'[j] = Stream[i]
  <2>1. i - at \in 1..Len(Stream') /\ at + (i - at) = i
    BY <1>6, <1>9, <1>14, <1>18
  <2> QED
    BY <1>17, <2>1
<1>19. Stream[at].msg = 0
  BY <1>9 DEF Delimiter
<1>20. CASE message' = << >>
  <2>1. at = 1
    BY <1>6, <1>8, <1>9, <1>20
  <2>2. ASSUME NEW i \in 1..Len(Stream)
        PROVE  Stream[i].msg = 0 \/ \E j \in 1..Len(Stream') : Stream'[j] = Stream[i]
    <3>1. i = at \/ i > at
      BY <2>1
    <3> QED
      BY <1>18, <1>19, <3>1
  <2>3. \A j \in 1..Len(Stream') : \E i \in 1..Len(Stream) : Stream'[j] = Stream[i]
    BY <1>17
  <2> QED
    BY <1>1, <1>2, <1>15, <1>16, <1>20, <2>2, <2>3, StreamShortened
<1>21. CASE message' # << >>
  <2>1. at - 1 >= 1 /\ at - 1 = b + Size[m]
    <3>1. Len(message') # 0
      BY <1>8, <1>21
    <3>2. at \in Nat /\ at >= 1
      BY <1>9
    <3> QED
      BY <1>8, <1>11, <1>12, <3>1, <3>2
  <2>2. ASSUME NEW i \in 1..(at - 1) PROVE message'[i] = Piece(m, i - b) /\ Stream[i].msg = m
    <3>1. i \in 1..Len(buffer)
      BY <1>4, <1>6
    <3>2. Stream[i] = Piece(m, i - b) /\ message'[i] = Stream[i]
      BY <1>5, <1>8, <1>11, <3>1
    <3> QED
      BY <3>2 DEF Piece
  <2>3. message'[1].msg = m /\ message' \in Tails(m) /\ (b = 0 => message' = Whole(m))
    <3>1. b + Size[m] >= 1 /\ Len(message') = b + Size[m]
      BY <1>8, <2>1
    <3>2. \A i \in 1..Len(message') : message'[i] = Piece(m, i - b)
      BY <1>8, <2>2
    <3> QED
      BY <1>8, <1>11, <3>1, <3>2, PayloadOfFrame
  <2>4. ~Oversized(m) => message' = Whole(m)
    <3>1. b < 0 => Oversized(m)
      BY <1>11 DEF Frame
    <3> QED
      BY <1>11, <2>3, <3>1
  <2>5. IsPayload(message')
    <3>1. m \in 1..(next - 1)
      BY <1>3, <1>11, <1>12
    <3> QED
      BY <1>2, <2>3, <2>4, <3>1 DEF IsPayload
  <2>6. 1 \in 1..Len(Stream) /\ Stream[1].msg = m /\ b < 1 /\ 1 <= b + Size[m] + 1
    BY <1>9, <1>11, <2>1, <2>2
  <2>7. ASSUME NEW j \in 1..Len(Stream'), Stream'[j].msg # 0 PROVE m < Stream'[j].msg
    <3>1. at + j \in 1..Len(Stream) /\ Stream[at + j] = Stream'[j] /\ b + Size[m] + 1 < at + j
      BY <1>9, <1>11, <1>17
    <3>2. Stream[at + j].msg # 0 /\ Stream[1].msg # 0 /\ "line" \in Framings
      BY <1>3, <1>12, <2>6, <2>7, <3>1
    <3>3. next \in 1..(Len(Size) + 1) /\ Frame("line", Stream, m, b)
      BY <1>3, <1>11
    <3>4. m < Stream[at + j].msg
      BY <1>5, <1>10, <2>6, <3>1, <3>2, <3>3, Later
    <3> QED
      BY <3>1, <3>4
  <2>8. ASSUME NEW i \in 1..Len(Stream)
        PROVE  Stream[i].msg \in {0, m} \/ \E j \in 1..Len(Stream') : Stream'[j] = Stream[i]
    <3>1. i \in 1..(at - 1) \/ i = at \/ i > at
      BY <1>9
    <3> QED
      BY <1>18, <1>19, <2>2, <3>1
  <2>9. \A j \in 1..Len(Stream') : \E i \in 1..Len(Stream) : Stream'[j] = Stream[i]
    BY <1>17
  <2> QED
    BY <1>1, <1>2, <1>11, <1>15, <1>16, <2>3, <2>5, <2>6, <2>7, <2>8, <2>9, PayloadTaken
<1> QED
  BY <1>20, <1>21

\* A rest that is too long is dropped.
LEMMA CheckStep ==
  ASSUME SourceInv, CheckLength
  PROVE  SourceInv'
<1>1. /\ receiver = "split" /\ receiver' = "recv" /\ buffer' = KeptRest /\ ~HasLine
      /\ UNCHANGED <<framing, stopped, attempts, losses, wire, message, next, cut, queue, routed, refused>>
  BY DEF CheckLength, feedVars, queueVars
<1>2. framing = "line"
  BY <1>1 DEF SourceInv, StateInv
<1>3. /\ StreamInv /\ buffer \in Seq(Tokens) /\ wire \in Seq(Tokens)
      /\ next \in 1..(Len(Size) + 1) /\ "line" \in Framings
  BY DEF SourceInv, StreamInv, Framings
<1>4. StateInv'
  BY <1>1 DEF SourceInv, StateInv
<1>5. CASE ~(Len(buffer) > MaxLength)
  <2>1. buffer' = buffer
    BY <1>1, <1>5 DEF KeptRest
  <2> QED
    BY <1>1, <1>4, <2>1, StreamAlone
<1>6. CASE Len(buffer) > MaxLength
  <2> DEFINE L == Len(buffer)
  <2>1. buffer' = << >> /\ buffer' \in Seq(Tokens)
    BY <1>1, <1>6 DEF KeptRest
  <2>2. /\ Stream \in Seq(Tokens) /\ Len(Stream) = L + Len(wire)
        /\ \A j \in 1..L : Stream[j] = buffer[j]
    BY <1>3, StreamTokens
  <2>3. L \in Nat \ {0} /\ Len(wire) \in Nat /\ L \in 1..Len(Stream)
    <3>1. Len(buffer) \in Nat /\ Len(wire) \in Nat /\ Len(buffer) > 0
      BY <1>3, <1>6, BoundsAssumption
    <3> QED
      BY <2>2, <3>1
  <2>4. Stream' = SubSeq(Stream, L + 1, Len(Stream))
    <3>1. L \in 0..Len(buffer) /\ Len(buffer) < L + 1 /\ L + 1 \in Int /\ Len(buffer) \in Int
      BY <2>3
    <3>2. SubSeq(buffer, L + 1, Len(buffer)) \o wire = SubSeq(buffer \o wire, L + 1, Len(buffer \o wire))
      BY <1>3, <3>1, SuffixOfConcat
    <3>3. SubSeq(buffer, L + 1, Len(buffer)) = << >>
      BY <3>1, SubSeqEmpty
    <3> QED
      BY <1>1, <2>1, <3>2, <3>3 DEF Stream
  <2>5. \A j \in 1..L : Stream[j] # Delimiter
    <3>1. DOMAIN buffer = 1..L
      BY <1>3
    <3> QED
      BY <1>1, <2>2, <3>1 DEF HasLine
  <2> HIDE DEF Stream
  <2>6. InFrames("line", next, Stream) /\ InOrder(Stream)
    BY <1>2, <1>3 DEF StreamInv
  <2>7. L > MaxLength
    BY <1>6
  <2> HIDE DEF L
  <2>8. /\ \A m \in Messages, b \in Int :
              Frame("line", Stream, m, b) /\ b < L /\ L < b + Size[m] + 1 => Oversized(m)
        /\ \A i \in 1..L : Stream[i].msg \in Messages /\ Oversized(Stream[i].msg)
    BY <1>3, <2>2, <2>3, <2>5, <2>6, <2>7, LineTooLong
  <2>9. /\ Stream' \in Seq(Tokens) /\ Len(Stream') = Len(Stream) - L
        /\ \A i \in 1..(Len(Stream) - L) : Stream'[i] = Stream[L + i]
        /\ InFrames("line", next, Stream') /\ InOrder(Stream')
    <3>1. L \in 0..Len(Stream)
      BY <2>3
    <3> QED
      BY <1>3, <2>2, <2>4, <2>6, <2>8, <3>1, Rest
  <2>10. StreamInv'
    BY <1>1, <1>2, <1>3, <2>1, <2>9 DEF StreamInv
  <2>11. Len(Stream) \in Nat
    BY <2>2
  <2>12. \A j \in 1..Len(Stream') : L + j \in 1..Len(Stream) /\ Stream'[j] = Stream[L + j]
    BY <2>3, <2>9, <2>11
  <2>13. ASSUME NEW i \in 1..Len(Stream)
         PROVE  Oversized(Stream[i].msg) \/ \E j \in 1..Len(Stream') : Stream'[j] = Stream[i]
    <3>1. CASE i > L
      <4>1. i - L \in 1..Len(Stream') /\ L + (i - L) = i
        BY <2>3, <2>9, <2>11, <3>1
      <4> QED
        BY <2>12, <4>1
    <3>2. CASE ~(i > L)
      <4>1. i \in 1..L
        BY <2>3, <3>2
      <4> QED
        BY <2>8, <4>1
    <3> QED
      BY <3>1, <3>2
  <2>14. \A j \in 1..Len(Stream') : \E i \in 1..Len(Stream) : Stream'[j] = Stream[i]
    BY <2>12
  <2> QED
    BY <1>1, <1>4, <2>10, <2>13, <2>14, StreamShortened
<1> QED
  BY <1>5, <1>6

\* A token with a length prefix arrives.
LEMMA ExactStep ==
  ASSUME SourceInv, ReceiveExact
  PROVE  SourceInv'
<1> DEFINE received == Append(buffer, Head(wire))
           complete == Len(received) = received[1].at + 1
<1>1. /\ receiver = "recv" /\ framing = "length" /\ wire # << >>
      /\ buffer' = IF complete THEN << >> ELSE received
      /\ message' = IF complete THEN Tail(received) ELSE << >>
      /\ receiver' = IF complete THEN "route" ELSE "recv"
      /\ wire' = Tail(wire)
      /\ UNCHANGED <<framing, stopped, attempts, losses, next, cut, queue, routed, refused>>
  BY DEF ReceiveExact, feedVars, queueVars
<1>2. message = << >>
  BY <1>1 DEF SourceInv, StateInv
<1>3. /\ StreamInv /\ buffer \in Seq(Tokens) /\ wire \in Seq(Tokens)
      /\ next \in 1..(Len(Size) + 1) /\ next \in Nat /\ "length" \in Framings
      /\ buffer # << >> => Len(buffer) <= buffer[1].at
  BY <1>1, SizeAssumption DEF SourceInv, StreamInv, Framings
<1>4. /\ received \in Seq(Tokens) /\ Len(received) = Len(buffer) + 1
      /\ \A i \in 1..Len(buffer) : received[i] = buffer[i]
      /\ wire' \in Seq(Tokens)
      /\ received \o wire' = Stream
  <2>1. Len(wire) \in Nat \ {0} /\ Head(wire) = wire[1] /\ wire[1] \in Tokens
    BY <1>1, <1>3
  <2>2. received = buffer \o <<wire[1]>>
    BY <1>3, <2>1, AppendIsConcat
  <2>3. <<wire[1]>> = SubSeq(wire, 1, 1)
    <3> DEFINE a == <<wire[1]>>
               b == SubSeq(wire, 1, 1)
    <3>1. a \in Seq(Tokens) /\ Len(a) = 1 /\ a[1] = wire[1]
      BY <2>1
    <3>2. \A i \in 1..1 : wire[i] \in Tokens
      BY <2>1
    <3>3. b \in Seq(Tokens) /\ Len(b) = 1 - 1 + 1 /\ \A i \in 1..(1 - 1 + 1) : b[i] = wire[1 + i - 1]
      BY <3>2, SubSeqProperties
    <3> HIDE DEF a, b
    <3>4. Len(b) = 1 /\ b[1] = wire[1]
      BY <3>3
    <3>5. \A i \in 1..Len(a) : a[i] = b[i]
      BY <3>1, <3>4
    <3>6. a = b
      BY <3>1, <3>3, <3>4, <3>5, SeqEqual
    <3> QED
      BY <3>6 DEF a, b
  <2>4. wire' = SubSeq(wire, 1 + 1, Len(wire))
    BY <1>1, <1>3, TailIsSubSeq
  <2>5. 1 \in 1..Len(wire)
    BY <2>1
  <2>6. /\ SubSeq(wire, 1 + 1, Len(wire)) \in Seq(Tokens)
        /\ (buffer \o SubSeq(wire, 1, 1)) \o SubSeq(wire, 1 + 1, Len(wire)) = buffer \o wire
    BY <1>3, <2>5, MovedChunk, ZenonT(30)
  <2>7. /\ received \in Seq(Tokens) /\ Len(received) = Len(buffer) + 1
        /\ \A i \in 1..Len(buffer) : received[i] = buffer[i]
    BY <1>3, <2>1, AppendProperties
  <2> QED
    BY <2>2, <2>3, <2>4, <2>6, <2>7 DEF Stream
<1> HIDE DEF received
<1>5. /\ Stream \in Seq(Tokens) /\ Len(Stream) = Len(received) + Len(wire')
      /\ \A i \in 1..Len(received) : Stream[i] = received[i]
  BY <1>4, ConcatParts
<1>6. Len(buffer) \in Nat /\ Len(wire') \in Nat /\ Len(received) \in Nat \ {0} /\ Len(Stream) \in Nat
  BY <1>3, <1>4, <1>5
<1>7. InFrames("length", next, Stream) /\ InOrder(Stream)
  BY <1>1, <1>3 DEF StreamInv
<1>8. Stream' = IF complete THEN wire' ELSE received \o wire'
  <2>1. CASE complete
    BY <1>1, <1>4, <2>1, ConcatEmptySeq DEF Stream
  <2>2. CASE ~complete
    BY <1>1, <2>2 DEF Stream
  <2> QED
    BY <2>1, <2>2
<1> HIDE DEF Stream
<1>9. PICK m \in Messages : m < next /\ Frame("length", Stream, m, 0) /\ Stream[1] = Header(m)
  <2>1. 1 \in 1..Len(Stream)
    BY <1>5, <1>6
  <2>2. PICK m \in Messages, b \in Int :
            m < next /\ Frame("length", Stream, m, b) /\ b < 1 /\ Stream[1] = Tok("length", m, 1 - b)
    BY <1>3, <1>5, <1>7, <2>1, InAFrame
  <2>3. b = 0
    <3>1. ~(b < 0)
      BY <2>2 DEF Frame
    <3> QED
      BY <2>2, <3>1
  <2> QED
    BY <2>2, <2>3 DEF Tok
<1>10. m \in Nat \ {0} /\ Size[m] \in Nat \ {0}
  BY SizeIsPositive
<1>11. received[1].at = Size[m] /\ Len(received) <= Size[m] + 1
  <2>1. 1 \in 1..Len(received)
    BY <1>6
  <2>2. received[1] = Header(m)
    BY <1>5, <1>9, <2>1
  <2>3. received[1].at = Size[m]
    BY <2>2 DEF Header
  <2>4. CASE buffer = << >>
    BY <1>4, <1>10, <2>3, <2>4
  <2>5. CASE buffer # << >>
    <3>1. 1 \in 1..Len(buffer)
      BY <1>3, <1>6, <2>5
    <3>2. buffer[1].at = Size[m]
      BY <1>4, <2>3, <3>1
    <3> QED
      BY <1>3, <1>4, <1>6, <1>10, <2>3, <2>5, <3>2
  <2> QED
    BY <2>4, <2>5
<1>12. complete <=> Len(received) = Size[m] + 1
  BY <1>11
<1>13. CASE ~complete
  <2>1. buffer' = received /\ message' = << >> /\ receiver' = "recv" /\ Stream' = Stream
    BY <1>1, <1>4, <1>8, <1>13
  <2>2. Len(received) <= Size[m]
    BY <1>6, <1>10, <1>11, <1>12, <1>13
  <2>3. StreamInv'
    BY <1>1, <1>3, <1>4, <1>7, <1>11, <2>1, <2>2 DEF StreamInv
  <2>4. StateInv'
    BY <1>1, <1>2, <2>1 DEF SourceInv, StateInv
  <2> QED
    BY <1>1, <1>2, <2>1, <2>3, <2>4, StreamShortened
<1>14. CASE complete
  <2> DEFINE L == Size[m] + 1
  <2>1. /\ buffer' = << >> /\ message' = Tail(received) /\ receiver' = "route"
        /\ Stream' = wire' /\ Len(received) = L
    BY <1>1, <1>8, <1>12, <1>14
  <2>2. Stream' = SubSeq(Stream, L + 1, Len(Stream))
    <3>1. L \in 0..Len(received) /\ Len(received) < L + 1 /\ L + 1 \in Int /\ Len(received) \in Int
      BY <1>6, <1>10, <2>1
    <3>2. SubSeq(received, L + 1, Len(received)) \o wire'
            = SubSeq(received \o wire', L + 1, Len(received \o wire'))
      BY <1>4, <3>1, SuffixOfConcat
    <3>3. SubSeq(received, L + 1, Len(received)) = << >>
      BY <3>1, SubSeqEmpty
    <3>4. << >> \o wire' = wire'
      BY <1>4, ConcatEmptySeq
    <3> QED
      BY <1>4, <2>1, <3>2, <3>3, <3>4
  <2>3. L \in 0..Len(Stream) /\ L = 0 + Size[m] + 1 /\ L \in Nat
    BY <1>5, <1>6, <1>10, <2>1
  <2>4. ASSUME NEW o \in Messages, NEW c \in Int, Frame("length", Stream, o, c), c < L, L < c + Size[o] + 1
        PROVE  FALSE
    <3>1. 0 \in Int /\ 0 + Size[m] + 1 >= 1
      BY <1>10
    <3> QED
      BY <1>3, <1>5, <1>9, <2>3, <2>4, <3>1, NoOverlap
  <2>5. /\ Stream' \in Seq(Tokens) /\ Len(Stream') = Len(Stream) - L
        /\ \A i \in 1..(Len(Stream) - L) : Stream'[i] = Stream[L + i]
        /\ InFrames("length", next, Stream') /\ InOrder(Stream')
    BY <1>3, <1>5, <1>7, <2>2, <2>3, <2>4, Rest
  <2>6. StreamInv'
    <3>1. buffer' \in Seq(Tokens)
      BY <2>1
    <3> QED
      BY <1>1, <1>3, <1>4, <2>1, <2>5, <3>1 DEF StreamInv
  <2>7. /\ message' \in Seq(Tokens) /\ Len(message') = 0 + Size[m]
        /\ \A i \in 1..Len(message') : message'[i] = Piece(m, i - 0)
    <3>1. received # << >>
      BY <1>6
    <3>2. /\ message' \in Seq(Tokens) /\ Len(message') = Len(received) - 1
          /\ \A i \in 1..Len(message') : message'[i] = received[i + 1]
      BY <1>4, <2>1, <3>1, HeadTailProperties
    <3>3. Len(message') = Size[m]
      BY <1>10, <2>1, <3>2
    <3>4. ASSUME NEW i \in 1..Size[m] PROVE message'[i] = Piece(m, i)
      <4>1. i + 1 \in 1..(Size[m] + 1) /\ i + 1 # 1 /\ i + 1 - 1 = i /\ 0 + (i + 1) = i + 1 /\ i + 1 >= 1
        BY <1>10
      <4>2. Stream[i + 1] = Tok("length", m, i + 1)
        BY <1>9, <4>1 DEF Frame
      <4>3. message'[i] = Stream[i + 1]
        BY <1>5, <2>1, <3>2, <3>3, <4>1
      <4> QED
        BY <4>1, <4>2, <4>3 DEF Tok
    <3> QED
      BY <1>10, <3>2, <3>3, <3>4
  <2>8. message' # << >> /\ message'[1].msg = m /\ message' = Whole(m)
    <3>1. 0 <= 0 /\ 0 + Size[m] >= 1 /\ 0 \in Int
      BY <1>10
    <3> QED
      BY <2>7, <3>1, PayloadOfFrame
  <2>9. StateInv'
    BY <1>1, <2>1, <2>7, <2>8 DEF SourceInv, StateInv
  <2>10. IsPayload(message')
    <3>1. m \in 1..(next - 1)
      BY <1>3, <1>9, <1>10
    <3> QED
      BY <1>1, <2>8, <3>1 DEF IsPayload
  <2>11. 1 \in 1..Len(Stream) /\ Stream[1].msg = m /\ 0 < 1 /\ 1 <= 0 + Size[m] + 1
    BY <1>5, <1>6, <1>9, <1>10 DEF Header
  <2>12. \A j \in 1..Len(Stream') : L + j \in 1..Len(Stream) /\ Stream'[j] = Stream[L + j]
    <3> SUFFICES ASSUME NEW j \in 1..Len(Stream')
                 PROVE  L + j \in 1..Len(Stream) /\ Stream'[j] = Stream[L + j]
      OBVIOUS
    <3>1. L \in Nat
      BY <2>3
    <3> HIDE DEF L
    <3>2. j \in 1..(Len(Stream) - L)
      BY <2>5
    <3>3. L + j \in 1..Len(Stream)
      BY <1>6, <3>1, <3>2
    <3> QED
      BY <2>5, <3>2, <3>3
  <2>13. ASSUME NEW j \in 1..Len(Stream'), Stream'[j].msg # 0 PROVE m < Stream'[j].msg
    <3>1. L + j \in 1..Len(Stream) /\ Stream[L + j] = Stream'[j] /\ 0 + Size[m] + 1 < L + j
      BY <2>3, <2>12
    <3>2. Stream[L + j].msg # 0 /\ Stream[1].msg # 0 /\ "length" \in Framings /\ 0 \in Int
      BY <1>3, <1>10, <2>11, <2>13, <3>1
    <3>3. next \in 1..(Len(Size) + 1) /\ Frame("length", Stream, m, 0)
      BY <1>3, <1>9
    <3>4. m < Stream[L + j].msg
      BY <1>5, <1>7, <2>11, <3>1, <3>2, <3>3, Later
    <3> QED
      BY <3>1, <3>4
  <2>14. ASSUME NEW i \in 1..Len(Stream)
         PROVE  Stream[i].msg \in {0, m} \/ \E j \in 1..Len(Stream') : Stream'[j] = Stream[i]
    <3>1. CASE i > L
      <4>1. i - L \in 1..Len(Stream') /\ L + (i - L) = i
        BY <1>6, <2>3, <2>5, <3>1
      <4> QED
        BY <2>12, <4>1
    <3>2. CASE ~(i > L)
      <4>1. i \in 1..(Size[m] + 1) /\ 0 + i = i /\ i >= 1
        BY <2>3, <3>2
      <4>2. Stream[i] = Tok("length", m, i)
        BY <1>9, <4>1 DEF Frame
      <4> QED
        BY <1>3, <4>1, <4>2, TokFacts
    <3> QED
      BY <3>1, <3>2
  <2>15. \A j \in 1..Len(Stream') : \E i \in 1..Len(Stream) : Stream'[j] = Stream[i]
    BY <2>12
  <2> QED
    BY <1>1, <1>2, <1>9, <2>6, <2>8, <2>9, <2>10, <2>11, <2>13, <2>14, <2>15, PayloadTaken
<1> QED
  BY <1>13, <1>14

\* Elements of a concatenation, as a set.
LEMMA ToSetOfConcat ==
  ASSUME NEW S, NEW p \in Seq(S), NEW q \in Seq(S)
  PROVE  /\ \A i \in 1..Len(p) : p[i] \in ToSet(p \o q)
         /\ \A i \in 1..Len(q) : q[i] \in ToSet(p \o q)
         /\ \A x \in ToSet(p \o q) : (\E i \in 1..Len(p) : x = p[i]) \/ \E i \in 1..Len(q) : x = q[i]
<1> DEFINE c == p \o q
<1>1. /\ c \in Seq(S) /\ Len(c) = Len(p) + Len(q)
      /\ \A i \in 1..Len(p) : c[i] = p[i]
      /\ \A i \in 1..Len(q) : c[Len(p) + i] = q[i]
  BY ConcatParts
<1> HIDE DEF c
<1>2. Len(p) \in Nat /\ Len(q) \in Nat
  OBVIOUS
<1>3. DOMAIN c = 1..(Len(p) + Len(q))
  BY <1>1
<1>4. ASSUME NEW i \in 1..Len(p) PROVE p[i] \in ToSet(c)
  <2>1. i \in DOMAIN c
    BY <1>2, <1>3
  <2> QED
    BY <1>1, <2>1 DEF ToSet
<1>5. ASSUME NEW i \in 1..Len(q) PROVE q[i] \in ToSet(c)
  <2>1. Len(p) + i \in DOMAIN c
    BY <1>2, <1>3
  <2> QED
    BY <1>1, <2>1 DEF ToSet
<1>6. ASSUME NEW x \in ToSet(c)
      PROVE  (\E i \in 1..Len(p) : x = p[i]) \/ \E i \in 1..Len(q) : x = q[i]
  <2>1. PICK i \in 1..(Len(p) + Len(q)) : x = c[i]
    BY <1>3 DEF ToSet
  <2>2. CASE i <= Len(p)
    <3>1. i \in 1..Len(p)
      BY <1>2, <2>2
    <3> QED
      BY <1>1, <2>1, <3>1
  <2>3. CASE ~(i <= Len(p))
    <3>1. i - Len(p) \in 1..Len(q) /\ Len(p) + (i - Len(p)) = i
      BY <1>2, <2>3
    <3>2. x = q[i - Len(p)]
      BY <1>1, <2>1, <3>1
    <3> QED
      BY <3>1, <3>2
  <2> QED
    BY <2>2, <2>3
<1> QED
  BY <1>4, <1>5, <1>6 DEF c

\* A connection is closed: what was under way on it is counted as cut.
LEMMA Closed ==
  ASSUME SourceInv, CloseSocket, message = << >>,
         UNCHANGED <<framing, stopped, next, queue, routed, refused>>,
         receiver' \in {"connect", "wait", "ended"},
         attempts' \in Nat, losses' \in Nat, attempts' <= losses', losses' <= MaxLosses
  PROVE  SourceInv'
<1>1. /\ cut' = cut \cup ({x.msg : x \in ToSet(wire \o buffer)} \ {0})
      /\ wire' = << >> /\ buffer' = << >> /\ message' = << >>
  BY DEF CloseSocket, FreshBuffer
<1>2. /\ StreamInv /\ buffer \in Seq(Tokens) /\ wire \in Seq(Tokens)
      /\ framing \in Framings /\ next \in 1..(Len(Size) + 1) /\ next \in Nat
      /\ Len(Size) \in Nat /\ Messages = 1..Len(Size)
  BY SizeAssumption DEF SourceInv, StreamInv, Messages
<1>3. << >> \in Seq(Tokens) /\ Len(<< >>) = 0 /\ 1..0 = {}
  OBVIOUS
<1>4. Stream' = << >>
  <2>1. << >> \o << >> = << >>
    BY <1>3, ConcatEmptySeq
  <2> QED
    BY <1>1, <2>1 DEF Stream
<1>5. /\ Len(Stream) = Len(buffer) + Len(wire)
      /\ \A j \in 1..Len(buffer) : Stream[j] = buffer[j]
      /\ \A j \in 1..Len(wire) : Stream[Len(buffer) + j] = wire[j]
      /\ \A j \in 1..Len(Stream) : Stream[j].msg \in Int /\ Stream[j].msg < next /\ Stream[j].msg >= 0
  BY <1>2, StreamTokens
<1> HIDE DEF Stream
<1>6. Len(buffer) \in Nat /\ Len(wire) \in Nat
  BY <1>2
<1>7. ASSUME NEW i \in 1..Len(Stream) PROVE Stream[i] \in ToSet(wire \o buffer)
  <2>1. CASE i <= Len(buffer)
    <3>1. i \in 1..Len(buffer) /\ Stream[i] = buffer[i]
      BY <1>5, <1>6, <2>1
    <3> QED
      BY <1>2, <3>1, ToSetOfConcat
  <2>2. CASE ~(i <= Len(buffer))
    <3>1. i - Len(buffer) \in 1..Len(wire) /\ Len(buffer) + (i - Len(buffer)) = i
      BY <1>5, <1>6, <2>2
    <3>2. Stream[i] = wire[i - Len(buffer)]
      BY <1>5, <3>1
    <3> QED
      BY <1>2, <3>1, <3>2, ToSetOfConcat
  <2> QED
    BY <2>1, <2>2
<1>8. ASSUME NEW x \in ToSet(wire \o buffer), x.msg # 0 PROVE x.msg \in Messages
  <2>1. PICK j \in 1..Len(Stream) : Stream[j] = x
    <3>1. CASE \E i \in 1..Len(wire) : x = wire[i]
      <4>1. PICK i \in 1..Len(wire) : x = wire[i]
        BY <3>1
      <4>2. Len(buffer) + i \in 1..Len(Stream)
        BY <1>5, <1>6
      <4> QED
        BY <1>5, <4>1, <4>2
    <3>2. CASE \E i \in 1..Len(buffer) : x = buffer[i]
      <4>1. PICK i \in 1..Len(buffer) : x = buffer[i]
        BY <3>2
      <4>2. i \in 1..Len(Stream)
        BY <1>5, <1>6
      <4> QED
        BY <1>5, <4>1, <4>2
    <3> QED
      BY <1>2, <3>1, <3>2, ToSetOfConcat
  <2>2. x.msg \in Int /\ x.msg < next /\ x.msg >= 0
    BY <1>5, <2>1
  <2> QED
    BY <1>2, <1>8, <2>2
<1>9. cut' \subseteq Messages /\ cut \subseteq cut'
  BY <1>1, <1>8 DEF SourceInv, StateInv
<1>10. StreamInv'
  <2>1. InFrames(framing, next, << >>) /\ InOrder(<< >>)
    BY <1>3 DEF InFrames, InOrder
  <2> QED
    BY <1>1, <1>2, <1>3, <1>4, <2>1 DEF StreamInv
<1>11. StateInv'
  BY <1>1, <1>3, <1>9 DEF SourceInv, StateInv
<1>12. \A i \in 1..Len(Stream) : Stream[i].msg = 0 \/ Stream[i].msg \in cut'
  BY <1>1, <1>7
<1>13. \A j \in 1..Len(Stream') : \E i \in 1..Len(Stream) : Stream'[j] = Stream[i]
  BY <1>3, <1>4
<1> QED
  BY <1>1, <1>9, <1>10, <1>11, <1>12, <1>13, StreamShortened

\* A connection is lost.
LEMMA LoseStep ==
  ASSUME SourceInv, Lose, receiver \in {"connect", "recv"},
         UNCHANGED <<framing, stopped, queueVars, next>>
  PROVE  SourceInv'
<1>1. /\ losses < MaxLosses /\ losses' = losses + 1
      /\ attempts' = IF stopped THEN attempts ELSE attempts + 1
      /\ receiver' \in {"connect", "wait", "ended"}
      /\ CloseSocket
  BY DEF Lose
<1>2. message = << >> /\ attempts \in Nat /\ losses \in Nat /\ attempts <= losses /\ MaxLosses \in Nat
  BY BoundsAssumption DEF SourceInv, StateInv
<1>3. attempts' \in Nat /\ losses' \in Nat /\ attempts' <= losses' /\ losses' <= MaxLosses
  BY <1>1, <1>2
<1> QED
  BY <1>1, <1>2, <1>3, Closed DEF queueVars

\* The loops see the stop event.
LEMMA SeeStopStep ==
  ASSUME SourceInv, SeeStop
  PROVE  SourceInv'
<1>1. /\ receiver \in {"connect", "recv"} /\ receiver' \in {"connect", "wait", "ended"}
      /\ attempts' \in {0, attempts} /\ CloseSocket
      /\ UNCHANGED <<framing, stopped, losses, next, queue, routed, refused>>
  BY DEF SeeStop, queueVars
<1>2. message = << >> /\ attempts \in Nat /\ losses \in Nat /\ attempts <= losses /\ losses <= MaxLosses
  BY <1>1 DEF SourceInv, StateInv
<1>3. attempts' \in Nat /\ losses' \in Nat /\ attempts' <= losses' /\ losses' <= MaxLosses
  BY <1>1, <1>2
<1> QED
  BY <1>1, <1>2, <1>3, Closed

\* The queue accepts a message.
LEMMA RoutedStep ==
  ASSUME SourceInv, Routed
  PROVE  SourceInv'
<1>1. /\ receiver = "route" /\ Len(queue) < QueueSize
      /\ queue' = Append(queue, message) /\ routed' = Append(routed, message)
      /\ message' = << >> /\ receiver' = AfterRoute
      /\ UNCHANGED <<framing, stopped, attempts, losses, wire, buffer, next, cut, refused>>
  BY DEF Routed, feedVars
<1>2. /\ StreamInv /\ message # << >> /\ IsPayload(message) /\ message \in Seq(Tokens)
      /\ routed \in Seq(Seq(Tokens)) /\ queue \in Seq(Seq(Tokens))
  BY <1>1 DEF SourceInv, StateInv, PayloadInv
<1>3. PICK m \in Messages :
        m < next /\ message[1].msg = m /\ (~Oversized(m) => message = Whole(m))
  BY <1>2, PayloadSent
<1>4. /\ routed' \in Seq(Seq(Tokens)) /\ Len(routed') = Len(routed) + 1
      /\ \A i \in 1..Len(routed) : routed'[i] = routed[i]
      /\ routed'[Len(routed) + 1] = message
      /\ Len(routed) \in Nat
  BY <1>1, <1>2, AppendProperties
<1>5. queue' \in Seq(Seq(Tokens)) /\ Len(queue') <= QueueSize
  <2>1. queue' \in Seq(Seq(Tokens)) /\ Len(queue') = Len(queue) + 1 /\ Len(queue) \in Nat
    BY <1>1, <1>2, AppendProperties
  <2> QED
    BY <1>1, <2>1, BoundsAssumption
<1>6. Stream' = Stream
  BY <1>1 DEF Stream
<1>7. StreamInv'
  BY <1>1, <1>2, <1>6 DEF StreamInv
<1>8. StateInv'
  <2>1. << >> \in Seq(Tokens) /\ framing \in Framings
    BY <1>2 DEF StreamInv
  <2>2. receiver' \in {"split", "recv"} /\ (receiver' = "split" => framing = "line")
    BY <1>1 DEF AfterRoute
  <2> QED
    BY <1>1, <1>4, <1>5, <2>1, <2>2 DEF SourceInv, StateInv
<1> HIDE DEF Stream
<1>9. \A p : IsPayload(p)' <=> IsPayload(p)
  BY <1>1 DEF IsPayload
<1>10. \A i \in 1..Len(routed') : i \in 1..Len(routed) \/ i = Len(routed) + 1
  BY <1>4
<1>11. PayloadInv'
  <2>1. \A i \in 1..Len(routed') : IsPayload(routed'[i])
    BY <1>2, <1>4, <1>10 DEF SourceInv, PayloadInv
  <2>2. ASSUME NEW i \in 1..Len(routed'), NEW j \in 1..Len(routed'), i < j
        PROVE  routed'[i][1].msg < routed'[j][1].msg
    <3>1. i \in 1..Len(routed)
      BY <1>4, <2>2
    <3>2. CASE j \in 1..Len(routed)
      BY <1>4, <2>2, <3>1, <3>2 DEF SourceInv, PayloadInv
    <3>3. CASE j = Len(routed) + 1
      BY <1>2, <1>4, <3>1, <3>3 DEF SourceInv, PayloadInv
    <3> QED
      BY <1>10, <3>2, <3>3
  <2>3. ASSUME NEW j \in 1..Len(Stream), Stream[j].msg # 0, NEW i \in 1..Len(routed')
        PROVE  routed'[i][1].msg < Stream[j].msg
    <3>1. CASE i \in 1..Len(routed)
      BY <1>4, <2>3, <3>1 DEF SourceInv, PayloadInv
    <3>2. CASE i = Len(routed) + 1
      BY <1>2, <1>4, <2>3, <3>2 DEF SourceInv, PayloadInv
    <3> QED
      BY <1>10, <3>1, <3>2
  <2>4. \A p \in refused' : IsPayload(p)
    BY <1>1 DEF SourceInv, PayloadInv
  <2> HIDE DEF IsPayload
  <2> QED
    BY <1>1, <1>6, <1>9, <2>1, <2>2, <2>3, <2>4 DEF PayloadInv
<1>12. AccountInv'
  <2> SUFFICES ASSUME NEW o \in 1..(next - 1) PROVE Accounted(o)'
    BY <1>1 DEF AccountInv
  <2>1. Accounted(o)
    BY DEF SourceInv, AccountInv
  <2>2. 1..Len(routed) \subseteq 1..Len(routed') /\ Len(routed) + 1 \in 1..Len(routed')
    BY <1>4
  <2>3. CASE message[1].msg = o
    <3>1. Oversized(o) \/ routed'[Len(routed) + 1] = Whole(o)
      BY <1>3, <1>4, <2>3
    <3> QED
      BY <2>2, <3>1 DEF Accounted
  <2>4. CASE message[1].msg # o
    BY <1>1, <1>4, <1>6, <2>1, <2>2, <2>4 DEF Accounted
  <2> QED
    BY <2>3, <2>4
<1> QED
  BY <1>7, <1>8, <1>11, <1>12 DEF SourceInv

\* The full queue refuses a message.
LEMMA NotRoutedStep ==
  ASSUME SourceInv, NotRouted
  PROVE  SourceInv'
<1>1. /\ receiver = "route" /\ refused' = refused \cup {message}
      /\ message' = << >> /\ receiver' = AfterRoute
      /\ UNCHANGED <<framing, stopped, attempts, losses, wire, buffer, next, cut, queue, routed>>
  BY DEF NotRouted, feedVars
<1>2. StreamInv /\ message # << >> /\ IsPayload(message)
  BY <1>1 DEF SourceInv, StateInv, PayloadInv
<1>3. PICK m \in Messages :
        m < next /\ message[1].msg = m /\ (~Oversized(m) => message = Whole(m))
  BY <1>2, PayloadSent
<1>4. Stream' = Stream
  BY <1>1 DEF Stream
<1>5. StreamInv'
  BY <1>1, <1>2, <1>4 DEF StreamInv
<1>6. StateInv'
  <2>1. << >> \in Seq(Tokens)
    OBVIOUS
  <2>2. receiver' \in {"split", "recv"} /\ (receiver' = "split" => framing = "line")
    BY <1>1 DEF AfterRoute
  <2> QED
    BY <1>1, <2>1, <2>2 DEF SourceInv, StateInv
<1> HIDE DEF Stream
<1>7. \A p : IsPayload(p)' <=> IsPayload(p)
  BY <1>1 DEF IsPayload
<1>8. \A p \in refused' : IsPayload(p)
  BY <1>1, <1>2 DEF SourceInv, PayloadInv
<1>9. PayloadInv'
  <2> HIDE DEF IsPayload
  <2> QED
    BY <1>1, <1>4, <1>7, <1>8 DEF SourceInv, PayloadInv
<1>10. AccountInv'
  <2> SUFFICES ASSUME NEW o \in 1..(next - 1) PROVE Accounted(o)'
    BY <1>1 DEF AccountInv
  <2>1. Accounted(o)
    BY DEF SourceInv, AccountInv
  <2>2. CASE message[1].msg = o
    <3>1. Oversized(o) \/ Whole(o) \in refused'
      BY <1>1, <1>3, <2>2
    <3> QED
      BY <3>1 DEF Accounted
  <2>3. CASE message[1].msg # o
    BY <1>1, <1>4, <2>1, <2>3 DEF Accounted
  <2> QED
    BY <2>2, <2>3
<1> QED
  BY <1>5, <1>6, <1>9, <1>10 DEF SourceInv

\* A worker takes a message.
LEMMA TakeStep ==
  ASSUME SourceInv, TakeFromQueue
  PROVE  SourceInv'
<1>1. /\ queue # << >> /\ queue' = Tail(queue)
      /\ UNCHANGED <<framing, receiver, stopped, attempts, losses, wire, buffer, message, next, cut,
                     routed, refused>>
  BY DEF TakeFromQueue, streamVars, feedVars
<1>2. queue \in Seq(Seq(Tokens)) /\ Len(queue) <= QueueSize
  BY DEF SourceInv, StateInv
<1>3. queue' \in Seq(Seq(Tokens)) /\ Len(queue') = Len(queue) - 1 /\ Len(queue) \in Nat
  BY <1>1, <1>2, HeadTailProperties
<1>4. Len(queue') <= QueueSize
  BY <1>2, <1>3, BoundsAssumption
<1>5. StateInv'
  BY <1>1, <1>3, <1>4 DEF SourceInv, StateInv
<1> QED
  BY <1>1, <1>5, StreamAlone

\* Every step keeps the invariant.
LEMMA SourceStep == SourceInv /\ [Next]_vars => SourceInv'
<1> SUFFICES ASSUME SourceInv, [Next]_vars PROVE SourceInv'
  OBVIOUS
<1>1. CASE Connect
  <2>1. StateInv'
    BY <1>1 DEF Connect, SourceInv, StateInv, queueVars, streamVars, feedVars
  <2> QED
    BY <1>1, <2>1, StreamAlone DEF Connect, queueVars, streamVars, feedVars
<1>2. CASE Refused
  BY <1>2, LoseStep DEF Refused
<1>3. CASE WaitEnds
  <2>1. StateInv'
    BY <1>3 DEF WaitEnds, SourceInv, StateInv, queueVars, streamVars, feedVars
  <2> QED
    BY <1>3, <2>1, StreamAlone DEF WaitEnds, queueVars, streamVars, feedVars
<1>4. CASE SeeStop
  BY <1>4, SeeStopStep
<1>5. CASE ReceiveChunk
  BY <1>5, ChunkStep
<1>6. CASE SplitLine
  BY <1>6, SplitStep
<1>7. CASE CheckLength
  BY <1>7, CheckStep
<1>8. CASE ReceiveExact
  BY <1>8, ExactStep
<1>9. CASE HeaderTooLong
  BY <1>9, LoseStep DEF HeaderTooLong
<1>10. CASE PauseIsFatal
  BY <1>10, LoseStep DEF PauseIsFatal
<1>11. CASE Routed
  BY <1>11, RoutedStep
<1>12. CASE NotRouted
  BY <1>12, NotRoutedStep
<1>13. CASE ConnectionLost
  BY <1>13, LoseStep DEF ConnectionLost
<1>14. CASE Send
  BY <1>14, SendStep
<1>15. CASE TakeFromQueue
  BY <1>15, TakeStep
<1>16. CASE Stop
  <2>1. StateInv'
    BY <1>16 DEF Stop, SourceInv, StateInv, queueVars, streamVars, feedVars
  <2> QED
    BY <1>16, <2>1, StreamAlone DEF Stop, queueVars, streamVars, feedVars
<1>17. CASE UNCHANGED vars
  <2>1. StateInv'
    BY <1>17 DEF vars, SourceInv, StateInv
  <2> QED
    BY <1>17, <2>1, StreamAlone DEF vars
<1> QED
  BY <1>1, <1>2, <1>3, <1>4, <1>5, <1>6, <1>7, <1>8, <1>9, <1>10, <1>11, <1>12, <1>13, <1>14,
     <1>15, <1>16, <1>17 DEF Next, Receiver

-----------------------------------------------------------------------------
(* The theorems                                                            *)

LEMMA SourceIsSound == Spec => []SourceInv
<1>1. Init => SourceInv
  BY SourceInit
<1>2. SourceInv /\ [Next]_vars => SourceInv'
  BY SourceStep
<1> QED
  BY <1>1, <1>2, PTL DEF Spec

\* The variables keep their types, and the queue its bound, for messages of any
\* number and length.  (tcp_source.py:72-268)
THEOREM SourceTypes == Spec => []TypeOK
<1>1. ASSUME SourceInv PROVE TypeOK
  <2>1. StreamInv /\ StateInv
    BY <1>1 DEF SourceInv
  <2>2. attempts \in 0..MaxLosses /\ losses \in 0..MaxLosses
    BY <2>1, BoundsAssumption DEF StateInv
  <2>3. ToSet(wire) \subseteq Tokens /\ ToSet(buffer) \subseteq Tokens
    <3>1. wire \in Seq(Tokens) /\ buffer \in Seq(Tokens)
      BY <2>1 DEF StreamInv
    <3> HIDE DEF Tokens
    <3> QED
      BY <3>1 DEF ToSet
  <2>4. framing \in {"line", "length"} /\ next \in 1..(Len(Size) + 1)
    BY <2>1 DEF StreamInv, Framings
  <2> QED
    BY <2>1, <2>2, <2>3, <2>4 DEF StateInv, TypeOK
<1> QED
  BY <1>1, SourceIsSound, PTL

\* What is routed is what the feed sent: messages whole, each once and in their
\* order, whatever the chunks and wherever connections broke; only of a line
\* that is too long may the end alone be routed.  (tcp_source.py:197-252)
THEOREM NothingIsInvented == Spec => []NothingInvented
<1>1. ASSUME SourceInv PROVE NothingInvented
  <2>1. StreamInv /\ StateInv /\ PayloadInv
    BY <1>1 DEF SourceInv
  <2>2. DOMAIN routed = 1..Len(routed)
    BY <2>1 DEF StateInv
  <2>3. \A i, j \in DOMAIN routed : i < j => routed[i][1].msg < routed[j][1].msg
    BY <2>1, <2>2 DEF PayloadInv
  <2>4. ASSUME NEW p \in Payloads \ {<< >>}
        PROVE  \E m \in Messages :
                  IF framing = "line" /\ Oversized(m) THEN p \in Tails(m) ELSE p = Whole(m)
    <3>1. IsPayload(p)
      BY <2>1, <2>2 DEF Payloads, PayloadInv, ToSet
    <3>2. 1..(next - 1) \subseteq Messages
      BY <2>1, SizeAssumption DEF StreamInv, Messages
    <3> QED
      BY <3>1, <3>2 DEF IsPayload
  <2> QED
    BY <2>3, <2>4 DEF NothingInvented
<1> QED
  BY <1>1, SourceIsSound, PTL

\* A message that was sent is under way or has been routed, unless it was lost
\* with its connection, refused by the full queue, or too long.
\* (tcp_source.py:143-268)
THEOREM MessagesAreAccountedFor == Spec => []EveryMessageIsAccountedFor
<1>1. ASSUME SourceInv PROVE EveryMessageIsAccountedFor
  <2>1. StreamInv /\ StateInv
    BY <1>1 DEF SourceInv
  <2>2. /\ buffer \in Seq(Tokens) /\ wire \in Seq(Tokens) /\ message \in Seq(Tokens)
        /\ wire \o buffer \in Seq(Tokens)
    BY <2>1, ConcatProperties DEF StreamInv, StateInv
  <2>3. /\ Len(Stream) = Len(buffer) + Len(wire)
        /\ \A j \in 1..Len(buffer) : Stream[j] = buffer[j]
        /\ \A j \in 1..Len(wire) : Stream[Len(buffer) + j] = wire[j]
    BY <2>1, StreamTokens
  <2> HIDE DEF Stream
  <2> DEFINE under == ToSet(wire \o buffer \o message)
  <2>4. \A x \in ToSet(wire \o buffer) : x \in under
    <3>1. DOMAIN (wire \o buffer) = 1..Len(wire \o buffer)
      BY <2>2
    <3>2. \A i \in 1..Len(wire \o buffer) : (wire \o buffer)[i] \in under
      BY <2>2, ToSetOfConcat
    <3> HIDE DEF under
    <3> QED
      BY <3>1, <3>2 DEF ToSet
  <2>5. \A i \in 1..Len(message) : message[i] \in under
    BY <2>2, ToSetOfConcat
  <2> HIDE DEF under
  <2>6. ASSUME NEW j \in 1..Len(Stream) PROVE Stream[j] \in under
    <3>1. Len(buffer) \in Nat /\ Len(wire) \in Nat
      BY <2>2
    <3>2. CASE j <= Len(buffer)
      <4>1. j \in 1..Len(buffer) /\ Stream[j] = buffer[j]
        BY <2>3, <3>1, <3>2
      <4> QED
        BY <2>2, <2>4, <4>1, ToSetOfConcat
    <3>3. CASE ~(j <= Len(buffer))
      <4>1. j - Len(buffer) \in 1..Len(wire) /\ Len(buffer) + (j - Len(buffer)) = j
        BY <2>3, <3>1, <3>3
      <4>2. Stream[j] = wire[j - Len(buffer)]
        BY <2>3, <4>1
      <4> QED
        BY <2>2, <2>4, <4>1, <4>2, ToSetOfConcat
    <3> QED
      BY <3>2, <3>3
  <2>7. message # << >> => 1 \in 1..Len(message)
    BY <2>2
  <2>8. DOMAIN routed = 1..Len(routed)
    BY <2>1 DEF StateInv
  <2>9. \A m \in 1..(next - 1) : Accounted(m)
    BY <1>1 DEF SourceInv, AccountInv
  <2>10. ASSUME NEW m \in 1..(next - 1)
         PROVE  \/ \E x \in under : x.msg = m
                \/ Whole(m) \in ToSet(routed) \cup refused
                \/ m \in cut
                \/ Oversized(m)
    BY <2>5, <2>6, <2>7, <2>8, <2>9 DEF Accounted, ToSet
  <2> QED
    BY <2>10 DEF EveryMessageIsAccountedFor, under
<1> QED
  BY <1>1, SourceIsSound, PTL
=============================================================================
