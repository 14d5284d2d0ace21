---------------------------- MODULE WirePathProofs ----------------------------
(***************************************************************************)
(* Proofs about WirePath, for names of any length over any characters:     *)
(* however a name is escaped, decoding the URI gives the name back; what   *)
(* is decoded once more stays the same exactly if it holds no escape,      *)
(* because any escape makes it shorter.                                    *)
(***************************************************************************)
EXTENDS WirePath, SequenceTheorems, WellFoundedInduction, TLAPS

-----------------------------------------------------------------------------
(* Induction on positions, from the end of a sequence *)

\* Induction on the naturals, for a set: from the well-foundedness of <.
LEMMA SetInduction ==
    ASSUME NEW S, 0 \in S, \A n \in Nat : n \in S => n + 1 \in S
    PROVE  Nat \subseteq S
<1> SUFFICES ASSUME Nat \ S # {} PROVE FALSE
    OBVIOUS
<1> DEFINE T == Nat \ S
           R == OpToRel(<, Nat)
<1>1. IsWellFoundedOn(R, Nat)
    BY NatLessThanWellFounded
<1>2. PICK x \in T : \A y \in T : ~ (<<y, x>> \in R)
    BY <1>1, WFMin
<1>3. x \in Nat /\ x \notin S
    BY <1>2
<1>4. x # 0 /\ x - 1 \in Nat
    BY <1>3
<1>5. x - 1 \in S
  <2>1. <<x - 1, x>> \in R
      BY <1>3, <1>4 DEF OpToRel
  <2> QED
      BY <1>2, <1>4, <2>1
<1> QED
  <2>1. (x - 1) + 1 \in S
    BY <1>4, <1>5
  <2> QED
    BY <2>1, <1>3

\* What holds of a position if it holds of all after it holds of all positions.
LEMMA FromTheEnd ==
    ASSUME NEW L \in Nat, NEW P,
           \A i \in 1..L + 1 : (\A j \in (i + 1)..(L + 1) : j \in P) => i \in P
    PROVE  1..L + 1 \subseteq P
<1> DEFINE S == {n \in Nat : \A j \in 1..L + 1 : j + n >= L + 1 => j \in P}
<1>1. 0 \in S
  <2>1. L + 1 \in P
      OBVIOUS
  <2> QED
      BY <2>1
<1>2. ASSUME NEW n \in Nat, n \in S
      PROVE  n + 1 \in S
  <2> SUFFICES ASSUME NEW j \in 1..L + 1, j + (n + 1) >= L + 1
               PROVE  j \in P
      OBVIOUS
  <2>1. \A k \in (j + 1)..(L + 1) : k \in P
      BY <1>2
  <2> QED
      BY <2>1
<1>3. L \in S
  <2> HIDE DEF S
  <2> QED
      BY <1>1, <1>2, SetInduction
<1> QED
    BY <1>3

-----------------------------------------------------------------------------
(* Decoding *)

\* The character that an escape stands for.
Code(s, i) == 16 * HexValue(s[i + 1]) + HexValue(s[i + 2])

\* An escape stands for a byte, and no other begins within it.
LEMMA EscapeIs ==
    ASSUME NEW s \in Text, NEW i \in 1..Len(s), EscapeAt(s, i)
    PROVE  /\ i + 3 \in i + 1..Len(s) + 1 /\ i + 1 \in 1..Len(s) /\ i + 2 \in 1..Len(s)
           /\ Code(s, i) \in 0..255
           /\ ~EscapeAt(s, i + 1) /\ ~EscapeAt(s, i + 2)
<1>1. /\ Len(s) \in Nat /\ i + 2 <= Len(s) /\ i + 1 \in 1..Len(s) /\ i + 2 \in 1..Len(s)
      /\ IsHex(s[i + 1]) /\ IsHex(s[i + 2])
    BY LenProperties DEF EscapeAt, Text
<1>2. s[i + 1] \in 0..255 /\ s[i + 2] \in 0..255
    BY <1>1, ElementOfSeq DEF Text
<1>3. \A c \in 0..255 : IsHex(c) => c # Percent /\ HexValue(c) \in 0..15
    BY DEF IsHex, HexValue, Percent
<1>4. HexValue(s[i + 1]) \in 0..15 /\ HexValue(s[i + 2]) \in 0..15
    BY <1>1, <1>2, <1>3
<1>5. Code(s, i) \in 0..255
  <2>1. \A a, b \in 0..15 : 16 * a + b \in 0..255
      OBVIOUS
  <2> QED
      BY <1>4, <2>1 DEF Code
<1>6. s[i + 1] # Percent /\ s[i + 2] # Percent
    BY <1>1, <1>2, <1>3
<1> QED
    BY <1>1, <1>5, <1>6 DEF EscapeAt

\* The recursion of Decode has a solution.
LEMMA DecodeUnfolds ==
    ASSUME NEW s, Len(s) \in Nat
    PROVE  \E from :
              /\ Decode(s) = from[1]
              /\ from[Len(s) + 1] = <<>>
              /\ \A i \in 1..Len(s) :
                    from[i] = IF EscapeAt(s, i) THEN <<Code(s, i)>> \o from[i + 3]
                                                ELSE <<s[i]>> \o from[i + 1]
<1> DEFINE L == Len(s)
           Step(f, i) == IF i > Len(s) THEN <<>>
                         ELSE IF EscapeAt(s, i)
                              THEN <<16 * HexValue(s[i + 1]) + HexValue(s[i + 2])>> \o f[i + 3]
                              ELSE <<s[i]>> \o f[i + 1]
           from == CHOOSE f : f = [i \in 1..Len(s) + 1 |-> Step(f, i)]
<1>1. Decode(s) = from[1]
    BY DEF Decode
<1>2. ASSUME NEW f, NEW g, NEW i \in 1..L + 1, \A j \in (i + 1)..(L + 1) : f[j] = g[j]
      PROVE  Step(f, i) = Step(g, i)
  <2>1. i <= L => f[i + 1] = g[i + 1]
      BY <1>2
  <2>2. i <= L /\ EscapeAt(s, i) => f[i + 3] = g[i + 3]
      BY <1>2 DEF EscapeAt
  <2> QED
      BY <2>1, <2>2
<1> DEFINE Positions(m) == {i \in 1..L + 1 : i + m >= L + 1}
           Total(f, m) == f = [i \in Positions(m) |-> Step(f, i)]
           Defined == {m \in Nat : \E f : Total(f, m)}
<1>3. Nat \subseteq Defined
  <2>1. 0 \in Defined
    <3>1. Positions(0) = {L + 1}
        OBVIOUS
    <3>2. \A f : Step(f, L + 1) = <<>>
        OBVIOUS
    <3>3. Total([i \in Positions(0) |-> <<>>], 0)
      <4> HIDE DEF Step, Positions
      <4> QED
          BY <3>1, <3>2
    <3>4. \E f : Total(f, 0)
      <4> HIDE DEF Total
      <4> QED
          BY <3>3
    <3> QED
        BY <3>4
  <2>2. ASSUME NEW m \in Nat, m \in Defined
        PROVE  m + 1 \in Defined
    <3>1. PICK g : Total(g, m)
        BY <2>2
    <3> DEFINE f == [i \in Positions(m + 1) |-> IF i \in Positions(m) THEN g[i] ELSE Step(g, i)]
    <3>2. ASSUME NEW i \in Positions(m + 1), NEW j \in (i + 1)..(L + 1)
          PROVE  j \in Positions(m)
      <4>1. L \in Nat /\ i \in 1..L + 1 /\ i + (m + 1) >= L + 1
          OBVIOUS
      <4> HIDE DEF L
      <4>2. j \in 1..L + 1 /\ j + m >= L + 1
          BY <4>1
      <4> QED
          BY <4>2
    <3>3. Positions(m) \subseteq Positions(m + 1) /\ Positions(m + 1) \subseteq 1..L + 1
        OBVIOUS
    <3> HIDE DEF Step, Positions
    <3>4. \A j \in Positions(m) : f[j] = g[j] /\ g[j] = Step(g, j)
        BY <3>1, <3>3
    <3>5. ASSUME NEW i \in Positions(m + 1)
          PROVE  f[i] = Step(f, i)
      <4>1. f[i] = Step(g, i)
          BY <3>4
      <4>2. \A j \in (i + 1)..(L + 1) : f[j] = g[j]
          BY <3>2, <3>4
      <4> QED
          BY <1>2, <3>3, <4>1, <4>2
    <3>6. Total(f, m + 1)
        BY <3>5
    <3>7. \E h : Total(h, m + 1)
      <4> HIDE DEF f, Total
      <4> QED
          BY <3>6
    <3> QED
        BY <3>7
  <2> HIDE DEF Defined
  <2> QED
      BY <2>1, <2>2, SetInduction
<1>4. Positions(L) = 1..L + 1
    OBVIOUS
<1>5. \E f : Total(f, L)
    BY <1>3
<1>6. from = [i \in 1..L + 1 |-> Step(from, i)]
  <2> HIDE DEF Step, Positions
  <2> QED
      BY <1>4, <1>5
<1> HIDE DEF from
<1>7. \A i \in 1..L + 1 : from[i] = Step(from, i)
  <2> HIDE DEF Step
  <2> QED
      BY <1>6
<1>8. from[L + 1] = <<>>
  <2>1. L + 1 \in 1..L + 1 /\ L + 1 > Len(s)
      OBVIOUS
  <2>2. Step(from, L + 1) = <<>>
      BY <2>1
  <2> QED
    <3> HIDE DEF Step
    <3> QED
      BY <1>7, <2>1, <2>2
<1>9. \A i \in 1..L : from[i] = IF EscapeAt(s, i) THEN <<Code(s, i)>> \o from[i + 3]
                                                  ELSE <<s[i]>> \o from[i + 1]
    BY <1>7 DEF Code
<1> QED
    BY <1>1, <1>8, <1>9

\* What is said below of the text t that the rest of s from position i decodes to.
EscapeFrom(s, i) == \E j \in i..Len(s) : EscapeAt(s, j)
DecodedFrom(s, i, t) ==
    /\ t \in Text
    /\ Len(t) <= Len(s) + 1 - i
    /\ EscapeFrom(s, i) => Len(t) <= Len(s) - 1 - i
    /\ ~EscapeFrom(s, i) => t = SubSeq(s, i, Len(s))

\* Decoded, a text is a text; it is shorter if it had an escape, the same if it had none.
LEMMA Decoded ==
    ASSUME NEW s \in Text
    PROVE  /\ Decode(s) \in Text
           /\ Len(Decode(s)) <= Len(s)
           /\ HasEscape(s) => Len(Decode(s)) <= Len(s) - 2
           /\ ~HasEscape(s) => Decode(s) = s
           /\ s # <<>> /\ s[1] = Slash => Decode(s) # <<>> /\ Decode(s)[1] = Slash
<1> DEFINE L == Len(s)
<1>1. L \in Nat /\ \A i \in 1..L : s[i] \in 0..255
    BY ElementOfSeq DEF Text
<1>2. PICK from : /\ Decode(s) = from[1]
                  /\ from[L + 1] = <<>>
                  /\ \A i \in 1..L :
                        from[i] = IF EscapeAt(s, i) THEN <<Code(s, i)>> \o from[i + 3]
                                                    ELSE <<s[i]>> \o from[i + 1]
    BY <1>1, DecodeUnfolds
<1>3. ASSUME NEW i \in 1..L, EscapeAt(s, i)
      PROVE  /\ i + 3 \in i + 1..L + 1 /\ Code(s, i) \in 0..255
             /\ ~EscapeAt(s, i + 1) /\ (i + 2 <= L => ~EscapeAt(s, i + 2))
    BY <1>1, <1>3, EscapeIs
<1> DEFINE After(i) == EscapeFrom(s, i)
           Right(i) == DecodedFrom(s, i, from[i])
           P == {i \in 1..L + 1 : Right(i)}
<1>4. ASSUME NEW i \in 1..L + 1, \A j \in (i + 1)..(L + 1) : j \in P
      PROVE  i \in P
  <2>1. CASE i = L + 1
    <3>1. from[i] = <<>> /\ <<>> \in Text /\ Len(<<>>) = 0
        BY <1>2, <2>1, EmptySeq DEF Text
    <3>2. SubSeq(s, i, L) = <<>>
        BY <1>1, <2>1, SubSeqEmpty
    <3>3. ~After(i)
        BY <1>1, <2>1 DEF EscapeFrom
    <3>4. Len(from[i]) <= L + 1 - i
        BY <1>1, <2>1, <3>1
    <3>5. Right(i)
        BY <3>1, <3>2, <3>3, <3>4 DEF DecodedFrom
    <3> QED
        BY <3>5
  <2>2. CASE i \in 1..L /\ EscapeAt(s, i)
    <3>1. i + 3 \in (i + 1)..(L + 1) /\ Code(s, i) \in 0..255
        BY <1>3, <2>2
    <3>2. Right(i + 3)
        BY <1>4, <3>1
    <3>3. from[i] = <<Code(s, i)>> \o from[i + 3]
        BY <1>2, <2>2
    <3>4. from[i] \in Text /\ Len(from[i]) = 1 + Len(from[i + 3])
        BY <3>1, <3>2, <3>3, ConcatProperties DEF Text, DecodedFrom
    <3>5. After(i)
        BY <1>1, <2>2 DEF EscapeFrom
    <3>6. Len(from[i + 3]) \in Nat
        BY <3>2, LenProperties DEF Text, DecodedFrom
    <3> QED
        BY <1>1, <2>2, <3>2, <3>4, <3>5, <3>6 DEF DecodedFrom
  <2>3. CASE i \in 1..L /\ ~EscapeAt(s, i)
    <3>1. i + 1 \in (i + 1)..(L + 1) /\ s[i] \in 0..255
        BY <1>1, <2>3
    <3>2. Right(i + 1)
        BY <1>4, <3>1
    <3>3. from[i] = <<s[i]>> \o from[i + 1]
        BY <1>2, <2>3
    <3>4. from[i] \in Text /\ Len(from[i]) = 1 + Len(from[i + 1])
        BY <3>1, <3>2, <3>3, ConcatProperties DEF Text, DecodedFrom
    <3>5. After(i) <=> After(i + 1)
        BY <1>1, <2>3 DEF EscapeFrom
    <3>6. SubSeq(s, i, L) = <<s[i]>> \o SubSeq(s, i + 1, L)
        BY <1>1, <2>3, SubSeqRecursiveFirst DEF Text
    <3>7. Len(from[i + 1]) \in Nat
        BY <3>2, LenProperties DEF Text, DecodedFrom
    <3>8. Len(from[i]) <= L + 1 - i /\ (After(i) => Len(from[i]) <= L - 1 - i)
        BY <1>1, <2>3, <3>2, <3>4, <3>5, <3>7 DEF DecodedFrom
    <3>9. ~After(i) => from[i] = SubSeq(s, i, L)
        BY <3>2, <3>3, <3>5, <3>6 DEF DecodedFrom
    <3>10. Right(i)
        BY <3>4, <3>8, <3>9 DEF DecodedFrom
    <3> QED
        BY <3>10
  <2> QED
      BY <1>1, <2>1, <2>2, <2>3
<1>5. Right(1)
  <2> HIDE DEF Right
  <2>1. 1 \in 1..L + 1
      BY <1>1
  <2> QED
    <3> HIDE DEF P
    <3>1. 1..L + 1 \subseteq P
        BY <1>1, <1>4, FromTheEnd
    <3> QED
        BY <2>1, <3>1 DEF P
<1>6. After(1) <=> HasEscape(s)
    BY <1>1 DEF HasEscape, EscapeFrom
<1>7. SubSeq(s, 1, L) = s
    BY SubSeqFull DEF Text
<1>8. ASSUME s # <<>>, s[1] = Slash
      PROVE  Decode(s) # <<>> /\ Decode(s)[1] = Slash
  <2>1. 1 \in 1..L /\ ~EscapeAt(s, 1)
    <3>1. L # 0
        BY <1>8, EmptySeq DEF Text
    <3> QED
        BY <1>1, <1>8, <3>1 DEF EscapeAt, Slash, Percent
  <2>2. from[1] = <<s[1]>> \o from[2]
    <3>1. 1 + 1 = 2
        OBVIOUS
    <3> QED
        BY <1>2, <2>1, <3>1
  <2>3. from[2] \in Text
    <3>2. 2 \in 1..L + 1
        BY <1>1, <2>1
    <3>1. 1..L + 1 \subseteq P
      <4> HIDE DEF P
      <4> QED
        BY <1>1, <1>4, FromTheEnd
    <3> QED
        BY <3>1, <3>2 DEF DecodedFrom
  <2>4. <<s[1]>> \in Seq(0..255) /\ Len(<<s[1]>>) = 1 /\ <<s[1]>>[1] = s[1]
      BY <1>1, <2>1
  <2>5. Len(from[1]) = 1 + Len(from[2]) /\ Len(from[2]) \in Nat
      BY <2>2, <2>3, <2>4, ConcatProperties, LenProperties DEF Text
  <2>6. from[1][1] = s[1]
      BY <2>2, <2>3, <2>4, <2>5, ConcatProperties DEF Text
  <2> QED
      BY <1>2, <1>8, <2>5, <2>6, EmptySeq
<1> QED
    BY <1>1, <1>2, <1>5, <1>6, <1>7, <1>8 DEF DecodedFrom

-----------------------------------------------------------------------------
(* Escaping *)

\* What a client sends: a text without the characters that end a path, and with
\* no % but those of escapes.
Encoded(u) ==
    /\ u \in Text
    /\ \A i \in 1..Len(u) : u[i] \notin {Query, Hash}
    /\ \A i \in 1..Len(u) : u[i] = Percent => EscapeAt(u, i)

\* A digit is read as what it was written for.
LEMMA DigitIsRead ==
    ASSUME NEW n \in 0..15
    PROVE  /\ HexDigit(n) \in 48..57 \cup 65..70
           /\ IsHex(HexDigit(n)) /\ HexValue(HexDigit(n)) = n
    BY DEF HexDigit, IsHex, HexValue

\* The two ways to write a character.
LEMMA FormIs ==
    ASSUME NEW c \in 1..127, NEW form \in Forms(c)
    PROVE  \/ form = <<c>> /\ c \notin {Percent, Hash, Query}
           \/ \E m \in 0..15, n \in 0..15 :
                 form = <<Percent, HexDigit(m), HexDigit(n)>> /\ 16 * m + n = c
<1> DEFINE m == c \div 16
           n == c % 16
<1>1. m \in 0..15 /\ n \in 0..15 /\ 16 * m + n = c
    OBVIOUS
<1>2. Escaped(c) = <<Percent, HexDigit(m), HexDigit(n)>>
    BY DEF Escaped
<1>3. (form = <<c>> /\ c \notin {Percent, Hash, Query}) \/ form = Escaped(c)
    BY DEF Forms, Slash, Percent, Hash, Query
<1> HIDE DEF m, n
<1> QED
    BY <1>1, <1>2, <1>3

\* One more character, in either form, decodes to one more character.
LEMMA FormIsDecoded ==
    ASSUME NEW u, Encoded(u), NEW c \in 1..127, NEW form \in Forms(c)
    PROVE  /\ Encoded(u \o form)
           /\ Decode(u \o form) = Append(Decode(u), c)
<1> DEFINE v == u \o form
           K == Len(u)
           N == Len(v)
<1>1. /\ u \in Seq(0..255) /\ K \in Nat
      /\ \A i \in 1..K : u[i] \in 0..255 /\ u[i] \notin {Query, Hash}
      /\ \A i \in 1..K : u[i] = Percent => EscapeAt(u, i)
  <2>1. u \in Seq(0..255) /\ Len(u) \in Nat
      BY LenProperties DEF Encoded, Text
  <2>2. \A i \in 1..Len(u) : u[i] \in 0..255
      BY <2>1, ElementOfSeq
  <2>3. \A i \in 1..Len(u) : u[i] \notin {Query, Hash}
      BY DEF Encoded
  <2>4. \A i \in 1..Len(u) : u[i] = Percent => EscapeAt(u, i)
      BY DEF Encoded
  <2> QED
      BY <2>1, <2>2, <2>3, <2>4
<1>2. form \in Seq(0..255) /\ Len(form) \in {1, 3}
  <2>1. \A n \in 0..15 : HexDigit(n) \in 0..255
      BY DigitIsRead
  <2>2. CASE form = <<c>>
      BY <2>2
  <2>3. ASSUME NEW m \in 0..15, NEW n \in 0..15, form = <<Percent, HexDigit(m), HexDigit(n)>>
        PROVE  form \in Seq(0..255) /\ Len(form) = 3
      BY <2>1, <2>3 DEF Percent
  <2>4. \/ form = <<c>>
        \/ \E m \in 0..15, n \in 0..15 : form = <<Percent, HexDigit(m), HexDigit(n)>>
      BY FormIs
  <2> QED
      BY <2>2, <2>3, <2>4
<1>3. /\ v \in Seq(0..255) /\ N = K + Len(form) /\ N \in Nat
      /\ \A i \in 1..K : v[i] = u[i]
      /\ \A i \in 1..Len(form) : v[K + i] = form[i]
  <2> HIDE DEF v
  <2>1. /\ v \in Seq(0..255) /\ Len(v) = Len(u) + Len(form)
        /\ \A i \in 1..Len(u) + Len(form) : v[i] = IF i <= Len(u) THEN u[i] ELSE form[i - Len(u)]
      BY <1>1, <1>2, ConcatProperties DEF v
  <2>2. \A i \in 1..K : v[i] = u[i]
      BY <1>1, <1>2, <2>1
  <2>3. ASSUME NEW i \in 1..Len(form)
        PROVE  v[K + i] = form[i]
    <3>1. K + i \in 1..Len(u) + Len(form) /\ ~(K + i <= Len(u)) /\ (K + i) - Len(u) = i
        BY <1>1, <1>2
    <3> QED
        BY <2>1, <3>1
  <2>4. N = K + Len(form) /\ N \in Nat
      BY <1>1, <1>2, <2>1
  <2> QED
      BY <2>1, <2>2, <2>3, <2>4
<1> HIDE DEF v
<1>4. \A i \in 1..K : EscapeAt(v, i) <=> EscapeAt(u, i)
  <2> TAKE i \in 1..K
  <2>1. CASE EscapeAt(u, i)
      BY <1>1, <1>3, <2>1 DEF EscapeAt
  <2>2. CASE ~EscapeAt(u, i)
      BY <1>1, <1>3, <2>2 DEF EscapeAt
  <2> QED
      BY <2>1, <2>2
<1>5. PICK from : /\ Decode(u) = from[1]
                  /\ from[K + 1] = <<>>
                  /\ \A i \in 1..K :
                        from[i] = IF EscapeAt(u, i) THEN <<Code(u, i)>> \o from[i + 3]
                                                    ELSE <<u[i]>> \o from[i + 1]
    BY <1>1, DecodeUnfolds
<1>6. PICK g : /\ Decode(v) = g[1]
               /\ g[N + 1] = <<>>
               /\ \A i \in 1..N :
                     g[i] = IF EscapeAt(v, i) THEN <<Code(v, i)>> \o g[i + 3]
                                              ELSE <<v[i]>> \o g[i + 1]
    BY <1>3, DecodeUnfolds
<1>7. <<c>> \in Seq(0..255) /\ Len(<<c>>) = 1 /\ <<c>> \o <<>> = <<c>>
    BY ConcatEmptySeq
<1>8. g[K + 1] = <<c>> /\ Encoded(v)
  <2>1. CASE form = <<c>> /\ c \notin {Percent, Hash, Query}
    <3>1. N = K + 1 /\ v[N] = c /\ N \in 1..N
        BY <1>1, <1>3, <2>1
    <3>2. ~EscapeAt(v, N)
        BY <2>1, <3>1 DEF EscapeAt
    <3>3. g[N] = <<c>> \o <<>>
        BY <1>6, <3>1, <3>2
    <3>4. Encoded(v)
      <4>1. \A i \in 1..N : i \in 1..K \/ i = N
          BY <1>1, <3>1
      <4>2. \A i \in 1..K : v[i] \notin {Query, Hash} /\ (v[i] = Percent => EscapeAt(v, i))
          BY <1>1, <1>3, <1>4
      <4> QED
          BY <1>3, <2>1, <3>1, <4>1, <4>2 DEF Encoded, Text
    <3> QED
        BY <1>7, <3>1, <3>3, <3>4
  <2>2. ASSUME NEW m \in 0..15, NEW n \in 0..15,
               form = <<Percent, HexDigit(m), HexDigit(n)>>, 16 * m + n = c
        PROVE  g[K + 1] = <<c>> /\ Encoded(v)
    <3>1. N = K + 3 /\ v[K + 1] = Percent /\ v[K + 2] = HexDigit(m) /\ v[K + 3] = HexDigit(n)
      <4>1. Len(form) = 3 /\ form[1] = Percent /\ form[2] = HexDigit(m) /\ form[3] = HexDigit(n)
          BY <2>2
      <4> QED
          BY <1>3, <4>1
    <3>2. /\ IsHex(v[K + 2]) /\ HexValue(v[K + 2]) = m
          /\ IsHex(v[K + 3]) /\ HexValue(v[K + 3]) = n
        BY <3>1, DigitIsRead
    <3>3. (K + 1) + 1 = K + 2 /\ (K + 1) + 2 = K + 3 /\ (K + 1) + 3 = N + 1 /\ K + 1 \in 1..N
        BY <1>1, <3>1
    <3>4. EscapeAt(v, K + 1) /\ Code(v, K + 1) = c
      <4>1. (K + 1) + 2 <= N
          BY <3>1, <3>3
      <4>2. v[(K + 1) + 1] = v[K + 2] /\ v[(K + 1) + 2] = v[K + 3]
          BY <3>3
      <4>3. EscapeAt(v, K + 1)
          BY <3>1, <3>2, <4>1, <4>2 DEF EscapeAt
      <4>4. Code(v, K + 1) = c
          BY <2>2, <3>2, <4>2 DEF Code
      <4> QED
          BY <4>3, <4>4
    <3>5. g[K + 1] = <<c>> \o <<>>
        BY <1>6, <3>3, <3>4
    <3>6. \A i \in {K + 2, K + 3} : v[i] \notin {Query, Hash, Percent}
      <4>1. \A k \in 0..15 : HexDigit(k) \notin {Query, Hash, Percent}
          BY DigitIsRead DEF Query, Hash, Percent
      <4> QED
          BY <3>1, <4>1
    <3>7. v[K + 1] \notin {Query, Hash}
        BY <3>1 DEF Query, Hash, Percent
    <3>8. \A i \in 1..N : i \in 1..K \/ i = K + 1 \/ i \in {K + 2, K + 3}
        BY <1>1, <3>1
    <3>9. Encoded(v)
        BY <1>1, <1>3, <1>4, <3>4, <3>6, <3>7, <3>8 DEF Encoded, Text
    <3> QED
        BY <1>7, <3>5, <3>9
  <2> QED
      BY FormIs, <2>1, <2>2
<1> DEFINE P == {i \in 1..K + 1 : from[i] \in Seq(0..255) /\ g[i] = from[i] \o <<c>>}
<1>9. ASSUME NEW i \in 1..K + 1, \A j \in (i + 1)..(K + 1) : j \in P
      PROVE  i \in P
  <2>1. CASE i = K + 1
    <3>1. from[i] \in Seq(0..255) /\ <<>> \o <<c>> = <<c>>
        BY <1>5, <1>7, <2>1, EmptySeq, ConcatEmptySeq
    <3> QED
        BY <1>5, <1>8, <2>1, <3>1
  <2>2. ASSUME i \in 1..K, NEW x \in 0..255, NEW j \in (i + 1)..(K + 1),
               from[i] = <<x>> \o from[j], g[i] = <<x>> \o g[j]
        PROVE  i \in P
    <3>1. from[j] \in Seq(0..255) /\ g[j] = from[j] \o <<c>>
        BY <1>9, <2>2
    <3>2. <<x>> \in Seq(0..255)
        BY <2>2
    <3>3. from[i] \in Seq(0..255)
        BY <2>2, <3>1, <3>2, ConcatProperties
    <3>4. g[i] = from[i] \o <<c>>
      <4>1. (<<x>> \o from[j]) \o <<c>> = <<x>> \o (from[j] \o <<c>>)
        <5>1. \A t1, t2, t3 \in Seq(0..255) : (t1 \o t2) \o t3 = t1 \o (t2 \o t3)
          <6> TAKE t1 \in Seq(0..255), t2 \in Seq(0..255), t3 \in Seq(0..255)
          <6> DEFINE B == 0..255
          <6>1. t1 \in Seq(B) /\ t2 \in Seq(B) /\ t3 \in Seq(B)
              OBVIOUS
          <6> HIDE DEF B
          <6> QED
              BY <6>1, ConcatAssociative
        <5> QED
            BY <1>7, <3>1, <3>2, <5>1
      <4> QED
          BY <2>2, <3>1, <4>1
    <3> QED
        BY <3>3, <3>4
  <2>3. CASE i \in 1..K /\ EscapeAt(u, i)
    <3>1. /\ i + 3 \in (i + 1)..(K + 1) /\ i \in 1..N
          /\ i + 1 \in 1..K /\ i + 2 \in 1..K
        BY <1>1, <1>2, <1>3, <2>3 DEF EscapeAt
    <3>2. Code(u, i) = Code(v, i)
        BY <1>3, <3>1 DEF Code
    <3>3. Code(u, i) \in 0..255
        BY <1>1, <2>3, EscapeIs DEF Text
    <3>4. from[i] = <<Code(u, i)>> \o from[i + 3]
        BY <1>5, <2>3
    <3>5. g[i] = <<Code(u, i)>> \o g[i + 3]
        BY <1>4, <1>6, <2>3, <3>1, <3>2
    <3> QED
        BY <2>2, <2>3, <3>1, <3>3, <3>4, <3>5
  <2>4. CASE i \in 1..K /\ ~EscapeAt(u, i)
    <3>1. i + 1 \in (i + 1)..(K + 1) /\ i \in 1..N /\ u[i] \in 0..255
        BY <1>1, <1>2, <1>3, <2>4
    <3>2. from[i] = <<u[i]>> \o from[i + 1]
        BY <1>5, <2>4
    <3>3. g[i] = <<u[i]>> \o g[i + 1]
        BY <1>3, <1>4, <1>6, <2>4, <3>1
    <3> QED
        BY <2>2, <2>4, <3>1, <3>2, <3>3
  <2> QED
      BY <1>1, <2>1, <2>3, <2>4
<1>10. 1 \in P
  <2>1. 1 \in 1..K + 1
      BY <1>1
  <2> HIDE DEF P
  <2> QED
      BY <1>1, <1>9, <2>1, FromTheEnd
<1>11. Append(from[1], c) = from[1] \o <<c>>
    BY <1>10, AppendIsConcat
<1> QED
    BY <1>5, <1>6, <1>8, <1>10, <1>11 DEF v

-----------------------------------------------------------------------------
(* Cutting and trimming *)

LEMMA LeastExists ==
    ASSUME NEW S, S \subseteq Nat, S # {}
    PROVE  \E i \in S : \A j \in S : i <= j
<1> DEFINE R == OpToRel(<, Nat)
<1>1. PICK i \in S : \A j \in S : ~ (<<j, i>> \in R)
    BY NatLessThanWellFounded, WFMin
<1>2. \A j \in S : ~(j < i)
    BY <1>1 DEF OpToRel
<1>3. \A j \in S : i <= j
    BY <1>2
<1> QED
    BY <1>3

LEMMA GreatestExists ==
    ASSUME NEW n \in Nat, NEW S, S \subseteq 1..n, S # {}
    PROVE  \E i \in S : \A j \in S : i >= j
<1> DEFINE T == {n - j : j \in S}
<1>1. T \subseteq Nat /\ T # {}
  <2>1. \A j \in S : n - j \in Nat
      OBVIOUS
  <2>2. PICK j \in S : TRUE
      OBVIOUS
  <2>3. n - j \in T
      OBVIOUS
  <2> QED
      BY <2>1, <2>3
<1>2. PICK k \in T : \A j \in T : k <= j
  <2> HIDE DEF T
  <2> QED
      BY <1>1, LeastExists
<1>3. PICK i \in S : k = n - i
    BY <1>2
<1>4. ASSUME NEW j \in S
      PROVE  i >= j
  <2>1. k <= n - j
      BY <1>2
  <2> QED
      BY <1>3, <2>1
<1> QED
    BY <1>4

LEMMA TextIs ==
    ASSUME NEW s \in Text
    PROVE  /\ Len(s) \in Nat
           /\ s # <<>> <=> Len(s) > 0
           /\ \A i \in 1..Len(s) : s[i] \in 0..255
  BY LenProperties, ElementOfSeq, EmptySeq DEF Text

LEMMA PartIs ==
    ASSUME NEW s \in Text, NEW m \in 1..Len(s) + 1, NEW n \in 0..Len(s), m <= n + 1
    PROVE  /\ SubSeq(s, m, n) \in Text
           /\ Len(SubSeq(s, m, n)) = n - m + 1
           /\ \A i \in 1..n - m + 1 : SubSeq(s, m, n)[i] = s[m + i - 1]
<1>1. m \in Int /\ n \in Int /\ \A i \in m..n : s[i] \in 0..255
  <2>1. Len(s) \in Nat
      BY TextIs
  <2>2. m \in Int /\ n \in Int /\ m..n \subseteq 1..Len(s)
      BY <2>1
  <2> QED
      BY <2>2, TextIs
<1>2. /\ SubSeq(s, m, n) \in Seq(0..255)
      /\ Len(SubSeq(s, m, n)) = IF m <= n THEN n - m + 1 ELSE 0
      /\ \A i \in 1..n - m + 1 : SubSeq(s, m, n)[i] = s[m + i - 1]
    BY <1>1, SubSeqProperties
<1>3. Len(SubSeq(s, m, n)) = n - m + 1
    BY <1>1, <1>2, TextIs
<1> QED
    BY <1>2, <1>3 DEF Text

\* A text is the same or shorter when cut; shorter by two if it ends with a slash.
LEMMA CutIs ==
    ASSUME NEW s \in Text, s # <<>>, s[1] = Slash
    PROVE  /\ Cut(s) \in Text
           /\ Cut(s) # <<>> /\ Cut(s)[1] = Slash
           /\ (\A i \in 1..Len(s) : s[i] \notin {Query, Hash}) => Cut(s) = s
           /\ (\E i \in 1..Len(s) : s[i] \in {Query, Hash}) =>
                 /\ Len(Cut(s)) <= Len(s) - 1
                 /\ s[Len(s)] = Slash => Len(Cut(s)) <= Len(s) - 2
<1> DEFINE ends == {i \in 1..Len(s) : s[i] \in {Query, Hash}}
<1>1. CASE ends = {}
    BY <1>1 DEF Cut
<1>2. CASE ends # {}
  <2> DEFINE k == CHOOSE i \in ends : \A j \in ends : i <= j
  <2>1. ends \subseteq Nat
      OBVIOUS
  <2>2. k \in ends
      BY <1>2, <2>1, LeastExists
  <2>3. Cut(s) = SubSeq(s, 1, k - 1)
      BY <1>2 DEF Cut
  <2> HIDE DEF k
  <2>4. k \in 1..Len(s) /\ k # 1 /\ (s[Len(s)] = Slash => k # Len(s)) /\ Len(s) \in Nat
      BY <2>2, TextIs DEF Slash, Query, Hash
  <2>5. k - 1 \in 1..Len(s) /\ 1 \in 1..Len(s) + 1 /\ 1 \in 1..(k - 1) - 1 + 1
      BY <2>4
  <2>6. /\ Cut(s) \in Text /\ Len(Cut(s)) = k - 1
        /\ Cut(s)[1] = s[1]
    <3>1. k - 1 \in 0..Len(s) /\ 1 <= (k - 1) + 1 /\ (k - 1) - 1 + 1 = k - 1
        BY <2>4
    <3>2. Cut(s) \in Text /\ Len(Cut(s)) = k - 1 /\ Cut(s)[1] = s[1 + 1 - 1]
        BY <2>3, <2>5, <3>1, PartIs
    <3> QED
        BY <3>2
  <2>7. Cut(s) # <<>>
      BY <2>4, <2>6, TextIs
  <2>8. ~ \A i \in 1..Len(s) : s[i] \notin {Query, Hash}
      BY <1>2
  <2>9. Len(Cut(s)) <= Len(s) - 1 /\ (s[Len(s)] = Slash => Len(Cut(s)) <= Len(s) - 2)
      BY <2>4, <2>6
  <2> QED
      BY <2>6, <2>7, <2>8, <2>9
<1> QED
    BY <1>1, <1>2

\* A text without its slashes at the end.
LEMMA TrimEndIs ==
    ASSUME NEW s \in Text
    PROVE  \E k \in 0..Len(s) :
              /\ TrimEnd(s) = SubSeq(s, 1, k)
              /\ k > 0 => s[k] # Slash
              /\ \A i \in k + 1..Len(s) : s[i] = Slash
<1> DEFINE kept == {i \in 1..Len(s) : s[i] # Slash}
<1>1. Len(s) \in Nat
    BY TextIs
<1>2. CASE kept = {}
  <2>1. TrimEnd(s) = <<>>
      BY <1>2 DEF TrimEnd
  <2>2. SubSeq(s, 1, 0) = <<>>
      BY SubSeqEmpty
  <2>3. 0 \in 0..Len(s) /\ \A i \in 0 + 1..Len(s) : s[i] = Slash
      BY <1>1, <1>2
  <2> QED
      BY <2>1, <2>2, <2>3
<1>3. CASE kept # {}
  <2> DEFINE k == CHOOSE i \in kept : \A j \in kept : i >= j
  <2>1. k \in kept /\ \A j \in kept : k >= j
    <3>1. kept \subseteq 1..Len(s)
        OBVIOUS
    <3> HIDE DEF kept
    <3> QED
        BY <1>1, <1>3, <3>1, GreatestExists
  <2>2. TrimEnd(s) = SubSeq(s, 1, k)
      BY <1>3 DEF TrimEnd
  <2> HIDE DEF k
  <2>3. k \in 0..Len(s) /\ s[k] # Slash
      BY <1>1, <2>1
  <2>4. \A i \in k + 1..Len(s) : s[i] = Slash
      BY <1>1, <2>1
  <2> QED
      BY <2>2, <2>3, <2>4
<1> QED
    BY <1>2, <1>3

LEMMA TrimEndText ==
    ASSUME NEW s \in Text
    PROVE  TrimEnd(s) \in Text /\ Len(TrimEnd(s)) <= Len(s)
<1>1. PICK k \in 0..Len(s) : TrimEnd(s) = SubSeq(s, 1, k)
    BY TrimEndIs
<1>2. Len(s) \in Nat /\ 1 \in 1..Len(s) + 1 /\ 1 <= k + 1 /\ k - 1 + 1 = k
    BY TextIs
<1> QED
    BY <1>1, <1>2, PartIs

\* A text that begins with a slash is shorter without it.
LEMMA TrimIsShorter ==
    ASSUME NEW s \in Text
    PROVE  /\ Trim(s) \in Text
           /\ s # <<>> /\ s[1] = Slash => Len(Trim(s)) <= Len(s) - 1
<1> DEFINE kept == {i \in 1..Len(s) : s[i] # Slash}
           t == TrimEnd(s)
<1>1. Len(s) \in Nat /\ (s # <<>> => Len(s) > 0)
    BY TextIs
<1>2. CASE kept = {}
  <2>1. Trim(s) = <<>>
      BY <1>2 DEF Trim
  <2>2. <<>> \in Text /\ Len(<<>>) = 0
      BY EmptySeq DEF Text
  <2> QED
      BY <1>1, <2>1, <2>2
<1>3. CASE kept # {}
  <2> DEFINE m == CHOOSE i \in kept : \A j \in kept : i <= j
  <2>1. m \in kept
    <3>1. kept \subseteq Nat
        OBVIOUS
    <3> HIDE DEF kept
    <3> QED
        BY <1>3, <3>1, LeastExists
  <2>2. Trim(s) = SubSeq(t, m, Len(t))
      BY <1>3 DEF Trim
  <2> HIDE DEF m
  <2>3. PICK k \in 0..Len(s) : t = SubSeq(s, 1, k) /\ \A i \in k + 1..Len(s) : s[i] = Slash
      BY TrimEndIs
  <2>4. t \in Text /\ Len(t) = k
    <3>1. 1 \in 1..Len(s) + 1 /\ 1 <= k + 1 /\ k - 1 + 1 = k
        BY <1>1
    <3> QED
        BY <2>3, <3>1, PartIs
  <2> HIDE DEF t
  <2>5. m \in 1..Len(t) /\ (s[1] = Slash => m > 1)
      BY <1>1, <2>1, <2>3, <2>4
  <2>6. Trim(s) \in Text /\ Len(Trim(s)) = Len(t) - m + 1
    <3>1. m \in 1..Len(t) + 1 /\ Len(t) \in 0..Len(t) /\ m <= Len(t) + 1
        BY <2>4, <2>5
    <3> QED
        BY <2>2, <2>4, <3>1, PartIs
  <2> QED
      BY <1>1, <2>3, <2>4, <2>5, <2>6
<1> QED
    BY <1>2, <1>3

-----------------------------------------------------------------------------
(* Names *)

\* A path from the root, without empty parts.
Name(s) ==
    /\ s \in Text /\ s # <<>> /\ s[1] = Slash
    /\ \A i \in 1..Len(s) : s[i] \in 1..127
    /\ \A i \in 1..Len(s) - 1 : ~(s[i] = Slash /\ s[i + 1] = Slash)

\* Of a file, there is something after its last slash.
IsFile(s) == Name(s) /\ s[Len(s)] # Slash

LEMMA NameIs ==
    ASSUME NEW s, Name(s)
    PROVE  /\ s \in Text /\ Len(s) \in Nat /\ Len(s) >= 1 /\ s[1] = Slash
           /\ s # <<>>
           /\ Len(s) > 1 => s[2] # Slash
           /\ Len(s) > 1 /\ s[Len(s)] = Slash => Len(s) > 2 /\ s[Len(s) - 1] # Slash
<1>1. s \in Text /\ Len(s) \in Nat /\ Len(s) >= 1 /\ s[1] = Slash /\ s # <<>>
    BY TextIs DEF Name
<1>2. ASSUME Len(s) > 1
      PROVE  s[2] # Slash
  <2>1. 1 \in 1..Len(s) - 1 /\ 1 + 1 = 2
      BY <1>1, <1>2
  <2> QED
      BY <1>1, <2>1 DEF Name
<1>3. ASSUME Len(s) > 1, s[Len(s)] = Slash
      PROVE  Len(s) > 2 /\ s[Len(s) - 1] # Slash
  <2>1. Len(s) - 1 \in 1..Len(s) - 1 /\ (Len(s) - 1) + 1 = Len(s)
      BY <1>1, <1>3
  <2>2. s[Len(s) - 1] # Slash
      BY <1>3, <2>1 DEF Name
  <2> QED
      BY <1>1, <1>2, <1>3, <2>2
<1> QED
    BY <1>1, <1>2, <1>3

LEMMA FileIs ==
    ASSUME NEW s, IsFile(s)
    PROVE  Name(s) /\ s[Len(s)] # Slash /\ Len(s) > 1
<1>1. Name(s) /\ s[Len(s)] # Slash
    BY DEF IsFile
<1>2. Len(s) # 1
    BY <1>1, NameIs
<1> QED
    BY <1>1, <1>2, NameIs

\* What comes before a position in a name is a name.
LEMMA PrefixIsName ==
    ASSUME NEW s, Name(s), NEW k \in 1..Len(s)
    PROVE  /\ Name(SubSeq(s, 1, k))
           /\ Len(SubSeq(s, 1, k)) = k /\ SubSeq(s, 1, k)[k] = s[k]
<1> DEFINE t == SubSeq(s, 1, k)
<1>1. s \in Text /\ Len(s) \in Nat
    BY NameIs
<1>2. t \in Text /\ Len(t) = k /\ \A i \in 1..k : t[i] = s[i]
  <2>1. 1 \in 1..Len(s) + 1 /\ k \in 0..Len(s) /\ 1 <= k + 1 /\ k - 1 + 1 = k
      BY <1>1
  <2>2. \A i \in 1..k : 1 + i - 1 = i
      BY <1>1
  <2> HIDE DEF t
  <2>3. t \in Text /\ Len(t) = k /\ \A i \in 1..k : t[i] = s[1 + i - 1]
      BY <1>1, <2>1, PartIs DEF t
  <2> QED
      BY <2>2, <2>3
<1> HIDE DEF t
<1>3. t # <<>> /\ t[1] = Slash
    BY <1>1, <1>2, TextIs DEF Name
<1>4. \A i \in 1..k : t[i] \in 1..127
  <2> TAKE i \in 1..k
  <2>1. i \in 1..Len(s)
      BY <1>1
  <2> QED
      BY <1>2, <2>1 DEF Name
<1>5. \A i \in 1..k - 1 : ~(t[i] = Slash /\ t[i + 1] = Slash)
  <2> TAKE i \in 1..k - 1
  <2>1. i \in 1..k /\ i + 1 \in 1..k /\ i \in 1..Len(s) - 1
      BY <1>1
  <2> QED
      BY <1>2, <2>1 DEF Name
<1>6. Name(t)
    BY <1>2, <1>3, <1>4, <1>5 DEF Name
<1> QED
    BY <1>1, <1>2, <1>6 DEF t

\* One more character, if it is not a second slash in a row.
LEMMA NameGrows ==
    ASSUME NEW s, Name(s), NEW c \in 1..127, c = Slash => s[Len(s)] # Slash
    PROVE  Name(Append(s, c)) /\ (c # Slash => IsFile(Append(s, c)))
<1> DEFINE t == Append(s, c)
           L == Len(s)
<1>1. s \in Text /\ L \in Nat /\ L >= 1 /\ s[1] = Slash
    BY NameIs
<1>2. /\ t \in Text /\ Len(t) = L + 1 /\ t[L + 1] = c
      /\ t # <<>> /\ \A i \in 1..L : t[i] = s[i]
    BY <1>1, AppendProperties DEF Text
<1> HIDE DEF t
<1>3. t[1] = Slash
    BY <1>1, <1>2
<1>4. \A i \in 1..L + 1 : t[i] \in 1..127
  <2> TAKE i \in 1..L + 1
  <2>1. i \in 1..L \/ i = L + 1
      BY <1>1
  <2> QED
      BY <1>2, <2>1 DEF Name
<1>5. \A i \in 1..(L + 1) - 1 : ~(t[i] = Slash /\ t[i + 1] = Slash)
  <2> TAKE i \in 1..(L + 1) - 1
  <2>1. CASE i = L
      BY <1>1, <1>2, <2>1
  <2>2. CASE i # L
    <3>1. i \in 1..L - 1 /\ i \in 1..L /\ i + 1 \in 1..L
        BY <1>1, <2>2
    <3> QED
        BY <1>2, <3>1 DEF Name
  <2> QED
      BY <2>1, <2>2
<1> QED
    BY <1>2, <1>3, <1>4, <1>5 DEF Name, IsFile, t

\* A name without its slash at the end is nothing or the name of a file, and the
\* folder of either is a name.
LEMMA TrimmedIsFile ==
    ASSUME NEW s, s = <<>> \/ Name(s)
    PROVE  /\ TrimEnd(s) = <<>> \/ IsFile(TrimEnd(s))
           /\ s # <<>> /\ Len(s) > 1 => IsFile(TrimEnd(s))
<1>1. s \in Text /\ Len(s) \in Nat
    BY EmptySeq, NameIs DEF Text
<1>2. PICK k \in 0..Len(s) :
         /\ TrimEnd(s) = SubSeq(s, 1, k)
         /\ k > 0 => s[k] # Slash
         /\ \A i \in k + 1..Len(s) : s[i] = Slash
    BY <1>1, TrimEndIs
<1>3. CASE k = 0
  <2>1. TrimEnd(s) = <<>>
      BY <1>2, <1>3, SubSeqEmpty
  <2>2. ~(s # <<>> /\ Len(s) > 1)
    <3>1. ASSUME s # <<>>, Len(s) > 1
          PROVE  FALSE
      <4>1. 2 \in k + 1..Len(s)
          BY <1>1, <1>3, <3>1
      <4> QED
          BY <1>2, <3>1, <4>1, NameIs
    <3> QED
        BY <3>1
  <2> QED
      BY <2>1, <2>2
<1>4. CASE k # 0
  <2>1. k \in 1..Len(s) /\ s # <<>> /\ s[k] # Slash
      BY <1>1, <1>2, <1>4, TextIs
  <2>2. IsFile(TrimEnd(s))
      BY <1>2, <2>1, PrefixIsName DEF IsFile
  <2> QED
      BY <2>2
<1> QED
    BY <1>3, <1>4

LEMMA ParentIsName ==
    ASSUME NEW s, s = <<>> \/ Name(s)
    PROVE  Name(ParentPath(s))
<1>1. s \in Text /\ Len(s) \in Nat
    BY EmptySeq, NameIs DEF Text
<1> DEFINE slashes == {i \in 1..Len(s) : s[i] = Slash}
<1>2. CASE slashes \subseteq {1}
  <2>1. ParentPath(s) = <<Slash>>
      BY <1>2 DEF ParentPath
  <2> QED
      BY <2>1 DEF Name, Text, Slash
<1>3. CASE ~(slashes \subseteq {1})
  <2> DEFINE k == CHOOSE i \in slashes : \A j \in slashes : i >= j
  <2>1. k \in slashes /\ \A j \in slashes : k >= j
    <3>1. slashes \subseteq 1..Len(s) /\ slashes # {}
        BY <1>3
    <3> HIDE DEF slashes
    <3> QED
        BY <1>1, <3>1, GreatestExists
  <2>2. ParentPath(s) = SubSeq(s, 1, k - 1)
      BY <1>3 DEF ParentPath
  <2> HIDE DEF k
  <2>3. PICK i \in slashes : i # 1
      BY <1>3
  <2>4. k - 1 \in 1..Len(s) /\ s # <<>>
      BY <1>1, <2>1, <2>3, TextIs
  <2> QED
      BY <2>2, <2>4, PrefixIsName
<1> QED
    BY <1>2, <1>3

\* The file of a name is the name without its first slash.
LEMMA TrimOfFile ==
    ASSUME NEW s, IsFile(s)
    PROVE  /\ TrimEnd(s) = s
           /\ Trim(s) \in Text /\ Len(Trim(s)) = Len(s) - 1
           /\ \A i \in 1..Len(s) - 1 : Trim(s)[i] = s[i + 1]
<1> DEFINE kept == {i \in 1..Len(s) : s[i] # Slash}
<1>1. /\ s \in Text /\ Len(s) \in Nat /\ Len(s) > 1
      /\ s[1] = Slash /\ s[2] # Slash /\ s[Len(s)] # Slash
    BY FileIs, NameIs
<1>2. TrimEnd(s) = s
  <2>1. PICK k \in 0..Len(s) :
           /\ TrimEnd(s) = SubSeq(s, 1, k)
           /\ \A i \in k + 1..Len(s) : s[i] = Slash
      BY <1>1, TrimEndIs
  <2>2. k = Len(s)
    <3>1. ASSUME k # Len(s)
          PROVE  FALSE
      <4>1. Len(s) \in k + 1..Len(s)
          BY <1>1, <3>1
      <4> QED
          BY <1>1, <2>1, <4>1
    <3> QED
        BY <3>1
  <2> QED
      BY <1>1, <2>1, <2>2, SubSeqFull DEF Text
<1>3. Trim(s) = SubSeq(s, 2, Len(s))
  <2> DEFINE m == CHOOSE i \in kept : \A j \in kept : i <= j
  <2>1. 2 \in kept /\ 1 \notin kept
      BY <1>1
  <2>2. kept \subseteq Nat
      OBVIOUS
  <2>3. m \in kept /\ \A j \in kept : m <= j
    <3> HIDE DEF kept
    <3> QED
      BY <2>1, <2>2, LeastExists
  <2>4. Trim(s) = SubSeq(s, m, Len(s))
      BY <1>2, <2>1 DEF Trim
  <2> HIDE DEF m
  <2>5. m = 2
    <3>1. m <= 2 /\ m >= 1 /\ m # 1 /\ m \in Nat
        BY <2>1, <2>2, <2>3
    <3> QED
        BY <3>1
  <2> QED
      BY <2>4, <2>5
<1> DEFINE L == Len(s)
<1>4. 2 \in 1..L + 1 /\ L \in 0..L /\ 2 <= L + 1 /\ L - 2 + 1 = L - 1
    BY <1>1
<1>5. \A i \in 1..L - 1 : 2 + i - 1 = i + 1
    BY <1>1
<1>6. /\ Trim(s) \in Text /\ Len(Trim(s)) = L - 1
      /\ \A i \in 1..L - 1 : Trim(s)[i] = s[2 + i - 1]
    BY <1>1, <1>3, <1>4, PartIs
<1> QED
    BY <1>2, <1>5, <1>6

\* The file and the slash before it are the name.
LEMMA FileIsRooted ==
    ASSUME NEW s, IsFile(s)
    PROVE  <<Slash>> \o Trim(s) = s
<1> DEFINE t == Trim(s)
           L == Len(s)
           r == <<Slash>> \o t
<1>1. s \in Text /\ L \in Nat /\ L > 1 /\ s[1] = Slash
    BY FileIs, NameIs
<1>2. t \in Text /\ Len(t) = L - 1 /\ \A i \in 1..L - 1 : t[i] = s[i + 1]
    BY TrimOfFile
<1>3. <<Slash>> \in Text /\ Len(<<Slash>>) = 1 /\ <<Slash>>[1] = Slash
    BY DEF Slash, Text
<1> HIDE DEF t
<1>4. /\ r \in Text /\ Len(r) = 1 + (L - 1)
      /\ \A i \in 1..1 + (L - 1) : r[i] = IF i <= 1 THEN <<Slash>>[i] ELSE t[i - 1]
    BY <1>2, <1>3, ConcatProperties DEF Text
<1> HIDE DEF r
<1>5. Len(r) = L
    BY <1>1, <1>4
<1>6. \A i \in 1..L : r[i] = s[i]
  <2> TAKE i \in 1..L
  <2>1. CASE i = 1
      BY <1>1, <1>3, <1>4, <2>1
  <2>2. CASE i # 1
    <3>1. i \in 1..1 + (L - 1) /\ ~(i <= 1) /\ i - 1 \in 1..L - 1 /\ (i - 1) + 1 = i
        BY <1>1, <2>2
    <3> QED
        BY <1>2, <1>4, <3>1
  <2> QED
      BY <2>1, <2>2
<1>7. r = s
    BY <1>1, <1>4, <1>5, <1>6, SeqEqual DEF Text
<1> QED
    BY <1>7 DEF r, t

\* With the slash at its end, the name of a folder is shorter by two, without both.
LEMMA TrimOfFolder ==
    ASSUME NEW s, Name(s), Len(s) > 1, s[Len(s)] = Slash
    PROVE  Len(Trim(s)) = Len(s) - 2
<1> DEFINE kept == {i \in 1..Len(s) : s[i] # Slash}
           L == Len(s)
           t == TrimEnd(s)
<1>1. s \in Text /\ L \in Nat /\ L > 2 /\ s[1] = Slash /\ s[2] # Slash /\ s[L - 1] # Slash
    BY NameIs
<1>2. t \in Text /\ Len(t) = L - 1
  <2>1. PICK k \in 0..Len(s) :
           /\ t = SubSeq(s, 1, k)
           /\ k > 0 => s[k] # Slash
           /\ \A i \in k + 1..Len(s) : s[i] = Slash
      BY <1>1, TrimEndIs
  <2>2. k # L
      BY <1>1, <2>1
  <2>3. ~(k < L - 1)
    <3>1. ASSUME k < L - 1
          PROVE  FALSE
      <4>1. L - 1 \in k + 1..Len(s)
          BY <1>1, <3>1
      <4> QED
          BY <1>1, <2>1, <4>1
    <3> QED
        BY <3>1
  <2>4. k = L - 1
      BY <1>1, <2>2, <2>3
  <2>5. 1 \in 1..Len(s) + 1 /\ 1 <= k + 1 /\ k - 1 + 1 = k
      BY <1>1
  <2> QED
      BY <1>1, <2>1, <2>4, <2>5, PartIs
<1>3. Trim(s) = SubSeq(t, 2, Len(t))
  <2> DEFINE m == CHOOSE i \in kept : \A j \in kept : i <= j
  <2>1. 2 \in kept /\ 1 \notin kept
      BY <1>1
  <2>2. kept \subseteq Nat
      OBVIOUS
  <2>3. m \in kept /\ \A j \in kept : m <= j
    <3> HIDE DEF kept
    <3> QED
      BY <2>1, <2>2, LeastExists
  <2>4. Trim(s) = SubSeq(t, m, Len(t))
      BY <2>1 DEF Trim
  <2> HIDE DEF m
  <2>5. m = 2
    <3>1. m <= 2 /\ m >= 1 /\ m # 1 /\ m \in Nat
        BY <2>1, <2>2, <2>3
    <3> QED
        BY <3>1
  <2> QED
      BY <2>4, <2>5
<1> HIDE DEF t
<1>4. 2 \in 1..Len(t) + 1 /\ Len(t) \in 0..Len(t) /\ 2 <= Len(t) + 1 /\ Len(t) - 2 + 1 = L - 2
    BY <1>1, <1>2
<1>5. Len(Trim(s)) = Len(t) - 2 + 1
    BY <1>2, <1>3, <1>4, PartIs
<1> QED
    BY <1>4, <1>5

-----------------------------------------------------------------------------
(* Decoding once more *)

\* A file holds an escape, or a character that ends a path, if its name does.
LEMMA FileIsPlain ==
    ASSUME NEW s, IsFile(s)
    PROVE  /\ HasEscape(Trim(s)) <=> HasEscape(s)
           /\ IsPlain(Trim(s)) <=> IsPlain(s)
<1> DEFINE t == Trim(s)
           L == Len(s)
<1>1. s \in Text /\ L \in Nat /\ L > 1 /\ s[1] = Slash
    BY FileIs, NameIs
<1>2. t \in Text /\ Len(t) = L - 1 /\ \A i \in 1..L - 1 : t[i] = s[i + 1]
    BY TrimOfFile
<1> HIDE DEF t
<1>3. \A i \in 1..L - 1 : EscapeAt(t, i) <=> EscapeAt(s, i + 1)
  <2> TAKE i \in 1..L - 1
  <2>1. i + 2 <= L - 1 <=> (i + 1) + 2 <= L
      BY <1>1
  <2>2. ASSUME i + 2 <= L - 1
        PROVE  t[i + 1] = s[(i + 1) + 1] /\ t[i + 2] = s[(i + 1) + 2]
    <3>1. i + 1 \in 1..L - 1 /\ i + 2 \in 1..L - 1 /\ (i + 2) + 1 = (i + 1) + 2
        BY <1>1, <2>2
    <3> QED
        BY <1>2, <3>1
  <2> QED
      BY <1>2, <2>1, <2>2 DEF EscapeAt
<1>4. ~EscapeAt(s, 1) /\ s[1] \notin {Query, Hash}
    BY <1>1 DEF EscapeAt, Slash, Percent, Query, Hash
<1>5. \A i \in 1..L : i = 1 \/ \E j \in 1..L - 1 : i = j + 1
  <2> TAKE i \in 1..L
  <2>1. i = 1 \/ (i - 1 \in 1..L - 1 /\ i = (i - 1) + 1)
      BY <1>1
  <2> QED
      BY <2>1
<1>6. \A j \in 1..L - 1 : j + 1 \in 1..L
    BY <1>1
<1>7. HasEscape(t) <=> HasEscape(s)
    BY <1>2, <1>3, <1>4, <1>5, <1>6 DEF HasEscape
<1>8. (\A i \in 1..Len(t) : t[i] \notin {Query, Hash}) <=>
      (\A i \in 1..L : s[i] \notin {Query, Hash})
    BY <1>2, <1>4, <1>5, <1>6
<1> QED
    BY <1>7, <1>8 DEF IsPlain, t

\* Decoded once more, a name reads its file exactly if it holds no escape.
LEMMA FileIsReadIf ==
    ASSUME NEW s, IsFile(s)
    PROVE  FsPath(s) \in Text /\ (FsPath(s) = Trim(s) <=> ~HasEscape(Trim(s)))
<1>1. s \in Text /\ Len(s) \in Nat /\ s # <<>> /\ s[1] = Slash
    BY FileIs, NameIs
<1>2. /\ Decode(s) \in Text /\ Decode(s) # <<>> /\ Decode(s)[1] = Slash
      /\ HasEscape(s) => Len(Decode(s)) <= Len(s) - 2
      /\ ~HasEscape(s) => Decode(s) = s
    BY <1>1, Decoded
<1>3. FsPath(s) \in Text /\ Len(FsPath(s)) <= Len(Decode(s)) - 1
    BY <1>2, TrimIsShorter DEF FsPath
<1>4. Len(Trim(s)) = Len(s) - 1
    BY TrimOfFile
<1>5. HasEscape(s) => FsPath(s) # Trim(s)
    BY <1>1, <1>2, <1>3, <1>4, TextIs
<1>6. ~HasEscape(s) => FsPath(s) = Trim(s)
    BY <1>2 DEF FsPath
<1> QED
    BY <1>3, <1>5, <1>6, FileIsPlain

\* Cut and decoded twice, as on the peer, a name means the same exactly if it is plain.
LEMMA PeerReadsIf ==
    ASSUME NEW s, Name(s)
    PROVE  /\ FsPath(NormalizeWirePath(s)) \in Text
           /\ FsPath(NormalizeWirePath(s)) = Trim(s) <=> IsPlain(s)
<1> DEFINE c == Cut(s)
           d == Decode(c)
           e == Decode(d)
           L == Len(s)
<1>1. s \in Text /\ L \in Nat /\ L >= 1 /\ s # <<>> /\ s[1] = Slash
    BY NameIs
<1>2. /\ c \in Text /\ c # <<>> /\ c[1] = Slash
      /\ (\A i \in 1..L : s[i] \notin {Query, Hash}) => c = s
      /\ (\E i \in 1..L : s[i] \in {Query, Hash}) =>
            Len(c) <= L - 1 /\ (s[L] = Slash => Len(c) <= L - 2)
    BY <1>1, CutIs
<1> HIDE DEF c
<1>3. /\ d \in Text /\ d # <<>> /\ d[1] = Slash
      /\ Len(d) <= Len(c)
      /\ HasEscape(c) => Len(d) <= Len(c) - 2
      /\ ~HasEscape(c) => d = c
    BY <1>2, Decoded
<1>4. NormalizeWirePath(s) = d
    BY <1>3 DEF NormalizeWirePath, Rooted, c
<1> HIDE DEF d
<1>5. /\ e \in Text /\ e # <<>> /\ e[1] = Slash
      /\ Len(e) <= Len(d)
      /\ ~HasEscape(d) => e = d
    BY <1>3, Decoded
<1> HIDE DEF e
<1>6. FsPath(NormalizeWirePath(s)) = Trim(e)
    BY <1>4 DEF FsPath, e
<1>7. Trim(e) \in Text /\ Len(Trim(e)) <= Len(e) - 1
    BY <1>5, TrimIsShorter
<1>8. ASSUME IsPlain(s)
      PROVE  Trim(e) = Trim(s)
    BY <1>2, <1>3, <1>5, <1>8 DEF IsPlain
<1>9. ASSUME ~IsPlain(s)
      PROVE  Trim(e) # Trim(s)
  <2>1. L > 1
    <3>1. ASSUME L = 1
          PROVE  IsPlain(s)
      <4>1. \A i \in 1..L : s[i] = Slash
          BY <1>1, <3>1
      <4> QED
          BY <4>1 DEF IsPlain, HasEscape, EscapeAt, Slash, Percent, Query, Hash
    <3> QED
        BY <1>1, <1>9, <3>1
  <2>2. Len(Trim(s)) = IF s[L] = Slash THEN L - 2 ELSE L - 1
    <3>1. CASE s[L] = Slash
        BY <2>1, <3>1, TrimOfFolder
    <3>2. CASE s[L] # Slash
        BY <3>2, TrimOfFile DEF IsFile
    <3> QED
        BY <3>1, <3>2
  <2>3. CASE \E i \in 1..L : s[i] \in {Query, Hash}
    <3>1. Len(c) <= L - 1 /\ (s[L] = Slash => Len(c) <= L - 2)
        BY <1>2, <2>3
    <3>2. Len(c) \in Nat /\ Len(d) \in Nat /\ Len(e) \in Nat
        BY <1>2, <1>3, <1>5, TextIs
    <3>3. Len(Trim(e)) < Len(Trim(s))
      <4>1. Len(Trim(e)) \in Nat
          BY <1>7, TextIs
      <4> QED
          BY <1>1, <1>3, <1>5, <1>7, <2>2, <3>1, <3>2, <4>1
    <3> QED
        BY <3>3, <1>7, TextIs
  <2>4. CASE \A i \in 1..L : s[i] \notin {Query, Hash}
    <3>1. c = s /\ HasEscape(s)
        BY <1>2, <1>9, <2>4 DEF IsPlain
    <3>2. Len(d) \in Nat /\ Len(e) \in Nat /\ Len(Trim(e)) \in Nat
        BY <1>3, <1>5, <1>7, TextIs
    <3>3. Len(d) <= L - 2
        BY <1>3, <3>1
    <3>4. Len(Trim(e)) < Len(Trim(s))
        BY <1>1, <1>5, <1>7, <2>2, <3>2, <3>3
    <3> QED
        BY <3>4, <1>7, TextIs
  <2> QED
      BY <2>3, <2>4
<1> QED
    BY <1>6, <1>7, <1>8, <1>9

-----------------------------------------------------------------------------
(* The request *)

\* What a client sends is not cut, and a name is rooted already.
LEMMA RequestIsDecoded ==
    ASSUME NEW u, Encoded(u), Name(Decode(u))
    PROVE  NormalizeRequestPath(u) = Decode(u) /\ NormalizeDestination(u) = Decode(u)
<1>1. Cut(u) = u
    BY DEF Encoded, Cut
<1>2. Rooted(Decode(u)) = Decode(u)
    BY DEF Name, Rooted
<1> QED
    BY <1>1, <1>2 DEF NormalizeRequestPath, NormalizeDestination

\* The recursion of FlattenSeq has a solution.
LEMMA FlattenUnfolds ==
    ASSUME NEW seqs, Len(seqs) \in Nat \ {0}
    PROVE  \E flat :
              /\ FlattenSeq(seqs) = flat[Len(seqs)]
              /\ flat[1] = seqs[1]
              /\ \A i \in 2..Len(seqs) : flat[i] = flat[i - 1] \o seqs[i]
<1> DEFINE L == Len(seqs)
           Step(f, i) == IF i = 1 THEN seqs[i] ELSE f[i - 1] \o seqs[i]
           flat == CHOOSE f : f = [i \in 1..L |-> Step(f, i)]
           Total(f, m) == f = [i \in 1..m |-> Step(f, i)]
           Defined == {m \in Nat : \E f : Total(f, m)}
<1>1. FlattenSeq(seqs) = flat[L]
    BY DEF FlattenSeq
<1>2. ASSUME NEW f, NEW g, NEW i \in Nat \ {0}, i # 1 => f[i - 1] = g[i - 1]
      PROVE  Step(f, i) = Step(g, i)
    BY <1>2
<1>3. Nat \subseteq Defined
  <2>1. 0 \in Defined
    <3>1. Total([i \in 1..0 |-> <<>>], 0)
      <4> HIDE DEF Step
      <4> QED
          OBVIOUS
    <3>2. \E f : Total(f, 0)
      <4> HIDE DEF Total
      <4> QED
          BY <3>1
    <3> QED
        BY <3>2
  <2>2. ASSUME NEW m \in Nat, m \in Defined
        PROVE  m + 1 \in Defined
    <3>1. PICK g : Total(g, m)
        BY <2>2
    <3> DEFINE f == [i \in 1..m + 1 |-> IF i \in 1..m THEN g[i] ELSE Step(g, i)]
    <3>2. \A j \in 1..m : f[j] = g[j] /\ g[j] = Step(g, j)
      <4> HIDE DEF Step
      <4> QED
          BY <3>1
    <3>3. ASSUME NEW i \in 1..m + 1
          PROVE  f[i] = Step(f, i)
      <4>1. f[i] = Step(g, i)
        <5> HIDE DEF Step
        <5> QED
            BY <3>2
      <4>2. i # 1 => f[i - 1] = g[i - 1]
        <5>1. i # 1 => i - 1 \in 1..m
            OBVIOUS
        <5> HIDE DEF f
        <5> QED
            BY <3>2, <5>1
      <4>3. i \in Nat \ {0}
          OBVIOUS
      <4> HIDE DEF Step, f
      <4> QED
          BY <1>2, <4>1, <4>2, <4>3
    <3>4. Total(f, m + 1)
      <4> HIDE DEF Step
      <4> QED
          BY <3>3
    <3>5. \E h : Total(h, m + 1)
      <4> HIDE DEF f, Total
      <4> QED
          BY <3>4
    <3> HIDE DEF Step
    <3> QED
        BY <3>5
  <2> HIDE DEF Defined
  <2> QED
      BY <2>1, <2>2, SetInduction
<1>4. \E f : Total(f, L)
    BY <1>3
<1>5. flat = [i \in 1..L |-> Step(flat, i)]
  <2> HIDE DEF Step
  <2> QED
      BY <1>4
<1> HIDE DEF flat
<1>6. \A i \in 1..L : flat[i] = Step(flat, i)
  <2> HIDE DEF Step
  <2> QED
      BY <1>5
<1>7. flat[1] = seqs[1]
    BY <1>6
<1>8. \A i \in 2..L : flat[i] = flat[i - 1] \o seqs[i]
  <2> TAKE i \in 2..L
  <2>1. i \in 1..L /\ i # 1
      OBVIOUS
  <2>2. Step(flat, i) = flat[i - 1] \o seqs[i]
      BY <2>1
  <2> HIDE DEF Step
  <2> QED
      BY <1>6, <2>1, <2>2
<1> QED
    BY <1>1, <1>7, <1>8

\* Escaped throughout or as little as possible, a name decodes to itself.
LEMMA FormsAreDecoded ==
    ASSUME NEW s, Name(s), NEW all \in BOOLEAN
    PROVE  Encoded(FormsOf(s, all)) /\ Decode(FormsOf(s, all)) = s
<1> DEFINE L == Len(s)
           Best(i) == CHOOSE form \in Forms(s[i]) :
                          \A other \in Forms(s[i]) : IF all THEN Len(form) >= Len(other)
                                                       ELSE Len(form) <= Len(other)
           forms == [i \in 1..L |-> Best(i)]
<1>1. s \in Text /\ L \in Nat /\ L >= 1 /\ \A i \in 1..L : s[i] \in 1..127
    BY NameIs DEF Name
<1>2. ASSUME NEW i \in 1..L
      PROVE  Best(i) \in Forms(s[i])
  <2> DEFINE c == s[i]
  <2>1. /\ Len(<<c>>) = 1 /\ Len(Escaped(c)) = 3
        /\ Forms(c) \in {{<<c>>}, {Escaped(c)}, {<<c>>, Escaped(c)}}
      BY DEF Forms, Escaped
  <2>5. ASSUME NEW plain, Len(plain) = 1, NEW escaped, Len(escaped) = 3,
               NEW F, F \in {{plain}, {escaped}, {plain, escaped}}
        PROVE  /\ \E form \in F : \A other \in F : Len(form) >= Len(other)
               /\ \E form \in F : \A other \in F : Len(form) <= Len(other)
    <3>1. CASE F = {plain}
        BY <2>5, <3>1
    <3>2. CASE F = {escaped}
        BY <2>5, <3>2
    <3>3. CASE F = {plain, escaped}
      <4>1. \A other \in F : Len(escaped) >= Len(other) /\ Len(plain) <= Len(other)
        <5> TAKE other \in F
        <5>1. Len(other) = 1 \/ Len(other) = 3
            BY <2>5, <3>3
        <5>2. Len(escaped) = 3 /\ Len(plain) = 1
            BY <2>5
        <5>3. 3 >= 1 /\ 3 >= 3 /\ 1 <= 1 /\ 1 <= 3
            OBVIOUS
        <5> QED
            BY <5>1, <5>2, <5>3, Zenon
      <4> QED
          BY <3>3, <4>1
    <3> QED
        BY <2>5, <3>1, <3>2, <3>3
  <2>6. /\ \E form \in Forms(c) : \A other \in Forms(c) : Len(form) >= Len(other)
        /\ \E form \in Forms(c) : \A other \in Forms(c) : Len(form) <= Len(other)
    <3> DEFINE plain == <<c>>
               escaped == Escaped(c)
               F == Forms(c)
    <3>1. Len(plain) = 1 /\ Len(escaped) = 3 /\ F \in {{plain}, {escaped}, {plain, escaped}}
        BY <2>1
    <3> HIDE DEF plain, escaped, F
    <3>2. /\ \E form \in F : \A other \in F : Len(form) >= Len(other)
          /\ \E form \in F : \A other \in F : Len(form) <= Len(other)
        BY <2>5, <3>1
    <3> QED
        BY <3>2 DEF F
  <2> HIDE DEF c
  <2>2. \E form \in Forms(c) : \A other \in Forms(c) : Len(form) >= Len(other)
      BY <2>6
  <2>3. \E form \in Forms(c) : \A other \in Forms(c) : Len(form) <= Len(other)
      BY <2>6
  <2>4. \E form \in Forms(c) : \A other \in Forms(c) : IF all THEN Len(form) >= Len(other)
                                                            ELSE Len(form) <= Len(other)
    <3>1. CASE all
        BY <2>2, <3>1
    <3>2. CASE ~all
        BY <2>3, <3>2
    <3> QED
        BY <3>1, <3>2
  <2> QED
      BY <2>4 DEF c
<1> HIDE DEF Best
<1>3. Len(forms) = L /\ \A i \in 1..L : forms[i] \in Forms(s[i])
    BY <1>1, <1>2
<1>4. FormsOf(s, all) = FlattenSeq(forms)
    BY DEF FormsOf, Best
<1> HIDE DEF forms
<1>5. PICK flat : /\ FlattenSeq(forms) = flat[L]
                  /\ flat[1] = forms[1]
                  /\ \A i \in 2..L : flat[i] = flat[i - 1] \o forms[i]
  <2>1. Len(forms) \in Nat \ {0}
      BY <1>1, <1>3
  <2> HIDE DEF L
  <2> QED
      BY <1>3, <2>1, FlattenUnfolds
<1> DEFINE Part(n) == Encoded(flat[n]) /\ Decode(flat[n]) = SubSeq(s, 1, n)
           S == {n \in Nat : n + 1 \in 1..L => Part(n + 1)}
<1>6. Part(1)
  <2>1. Encoded(<<>>) /\ Decode(<<>>) = <<>>
    <3>1. <<>> \in Text /\ Len(<<>>) = 0
        BY EmptySeq DEF Text
    <3>2. ~HasEscape(<<>>)
        BY <3>1 DEF HasEscape
    <3>3. Decode(<<>>) = <<>>
        BY <3>1, <3>2, Decoded
    <3> QED
        BY <3>1, <3>3 DEF Encoded
  <2>2. forms[1] \in Forms(s[1]) /\ s[1] \in 1..127
      BY <1>1, <1>3
  <2>3. <<>> \o forms[1] = forms[1]
    <3>1. \A n \in 0..15 : HexDigit(n) \in Nat
        BY DigitIsRead
    <3>2. CASE forms[1] = <<s[1]>>
        BY <2>2, <3>2
    <3>3. ASSUME NEW m \in 0..15, NEW n \in 0..15,
                 forms[1] = <<Percent, HexDigit(m), HexDigit(n)>>
          PROVE  <<>> \o forms[1] = forms[1]
        BY <3>1, <3>3 DEF Percent
    <3>4. \/ forms[1] = <<s[1]>>
          \/ \E m \in 0..15, n \in 0..15 : forms[1] = <<Percent, HexDigit(m), HexDigit(n)>>
        BY <2>2, FormIs
    <3> QED
        BY <3>2, <3>3, <3>4
  <2>4. Encoded(forms[1]) /\ Decode(forms[1]) = Append(<<>>, s[1])
      BY <2>1, <2>2, <2>3, FormIsDecoded
  <2>5. Append(<<>>, s[1]) = SubSeq(s, 1, 1)
    <3>1. 1 \in 1..Len(s) + 1 /\ 1 \in 0..Len(s) /\ 1 <= 1 + 1 /\ 1 - 1 + 1 = 1
        BY <1>1
    <3>2. /\ SubSeq(s, 1, 1) \in Text /\ Len(SubSeq(s, 1, 1)) = 1
          /\ SubSeq(s, 1, 1)[1] = s[1]
        BY <1>1, <3>1, PartIs
    <3>3. Append(<<>>, s[1]) \in Text /\ Len(Append(<<>>, s[1])) = 1 /\ Append(<<>>, s[1])[1] = s[1]
      <4>1. s[1] \in 0..255
          BY <2>2
      <4> QED
          BY <4>1 DEF Text
    <3> QED
        BY <3>2, <3>3, SeqEqual DEF Text
  <2> QED
      BY <1>5, <2>4, <2>5
<1>7. ASSUME NEW n \in Nat, n \in S
      PROVE  n + 1 \in S
  <2> SUFFICES ASSUME (n + 1) + 1 \in 1..L
               PROVE  Part((n + 1) + 1)
      OBVIOUS
  <2> DEFINE k == (n + 1) + 1
  <2>1. k \in 1..L /\ k \in 2..L /\ k - 1 = n + 1 /\ n + 1 \in 1..L /\ k - 1 \in Nat
      BY <1>1
  <2>2. Part(k - 1)
      BY <1>7, <2>1
  <2> HIDE DEF k
  <2>3. flat[k] = flat[k - 1] \o forms[k]
      BY <1>5, <2>1
  <2>4. forms[k] \in Forms(s[k]) /\ s[k] \in 1..127
      BY <1>1, <1>3, <2>1
  <2>5. Encoded(flat[k]) /\ Decode(flat[k]) = Append(SubSeq(s, 1, k - 1), s[k])
      BY <2>2, <2>3, <2>4, FormIsDecoded
  <2>6. Append(SubSeq(s, 1, k - 1), s[k]) = SubSeq(s, 1, k)
    <3>1. SubSeq(s, 1, k) = SubSeq(s, 1, k - 1) \o <<s[k]>>
      <4>1. 1 \in 1..Len(s) /\ s \in Seq(0..255)
          BY <1>1 DEF Text
      <4> QED
          BY <2>1, <4>1, SubSeqRecursiveSecond
    <3>2. SubSeq(s, 1, k - 1) \in Seq(0..255)
      <4>1. 1 \in 1..Len(s) + 1 /\ k - 1 \in 0..Len(s) /\ 1 <= (k - 1) + 1
          BY <1>1, <2>1
      <4> QED
          BY <1>1, <4>1, PartIs DEF Text
    <3>3. s[k] \in 0..255
        BY <2>4
    <3> QED
        BY <3>1, <3>2, <3>3, AppendIsConcat
  <2>7. Part(k)
      BY <2>5, <2>6
  <2> QED
      BY <2>7 DEF k
<1>8. 0 \in S
    BY <1>6
<1>9. Part(L)
  <2>1. L - 1 \in S
    <3>1. L - 1 \in Nat
        BY <1>1
    <3> HIDE DEF S
    <3> QED
        BY <1>7, <1>8, <3>1, SetInduction
  <2>2. (L - 1) + 1 = L /\ L \in 1..L
      BY <1>1
  <2> QED
      BY <2>1, <2>2
<1>10. SubSeq(s, 1, L) = s
    BY <1>1, SubSeqFull DEF Text
<1> QED
    BY <1>4, <1>5, <1>9, <1>10

-----------------------------------------------------------------------------
(* The invariant: what each path is, and the functions that gave it.         *)

\* The URI is what the client means, escaped.
Written ==
    /\ name \in Seq(Char) /\ Name(name)
    /\ Encoded(uri) /\ Decode(uri) = name

\* The request is about that name, and about the file of its final path.
Requested ==
    /\ stored = NoPath =>
          to = NoPath /\ source = NoPath /\ final = NoPath /\ kind = NoPath
    /\ stored # NoPath => source = name /\ IsFile(final) /\ stored = Trim(final)
    /\ to # NoPath => to \in Text
    /\ kind # NoPath => /\ kind = IF ParentPath(to) = ParentPath(name) THEN "renamed" ELSE "moved"
                        /\ stored # NoPath

\* What the node of the client reads for it, and what the peer changes.
Followed ==
    /\ recorded = NoPath => hashed = NoPath /\ sized = NoPath
    /\ recorded # NoPath =>
          stored # NoPath /\ recorded = final /\ hashed = FsPath(final) /\ sized = FsPath(final)
    /\ listed = NoPath => scanned = NoPath
    /\ listed # NoPath => stored # NoPath /\ listed = final /\ scanned = FsPath(final)
    /\ written = NoPath => taken = NoPath
    /\ written # NoPath => /\ stored # NoPath
                           /\ written = FsPath(NormalizeWirePath(final))
                           /\ taken = FsPath(NormalizeWirePath(name))

Inv == Written /\ Requested /\ Followed

\* A path is not NoPath.
LEMMA TextIsAPath ==
    ASSUME NEW s \in Text
    PROVE  s # NoPath
<1> DEFINE B == 0..255
<1>1. B \subseteq Nat /\ s \in Seq(B)
    BY DEF Text
<1> HIDE DEF B
<1>2. s \in Seq(Nat)
    BY <1>1, SeqMonotonic
<1> QED
    BY <1>2, WirePathAssumption

LEMMA RootIsName == Name(<<Slash>>)
<1>1. <<Slash>> \in Text /\ Len(<<Slash>>) = 1 /\ <<Slash>>[1] = Slash /\ Slash \in 1..127
    BY DEF Text, Slash
<1>2. <<Slash>> # <<>> /\ \A i \in 1..1 : <<Slash>>[i] \in 1..127
    BY <1>1, TextIs
<1>3. 1..Len(<<Slash>>) - 1 = {}
    BY <1>1
<1> QED
    BY <1>1, <1>2, <1>3 DEF Name

\* A letter after a slash.
LEMMA SlashAndLetter ==
    /\ Append(<<Slash>>, Letter) = <<Slash, Letter>>
    /\ <<Slash>> \o <<Letter>> = <<Slash, Letter>>
    /\ <<>> \o <<Slash, Letter>> = <<Slash, Letter>>
<1>1. Slash \in Nat /\ Letter \in Nat
    BY DEF Slash, Letter
<1>2. <<Slash>> \in Seq(Nat) /\ <<Letter>> \in Seq(Nat) /\ <<Slash, Letter>> \in Seq(Nat)
    BY <1>1
<1>3. Append(<<Slash>>, Letter) = <<Slash>> \o <<Letter>>
    BY <1>1, <1>2, AppendIsConcat
<1> DEFINE t == Append(<<Slash>>, Letter)
<1>4. t \in Seq(Nat) /\ Len(t) = 2 /\ t[1] = Slash /\ t[2] = Letter
    BY <1>1
<1>5. LET u == <<Slash, Letter>> IN Len(u) = 2 /\ u[1] = Slash /\ u[2] = Letter
    BY <1>1
<1> HIDE DEF t
<1>6. t = <<Slash, Letter>>
    BY <1>2, <1>4, <1>5, SeqEqual
<1>7. <<>> \o <<Slash, Letter>> = <<Slash, Letter>>
    BY <1>2, ConcatEmptySeq
<1> QED
    BY <1>3, <1>6, <1>7 DEF t

LEMMA InitInv == Init => Inv
<1> SUFFICES ASSUME Init PROVE Inv
    OBVIOUS
<1>1. Slash \in Char /\ Slash \in 1..127 /\ name = <<Slash>> /\ uri = <<Slash>>
    BY WirePathAssumption DEF Init
<1>2. <<Slash>> \in Text /\ Len(<<Slash>>) = 1 /\ <<Slash>>[1] = Slash
    BY <1>1 DEF Text, Slash
<1>3. Name(name) /\ name \in Seq(Char)
    BY <1>1, RootIsName
<1>4. \A i \in 1..1 : uri[i] = Slash
    BY <1>1, <1>2
<1>5. ~HasEscape(uri) /\ Encoded(uri)
    BY <1>1, <1>2, <1>4 DEF HasEscape, EscapeAt, Encoded, Slash, Percent, Query, Hash
<1>6. Decode(uri) = name
    BY <1>1, <1>2, <1>5, Decoded
<1> QED
    BY <1>3, <1>5, <1>6 DEF Inv, Written, Requested, Followed, Init

\* Whatever the request asks for, its final path is decoded to what is meant.
LEMMA DestinationIsFile ==
    ASSUME Name(name), Len(name) > 1, NEW dest \in Destinations
    PROVE  IsFile(dest)
<1>1. Letter \in 1..127 /\ Letter # Slash /\ Slash \in 1..127
    BY DEF Letter, Slash
<1>2. Name(<<Slash>>) /\ IsFile(<<Slash, Letter>>)
  <2>1. Name(<<Slash>>)
      BY RootIsName
  <2>2. IsFile(Append(<<Slash>>, Letter))
      BY <1>1, <2>1, NameGrows
  <2>3. Append(<<Slash>>, Letter) = <<Slash, Letter>>
      BY SlashAndLetter
  <2> QED
      BY <2>1, <2>2, <2>3
<1>3. ASSUME NEW s, IsFile(s)
      PROVE  IsFile(s \o <<Letter>>) /\ IsFile(s \o <<Slash, Letter>>)
  <2>1. Name(s) /\ s[Len(s)] # Slash /\ s \in Text
      BY <1>3, FileIs, NameIs
  <2>2. Append(s, Letter) = s \o <<Letter>> /\ Append(s, Slash) = s \o <<Slash>>
      BY <2>1, <1>1, AppendIsConcat DEF Text, Letter, Slash
  <2>3. IsFile(Append(s, Letter))
      BY <1>1, <2>1, NameGrows
  <2>4. Name(Append(s, Slash)) /\ Append(s, Slash) \in Text /\ Append(s, Slash)[Len(Append(s, Slash))] = Slash
    <3>1. Name(Append(s, Slash))
        BY <1>1, <2>1, NameGrows
    <3> QED
        BY <3>1, <2>1, NameIs, AppendProperties DEF Text, Slash
  <2>5. IsFile(Append(Append(s, Slash), Letter))
      BY <1>1, <2>4, NameGrows
  <2>6. Append(Append(s, Slash), Letter) = s \o <<Slash, Letter>>
    <3> DEFINE B == 0..255
    <3>1. s \in Seq(B) /\ <<Slash>> \in Seq(B) /\ <<Letter>> \in Seq(B) /\ Append(s, Slash) \in Seq(B) /\ Letter \in B
        BY <2>1, <2>4 DEF Text, Slash, Letter
    <3> HIDE DEF B
    <3>2. Append(Append(s, Slash), Letter) = Append(s, Slash) \o <<Letter>>
        BY <3>1, AppendIsConcat
    <3>3. (s \o <<Slash>>) \o <<Letter>> = s \o (<<Slash>> \o <<Letter>>)
        BY <3>1, ConcatAssociative
    <3>4. <<Slash>> \o <<Letter>> = <<Slash, Letter>>
        BY SlashAndLetter
    <3> QED
        BY <2>2, <3>2, <3>3, <3>4
  <2> QED
      BY <2>2, <2>3, <2>5, <2>6
<1>4. IsFile(TrimEnd(name))
    BY NameIs, TrimmedIsFile
<1> DEFINE parent == TrimEnd(ParentPath(TrimEnd(name)))
<1>5. parent = <<>> \/ IsFile(parent)
  <2>1. Name(ParentPath(TrimEnd(name)))
      BY <1>4, FileIs, ParentIsName
  <2> QED
      BY <2>1, TrimmedIsFile
<1>6. IsFile(parent \o <<Slash, Letter>>)
  <2>1. <<>> \o <<Slash, Letter>> = <<Slash, Letter>>
      BY SlashAndLetter
  <2> HIDE DEF parent
  <2> QED
      BY <1>2, <1>3, <1>5, <2>1
<1>7. dest \in {<<Slash, Letter>>, parent \o <<Slash, Letter>>, TrimEnd(name) \o <<Letter>>}
    BY DEF Destinations
<1> HIDE DEF parent
<1> QED
    BY <1>2, <1>3, <1>4, <1>6, <1>7

-----------------------------------------------------------------------------
(* Every step keeps it.                                                      *)

LEMMA WritesInv ==
    ASSUME Inv, NEW c \in Char, Writes(c)
    PROVE  Inv'
<1>1. c \in 1..127
    BY WirePathAssumption
<1>2. PICK form \in Forms(c) : uri' = uri \o form
    BY DEF Writes
<1>3. Encoded(uri') /\ Decode(uri') = Append(name, c)
    BY <1>1, <1>2, FormIsDecoded DEF Inv, Written
<1>4. name' = Append(name, c) /\ Name(name') /\ name' \in Seq(Char)
    BY <1>1, NameGrows, AppendProperties DEF Inv, Written, Writes
<1>5. Written'
    BY <1>3, <1>4 DEF Written
<1>6. Requested'
    BY DEF Inv, Requested, Writes
<1>7. Followed'
    BY DEF Inv, Followed, Writes, row, scan, peer
<1> QED
    BY <1>5, <1>6, <1>7 DEF Inv

LEMMA PutsInv ==
    ASSUME Inv, Puts
    PROVE  Inv'
<1>1. source' = name /\ final' = name /\ IsFile(name)
    BY RequestIsDecoded DEF Inv, Written, Puts, IsFile
<1>2. stored' = Trim(name) /\ stored' # NoPath
    BY <1>1, TrimOfFile, TextIsAPath DEF Puts
<1>3. Written'
    BY DEF Inv, Written, Puts
<1>4. Requested'
    BY <1>1, <1>2 DEF Inv, Requested, Puts
<1>5. Followed'
    BY <1>2 DEF Inv, Followed, Puts, row, scan, peer
<1> QED
    BY <1>3, <1>4, <1>5 DEF Inv

LEMMA MovesInv ==
    ASSUME Inv, Moves
    PROVE  Inv'
<1>1. PICK dest \in Destinations, all \in BOOLEAN :
         /\ to' = dest
         /\ stored' = Trim(dest)
         /\ source' = NormalizeRequestPath(uri)
         /\ final' = NormalizeDestination(FormsOf(dest, all))
         /\ kind' = IF IsRename(final') THEN "renamed" ELSE "moved"
    BY DEF Moves
<1>2. IsFile(dest) /\ Name(dest)
    BY DestinationIsFile, FileIs DEF Inv, Written, Moves
<1>3. final' = dest
    BY <1>1, <1>2, FormsAreDecoded, RequestIsDecoded
<1>4. source' = name /\ NormalizeRequestPath(uri) = name
    BY <1>1, RequestIsDecoded DEF Inv, Written
<1>5. stored' # NoPath /\ dest \in Text
    BY <1>1, <1>2, NameIs, TrimOfFile, TextIsAPath
<1>6. kind' = IF ParentPath(to') = ParentPath(name) THEN "renamed" ELSE "moved"
    BY <1>1, <1>3, <1>4 DEF IsRename
<1>7. Written'
    BY DEF Inv, Written, Moves
<1>8. Requested'
    BY <1>1, <1>2, <1>3, <1>4, <1>5, <1>6 DEF Requested, Moves
<1>9. Followed'
    BY <1>5 DEF Inv, Followed, Moves, row, scan, peer
<1> QED
    BY <1>7, <1>8, <1>9 DEF Inv

LEMMA RecordsInv ==
    ASSUME Inv, Records
    PROVE  Inv'
<1>1. IsFile(final)
    BY DEF Inv, Requested, Records
<1>2. TrimEnd(final) = final /\ final # <<>>
    BY <1>1, TrimOfFile, FileIs, NameIs
<1>3. recorded' = final /\ hashed' = FsPath(final) /\ sized' = FsPath(final)
    BY <1>2 DEF Records, NormalizePath
<1>4. recorded' # NoPath
    BY <1>1, <1>3, FileIs, NameIs, TextIsAPath
<1>5. Written'
    BY DEF Inv, Written, Records, request
<1>6. Requested'
    BY DEF Inv, Requested, Records, request
<1>7. Followed'
    BY <1>3, <1>4 DEF Inv, Followed, Records, request, scan, peer
<1> QED
    BY <1>5, <1>6, <1>7 DEF Inv

LEMMA ScansInv ==
    ASSUME Inv, Scans
    PROVE  Inv'
<1>1. IsFile(final) /\ stored = Trim(final)
    BY DEF Inv, Requested, Scans
<1>2. listed' = final /\ scanned' = FsPath(final)
    BY <1>1, FileIsRooted DEF Scans, WebdavPath
<1>3. listed' # NoPath
    BY <1>1, <1>2, FileIs, NameIs, TextIsAPath
<1>4. Written'
    BY DEF Inv, Written, Scans, request
<1>5. Requested'
    BY DEF Inv, Requested, Scans, request
<1>6. Followed'
    BY <1>2, <1>3 DEF Inv, Followed, Scans, request, row, peer
<1> QED
    BY <1>4, <1>5, <1>6 DEF Inv

LEMMA ReceivesInv ==
    ASSUME Inv, Receives
    PROVE  Inv'
<1>1. source = name /\ IsFile(final) /\ stored # NoPath
    BY DEF Inv, Requested, Receives
<1>2. /\ written' = FsPath(NormalizeWirePath(final))
      /\ taken' = FsPath(NormalizeWirePath(name))
    BY <1>1 DEF Receives
<1>3. written' # NoPath
    BY <1>1, <1>2, FileIs, PeerReadsIf, TextIsAPath
<1>4. Written'
    BY DEF Inv, Written, Receives, request
<1>5. Requested'
    BY DEF Inv, Requested, Receives, request
<1>6. Followed'
    BY <1>1, <1>2, <1>3 DEF Inv, Followed, Receives, request, row, scan
<1> QED
    BY <1>4, <1>5, <1>6 DEF Inv

LEMMA NextInv ==
    ASSUME Inv, [Next]_vars
    PROVE  Inv'
<1>1. CASE UNCHANGED vars
    BY <1>1 DEF Inv, Written, Requested, Followed, vars, request, row, scan, peer
<1>2. ASSUME NEW c \in Char, Writes(c)
      PROVE  Inv'
    BY <1>2, WritesInv
<1>3. CASE Puts
    BY <1>3, PutsInv
<1>4. CASE Moves
    BY <1>4, MovesInv
<1>5. CASE Records
    BY <1>5, RecordsInv
<1>6. CASE Scans
    BY <1>6, ScansInv
<1>7. CASE Receives
    BY <1>7, ReceivesInv
<1> QED
    BY <1>1, <1>2, <1>3, <1>4, <1>5, <1>6, <1>7 DEF Next

LEMMA Invariance == Spec => []Inv
<1>1. Init => Inv
    BY InitInv
<1>2. Inv /\ [Next]_vars => Inv'
    BY NextInv
<1> QED
    BY <1>1, <1>2, PTL DEF Spec

-----------------------------------------------------------------------------
(* Theorems *)

\* Every path of the request, of the row, of the scan and of the peer is a text of
\* bytes, whatever a name holds.
THEOREM TypeCorrect == Spec => []TypeOK
<1>1. Inv => TypeOK
  <2> SUFFICES ASSUME Inv PROVE TypeOK
      OBVIOUS
  <2>1. name \in Seq(Char) /\ uri \in Text /\ name \in Text
      BY NameIs DEF Inv, Written, Encoded
  <2>2. stored # NoPath => /\ source \in Text /\ final \in Text /\ stored \in Text
                          /\ FsPath(final) \in Text
      BY <2>1, FileIs, NameIs, TrimOfFile, FileIsReadIf DEF Inv, Requested
  <2>3. {to, stored, source, final} \subseteq Text \cup {NoPath}
      BY <2>2 DEF Inv, Requested
  <2>4. {recorded, hashed, sized, listed, scanned} \subseteq Text \cup {NoPath}
      BY <2>2 DEF Inv, Followed
  <2>5. {taken, written} \subseteq Text \cup {NoPath}
    <3>1. FsPath(NormalizeWirePath(name)) \in Text
        BY PeerReadsIf DEF Inv, Written
    <3>2. stored # NoPath => FsPath(NormalizeWirePath(final)) \in Text
        BY PeerReadsIf, FileIs DEF Inv, Requested
    <3> QED
        BY <3>1, <3>2 DEF Inv, Followed
  <2>6. kind \in {NoPath, "renamed", "moved"}
      BY DEF Inv, Requested
  <2> QED
      BY <2>1, <2>3, <2>4, <2>5, <2>6 DEF TypeOK
<1> QED
    BY <1>1, Invariance, PTL

\* However the client escapes a name of any length, the request is about that name,
\* and the stored file is the one of its final path.
THEOREM NamesAreUnderstood == Spec => []RequestMeansTheName
<1>1. Inv => RequestMeansTheName
    BY DEF Inv, Requested, RequestMeansTheName
<1> QED
    BY <1>1, Invariance, PTL

\* A move is taken for a rename exactly if it stays within its folder.
THEOREM RenamesAreTold == Spec => []RenamesAreInPlace
<1>1. Inv => RenamesAreInPlace
    BY DEF Inv, Requested, RenamesAreInPlace
<1> QED
    BY <1>1, Invariance, PTL

\* The node reads the file that it stored for its checksum, its size and its scan,
\* exactly if the name of the file holds no escape.
THEOREM StoredFileIsRead == Spec => []FileIsRead
<1>1. Inv => FileIsRead
    BY FileIsReadIf DEF Inv, Requested, Followed, FileIsRead
<1> QED
    BY <1>1, Invariance, PTL

\* The peer takes and writes the file of that name exactly if the name holds neither
\* an escape nor a character that ends the path of a URI.
THEOREM PeerFollows == Spec => []PeerChangesTheSameFile
<1>1. Inv => PeerChangesTheSameFile
  <2> SUFFICES ASSUME Inv, written # NoPath PROVE PeerChangesTheSameFile
      BY DEF PeerChangesTheSameFile
  <2>1. /\ Name(name) /\ IsFile(final) /\ stored = Trim(final)
        /\ written = FsPath(NormalizeWirePath(final))
        /\ taken = FsPath(NormalizeWirePath(name))
      BY DEF Inv, Written, Requested, Followed
  <2>2. written = stored <=> IsPlain(stored)
      BY <2>1, FileIs, PeerReadsIf, FileIsPlain
  <2>3. taken = Trim(name) <=> IsPlain(name)
      BY <2>1, PeerReadsIf
  <2> QED
      BY <2>2, <2>3 DEF PeerChangesTheSameFile
<1> QED
    BY <1>1, Invariance, PTL
=============================================================================
