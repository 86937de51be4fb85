---------------------------- MODULE LoginUrlsProofs ----------------------------
(***************************************************************************)
(* What percent_encode writes can be told apart, for URLs of any length.   *)
(***************************************************************************)
EXTENDS LoginUrls, PositionTheorems, SequenceTheorems

\* A byte is written as itself or as three bytes, the first a "%", which no
\* byte is written as by itself.
LEMMA PercentByteShape ==
    ASSUME NEW b \in Byte
    PROVE  /\ PercentByte(b) \in Seq(Written)
           /\ b \in Unreserved => PercentByte(b) = <<b>> /\ b # Percent
           /\ b \notin Unreserved =>
                /\ Len(PercentByte(b)) = 3
                /\ PercentByte(b)[1] = Percent
                /\ PercentByte(b)[2] = Hex(b \div 16) /\ PercentByte(b)[3] = Hex(b % 16)
           /\ Len(PercentByte(b)) \in {1, 3}
  <1>1. b \div 16 \in 0..15 /\ b % 16 \in 0..15
    BY DEF Byte
  <1>2. \A d \in 0..15 : Hex(d) \in Written
    BY DEF Hex, Written, Unreserved
  <1>3. Percent \in Written /\ Percent \notin Unreserved /\ (b \in Unreserved => b \in Written)
    BY DEF Percent, Written, Unreserved
  <1>4. Escaped(b) = <<Percent, Hex(b \div 16), Hex(b % 16)>> /\ Escaped(b) \in Seq(Written)
    BY <1>1, <1>2, <1>3 DEF Escaped
  <1>5. b \in Unreserved => <<b>> \in Seq(Written)
    BY <1>3
  <1> QED
    BY <1>3, <1>4, <1>5 DEF PercentByte

\* One byte or three.
LEMMA PercentByteLength == \A b \in Byte : Len(PercentByte(b)) \in {1, 3}
  BY PercentByteShape

\* The two hexadecimal digits of a byte determine it ...
LEMMA ByteOfDigits ==
    ASSUME NEW b \in Byte
    PROVE  b \div 16 \in 0..15 /\ b % 16 \in 0..15 /\ b = 16 * (b \div 16) + (b % 16)
  <1>1. b \in 0..255
    BY DEF Byte
  <1>2. b \div 16 \in 0..15
    BY <1>1
  <1>3. b % 16 \in 0..15
    BY <1>1
  <1>4. b = 16 * (b \div 16) + (b % 16)
    BY <1>1
  <1> QED
    BY <1>2, <1>3, <1>4

\* ... and are written differently.
LEMMA HexApart ==
    ASSUME NEW d \in 0..15, NEW e \in 0..15, Hex(d) = Hex(e)
    PROVE  d = e
  BY DEF Hex

\* Two bytes written alike are the same byte; so are two of which one's writing
\* begins with the other's.
LEMMA PercentByteApart ==
    ASSUME NEW b \in Byte, NEW c \in Byte,
           \A j \in 1..3 : j <= Len(PercentByte(b)) /\ j <= Len(PercentByte(c)) =>
                              PercentByte(b)[j] = PercentByte(c)[j]
    PROVE  b = c
  <1> USE PercentByteShape
  <1>1. PercentByte(b)[1] = PercentByte(c)[1]
    OBVIOUS
  <1>2. b \in Unreserved <=> c \in Unreserved
    BY <1>1
  <1>3. CASE b \in Unreserved
    BY <1>1, <1>2, <1>3
  <1>4. CASE b \notin Unreserved
    <2>1. Hex(b \div 16) = Hex(c \div 16) /\ Hex(b % 16) = Hex(c % 16)
      BY <1>2, <1>4
    <2>2. b \div 16 = c \div 16 /\ b % 16 = c % 16
      BY <2>1, ByteOfDigits, HexApart
    <2>3. b = 16 * (b \div 16) + (b % 16) /\ c = 16 * (c \div 16) + (c % 16)
      BY ByteOfDigits
    <2> QED
      BY <2>2, <2>3
  <1> QED
    BY <1>3, <1>4

\* Positions of a text are positions of a longer one.
LEMMA WithinLonger == \A m, n \in Nat : m <= n => \A k \in 1..m : k \in 1..n
  OBVIOUS

\* What is written for a byte takes some room.
LEMMA TakesRoom == \A x \in Nat, y \in {1, 3} : ~(x + y <= x)
  OBVIOUS

\* ... all of it within the text it ends in.
LEMMA WithinText ==
    \A x, n \in Nat, l \in {1, 3} : x + l <= n => \A j \in 1..l : x + j \in 1..n
  OBVIOUS

\* A text consists of bytes.
LEMMA ByteAt == \A x \in Seq(Byte) : \A i \in 1..Len(x) : x[i] \in Byte
  OBVIOUS

\* What an encoding says of the k-th byte.
LEMMA EncodesAt ==
    \A text, s, n, ends : Encodes(text, s, n, ends) => \A k \in 1..n :
        /\ ends[k + 1] = ends[k] + Len(PercentByte(s[k])) /\ ends[k + 1] <= Len(text)
        /\ \A j \in 1..Len(PercentByte(s[k])) : text[ends[k] + j] = PercentByte(s[k])[j]
  BY DEF Encodes

\* No two URLs have the same encoding: the first place where they would differ
\* is one where their encodings do.
THEOREM EncodingsApart ==
    ASSUME NEW s \in Seq(Byte), NEW t \in Seq(Byte), NEW text,
           NEW c \in Seq(Nat), Len(c) = Len(s) + 1, Encodes(text, s, Len(s), c),
           NEW d \in Seq(Nat), Len(d) = Len(t) + 1, Encodes(text, t, Len(t), d),
           Len(text) \in Nat
    PROVE  s = t
  <1> DEFINE m == IF Len(s) <= Len(t) THEN Len(s) ELSE Len(t)
             Apart == {k \in 1..m : s[k] # t[k] \/ c[k + 1] # d[k + 1]}
  <1>1. /\ Len(s) \in Nat /\ Len(t) \in Nat /\ m \in Nat /\ m <= Len(s) /\ m <= Len(t)
        /\ m = Len(s) \/ m = Len(t)
    OBVIOUS
  <1> HIDE DEF m
  <1>2. \A k \in 1..m : s[k] \in Byte /\ t[k] \in Byte
    <2>1. \A k \in 1..m : k \in 1..Len(s) /\ k \in 1..Len(t)
      BY <1>1, WithinLonger, Zenon
    <2> QED
      BY <2>1, ByteAt, Zenon
  <1>3. ASSUME NEW k \in 1..m
        PROVE  /\ c[k + 1] = c[k] + Len(PercentByte(s[k]))
               /\ d[k + 1] = d[k] + Len(PercentByte(t[k]))
               /\ \A j \in 1..Len(PercentByte(s[k])) : text[c[k] + j] = PercentByte(s[k])[j]
               /\ \A j \in 1..Len(PercentByte(t[k])) : text[d[k] + j] = PercentByte(t[k])[j]
    <2>1. k \in 1..Len(s) /\ k \in 1..Len(t)
      BY <1>1, WithinLonger, Zenon
    <2>2. /\ c[k + 1] = c[k] + Len(PercentByte(s[k]))
          /\ \A j \in 1..Len(PercentByte(s[k])) : text[c[k] + j] = PercentByte(s[k])[j]
      BY <2>1 DEF Encodes
    <2>3. /\ d[k + 1] = d[k] + Len(PercentByte(t[k]))
          /\ \A j \in 1..Len(PercentByte(t[k])) : text[d[k] + j] = PercentByte(t[k])[j]
      BY <2>1 DEF Encodes
    <2> QED
      BY <2>2, <2>3, Zenon
  <1>4. c[1] = 0 /\ d[1] = 0
    BY DEF Encodes
  <1>5. Apart = {}
    <2> SUFFICES ASSUME Apart # {} PROVE FALSE
      OBVIOUS
    <2>1. PICK k \in Apart : \A j \in Apart : k <= j
      BY <1>1, LeastPosition
    <2>2. k \in 1..m /\ k \in Nat
      BY <1>1
    <2> HIDE DEF Apart
    <2>3. c[k] = d[k]
      <3>1. CASE k = 1
        BY <1>4, <3>1
      <3>2. CASE k # 1
        <4>1. k - 1 \in 1..m /\ ~(k <= k - 1) /\ (k - 1) + 1 = k
          BY <1>1, <2>2, <3>2
        <4>2. k - 1 \notin Apart
          BY <2>1, <4>1
        <4> QED
          BY <4>1, <4>2 DEF Apart
      <3> QED
        BY <3>1, <3>2
    <2>4. \A j \in 1..3 :
             j <= Len(PercentByte(s[k])) /\ j <= Len(PercentByte(t[k])) =>
                PercentByte(s[k])[j] = PercentByte(t[k])[j]
      <3>1. Len(PercentByte(s[k])) \in {1, 3} /\ Len(PercentByte(t[k])) \in {1, 3}
        BY <1>2, <2>2, PercentByteLength
      <3>2. /\ \A j \in 1..Len(PercentByte(s[k])) : text[c[k] + j] = PercentByte(s[k])[j]
            /\ \A j \in 1..Len(PercentByte(t[k])) : text[d[k] + j] = PercentByte(t[k])[j]
        BY <1>3, <2>2
      <3> QED
        BY <2>3, <3>1, <3>2
    <2>5. s[k] = t[k]
      BY <1>2, <2>2, <2>4, PercentByteApart
    <2>6. c[k + 1] = d[k + 1]
      BY <1>3, <2>2, <2>3, <2>5
    <2> QED
      BY <2>1, <2>5, <2>6 DEF Apart
  <1>6. \A k \in 1..m : s[k] = t[k] /\ c[k + 1] = d[k + 1]
    BY <1>5
  <1> HIDE DEF Apart
  <1>7. c[m + 1] = d[m + 1]
    <2>1. CASE m = 0
      BY <1>4, <2>1
    <2>2. CASE m # 0
      BY <1>1, <1>6, <2>2
    <2> QED
      BY <2>1, <2>2
  <1>8. ~(m < Len(t))
    <2> SUFFICES ASSUME m < Len(t) PROVE FALSE
      OBVIOUS
    <2>1. m + 1 \in 1..Len(t) /\ m = Len(s) /\ m + 1 \in 1..Len(d)
      BY <1>1
    <2>2. t[m + 1] \in Byte /\ d[m + 1] \in Nat
      BY <2>1
    <2>3. c[m + 1] = Len(text) /\ d[(m + 1) + 1] <= Len(text)
          /\ d[(m + 1) + 1] = d[m + 1] + Len(PercentByte(t[m + 1]))
      BY <2>1 DEF Encodes
    <2>4. Len(PercentByte(t[m + 1])) \in {1, 3}
      BY <2>2, PercentByteLength
    <2>5. d[m + 1] + Len(PercentByte(t[m + 1])) <= d[m + 1]
      BY <1>7, <2>3
    <2> QED
      BY <2>2, <2>4, <2>5, TakesRoom, Zenon
  <1>9. ~(m < Len(s))
    <2> SUFFICES ASSUME m < Len(s) PROVE FALSE
      OBVIOUS
    <2>1. m + 1 \in 1..Len(s) /\ m = Len(t) /\ m + 1 \in 1..Len(c)
      BY <1>1
    <2>2. s[m + 1] \in Byte /\ c[m + 1] \in Nat
      BY <2>1
    <2>3. d[m + 1] = Len(text) /\ c[(m + 1) + 1] <= Len(text)
          /\ c[(m + 1) + 1] = c[m + 1] + Len(PercentByte(s[m + 1]))
      BY <2>1 DEF Encodes
    <2>4. Len(PercentByte(s[m + 1])) \in {1, 3}
      BY <2>2, PercentByteLength
    <2>5. c[m + 1] + Len(PercentByte(s[m + 1])) <= c[m + 1]
      BY <1>7, <2>3
    <2> QED
      BY <2>2, <2>4, <2>5, TakesRoom, Zenon
  <1>10. Len(s) = m /\ Len(t) = m
    BY <1>1, <1>8, <1>9
  <1> QED
    BY <1>6, <1>10

\* A byte in lower case is a byte.
LEMMA LoweredByte == \A b \in Byte : (IF b \in 65..90 THEN b + 32 ELSE b) \in Byte
  BY DEF Byte

\* A host in lower case is a text.
LEMMA LoweredType ==
    ASSUME NEW host \in Seq(Byte) PROVE Lowered(host) \in Seq(Byte)
  <1>1. Len(host) \in Nat /\ DOMAIN host = 1..Len(host)
    OBVIOUS
  <1>2. \A i \in 1..Len(host) :
           (IF host[i] \in 65..90 THEN host[i] + 32 ELSE host[i]) \in Byte
    BY ByteAt, LoweredByte, Zenon
  <1>3. Lowered(host) \in [1..Len(host) -> Byte]
    BY <1>1, <1>2, Zenon DEF Lowered
  <1> QED
    BY <1>1, <1>3

\* percent_encode keeps an encoding of what it has read.
THEOREM Invariance == Spec => []InductiveInvariant
  <1>1. Init => InductiveInvariant
    <2> SUFFICES ASSUME Init PROVE InductiveInvariant
      OBVIOUS
    <2>1. PICK proto \in Proto, host \in Host, uri \in Uri :
             returnTo = OriginalUrl(proto, Lowered(host), uri)
      BY DEF Init
    <2>2. returnTo \in Seq(Byte)
      <3>1. proto \in Seq(Byte) /\ host \in Seq(Byte) /\ uri \in Seq(Byte)
        BY TextAssumption
      <3>2. <<58, 47, 47>> \in Seq(Byte)
        BY DEF Byte
      <3>3. Lowered(host) \in Seq(Byte)
        BY <3>1, LoweredType
      <3> QED
        BY <2>1, <3>1, <3>2, <3>3 DEF OriginalUrl
    <2> QED
      BY <2>2 DEF Init, InductiveInvariant, TypeOK, Encodes
  <1>2. InductiveInvariant /\ [Next]_vars => InductiveInvariant'
    <2> SUFFICES ASSUME InductiveInvariant, [Next]_vars PROVE InductiveInvariant'
      OBVIOUS
    <2>1. ASSUME NEW b \in Byte, read < Len(returnTo), b = returnTo[read + 1], Push(PercentByte(b))
          PROVE  InductiveInvariant'
      <3> DEFINE e == PercentByte(b)
      <3>1. /\ returnTo \in Seq(Byte) /\ read \in Nat /\ read + 1 \in 1..Len(returnTo)
            /\ out \in Seq(Written) /\ cut \in Seq(Nat) /\ Len(cut) = read + 1 /\ Len(returnTo) \in Nat
        BY <2>1 DEF InductiveInvariant, TypeOK
      <3>2. e \in Seq(Written) /\ Len(e) \in Nat
        BY PercentByteShape
      <3>3. /\ returnTo' = returnTo /\ read' = read + 1 /\ out' = out \o e
            /\ cut' = Append(cut, Len(out) + Len(e))
        BY <2>1 DEF Push
      <3> HIDE DEF e
      <3>4. /\ out' \in Seq(Written) /\ Len(out') = Len(out) + Len(e)
            /\ \A i \in 1..Len(out) : out'[i] = out[i]
            /\ \A i \in 1..Len(e) : out'[Len(out) + i] = e[i]
        BY <3>1, <3>2, <3>3
      <3>5. /\ cut' \in Seq(Nat) /\ Len(cut') = read + 2 /\ cut'[read + 2] = Len(out')
            /\ \A i \in 1..read + 1 : cut'[i] = cut[i]
        BY <3>1, <3>2, <3>3, <3>4
      <3>6. TypeOK'
        BY <3>1, <3>3, <3>4, <3>5 DEF TypeOK
      <3>7. ASSUME NEW k \in 1..read + 1
            PROVE  /\ cut'[k + 1] = cut'[k] + Len(PercentByte(returnTo[k])) /\ cut'[k + 1] <= Len(out')
                   /\ \A j \in 1..Len(PercentByte(returnTo[k])) :
                         out'[cut'[k] + j] = PercentByte(returnTo[k])[j]
        <4>1. CASE k = read + 1
          <5>1. cut'[k] = Len(out) /\ PercentByte(returnTo[k]) = e
            BY <2>1, <3>1, <3>5, <4>1 DEF InductiveInvariant, Encodes, e
          <5>2. k + 1 = read + 2 /\ cut'[k + 1] = Len(out') /\ Len(out') <= Len(out')
            BY <3>1, <3>4, <3>5, <4>1
          <5>3. cut'[k + 1] = cut'[k] + Len(e)
            BY <3>4, <5>1, <5>2
          <5>4. \A j \in 1..Len(e) : out'[cut'[k] + j] = e[j]
            BY <3>4, <5>1, Zenon
          <5> QED
            BY <5>1, <5>2, <5>3, <5>4, Zenon
        <4>2. CASE k # read + 1
          <5>1. k \in 1..read /\ cut[k] \in Nat /\ cut'[k] = cut[k] /\ cut'[k + 1] = cut[k + 1]
            BY <3>1, <3>5, <4>2
          <5>2. /\ cut[k + 1] = cut[k] + Len(PercentByte(returnTo[k])) /\ cut[k + 1] <= Len(out)
                /\ \A j \in 1..Len(PercentByte(returnTo[k])) :
                      out[cut[k] + j] = PercentByte(returnTo[k])[j]
            BY <5>1, EncodesAt DEF InductiveInvariant
          <5>3. Len(PercentByte(returnTo[k])) \in {1, 3}
            BY <3>1, <5>1, PercentByteLength
          <5>4. ASSUME NEW j \in 1..Len(PercentByte(returnTo[k]))
                PROVE  out'[cut'[k] + j] = PercentByte(returnTo[k])[j]
            <6>1. cut[k] + j \in 1..Len(out)
              <7>1. Len(out) \in Nat /\ cut[k] + Len(PercentByte(returnTo[k])) <= Len(out)
                BY <3>1, <5>2
              <7> QED
                BY <5>1, <5>3, <7>1, WithinText, Zenon
            <6> QED
              BY <3>4, <5>1, <5>2, <6>1
          <5>5. cut'[k + 1] <= Len(out')
            BY <3>1, <3>2, <3>4, <5>1, <5>2
          <5> QED
            BY <5>1, <5>2, <5>4, <5>5
        <4> QED
          BY <4>1, <4>2
      <3>8. cut'[1] = 0
        BY <3>1, <3>5 DEF InductiveInvariant, Encodes
      <3>9. cut'[read' + 1] = Len(out') /\ 1..read' = 1..read + 1
        BY <3>1, <3>3, <3>5
      <3>10. Encodes(out, returnTo, read, cut)'
        BY <3>3, <3>7, <3>8, <3>9 DEF Encodes
      <3> QED
        BY <3>6, <3>10 DEF InductiveInvariant
    <2>2. CASE Keep
      <3>1. returnTo[read + 1] \in Byte /\ PercentByte(returnTo[read + 1]) = <<returnTo[read + 1]>>
        BY <2>2 DEF Keep, InductiveInvariant, TypeOK, PercentByte
      <3> QED
        BY <2>1, <2>2, <3>1 DEF Keep
    <2>3. CASE Escape
      <3>1. returnTo[read + 1] \in Byte /\ PercentByte(returnTo[read + 1]) = Escaped(returnTo[read + 1])
        BY <2>3 DEF Escape, InductiveInvariant, TypeOK, PercentByte
      <3> QED
        BY <2>1, <2>3, <3>1 DEF Escape
    <2>4. CASE UNCHANGED vars
      BY <2>4 DEF vars, InductiveInvariant, TypeOK, Encodes
    <2> QED
      BY <2>2, <2>3, <2>4 DEF Next
  <1> QED
    BY <1>1, <1>2, PTL DEF Spec

-----------------------------------------------------------------------------
(* The portal's side.  Decoded is defined by recursion from the end of the *)
(* text; that there is such a function is shown first.                     *)

\* What is decoded from i on, by what is decoded further on.
DecodedAt(text, from, i) ==
    IF i > Len(text) THEN <<>>
    ELSE IF text[i] = Percent /\ i + 2 <= Len(text)
    THEN <<16 * Digit(text[i + 1]) + Digit(text[i + 2])>> \o from[i + 3]
    ELSE <<IF text[i] = 43 THEN 32 ELSE text[i]>> \o from[i + 1]

\* Positions before which nothing is decoded do not matter.
LEMMA DecodedAtAgrees ==
    ASSUME NEW text, Len(text) \in Nat, NEW f, NEW g, NEW i \in 1..Len(text) + 1,
           \A k \in i + 1..Len(text) + 1 : f[k] = g[k]
    PROVE  DecodedAt(text, f, i) = DecodedAt(text, g, i)
  <1>1. CASE i > Len(text)
    BY <1>1 DEF DecodedAt
  <1>2. CASE ~(i > Len(text))
    <2>1. f[i + 1] = g[i + 1]
      BY <1>2
    <2>2. i + 2 <= Len(text) => f[i + 3] = g[i + 3]
      OBVIOUS
    <2> QED
      BY <1>2, <2>1, <2>2 DEF DecodedAt
  <1> QED
    BY <1>1, <1>2

\* Decoded is what its recursion says.
LEMMA DecodedUnfolds ==
    ASSUME NEW text, Len(text) \in Nat
    PROVE  \E from : /\ from = [i \in 1..Len(text) + 1 |-> DecodedAt(text, from, i)]
                     /\ Decoded(text) = from[1]
  <1> DEFINE end == Len(text) + 1
             IsFrom(f, i) == f = [k \in i..end |-> DecodedAt(text, f, k)]
             Begun == {i \in 1..end : \E f : IsFrom(f, i)}
  <1>1. end \in Nat /\ end \in 1..end
    OBVIOUS
  <1>2. end \in Begun
    <2> DEFINE f == [k \in end..end |-> <<>>]
    <2>1. \A k \in end..end : DecodedAt(text, f, k) = <<>>
      BY DEF DecodedAt
    <2>2. f = [k \in end..end |-> DecodedAt(text, f, k)]
      BY <2>1
    <2> QED
      BY <1>1, <2>2
  <1>3. ASSUME NEW i \in 2..end, i \in Begun PROVE i - 1 \in Begun
    <2>1. PICK f : IsFrom(f, i)
      BY <1>3
    <2> DEFINE g == [k \in i - 1..end |-> IF k = i - 1 THEN DecodedAt(text, f, k) ELSE f[k]]
    <2>2. \A k \in i..end : g[k] = f[k] /\ f[k] = DecodedAt(text, f, k)
      BY <2>1
    <2>3. g[i - 1] = DecodedAt(text, f, i - 1)
      OBVIOUS
    <2>4. \A k \in i - 1..end : DecodedAt(text, g, k) = DecodedAt(text, f, k)
      <3> SUFFICES ASSUME NEW k \in i - 1..end PROVE DecodedAt(text, g, k) = DecodedAt(text, f, k)
        OBVIOUS
      <3>1. \A l \in k + 1..end : g[l] = f[l]
        BY <2>2
      <3>2. k \in 1..Len(text) + 1
        OBVIOUS
      <3> HIDE DEF g
      <3> QED
        BY <3>1, <3>2, DecodedAtAgrees
    <2>5. \A k \in i - 1..end : g[k] = DecodedAt(text, g, k)
      <3>1. \A k \in i - 1..end : k = i - 1 \/ k \in i..end
        OBVIOUS
      <3> QED
        BY <2>2, <2>3, <2>4, <3>1
    <2>6. IsFrom(g, i - 1)
      BY <2>5
    <2>7. i - 1 \in 1..end
      OBVIOUS
    <2> QED
      BY <2>6, <2>7
  <1>4. 1 \in Begun
    <2>1. PICK i \in Begun : \A j \in Begun : i <= j
      BY <1>1, <1>2, LeastPosition
    <2>2. i \in 1..end
      OBVIOUS
    <2> HIDE DEF Begun
    <2>3. i = 1
      BY <1>1, <1>3, <2>1, <2>2
    <2> QED
      BY <2>1, <2>3
  <1> DEFINE from == CHOOSE f : f = [i \in 1..end |-> DecodedAt(text, f, i)]
  <1>5. from = [i \in 1..end |-> DecodedAt(text, from, i)]
    BY <1>4
  <1>6. Decoded(text) = from[1]
    BY DEF Decoded, DecodedAt
  <1> HIDE DEF from
  <1> QED
    BY <1>5, <1>6

\* A digit is read as it was written.
LEMMA DigitOfHex == \A d \in 0..15 : Digit(Hex(d)) = d
  <1> SUFFICES ASSUME NEW d \in 0..15 PROVE Digit(Hex(d)) = d
    OBVIOUS
  <1>1. CASE d < 10
    <2>1. Hex(d) = 48 + d /\ 48 + d \in 48..57
      BY <1>1 DEF Hex
    <2> QED
      BY <2>1 DEF Digit
  <1>2. CASE ~(d < 10)
    <2>1. Hex(d) = 55 + d /\ 55 + d \in 65..70 /\ 55 + d \notin 48..57
      BY <1>2 DEF Hex
    <2> QED
      BY <2>1 DEF Digit
  <1> QED
    BY <1>1, <1>2

\* Where a byte was written, it is decoded, and decoding goes on after it.
LEMMA DecodesByte ==
    ASSUME NEW text, Len(text) \in Nat, NEW from, NEW x \in Nat, NEW b \in Byte,
           x + Len(PercentByte(b)) <= Len(text),
           \A j \in 1..Len(PercentByte(b)) : text[x + j] = PercentByte(b)[j]
    PROVE  DecodedAt(text, from, x + 1) = <<b>> \o from[x + Len(PercentByte(b)) + 1]
  <1>1. CASE b \in Unreserved
    <2>1. PercentByte(b) = <<b>> /\ b # Percent /\ b # 43 /\ Len(PercentByte(b)) = 1
      BY <1>1, PercentByteShape DEF Unreserved
    <2>2. text[x + 1] = b /\ ~(x + 1 > Len(text))
      BY <2>1
    <2>3. DecodedAt(text, from, x + 1) = <<b>> \o from[(x + 1) + 1]
      BY <2>1, <2>2 DEF DecodedAt
    <2> QED
      BY <2>1, <2>3
  <1>2. CASE b \notin Unreserved
    <2> DEFINE h == b \div 16
               l == b % 16
    <2>1. /\ Len(PercentByte(b)) = 3 /\ PercentByte(b)[1] = Percent
          /\ PercentByte(b)[2] = Hex(h) /\ PercentByte(b)[3] = Hex(l)
      BY <1>2, PercentByteShape
    <2>2. h \in 0..15 /\ l \in 0..15 /\ b = 16 * h + l
      BY ByteOfDigits
    <2> HIDE DEF h, l
    <2>3. /\ text[x + 1] = Percent /\ text[x + 2] = Hex(h) /\ text[x + 3] = Hex(l)
          /\ x + 3 <= Len(text)
      BY <2>1
    <2>4. Digit(text[x + 2]) = h /\ Digit(text[x + 3]) = l
      BY <2>2, <2>3, DigitOfHex
    <2>5. /\ ~(x + 1 > Len(text)) /\ (x + 1) + 2 <= Len(text)
          /\ (x + 1) + 1 = x + 2 /\ (x + 1) + 2 = x + 3 /\ (x + 1) + 3 = x + 3 + 1
      BY <2>3
    <2>6. DecodedAt(text, from, x + 1)
            = <<16 * Digit(text[x + 2]) + Digit(text[x + 3])>> \o from[x + 3 + 1]
      BY <2>3, <2>5 DEF DecodedAt
    <2> QED
      BY <2>1, <2>2, <2>4, <2>6
  <1> QED
    BY <1>1, <1>2

\* What is left of a text from a byte on, is that byte and what is left after it.
LEMMA RestOfText ==
    ASSUME NEW s \in Seq(Byte), NEW k \in 1..Len(s)
    PROVE  <<s[k]>> \o SubSeq(s, k + 1, Len(s)) = SubSeq(s, k, Len(s))
  <1> DEFINE later == SubSeq(s, k + 1, Len(s))
             both == <<s[k]>> \o later
             all == SubSeq(s, k, Len(s))
  <1>1. Len(s) \in Nat /\ k \in Nat /\ s[k] \in Byte
    OBVIOUS
  <1>2. /\ later \in Seq(Byte) /\ Len(later) = Len(s) - k
        /\ \A i \in 1..Len(s) - k : later[i] = s[k + i]
    OBVIOUS
  <1>3. /\ all \in Seq(Byte) /\ Len(all) = Len(s) - k + 1
        /\ \A i \in 1..Len(s) - k + 1 : all[i] = s[k + i - 1]
    OBVIOUS
  <1> HIDE DEF later, all
  <1>4. /\ both \in Seq(Byte) /\ Len(both) = Len(s) - k + 1
        /\ both[1] = s[k] /\ \A i \in 2..Len(s) - k + 1 : both[i] = later[i - 1]
    BY <1>1, <1>2
  <1> HIDE DEF both
  <1>5. \A i \in 2..Len(s) - k + 1 : both[i] = s[k + i - 1]
    <2> SUFFICES ASSUME NEW i \in 2..Len(s) - k + 1 PROVE both[i] = s[k + i - 1]
      OBVIOUS
    <2>1. i - 1 \in 1..Len(s) - k /\ k + (i - 1) = k + i - 1
      BY <1>1
    <2> QED
      BY <1>2, <1>4, <2>1
  <1>6. both[1] = all[1]
    BY <1>1, <1>3, <1>4
  <1>7. \A i \in 1..Len(both) : both[i] = all[i]
    <2>1. \A i \in 1..Len(s) - k + 1 : i = 1 \/ i \in 2..Len(s) - k + 1
      BY <1>1
    <2> QED
      BY <1>3, <1>4, <1>5, <1>6, <2>1
  <1>8. Len(both) = Len(all)
    BY <1>3, <1>4
  <1>9. both = all
    BY <1>3, <1>4, <1>7, <1>8, SeqEqual
  <1> QED
    BY <1>9 DEF both, later, all

\* A portal that form-decodes an encoding gets what was encoded, whatever its
\* bytes and its length: the last byte from which it would not is one at which
\* it does.
THEOREM DecoderInverts ==
    ASSUME NEW s \in Seq(Byte), NEW text, Len(text) \in Nat,
           NEW c \in Seq(Nat), Len(c) = Len(s) + 1, Encodes(text, s, Len(s), c)
    PROVE  Decoded(text) = s
  <1> DEFINE n == Len(s)
             m == Len(text)
  <1>1. n \in Nat /\ m \in Nat /\ n + 1 \in 1..n + 1
    OBVIOUS
  <1>2. PICK from : /\ from = [i \in 1..Len(text) + 1 |-> DecodedAt(text, from, i)]
                    /\ Decoded(text) = from[1]
    BY DecodedUnfolds
  <1>3. \A i \in 1..m + 1 : from[i] = DecodedAt(text, from, i)
    BY <1>2
  <1>4. c[1] = 0 /\ c[n + 1] = m /\ \A k \in 1..n + 1 : c[k] \in Nat
    BY DEF Encodes
  <1> DEFINE Fine == {k \in 1..n + 1 : from[c[k] + 1] = SubSeq(s, k, n)}
  <1>5. n + 1 \in Fine
    <2>1. from[m + 1] = <<>>
      <3>1. m + 1 \in 1..m + 1 /\ m + 1 > Len(text)
        OBVIOUS
      <3> HIDE DEF m
      <3>2. from[m + 1] = DecodedAt(text, from, m + 1)
        BY <1>3, <3>1
      <3> QED
        BY <3>1, <3>2 DEF DecodedAt
    <2>2. SubSeq(s, n + 1, n) = <<>>
      OBVIOUS
    <2> HIDE DEF n, m
    <2> QED
      BY <1>1, <1>4, <2>1, <2>2
  <1>6. ASSUME NEW k \in 1..n, k + 1 \in Fine PROVE k \in Fine
    <2>1. s[k] \in Byte /\ <<s[k]>> \o SubSeq(s, k + 1, n) = SubSeq(s, k, n)
      BY RestOfText
    <2> DEFINE l == Len(PercentByte(s[k]))
    <2>2. /\ c[k + 1] = c[k] + l /\ c[k + 1] <= m
          /\ \A j \in 1..Len(PercentByte(s[k])) : text[c[k] + j] = PercentByte(s[k])[j]
      BY DEF Encodes
    <2>3. l \in {1, 3}
      BY <2>1, PercentByteLength
    <2> HIDE DEF n
    <2>4. c[k] \in Nat /\ k \in 1..n + 1
      BY <1>1, <1>4
    <2>5. c[k] + l <= m
      BY <2>2
    <2>6. DecodedAt(text, from, c[k] + 1) = <<s[k]>> \o from[c[k] + l + 1]
      <3> DEFINE b == s[k]
                 x == c[k]
      <3>1. b \in Byte /\ x \in Nat /\ x + Len(PercentByte(b)) <= Len(text)
        BY <2>1, <2>4, <2>5
      <3>2. \A j \in 1..Len(PercentByte(b)) : text[x + j] = PercentByte(b)[j]
        BY <2>2
      <3> HIDE DEF b, x
      <3>3. DecodedAt(text, from, x + 1) = <<b>> \o from[x + Len(PercentByte(b)) + 1]
        BY ONLY Len(text) \in Nat, <3>1, <3>2, DecodesByte
      <3> QED
        BY <3>3 DEF b, x
    <2>7. c[k] + 1 \in 1..m + 1 /\ c[k] + l + 1 = c[k + 1] + 1
      <3>1. \A x \in Nat, r \in {1, 3} : x + r <= m => x + 1 \in 1..m + 1
        BY <1>1
      <3> HIDE DEF l, m
      <3> QED
        BY <2>2, <2>3, <2>4, <2>5, <3>1
    <2> HIDE DEF l, m, Fine
    <2>8. from[c[k] + 1] = <<s[k]>> \o from[c[k + 1] + 1]
      BY <1>3, <2>6, <2>7
    <2>9. from[c[k + 1] + 1] = SubSeq(s, k + 1, n)
      BY <1>6 DEF Fine
    <2> QED
      BY <2>1, <2>4, <2>8, <2>9 DEF Fine
  <1>7. 1 \in Fine
    <2>1. Fine \subseteq 1..n + 1 /\ n + 1 \in Nat
      BY <1>1
    <2> HIDE DEF n, Fine
    <2>2. PICK k \in Fine : \A j \in Fine : k <= j
      BY <1>5, <2>1, LeastPosition
    <2>3. ASSUME k # 1 PROVE FALSE
      <3>1. k - 1 \in 1..n /\ (k - 1) + 1 = k /\ ~(k <= k - 1)
        BY <1>1, <2>1, <2>2, <2>3
      <3> QED
        BY <1>6, <2>2, <3>1
    <2> QED
      BY <2>2, <2>3
  <1>8. from[1] = SubSeq(s, 1, n)
    <2>1. 0 + 1 = 1
      OBVIOUS
    <2> HIDE DEF n
    <2> QED
      BY <1>4, <1>7, <2>1
  <1>9. SubSeq(s, 1, n) = s
    OBVIOUS
  <1> QED
    BY <1>2, <1>8, <1>9

-----------------------------------------------------------------------------
(* Finding the parameter: nothing before rd or in it ends it.              *)

\* UpTo ends before the first byte there is to end at.
LEMMA UpToFirst ==
    ASSUME NEW text, Len(text) \in Nat, NEW i \in Nat, NEW ends,
           NEW j \in i..Len(text) + 1,
           j = Len(text) + 1 \/ text[j] \in ends,
           \A k \in i..j - 1 : text[k] \notin ends
    PROVE  UpTo(text, i, ends) = SubSeq(text, i, j - 1)
  <1> DEFINE Ends(l) == /\ l = Len(text) + 1 \/ text[l] \in ends
                        /\ \A k \in i..l - 1 : text[k] \notin ends
             first == CHOOSE l \in i..Len(text) + 1 : Ends(l)
  <1>1. first \in i..Len(text) + 1 /\ Ends(first)
    OBVIOUS
  <1>2. UpTo(text, i, ends) = SubSeq(text, i, first - 1)
    BY DEF UpTo
  <1> HIDE DEF first
  <1>3. ~(first < j)
    <2> SUFFICES ASSUME first < j PROVE FALSE
      OBVIOUS
    <2>1. first \in i..j - 1 /\ first # Len(text) + 1
      BY <1>1
    <2> QED
      BY <1>1, <2>1
  <1>4. ~(j < first)
    <2> SUFFICES ASSUME j < first PROVE FALSE
      OBVIOUS
    <2>1. j \in i..first - 1 /\ j # Len(text) + 1
      BY <1>1
    <2> QED
      BY <1>1, <2>1
  <1>5. first = j
    BY <1>1, <1>3, <1>4
  <1> QED
    BY <1>2, <1>5

\* Concatenation is associative ...
LEMMA Associative == \A a, b, c \in Seq(Nat) : (a \o b) \o c = a \o (b \o c)
  OBVIOUS

\* ... and puts one text before another.
LEMMA Concat ==
    \A a, b \in Seq(Nat) : a \o b \in Seq(Nat) /\ Len(a \o b) = Len(a) + Len(b)
  OBVIOUS

\* What a concatenation begins with.
LEMMA ConcatFirst ==
    \A a, b \in Seq(Nat) : \A k \in 1..Len(a) : (a \o b)[k] = a[k]
  OBVIOUS

\* What stands before the first such byte ...
LEMMA UpToPrefix ==
    ASSUME NEW a \in Seq(Nat), NEW mark \in Seq(Nat), Len(mark) = 1,
           NEW b \in Seq(Nat), NEW ends, mark[1] \in ends,
           \A k \in 1..Len(a) : a[k] \notin ends
    PROVE  UpTo((a \o mark) \o b, 1, ends) = a
  <1> DEFINE text == (a \o mark) \o b
             x == mark[1]
             p == Len(a)
             before == SubSeq(text, 1, p)
  <1>1. p \in Nat /\ Len(b) \in Nat
    OBVIOUS
  <1>2. /\ text \in Seq(Nat) /\ Len(text) = p + 1 + Len(b) /\ text[p + 1] = x
        /\ \A k \in 1..p : text[k] = a[k]
    <2> DEFINE am == a \o mark
    <2>1. /\ am \in Seq(Nat) /\ Len(am) = Len(a) + Len(mark)
          /\ \A k \in 1..Len(a) : am[k] = a[k]
      BY Concat, ConcatFirst, Zenon
    <2>2. am[p + 1] = x
      OBVIOUS
    <2> HIDE DEF am
    <2>3. /\ am \o b \in Seq(Nat) /\ Len(am \o b) = Len(am) + Len(b)
          /\ \A k \in 1..Len(am) : (am \o b)[k] = am[k]
      BY <2>1, Concat, ConcatFirst, Zenon
    <2>4. text = am \o b
      BY DEF am
    <2> HIDE DEF text
    <2>5. /\ text \in Seq(Nat) /\ Len(text) = Len(am) + Len(b)
          /\ \A k \in 1..Len(am) : text[k] = am[k]
      BY <2>3, <2>4, Zenon
    <2>6. p + 1 \in 1..p + 1 /\ (\A k \in 1..p : k \in 1..p + 1) /\ Len(am) = p + 1
      BY <1>1, <2>1
    <2> QED
      BY <2>1, <2>2, <2>5, <2>6
  <1> HIDE DEF text
  <1>3. before \in Seq(Nat) /\ Len(before) = p /\ \A k \in 1..p : before[k] = a[k]
    BY <1>1, <1>2
  <1>4. before = a
    <2> HIDE DEF before
    <2> QED
      BY <1>3, SeqEqual
  <1> HIDE DEF before
  <1>5. p + 1 \in 1..Len(text) + 1 /\ (p + 1) - 1 = p /\ Len(text) \in Nat /\ 1 \in Nat
    BY <1>1, <1>2
  <1>6. \A k \in 1..(p + 1) - 1 : text[k] \notin ends
    BY <1>2, <1>5
  <1>7. UpTo(text, 1, ends) = SubSeq(text, 1, (p + 1) - 1)
    <2> HIDE DEF p
    <2> QED
      BY ONLY mark[1] \in ends, <1>2, <1>5, <1>6, UpToFirst
  <1> QED
    BY <1>4, <1>5, <1>7 DEF text, before

\* ... and what stands last, if it has none.
LEMMA UpToSuffix ==
    ASSUME NEW a \in Seq(Nat), NEW b \in Seq(Nat), NEW ends,
           \A k \in 1..Len(b) : b[k] \notin ends
    PROVE  UpTo(a \o b, Len(a) + 1, ends) = b
  <1> DEFINE text == a \o b
             p == Len(a)
             n == Len(b)
             end == p + n + 1
             rest == SubSeq(text, p + 1, p + n)
  <1>1. p \in Nat /\ n \in Nat
    OBVIOUS
  <1>2. /\ text \in Seq(Nat) /\ Len(text) = p + n
        /\ \A k \in 1..n : text[p + k] = b[k]
    OBVIOUS
  <1> HIDE DEF text
  <1>3. rest \in Seq(Nat) /\ Len(rest) = n /\ \A k \in 1..n : rest[k] = text[p + k]
    <2> HIDE DEF p, n
    <2>1. \A k \in 1..n : (p + 1) + k - 1 = p + k
      BY <1>1
    <2>2. p + n <= Len(text) /\ (p + n) - (p + 1) + 1 = n /\ p + 1 \in Nat
      BY <1>1, <1>2
    <2> QED
      BY <1>1, <1>2, <2>1, <2>2
  <1>4. rest = b
    <2> HIDE DEF rest
    <2> QED
      BY <1>2, <1>3, SeqEqual
  <1> HIDE DEF rest
  <1>5. \A k \in p + 1..p + n : text[k] \notin ends
    <2> SUFFICES ASSUME NEW k \in p + 1..p + n PROVE text[k] \notin ends
      OBVIOUS
    <2>1. k - p \in 1..n /\ p + (k - p) = k
      BY <1>1
    <2> QED
      BY <1>2, <2>1
  <1>6. UpTo(text, p + 1, ends) = SubSeq(text, p + 1, end - 1)
    <2>1. /\ end \in p + 1..Len(text) + 1 /\ end - 1 = p + n /\ end = Len(text) + 1
          /\ Len(text) \in Nat /\ p + 1 \in Nat
      BY <1>1, <1>2
    <2>2. \A k \in p + 1..end - 1 : text[k] \notin ends
      BY <1>5, <2>1
    <2> HIDE DEF end, p
    <2> QED
      BY ONLY <2>1, <2>2, UpToFirst
  <1>7. end - 1 = p + n
    BY <1>1
  <1> QED
    BY <1>4, <1>6, <1>7 DEF text, rest

\* Neither "#" nor "&" is written.
LEMMA NoneWritten ==
    ASSUME NEW encoded \in Seq(Written)
    PROVE  /\ encoded \in Seq(Nat)
           /\ \A k \in 1..Len(encoded) : encoded[k] \notin {35} /\ encoded[k] \notin {38}
  <1>1. Written \subseteq Nat /\ 35 \notin Written /\ 38 \notin Written
    BY DEF Written, Unreserved, Percent
  <1>2. encoded \in Seq(Nat)
    BY <1>1, SeqMonotonic
  <1>3. \A k \in 1..Len(encoded) : encoded[k] \in Written
    OBVIOUS
  <1> QED
    BY <1>1, <1>2, <1>3

\* "rd=" and what follows it, byte by byte.
LEMMA RdThen ==
    ASSUME NEW encoded \in Seq(Nat), NEW c, c \notin {114, 100, 61},
           \A k \in 1..Len(encoded) : encoded[k] # c
    PROVE  LET query == <<114, 100, 61>> \o encoded
           IN  /\ query \in Seq(Nat) /\ DOMAIN query = 1..Len(query)
               /\ Len(query) = 3 + Len(encoded)
               /\ query[1] = 114 /\ query[2] = 100 /\ query[3] = 61
               /\ \A k \in DOMAIN query : query[k] # c
  <1> DEFINE query == <<114, 100, 61>> \o encoded
             n == Len(encoded)
  <1>1. n \in Nat
    OBVIOUS
  <1>2. /\ query \in Seq(Nat) /\ Len(query) = 3 + n /\ DOMAIN query = 1..3 + n
        /\ query[1] = 114 /\ query[2] = 100 /\ query[3] = 61
        /\ \A k \in 1..n : query[3 + k] = encoded[k]
    OBVIOUS
  <1> HIDE DEF query
  <1>3. ASSUME NEW k \in 1..3 + n PROVE query[k] # c
    <2>1. CASE k \in 1..3
      <3>1. k = 1 \/ k = 2 \/ k = 3
        BY <2>1
      <3> QED
        BY <1>2, <3>1
    <2>2. CASE k \notin 1..3
      <3>1. k - 3 \in 1..n /\ 3 + (k - 3) = k
        BY <1>1, <2>2
      <3>2. query[3 + (k - 3)] = encoded[k - 3] /\ encoded[k - 3] # c
        BY <1>2, <3>1
      <3> QED
        BY <3>1, <3>2, Zenon
    <2> QED
      BY <2>1, <2>2
  <1> QED
    BY <1>2, <1>3 DEF query

\* The query of a login URL is "rd=" and what was written for the URL to return
\* to: the portal's URL has no "?".
LEMMA QueryOfLoginUrl ==
    ASSUME NEW encoded \in Seq(Written)
    PROVE  Query(LoginUrl(encoded)) = <<114, 100, 61>> \o encoded
  <1> DEFINE rd == <<114, 100, 61>>
             query == rd \o encoded
             mark == <<QuestionMark>>
             portal == PortalUrl \o mark
  <1>1. Byte \subseteq Nat /\ QuestionMark \in Nat
    BY DEF Byte, QuestionMark
  <1>2. PortalUrl \in Seq(Nat) /\ encoded \in Seq(Nat) /\ rd \in Seq(Nat) /\ mark \in Seq(Nat)
    <2>1. PortalUrl \in Seq(Byte)
      BY TextAssumption
    <2>2. PortalUrl \in Seq(Nat)
      BY <1>1, <2>1, SeqMonotonic
    <2> QED
      BY <1>1, <2>2, NoneWritten
  <1>3. <<QuestionMark, 114, 100, 61>> = mark \o rd /\ Len(mark) = 1
    BY <1>1
  <1>4. \A k \in 1..Len(query) : query[k] # 35
    <2>1. 35 \notin {114, 100, 61}
      OBVIOUS
    <2> QED
      BY <1>2, <2>1, NoneWritten, RdThen
  <1>5. \A k \in 1..Len(PortalUrl) : PortalUrl[k] \notin {QuestionMark}
    BY <1>2, TextAssumption
  <1> HIDE DEF rd, mark
  <1>6. LoginUrl(encoded) = portal \o query
    <2>1. LoginUrl(encoded) = (PortalUrl \o (mark \o rd)) \o encoded
      BY <1>3 DEF LoginUrl
    <2>2. (PortalUrl \o mark) \o rd = PortalUrl \o (mark \o rd)
      BY <1>2, Associative, Zenon
    <2>3. portal \in Seq(Nat)
      BY <1>2, Concat, Zenon
    <2> HIDE DEF portal
    <2>4. (portal \o rd) \o encoded = portal \o (rd \o encoded)
      BY <1>2, <2>3, Associative, Zenon
    <2> QED
      BY <2>1, <2>2, <2>4, Zenon DEF portal
  <1>7. query \in Seq(Nat) /\ portal \in Seq(Nat) /\ Len(portal) = Len(PortalUrl) + 1
    <2>1. query \in Seq(Nat)
      BY <1>2, Concat, Zenon
    <2>2. portal \in Seq(Nat) /\ Len(portal) = Len(PortalUrl) + Len(mark)
      BY <1>2, Concat, Zenon
    <2> HIDE DEF portal, query
    <2> QED
      BY <1>3, <2>1, <2>2
  <1> HIDE DEF query
  <1>8. UpTo(LoginUrl(encoded), 1, {QuestionMark}) = PortalUrl
    <2>1. mark[1] \in {QuestionMark}
      BY DEF mark
    <2> DEFINE ends == {QuestionMark}
    <2>2. mark[1] \in ends /\ \A k \in 1..Len(PortalUrl) : PortalUrl[k] \notin ends
      BY <1>5, <2>1
    <2> HIDE DEF ends
    <2>3. PortalUrl \in Seq(Nat) /\ mark \in Seq(Nat) /\ Len(mark) = 1 /\ query \in Seq(Nat)
      BY <1>2, <1>3, <1>7
    <2>4. UpTo((PortalUrl \o mark) \o query, 1, ends) = PortalUrl
      BY <2>2, <2>3, UpToPrefix, Zenon
    <2> QED
      BY <1>6, <2>4, Zenon DEF ends
  <1> HIDE DEF portal
  <1>9. UpTo(LoginUrl(encoded), Len(portal) + 1, {35}) = query
    <2>1. \A k \in 1..Len(query) : query[k] \notin {35}
      BY <1>4
    <2> QED
      BY <1>6, <1>7, <2>1, UpToSuffix
  <1>10. Len(portal) + 1 = Len(PortalUrl) + 2
    BY <1>2, <1>7
  <1> QED
    BY <1>8, <1>9, <1>10 DEF Query, query, rd

\* The first parameter is rd, and its value all that was written.
LEMMA ReturnAddressOf ==
    ASSUME NEW encoded \in Seq(Written)
    PROVE  ReturnAddress(LoginUrl(encoded)) = Decoded(encoded)
  <1> DEFINE query == <<114, 100, 61>> \o encoded
             starts == {1} \cup {i + 1 : i \in {j \in DOMAIN query : query[j] = 38}}
             rd == {i \in starts : SubSeq(query, i, i + 2) = <<114, 100, 61>>}
             first == CHOOSE i \in rd : \A j \in rd : i <= j
  <1>1. encoded \in Seq(Nat) /\ Len(encoded) \in Nat
    BY NoneWritten
  <1>2. /\ query \in Seq(Nat) /\ Len(query) = 3 + Len(encoded)
        /\ query[1] = 114 /\ query[2] = 100 /\ query[3] = 61
        /\ \A k \in DOMAIN query : query[k] # 38
    <2>1. 38 \notin {114, 100, 61}
      OBVIOUS
    <2> QED
      BY <1>1, <2>1, NoneWritten, RdThen
  <1>3. ReturnAddress(LoginUrl(encoded)) = ValueOfRd(query)
    BY QueryOfLoginUrl DEF ReturnAddress
  <1>4. UpTo(query, 3 + 1, {38}) = encoded
    <2>1. <<114, 100, 61>> \in Seq(Nat) /\ Len(<<114, 100, 61>>) = 3
      OBVIOUS
    <2> QED
      BY <1>1, <2>1, NoneWritten, UpToSuffix
  <1> HIDE DEF query
  <1>5. ValueOfRd(query) = IF rd = {} THEN <<>> ELSE Decoded(UpTo(query, first + 3, {38}))
    BY DEF ValueOfRd
  <1>6. starts = {1}
    BY <1>2
  <1>7. SubSeq(query, 1, 1 + 2) = <<114, 100, 61>>
    <2> DEFINE sub == SubSeq(query, 1, 3)
    <2>1. sub \in Seq(Nat) /\ Len(sub) = 3 /\ \A k \in 1..3 : sub[k] = query[k]
      BY <1>1, <1>2
    <2> HIDE DEF sub
    <2>2. sub = <<114, 100, 61>>
      BY <1>2, <2>1
    <2> QED
      BY <2>2 DEF sub
  <1> HIDE DEF starts
  <1>8. rd = {1}
    BY <1>6, <1>7
  <1> HIDE DEF rd
  <1>9. first = 1
    BY <1>8
  <1> HIDE DEF first
  <1>10. first + 3 = 3 + 1 /\ rd # {}
    BY <1>8, <1>9
  <1> QED
    BY <1>3, <1>4, <1>5, <1>10

\* However long the URL and whatever bytes it has, the portal sends the user back
\* to exactly that URL.
THEOREM ReturnSound == Spec => []ReturnsWhereAsked
  <1>1. InductiveInvariant => ReturnsWhereAsked
    <2> SUFFICES ASSUME InductiveInvariant, read = Len(returnTo)
                 PROVE  ReturnAddress(LoginUrl(out)) = returnTo
      BY DEF ReturnsWhereAsked
    <2>1. /\ returnTo \in Seq(Byte) /\ out \in Seq(Written) /\ Len(out) \in Nat
          /\ cut \in Seq(Nat) /\ Len(cut) = Len(returnTo) + 1
          /\ Encodes(out, returnTo, Len(returnTo), cut)
      BY DEF InductiveInvariant, TypeOK
    <2>2. Decoded(out) = returnTo
      BY <2>1, DecoderInverts
    <2> QED
      BY <2>1, <2>2, ReturnAddressOf
  <1> QED
    BY <1>1, Invariance, PTL

\* Every byte of a concatenation is one of either text.
LEMMA ConcatBytes ==
    ASSUME NEW a \in Seq(Nat), NEW b \in Seq(Nat), NEW i \in 1..(Len(a) + Len(b)), i > Len(a)
    PROVE  (a \o b)[i] = b[i - Len(a)] /\ i - Len(a) \in 1..Len(b)
  <1>1. Len(a) \in Nat /\ Len(b) \in Nat
    OBVIOUS
  <1>2. i - Len(a) \in 1..Len(b)
    BY <1>1
  <1>3. (a \o b)[i] = b[i - Len(a)]
    OBVIOUS
  <1> QED
    BY <1>2, <1>3

\* Past the portal's own URL, a login URL is visible ASCII.
LEMMA VisibleAfterPortal ==
    ASSUME NEW encoded \in Seq(Written)
    PROVE  \A i \in DOMAIN LoginUrl(encoded) :
              i > Len(PortalUrl) => LoginUrl(encoded)[i] \in 33..126
  <1> DEFINE rd == <<QuestionMark, 114, 100, 61>>
             portal == PortalUrl \o rd
             url == portal \o encoded
  <1>1. encoded \in Seq(Nat) /\ \A k \in 1..Len(encoded) : encoded[k] \in 33..126
    <2>1. Written \subseteq 33..126
      BY DEF Written, Unreserved, Percent
    <2>2. \A k \in 1..Len(encoded) : encoded[k] \in Written
      OBVIOUS
    <2> QED
      BY <2>1, <2>2, NoneWritten
  <1>2. PortalUrl \in Seq(Nat) /\ Len(PortalUrl) \in Nat
    <2>1. PortalUrl \in Seq(Byte) /\ Byte \subseteq Nat
      BY TextAssumption DEF Byte
    <2>2. PortalUrl \in Seq(Nat)
      BY <2>1, SeqMonotonic
    <2> QED
      BY <2>2
  <1>3. rd \in Seq(Nat) /\ Len(rd) = 4 /\ \A k \in 1..4 : rd[k] \in 33..126
    BY DEF QuestionMark
  <1>4. LoginUrl(encoded) = url
    BY DEF LoginUrl
  <1> HIDE DEF rd
  <1>5. portal \in Seq(Nat) /\ Len(portal) = Len(PortalUrl) + Len(rd)
    BY <1>2, <1>3, Concat, Zenon
  <1>6. \A i \in 1..Len(portal) : i > Len(PortalUrl) => portal[i] \in 33..126
    <2> SUFFICES ASSUME NEW i \in 1..Len(portal), i > Len(PortalUrl) PROVE portal[i] \in 33..126
      OBVIOUS
    <2>1. i \in 1..(Len(PortalUrl) + Len(rd))
      BY <1>5
    <2>2. portal[i] = rd[i - Len(PortalUrl)] /\ i - Len(PortalUrl) \in 1..Len(rd)
      BY <1>2, <1>3, <2>1, ConcatBytes, Zenon
    <2> QED
      BY <1>3, <2>2
  <1> HIDE DEF portal
  <1>7. url \in Seq(Nat) /\ Len(url) = Len(portal) + Len(encoded)
    BY <1>1, <1>5, Concat, Zenon
  <1>8. ASSUME NEW i \in 1..(Len(portal) + Len(encoded)), i > Len(PortalUrl)
        PROVE  url[i] \in 33..126
    <2>1. CASE i > Len(portal)
      <3>1. url[i] = encoded[i - Len(portal)] /\ i - Len(portal) \in 1..Len(encoded)
        BY <1>1, <1>5, <2>1, ConcatBytes, Zenon
      <3> QED
        BY <1>1, <3>1
    <2>2. CASE ~(i > Len(portal))
      <3>1. i \in 1..Len(portal)
        BY <1>1, <1>5, <2>2
      <3>2. url[i] = portal[i]
        BY <1>1, <1>5, <3>1, ConcatFirst, Zenon
      <3> QED
        BY <1>6, <1>8, <3>1, <3>2
    <2> QED
      BY <2>1, <2>2
  <1> HIDE DEF url
  <1>9. DOMAIN url = 1..(Len(portal) + Len(encoded))
    BY <1>7
  <1> QED
    BY <1>4, <1>8, <1>9

\* Whatever bytes the URL to return to has, whether a Location can be a header's
\* value is for AUTHROUTE_PORTAL_URL alone to say, as RedirectResponse in Checks
\* has it.
THEOREM LocationVisible ==
    Spec => [](\A i \in DOMAIN LoginUrl(out) : i > Len(PortalUrl) => LoginUrl(out)[i] \in 33..126)
  <1>1. InductiveInvariant =>
           \A i \in DOMAIN LoginUrl(out) : i > Len(PortalUrl) => LoginUrl(out)[i] \in 33..126
    <2> SUFFICES ASSUME InductiveInvariant
                 PROVE  \A i \in DOMAIN LoginUrl(out) :
                           i > Len(PortalUrl) => LoginUrl(out)[i] \in 33..126
      OBVIOUS
    <2>1. out \in Seq(Written)
      BY DEF InductiveInvariant, TypeOK
    <2> QED
      BY <2>1, VisibleAfterPortal
  <1> QED
    BY <1>1, Invariance, PTL
=============================================================================
