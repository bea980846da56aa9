---------------------------- MODULE FramingProofs ----------------------------
(***************************************************************************)
(* Proofs about the two servers that cut messages out of a stream, for any *)
(* base, any MAX_LENGTH and any way to cut the stream: the parser of       *)
(* boost/asyncServer copies within its arrays, the one of a length of -1   *)
(* excepted, and keeps every byte as long as the session lasts, and both   *)
(* servers take the steps of FramedEcho.                                   *)
(***************************************************************************)
EXTENDS FramedServers, SequenceTheorems, TLAPS

-----------------------------------------------------------------------------
(***************************************************************************)
(* Sequences.                                                              *)
(***************************************************************************)
LEMMA ZeroIsByte == 0 \in Byte
BY WireAssumption DEF Byte

LEMMA Pieces ==
    ASSUME NEW s \in Seq(Byte), NEW m \in 1 .. Len(s) + 1, NEW n \in m - 1 .. Len(s)
    PROVE  /\ SubSeq(s, m, n) \in Seq(Byte)
           /\ Len(SubSeq(s, m, n)) = n - m + 1
           /\ \A i \in 1 .. n - m + 1 : SubSeq(s, m, n)[i] = s[m + i - 1]
<1>1. m \in Int /\ n \in Int /\ \A i \in m .. n : s[i] \in Byte
    BY LenProperties
<1>2. QED
    BY <1>1, SubSeqProperties

LEMMA Joined ==
    ASSUME NEW p \in Seq(Byte), NEW q \in Seq(Byte)
    PROVE  /\ p \o q \in Seq(Byte) /\ Len(p \o q) = Len(p) + Len(q)
           /\ \A i \in 1 .. Len(p) + Len(q) : (p \o q)[i] = IF i <= Len(p) THEN p[i] ELSE q[i - Len(p)]
BY ConcatProperties

\* \o is associative.
Grouped(p, q, r) == (p \o q) \o r = p \o (q \o r)

LEMMA Regrouped ==
    ASSUME NEW p \in Seq(Byte), NEW q \in Seq(Byte), NEW r \in Seq(Byte)
    PROVE  Grouped(p, q, r)
BY DEF Grouped

LEMMA AppendedBehind ==
    ASSUME NEW p \in Seq(Byte), NEW q \in Seq(Byte), NEW b \in Byte
    PROVE  p \o Append(q, b) = Append(p \o q, b)
OBVIOUS

\* What memcpy of n elements of s, from k on, to the place c of d makes of d.
Filled(d, c, n, s, k) == [i \in DOMAIN d |-> IF i \in c + 1 .. c + n THEN s[k + i - c] ELSE d[i]]

\* Such a copy stays inside both arrays; it puts the elements behind the first c.
Fits(d, c, n, s, k) ==
    /\ d \in Seq(Byte) /\ s \in Seq(Byte) /\ c \in Nat /\ n \in Nat /\ k \in Nat
    /\ c + n <= Len(d) /\ k + n <= Len(s)

Copies(d, c, n, s, k, e) ==
    /\ e \in Seq(Byte)
    /\ Len(e) = Len(d)
    /\ SubSeq(e, 1, c + n) = SubSeq(d, 1, c) \o SubSeq(s, k + 1, k + n)

LEMMA FilledIsCopied ==
    ASSUME NEW d, NEW c, NEW n, NEW s, NEW k, Fits(d, c, n, s, k)
    PROVE  Copies(d, c, n, s, k, Filled(d, c, n, s, k))
<1> DEFINE e == Filled(d, c, n, s, k)
           left0 == SubSeq(e, 1, c + n)
           right0 == SubSeq(d, 1, c) \o SubSeq(s, k + 1, k + n)
<1>0. /\ d \in Seq(Byte) /\ s \in Seq(Byte) /\ c \in Nat /\ n \in Nat /\ k \in Nat
      /\ c + n <= Len(d) /\ k + n <= Len(s)
    BY DEF Fits
<1>1. /\ DOMAIN d = 1 .. Len(d) /\ Len(d) \in Nat /\ Len(s) \in Nat
      /\ \A i \in 1 .. Len(d) : d[i] \in Byte
      /\ \A i \in 1 .. Len(s) : s[i] \in Byte
    BY <1>0, LenProperties
<1>2. e = [i \in 1 .. Len(d) |-> IF i \in c + 1 .. c + n THEN s[k + i - c] ELSE d[i]]
    BY <1>0, <1>1 DEF Filled
<1>3. \A i \in 1 .. Len(d) : e[i] = IF i \in c + 1 .. c + n THEN s[k + i - c] ELSE d[i]
    BY <1>0, <1>2
<1>4. \A i \in 1 .. Len(d) : e[i] \in Byte
    <2> SUFFICES ASSUME NEW i \in 1 .. Len(d)
                 PROVE  e[i] \in Byte
        OBVIOUS
    <2> HIDE DEF e
    <2>1. CASE i \in c + 1 .. c + n
        <3>1. k + i - c \in 1 .. Len(s)
            BY <1>0, <1>1, <2>1
        <3>2. QED
            BY <1>0, <1>1, <1>3, <2>1, <3>1
    <2>2. CASE i \notin c + 1 .. c + n
        BY <1>0, <1>1, <1>3, <2>2
    <2>3. QED
        BY <1>0, <2>1, <2>2
<1>5. e \in Seq(Byte) /\ Len(e) = Len(d)
    <2>1. e \in [1 .. Len(d) -> Byte]
        BY <1>0, <1>2, <1>4
    <2> HIDE DEF e
    <2>2. QED
        BY <1>1, <2>1
<1> HIDE DEF e
<1>6. /\ left0 \in Seq(Byte) /\ Len(left0) = c + n
      /\ \A i \in 1 .. c + n : left0[i] = e[i]
    BY <1>0, <1>5, Pieces
<1>7. /\ SubSeq(d, 1, c) \in Seq(Byte) /\ Len(SubSeq(d, 1, c)) = c
      /\ \A i \in 1 .. c : SubSeq(d, 1, c)[i] = d[i]
    BY <1>0, <1>1, Pieces
<1>8. /\ SubSeq(s, k + 1, k + n) \in Seq(Byte) /\ Len(SubSeq(s, k + 1, k + n)) = n
      /\ \A i \in 1 .. n : SubSeq(s, k + 1, k + n)[i] = s[k + i]
    BY <1>0, <1>1, Pieces
<1>9. /\ right0 \in Seq(Byte) /\ Len(right0) = c + n
      /\ \A i \in 1 .. c + n :
            right0[i] = IF i <= c THEN SubSeq(d, 1, c)[i] ELSE SubSeq(s, k + 1, k + n)[i - c]
    BY <1>0, <1>7, <1>8, Joined
<1>10. \A i \in 1 .. c + n : left0[i] = right0[i]
    <2> SUFFICES ASSUME NEW i \in 1 .. c + n
                 PROVE  left0[i] = right0[i]
        OBVIOUS
    <2>1. CASE i <= c
        <3>1. i \in 1 .. Len(d) /\ i \in 1 .. c /\ i \notin c + 1 .. c + n
            BY <1>0, <1>1, <2>1
        <3>2. e[i] = d[i] /\ left0[i] = e[i]
            BY <1>3, <1>6, <3>1
        <3>3. right0[i] = d[i]
            BY <1>7, <1>9, <2>1, <3>1
        <3>4. QED
            BY <3>2, <3>3
    <2>2. CASE ~(i <= c)
        <3>1. i - c \in 1 .. n
            BY <1>0, <2>2
        <3>2. SubSeq(s, k + 1, k + n)[i - c] = s[k + (i - c)]
            BY <1>0, <1>8, <3>1
        <3>3. left0[i] = s[k + i - c]
            <4>1. i \in 1 .. Len(d) /\ i \in c + 1 .. c + n
                BY <1>0, <1>1, <2>2
            <4>2. e[i] = s[k + i - c]
                BY <1>3, <4>1
            <4>3. QED
                BY <1>6, <4>2
        <3>4. QED
            BY <1>0, <1>9, <2>2, <3>2, <3>3
    <2>3. QED
        BY <1>0, <2>1, <2>2
<1> HIDE DEF left0, right0
<1>11. left0 = right0
    BY <1>0, <1>6, <1>9, <1>10, SeqEqual
<1>12. QED
    BY <1>5, <1>11 DEF e, left0, right0, Copies

\* A new node of n elements of which m are there.
Begun(n, m, s, k) == [i \in 1 .. n |-> IF i <= m THEN s[k + i] ELSE 0]

Begins(n, m, s, k, e) ==
    /\ e \in Seq(Byte)
    /\ Len(e) = n
    /\ SubSeq(e, 1, m) = SubSeq(s, k + 1, k + m)

LEMMA BegunIsCopied ==
    ASSUME NEW s \in Seq(Byte), NEW n \in Nat, NEW m \in Nat, NEW k \in Nat,
           m <= n, k + m <= Len(s)
    PROVE  Begins(n, m, s, k, Begun(n, m, s, k))
<1> DEFINE e == Begun(n, m, s, k)
           left0 == SubSeq(e, 1, m)
           right0 == SubSeq(s, k + 1, k + m)
<1>1. Len(s) \in Nat /\ \A i \in 1 .. Len(s) : s[i] \in Byte
    BY LenProperties
<1>2. \A i \in 1 .. n : e[i] = IF i <= m THEN s[k + i] ELSE 0
    BY DEF Begun
<1>3. \A i \in 1 .. n : e[i] \in Byte
    <2> SUFFICES ASSUME NEW i \in 1 .. n
                 PROVE  e[i] \in Byte
        OBVIOUS
    <2> HIDE DEF e
    <2>1. CASE i <= m
        <3>1. k + i \in 1 .. Len(s)
            BY <1>1, <2>1
        <3>2. QED
            BY <1>1, <1>2, <2>1, <3>1
    <2>2. CASE ~(i <= m)
        BY <1>2, <2>2, ZeroIsByte
    <2>3. QED
        BY <2>1, <2>2
<1>4. e \in Seq(Byte) /\ Len(e) = n
    <2>1. e \in [1 .. n -> Byte]
        BY <1>3 DEF Begun
    <2>2. QED
        BY <2>1
<1> HIDE DEF e
<1>5. left0 \in Seq(Byte) /\ Len(left0) = m /\ \A i \in 1 .. m : left0[i] = e[i]
    BY <1>4, Pieces
<1>6. right0 \in Seq(Byte) /\ Len(right0) = m /\ \A i \in 1 .. m : right0[i] = s[k + i]
    BY <1>1, Pieces
<1>7. \A i \in 1 .. m : left0[i] = right0[i]
    BY <1>2, <1>5, <1>6
<1> HIDE DEF left0, right0
<1>8. left0 = right0
    BY <1>5, <1>6, <1>7, SeqEqual
<1>9. QED
    BY <1>4, <1>8 DEF e, left0, right0, Begins

\* The array of a node of the length -1.
LEMMA NoRoom ==
    ASSUME NEW s, NEW m, NEW k
    PROVE  Begun(-1, m, s, k) \in Seq(Byte) /\ Len(Begun(-1, m, s, k)) = 0
<1>1. 1 .. -1 = 1 .. 0
    OBVIOUS
<1>2. Begun(-1, m, s, k) \in [1 .. 0 -> Byte]
    BY <1>1 DEF Begun
<1>3. QED
    BY <1>2
-----------------------------------------------------------------------------
(***************************************************************************)
(* The head of a message: two bytes hold a length, and only one pair does. *)
(* A length that is not negative is the number they spell.                 *)
(***************************************************************************)
LEMMA DivMod ==
    ASSUME NEW a \in Nat
    PROVE  /\ a \div Base \in Nat /\ a % Base \in 0 .. Base - 1
           /\ a = (a \div Base) * Base + (a % Base)
BY WireAssumption

LEMMA OneQuotient ==
    ASSUME NEW B \in Nat, NEW a \in Nat, NEW b \in Nat, NEW c \in Nat, NEW d \in Nat,
           b < B, d < B, a * B + b = c * B + d
    PROVE  a = c
<1>1. ASSUME NEW x \in Nat, NEW y \in Nat, NEW v \in Nat, NEW w \in Nat, v < B, x < y
      PROVE  x * B + v # y * B + w
    <2>1. y - x \in Nat /\ y - x >= 1
        BY <1>1
    <2>2. (y - x) * B >= B
        BY <2>1
    <2>3. QED
        BY <1>1, <2>2
<1>2. QED
    BY <1>1

LEMMA HeadOfLength ==
    ASSUME NEW a \in Byte, NEW b \in Byte
    PROVE  /\ a * Base + b \in Nat /\ a * Base + b < Base * Base
           /\ (a * Base + b) \div Base = a /\ (a * Base + b) % Base = b
<1> DEFINE n == a * Base + b
<1>1. n \in Nat /\ a \in Nat /\ b \in Nat /\ b < Base /\ Base \in Nat
    BY WireAssumption DEF Byte
<1>2. /\ n \div Base \in Nat /\ n % Base \in 0 .. Base - 1
      /\ n = (n \div Base) * Base + (n % Base)
    BY <1>1, DivMod
<1> HIDE DEF n
<1>3. n = a * Base + b
    BY DEF n
<1>4. n \div Base = a
    BY <1>1, <1>2, <1>3, OneQuotient
<1>5. n % Base = b
    BY <1>1, <1>2, <1>3, <1>4
<1>6. n < Base * Base
    <2>1. Base - 1 - a \in Nat
        BY <1>1 DEF Byte
    <2>2. (Base - 1 - a) * Base \in Nat
        BY <1>1, <2>1
    <2>3. QED
        BY <1>1, <1>3, <2>2
<1>7. QED
    BY <1>1, <1>4, <1>5, <1>6 DEF n

\* What was read is the frame that is sent back.
LEMMA BytesOfPair ==
    ASSUME NEW h \in Seq(Byte), Len(h) = 2
    PROVE  h[1] \in Byte /\ h[2] \in Byte /\ h = <<h[1], h[2]>>
<1>1. \A i \in 1 .. Len(h) : h[i] \in Byte
    BY LenProperties
<1>2. h[1] \in Byte /\ h[2] \in Byte
    BY <1>1
<1>3. h = <<h[1], h[2]>>
    OBVIOUS
<1>4. QED
    BY <1>2, <1>3

LEMMA LengthOfHead ==
    ASSUME NEW h \in Seq(Byte), Len(h) = 2
    PROVE  /\ HeadValue(h) \in Int
           /\ HeadValue(h) >= 0 => HeadValue(h) = h[1] * Base + h[2]
<1> DEFINE n == h[1] * Base + h[2]
<1>1. n \in Nat /\ n < Base * Base /\ Base * Base \in Nat
    BY BytesOfPair, HeadOfLength, WireAssumption
<1>2. HeadValue(h) = IF 2 * n < Base * Base THEN n ELSE n - Base * Base
    BY DEF HeadValue
<1> DEFINE values == Base * Base
<1> HIDE DEF n, values
<1>3. n \in Nat /\ n < values /\ values \in Nat /\ HeadValue(h) = IF 2 * n < values THEN n ELSE n - values
    BY <1>1, <1>2 DEF n, values
<1>4. HeadValue(h) \in Int /\ (HeadValue(h) >= 0 => HeadValue(h) = n)
    BY <1>3
<1>5. QED
    BY <1>4 DEF n

LEMMA SameLength ==
    ASSUME NEW g, NEW h, g[1] = h[1], g[2] = h[2]
    PROVE  HeadValue(g) = HeadValue(h)
BY DEF HeadValue

LEMMA FrameIsRead ==
    ASSUME NEW h \in Seq(Byte), Len(h) = 2, NEW body \in Seq(Byte), HeadValue(h) = Len(body)
    PROVE  Frame(body) = h \o body
<1>1. h[1] \in Byte /\ h[2] \in Byte /\ h = <<h[1], h[2]>>
    BY BytesOfPair
<1>2. Len(body) = h[1] * Base + h[2]
    <2>1. Len(body) >= 0
        BY LenProperties
    <2>2. QED
        BY <2>1, LengthOfHead
<1>3. Len(body) \div Base = h[1] /\ Len(body) % Base = h[2]
    BY <1>1, <1>2, HeadOfLength
<1>4. QED
    BY <1>1, <1>3 DEF Frame

\* And the abstract service finds it again in what it has not read.
InFront(h, body, rest, all) ==
    /\ Len(all) >= 2 + Len(body)
    /\ HeadValue(SubSeq(all, 1, 2)) = Len(body)
    /\ SubSeq(all, 1, 2 + Len(body)) = h \o body
    /\ SubSeq(all, 2 + Len(body) + 1, Len(all)) = rest

LEMMA FrameInFront ==
    ASSUME NEW body \in Seq(Byte), NEW h \in Seq(Byte), Len(h) = 2, HeadValue(h) = Len(body),
           NEW rest \in Seq(Byte), NEW all, all = (h \o body) \o rest
    PROVE  InFront(h, body, rest, all)
<1>1. /\ h \o body \in Seq(Byte) /\ Len(h \o body) = 2 + Len(body) /\ Len(body) \in Nat /\ Len(rest) \in Nat
      /\ \A i \in 1 .. 2 : (h \o body)[i] = h[i]
    <2>1. Len(body) \in Nat /\ Len(rest) \in Nat
        BY LenProperties
    <2>2. /\ h \o body \in Seq(Byte) /\ Len(h \o body) = Len(h) + Len(body)
          /\ \A i \in 1 .. Len(h) + Len(body) : (h \o body)[i] = IF i <= Len(h) THEN h[i] ELSE body[i - Len(h)]
        BY Joined
    <2>3. QED
        BY <2>1, <2>2
<1> DEFINE front == h \o body
<1>2. /\ front \in Seq(Byte) /\ Len(front) = 2 + Len(body) /\ all = front \o rest
      /\ \A i \in 1 .. 2 : front[i] = h[i]
    BY <1>1 DEF front
<1> HIDE DEF front
<1>3. /\ all \in Seq(Byte) /\ Len(all) = Len(front) + Len(rest)
      /\ \A i \in 1 .. Len(front) + Len(rest) :
            all[i] = IF i <= Len(front) THEN front[i] ELSE rest[i - Len(front)]
    <2>1. /\ front \o rest \in Seq(Byte) /\ Len(front \o rest) = Len(front) + Len(rest)
          /\ \A i \in 1 .. Len(front) + Len(rest) :
                (front \o rest)[i] = IF i <= Len(front) THEN front[i] ELSE rest[i - Len(front)]
        BY <1>2, Joined
    <2>2. QED
        BY <1>2, <2>1
<1>4. SubSeq(all, 1, 2)[1] = h[1] /\ SubSeq(all, 1, 2)[2] = h[2]
    BY <1>1, <1>2, <1>3, Pieces
<1>5. SubSeq(all, 1, Len(front)) = front
    <2>1. /\ SubSeq(all, 1, Len(front)) \in Seq(Byte) /\ Len(SubSeq(all, 1, Len(front))) = Len(front)
          /\ \A i \in 1 .. Len(front) : SubSeq(all, 1, Len(front))[i] = all[i]
        BY <1>1, <1>2, <1>3, Pieces
    <2>2. QED
        BY <1>1, <1>2, <1>3, <2>1, SeqEqual
<1>6. SubSeq(all, Len(front) + 1, Len(all)) = rest
    <2>1. /\ SubSeq(all, Len(front) + 1, Len(all)) \in Seq(Byte)
          /\ Len(SubSeq(all, Len(front) + 1, Len(all))) = Len(rest)
          /\ \A i \in 1 .. Len(rest) : SubSeq(all, Len(front) + 1, Len(all))[i] = all[Len(front) + i]
        <3> DEFINE m == Len(front) + 1
                   n == Len(all)
        <3>1. /\ m \in 1 .. Len(all) + 1 /\ n \in m - 1 .. Len(all)
              /\ n - m + 1 = Len(rest) /\ \A i \in 1 .. Len(rest) : m + i - 1 = Len(front) + i
            BY <1>1, <1>2, <1>3
        <3> HIDE DEF m, n
        <3>2. /\ SubSeq(all, m, n) \in Seq(Byte) /\ Len(SubSeq(all, m, n)) = n - m + 1
              /\ \A i \in 1 .. n - m + 1 : SubSeq(all, m, n)[i] = all[m + i - 1]
            BY <1>3, <3>1, Pieces
        <3>3. QED
            BY <3>1, <3>2 DEF m, n
    <2>2. \A i \in 1 .. Len(rest) : all[Len(front) + i] = rest[i]
        BY <1>1, <1>2, <1>3
    <2> DEFINE back == SubSeq(all, Len(front) + 1, Len(all))
    <2> HIDE DEF back
    <2>3. back \in Seq(Byte) /\ Len(back) = Len(rest) /\ \A i \in 1 .. Len(rest) : back[i] = rest[i]
        BY <2>1, <2>2 DEF back
    <2>4. back = rest
        BY <2>3, SeqEqual
    <2>5. QED
        BY <2>4 DEF back
<1>7. QED
    <2>1. Len(all) >= 2 + Len(body) /\ Len(front) = 2 + Len(body)
        BY <1>1, <1>2, <1>3
    <2>2. HeadValue(SubSeq(all, 1, 2)) = Len(body)
        BY <1>4, SameLength
    <2>3. QED
        BY <1>5, <1>6, <2>1, <2>2 DEF InFront, front

\* The length that a stream begins with.
LEMMA HeadInFront ==
    ASSUME NEW h \in Seq(Byte), Len(h) = 2, NEW rest \in Seq(Byte)
    PROVE  /\ h \o rest \in Seq(Byte) /\ Len(h \o rest) = 2 + Len(rest)
           /\ HeadValue(SubSeq(h \o rest, 1, 2)) = HeadValue(h)
<1> DEFINE all == h \o rest
<1>1. Len(rest) \in Nat
    BY LenProperties
<1>2. /\ all \in Seq(Byte) /\ Len(all) = 2 + Len(rest)
      /\ \A i \in 1 .. 2 : all[i] = h[i]
    <2>1. /\ all \in Seq(Byte) /\ Len(all) = Len(h) + Len(rest)
          /\ \A i \in 1 .. Len(h) + Len(rest) : all[i] = IF i <= Len(h) THEN h[i] ELSE rest[i - Len(h)]
        BY Joined
    <2>2. QED
        BY <1>1, <2>1
<1> HIDE DEF all
<1>3. \A i \in 1 .. 2 : SubSeq(all, 1, 2)[i] = all[i]
    BY <1>1, <1>2, Pieces
<1>4. HeadValue(SubSeq(all, 1, 2)) = HeadValue(h)
    <2>1. SubSeq(all, 1, 2)[1] = h[1] /\ SubSeq(all, 1, 2)[2] = h[2]
        BY <1>2, <1>3
    <2>2. QED
        BY <2>1, SameLength
<1>5. QED
    BY <1>2, <1>4 DEF all
-----------------------------------------------------------------------------
(***************************************************************************)
(* The parser of boost/asyncServer, handler round by handler round.        *)
(***************************************************************************)
HeadInv ==
    /\ recvHeadNode \in [data : Seq(Byte), curLen : Nat, totalLen : Int]
    /\ Len(recvHeadNode.data) = HEAD_LENGTH
    /\ recvHeadNode.curLen < HEAD_LENGTH

\* Only the node of a length of -1 has less room than it says, and only a copy into
\* it goes on behind its array.
BodyInv ==
    /\ recvMsgNode \in [data : Seq(Byte), curLen : Nat, totalLen : Int]
    /\ recvMsgNode.totalLen \in -1 .. MaxLength
    /\ Len(recvMsgNode.data) = IF recvMsgNode.totalLen = -1 THEN 0 ELSE recvMsgNode.totalLen
    /\ IF state = "undefined"
       THEN recvMsgNode.totalLen = -1
       ELSE recvMsgNode.curLen <= Len(recvMsgNode.data)

\* The bytes of this call.
CallInv ==
    /\ data \in Seq(Byte) /\ copyLen \in Nat /\ left \in Nat
    /\ copyLen + left <= Len(data)
    /\ Len(data) <= MaxLength
    /\ state = "reading" => left = 0

\* With a head there is a node of its length, and some of the body is missing.
ParserInv ==
    /\ bHeadParse \in BOOLEAN
    /\ HeadInv /\ BodyInv /\ CallInv
    /\ bHeadParse =>
          /\ HeadValue(recvHeadNode.data) = recvMsgNode.totalLen
          /\ recvMsgNode.totalLen = -1 \/ recvMsgNode.curLen < recvMsgNode.totalLen

InHand == Held \o Rest

\* What a round does with the bytes: it keeps them, sends a message back, or stores
\* them where there is no room.
KeepsAll == InHand' = InHand /\ sent' = sent

SendsFrame ==
    \E h \in Seq(Byte), body \in Seq(Byte) :
        /\ Len(h) = 2 /\ HeadValue(h) = Len(body) /\ Len(body) <= MaxLength
        /\ InHand' \in Seq(Byte)
        /\ InHand = (h \o body) \o InHand'
        /\ sent' = sent \o Frame(body)

Overruns ==
    \E h \in Seq(Byte), rest \in Seq(Byte) :
        /\ Len(h) = 2 /\ HeadValue(h) = -1 /\ Len(rest) > 0
        /\ InHand = h \o rest
        /\ state' = "undefined" /\ sent' = sent

LEMMA HeldTypes ==
    ASSUME ParserInv, state # "undefined"
    PROVE  /\ Held \in Seq(Byte) /\ Rest \in Seq(Byte) /\ Len(Rest) = left
           /\ left = 0 => Rest = <<>>
           /\ InHand \in Seq(Byte)
<1>1. /\ recvHeadNode.data \in Seq(Byte) /\ recvHeadNode.curLen \in 0 .. Len(recvHeadNode.data)
      /\ recvMsgNode.data \in Seq(Byte) /\ recvMsgNode.curLen \in 0 .. Len(recvMsgNode.data)
      /\ data \in Seq(Byte) /\ copyLen \in Nat /\ left \in Nat /\ copyLen + left <= Len(data)
    BY LenProperties DEF ParserInv, HeadInv, BodyInv, CallInv, HEAD_LENGTH
<1>2. SubSeq(recvHeadNode.data, 1, recvHeadNode.curLen) \in Seq(Byte)
    BY <1>1, LenProperties, Pieces
<1>3. SubSeq(recvMsgNode.data, 1, recvMsgNode.curLen) \in Seq(Byte)
    BY <1>1, LenProperties, Pieces
<1>4. Held \in Seq(Byte)
    BY <1>1, <1>2, <1>3, Joined DEF Held
<1>5. /\ copyLen + 1 \in 1 .. Len(data) + 1 /\ copyLen + left \in (copyLen + 1) - 1 .. Len(data)
      /\ (copyLen + left) - (copyLen + 1) + 1 = left
    BY <1>1, LenProperties
<1>6. Rest \in Seq(Byte) /\ Len(Rest) = left
    BY <1>1, <1>5, Pieces DEF Rest
<1>7. left = 0 => Rest = <<>>
    BY <1>1, SubSeqEmpty DEF Rest
<1>8. QED
    BY <1>4, <1>6, <1>7, Joined DEF InHand

\* Between two calls nothing is left of the last one.
LEMMA NothingLeft ==
    ASSUME data' = <<>>, copyLen' = 0, left' = 0, Held' \in Seq(Byte)
    PROVE  InHand' = Held'
<1>1. Rest' = <<>>
    BY SubSeqEmpty DEF Rest
<1>2. QED
    BY <1>1, ConcatEmptySeq DEF InHand

LEMMA CallOver ==
    ASSUME data' = <<>>, copyLen' = 0, left' = 0
    PROVE  CallInv'
BY WireAssumption DEF CallInv

LEMMA HeadPartKeeps ==
    ASSUME ParserInv, HeadPart
    PROVE  ParserInv' /\ KeepsAll
<1> DEFINE d == recvHeadNode.data
           c == recvHeadNode.curLen
<1>1. /\ d \in Seq(Byte) /\ Len(d) = 2 /\ c \in Nat
      /\ data \in Seq(Byte) /\ copyLen \in Nat /\ left \in Nat /\ copyLen + left <= Len(data)
      /\ c + left < 2 /\ recvHeadNode.totalLen \in Int
      /\ bHeadParse = FALSE /\ bHeadParse' = FALSE /\ state = "parsing" /\ state' = "reading"
    BY DEF ReadSome, ParserInv, HeadInv, CallInv, HeadPart, HEAD_LENGTH
<1>2. Copy(recvHeadNode, left) = Filled(d, c, left, data, copyLen)
    BY DEF Copy, Filled
<1> HIDE DEF d, c
<1>3. recvHeadNode' = [data |-> Filled(d, c, left, data, copyLen), curLen |-> c + left,
                       totalLen |-> recvHeadNode.totalLen]
    BY <1>2 DEF HeadPart, c, ParserInv, HeadInv
<1>4. /\ Filled(d, c, left, data, copyLen) \in Seq(Byte)
      /\ Len(Filled(d, c, left, data, copyLen)) = 2
      /\ SubSeq(Filled(d, c, left, data, copyLen), 1, c + left)
            = SubSeq(d, 1, c) \o SubSeq(data, copyLen + 1, copyLen + left)
    <2>1. Fits(d, c, left, data, copyLen)
        BY <1>1 DEF Fits
    <2>2. Copies(d, c, left, data, copyLen, Filled(d, c, left, data, copyLen))
        BY <2>1, FilledIsCopied
    <2>3. QED
        BY <1>1, <2>2 DEF Copies
<1>5. data' = <<>> /\ copyLen' = 0 /\ left' = 0 /\ UNCHANGED <<recvMsgNode, sent>>
    BY DEF HeadPart, ReadSome
<1>6. HeadInv'
    BY <1>1, <1>3, <1>4 DEF HeadInv, HEAD_LENGTH
<1>7. ParserInv'
    BY <1>1, <1>5, <1>6, CallOver DEF ParserInv, BodyInv
<1>8. Held' = Held \o Rest
    <2>1. Held = SubSeq(d, 1, c)
        BY <1>1 DEF Held, d, c
    <2>2. Held' = SubSeq(recvHeadNode'.data, 1, recvHeadNode'.curLen)
        BY <1>1 DEF Held
    <2>3. QED
        BY <1>3, <1>4, <2>1, <2>2 DEF Rest
<1>9. QED
    BY <1>1, <1>5, <1>7, <1>8, HeldTypes, NothingLeft DEF KeepsAll, InHand

\* The head that a round completes, and what follows it in this call.
After(n) == SubSeq(data, copyLen + n + 1, copyLen + left)

LEMMA RestSplits ==
    ASSUME ParserInv, NEW n \in 0 .. left
    PROVE  /\ Rest = SubSeq(data, copyLen + 1, copyLen + n) \o After(n)
           /\ SubSeq(data, copyLen + 1, copyLen + n) \in Seq(Byte)
           /\ After(n) \in Seq(Byte)
<1>1. data \in Seq(Byte) /\ copyLen \in Nat /\ left \in Nat /\ copyLen + left <= Len(data) /\ Len(data) \in Nat
    BY LenProperties DEF ParserInv, CallInv
<1>2. /\ copyLen + 1 \in 1 .. Len(data) + 1
      /\ copyLen + n \in (copyLen + 1) - 1 .. Len(data)
      /\ copyLen + left \in copyLen + n .. Len(data)
      /\ copyLen + n + 1 \in 1 .. Len(data) + 1
      /\ copyLen + left \in (copyLen + n + 1) - 1 .. Len(data)
    BY <1>1
<1>3. SubSeq(data, copyLen + 1, copyLen + n) \o SubSeq(data, (copyLen + n) + 1, copyLen + left)
         = SubSeq(data, copyLen + 1, copyLen + left)
    BY <1>1, <1>2, ConcatAdjacentSubSeq
<1>4. QED
    BY <1>1, <1>2, <1>3, Pieces DEF Rest, After

LEMMA WholeHead ==
    ASSUME ParserInv, HeadComplete
    PROVE  /\ headRemain \in 1 .. 2 /\ headRemain <= left
           /\ wholeHead \in Seq(Byte) /\ Len(wholeHead) = 2 /\ dataLen \in Int
           /\ InHand = wholeHead \o After(headRemain) /\ After(headRemain) \in Seq(Byte)
           /\ Len(After(headRemain)) = left - headRemain
<1> DEFINE d == recvHeadNode.data
           c == recvHeadNode.curLen
           e == Filled(d, c, headRemain, data, copyLen)
<1>1. /\ d \in Seq(Byte) /\ Len(d) = 2 /\ c \in Nat /\ c < 2
      /\ data \in Seq(Byte) /\ copyLen \in Nat /\ left \in Nat /\ copyLen + left <= Len(data)
      /\ c + left >= 2
      /\ bHeadParse = FALSE /\ state = "parsing"
    BY DEF ParserInv, HeadInv, CallInv, HeadComplete, HEAD_LENGTH
<1>2. headRemain \in 1 .. 2 /\ headRemain <= left /\ c + headRemain = 2
    BY <1>1 DEF headRemain, HEAD_LENGTH
<1>3. wholeHead = e
    BY DEF wholeHead, Copy, Filled
<1> HIDE DEF d, c, e
<1>4. e \in Seq(Byte) /\ Len(e) = 2
      /\ SubSeq(e, 1, c + headRemain) = SubSeq(d, 1, c) \o SubSeq(data, copyLen + 1, copyLen + headRemain)
    <2>1. c + headRemain <= Len(d) /\ copyLen + headRemain <= Len(data) /\ headRemain \in Nat
        BY <1>1, <1>2
    <2>2. Fits(d, c, headRemain, data, copyLen)
        BY <1>1, <2>1 DEF Fits
    <2>3. Copies(d, c, headRemain, data, copyLen, e)
        BY <2>2, FilledIsCopied DEF e
    <2>4. QED
        BY <1>1, <2>3 DEF Copies
<1>5. e = SubSeq(d, 1, c) \o SubSeq(data, copyLen + 1, copyLen + headRemain)
    <2>1. SubSeq(e, 1, Len(e)) = e
        BY <1>4, SubSeqFull
    <2>2. QED
        BY <1>2, <1>4, <2>1
<1>6. Held = SubSeq(d, 1, c) /\ SubSeq(d, 1, c) \in Seq(Byte)
    BY <1>1, HeldTypes DEF Held, d, c
<1>7. /\ Rest = SubSeq(data, copyLen + 1, copyLen + headRemain) \o After(headRemain)
      /\ SubSeq(data, copyLen + 1, copyLen + headRemain) \in Seq(Byte) /\ After(headRemain) \in Seq(Byte)
    <2>1. headRemain \in 0 .. left
        BY <1>1, <1>2
    <2>2. QED
        BY <2>1, RestSplits
<1>8. InHand = e \o After(headRemain)
    <2>1. Grouped(SubSeq(d, 1, c), SubSeq(data, copyLen + 1, copyLen + headRemain), After(headRemain))
        BY <1>6, <1>7, Regrouped
    <2>2. QED
        BY <1>5, <1>6, <1>7, <2>1 DEF InHand, Grouped
<1>9. dataLen \in Int
    BY <1>3, <1>4, LengthOfHead DEF dataLen
<1>10. Len(After(headRemain)) = left - headRemain
    <2>1. /\ copyLen + headRemain + 1 \in 1 .. Len(data) + 1
          /\ copyLen + left \in (copyLen + headRemain + 1) - 1 .. Len(data)
          /\ (copyLen + left) - (copyLen + headRemain + 1) + 1 = left - headRemain
        BY <1>1, <1>2, LenProperties
    <2>2. QED
        BY <1>1, <2>1, Pieces DEF After
<1>11. QED
    BY <1>2, <1>3, <1>4, <1>7, <1>8, <1>9, <1>10

LEMMA HeadThenPartKeeps ==
    ASSUME ParserInv, HeadThenPart
    PROVE  ParserInv' /\ ((KeepsAll /\ state' = "reading") \/ Overruns)
<1> DEFINE m == left - headRemain
           k == copyLen + headRemain
           b == Begun(dataLen, m, data, k)
           room == IF dataLen = -1 THEN 0 ELSE dataLen
<1>1. HeadComplete /\ dataLen <= MaxLength /\ SizeLess(m, dataLen) /\ ~Throws(dataLen)
    BY DEF HeadThenPart
<1>2. /\ headRemain \in 1 .. 2 /\ headRemain <= left /\ dataLen \in Int
      /\ wholeHead \in Seq(Byte) /\ Len(wholeHead) = 2
      /\ InHand = wholeHead \o After(headRemain)
      /\ After(headRemain) \in Seq(Byte) /\ Len(After(headRemain)) = m
    BY <1>1, WholeHead
<1>3. /\ data \in Seq(Byte) /\ copyLen \in Nat /\ left \in Nat /\ copyLen + left <= Len(data)
      /\ recvHeadNode \in [data : Seq(Byte), curLen : Nat, totalLen : Int] /\ recvHeadNode.curLen < 2
      /\ MaxLength \in Nat
    BY WireAssumption DEF ParserInv, HeadInv, CallInv, HEAD_LENGTH
<1>4. m \in Nat /\ k \in Nat /\ k + m = copyLen + left /\ k + m <= Len(data)
    BY <1>2, <1>3
<1>5. dataLen = -1 \/ (dataLen \in Nat /\ m < dataLen)
    BY <1>1, <1>2, <1>4 DEF SizeLess, Throws
<1> HIDE DEF m, k
<1>6. /\ b \in Seq(Byte) /\ Len(b) = room
      /\ m <= room => SubSeq(b, 1, m) = SubSeq(data, k + 1, k + m)
    <2>1. CASE dataLen = -1
        <3>1. b \in Seq(Byte) /\ Len(b) = 0
            BY <2>1, NoRoom
        <3>2. ASSUME m <= 0
              PROVE  SubSeq(b, 1, m) = <<>> /\ SubSeq(data, k + 1, k + m) = <<>>
            BY <1>3, <1>4, <3>1, <3>2, SubSeqEmpty
        <3>3. QED
            BY <2>1, <3>1, <3>2
    <2>2. CASE dataLen \in Nat /\ m < dataLen
        <3>1. Begins(dataLen, m, data, k, b)
            BY <1>3, <1>4, <2>2, BegunIsCopied
        <3>2. /\ b \in Seq(Byte) /\ Len(b) = dataLen
              /\ SubSeq(b, 1, m) = SubSeq(data, k + 1, k + m)
            BY <3>1 DEF Begins
        <3>3. room = dataLen
            BY <2>2
        <3>4. QED
            BY <3>2, <3>3
    <2>3. QED
        BY <1>5, <2>1, <2>2
<1>7. /\ recvHeadNode' = [recvHeadNode EXCEPT !.data = wholeHead]
      /\ recvMsgNode' = [data |-> b, curLen |-> m, totalLen |-> dataLen]
      /\ bHeadParse' = TRUE
      /\ data' = <<>> /\ copyLen' = 0 /\ left' = 0 /\ UNCHANGED sent
    BY DEF HeadThenPart, ReadSomeMore, Begun, m, k
<1> HIDE DEF b
<1>8. state' = IF m <= room THEN "reading" ELSE "undefined"
    <2>1. recvMsgNode'.data = b /\ recvMsgNode'.curLen = m
        BY <1>7
    <2>2. state' = IF recvMsgNode'.curLen <= Len(recvMsgNode'.data) THEN "reading" ELSE "undefined"
        BY DEF HeadThenPart, ReadSomeMore
    <2>3. QED
        BY <1>6, <2>1, <2>2
<1>9. /\ recvHeadNode'.data = wholeHead /\ recvHeadNode'.curLen = recvHeadNode.curLen
      /\ recvHeadNode' \in [data : Seq(Byte), curLen : Nat, totalLen : Int]
    BY <1>2, <1>3, <1>7
<1>10. HeadInv'
    BY <1>2, <1>3, <1>9 DEF HeadInv, HEAD_LENGTH
<1>11. BodyInv'
    <2>1. /\ recvMsgNode'.data = b /\ recvMsgNode'.curLen = m /\ recvMsgNode'.totalLen = dataLen
          /\ recvMsgNode' \in [data : Seq(Byte), curLen : Nat, totalLen : Int]
        BY <1>2, <1>4, <1>6, <1>7
    <2>2. dataLen \in -1 .. MaxLength /\ (m <= room \/ dataLen = -1)
        BY <1>1, <1>2, <1>3, <1>4, <1>5
    <2>3. QED
        BY <1>6, <1>8, <2>1, <2>2 DEF BodyInv
<1>12. ParserInv'
    <2>1. HeadValue(wholeHead) = dataLen
        BY DEF dataLen
    <2>2. CallInv'
        BY <1>7, CallOver
    <2>3. QED
        BY <1>5, <1>7, <1>9, <1>10, <1>11, <2>1, <2>2 DEF ParserInv
<1>13. CASE m <= room
    <2>1. Held' = recvHeadNode'.data \o SubSeq(recvMsgNode'.data, 1, recvMsgNode'.curLen)
        BY <1>7 DEF Held
    <2>2. After(headRemain) = SubSeq(data, k + 1, k + m)
        BY <1>4 DEF After, k
    <2>3. Held' = wholeHead \o After(headRemain)
        BY <1>6, <1>7, <1>9, <1>13, <2>1, <2>2
    <2>4. Held' \in Seq(Byte)
        BY <1>2, <2>3, Joined
    <2>5. KeepsAll
        BY <1>2, <1>7, <2>3, <2>4, NothingLeft DEF KeepsAll
    <2>6. QED
        BY <1>8, <1>12, <1>13, <2>5
<1>14. CASE ~(m <= room)
    <2>1. dataLen = -1 /\ Len(After(headRemain)) > 0
        BY <1>2, <1>4, <1>5, <1>14
    <2>2. HeadValue(wholeHead) = -1 /\ state' = "undefined"
        BY <1>8, <1>14, <2>1 DEF dataLen
    <2>3. Overruns
        BY <1>2, <1>7, <2>1, <2>2 DEF Overruns
    <2>4. QED
        BY <1>12, <2>3
<1>15. QED
    BY <1>13, <1>14

\* After a message the head is empty again and the rest of the call is in hand.
LEMMA NextMessageLeaves ==
    ASSUME ParserInv, state = "parsing", NEW used \in 0 .. left, NextMessage(used)
    PROVE  /\ bHeadParse' = FALSE /\ HeadInv' /\ CallInv'
           /\ InHand' = After(used) /\ InHand' \in Seq(Byte)
           /\ state' \in {"reading", "parsing"}
<1>1. /\ data \in Seq(Byte) /\ copyLen \in Nat /\ left \in Nat /\ copyLen + left <= Len(data)
      /\ Len(data) <= MaxLength
    BY DEF ParserInv, CallInv
<1>2. bHeadParse' = FALSE /\ recvHeadNode' = EmptyNode(2)
    BY DEF NextMessage, HEAD_LENGTH
<1>3. /\ recvHeadNode' \in [data : Seq(Byte), curLen : Nat, totalLen : Int]
      /\ Len(recvHeadNode'.data) = 2 /\ recvHeadNode'.curLen = 0
    <2>1. [i \in 1 .. 2 |-> 0] \in Seq(Byte) /\ Len([i \in 1 .. 2 |-> 0]) = 2
        BY ZeroIsByte
    <2>2. QED
        BY <1>2, <2>1 DEF EmptyNode
<1>4. HeadInv'
    BY <1>3 DEF HeadInv, HEAD_LENGTH
<1>5. Held' = <<>>
    BY <1>2, <1>3, SubSeqEmpty DEF Held
<1>6. After(used) \in Seq(Byte)
    BY RestSplits
<1>7. CASE left = used
    <2>1. data' = <<>> /\ copyLen' = 0 /\ left' = 0
        BY <1>7 DEF NextMessage, ReadSome
    <2>2. After(used) = <<>>
        BY <1>1, <1>7, SubSeqEmpty DEF After
    <2>3. <<>> \in Seq(Byte)
        BY EmptySeq
    <2>4. QED
        BY <1>2, <1>4, <1>5, <1>7, <2>1, <2>2, <2>3, CallOver, NothingLeft DEF NextMessage, ReadSome
<1>8. CASE left # used
    <2>1. copyLen' = copyLen + used /\ left' = left - used /\ data' = data /\ state' = state
        BY <1>8 DEF NextMessage
    <2>2. CallInv'
        BY <1>1, <2>1 DEF CallInv
    <2>3. Rest' = After(used)
        <3>1. copyLen' + left' = copyLen + left
            BY <1>1, <2>1
        <3>2. QED
            BY <2>1, <3>1 DEF Rest, After
    <2>4. QED
        <3>1. InHand' = After(used) /\ InHand' \in Seq(Byte)
            BY <1>5, <1>6, <2>3, ConcatEmptySeq DEF InHand
        <3>2. state' \in {"reading", "parsing"}
            BY <2>1
        <3>3. QED
            BY <1>2, <1>4, <2>2, <3>1, <3>2
<1>9. QED
    BY <1>7, <1>8

LEMMA HeadThenWholeSends ==
    ASSUME ParserInv, HeadThenWhole
    PROVE  ParserInv' /\ SendsFrame /\ state' \in {"reading", "parsing"}
<1> DEFINE k == copyLen + headRemain
           body == SubSeq(data, copyLen + headRemain + 1, copyLen + headRemain + dataLen)
           used == headRemain + dataLen
<1>1. HeadComplete /\ dataLen <= MaxLength /\ ~SizeLess(left - headRemain, dataLen) /\ state = "parsing"
    BY DEF HeadThenWhole, HeadComplete
<1>2. /\ headRemain \in 1 .. 2 /\ headRemain <= left /\ dataLen \in Nat /\ left - headRemain >= dataLen
      /\ wholeHead \in Seq(Byte) /\ Len(wholeHead) = 2
      /\ InHand = wholeHead \o After(headRemain)
    <2>1. left \in Nat
        BY DEF ParserInv, CallInv
    <2>2. QED
        BY <1>1, <2>1, WholeHead DEF SizeLess
<1>3. /\ data \in Seq(Byte) /\ copyLen \in Nat /\ left \in Nat /\ copyLen + left <= Len(data)
      /\ Len(data) \in Nat /\ MaxLength \in Nat
    BY WireAssumption, LenProperties DEF ParserInv, CallInv
<1>4. used \in 0 .. left
    BY <1>1, <1>2, <1>3
<1>5. /\ bHeadParse' = FALSE /\ HeadInv' /\ CallInv' /\ state' \in {"reading", "parsing"}
      /\ InHand' = After(used) /\ InHand' \in Seq(Byte)
    BY <1>1, <1>4, NextMessageLeaves DEF HeadThenWhole
<1>6. body \in Seq(Byte) /\ Len(body) = dataLen
    <2>1. /\ copyLen + headRemain + 1 \in 1 .. Len(data) + 1
          /\ copyLen + headRemain + dataLen \in (copyLen + headRemain + 1) - 1 .. Len(data)
          /\ (copyLen + headRemain + dataLen) - (copyLen + headRemain + 1) + 1 = dataLen
        BY <1>1, <1>2, <1>3
    <2>2. QED
        BY <1>3, <2>1, Pieces
<1>7. recvMsgNode' = [data |-> body, curLen |-> dataLen, totalLen |-> dataLen] /\ sent' = sent \o Frame(body)
    BY DEF HeadThenWhole
<1>8. After(headRemain) = body \o After(used)
    <2>1. /\ copyLen + headRemain + 1 \in 1 .. Len(data) + 1
          /\ copyLen + headRemain + dataLen \in (copyLen + headRemain + 1) - 1 .. Len(data)
          /\ copyLen + left \in copyLen + headRemain + dataLen .. Len(data)
        BY <1>1, <1>2, <1>3
    <2>2. SubSeq(data, copyLen + headRemain + 1, copyLen + headRemain + dataLen)
            \o SubSeq(data, (copyLen + headRemain + dataLen) + 1, copyLen + left)
              = SubSeq(data, copyLen + headRemain + 1, copyLen + left)
        BY <1>3, <2>1, ConcatAdjacentSubSeq
    <2>3. copyLen + used + 1 = (copyLen + headRemain + dataLen) + 1
        BY <1>2, <1>3
    <2>4. QED
        BY <2>2, <2>3 DEF After
<1> HIDE DEF body, used
<1>9. BodyInv'
    BY <1>1, <1>2, <1>3, <1>5, <1>6, <1>7 DEF BodyInv
<1>10. ParserInv'
    BY <1>5, <1>9 DEF ParserInv
<1>11. InHand = (wholeHead \o body) \o InHand'
    <2>1. Grouped(wholeHead, body, After(used))
        BY <1>2, <1>5, <1>6, Regrouped
    <2>2. QED
        BY <1>2, <1>5, <1>8, <2>1 DEF Grouped
<1>12. HeadValue(wholeHead) = Len(body)
    BY <1>6 DEF dataLen
<1>13. QED
    BY <1>1, <1>2, <1>5, <1>6, <1>7, <1>10, <1>11, <1>12 DEF SendsFrame

\* The node of a message that goes on.
LEMMA BodyUnderWay ==
    ASSUME ParserInv, state = "parsing", bHeadParse
    PROVE  /\ recvMsgNode.data \in Seq(Byte) /\ recvMsgNode.curLen \in Nat /\ recvMsgNode.totalLen \in Int
           /\ recvMsgNode.totalLen <= MaxLength
           /\ \/ /\ recvMsgNode.totalLen = -1 /\ Len(recvMsgNode.data) = 0 /\ recvMsgNode.curLen = 0
              \/ /\ recvMsgNode.totalLen \in Nat /\ Len(recvMsgNode.data) = recvMsgNode.totalLen
                 /\ recvMsgNode.curLen < recvMsgNode.totalLen
           /\ recvHeadNode.data \in Seq(Byte) /\ Len(recvHeadNode.data) = 2
           /\ HeadValue(recvHeadNode.data) = recvMsgNode.totalLen
           /\ data \in Seq(Byte) /\ copyLen \in Nat /\ left \in Nat /\ copyLen + left <= Len(data)
BY WireAssumption DEF ParserInv, HeadInv, BodyInv, CallInv, HEAD_LENGTH

\* A body that goes on in a node of its length.
LEMMA BodyPartFits ==
    ASSUME ParserInv, BodyPart, recvMsgNode.totalLen \in Nat
    PROVE  ParserInv' /\ KeepsAll /\ state' = "reading"
<1> DEFINE d == recvMsgNode.data
           c == recvMsgNode.curLen
           t == recvMsgNode.totalLen
           e == Filled(d, c, left, data, copyLen)
<1>1. /\ d \in Seq(Byte) /\ c \in Nat /\ t \in Nat /\ Len(d) = t /\ t <= MaxLength
      /\ data \in Seq(Byte) /\ copyLen \in Nat /\ left \in Nat /\ copyLen + left <= Len(data)
      /\ c + left < t
      /\ bHeadParse = TRUE /\ bHeadParse' = TRUE /\ state = "parsing"
      /\ HeadValue(recvHeadNode.data) = t
      /\ recvHeadNode.data \in Seq(Byte)
    <2>1. bHeadParse = TRUE /\ bHeadParse' = TRUE /\ state = "parsing"
        BY DEF BodyPart, ParserInv
    <2>2. /\ d \in Seq(Byte) /\ c \in Nat /\ t \in Nat /\ Len(d) = t /\ t <= MaxLength /\ c < t
          /\ data \in Seq(Byte) /\ copyLen \in Nat /\ left \in Nat /\ copyLen + left <= Len(data)
          /\ HeadValue(recvHeadNode.data) = t
          /\ recvHeadNode.data \in Seq(Byte)
        BY <2>1, BodyUnderWay
    <2>3. c + left < t
        BY <2>2 DEF BodyPart, remainMsg, SizeLess
    <2>4. QED
        BY <2>1, <2>2, <2>3
<1>2. recvMsgNode' = [data |-> e, curLen |-> c + left, totalLen |-> t]
    BY DEF BodyPart, Copy, Filled, ParserInv, BodyInv
<1>3. Held = recvHeadNode.data \o SubSeq(d, 1, c)
    BY <1>1 DEF Held
<1> HIDE DEF d, c, t, e
<1>4. /\ e \in Seq(Byte) /\ Len(e) = Len(d)
      /\ SubSeq(e, 1, c + left) = SubSeq(d, 1, c) \o SubSeq(data, copyLen + 1, copyLen + left)
    <2>1. Fits(d, c, left, data, copyLen)
        BY <1>1 DEF Fits
    <2>2. Copies(d, c, left, data, copyLen, e)
        BY <2>1, FilledIsCopied DEF e
    <2>3. QED
        BY <2>2 DEF Copies
<1>5. data' = <<>> /\ copyLen' = 0 /\ left' = 0 /\ state' = "reading" /\ UNCHANGED <<recvHeadNode, sent>>
    <2>1. recvMsgNode'.data = e /\ recvMsgNode'.curLen = c + left
        BY <1>2
    <2>2. /\ data' = <<>> /\ copyLen' = 0 /\ left' = 0 /\ UNCHANGED <<recvHeadNode, sent>>
          /\ state' = IF recvMsgNode'.curLen <= Len(recvMsgNode'.data) THEN "reading" ELSE "undefined"
        BY DEF BodyPart, ReadSomeMore
    <2>3. QED
        BY <1>1, <1>4, <2>1, <2>2
<1>6. BodyInv'
    BY <1>1, <1>2, <1>4, <1>5 DEF BodyInv
<1>7. ParserInv'
    BY <1>1, <1>2, <1>4, <1>5, <1>6, CallOver DEF ParserInv, HeadInv
<1>8. Held' = Held \o Rest
    <2>1. Held' = recvHeadNode.data \o SubSeq(e, 1, c + left)
        BY <1>1, <1>2, <1>5 DEF Held
    <2>2. SubSeq(d, 1, c) \in Seq(Byte) /\ Rest \in Seq(Byte)
        <3>1. c \in 0 .. Len(d)
            BY <1>1
        <3>2. QED
            BY <1>1, <3>1, HeldTypes, Pieces
    <2>3. QED
        <3>1. Grouped(recvHeadNode.data, SubSeq(d, 1, c), Rest)
            BY <1>1, <2>2, Regrouped
        <3>2. SubSeq(e, 1, c + left) = SubSeq(d, 1, c) \o Rest
            BY <1>4 DEF Rest
        <3>3. QED
            BY <1>3, <2>1, <3>1, <3>2 DEF Grouped
<1>9. QED
    BY <1>1, <1>5, <1>7, <1>8, HeldTypes, NothingLeft DEF KeepsAll, InHand

\* The node of a length of -1 has room for nothing.
LEMMA BodyPartOverruns ==
    ASSUME ParserInv, BodyPart, recvMsgNode.totalLen = -1
    PROVE  ParserInv' /\ ((KeepsAll /\ state' = "reading") \/ Overruns)
<1> DEFINE d == recvMsgNode.data
           h == recvHeadNode.data
           e == Filled(d, 0, left, data, copyLen)
<1>1. /\ d \in Seq(Byte) /\ Len(d) = 0 /\ recvMsgNode.curLen = 0
      /\ data \in Seq(Byte) /\ copyLen \in Nat /\ left \in Nat /\ copyLen + left <= Len(data)
      /\ bHeadParse = TRUE /\ bHeadParse' = TRUE /\ state = "parsing"
      /\ HeadValue(h) = -1
      /\ h \in Seq(Byte) /\ Len(h) = 2
    <2>1. bHeadParse = TRUE /\ bHeadParse' = TRUE /\ state = "parsing"
        BY DEF BodyPart, ParserInv
    <2>2. QED
        BY <2>1, BodyUnderWay
<1>2. recvMsgNode' = [data |-> e, curLen |-> left, totalLen |-> -1]
    <2>1. recvMsgNode' = [data |-> Filled(d, recvMsgNode.curLen, left, data, copyLen),
                          curLen |-> recvMsgNode.curLen + left, totalLen |-> recvMsgNode.totalLen]
        BY DEF BodyPart, Copy, Filled, ParserInv, BodyInv
    <2>2. 0 + left = left
        BY <1>1
    <2> HIDE DEF d
    <2>3. QED
        BY <1>1, <2>1, <2>2
<1>3. e \in Seq(Byte) /\ Len(e) = 0
    <2>1. DOMAIN d = 1 .. 0
        BY <1>1
    <2>2. e \in [1 .. 0 -> Byte]
        BY <2>1 DEF Filled
    <2>3. QED
        BY <2>2
<1> HIDE DEF e
<1>4. /\ data' = <<>> /\ copyLen' = 0 /\ left' = 0 /\ UNCHANGED <<recvHeadNode, sent>>
      /\ state' = IF left <= 0 THEN "reading" ELSE "undefined"
    <2>1. recvMsgNode'.data = e /\ recvMsgNode'.curLen = left
        BY <1>2
    <2>2. /\ data' = <<>> /\ copyLen' = 0 /\ left' = 0 /\ UNCHANGED <<recvHeadNode, sent>>
          /\ state' = IF recvMsgNode'.curLen <= Len(recvMsgNode'.data) THEN "reading" ELSE "undefined"
        BY DEF BodyPart, ReadSomeMore
    <2>3. QED
        BY <1>3, <2>1, <2>2
<1>5. BodyInv'
    BY <1>1, <1>2, <1>3, <1>4, WireAssumption DEF BodyInv
<1>6. ParserInv'
    BY <1>1, <1>2, <1>4, <1>5, CallOver DEF ParserInv, HeadInv
<1>7. Held = h /\ Rest \in Seq(Byte) /\ Len(Rest) = left /\ (left = 0 => Rest = <<>>)
    <2>1. SubSeq(d, 1, 0) = <<>>
        BY <1>1, SubSeqEmpty
    <2>2. QED
        BY <1>1, <2>1, HeldTypes, ConcatEmptySeq DEF Held
<1>8. CASE left = 0
    <2>1. SubSeq(e, 1, 0) = <<>>
        BY <1>3, SubSeqEmpty
    <2>2. Held' = h
        BY <1>1, <1>2, <1>4, <1>8, <2>1, ConcatEmptySeq DEF Held
    <2>3. InHand' = h /\ InHand = h
        BY <1>1, <1>4, <1>7, <1>8, <2>2, NothingLeft, ConcatEmptySeq DEF InHand
    <2>4. QED
        BY <1>4, <1>6, <1>8, <2>3 DEF KeepsAll
<1>9. CASE left # 0
    <2>1. state' = "undefined" /\ sent' = sent /\ Len(Rest) > 0 /\ InHand = h \o Rest
        BY <1>1, <1>4, <1>7, <1>9 DEF InHand
    <2>2. Overruns
        BY <1>1, <1>7, <2>1 DEF Overruns
    <2>3. QED
        BY <1>6, <2>2
<1>10. QED
    BY <1>8, <1>9

LEMMA BodyWholeSends ==
    ASSUME ParserInv, BodyWhole
    PROVE  ParserInv' /\ SendsFrame /\ state' \in {"reading", "parsing"}
<1> DEFINE d == recvMsgNode.data
           c == recvMsgNode.curLen
           t == recvMsgNode.totalLen
           h == recvHeadNode.data
           body == Filled(d, c, remainMsg, data, copyLen)
<1>1. /\ d \in Seq(Byte) /\ c \in Nat /\ t \in Nat /\ Len(d) = t /\ t <= MaxLength /\ c < t
      /\ data \in Seq(Byte) /\ copyLen \in Nat /\ left \in Nat /\ copyLen + left <= Len(data)
      /\ bHeadParse = TRUE /\ state = "parsing"
      /\ HeadValue(h) = t
      /\ h \in Seq(Byte) /\ Len(h) = 2
    <2>1. bHeadParse = TRUE /\ state = "parsing"
        BY DEF BodyWhole, ParserInv
    <2>2. t # -1
        <3>1. ASSUME t = -1
              PROVE  remainMsg < 0
            BY <2>1, <3>1, BodyUnderWay DEF remainMsg
        <3>2. QED
            BY <3>1 DEF BodyWhole, SizeLess
    <2>3. QED
        BY <2>1, <2>2, BodyUnderWay
<1>2. remainMsg \in 0 .. left /\ c + remainMsg = Len(d) /\ copyLen + remainMsg <= Len(data)
    <2>1. remainMsg = t - c /\ ~SizeLess(left, remainMsg) /\ Len(data) \in Nat
        BY <1>1, LenProperties DEF BodyWhole, remainMsg
    <2>2. QED
        BY <1>1, <2>1, SMTT(30) DEF SizeLess
<1>3. /\ recvMsgNode' = [data |-> body, curLen |-> c + remainMsg, totalLen |-> t]
      /\ sent' = sent \o Frame(body)
    BY DEF BodyWhole, Copy, Filled, ParserInv, BodyInv
<1>4. Held = h \o SubSeq(d, 1, c)
    BY <1>1 DEF Held
<1> HIDE DEF d, c, t, h, body
<1>5. /\ bHeadParse' = FALSE /\ HeadInv' /\ CallInv' /\ state' \in {"reading", "parsing"}
      /\ InHand' = After(remainMsg) /\ InHand' \in Seq(Byte)
    BY <1>1, <1>2, NextMessageLeaves DEF BodyWhole
<1>6. /\ body \in Seq(Byte) /\ Len(body) = Len(d)
      /\ SubSeq(body, 1, c + remainMsg) = SubSeq(d, 1, c) \o SubSeq(data, copyLen + 1, copyLen + remainMsg)
    <2>1. c + remainMsg <= Len(d) /\ remainMsg \in Nat
        BY <1>1, <1>2
    <2>2. QED
        <3>1. Fits(d, c, remainMsg, data, copyLen)
            BY <1>1, <1>2, <2>1 DEF Fits
        <3>2. Copies(d, c, remainMsg, data, copyLen, body)
            BY <3>1, FilledIsCopied DEF body
        <3>3. QED
            BY <3>2 DEF Copies
<1>7. body = SubSeq(d, 1, c) \o SubSeq(data, copyLen + 1, copyLen + remainMsg)
    <2>1. SubSeq(body, 1, Len(body)) = body
        BY <1>6, SubSeqFull
    <2>2. QED
        BY <1>2, <1>6, <2>1
<1>8. BodyInv'
    BY <1>1, <1>2, <1>3, <1>5, <1>6 DEF BodyInv
<1>9. ParserInv'
    BY <1>5, <1>8 DEF ParserInv
<1>10. InHand = (h \o body) \o InHand'
    <2>1. /\ Rest = SubSeq(data, copyLen + 1, copyLen + remainMsg) \o After(remainMsg)
          /\ SubSeq(data, copyLen + 1, copyLen + remainMsg) \in Seq(Byte) /\ After(remainMsg) \in Seq(Byte)
        BY <1>1, <1>2, RestSplits
    <2>2. SubSeq(d, 1, c) \in Seq(Byte)
        <3>1. c \in 0 .. Len(d)
            BY <1>1
        <3>2. QED
            BY <1>1, <3>1, Pieces
    <2> DEFINE p == SubSeq(d, 1, c)
               q == SubSeq(data, copyLen + 1, copyLen + remainMsg)
               r == After(remainMsg)
    <2>3. /\ p \in Seq(Byte) /\ q \in Seq(Byte) /\ r \in Seq(Byte)
          /\ InHand = (h \o p) \o (q \o r) /\ body = p \o q /\ InHand' = r
        BY <1>4, <1>5, <1>7, <2>1, <2>2 DEF InHand
    <2> HIDE DEF p, q, r
    <2>4. (h \o p) \o (q \o r) = (h \o (p \o q)) \o r
        <3>1. h \o p \in Seq(Byte)
            BY <1>1, <2>3, Joined
        <3>2. Grouped(h \o p, q, r) /\ Grouped(h, p, q)
            BY <1>1, <2>3, <3>1, Regrouped
        <3>3. QED
            BY <3>2 DEF Grouped
    <2>5. QED
        BY <2>3, <2>4
<1>11. QED
    BY <1>1, <1>3, <1>5, <1>6, <1>9, <1>10 DEF SendsFrame
-----------------------------------------------------------------------------
(***************************************************************************)
(* Both servers.                                                           *)
(***************************************************************************)
\* readAtLeastServer reads a head when it has none, and then its body.
ExactInv ==
    /\ rd \in {"head", "body", "ended", "exited", "undefined"}
    /\ head \in Seq(Byte) /\ totalLen \in Int
    /\ rd = "head" => head = <<>>
    /\ rd = "body" =>
          Len(head) = HEAD_LENGTH /\ totalLen = HeadValue(head) /\ totalLen \in -1 .. MaxLength

ServersTypes ==
    /\ net \in Seq(Byte) /\ wire \in Seq(Byte) /\ sent \in Seq(Byte)
    /\ gone \in BOOLEAN
    /\ server \in {"asyncServer", "readAtLeastServer"}
    /\ state \in {"reading", "parsing", "ended", "exited", "undefined"}
    /\ server = "asyncServer" => rd = "head"
    /\ server = "readAtLeastServer" => state = "reading"

ServersInv == ServersTypes /\ ParserInv /\ ExactInv

\* The bytes the client has sent to an open session and has not had back.
Pending == IF Open THEN Kept \o net ELSE <<>>

\* The steps of the two programs, seen from the client: nothing happens to the bytes,
\* the client writes or leaves, a message goes back, or the session is over, as the
\* client has left or as the length in front says.
Keeps == UNCHANGED <<Status, Pending, sent, gone, wire>>

Writes(b) ==
    /\ ~gone /\ Status = "open" /\ Status' = "open"
    /\ Pending' = Append(Pending, b) /\ wire' = Append(wire, b)
    /\ UNCHANGED <<sent, gone>>

Leaves == ~gone /\ gone' = TRUE /\ UNCHANGED <<Status, Pending, sent, wire>>

SendsBack(h, body) ==
    /\ Status = "open" /\ Status' = "open"
    /\ Len(h) = 2 /\ HeadValue(h) = Len(body) /\ Len(body) <= MaxLength
    /\ Pending = (h \o body) \o Pending'
    /\ sent' = sent \o Frame(body)
    /\ UNCHANGED <<gone, wire>>

Outcome(length, rest, outcome) ==
    \/ length > MaxLength /\ outcome = "ended"
    \/ length < -1 /\ outcome = "exited"
    \/ length = -1 /\ Len(rest) > 0 /\ outcome = "undefined"

GivesUp == gone /\ Status = "open" /\ Status' = "ended" /\ UNCHANGED <<sent, gone, wire>>

StopsAt(h, rest) ==
    /\ Status = "open"
    /\ Len(h) = 2 /\ Pending = h \o rest
    /\ Outcome(HeadValue(h), rest, Status')
    /\ UNCHANGED <<sent, gone, wire>>

Move ==
    \/ Keeps \/ Leaves \/ GivesUp
    \/ \E b \in Byte : Writes(b)
    \/ \E h \in Seq(Byte), body \in Seq(Byte) : SendsBack(h, body)
    \/ \E h \in Seq(Byte), rest \in Seq(Byte) : StopsAt(h, rest)

\* The status of each program's session.
LEMMA StatusByHand ==
    ASSUME server = "asyncServer"
    PROVE  /\ state \in {"reading", "parsing"} => Status = "open"
           /\ state \in {"ended", "exited", "undefined"} => Status = state
BY DEF Status

LEMMA StatusByLength ==
    ASSUME server = "readAtLeastServer"
    PROVE  /\ rd \in {"head", "body"} => Status = "open"
           /\ rd \in {"ended", "exited", "undefined"} => Status = rd
BY DEF Status

LEMMA StatusThen ==
    ASSUME server' = server
    PROVE  /\ server = "asyncServer" =>
                 /\ state' \in {"reading", "parsing"} => Status' = "open"
                 /\ state' \in {"ended", "exited", "undefined"} => Status' = state'
           /\ server = "readAtLeastServer" =>
                 /\ rd' \in {"head", "body"} => Status' = "open"
                 /\ rd' \in {"ended", "exited", "undefined"} => Status' = rd'
BY DEF Status

LEMMA ServersInitially ==
    ASSUME ServersInit
    PROVE  /\ ServersInv
           /\ Pending = <<>> /\ sent = <<>> /\ wire = <<>> /\ gone = FALSE /\ Status = "open"
<1>1. /\ net = <<>> /\ gone = FALSE /\ wire = <<>> /\ state = "reading" /\ data = <<>>
      /\ copyLen = 0 /\ left = 0 /\ bHeadParse = FALSE /\ sent = <<>>
      /\ recvHeadNode = [data |-> [i \in 1 .. 2 |-> 0], curLen |-> 0, totalLen |-> 2]
      /\ recvMsgNode = [data |-> [i \in 1 .. 0 |-> 0], curLen |-> 0, totalLen |-> 0]
      /\ rd = "head" /\ head = <<>> /\ totalLen = 0
      /\ server \in {"asyncServer", "readAtLeastServer"}
    BY DEF ServersInit, Init, Exact!Init, EmptyNode, HEAD_LENGTH
<1>2. /\ [i \in 1 .. 2 |-> 0] \in Seq(Byte) /\ Len([i \in 1 .. 2 |-> 0]) = 2
      /\ [i \in 1 .. 0 |-> 0] \in Seq(Byte) /\ Len([i \in 1 .. 0 |-> 0]) = 0
    BY ZeroIsByte
<1>3. <<>> \in Seq(Byte)
    BY EmptySeq
<1>4. HeadInv /\ BodyInv
    BY <1>1, <1>2, WireAssumption DEF HeadInv, BodyInv, HEAD_LENGTH
<1>5. CallInv
    BY <1>1, <1>3, WireAssumption DEF CallInv
<1>6. ServersInv
    <2>1. ParserInv
        BY <1>1, <1>4, <1>5 DEF ParserInv
    <2>2. ServersTypes
        BY <1>1, <1>3 DEF ServersTypes
    <2>3. ExactInv
        BY <1>1, <1>3 DEF ExactInv
    <2>4. QED
        BY <2>1, <2>2, <2>3 DEF ServersInv
<1>7. Held = <<>> /\ Rest = <<>>
    BY <1>1, SubSeqEmpty DEF Held, Rest
<1>8. Status = "open"
    BY <1>1 DEF Status
<1>9. Pending = <<>>
    BY <1>1, <1>7, ConcatEmptySeq, <1>3 DEF Pending, Kept
<1>10. QED
    BY <1>1, <1>6, <1>8, <1>9

\* Where nothing of the parser changes, nothing of what it holds does.
LEMMA ParserRests ==
    ASSUME ParserInv, UNCHANGED byHandVars
    PROVE  ParserInv' /\ InHand' = InHand
BY DEF ParserInv, HeadInv, BodyInv, CallInv, byHandVars, InHand, Held, Rest

LEMMA ReceiveKeeps ==
    ASSUME ParserInv, net \in Seq(Byte), NEW n \in 1 .. Len(net), Receive(n)
    PROVE  ParserInv' /\ net' \in Seq(Byte) /\ InHand' \o net' = InHand \o net
<1>1. /\ state = "reading" /\ left = 0 /\ n <= MaxLength /\ MaxLength \in Nat /\ n \in Nat
      /\ data' = SubSeq(net, 1, n) /\ net' = SubSeq(net, n + 1, Len(net))
      /\ copyLen' = 0 /\ left' = n /\ state' = "parsing"
      /\ UNCHANGED <<bHeadParse, recvHeadNode, recvMsgNode, sent>>
    BY WireAssumption DEF Receive, ParserInv, CallInv
<1>2. /\ Len(net) \in Nat
      /\ 1 \in 1 .. Len(net) + 1 /\ n \in 1 - 1 .. Len(net) /\ n - 1 + 1 = n
      /\ n + 1 \in 1 .. Len(net) + 1 /\ Len(net) \in (n + 1) - 1 .. Len(net)
      /\ Len(net) \in n .. Len(net)
    BY LenProperties
<1>3. data' \in Seq(Byte) /\ Len(data') = n
    BY <1>1, <1>2, Pieces
<1>4. net' \in Seq(Byte)
    BY <1>1, <1>2, Pieces
<1>5. data' \o net' = net
    <2>1. SubSeq(net, 1, n) \o SubSeq(net, n + 1, Len(net)) = SubSeq(net, 1, Len(net))
        BY <1>2, ConcatAdjacentSubSeq
    <2>2. QED
        BY <1>1, <2>1, SubSeqFull
<1>6. ParserInv'
    <2>1. HeadInv' /\ BodyInv'
        BY <1>1 DEF ParserInv, HeadInv, BodyInv
    <2>2. CallInv'
        BY <1>1, <1>3 DEF CallInv
    <2>3. QED
        BY <1>1, <2>1, <2>2 DEF ParserInv
<1>7. Held' = Held /\ Rest = <<>> /\ Held \in Seq(Byte)
    BY <1>1, HeldTypes DEF Held
<1>8. Rest' = data'
    <2>1. Rest' = SubSeq(data', 1, n)
        BY <1>1 DEF Rest
    <2>2. QED
        BY <1>3, <2>1, SubSeqFull
<1>9. InHand = Held /\ InHand' = Held \o data'
    BY <1>7, <1>8, ConcatEmptySeq DEF InHand
<1>10. QED
    <2>1. Grouped(Held, data', net')
        BY <1>3, <1>4, <1>7, Regrouped
    <2>2. QED
        BY <1>4, <1>5, <1>6, <1>9, <2>1 DEF Grouped

LEMMA KeptTypes ==
    ASSUME ServersInv
    PROVE  /\ Pending \in Seq(Byte)
           /\ Open => Kept \in Seq(Byte)
<1>1. head \in Seq(Byte) /\ net \in Seq(Byte)
    BY DEF ServersInv, ServersTypes, ExactInv
<1>2. ASSUME Open
      PROVE  Kept \in Seq(Byte)
    <2>1. CASE server = "asyncServer"
        <3>1. state # "undefined"
            BY <1>2, <2>1, StatusByHand DEF Open
        <3>2. QED
            BY <2>1, <3>1, HeldTypes DEF Kept, InHand, ServersInv
    <2>2. CASE server = "readAtLeastServer"
        BY <1>1, <2>2 DEF Kept
    <2>3. QED
        BY <2>1, <2>2 DEF ServersInv, ServersTypes
<1>3. Pending \in Seq(Byte)
    BY <1>1, <1>2, Joined, EmptySeq DEF Pending
<1>4. QED
    BY <1>2, <1>3

LEMMA PendingThen == (ServersInv => Pending \in Seq(Byte) /\ (Open => Kept \in Seq(Byte)))'
<1>1. ServersInv => Pending \in Seq(Byte) /\ (Open => Kept \in Seq(Byte))
    BY KeptTypes
<1>2. QED
    BY <1>1, PTL

LEMMA FrameType ==
    ASSUME NEW h \in Seq(Byte), Len(h) = 2, NEW body \in Seq(Byte), HeadValue(h) = Len(body)
    PROVE  Frame(body) \in Seq(Byte)
BY FrameIsRead, Joined

\* What the client does: the session is not touched.
LEMMA ClientStep ==
    ASSUME ServersInv, UNCHANGED <<server, byHandVars, exactVars, sent>>, ~gone,
           \/ gone' = TRUE /\ UNCHANGED <<net, wire>>
           \/ /\ Open /\ UNCHANGED gone
              /\ \E b \in Byte : net' = Append(net, b) /\ wire' = Append(wire, b)
    PROVE  ServersInv' /\ Move
<1>1. ParserInv' /\ InHand' = InHand
    BY ParserRests DEF ServersInv
<1>2. ExactInv'
    BY DEF ServersInv, ExactInv, exactVars
<1>3. Kept' = Kept /\ (Open => Kept \in Seq(Byte)) /\ net \in Seq(Byte) /\ wire \in Seq(Byte)
    BY <1>1, KeptTypes DEF ServersInv, ServersTypes, exactVars, Kept, InHand
<1>4. Status' = Status
    BY DEF Status, byHandVars, exactVars
<1>5. CASE gone' = TRUE /\ UNCHANGED <<net, wire>>
    <2>1. ServersInv'
        BY <1>1, <1>2, <1>5 DEF ServersInv, ServersTypes, byHandVars, exactVars
    <2>2. Leaves
        BY <1>3, <1>4, <1>5 DEF Leaves, Pending, Open
    <2>3. QED
        BY <2>1, <2>2 DEF Move
<1>6. ASSUME Open, UNCHANGED gone, NEW b \in Byte, net' = Append(net, b), wire' = Append(wire, b)
      PROVE  ServersInv' /\ Move
    <2>1. net' \in Seq(Byte) /\ wire' \in Seq(Byte)
        BY <1>3, <1>6
    <2>2. ServersInv'
        BY <1>1, <1>2, <1>6, <2>1 DEF ServersInv, ServersTypes, byHandVars, exactVars
    <2>3. Kept \o Append(net, b) = Append(Kept \o net, b)
        BY <1>3, <1>6
    <2>4. Pending = Kept \o net /\ Pending' = Kept \o Append(net, b) /\ Status = "open"
        BY <1>3, <1>4, <1>6 DEF Pending, Open
    <2>5. Writes(b)
        BY <1>4, <1>6, <2>3, <2>4 DEF Writes
    <2>6. QED
        BY <2>2, <2>5 DEF Move
<1>7. QED
    BY <1>5, <1>6

\* A round of the parser.
LEMMA ParseStep ==
    ASSUME ServersInv, server = "asyncServer", Parse, UNCHANGED <<server, exactVars>>
    PROVE  ServersInv' /\ Move
<1>1. state = "parsing" /\ UNCHANGED <<net, gone, wire>>
    BY DEF Parse, HeadPart, HeadInvalid, NodeThrows, HeadComplete, HeadThenPart, HeadThenWhole, BodyPart, BodyWhole
<1>2. /\ ParserInv /\ net \in Seq(Byte) /\ wire \in Seq(Byte) /\ sent \in Seq(Byte) /\ gone \in BOOLEAN
      /\ rd = "head" /\ rd' = "head" /\ server' = server /\ InHand \in Seq(Byte)
    BY <1>1, HeldTypes DEF ServersInv, ServersTypes, exactVars
<1>3. ExactInv'
    BY DEF ServersInv, ExactInv, exactVars
<1>4. Status = "open" /\ Pending = InHand \o net
    BY <1>1, StatusByHand DEF Pending, Kept, InHand, Open
<1>5. ASSUME state' \in {"reading", "parsing"}
      PROVE  Status' = "open" /\ Pending' = InHand' \o net
    <2>1. Status' = "open"
        BY <1>2, <1>5, StatusThen
    <2>2. QED
        BY <1>1, <1>2, <2>1 DEF Pending, Kept, InHand, Open
<1>6. ASSUME ParserInv', KeepsAll, state' \in {"reading", "parsing"}
      PROVE  ServersInv' /\ Move
    <2>1. ServersInv'
        BY <1>1, <1>2, <1>3, <1>6 DEF ServersInv, ServersTypes, KeepsAll
    <2>2. Pending' = Pending /\ sent' = sent /\ Status' = Status
        BY <1>4, <1>5, <1>6 DEF KeepsAll
    <2>3. Keeps
        BY <1>1, <2>2 DEF Keeps
    <2>4. QED
        BY <2>1, <2>3 DEF Move
<1>7. ASSUME ParserInv', SendsFrame, state' \in {"reading", "parsing"}
      PROVE  ServersInv' /\ Move
    <2>1. PICK h \in Seq(Byte), body \in Seq(Byte) :
              /\ Len(h) = 2 /\ HeadValue(h) = Len(body) /\ Len(body) <= MaxLength
              /\ InHand' \in Seq(Byte)
              /\ InHand = (h \o body) \o InHand'
              /\ sent' = sent \o Frame(body)
        BY <1>7 DEF SendsFrame
    <2>2. sent' \in Seq(Byte)
        BY <1>2, <2>1, FrameType, Joined
    <2>3. ServersInv'
        BY <1>1, <1>2, <1>3, <1>7, <2>2 DEF ServersInv, ServersTypes
    <2>4. h \o body \in Seq(Byte) /\ InHand' \in Seq(Byte) /\ net \in Seq(Byte)
        BY <1>2, <2>1, Joined
    <2>5. ((h \o body) \o InHand') \o net = (h \o body) \o (InHand' \o net)
        <3>1. Grouped(h \o body, InHand', net)
            BY <2>4, Regrouped
        <3>2. QED
            BY <3>1 DEF Grouped
    <2>6. SendsBack(h, body)
        BY <1>1, <1>4, <1>5, <1>7, <2>1, <2>5 DEF SendsBack
    <2>7. QED
        BY <2>3, <2>6 DEF Move
<1>8. ASSUME NEW h \in Seq(Byte), NEW rest \in Seq(Byte), Len(h) = 2, InHand = h \o rest,
             ParserInv', state' \in {"ended", "exited", "undefined"}, sent' = sent,
             Outcome(HeadValue(h), rest, state')
      PROVE  ServersInv' /\ Move
    <2>1. ServersInv'
        BY <1>1, <1>2, <1>3, <1>8 DEF ServersInv, ServersTypes
    <2>2. Status' = state'
        BY <1>2, <1>8, StatusThen
    <2>3. Pending = h \o (rest \o net)
        <3>1. Grouped(h, rest, net)
            BY <1>2, Regrouped
        <3>2. QED
            BY <1>4, <1>8, <3>1 DEF Grouped
    <2>4. rest \o net \in Seq(Byte) /\ (Len(rest) > 0 => Len(rest \o net) > 0)
        BY <1>2, Joined, LenProperties
    <2>5. Outcome(HeadValue(h), rest \o net, Status')
        BY <1>8, <2>2, <2>4 DEF Outcome
    <2>6. StopsAt(h, rest \o net)
        BY <1>1, <1>4, <1>8, <2>3, <2>5 DEF StopsAt
    <2>7. QED
        BY <2>1, <2>4, <2>6 DEF Move
<1>9. ASSUME ParserInv', Overruns
      PROVE  ServersInv' /\ Move
    <2>1. PICK h \in Seq(Byte), rest \in Seq(Byte) :
              /\ Len(h) = 2 /\ HeadValue(h) = -1 /\ Len(rest) > 0
              /\ InHand = h \o rest
              /\ state' = "undefined" /\ sent' = sent
        BY <1>9 DEF Overruns
    <2>2. Outcome(HeadValue(h), rest, state')
        BY <2>1 DEF Outcome
    <2>3. QED
        BY <1>8, <1>9, <2>1, <2>2
<1>10. CASE HeadPart
    <2>1. state' = "reading"
        BY <1>10 DEF HeadPart, ReadSome
    <2>2. QED
        BY <1>2, <1>6, <1>10, <2>1, HeadPartKeeps
<1>11. CASE HeadThenPart
    BY <1>2, <1>6, <1>9, <1>11, HeadThenPartKeeps
<1>12. CASE BodyPart
    <2>1. recvMsgNode.totalLen \in Nat \/ recvMsgNode.totalLen = -1
        BY <1>1, <1>2, <1>12, BodyUnderWay DEF BodyPart
    <2>2. QED
        BY <1>2, <1>6, <1>9, <1>12, <2>1, BodyPartFits, BodyPartOverruns
<1>13. CASE HeadThenWhole
    BY <1>2, <1>7, <1>13, HeadThenWholeSends
<1>14. CASE BodyWhole
    BY <1>2, <1>7, <1>14, BodyWholeSends
<1>15. CASE HeadInvalid \/ NodeThrows
    <2>1. /\ HeadComplete /\ UNCHANGED parserVars
          /\ \/ dataLen > MaxLength /\ state' = "ended"
             \/ dataLen < -1 /\ state' = "exited"
        BY <1>15, Zenon DEF HeadInvalid, NodeThrows, Throws
    <2>2. /\ wholeHead \in Seq(Byte) /\ Len(wholeHead) = 2
          /\ InHand = wholeHead \o After(headRemain) /\ After(headRemain) \in Seq(Byte)
        BY <1>2, <2>1, WholeHead
    <2>3. ParserInv' /\ sent' = sent
        BY <1>1, <1>2, <2>1 DEF ParserInv, HeadInv, BodyInv, CallInv, parserVars
    <2>4. Outcome(HeadValue(wholeHead), After(headRemain), state')
        BY <2>1 DEF Outcome, dataLen
    <2>5. QED
        BY <1>8, <2>1, <2>2, <2>3, <2>4
<1>16. QED
    BY <1>10, <1>11, <1>12, <1>13, <1>14, <1>15 DEF Parse

LEMMA HandStep ==
    ASSUME ServersInv, ByHand(Next)
    PROVE  ServersInv' /\ Move
<1>1. server = "asyncServer" /\ Next /\ UNCHANGED <<server, exactVars>>
    BY DEF ByHand
<1>2. /\ ParserInv /\ net \in Seq(Byte) /\ wire \in Seq(Byte) /\ sent \in Seq(Byte) /\ gone \in BOOLEAN
      /\ rd = "head" /\ rd' = "head" /\ server' = server
    BY <1>1 DEF ServersInv, ServersTypes, exactVars
<1>3. ExactInv'
    BY <1>1 DEF ServersInv, ExactInv, exactVars
<1>4. ASSUME NEW b \in Byte, Write(b)
      PROVE  ServersInv' /\ Move
    <2>1. Open /\ ~gone
        BY <1>1, <1>4, StatusByHand DEF Write, Open
    <2>2. UNCHANGED <<gone, byHandVars, sent>> /\ net' = Append(net, b) /\ wire' = Append(wire, b)
        BY <1>4 DEF Write, parserVars, byHandVars
    <2>3. QED
        BY <1>1, <2>1, <2>2, ClientStep
<1>5. CASE Leave
    <2>1. ~gone /\ gone' = TRUE /\ UNCHANGED <<net, wire, byHandVars, sent>>
        BY <1>5 DEF Leave, parserVars, byHandVars
    <2>2. QED
        BY <1>1, <2>1, ClientStep
<1>6. CASE Parse
    BY <1>1, <1>6, ParseStep
<1>7. CASE ReceiveError
    <2>1. gone /\ state = "reading" /\ state' = "ended" /\ UNCHANGED <<net, gone, wire, parserVars>>
        BY <1>7 DEF ReceiveError
    <2>2. ParserInv' /\ sent' = sent
        BY <1>2, <2>1 DEF ParserInv, HeadInv, BodyInv, CallInv, parserVars
    <2>3. ServersInv'
        BY <1>1, <1>2, <1>3, <2>1, <2>2 DEF ServersInv, ServersTypes
    <2>4. Status = "open" /\ Status' = "ended"
        BY <1>1, <1>2, <2>1, StatusByHand, StatusThen
    <2>5. GivesUp
        BY <2>1, <2>2, <2>4 DEF GivesUp
    <2>6. QED
        BY <2>3, <2>5 DEF Move
<1>8. ASSUME NEW n \in 1 .. Len(net), Receive(n)
      PROVE  ServersInv' /\ Move
    <2>1. ParserInv' /\ net' \in Seq(Byte) /\ InHand' \o net' = InHand \o net
        BY <1>2, <1>8, ReceiveKeeps
    <2>2. state = "reading" /\ state' = "parsing" /\ UNCHANGED <<gone, wire, sent>>
        BY <1>8 DEF Receive
    <2>3. ServersInv'
        BY <1>1, <1>2, <1>3, <2>1, <2>2 DEF ServersInv, ServersTypes
    <2>4. Status = "open" /\ Status' = "open"
        BY <1>1, <1>2, <2>2, StatusByHand, StatusThen
    <2>5. Pending' = Pending
        BY <1>1, <2>1, <2>4 DEF Pending, Kept, InHand, Open
    <2>6. Keeps
        BY <2>2, <2>4, <2>5 DEF Keeps
    <2>7. QED
        BY <2>3, <2>6 DEF Move
<1>9. QED
    BY <1>1, <1>4, <1>5, <1>6, <1>7, <1>8 DEF Next, Handler

\* A read of a known length takes it from the front of what is under way.
LEMMA TakenInFront ==
    ASSUME net \in Seq(Byte), NEW n \in Nat, Exact!Take(n)
    PROVE  /\ Exact!Taken(n) \in Seq(Byte) /\ Len(Exact!Taken(n)) = n
           /\ net' \in Seq(Byte) /\ net = Exact!Taken(n) \o net'
<1>1. /\ Len(net) \in Nat /\ n <= Len(net) /\ net' = SubSeq(net, n + 1, Len(net))
      /\ Exact!Taken(n) = SubSeq(net, 1, n)
    BY LenProperties DEF Exact!Take, Exact!Taken
<1>2. /\ 1 \in 1 .. Len(net) + 1 /\ n \in 1 - 1 .. Len(net) /\ n - 1 + 1 = n
      /\ n + 1 \in 1 .. Len(net) + 1 /\ Len(net) \in (n + 1) - 1 .. Len(net)
      /\ Len(net) \in n .. Len(net)
    BY <1>1
<1>3. SubSeq(net, 1, n) \in Seq(Byte) /\ Len(SubSeq(net, 1, n)) = n
    BY <1>2, Pieces
<1>4. net' \in Seq(Byte)
    BY <1>1, <1>2, Pieces
<1>5. SubSeq(net, 1, n) \o SubSeq(net, n + 1, Len(net)) = SubSeq(net, 1, Len(net))
    BY <1>2, ConcatAdjacentSubSeq
<1>6. QED
    BY <1>1, <1>3, <1>4, <1>5, SubSeqFull

LEMMA HeadReadStep ==
    ASSUME ServersInv, server = "readAtLeastServer", Exact!HeadRead, UNCHANGED <<server, byHandVars>>
    PROVE  ServersInv' /\ Move
<1> DEFINE h == Exact!Taken(2)
<1>1. /\ ParserInv /\ net \in Seq(Byte) /\ wire \in Seq(Byte) /\ sent \in Seq(Byte) /\ gone \in BOOLEAN
      /\ state = "reading" /\ state' = "reading" /\ server' = server
      /\ rd = "head" /\ head = <<>> /\ totalLen \in Int
    BY DEF ServersInv, ServersTypes, ExactInv, Exact!HeadRead, byHandVars
<1>2. ParserInv'
    BY <1>1, ParserRests
<1>3. /\ Exact!Take(2) /\ head' = h /\ UNCHANGED <<gone, wire, sent>>
      /\ \/ HeadValue(h) > MaxLength /\ rd' = "ended" /\ UNCHANGED totalLen
         \/ HeadValue(h) < -1 /\ rd' = "exited" /\ UNCHANGED totalLen
         \/ HeadValue(h) <= MaxLength /\ ~(HeadValue(h) < -1) /\ rd' = "body" /\ totalLen' = HeadValue(h)
    BY DEF Exact!HeadRead, HEAD_LENGTH, Exact!HEAD_LENGTH, HeadValue, Exact!HeadValue, Exact!Throws
<1>4. h \in Seq(Byte) /\ Len(h) = 2 /\ net' \in Seq(Byte) /\ net = h \o net'
    <2>1. 2 \in Nat
        OBVIOUS
    <2>2. QED
        BY <1>1, <1>3, <2>1, TakenInFront
<1> HIDE DEF h
<1>5. HeadValue(h) \in Int /\ MaxLength \in Nat
    BY <1>4, LengthOfHead, WireAssumption
<1>6. ExactInv'
    BY <1>1, <1>3, <1>4, <1>5 DEF ExactInv, HEAD_LENGTH
<1>7. ServersInv'
    BY <1>1, <1>2, <1>3, <1>4, <1>6 DEF ServersInv, ServersTypes
<1>8. Status = "open" /\ Pending = h \o net'
    BY <1>1, <1>4, StatusByLength, ConcatEmptySeq DEF Pending, Kept, Open
<1>9. CASE rd' = "body"
    <2>1. Status' = "open"
        BY <1>1, <1>9, StatusThen
    <2>2. Pending' = h \o net'
        BY <1>1, <1>3, <2>1 DEF Pending, Kept, Open
    <2>3. Keeps
        BY <1>3, <1>8, <2>1, <2>2 DEF Keeps
    <2>4. QED
        BY <1>7, <2>3 DEF Move
<1>10. CASE rd' # "body"
    <2>1. \/ HeadValue(h) > MaxLength /\ rd' = "ended"
          \/ HeadValue(h) < -1 /\ rd' = "exited"
        BY <1>3, <1>10
    <2>2. Status' = rd'
        BY <1>1, <2>1, StatusThen
    <2>3. Outcome(HeadValue(h), net', Status')
        BY <2>1, <2>2 DEF Outcome
    <2>4. StopsAt(h, net')
        BY <1>3, <1>4, <1>8, <2>3 DEF StopsAt
    <2>5. QED
        BY <1>4, <1>7, <2>4 DEF Move
<1>11. QED
    BY <1>9, <1>10

LEMMA MsgReadStep ==
    ASSUME ServersInv, server = "readAtLeastServer", Exact!MsgRead, UNCHANGED <<server, byHandVars>>
    PROVE  ServersInv' /\ Move
<1> DEFINE body == Exact!Taken(totalLen)
<1>1. /\ ParserInv /\ net \in Seq(Byte) /\ wire \in Seq(Byte) /\ sent \in Seq(Byte) /\ gone \in BOOLEAN
      /\ state = "reading" /\ state' = "reading" /\ server' = server
      /\ rd = "body" /\ head \in Seq(Byte) /\ Len(head) = 2 /\ totalLen \in Nat
      /\ totalLen = HeadValue(head) /\ totalLen <= MaxLength
    BY DEF ServersInv, ServersTypes, ExactInv, Exact!MsgRead, byHandVars, HEAD_LENGTH
<1>2. ParserInv'
    BY <1>1, ParserRests
<1>3. /\ Exact!Take(totalLen) /\ head' = <<>> /\ rd' = "head" /\ UNCHANGED <<gone, wire, totalLen>>
      /\ sent' = sent \o Frame(body)
    BY DEF Exact!MsgRead, Frame, Exact!Frame
<1>4. body \in Seq(Byte) /\ Len(body) = totalLen /\ net' \in Seq(Byte) /\ net = body \o net'
    BY <1>1, <1>3, TakenInFront
<1> HIDE DEF body
<1>5. sent' \in Seq(Byte)
    BY <1>1, <1>3, <1>4, FrameType, Joined
<1>6. ExactInv'
    BY <1>1, <1>3, EmptySeq DEF ExactInv
<1>7. ServersInv'
    BY <1>1, <1>2, <1>3, <1>4, <1>5, <1>6 DEF ServersInv, ServersTypes
<1>8. Status = "open" /\ Status' = "open"
    BY <1>1, <1>3, StatusByLength, StatusThen
<1>9. Pending = head \o net /\ Pending' = net'
    BY <1>1, <1>3, <1>4, <1>8, ConcatEmptySeq DEF Pending, Kept, Open
<1>10. (head \o body) \o net' = head \o (body \o net')
    <2>1. Grouped(head, body, net')
        BY <1>1, <1>4, Regrouped
    <2>2. QED
        BY <2>1 DEF Grouped
<1>11. SendsBack(head, body)
    BY <1>1, <1>3, <1>4, <1>8, <1>9, <1>10 DEF SendsBack
<1>12. QED
    BY <1>1, <1>4, <1>7, <1>11 DEF Move

\* The read behind the array of a length of -1.
LEMMA MsgReadOutsideStep ==
    ASSUME ServersInv, server = "readAtLeastServer", Exact!MsgReadOutside, UNCHANGED <<server, byHandVars>>
    PROVE  ServersInv' /\ Move
<1>1. /\ ParserInv /\ net \in Seq(Byte) /\ wire \in Seq(Byte) /\ sent \in Seq(Byte) /\ gone \in BOOLEAN
      /\ state = "reading" /\ state' = "reading" /\ server' = server
      /\ rd = "body" /\ head \in Seq(Byte) /\ Len(head) = 2 /\ HeadValue(head) = -1
    BY DEF ServersInv, ServersTypes, ExactInv, Exact!MsgReadOutside, byHandVars, HEAD_LENGTH
<1>2. ParserInv'
    BY <1>1, ParserRests
<1>3. rd' = "undefined" /\ UNCHANGED <<gone, wire, head, totalLen, sent>>
    BY DEF Exact!MsgReadOutside
<1>4. net' \in Seq(Byte) /\ Len(net) > 0
    <2>1. PICK n \in 1 .. Len(net) : Exact!Take(n)
        BY DEF Exact!MsgReadOutside
    <2>2. n \in Nat /\ Len(net) > 0
        BY <1>1, LenProperties
    <2>3. QED
        BY <1>1, <2>1, <2>2, TakenInFront
<1>5. ExactInv'
    BY <1>3 DEF ServersInv, ExactInv
<1>6. ServersInv'
    BY <1>1, <1>2, <1>3, <1>4, <1>5 DEF ServersInv, ServersTypes
<1>7. Status = "open" /\ Status' = "undefined"
    BY <1>1, <1>3, StatusByLength, StatusThen
<1>8. Pending = head \o net
    BY <1>1, <1>7 DEF Pending, Kept, Open
<1>9. StopsAt(head, net)
    BY <1>1, <1>3, <1>4, <1>7, <1>8 DEF StopsAt, Outcome
<1>10. QED
    BY <1>1, <1>6, <1>9 DEF Move

LEMMA LengthStep ==
    ASSUME ServersInv, ByLength(Exact!Next)
    PROVE  ServersInv' /\ Move
<1>1. server = "readAtLeastServer" /\ Exact!Next /\ UNCHANGED <<server, byHandVars>>
    BY DEF ByLength
<1>2. /\ ParserInv /\ net \in Seq(Byte) /\ wire \in Seq(Byte) /\ sent \in Seq(Byte) /\ gone \in BOOLEAN
      /\ state = "reading" /\ state' = "reading" /\ server' = server
    BY <1>1 DEF ServersInv, ServersTypes, byHandVars
<1>3. ASSUME NEW b \in Byte, Exact!Write(b)
      PROVE  ServersInv' /\ Move
    <2>1. Open /\ ~gone
        BY <1>1, <1>3, StatusByLength DEF Exact!Write, Open
    <2>2. UNCHANGED <<gone, exactVars, sent>> /\ net' = Append(net, b) /\ wire' = Append(wire, b)
        BY <1>3 DEF Exact!Write, exactVars
    <2>3. QED
        BY <1>1, <2>1, <2>2, ClientStep
<1>4. CASE Exact!Leave
    <2>1. ~gone /\ gone' = TRUE /\ UNCHANGED <<net, wire, exactVars, sent>>
        BY <1>4 DEF Exact!Leave, exactVars
    <2>2. QED
        BY <1>1, <2>1, ClientStep
<1>5. CASE Exact!ReadError
    <2>1. /\ gone /\ rd \in {"head", "body"} /\ rd' = "ended"
          /\ UNCHANGED <<net, gone, wire, head, totalLen, sent>>
        BY <1>5 DEF Exact!ReadError
    <2>2. ParserInv'
        BY <1>1, <1>2, ParserRests
    <2>3. ExactInv'
        BY <2>1 DEF ServersInv, ExactInv
    <2>4. ServersInv'
        BY <1>1, <1>2, <2>1, <2>2, <2>3 DEF ServersInv, ServersTypes
    <2>5. Status = "open" /\ Status' = "ended"
        BY <1>1, <1>2, <2>1, StatusByLength, StatusThen
    <2>6. GivesUp
        BY <2>1, <2>5 DEF GivesUp
    <2>7. QED
        BY <2>4, <2>6 DEF Move
<1>6. QED
    BY <1>1, <1>3, <1>4, <1>5, HeadReadStep, MsgReadStep, MsgReadOutsideStep
       DEF Exact!Next, Exact!Handler, Byte, Exact!Byte

LEMMA ServersStep ==
    ASSUME ServersInv, [ServersNext]_allVars
    PROVE  ServersInv' /\ Move
<1>1. CASE UNCHANGED allVars
    <2>1. UNCHANGED <<byHandVars, exactVars, server, net, gone, wire, sent>>
        BY <1>1 DEF allVars, vars, parserVars, exactVars, byHandVars
    <2>2. ParserInv' /\ InHand' = InHand
        BY <2>1, ParserRests DEF ServersInv
    <2>3. ServersInv'
        BY <2>1, <2>2 DEF ServersInv, ServersTypes, ExactInv, byHandVars, exactVars
    <2>4. Keeps
        BY <2>1, <2>2 DEF Keeps, Pending, Kept, InHand, Status, Open, byHandVars, exactVars
    <2>5. QED
        BY <2>3, <2>4 DEF Move
<1>2. QED
    BY <1>1, HandStep, LengthStep DEF ServersNext
-----------------------------------------------------------------------------
(***************************************************************************)
(* The one copy that leaves its array is that of a length of -1, and no     *)
(* complete message waits, for streams of any length, cut in any way.      *)
(***************************************************************************)
LEMMA ServersInvHolds == ServersSpec => []ServersInv
<1>1. ServersInit => ServersInv
    BY ServersInitially
<1>2. ServersInv /\ [ServersNext]_allVars => ServersInv'
    BY ServersStep
<1>3. QED
    BY <1>1, <1>2, PTL DEF ServersSpec

\* No memcpy of asyncServer's handleRead leaves its node or the array data, but those
\* into the node of a length of -1, after which nothing is defined.
THEOREM CopiesStayInside == ServersSpec => []CopiesFit
<1>1. ServersInv => CopiesFit
    BY DEF ServersInv, ParserInv, HeadInv, BodyInv, CallInv, CopiesFit
<1>2. QED
    BY <1>1, ServersInvHolds, PTL

\* When handleRead waits for the next piece it holds no complete message: it has no
\* whole head, or some of the body is missing, or the length is -1.
THEOREM EverythingEchoed == ServersSpec => []NothingHeldBack
<1>1. ServersInv => NothingHeldBack
    BY DEF ServersInv, ParserInv, CallInv, NothingHeldBack
<1>2. QED
    BY <1>1, ServersInvHolds, PTL

\* As long as the session is open, the bytes sent back and the pending ones are those
\* the client wrote.
LEMMA StreamIsPending ==
    ASSUME ServersInv
    PROVE  StreamPreserved <=> (Status = "open" => sent \o Pending = wire)
<1>1. ASSUME Status = "open"
      PROVE  sent \o Kept \o net = sent \o Pending
    <2>1. sent \in Seq(Byte) /\ Kept \in Seq(Byte) /\ net \in Seq(Byte)
        BY <1>1, KeptTypes DEF ServersInv, ServersTypes, Open
    <2>2. Grouped(sent, Kept, net)
        BY <2>1, Regrouped
    <2>3. QED
        BY <1>1, <2>2 DEF Grouped, Pending, Open
<1>2. QED
    BY <1>1 DEF StreamPreserved, Open

LEMMA StreamIsPendingThen ==
    (ServersInv => (StreamPreserved <=> (Status = "open" => sent \o Pending = wire)))'
<1>1. ServersInv => (StreamPreserved <=> (Status = "open" => sent \o Pending = wire))
    BY StreamIsPending
<1>2. QED
    BY <1>1, PTL

LEMMA StreamStep ==
    ASSUME ServersInv, ServersInv', Move, StreamPreserved
    PROVE  StreamPreserved'
<1>1. /\ sent \in Seq(Byte) /\ Pending \in Seq(Byte)
      /\ sent' \in Seq(Byte) /\ Pending' \in Seq(Byte)
    BY KeptTypes, PendingThen DEF ServersInv, ServersTypes
<1>2. SUFFICES ASSUME Status' = "open"
               PROVE  sent' \o Pending' = wire'
    BY StreamIsPendingThen
<1>3. ASSUME Status = "open"
      PROVE  sent \o Pending = wire
    BY <1>3, StreamIsPending
<1>4. CASE GivesUp \/ \E h \in Seq(Byte), rest \in Seq(Byte) : StopsAt(h, rest)
    BY <1>2, <1>4 DEF GivesUp, StopsAt, Outcome
<1>5. CASE Keeps \/ Leaves
    BY <1>2, <1>3, <1>5 DEF Keeps, Leaves
<1>7. ASSUME NEW b \in Byte, Writes(b)
      PROVE  sent' \o Pending' = wire'
    <2>1. sent \o Append(Pending, b) = Append(sent \o Pending, b)
        BY <1>1, AppendedBehind, Zenon
    <2>2. QED
        BY <1>3, <1>7, <2>1 DEF Writes
<1>8. ASSUME NEW h \in Seq(Byte), NEW body \in Seq(Byte), SendsBack(h, body)
      PROVE  sent' \o Pending' = wire'
    <2>1. Frame(body) = h \o body
        BY <1>8, FrameIsRead DEF SendsBack
    <2>2. h \o body \in Seq(Byte)
        BY Joined
    <2>3. Grouped(sent, h \o body, Pending')
        BY <1>1, <2>2, Regrouped
    <2>4. /\ wire' = wire /\ sent' = sent \o (h \o body)
          /\ wire = sent \o ((h \o body) \o Pending')
        BY <1>3, <1>8, <2>1, Zenon DEF SendsBack
    <2>5. QED
        BY <2>3, <2>4, Zenon DEF Grouped
<1>9. QED
    BY <1>4, <1>5, <1>7, <1>8 DEF Move

\* Both servers: no byte is lost, repeated or moved before the session ends.
THEOREM StreamKept == ServersSpec => []StreamPreserved
<1>1. ServersInit => StreamPreserved
    <2> SUFFICES ASSUME ServersInit
                 PROVE  StreamPreserved
        OBVIOUS
    <2>1. ServersInv /\ Pending = <<>> /\ sent = <<>> /\ wire = <<>>
        BY ServersInitially
    <2>2. sent \o Pending = wire
        BY <2>1, ConcatEmptySeq, EmptySeq
    <2>3. QED
        BY <2>1, <2>2, StreamIsPending
<1>2. ServersInv /\ ServersInv' /\ [ServersNext]_allVars /\ StreamPreserved => StreamPreserved'
    BY ServersStep, StreamStep
<1>3. QED
    BY <1>1, <1>2, ServersInvHolds, PTL DEF ServersSpec
-----------------------------------------------------------------------------
(***************************************************************************)
(* The steps of both servers are those of FramedEcho.                      *)
(***************************************************************************)
LEMMA EchoedInFront ==
    ASSUME ServersInv, ServersInv', NEW h \in Seq(Byte), NEW body \in Seq(Byte), SendsBack(h, body)
    PROVE  Echoing!Echo
<1>1. Pending \in Seq(Byte) /\ Pending' \in Seq(Byte)
    BY KeptTypes, PendingThen
<1>2. /\ Status = "open" /\ Status' = "open" /\ Len(h) = 2 /\ HeadValue(h) = Len(body) /\ Len(body) <= MaxLength
      /\ Pending = (h \o body) \o Pending' /\ sent' = sent \o Frame(body) /\ UNCHANGED <<gone, wire>>
    BY DEF SendsBack
<1>3. Frame(body) = h \o body
    BY <1>2, FrameIsRead
<1>4. PICK all \in Seq(Byte), rest \in Seq(Byte) : all = Pending /\ rest = Pending'
    BY <1>1
<1>10. all = (h \o body) \o rest
    BY <1>2, <1>4
<1>5. /\ Len(all) >= 2 + Len(body)
      /\ HeadValue(SubSeq(all, 1, 2)) = Len(body)
      /\ SubSeq(all, 1, 2 + Len(body)) = h \o body
      /\ SubSeq(all, 2 + Len(body) + 1, Len(all)) = rest
    <2>1. InFront(h, body, rest, all)
        BY <1>2, <1>10, FrameInFront
    <2>2. QED
        BY <2>1 DEF InFront
<1>6. Len(body) \in Nat /\ Len(all) \in Nat
    BY LenProperties
<1>8. /\ Len(all) >= 2 /\ Len(all) >= 2 + HeadValue(SubSeq(all, 1, 2))
      /\ HeadValue(SubSeq(all, 1, 2)) \in 0 .. MaxLength
      /\ sent' = sent \o SubSeq(all, 1, 2 + HeadValue(SubSeq(all, 1, 2)))
      /\ rest = SubSeq(all, 2 + HeadValue(SubSeq(all, 1, 2)) + 1, Len(all))
    <2>1. Len(all) >= 2
        BY <1>5, <1>6
    <2>2. Len(body) \in 0 .. MaxLength
        BY <1>2, <1>6, WireAssumption
    <2>3. QED
        BY <1>2, <1>3, <1>5, <2>1, <2>2
<1>9. Echoing!FrontLength = HeadValue(SubSeq(all, 1, 2)) /\ (Echoing!HasHead <=> Len(all) >= 2)
    BY <1>4 DEF Echoing!HasHead, Echoing!FrontLength, Echoing!HEAD_LENGTH, Echoing!HeadValue, HeadValue, Pending
<1> DEFINE long == 2 + HeadValue(SubSeq(all, 1, 2))
<1>11. /\ Len(all) >= long
       /\ sent' = sent \o SubSeq(all, 1, long)
       /\ rest = SubSeq(all, long + 1, Len(all))
    BY <1>8
<1>12. /\ Len(Pending) >= Echoing!HEAD_LENGTH + Echoing!FrontLength
       /\ sent' = sent \o SubSeq(Pending, 1, Echoing!HEAD_LENGTH + Echoing!FrontLength)
       /\ Pending' = SubSeq(Pending, Echoing!HEAD_LENGTH + Echoing!FrontLength + 1, Len(Pending))
    <2>1. Echoing!HEAD_LENGTH + Echoing!FrontLength = long
        BY <1>9 DEF Echoing!HEAD_LENGTH
    <2> HIDE DEF long
    <2>2. QED
        BY <1>4, <1>11, <2>1, Zenon
<1>13. /\ Echoing!HasHead /\ Echoing!FrontLength \in 0 .. MaxLength
       /\ Status = "open" /\ Status' = Status /\ gone' = gone
    BY <1>2, <1>8, <1>9
<1>14. QED
    BY <1>12, <1>13, Zenon DEF Echoing!Echo, Pending

\* What ends a session of FramedEcho, of which nothing is unread then.
LEMMA OverIsEmpty ==
    ASSUME Status' # "open"
    PROVE  Pending' = <<>>
BY DEF Pending, Open

LEMMA StopsAreEchoing ==
    ASSUME NEW h \in Seq(Byte), NEW rest \in Seq(Byte), StopsAt(h, rest)
    PROVE  Echoing!Next
<1>1. /\ Status = "open" /\ UNCHANGED <<sent, gone>>
      /\ Len(h) = 2 /\ Pending = h \o rest /\ Outcome(HeadValue(h), rest, Status')
    BY DEF StopsAt
<1>2. /\ Len(Pending) = 2 + Len(rest) /\ HeadValue(SubSeq(Pending, 1, 2)) = HeadValue(h)
      /\ Len(rest) \in Nat
    BY <1>1, HeadInFront, LenProperties
<1>3. Echoing!FrontLength = HeadValue(h)
    BY <1>2 DEF Echoing!FrontLength, Echoing!HEAD_LENGTH, Echoing!HeadValue, HeadValue, Pending
<1>4. Echoing!HasHead /\ (Len(rest) > 0 => Len(Pending) > Echoing!HEAD_LENGTH)
    BY <1>2 DEF Echoing!HasHead, Echoing!HEAD_LENGTH, Pending
<1>5. Status' # "open" /\ Pending' = <<>>
    BY <1>1, OverIsEmpty DEF Outcome
<1>6. Echoing!Finish(Status')
    BY <1>1, <1>5 DEF Echoing!Finish, Pending
<1>7. CASE HeadValue(h) > MaxLength /\ Status' = "ended"
    BY <1>3, <1>4, <1>6, <1>7 DEF Echoing!Next, Echoing!Serve, Echoing!End
<1>8. CASE HeadValue(h) < -1 /\ Status' = "exited"
    BY <1>3, <1>4, <1>6, <1>8 DEF Echoing!Next, Echoing!Serve, Echoing!Exit
<1>9. CASE HeadValue(h) = -1 /\ Len(rest) > 0 /\ Status' = "undefined"
    <2>1. Echoing!Overrun
        BY <1>3, <1>4, <1>6, <1>9 DEF Echoing!Overrun, Pending
    <2>2. QED
        BY <2>1 DEF Echoing!Next, Echoing!Serve
<1>10. QED
    BY <1>1, <1>7, <1>8, <1>9 DEF Outcome

LEMMA MovesAreEchoing ==
    ASSUME ServersInv, ServersInv', Move
    PROVE  [Echoing!Next]_(Echoing!vars)
<1>1. CASE Keeps
    BY <1>1 DEF Keeps, Echoing!vars, Pending
<1>2. CASE Leaves
    BY <1>2 DEF Leaves, Echoing!Next, Echoing!Leave, Pending
<1>3. CASE GivesUp
    <2>1. gone /\ Status = "open" /\ Status' = "ended" /\ UNCHANGED <<sent, gone>> /\ Pending' = <<>>
        BY <1>3, OverIsEmpty DEF GivesUp
    <2>2. Echoing!End
        BY <2>1 DEF Echoing!End, Echoing!Finish, Pending
    <2>3. QED
        BY <2>2 DEF Echoing!Next, Echoing!Serve
<1>4. ASSUME NEW b \in Byte, Writes(b)
      PROVE  Echoing!Next
    BY <1>4 DEF Writes, Echoing!Next, Echoing!Send, Pending, Byte, Echoing!Byte
<1>5. ASSUME NEW h \in Seq(Byte), NEW body \in Seq(Byte), SendsBack(h, body)
      PROVE  Echoing!Next
    BY <1>5, EchoedInFront DEF Echoing!Next, Echoing!Serve
<1>6. QED
    BY <1>1, <1>2, <1>3, <1>4, <1>5, StopsAreEchoing DEF Move

\* asyncServer, which cuts the messages out of the stream by hand, and readAtLeastServer
\* take only steps that FramedEcho allows: each message goes back whole and once, and a
\* session is over only when its client leaves, at a length that is too large (the server
\* ends it), below -1 (the program ends), or at -1 with a byte behind it (undefined).
THEOREM StepsOfFramedEcho == ServersSpec => Echoing!Init /\ [][Echoing!Next]_(Echoing!vars)
<1>1. ServersInit => Echoing!Init
    BY ServersInitially DEF Echoing!Init, Pending
<1>2. ServersInv /\ ServersInv' /\ [ServersNext]_allVars => [Echoing!Next]_(Echoing!vars)
    BY ServersStep, MovesAreEchoing
<1>3. QED
    BY <1>1, <1>2, ServersInvHolds, PTL DEF ServersSpec
=============================================================================
