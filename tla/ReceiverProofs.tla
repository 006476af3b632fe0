-------------------------- MODULE ReceiverProofs ---------------------------
(***************************************************************************)
(* TLAPS proofs about Receiver, for any connections, scripts, line lengths *)
(* and faults: however recv(), the spool and the parser cut the stream of  *)
(* a connection, its lines are processed whole, once and in order,         *)
(* finish() leaves nothing unparsed (ParsedAsWritten), and a capture       *)
(* without warnings has lost nothing (CleanMeansComplete).                 *)
(***************************************************************************)
EXTENDS Receiver, SequenceTheorems, FiniteSetTheorems, Sums, TLAPS

(***************************************************************************)
(* Lines of P pieces.                                                      *)
(***************************************************************************)
LEMMA Times ==
    ASSUME NEW P \in Nat \ {0}, NEW m \in Nat, NEW n \in Nat
    PROVE  /\ P * m \in Nat /\ P * (m + n) = P * m + P * n /\ P * (m + 1) = P * m + P
           /\ m < n => P * m + P <= P * n
  <1>1. P * m \in Nat /\ P * (m + n) = P * m + P * n /\ P * (m + 1) = P * m + P
    OBVIOUS
  <1>2. ASSUME m < n PROVE P * m + P <= P * n
    <2> DEFINE d == n - m - 1
    <2>1. d \in Nat /\ n = m + 1 + d
      BY <1>2
    <2> HIDE DEF d
    <2>2. P * n = P * m + P + P * d
      BY <2>1
    <2>3. P * d \in Nat
      BY <2>1
    <2> QED
      BY <1>1, <2>2, <2>3
  <1> QED
    BY <1>1, <1>2

LEMMA DivMod ==
    ASSUME NEW P \in Nat \ {0}, NEW x \in Nat
    PROVE  x \div P \in Nat /\ x = P * (x \div P) + (x % P)
  OBVIOUS

LEMMA Quotient ==
    ASSUME NEW P \in Nat \ {0}, NEW x \in Nat
    PROVE  \E q \in Nat : P * q <= x /\ x < P * q + P /\ (x % P = 0 <=> x = P * q)
  <1> DEFINE q == x \div P
  <1>1. q \in Nat /\ x = P * q + (x % P)
    BY DivMod
  <1>2. x % P \in 0 .. P - 1
    OBVIOUS
  <1> HIDE DEF q
  <1>3. P * q \in Nat
    BY <1>1
  <1>4. P * q <= x /\ x < P * q + P /\ (x % P = 0 <=> x = P * q)
    BY <1>1, <1>2, <1>3
  <1> QED
    BY <1>1, <1>4

LEMMA EndsAt ==
    ASSUME NEW P \in Nat \ {0}, NEW x \in Nat
    PROVE  x % P = 0 <=> \E q \in Nat : x = P * q
  <1>1. PICK q \in Nat : P * q <= x /\ x < P * q + P /\ (x % P = 0 <=> x = P * q)
    BY Quotient
  <1>2. ASSUME NEW r \in Nat, x = P * r PROVE r = q
    <2>1. ~(r < q) /\ ~(q < r)
      BY <1>1, <1>2, Times
    <2> QED
      BY <2>1
  <1> QED
    BY <1>1, <1>2

LEMMA Gaps ==
    ASSUME NEW a \in Nat, NEW b \in Nat, a <= b
    PROVE  /\ Pieces(a, b) \in Seq(Nat) /\ Len(Pieces(a, b)) = b - a /\ DOMAIN Pieces(a, b) = 1 .. (b - a)
           /\ \A i \in 1 .. (b - a) : Pieces(a, b)[i] = a + i
  <1>1. b - a \in Nat
    OBVIOUS
  <1>2. Pieces(a, b) = [i \in 1 .. (b - a) |-> a + i]
    BY DEF Pieces
  <1> DEFINE n == b - a
  <1> HIDE DEF n
  <1>3. [i \in 1 .. n |-> a + i] \in Seq(Nat) /\ Len([i \in 1 .. n |-> a + i]) = n
    BY <1>1 DEF n
  <1> QED
    BY <1>2, <1>3 DEF n

\* Sequences put together and cut, kept apart from the provers' own encoding.
Glue(s, t) == s \o t
Cut(s, i, j) == SubSeq(s, i, j)

\* What was read before and what is read now are one stretch of the stream.
LEMMA JoinPieces ==
    ASSUME NEW a \in Nat, NEW b \in Nat, NEW d \in Nat, a <= b, b <= d
    PROVE  Glue(Pieces(a, b), Pieces(b, d)) = Pieces(a, d)
  <1> DEFINE s == Pieces(a, b)
             t == Pieces(b, d)
             u == Pieces(a, d)
  <1>0. a <= d
    OBVIOUS
  <1>a. s \in Seq(Nat) /\ Len(s) = b - a
    BY Gaps
  <1>b. t \in Seq(Nat) /\ Len(t) = d - b
    BY Gaps
  <1>c. u \in Seq(Nat) /\ Len(u) = d - a
    BY <1>0, Gaps
  <1>2. /\ \A i \in 1 .. (b - a) : s[i] = a + i
        /\ \A i \in 1 .. (d - b) : t[i] = b + i
        /\ \A i \in 1 .. (d - a) : u[i] = a + i
    BY <1>0, Gaps
  <1> HIDE DEF s, t, u
  <1>d. /\ s \o t \in Seq(Nat) /\ Len(s \o t) = Len(s) + Len(t)
        /\ \A i \in 1 .. Len(s) + Len(t) : (s \o t)[i] = IF i <= Len(s) THEN s[i] ELSE t[i - Len(s)]
    BY <1>a, <1>b, ConcatProperties
  <1>3. /\ s \o t \in Seq(Nat) /\ Len(s \o t) = d - a
        /\ \A i \in 1 .. (d - a) : (s \o t)[i] = IF i <= b - a THEN s[i] ELSE t[i - (b - a)]
    BY <1>a, <1>b, <1>d
  <1>4. \A i \in 1 .. (d - a) : (s \o t)[i] = u[i]
    BY <1>2, <1>3
  <1> DEFINE v == s \o t
  <1>5. v \in Seq(Nat) /\ Len(v) = Len(u) /\ \A i \in 1 .. Len(v) : v[i] = u[i]
    BY <1>c, <1>3, <1>4
  <1> HIDE DEF v
  <1>6. v = u
    BY <1>c, <1>5, SeqEqual
  <1> QED
    BY <1>6 DEF s, t, u, v, Glue

LEMMA SubPieces ==
    ASSUME NEW a \in Nat, NEW b \in Nat, a <= b, NEW m \in Nat, NEW n \in Nat, m <= n, n <= b - a
    PROVE  Cut(Pieces(a, b), m + 1, n) = Pieces(a + m, a + n)
  <1> DEFINE s == Pieces(a, b)
             u == Pieces(a + m, a + n)
             v == SubSeq(s, m + 1, n)
  <1>1. \A i \in 1 .. (b - a) : s[i] = a + i
    BY Gaps
  <1>2. u \in Seq(Nat) /\ Len(u) = n - m /\ \A i \in 1 .. (n - m) : u[i] = a + m + i
    <2>1. a + m \in Nat /\ a + n \in Nat /\ a + m <= a + n /\ (a + n) - (a + m) = n - m
      OBVIOUS
    <2> QED
      BY <2>1, Gaps
  <1> HIDE DEF s, u
  <1>3. \A i \in m + 1 .. n : s[i] \in Nat
    BY <1>1
  <1>4. v \in Seq(Nat) /\ Len(v) = n - m /\ \A i \in 1 .. (n - m) : v[i] = s[m + i]
    <2>1. m + 1 \in Int /\ n \in Int
      OBVIOUS
    <2>2. /\ v \in Seq(Nat) /\ Len(v) = (IF m + 1 <= n THEN n - (m + 1) + 1 ELSE 0)
          /\ \A i \in 1 .. n - (m + 1) + 1 : v[i] = s[m + 1 + i - 1]
      BY <1>3, <2>1, SubSeqProperties
    <2> HIDE DEF v
    <2> QED
      BY <2>2
  <1> HIDE DEF v
  <1>5. \A i \in 1 .. Len(v) : v[i] = u[i]
    BY <1>1, <1>2, <1>4
  <1>6. v = u
    BY <1>2, <1>4, <1>5, SeqEqual
  <1> QED
    BY <1>6 DEF s, u, v, Cut

-----------------------------------------------------------------------------
(* The lines of a chunk.                                                   *)

LEMMA Multiples ==
    ASSUME NEW P \in Nat \ {0}, NEW m \in Nat
    PROVE  IsFiniteSet({P * j : j \in 1 .. m}) /\ Cardinality({P * j : j \in 1 .. m}) = m
  <1> DEFINE S == 1 .. m
             T == {P * j : j \in 1 .. m}
             f == [j \in S |-> P * j]
  <1>1. IsFiniteSet(S) /\ Cardinality(S) = m
    BY FS_Interval
  <1>2. \A i, j \in S : P * i = P * j => i = j
    <2>1. SUFFICES ASSUME NEW i \in S, NEW j \in S, i < j PROVE P * i # P * j
      OBVIOUS
    <2>2. P * i + P <= P * j /\ P * i \in Nat
      BY <2>1, Times
    <2> QED
      BY <2>2
  <1>3. f \in Bijection(S, T)
    BY <1>2 DEF Bijection, Injection, Surjection, IsInjective
  <1> HIDE DEF S, T, f
  <1>4. ExistsBijection(S, T)
    BY <1>3 DEF ExistsBijection
  <1>5. IsFiniteSet(T) /\ Cardinality(T) = m
    BY <1>1, <1>4, FS_Bijection
  <1> QED
    BY <1>5 DEF T

LEMMA LineEndsAre ==
    ASSUME NEW P \in Nat \ {0}, NEW m \in Nat
    PROVE  LineEnds({P * j : j \in 1 .. m}) = [n \in 1 .. m |-> P * n]
  <1> DEFINE nl == {P * j : j \in 1 .. m}
  <1>1. ASSUME NEW n \in 1 .. m
        PROVE  {j \in nl : j <= P * n} = {P * j : j \in 1 .. n}
    <2>1. ASSUME NEW i \in 1 .. m PROVE P * i <= P * n <=> i <= n
      <3>1. (i < n => P * i + P <= P * n) /\ (n < i => P * n + P <= P * i) /\ P * n \in Nat /\ P * i \in Nat
        BY Times
      <3> QED
        BY <3>1
    <2>2. ASSUME NEW x \in nl, x <= P * n PROVE x \in {P * j : j \in 1 .. n}
      <3>1. PICK i \in 1 .. m : x = P * i
        OBVIOUS
      <3>2. i \in 1 .. n
        BY <2>1, <2>2, <3>1
      <3> QED
        BY <3>1, <3>2
    <2>3. ASSUME NEW i \in 1 .. n PROVE P * i \in nl /\ P * i <= P * n
      <3>1. i \in 1 .. m /\ i <= n
        OBVIOUS
      <3> QED
        BY <2>1, <3>1
    <2> QED
      BY <2>2, <2>3
  <1>2. ASSUME NEW n \in 1 .. m, NEW i \in nl
        PROVE  Cardinality({j \in nl : j <= i}) = n <=> i = P * n
    <2>1. PICK q \in 1 .. m : i = P * q
      OBVIOUS
    <2>a. {j \in nl : j <= P * q} = {P * j : j \in 1 .. q}
      BY <1>1
    <2>b. q \in Nat
      OBVIOUS
    <2>c. Cardinality({P * j : j \in 1 .. q}) = q
      BY <2>b, Multiples, Zenon
    <2>2. Cardinality({j \in nl : j <= P * q}) = q
      BY <2>a, <2>c
    <2>3. P * q = P * n => q = n
      <3>1. (q < n => P * q + P <= P * n) /\ (n < q => P * n + P <= P * q) /\ P * n \in Nat /\ P * q \in Nat
        BY Times
      <3> QED
        BY <3>1
    <2> QED
      BY <2>1, <2>2, <2>3
  <1>3. ASSUME NEW n \in 1 .. m
        PROVE  (CHOOSE i \in nl : Cardinality({j \in nl : j <= i}) = n) = P * n
    BY <1>2
  <1>4. Cardinality(nl) = m
    BY Multiples
  <1> QED
    BY <1>3, <1>4 DEF LineEnds

LEMMA NewlinesAre ==
    ASSUME Parts \in Nat \ {0}, NEW h \in Nat, NEW k \in Nat, NEW b \in Nat,
           Parts * (h + k) <= b, b < Parts * (h + k) + Parts
    PROVE  Newlines(Pieces(Parts * h, b)) = {Parts * j : j \in 1 .. k}
  <1> DEFINE P == Parts
             data == Pieces(P * h, b)
  <1>1. P * h \in Nat /\ P * k \in Nat /\ P * h <= b /\ P * (h + k) = P * h + P * k
    BY Times
  <1>2. DOMAIN data = 1 .. (b - P * h) /\ \A i \in 1 .. (b - P * h) : data[i] = P * h + i
    BY <1>1, Gaps
  <1> HIDE DEF data
  <1>3. ASSUME NEW i \in 1 .. (b - P * h)
        PROVE  (P * h + i) % P = 0 <=> \E j \in 1 .. k : i = P * j
    <2>1. P * h + i \in Nat
      BY <1>1
    <2>2. (P * h + i) % P = 0 <=> \E q \in Nat : P * h + i = P * q
      BY <2>1, EndsAt
    <2>3. ASSUME NEW q \in Nat, P * h + i = P * q PROVE \E j \in 1 .. k : i = P * j
      <3>1. h < q
        <4>1. h >= q => P * q <= P * h
          BY Times
        <4> QED
          BY <1>1, <2>3, <4>1
      <3>2. q - h \in Nat \ {0} /\ h + (q - h) = q
        BY <3>1
      <3>3. P * q = P * h + P * (q - h)
        BY <3>2, Times
      <3>4. ~(h + k < q)
        BY <1>1, <2>3, Times
      <3>5. q - h \in 1 .. k /\ i = P * (q - h)
        BY <1>1, <2>3, <3>2, <3>3, <3>4
      <3> QED
        BY <3>5
    <2>4. ASSUME NEW j \in 1 .. k, i = P * j PROVE P * h + i = P * (h + j)
      BY <2>4, Times
    <2>5. ASSUME NEW j \in 1 .. k, i = P * j PROVE \E q \in Nat : P * h + i = P * q
      <3>1. h + j \in Nat
        OBVIOUS
      <3> QED
        BY <2>4, <2>5, <3>1
    <2> QED
      BY <2>2, <2>3, <2>5
  <1>4. ASSUME NEW j \in 1 .. k PROVE P * j \in 1 .. (b - P * h)
    <2>1. P * j \in Nat /\ P * j >= 1 /\ P * j <= P * k
      BY Times
    <2> QED
      BY <1>1, <2>1
  <1>5. Newlines(data) = {i \in 1 .. (b - P * h) : (P * h + i) % P = 0}
    BY <1>2 DEF Newlines, EndsLine
  <1>6. Newlines(data) = {P * j : j \in 1 .. k}
    BY <1>3, <1>4, <1>5
  <1> QED
    BY <1>6 DEF data

LEMMA SubLines ==
    ASSUME NEW P \in Nat \ {0}, NEW h \in Nat, NEW k \in Nat, NEW b \in Nat, P * (h + k) <= b
    PROVE  /\ \A n \in 1 .. k : Cut(Pieces(P * h, b), P * (n - 1) + 1, P * n) = Pieces(P * (h + n - 1), P * (h + n))
           /\ Cut(Pieces(P * h, b), P * k + 1, b - P * h) = Pieces(P * (h + k), b)
  <1>1. PICK a \in Nat, w \in Nat, y \in Nat : a = P * h /\ w = P * k /\ y = b - a /\ a <= b /\ w <= y
    BY Times
  <1>2. ASSUME NEW n \in 1 .. k
        PROVE  Cut(Pieces(P * h, b), P * (n - 1) + 1, P * n) = Pieces(P * (h + n - 1), P * (h + n))
    <2>1. n - 1 \in Nat /\ n \in Nat /\ n <= k
      OBVIOUS
    <2>2. PICK u \in Nat, v \in Nat : u = P * (n - 1) /\ v = P * n /\ u <= v
      BY <2>1, Times
    <2>3. v <= w
      <3>1. n < k => P * n + P <= P * k
        BY <2>1, Times
      <3> QED
        BY <1>1, <2>1, <2>2, <3>1
    <2>4. P * (h + n) = P * h + P * n /\ P * (h + (n - 1)) = P * h + P * (n - 1)
      BY <2>1, Times
    <2>5. h + (n - 1) = h + n - 1
      OBVIOUS
    <2>6. P * (h + n - 1) = a + u /\ P * (h + n) = a + v
      BY <1>1, <2>2, <2>4, <2>5
    <2>7. a <= b /\ u <= v /\ v <= b - a
      BY <1>1, <2>2, <2>3
    <2>8. Cut(Pieces(a, b), u + 1, v) = Pieces(a + u, a + v)
      BY <2>7, SubPieces
    <2> QED
      BY <1>1, <2>2, <2>6, <2>8
  <1>3. Cut(Pieces(P * h, b), P * k + 1, b - P * h) = Pieces(P * (h + k), b)
    <2>1. a <= b /\ w <= y /\ y <= b - a /\ a + y = b
      BY <1>1
    <2>2. Cut(Pieces(a, b), w + 1, y) = Pieces(a + w, a + y)
      BY <2>1, SubPieces
    <2>3. P * (h + k) = a + w
      BY <1>1, Times
    <2> QED
      BY <1>1, <2>1, <2>2, <2>3
  <1> QED
    BY <1>2, <1>3

\* A chunk that starts with line h+1 and ends in line h+k+1 is cut into lines h+1 .. h+k and the rest.
CutInto(data, ends, h, k, b) ==
    /\ Len(ends) = k
    /\ \A n \in 1 .. k : CutLine(data, ends, n) = Whole(h + n)
    /\ CutRest(data, ends) = Pieces(Parts * (h + k), b)
Cutting(data, h, k, b) == CutInto(data, LineEnds(Newlines(data)), h, k, b)

LEMMA CutAt ==
    ASSUME Parts \in Nat \ {0}, NEW h \in Nat, NEW k \in Nat, NEW b \in Nat,
           Parts * (h + k) <= b, b < Parts * (h + k) + Parts
    PROVE  Cutting(Pieces(Parts * h, b), h, k, b)
  <1> DEFINE P == Parts
             data == Pieces(P * h, b)
             ends == LineEnds(Newlines(data))
  <1>1. P * h \in Nat /\ P * k \in Nat /\ P * h <= b /\ P * (h + k) = P * h + P * k
    BY Times
  <1>2. ends = [n \in 1 .. k |-> P * n]
    BY NewlinesAre, LineEndsAre
  <1>3. Len(ends) = k
    BY <1>2
  <1>4. \A n \in 0 .. k : Upto(ends, n) = P * n
    BY <1>2, Times DEF Upto
  <1>a. /\ \A n \in 1 .. k : Cut(Pieces(P * h, b), P * (n - 1) + 1, P * n) = Pieces(P * (h + n - 1), P * (h + n))
        /\ Cut(Pieces(P * h, b), P * k + 1, b - P * h) = Pieces(P * (h + k), b)
    BY SubLines, ZenonT(60)
  <1>5. ASSUME NEW n \in 1 .. k PROVE CutLine(data, ends, n) = Whole(h + n)
    <2>1. Upto(ends, n - 1) = P * (n - 1) /\ ends[n] = P * n
      BY <1>2, <1>4
    <2>2. Cut(Pieces(P * h, b), P * (n - 1) + 1, P * n) = Pieces(P * (h + n - 1), P * (h + n))
      BY <1>a
    <2> QED
      BY <2>1, <2>2 DEF Cut, CutLine, Whole
  <1>6. CutRest(data, ends) = Pieces(P * (h + k), b)
    <2>1. Len(data) = b - P * h
      BY <1>1, Gaps
    <2>2. Upto(ends, Len(ends)) = P * k
      BY <1>3, <1>4
    <2> QED
      BY <1>a, <2>1, <2>2 DEF Cut, CutRest
  <1> QED
    BY <1>3, <1>5, <1>6 DEF Cutting, CutInto

LEMMA NumberOf ==
    ASSUME Parts \in Nat \ {0}, NEW c, Script[c] \in Seq(Line), NEW n \in DOMAIN Script[c]
    PROVE  LineNo(c, Whole(n)) = n
  <1> DEFINE P == Parts
  <1>0. ASSUME NEW m \in DOMAIN Script[c] PROVE m \in Nat \ {0} /\ m - 1 \in Nat
    BY LenProperties
  <1>1. ASSUME NEW m \in DOMAIN Script[c] PROVE Whole(m)[1] = P * (m - 1) + 1
    <2>1. m \in Nat \ {0} /\ m - 1 \in Nat
      BY <1>0
    <2>2. P * (m - 1) \in Nat /\ P * m \in Nat /\ P * (m - 1) + P <= P * m
      BY <2>1, Times
    <2>3. 1 \in 1 .. (P * m - P * (m - 1))
      BY <2>2
    <2>a. P * (m - 1) <= P * m
      BY <2>2
    <2>4. Pieces(P * (m - 1), P * m)[1] = P * (m - 1) + 1
      BY <2>2, <2>3, <2>a, Gaps, Zenon
    <2> QED
      BY <2>4 DEF Whole
  <1>2. ASSUME NEW m \in DOMAIN Script[c], Whole(m) = Whole(n) PROVE m = n
    <2>1. m - 1 \in Nat /\ n - 1 \in Nat /\ m \in Nat /\ n \in Nat
      BY <1>0
    <2>a. P * (m - 1) \in Nat /\ P * (n - 1) \in Nat
      BY <2>1, Times
    <2>b. P * (m - 1) + 1 = P * (n - 1) + 1
      BY <1>1, <1>2
    <2>2. P * (m - 1) = P * (n - 1)
      BY <2>a, <2>b
    <2>3. ~(m - 1 < n - 1) /\ ~(n - 1 < m - 1)
      <3>1. m - 1 < n - 1 => P * (m - 1) + P <= P * (n - 1)
        BY <2>1, Times
      <3>2. n - 1 < m - 1 => P * (n - 1) + P <= P * (m - 1)
        BY <2>1, Times
      <3> QED
        BY <2>a, <2>2, <3>1, <3>2
    <2> QED
      BY <2>1, <2>3
  <1> QED
    BY <1>2 DEF LineNo

\* What lines h+1 .. g say of the state of the transport.
Reports(c, h, g) == transport' = [key \in Key |-> Latest(c, Pieces(h, g), key)]

\* A chunk from position a to b continues the tail: lines h+1 .. g are processed, the rest is the tail.
LEMMA Processed ==
    ASSUME Parts \in Nat \ {0}, NEW c \in Conn, Script[c] \in Seq(Line),
           NEW h \in Nat, NEW a \in Nat, NEW b \in Nat,
           Parts * h <= a, a <= b, b <= Parts * Len(Script[c]),
           tail[c] = Pieces(Parts * h, a), handled[c] = Pieces(0, h),
           Process(c, Pieces(a, b))
    PROVE  \E g \in Nat :
             /\ Parts * g <= b /\ b < Parts * g + Parts
             /\ tail' = [tail EXCEPT ![c] = Pieces(Parts * g, b)]
             /\ handled' = [handled EXCEPT ![c] = Pieces(0, g)]
             /\ h <= g /\ g <= Len(Script[c]) /\ Reports(c, h, g)
  <1> DEFINE P == Parts
  <1>1. PICK g \in Nat : P * g <= b /\ b < P * g + P
    BY Quotient
  <1>2. h <= g
    <2>1. g < h => P * g + P <= P * h
      BY Times
    <2>2. P * g \in Nat /\ P * h \in Nat
      BY Times
    <2> QED
      BY <1>1, <2>1, <2>2
  <1>3. Len(Script[c]) \in Nat /\ DOMAIN Script[c] = 1 .. Len(Script[c])
    BY LenProperties
  <1>4. g <= Len(Script[c])
    <2>1. Len(Script[c]) < g => P * Len(Script[c]) + P <= P * g
      BY <1>3, Times
    <2>2. P * g \in Nat /\ P * Len(Script[c]) \in Nat
      BY <1>3, Times
    <2> QED
      BY <1>1, <1>3, <2>1, <2>2
  <1>5. PICK k \in Nat : g = h + k
    <2>1. g - h \in Nat /\ g = h + (g - h)
      BY <1>2
    <2> QED
      BY <2>1
  <1>6. P * (h + k) <= b /\ b < P * (h + k) + P
    BY <1>1, <1>5
  <1>7. Cutting(Pieces(P * h, b), h, k, b)
    BY <1>6, CutAt, Zenon
  <1>8. PICK data \in {tail[c] \o Pieces(a, b)} : \E ends \in {LineEnds(Newlines(data))} :
          \E ns \in {[i \in 1 .. Len(ends) |-> LineNo(c, CutLine(data, ends, i))]} :
            /\ tail' = [tail EXCEPT ![c] = CutRest(data, ends)] /\ handled' = [handled EXCEPT ![c] = @ \o ns]
            /\ transport' = [key \in Key |-> Latest(c, ns, key)]
    BY Zenon DEF Process
  <1>9. data = Pieces(P * h, b)
    <2>1. P * h \in Nat
      BY Times
    <2>2. Glue(Pieces(P * h, a), Pieces(a, b)) = Pieces(P * h, b)
      BY <2>1, JoinPieces, Zenon
    <2> QED
      BY <1>8, <2>2 DEF Glue
  <1>10. PICK ends : /\ ends = LineEnds(Newlines(data))
                     /\ \E ns \in {[i \in 1 .. Len(ends) |-> LineNo(c, CutLine(data, ends, i))]} :
                          /\ tail' = [tail EXCEPT ![c] = CutRest(data, ends)] /\ handled' = [handled EXCEPT ![c] = @ \o ns]
                          /\ transport' = [key \in Key |-> Latest(c, ns, key)]
    BY <1>8
  <1>11. PICK ns : /\ ns = [i \in 1 .. Len(ends) |-> LineNo(c, CutLine(data, ends, i))]
                   /\ tail' = [tail EXCEPT ![c] = CutRest(data, ends)] /\ handled' = [handled EXCEPT ![c] = @ \o ns]
                   /\ transport' = [key \in Key |-> Latest(c, ns, key)]
    BY <1>10
  <1>12. /\ Len(ends) = k
         /\ \A n \in 1 .. k : CutLine(data, ends, n) = Whole(h + n)
         /\ CutRest(data, ends) = Pieces(P * (h + k), b)
    BY <1>9, <1>7, <1>10 DEF Cutting, CutInto
  <1>13. ASSUME NEW n \in 1 .. k PROVE LineNo(c, CutLine(data, ends, n)) = h + n
    <2>1. h + n \in DOMAIN Script[c]
      BY <1>3, <1>4, <1>5
    <2>2. LineNo(c, Whole(h + n)) = h + n
      BY <2>1, NumberOf, Zenon
    <2> QED
      BY <1>12, <2>2
  <1>14. ns = Pieces(h, g)
    <2>1. ns = [i \in 1 .. k |-> h + i]
      BY <1>11, <1>12, <1>13
    <2>2. g - h = k
      BY <1>5
    <2> QED
      BY <2>1, <2>2 DEF Pieces
  <1>15. Glue(Pieces(0, h), Pieces(h, g)) = Pieces(0, g)
    <2>1. 0 \in Nat /\ 0 <= h
      OBVIOUS
    <2> QED
      BY <1>2, <2>1, JoinPieces, Zenon
  <1>16. handled[c] \o ns = Pieces(0, g)
    BY <1>14, <1>15, Zenon DEF Glue
  <1>17. handled' = [handled EXCEPT ![c] = Pieces(0, g)]
    BY <1>11, <1>16
  <1>18. tail' = [tail EXCEPT ![c] = Pieces(P * g, b)]
    <2>1. CutRest(data, ends) = Pieces(P * g, b)
      BY <1>5, <1>12, Zenon
    <2> QED
      BY <1>11, <2>1, Zenon
  <1>19. Reports(c, h, g)
    BY <1>11, <1>14 DEF Reports
  <1> QED
    BY <1>1, <1>2, <1>4, <1>17, <1>18, <1>19

-----------------------------------------------------------------------------
(* Types.                                                                  *)

TypeInv ==
    /\ scene \in Captures
    /\ peer \in [Conn -> {"none", "open", "closed"}] /\ written \in [Conn -> Nat]
    /\ got \in [Conn -> Nat] /\ spooled \in [Conn -> Nat] /\ rd \in [Conn -> Nat] /\ md \in [Conn -> Nat]
    /\ spool_failed \in [Conn -> BOOLEAN] /\ done \in [Conn -> BOOLEAN]
    /\ backlog \in Seq(Conn) /\ conns \in Seq(Conn) /\ active \in Seq(Conn)
    /\ hand \in Conn \cup {None}
    /\ registered \in SUBSET Conn /\ refused \in SUBSET Conn /\ early \in SUBSET Conn
    /\ tail = [c \in Conn |-> tail[c]] /\ handled = [c \in Conn |-> handled[c]]
    /\ (parser \in {"spool", "mem"} => active # <<>>)
    /\ (accept = "register" => hand \in Conn)

LEMMA SceneFacts ==
    ASSUME scene \in Captures
    PROVE  /\ Parts \in Nat \ {0}
           /\ \A c \in DOMAIN Script : c \in Conn /\ Script[c] \in Seq(Line)
  <1>1. IsScene(scene)
    BY ReceiverAssumption
  <1> QED
    BY <1>1 DEF IsScene, Parts, Script

LEMMA ProcessFrame ==
    ASSUME NEW c \in Conn, NEW chunk, Process(c, chunk)
    PROVE  \E x, y : tail' = [tail EXCEPT ![c] = x] /\ handled' = [handled EXCEPT ![c] = y]
  <1>1. PICK data \in {tail[c] \o chunk} : \E ends \in {LineEnds(Newlines(data))} :
          \E ns \in {[i \in 1 .. Len(ends) |-> LineNo(c, CutLine(data, ends, i))]} :
            tail' = [tail EXCEPT ![c] = CutRest(data, ends)] /\ handled' = [handled EXCEPT ![c] = @ \o ns]
    BY Zenon DEF Process
  <1>2. PICK ends : \E ns :
            tail' = [tail EXCEPT ![c] = CutRest(data, ends)] /\ handled' = [handled EXCEPT ![c] = @ \o ns]
    BY <1>1
  <1> QED
    BY <1>2

LEMMA CurrentIn ==
    ASSUME TypeInv, active # <<>>
    PROVE  Current \in Conn /\ Current \in ToSet(active) /\ Tail(active) \in Seq(Conn)
  <1>1. active \in Seq(Conn)
    BY DEF TypeInv
  <1>2. Head(active) = active[1] /\ 1 \in DOMAIN active /\ Tail(active) \in Seq(Conn) /\ Head(active) \in Conn
    BY <1>1, HeadTailProperties
  <1> QED
    BY <1>2 DEF Current, ToSet

Once(s) == \A i, j \in DOMAIN s : s[i] = s[j] => i = j

LEMMA RemovedOnce ==
    ASSUME NEW S, NEW s \in Seq(S), Once(s), NEW c \in ToSet(s)
    PROVE  /\ Removed(s, c) \in Seq(S) /\ Once(Removed(s, c))
           /\ ToSet(Removed(s, c)) = ToSet(s) \ {c}
  <1>0. Len(s) \in Nat /\ DOMAIN s = 1 .. Len(s)
    BY LenProperties
  <1>1. PICK a \in DOMAIN s : s[a] = c
    BY DEF ToSet
  <1>2. (CHOOSE i \in DOMAIN s : s[i] = c /\ \A j \in DOMAIN s : s[j] = c => i <= j) = a
    BY <1>0, <1>1 DEF Once
  <1>3. Removed(s, c) = [i \in 1 .. (Len(s) - 1) |-> s[IF i < a THEN i ELSE i + 1]]
    BY <1>2 DEF Removed
  <1>4. Len(s) - 1 \in Nat
    BY <1>0, <1>1
  <1> DEFINE r == [i \in 1 .. (Len(s) - 1) |-> s[IF i < a THEN i ELSE i + 1]]
  <1>5. \A i \in 1 .. (Len(s) - 1) : (IF i < a THEN i ELSE i + 1) \in DOMAIN s
    BY <1>0
  <1>6. r \in Seq(S)
    BY <1>0, <1>4, <1>5
  <1>7. DOMAIN r = 1 .. (Len(s) - 1)
    OBVIOUS
  <1>8. Once(r)
    BY <1>0, <1>1, <1>5 DEF Once
  <1>9. ToSet(r) = ToSet(s) \ {c}
    <2>1. ASSUME NEW i \in DOMAIN r PROVE r[i] \in ToSet(s) /\ r[i] # c
      BY <1>0, <1>1, <1>5 DEF Once, ToSet
    <2>2. ASSUME NEW j \in DOMAIN s, s[j] # c PROVE \E i \in DOMAIN r : r[i] = s[j]
      <3>1. CASE j < a
        <4>1. j \in DOMAIN r /\ r[j] = s[j]
          BY <1>0, <1>1, <3>1
        <4> QED
          BY <4>1
      <3>2. CASE j > a
        <4>1. j - 1 \in DOMAIN r /\ r[j - 1] = s[j]
          BY <1>0, <1>1, <3>2
        <4> QED
          BY <4>1
      <3>3. j # a
        BY <1>1, <2>2
      <3> QED
        BY <1>0, <1>1, <3>1, <3>2, <3>3
    <2> HIDE DEF r
    <2> QED
      BY <2>1, <2>2 DEF ToSet
  <1> QED
    BY <1>3, <1>6, <1>8, <1>9

LEMMA AppendOnce ==
    ASSUME NEW S, NEW s \in Seq(S), Once(s), NEW c \in S, c \notin ToSet(s)
    PROVE  /\ Append(s, c) \in Seq(S) /\ Once(Append(s, c))
           /\ ToSet(Append(s, c)) = ToSet(s) \cup {c}
  <1>0. Len(s) \in Nat /\ DOMAIN s = 1 .. Len(s)
    BY LenProperties
  <1> DEFINE r == Append(s, c)
  <1>1. r \in Seq(S) /\ Len(r) = Len(s) + 1 /\ r[Len(s) + 1] = c /\ \A i \in 1 .. Len(s) : r[i] = s[i]
    BY AppendProperties
  <1>2. DOMAIN r = 1 .. (Len(s) + 1)
    BY <1>1, LenProperties
  <1> HIDE DEF r
  <1>3. \A i \in DOMAIN r : i \in DOMAIN s \/ i = Len(s) + 1
    BY <1>0, <1>2
  <1>4. Once(r)
    BY <1>0, <1>1, <1>2, <1>3 DEF Once, ToSet
  <1>5. ToSet(r) = ToSet(s) \cup {c}
    BY <1>0, <1>1, <1>2, <1>3 DEF ToSet
  <1> QED
    BY <1>1, <1>4, <1>5 DEF r

LEMMA TailOnce ==
    ASSUME NEW S, NEW s \in Seq(S), Once(s), s # <<>>
    PROVE  /\ Head(s) \in S /\ Head(s) \in ToSet(s)
           /\ Tail(s) \in Seq(S) /\ Once(Tail(s)) /\ ToSet(Tail(s)) = ToSet(s) \ {Head(s)}
  <1>0. Len(s) \in Nat \ {0} /\ DOMAIN s = 1 .. Len(s)
    BY LenProperties
  <1>1. Head(s) = s[1] /\ Head(s) \in S
    BY HeadTailProperties
  <1> DEFINE r == Tail(s)
  <1>2. r \in Seq(S) /\ Len(r) = Len(s) - 1 /\ \A i \in 1 .. Len(r) : r[i] = s[i + 1]
    BY HeadTailProperties
  <1>3. DOMAIN r = 1 .. (Len(s) - 1)
    BY <1>2, LenProperties
  <1> HIDE DEF r
  <1>4. Once(r)
    BY <1>0, <1>2, <1>3, SMTT(30) DEF Once
  <1>5. ToSet(r) = ToSet(s) \ {s[1]}
    <2>1. ASSUME NEW i \in DOMAIN r PROVE r[i] \in ToSet(s) /\ r[i] # s[1]
      <3>1. i + 1 \in DOMAIN s /\ 1 \in DOMAIN s /\ i + 1 # 1 /\ r[i] = s[i + 1]
        BY <1>0, <1>2, <1>3
      <3> QED
        BY <3>1 DEF Once, ToSet
    <2>2. ASSUME NEW j \in DOMAIN s, s[j] # s[1] PROVE \E i \in DOMAIN r : r[i] = s[j]
      <3>1. j - 1 \in DOMAIN r /\ r[j - 1] = s[j]
        BY <1>0, <1>2, <1>3, <2>2
      <3> QED
        BY <3>1
    <2> QED
      BY <2>1, <2>2 DEF ToSet
  <1>6. Head(s) \in ToSet(s)
    BY <1>0, <1>1 DEF ToSet
  <1> QED
    BY <1>1, <1>2, <1>4, <1>5, <1>6 DEF r

-----------------------------------------------------------------------------
(* Places: a connection is in listen()'s queue, in the accept thread's     *)
(* hand, or dealt with, and the parser's lists have each of theirs once.   *)

Places ==
    /\ Once(backlog) /\ Once(conns) /\ Once(active)
    /\ ToSet(active) \subseteq ToSet(conns) /\ ToSet(conns) \subseteq registered
    /\ \A c \in ToSet(backlog) : c # hand /\ c \notin registered /\ c \notin refused
    /\ hand \notin registered /\ hand \notin refused /\ (hand # None => accept = "register")
    /\ \A c \in registered : c \notin refused
    /\ \A c \in Conn : peer[c] # "none" <=> c \in ToSet(backlog) \/ c = hand \/ c \in registered \/ c \in refused
    /\ \A c \in Conn : peer[c] # "none" => c \in DOMAIN Script
    /\ \A c \in early : peer[c] # "none"
placevars == <<peer, early, backlog, hand, accept, conns, registered, refused, active, parser, scene>>

LEMMA Registers ==
    ASSUME NEW c \in Conn, conns \in Seq(Conn), Once(conns), registered \in SUBSET Conn, refused \in SUBSET Conn,
           ToSet(conns) \subseteq registered, c \notin registered, c \notin refused, Register(c)
    PROVE  /\ conns' \in Seq(Conn) /\ Once(conns') /\ ToSet(conns) \subseteq ToSet(conns') /\ ToSet(conns') \subseteq registered'
           /\ registered' \in SUBSET Conn /\ refused' \in SUBSET Conn
           /\ \/ registered' = registered \cup {c} /\ refused' = refused /\ ToSet(conns') = ToSet(conns) \cup {c}
              \/ registered' = registered /\ refused' = refused \cup {c} /\ conns' = conns
  <1>1. CASE refused' = refused \cup {c} /\ UNCHANGED <<conns, registered>>
    BY <1>1 DEF Once, ToSet
  <1>2. CASE conns' = Append(conns, c) /\ registered' = registered \cup {c} /\ refused' = refused
    <2>1. Append(conns, c) \in Seq(Conn) /\ Once(Append(conns, c)) /\ ToSet(Append(conns, c)) = ToSet(conns) \cup {c}
      BY AppendOnce
    <2> QED
      BY <1>2, <2>1
  <1> QED
    BY <1>1, <1>2 DEF Register

LEMMA InitTypes == Init => TypeInv /\ Places
  <1> SUFFICES ASSUME Init PROVE TypeInv /\ Places
    OBVIOUS
  <1>1. TypeInv
    BY SceneFacts DEF Init, TypeInv
  <1>2. Places
    BY ReceiverAssumption DEF Init, Places, Once, ToSet
  <1> QED
    BY <1>1, <1>2

\* The steps that only read places, or change none.
LEMMA PlacesUnchanged ==
    ASSUME Places, UNCHANGED placevars
    PROVE  Places'
  BY DEF Places, placevars, Once, ToSet, Script

PlacesInv == TypeInv /\ Places

LEMMA HookPlaces ==
    ASSUME PlacesInv, Hooks, UNCHANGED scene
    PROVE  PlacesInv'
  <1> USE DEF PlacesInv
  <1>1. PICK c \in Conn : Connect(c) \/ Write(c) \/ Close(c)
    BY DEF Hooks
  <1>2. CASE Connect(c)
    <2>1. c \notin ToSet(backlog)
      BY <1>2 DEF Connect, Places
    <2>2. Append(backlog, c) \in Seq(Conn) /\ Once(Append(backlog, c)) /\ ToSet(Append(backlog, c)) = ToSet(backlog) \cup {c}
      BY <2>1, AppendOnce DEF TypeInv, Places
    <2>3. c # hand /\ c \notin registered /\ c \notin refused
      BY <1>2 DEF Connect, Places
    <2>4. /\ backlog' \in Seq(Conn) /\ Once(backlog') /\ ToSet(backlog') = ToSet(backlog) \cup {c}
          /\ peer' = [peer EXCEPT ![c] = "open"] /\ c \in DOMAIN Script
          /\ \A e \in early' : e \in early \/ e = c
      BY <1>2, <2>2 DEF Connect
    <2>5. UNCHANGED <<hand, accept, conns, registered, refused, active, scene>>
      BY <1>2 DEF Connect, acceptvars, connvars, parsevars
    <2>a. \A d \in Conn : peer'[d] # "none" <=> d = c \/ peer[d] # "none"
      BY <2>4 DEF TypeInv
    <2>b. /\ \A d \in Conn : peer'[d] # "none" <=> d \in ToSet(backlog)' \/ d = hand' \/ d \in registered' \/ d \in refused'
          /\ \A d \in Conn : peer'[d] # "none" => d \in DOMAIN Script'
      BY <2>4, <2>5, <2>a DEF Places, Script
    <2>c. /\ \A d \in ToSet(backlog)' : d # hand' /\ d \notin registered' /\ d \notin refused'
          /\ \A d \in early' : peer'[d] # "none"
      BY <2>3, <2>4, <2>5, <2>a DEF TypeInv, Places
    <2>6. Places'
      BY <2>4, <2>5, <2>b, <2>c DEF Places
    <2>7. TypeInv'
      BY <1>2, <2>4 DEF TypeInv, Connect, acceptvars, connvars, readvars, parsevars
    <2> QED
      BY <2>6, <2>7
  <1>3. CASE Write(c)
    <2>0. written' \in [Conn -> Nat]
      <3>1. written' = [written EXCEPT ![c] = @ + 1]
        BY <1>3 DEF Write
      <3>2. written \in [Conn -> Nat]
        BY DEF TypeInv
      <3> QED
        BY <3>1, <3>2
    <2>1. TypeInv'
      BY <1>3, <2>0 DEF TypeInv, Write, acceptvars, connvars, readvars, parsevars
    <2>2. Places'
      BY <1>3, PlacesUnchanged DEF Write, placevars, acceptvars, connvars, parsevars
    <2> QED
      BY <2>1, <2>2
  <1>4. CASE Close(c)
    <2>1. TypeInv'
      BY <1>4 DEF TypeInv, Close, acceptvars, connvars, readvars, parsevars
    <2>2. Places'
      BY <1>4 DEF TypeInv, Close, Places, Script, acceptvars, connvars, parsevars
    <2> QED
      BY <2>1, <2>2
  <1> QED
    BY <1>1, <1>2, <1>3, <1>4

LEMMA AcceptPlaces ==
    ASSUME PlacesInv, AcceptThread, UNCHANGED scene
    PROVE  PlacesInv'
  <1> USE DEF PlacesInv
  <1>1. CASE Accept
    <2>1. /\ Head(backlog) \in Conn /\ Head(backlog) \in ToSet(backlog)
          /\ Tail(backlog) \in Seq(Conn) /\ Once(Tail(backlog)) /\ ToSet(Tail(backlog)) = ToSet(backlog) \ {Head(backlog)}
      BY <1>1, TailOnce DEF Accept, TypeInv, Places
    <2>2. /\ hand' = Head(backlog) /\ accept' = "register" /\ accept = "loop"
          /\ backlog' \in Seq(Conn) /\ Once(backlog') /\ ToSet(backlog') = ToSet(backlog) \ {Head(backlog)}
      BY <1>1, <2>1 DEF Accept
    <2>3. hand = None /\ hand \notin Conn
      BY <2>2, ReceiverAssumption DEF Places
    <2>4. UNCHANGED <<peer, early, conns, registered, refused, active, scene>>
      BY <1>1 DEF Accept, netvars, connvars, parsevars
    <2>5. Places'
      BY <2>1, <2>2, <2>3, <2>4 DEF Places, TypeInv, Script
    <2>6. TypeInv'
      BY <1>1, <2>1, <2>2 DEF TypeInv, Accept, netvars, connvars, readvars, parsevars
    <2> QED
      BY <2>5, <2>6
  <1>2. CASE AcceptRegister
    <2>1. hand \in Conn /\ hand \notin registered /\ hand \notin refused /\ Register(hand) /\ hand' = None
      BY <1>2 DEF AcceptRegister, TypeInv, Places
    <2>2. /\ conns' \in Seq(Conn) /\ Once(conns') /\ ToSet(conns) \subseteq ToSet(conns') /\ ToSet(conns') \subseteq registered'
          /\ registered' \in SUBSET Conn /\ refused' \in SUBSET Conn
          /\ \/ registered' = registered \cup {hand} /\ refused' = refused
             \/ registered' = registered /\ refused' = refused \cup {hand}
      BY <2>1, Registers DEF TypeInv, Places
    <2>3. UNCHANGED <<peer, early, backlog, active, parser, scene>> /\ accept' # "register"
      BY <1>2 DEF AcceptRegister, netvars, parsevars
    <2>4. None \notin registered' /\ None \notin refused' /\ None \notin ToSet(backlog)
      BY <2>2, ReceiverAssumption DEF TypeInv, ToSet
    <2>a. /\ \A d \in ToSet(backlog)' : d # hand' /\ d \notin registered' /\ d \notin refused'
          /\ \A d \in registered' : d \notin refused'
          /\ \A d \in Conn : peer'[d] # "none" <=> d \in ToSet(backlog)' \/ d = hand' \/ d \in registered' \/ d \in refused'
      <3>1. CASE registered' = registered \cup {hand} /\ refused' = refused
        BY <2>1, <2>3, <2>4, <3>1, ReceiverAssumption DEF Places
      <3>2. CASE registered' = registered /\ refused' = refused \cup {hand}
        BY <2>1, <2>3, <2>4, <3>2, ReceiverAssumption DEF Places
      <3> QED
        BY <2>2, <3>1, <3>2
    <2>b. /\ \A d \in Conn : peer'[d] # "none" => d \in DOMAIN Script'
          /\ \A d \in early' : peer'[d] # "none"
      BY <2>3 DEF Places, Script
    <2>5. Places'
      BY <2>1, <2>2, <2>3, <2>4, <2>a, <2>b DEF Places
    <2>6. TypeInv'
      BY <1>2, <2>1, <2>2, <2>3 DEF TypeInv, AcceptRegister, netvars, readvars, parsevars
    <2> QED
      BY <2>5, <2>6
  <1>3. CASE AcceptEnds
    <2>1. TypeInv'
      BY <1>3 DEF TypeInv, AcceptEnds, netvars, connvars, readvars, parsevars
    <2>2. Places'
      BY <1>3 DEF TypeInv, AcceptEnds, Places, Script, netvars, connvars, parsevars
    <2> QED
      BY <2>1, <2>2
  <1> QED
    BY <1>1, <1>2, <1>3 DEF AcceptThread

LEMMA ReaderPlaces ==
    ASSUME PlacesInv, NEW c \in Conn, Reader(c), UNCHANGED scene
    PROVE  PlacesInv'
  <1>1. UNCHANGED placevars /\ UNCHANGED <<written, rd, md, tail, handled>>
    BY DEF Reader, Recv, WriteSpool, SpoolFails, ReaderEnds, placevars, netvars, acceptvars, connvars, parsevars
  <1>2. got' \in [Conn -> Nat] /\ spool_failed' \in [Conn -> BOOLEAN] /\ done' \in [Conn -> BOOLEAN]
    BY DEF Reader, Recv, WriteSpool, SpoolFails, ReaderEnds, readvars, PlacesInv, TypeInv
  <1>3. spooled' \in [Conn -> Nat]
    <2>1. CASE WriteSpool(c)
      <3>1. PICK n \in 1 .. InHand(c) : spooled' = [spooled EXCEPT ![c] = @ + n]
        BY <2>1 DEF WriteSpool
      <3>2. InHand(c) \in Int
        BY DEF InHand, PlacesInv, TypeInv
      <3>3. n \in Nat
        BY <3>2
      <3>4. spooled \in [Conn -> Nat]
        BY DEF PlacesInv, TypeInv
      <3> QED
        BY <3>1, <3>3, <3>4
    <2>2. CASE ~WriteSpool(c)
      BY <2>2 DEF Reader, Recv, SpoolFails, ReaderEnds, PlacesInv, TypeInv
    <2> QED
      BY <2>1, <2>2
  <1>4. TypeInv'
    BY <1>1, <1>2, <1>3 DEF PlacesInv, TypeInv, placevars
  <1>5. Places'
    BY <1>1, PlacesUnchanged DEF PlacesInv
  <1> QED
    BY <1>4, <1>5 DEF PlacesInv

LEMMA ParserPlaces ==
    ASSUME PlacesInv, Parser, UNCHANGED scene
    PROVE  PlacesInv'
  <1> USE DEF PlacesInv
  <1>1. CASE StartPass
    <2>1. active' = conns /\ parser' = "next"
          /\ UNCHANGED <<peer, early, backlog, hand, accept, conns, registered, refused, scene>>
      BY <1>1 DEF StartPass, parseframe, netvars, acceptvars
    <2>2. Places'
      BY <2>1 DEF Places, Script
    <2>3. TypeInv'
      BY <1>1, <2>1 DEF StartPass, TypeInv, parseframe, netvars, readvars
    <2> QED
      BY <2>2, <2>3
  <1>2. CASE NextConn \/ SpoolRead \/ EndPass
    <2>1. UNCHANGED <<peer, early, backlog, hand, accept, conns, registered, refused, active, scene>>
          /\ (parser' \in {"spool", "mem"} => active # <<>>)
      BY <1>2 DEF NextConn, SpoolRead, EndPass, TypeInv, parseframe, netvars, acceptvars
    <2>2. Places'
      BY <2>1 DEF Places, Script
    <2>3. UNCHANGED <<written, got, spooled, spool_failed, done, rd, md, tail, handled>>
      BY <1>2 DEF NextConn, SpoolRead, EndPass, parseframe, netvars, readvars
    <2>4. TypeInv'
      BY <2>1, <2>3 DEF TypeInv
    <2> QED
      BY <2>2, <2>4
  <1>3. ASSUME ReadSpool \/ PopMem PROVE PlacesInv'
    <2>1. active # <<>> /\ Current \in Conn
      BY <1>3, CurrentIn DEF ReadSpool, PopMem, TypeInv
    <2>2. UNCHANGED <<peer, early, backlog, hand, accept, conns, registered, refused, active, parser, scene>>
          /\ UNCHANGED <<written, got, spooled, spool_failed, done>>
      BY <1>3 DEF ReadSpool, PopMem, parseframe, netvars, acceptvars, readvars
    <2>3. \E x, y : tail' = [tail EXCEPT ![Current] = x] /\ handled' = [handled EXCEPT ![Current] = y]
      <3>1. PICK chunk : Process(Current, chunk)
        BY <1>3 DEF ReadSpool, PopMem
      <3> QED
        BY <2>1, <3>1, ProcessFrame
    <2>4. rd' \in [Conn -> Nat] /\ md' \in [Conn -> Nat]
      <3>1. CASE ReadSpool
        BY <3>1 DEF ReadSpool, SpoolEnd, TypeInv
      <3>2. CASE PopMem
        <4>1. InMem(Current) \in Int
          <5>1. got[Current] \in Nat /\ spooled[Current] \in Nat
            BY <2>1 DEF TypeInv
          <5> QED
            BY <5>1 DEF InMem
        <4>a. md[Current] < InMem(Current) /\ md[Current] \in Nat
          BY <2>1, <3>2 DEF PopMem, TypeInv
        <4>2. InMem(Current) \in Nat
          BY <4>1, <4>a
        <4> QED
          BY <3>2, <4>2 DEF PopMem, TypeInv
      <3> QED
        BY <1>3, <3>1, <3>2
    <2>5. tail' = [c \in Conn |-> tail'[c]] /\ handled' = [c \in Conn |-> handled'[c]]
      BY <2>3 DEF TypeInv
    <2>6. TypeInv'
      BY <2>1, <2>2, <2>4, <2>5 DEF TypeInv
    <2>7. Places'
      BY <2>2, PlacesUnchanged DEF placevars
    <2> QED
      BY <2>6, <2>7
  <1>4. CASE ConnDrained
    <2>1. /\ Current \in Conn /\ Current \in ToSet(active)
          /\ Tail(active) \in Seq(Conn) /\ Once(Tail(active)) /\ ToSet(Tail(active)) = ToSet(active) \ {Current}
      BY <1>4, TailOnce DEF ConnDrained, TypeInv, Places, Current
    <2>2. /\ Removed(conns, Current) \in Seq(Conn) /\ Once(Removed(conns, Current))
          /\ ToSet(Removed(conns, Current)) = ToSet(conns) \ {Current}
      BY <2>1, RemovedOnce DEF TypeInv, Places
    <2>3. conns' = Removed(conns, Current) \/ conns' = conns
      BY <1>4 DEF ConnDrained
    <2>4. active' = Tail(active) /\ parser' = "next"
          /\ UNCHANGED <<peer, early, backlog, hand, accept, registered, refused, scene>>
      BY <1>4 DEF ConnDrained, parseframe, netvars, acceptvars
    <2>5. conns' \in Seq(Conn) /\ Once(conns') /\ ToSet(active') \subseteq ToSet(conns') /\ ToSet(conns') \subseteq registered
      BY <2>1, <2>2, <2>3, <2>4 DEF TypeInv, Places
    <2>6. Places'
      BY <2>1, <2>4, <2>5 DEF Places, Script
    <2>7. tail' = [c \in Conn |-> tail'[c]]
      BY <1>4 DEF ConnDrained, FinishConn, TypeInv
    <2>8. UNCHANGED <<written, got, spooled, spool_failed, done, rd, md, handled>>
      BY <1>4 DEF ConnDrained, parseframe, netvars, readvars
    <2>9. TypeInv'
      BY <2>1, <2>4, <2>5, <2>7, <2>8 DEF TypeInv
    <2> QED
      BY <2>6, <2>9
  <1> QED
    BY <1>1, <1>2, <1>3, <1>4 DEF Parser

LEMMA FinishPlaces ==
    ASSUME PlacesInv, Finish \/ Finishing, UNCHANGED scene
    PROVE  PlacesInv'
  <1> USE DEF PlacesInv
  <1>1. CASE AcceptPending
    <2> DEFINE c == Head(backlog)
    <2>1. /\ c \in Conn /\ c \in ToSet(backlog)
          /\ Tail(backlog) \in Seq(Conn) /\ Once(Tail(backlog)) /\ ToSet(Tail(backlog)) = ToSet(backlog) \ {c}
      BY <1>1, TailOnce DEF AcceptPending, TypeInv, Places
    <2>2. c # hand /\ c \notin registered /\ c \notin refused /\ Register(c) /\ backlog' = Tail(backlog)
      BY <1>1, <2>1 DEF AcceptPending, Places
    <2> HIDE DEF c
    <2>3. /\ conns' \in Seq(Conn) /\ Once(conns') /\ ToSet(conns) \subseteq ToSet(conns') /\ ToSet(conns') \subseteq registered'
          /\ registered' \in SUBSET Conn /\ refused' \in SUBSET Conn
          /\ \/ registered' = registered \cup {c} /\ refused' = refused
             \/ registered' = registered /\ refused' = refused \cup {c}
      BY <2>1, <2>2, Registers DEF TypeInv, Places
    <2>4. UNCHANGED <<peer, early, hand, accept, active, parser, scene>>
      BY <1>1 DEF AcceptPending, endframe, netvars, acceptvars, parsevars
    <2>a. /\ \A d \in ToSet(backlog)' : d # hand' /\ d \notin registered' /\ d \notin refused'
          /\ \A d \in registered' : d \notin refused'
          /\ \A d \in Conn : peer'[d] # "none" <=> d \in ToSet(backlog)' \/ d = hand' \/ d \in registered' \/ d \in refused'
          /\ hand' \notin registered' /\ hand' \notin refused'
      <3>1. CASE registered' = registered \cup {c} /\ refused' = refused
        BY <2>1, <2>2, <2>4, <3>1 DEF Places
      <3>2. CASE registered' = registered /\ refused' = refused \cup {c}
        BY <2>1, <2>2, <2>4, <3>2 DEF Places
      <3> QED
        BY <2>3, <3>1, <3>2
    <2>b. /\ \A d \in Conn : peer'[d] # "none" => d \in DOMAIN Script'
          /\ \A d \in early' : peer'[d] # "none"
      BY <2>4 DEF Places, Script
    <2>5. Places'
      BY <2>1, <2>2, <2>3, <2>4, <2>a, <2>b DEF Places
    <2>6. TypeInv'
      BY <1>1, <2>1, <2>2, <2>3, <2>4 DEF TypeInv, AcceptPending, endframe, netvars, readvars, parsevars
    <2> QED
      BY <2>5, <2>6
  <1>2. CASE Finish \/ JoinAccept \/ PendingDone \/ WaitOver \/ JoinReaders \/ FinishReturns
    <2>1. UNCHANGED placevars /\ UNCHANGED <<written, got, spooled, spool_failed, done, rd, md, tail, handled>>
      BY <1>2 DEF Finish, JoinAccept, PendingDone, WaitOver, JoinReaders, FinishReturns, placevars, endframe,
                  netvars, acceptvars, connvars, readvars, parsevars
    <2>2. TypeInv'
      BY <2>1 DEF TypeInv, placevars
    <2> QED
      BY <2>1, <2>2, PlacesUnchanged
  <1> QED
    BY <1>1, <1>2 DEF Finishing

LEMMA PlacesStep == PlacesInv /\ [Next]_vars => PlacesInv'
  <1> SUFFICES ASSUME PlacesInv, [Next]_vars PROVE PlacesInv'
    OBVIOUS
  <1>1. CASE UNCHANGED vars
    <2>1. UNCHANGED placevars /\ UNCHANGED <<written, got, spooled, spool_failed, done, rd, md, tail, handled>>
      BY <1>1 DEF vars, running, placevars, netvars, acceptvars, connvars, readvars, parsevars
    <2>2. TypeInv'
      BY <2>1 DEF PlacesInv, TypeInv, placevars
    <2> QED
      BY <2>1, <2>2, PlacesUnchanged DEF PlacesInv
  <1>2. CASE Next
    BY <1>2, HookPlaces, AcceptPlaces, ReaderPlaces, ParserPlaces, FinishPlaces DEF Next
  <1> QED
    BY <1>1, <1>2

(* A connection is in one place, the queue of listen(), the accept thread's *)
(* hand or dealt with, and the parser works through a list without repeats  *)
(* of connections that are still listed (_accept_loop, _register,           *)
(* _parse_loop).                                                            *)
THEOREM PlacesAlways == Spec => []PlacesInv
  <1>1. Init => PlacesInv
    BY InitTypes DEF PlacesInv
  <1> QED
    BY <1>1, PlacesStep, PTL DEF Spec

-----------------------------------------------------------------------------
(* Positions: what is parsed was spooled, what is spooled was received,    *)
(* what was received was written, and all of it is in the script.          *)

Size(c) == Parts * Len(Script[c])

StreamAt(c) ==
    /\ rd[c] <= spooled[c] /\ spooled[c] <= got[c] /\ got[c] <= written[c]
    /\ c \in DOMAIN Script => written[c] <= Size(c)
    /\ md[c] <= InMem(c)
    /\ done[c] => got[c] = written[c] /\ InHand(c) = 0 /\ (peer[c] = "closed" \/ c \in shut)
Stream == \A c \in Conn : StreamAt(c)
StreamInv == PlacesInv /\ Stream
streamvars == <<rd, spooled, got, written, md, done, spool_failed, peer, shut, scene>>

LEMMA Sizes ==
    ASSUME scene \in Captures, NEW c \in DOMAIN Script
    PROVE  Size(c) \in Nat
  <1>1. Len(Script[c]) \in Nat /\ Parts \in Nat \ {0}
    BY SceneFacts, LenProperties
  <1> QED
    BY <1>1, Times DEF Size

LEMMA StreamUnchanged ==
    ASSUME Stream, UNCHANGED streamvars
    PROVE  Stream'
  BY DEF Stream, StreamAt, streamvars, InMem, InHand, Script, Parts, Size

LEMMA HookStream ==
    ASSUME StreamInv, Hooks, UNCHANGED scene
    PROVE  Stream'
  <1>1. PICK c \in Conn : Connect(c) \/ Write(c) \/ Close(c)
    BY DEF Hooks
  <1>2. CASE Connect(c) \/ Close(c)
    <2>1. UNCHANGED <<rd, spooled, got, written, md, done, spool_failed, shut, scene>>
      BY <1>2 DEF Connect, Close, readvars, parsevars, endvars
    <2>2. \A d \in Conn : peer[d] = "closed" => peer'[d] = "closed"
      BY <1>2 DEF Connect, Close, StreamInv, PlacesInv, TypeInv
    <2> QED
      BY <2>1, <2>2 DEF StreamInv, Stream, StreamAt, InMem, InHand, Script, Parts, Size
  <1>3. CASE Write(c)
    <2>1. written' = [written EXCEPT ![c] = @ + 1] /\ written[c] < Size(c) /\ c \in DOMAIN Script /\ ~done[c]
      <3>1. ~done[c]
        BY <1>3 DEF Write, StreamInv, Stream, StreamAt
      <3>2. peer[c] # "none"
        BY <1>3 DEF Write
      <3> QED
        BY <1>3, <3>1, <3>2 DEF Write, Size, StreamInv, PlacesInv, Places
    <2>2. UNCHANGED <<rd, spooled, got, md, done, spool_failed, peer, shut, scene>>
      BY <1>3 DEF Write, readvars, parsevars, endvars
    <2>3. Size(c) \in Nat
      BY <2>1, Sizes DEF StreamInv, PlacesInv, TypeInv
    <2>4. ASSUME NEW d \in Conn PROVE StreamAt(d)'
      <3>1. CASE d # c
        <4>1. written'[d] = written[d]
          BY <2>1, <3>1 DEF StreamInv, PlacesInv, TypeInv
        <4> QED
          BY <2>2, <4>1 DEF StreamInv, Stream, StreamAt, InMem, InHand, Script, Parts, Size
      <3>2. CASE d = c
        <4>1. written'[d] = written[d] + 1 /\ written[d] \in Nat /\ got[d] \in Nat
          BY <2>1, <3>2 DEF StreamInv, PlacesInv, TypeInv
        <4>2. Size(d)' = Size(d)
          BY DEF Size, Script, Parts
        <4>3. rd[d] <= spooled[d] /\ spooled[d] <= got[d] /\ got[d] <= written[d] /\ md[d] <= InMem(d)
          BY DEF StreamInv, Stream, StreamAt
        <4>4. InMem(d)' = InMem(d)
          BY <2>2 DEF InMem
        <4> QED
          BY <2>1, <2>2, <2>3, <3>2, <4>1, <4>2, <4>3, <4>4 DEF StreamAt
      <3> QED
        BY <3>1, <3>2
    <2> QED
      BY <2>4 DEF Stream
  <1> QED
    BY <1>1, <1>2, <1>3

LEMMA ReaderStream ==
    ASSUME StreamInv, NEW c \in Conn, Reader(c), UNCHANGED scene
    PROVE  Stream'
  <1>1. UNCHANGED <<rd, written, md, peer, shut, scene>> /\ ~done[c]
    BY DEF Reader, Recv, WriteSpool, SpoolFails, ReaderEnds, ReaderAt, netvars, parsevars, endvars
  <1>2. /\ got[c] \in Nat /\ spooled[c] \in Nat /\ rd[c] \in Nat /\ md[c] \in Nat /\ written[c] \in Nat
        /\ spool_failed[c] \in BOOLEAN
    BY DEF StreamInv, PlacesInv, TypeInv
  <1>3. rd[c] <= spooled[c] /\ spooled[c] <= got[c] /\ got[c] <= written[c] /\ md[c] <= InMem(c)
        /\ (c \in DOMAIN Script => written[c] <= Size(c))
    BY DEF StreamInv, Stream, StreamAt
  <1>4. Size(c)' = Size(c) /\ Script' = Script
    BY DEF Size, Script, Parts
  <1>5. StreamAt(c)'
    <2>1. CASE Recv(c)
      <3>1. got'[c] = written[c] /\ UNCHANGED <<spooled, spool_failed, done>>
        BY <2>1 DEF Recv, StreamInv, PlacesInv, TypeInv
      <3>2. InMem(c) <= InMem(c)' /\ InMem(c) \in Int /\ InMem(c)' \in Int
        BY <1>2, <1>3, <3>1 DEF InMem
      <3> QED
        BY <1>1, <1>2, <1>3, <1>4, <3>1, <3>2 DEF StreamAt
    <2>2. CASE WriteSpool(c)
      <3>1. PICK n \in 1 .. InHand(c) : spooled' = [spooled EXCEPT ![c] = @ + n]
        BY <2>2 DEF WriteSpool
      <3>2. UNCHANGED <<got, spool_failed, done>> /\ spooled'[c] = spooled[c] + n
        BY <2>2, <3>1 DEF WriteSpool, StreamInv, PlacesInv, TypeInv
      <3>3. ~spool_failed[c] /\ InHand(c) = got[c] - spooled[c] /\ InMem(c) = 0 /\ InMem(c)' = 0
        BY <1>2, <3>2 DEF InHand, InMem
      <3> QED
        BY <1>1, <1>2, <1>3, <1>4, <3>1, <3>2, <3>3 DEF StreamAt
    <2>3. CASE SpoolFails(c)
      <3>1. UNCHANGED <<got, spooled, done>> /\ spool_failed'[c]
        BY <2>3 DEF SpoolFails, StreamInv, PlacesInv, TypeInv
      <3>2. InMem(c) <= InMem(c)' /\ InMem(c) \in Int /\ InMem(c)' \in Int
        BY <1>2, <1>3, <3>1 DEF InMem
      <3> QED
        BY <1>1, <1>2, <1>3, <1>4, <3>1, <3>2 DEF StreamAt
    <2>4. CASE ReaderEnds(c)
      <3>1. UNCHANGED <<got, spooled, spool_failed>> /\ InHand(c) = 0 /\ got[c] = written[c] /\ (peer[c] = "closed" \/ c \in shut)
        BY <2>4 DEF ReaderEnds
      <3>2. InMem(c)' = InMem(c) /\ InHand(c)' = InHand(c)
        BY <3>1 DEF InMem, InHand
      <3> QED
        BY <1>1, <1>2, <1>3, <1>4, <3>1, <3>2 DEF StreamAt
    <2> QED
      BY <2>1, <2>2, <2>3, <2>4 DEF Reader
  <1>6. ASSUME NEW d \in Conn, d # c PROVE StreamAt(d)'
    <2>1. got'[d] = got[d] /\ spooled'[d] = spooled[d] /\ spool_failed'[d] = spool_failed[d] /\ done'[d] = done[d]
      BY <1>6 DEF Reader, Recv, WriteSpool, SpoolFails, ReaderEnds, StreamInv, PlacesInv, TypeInv
    <2> QED
      BY <1>1, <2>1 DEF StreamInv, Stream, StreamAt, InMem, InHand, Script, Parts, Size
  <1> QED
    BY <1>5, <1>6 DEF Stream

LEMMA OtherStream ==
    ASSUME StreamInv, AcceptThread \/ Parser \/ Finish \/ Finishing, UNCHANGED scene
    PROVE  Stream'
  <1>1. UNCHANGED <<written, peer, got, spooled, spool_failed, done>>
    BY DEF AcceptThread, Accept, AcceptRegister, AcceptEnds, Parser, StartPass, NextConn, ReadSpool, SpoolRead, PopMem,
           ConnDrained, EndPass, Finish, Finishing, JoinAccept, AcceptPending, PendingDone, WaitOver, JoinReaders,
           FinishReturns, parseframe, endframe, netvars, readvars
  <1>2. \A c \in shut : c \in shut'
    BY DEF AcceptThread, Accept, AcceptRegister, AcceptEnds, Parser, StartPass, NextConn, ReadSpool, SpoolRead, PopMem,
           ConnDrained, EndPass, Finish, Finishing, JoinAccept, AcceptPending, PendingDone, WaitOver, ShutOpen,
           JoinReaders, FinishReturns, parseframe, endvars
  <1>3. \A c \in Conn : InMem(c)' = InMem(c) /\ InHand(c)' = InHand(c) /\ Size(c)' = Size(c) /\ Script' = Script
    BY <1>1 DEF InMem, InHand, Size, Script, Parts
  <1>4. \A c \in Conn : (rd'[c] = rd[c] \/ rd'[c] = spooled[c]) /\ (md'[c] = md[c] \/ md'[c] = InMem(c))
    <2>1. CASE ReadSpool
      BY <2>1 DEF ReadSpool, SpoolEnd, StreamInv, PlacesInv, TypeInv
    <2>2. CASE PopMem
      BY <2>2 DEF PopMem, StreamInv, PlacesInv, TypeInv
    <2>3. CASE ~ReadSpool /\ ~PopMem
      BY <2>3 DEF AcceptThread, Accept, AcceptRegister, AcceptEnds, Parser, StartPass, NextConn, SpoolRead,
           ConnDrained, EndPass, Finish, Finishing, JoinAccept, AcceptPending, PendingDone, WaitOver, JoinReaders,
           FinishReturns, endframe, parsevars
    <2> QED
      BY <2>1, <2>2, <2>3
  <1>5. \A c \in Conn : InMem(c) \in Int /\ spooled[c] \in Nat
    BY DEF StreamInv, PlacesInv, TypeInv, InMem
  <1> QED
    BY <1>1, <1>2, <1>3, <1>4, <1>5 DEF StreamInv, Stream, StreamAt

LEMMA StreamStep == StreamInv /\ [Next]_vars => StreamInv'
  <1> SUFFICES ASSUME StreamInv, [Next]_vars PROVE StreamInv'
    OBVIOUS
  <1>1. PlacesInv'
    BY PlacesStep DEF StreamInv
  <1>2. CASE UNCHANGED vars
    <2>1. UNCHANGED streamvars
      BY <1>2 DEF vars, running, streamvars, netvars, readvars, parsevars, endvars
    <2>2. Stream'
      BY <2>1, StreamUnchanged DEF StreamInv
    <2> QED
      BY <1>1, <2>2 DEF StreamInv
  <1>3. CASE Next
    <2>1. UNCHANGED scene
      BY <1>3 DEF Next
    <2>2. Hooks \/ (\E c \in Conn : Reader(c)) \/ (AcceptThread \/ Parser \/ Finish \/ Finishing)
      BY <1>3 DEF Next
    <2>3. Stream'
      BY <2>1, <2>2, HookStream, ReaderStream, OtherStream
    <2> QED
      BY <1>1, <2>3 DEF StreamInv
  <1> QED
    BY <1>2, <1>3

(* The parser is never ahead of the spool, the spool never ahead of recv()  *)
(* and recv() never ahead of the hook; a reader that is done has read and   *)
(* put away all its hook wrote (_read_loop, _drain_conn).                   *)
THEOREM StreamAlways == Spec => []StreamInv
  <1>1. Init => StreamInv
    <2> SUFFICES ASSUME Init PROVE StreamInv
      OBVIOUS
    <2>1. PlacesInv
      BY InitTypes DEF PlacesInv
    <2>2. ASSUME NEW c \in DOMAIN Script PROVE Size(c) \in Nat
      BY <2>1, Sizes DEF PlacesInv, TypeInv
    <2>3. \A c \in Conn : InMem(c) = 0
      BY DEF Init, InMem
    <2>4. Stream
      BY <2>2, <2>3 DEF Init, Stream, StreamAt
    <2> QED
      BY <2>1, <2>4 DEF StreamInv
  <1> QED
    BY <1>1, StreamStep, PTL DEF Spec

-----------------------------------------------------------------------------
(* Order: the lines processed are 1, 2, ..., h and the tail is what was    *)
(* read of line h+1.                                                       *)

HeardAt(c, h) ==
    /\ Parts * h <= rd[c] /\ rd[c] < Parts * h + Parts
    /\ handled[c] = Pieces(0, h)
    /\ (c \in registered /\ c \notin ToSet(conns)) \/ tail[c] = Pieces(Parts * h, rd[c])
OrderAt(c) == ~spool_failed[c] => \E h \in Nat : HeardAt(c, h)
Order == \A c \in Conn : OrderAt(c)
OrderInv == StreamInv /\ Order

LEMMA OrderKept ==
    ASSUME OrderInv, NEW c \in Conn, rd'[c] = rd[c], handled'[c] = handled[c], tail'[c] = tail[c], UNCHANGED scene,
           spool_failed[c] => spool_failed'[c],
           c \in registered /\ c \notin ToSet(conns) => c \in registered' /\ c \notin ToSet(conns)'
    PROVE  OrderAt(c)'
  BY DEF OrderInv, Order, OrderAt, HeardAt, Parts

\* What is registered in a step is new.
LEMMA ListedStays ==
    ASSUME PlacesInv, [Next]_vars
    PROVE  /\ \A c \in registered : c \notin ToSet(conns) => c \in registered' /\ c \notin ToSet(conns)'
           /\ \A c \in registered' : c \notin ToSet(conns)' =>
                (c \in registered /\ c \notin ToSet(conns)) \/ (ConnDrained /\ Ended /\ c = Current)
  <1>1. CASE AcceptRegister
    <2>1. hand \in Conn /\ hand \notin registered /\ hand \notin refused /\ Register(hand)
      BY <1>1 DEF AcceptRegister, PlacesInv, TypeInv, Places
    <2>2. \/ registered' = registered \cup {hand} /\ ToSet(conns') = ToSet(conns) \cup {hand}
          \/ UNCHANGED <<registered, conns>>
      BY <2>1, Registers DEF PlacesInv, TypeInv, Places
    <2> QED
      BY <2>1, <2>2
  <1>2. CASE AcceptPending
    <2>1. Head(backlog) \in Conn /\ Head(backlog) \in ToSet(backlog)
      BY <1>2, TailOnce DEF AcceptPending, PlacesInv, TypeInv, Places
    <2>2. Head(backlog) \notin registered /\ Head(backlog) \notin refused /\ Register(Head(backlog))
      BY <1>2, <2>1 DEF AcceptPending, PlacesInv, Places
    <2>3. \/ registered' = registered \cup {Head(backlog)} /\ ToSet(conns') = ToSet(conns) \cup {Head(backlog)}
          \/ UNCHANGED <<registered, conns>>
      BY <2>1, <2>2, Registers DEF PlacesInv, TypeInv, Places
    <2> QED
      BY <2>2, <2>3
  <1>3. CASE ConnDrained
    <2>1. Current \in ToSet(active)
      BY <1>3, CurrentIn DEF ConnDrained, PlacesInv, TypeInv
    <2>2. ToSet(Removed(conns, Current)) = ToSet(conns) \ {Current}
      BY <2>1, RemovedOnce DEF PlacesInv, TypeInv, Places
    <2>3. registered' = registered /\ (conns' = conns \/ (Ended /\ conns' = Removed(conns, Current)))
      BY <1>3 DEF ConnDrained, parseframe
    <2> QED
      BY <1>3, <2>2, <2>3
  <1>4. CASE UNCHANGED <<registered, conns>>
    BY <1>4
  <1>5. AcceptRegister \/ AcceptPending \/ ConnDrained \/ UNCHANGED <<registered, conns>>
    BY DEF Next, Hooks, Connect, Write, Close, AcceptThread, Accept, AcceptEnds, Reader, Recv, WriteSpool, SpoolFails,
           ReaderEnds, Parser, StartPass, NextConn, ReadSpool, SpoolRead, PopMem, EndPass, Finish, Finishing, JoinAccept,
           PendingDone, WaitOver, JoinReaders, FinishReturns, parseframe, connvars, vars, running
  <1> QED
    BY <1>1, <1>2, <1>3, <1>4, <1>5

\* What the parser makes of the spool of a connection whose spool did not fail.
LEMMA ReadSays ==
    ASSUME OrderInv, ReadSpool, UNCHANGED scene, ~spool_failed[Current]
    PROVE  \E h, g \in Nat :
             /\ handled[Current] = Pieces(0, h) /\ handled' = [handled EXCEPT ![Current] = Pieces(0, g)]
             /\ h <= g /\ g <= Len(Script[Current])
             /\ Parts * g <= spooled[Current] /\ spooled[Current] < Parts * g + Parts
             /\ tail' = [tail EXCEPT ![Current] = Pieces(Parts * g, spooled[Current])]
             /\ Reports(Current, h, g)
  <1>1. PICK c \in Conn : c = Current /\ c \in ToSet(active)
    BY CurrentIn DEF ReadSpool, OrderInv, StreamInv, PlacesInv, TypeInv
  <1>2. c \in ToSet(conns) /\ c \in DOMAIN Script
    BY <1>1 DEF OrderInv, StreamInv, PlacesInv, Places
  <1>3. Process(c, Pieces(rd[c], spooled[c]))
    BY <1>1 DEF ReadSpool, SpoolEnd
  <1>4. Parts \in Nat \ {0} /\ Script[c] \in Seq(Line)
    BY <1>2, SceneFacts DEF OrderInv, StreamInv, PlacesInv, TypeInv
  <1>5. rd[c] \in Nat /\ spooled[c] \in Nat /\ rd[c] <= spooled[c] /\ spooled[c] <= Parts * Len(Script[c])
    <2>1. rd[c] \in Nat /\ spooled[c] \in Nat /\ got[c] \in Nat /\ written[c] \in Nat
      BY <1>1 DEF OrderInv, StreamInv, PlacesInv, TypeInv
    <2>2. rd[c] <= spooled[c] /\ spooled[c] <= got[c] /\ got[c] <= written[c] /\ written[c] <= Size(c)
      BY <1>1, <1>2 DEF OrderInv, StreamInv, Stream, StreamAt
    <2>3. Size(c) \in Nat
      BY <1>2, Sizes DEF OrderInv, StreamInv, PlacesInv, TypeInv
    <2>4. spooled[c] <= Size(c)
      BY <2>1, <2>2, <2>3
    <2> QED
      BY <2>1, <2>2, <2>4 DEF Size
  <1>6. PICK h \in Nat : HeardAt(c, h)
    BY <1>1 DEF OrderInv, Order, OrderAt
  <1>7. PICK a \in Nat, b \in Nat : a = rd[c] /\ b = spooled[c]
    BY <1>5
  <1>8. tail[c] = Pieces(Parts * h, a) /\ handled[c] = Pieces(0, h)
    BY <1>2, <1>6, <1>7 DEF HeardAt
  <1>9. Parts * h <= a /\ a <= b /\ b <= Parts * Len(Script[c])
    BY <1>5, <1>6, <1>7 DEF HeardAt
  <1>10. Process(c, Pieces(a, b))
    BY <1>3, <1>7
  <1>11. \E g \in Nat : /\ Parts * g <= b /\ b < Parts * g + Parts
                         /\ tail' = [tail EXCEPT ![c] = Pieces(Parts * g, b)]
                         /\ handled' = [handled EXCEPT ![c] = Pieces(0, g)]
                         /\ h <= g /\ g <= Len(Script[c]) /\ Reports(c, h, g)
    BY <1>4, <1>8, <1>9, <1>10, Processed, Zenon
  <1> QED
    BY <1>1, <1>7, <1>8, <1>11

LEMMA ReadOrder ==
    ASSUME OrderInv, ReadSpool, UNCHANGED scene
    PROVE  Order'
  <1>1. PICK c \in Conn : c = Current
    BY CurrentIn DEF ReadSpool, OrderInv, StreamInv, PlacesInv, TypeInv
  <1>3. /\ Process(c, Pieces(rd[c], spooled[c])) /\ rd' = [rd EXCEPT ![c] = spooled[c]]
        /\ UNCHANGED <<registered, conns, spool_failed>>
    BY <1>1 DEF ReadSpool, SpoolEnd, parseframe, readvars
  <1>6. ASSUME NEW d \in Conn, d # c PROVE OrderAt(d)'
    <2>1. \E x, y : tail' = [tail EXCEPT ![c] = x] /\ handled' = [handled EXCEPT ![c] = y]
      BY <1>1, <1>3, ProcessFrame
    <2>2. tail'[d] = tail[d] /\ handled'[d] = handled[d] /\ rd'[d] = rd[d]
      BY <1>3, <1>6, <2>1 DEF OrderInv, StreamInv, PlacesInv, TypeInv
    <2> QED
      BY <1>3, <2>2, OrderKept
  <1>7. OrderAt(c)'
    <2> SUFFICES ASSUME ~spool_failed[c] PROVE \E g \in Nat : HeardAt(c, g)'
      BY <1>3 DEF OrderAt
    <2>d. PICK g \in Nat : /\ Parts * g <= spooled[c] /\ spooled[c] < Parts * g + Parts
                           /\ tail' = [tail EXCEPT ![c] = Pieces(Parts * g, spooled[c])]
                           /\ handled' = [handled EXCEPT ![c] = Pieces(0, g)]
      BY <1>1, ReadSays
    <2>4. tail'[c] = Pieces(Parts * g, spooled[c]) /\ handled'[c] = Pieces(0, g) /\ rd'[c] = spooled[c]
      BY <1>1, <1>3, <2>d DEF OrderInv, StreamInv, PlacesInv, TypeInv
    <2>5. Parts' = Parts
      BY DEF Parts
    <2> QED
      BY <2>d, <2>4, <2>5 DEF HeardAt
  <1> QED
    BY <1>6, <1>7 DEF Order

LEMMA OrderStep == OrderInv /\ [Next]_vars => OrderInv'
  <1> SUFFICES ASSUME OrderInv, [Next]_vars PROVE OrderInv'
    OBVIOUS
  <1>1. StreamInv' /\ PlacesInv /\ UNCHANGED scene
    BY StreamStep DEF OrderInv, StreamInv, Next, vars
  <1>2. \A c \in registered : c \notin ToSet(conns) => c \in registered' /\ c \notin ToSet(conns)'
    BY <1>1, ListedStays
  <1>3. \A c \in Conn : spool_failed[c] => spool_failed'[c]
    <2>1. CASE \E c \in Conn : SpoolFails(c)
      BY <2>1 DEF SpoolFails, OrderInv, StreamInv, PlacesInv, TypeInv
    <2>2. CASE UNCHANGED spool_failed
      BY <2>2
    <2>3. (\E c \in Conn : SpoolFails(c)) \/ UNCHANGED spool_failed
      BY DEF Next, Hooks, Connect, Write, Close, AcceptThread, Accept, AcceptRegister, AcceptEnds, Reader, Recv, WriteSpool,
           ReaderEnds, Parser, StartPass, NextConn, ReadSpool, SpoolRead, PopMem, ConnDrained, EndPass, Finish, Finishing,
           JoinAccept, AcceptPending, PendingDone, WaitOver, JoinReaders, FinishReturns, parseframe, endframe, readvars,
           vars, running
    <2> QED
      BY <2>1, <2>2, <2>3
  <1>4. CASE ReadSpool
    BY <1>1, <1>4, ReadOrder DEF OrderInv
  <1>5. CASE PopMem
    <2>1. Current \in Conn /\ spool_failed[Current]
      <3>1. Current \in Conn
        BY <1>5, CurrentIn DEF PopMem, PlacesInv, TypeInv, OrderInv, StreamInv
      <3>2. md[Current] < InMem(Current) /\ md[Current] \in Nat
        BY <1>5, <3>1 DEF PopMem, PlacesInv, TypeInv, OrderInv, StreamInv
      <3> QED
        BY <3>1, <3>2 DEF InMem
    <2>2. \E x, y : tail' = [tail EXCEPT ![Current] = x] /\ handled' = [handled EXCEPT ![Current] = y]
      BY <1>5, <2>1, ProcessFrame DEF PopMem
    <2>3. rd' = rd
      BY <1>5 DEF PopMem
    <2>4. ASSUME NEW c \in Conn PROVE OrderAt(c)'
      <3>1. CASE c = Current
        BY <1>3, <2>1, <3>1 DEF OrderAt
      <3>2. CASE c # Current
        <4>1. tail'[c] = tail[c] /\ handled'[c] = handled[c] /\ rd'[c] = rd[c]
          BY <2>2, <2>3, <3>2 DEF OrderInv, StreamInv, PlacesInv, TypeInv
        <4> QED
          BY <1>1, <1>2, <1>3, <4>1, OrderKept
      <3> QED
        BY <3>1, <3>2
    <2> QED
      BY <1>1, <2>4 DEF OrderInv, Order
  <1>6. CASE ConnDrained /\ UNCHANGED tail
    <2>1. UNCHANGED <<rd, handled>>
      BY <1>6 DEF ConnDrained
    <2> QED
      BY <1>1, <1>2, <1>3, <1>6, <2>1, OrderKept DEF OrderInv, Order
  <1>7. CASE ConnDrained /\ FinishConn(Current) /\ conns' = Removed(conns, Current)
    <2>1. Current \in Conn /\ Current \in ToSet(active) /\ Current \in registered
      BY <1>1, <1>7, CurrentIn DEF ConnDrained, PlacesInv, TypeInv, Places
    <2>2. ToSet(conns') = ToSet(conns) \ {Current} /\ registered' = registered
      BY <1>1, <1>7, <2>1, RemovedOnce DEF ConnDrained, PlacesInv, TypeInv, Places, parseframe
    <2>3. UNCHANGED <<rd, handled, spool_failed>> /\ tail' = [tail EXCEPT ![Current] = <<>>]
      BY <1>7 DEF ConnDrained, FinishConn, parseframe, readvars
    <2>4. ASSUME NEW c \in Conn PROVE OrderAt(c)'
      <3>1. CASE c = Current
        BY <1>1, <2>1, <2>2, <2>3, <3>1 DEF OrderInv, Order, OrderAt, HeardAt, Parts
      <3>2. CASE c # Current
        <4>1. tail'[c] = tail[c] /\ handled'[c] = handled[c] /\ rd'[c] = rd[c]
          BY <2>3, <3>2 DEF PlacesInv, TypeInv
        <4> QED
          BY <1>1, <1>2, <1>3, <4>1, OrderKept
      <3> QED
        BY <3>1, <3>2
    <2> QED
      BY <1>1, <2>4 DEF OrderInv, Order
  <1>8. CASE UNCHANGED <<rd, handled, tail>>
    BY <1>1, <1>2, <1>3, <1>8, OrderKept DEF OrderInv, Order
  <1>9. \/ ReadSpool \/ PopMem \/ UNCHANGED <<rd, handled, tail>> \/ (ConnDrained /\ UNCHANGED tail)
        \/ (ConnDrained /\ FinishConn(Current) /\ conns' = Removed(conns, Current))
    BY DEF Next, Hooks, Connect, Write, Close, AcceptThread, Accept, AcceptRegister, AcceptEnds, Reader, Recv, WriteSpool,
           SpoolFails, ReaderEnds, Parser, StartPass, NextConn, SpoolRead, ConnDrained, EndPass, Finish, Finishing,
           JoinAccept, AcceptPending, PendingDone, WaitOver, JoinReaders, FinishReturns, endframe, parsevars,
           vars, running
  <1> QED
    BY <1>4, <1>5, <1>6, <1>7, <1>8, <1>9

(* Until its spool fails, what a connection's parser has processed and what *)
(* it keeps in tail are the lines 1..h and the beginning of line h+1, and   *)
(* nothing else (_process).                                                 *)
THEOREM OrderAlways == Spec => []OrderInv
  <1>1. Init => Order
    <2> SUFFICES ASSUME Init, NEW c \in Conn PROVE HeardAt(c, 0)
      BY DEF Order, OrderAt
    <2>1. Parts \in Nat \ {0}
      BY SceneFacts DEF Init
    <2>2. Parts * 0 = 0
      BY <2>1
    <2>3. Pieces(0, 0) = <<>>
      BY DEF Pieces
    <2> QED
      BY <2>1, <2>2, <2>3 DEF Init, HeardAt
  <1>2. Init /\ StreamInv => OrderInv
    BY <1>1 DEF OrderInv
  <1> QED
    BY <1>2, OrderStep, StreamAlways, PTL DEF Spec

-----------------------------------------------------------------------------
(* The end: what the parser is done with, and what finish() waits for.     *)

Through(c) == c \in unread \/ rd[c] = spooled[c]
Settled(c) == done[c] /\ tail[c] = <<>> /\ Through(c) /\ md[c] = InMem(c)
Parsing ==
    /\ parser \in {"spool", "mem"} /\ was_done => done[Current]
    /\ parser = "mem" /\ was_done => Through(Current)
    /\ \A c \in registered : c \notin ToSet(conns) => Settled(c)
Ending ==
    /\ finish \notin {"run", "join"} => accept = "gone"
    /\ finish \notin {"run", "join", "pending"} => \A c \in early : c \notin ToSet(backlog)
    /\ parser_stop => finish \in {"join_parser", "returned"}
    /\ parser = "returned" => parser_stop /\ conns = <<>>
    /\ finish = "returned" => parser = "returned"
EndInv == StreamInv /\ Parsing /\ Ending

LEMMA DoneStays ==
    ASSUME StreamInv, [Next]_vars
    PROVE  /\ \A c \in Conn : done[c] => done'[c] /\ spooled'[c] = spooled[c] /\ got'[c] = got[c] /\ InMem(c)' = InMem(c)
           /\ \A c \in unread : c \in unread'
  <1>1. \A c \in Conn : done[c] => done'[c] /\ spooled'[c] = spooled[c] /\ got'[c] = got[c] /\ spool_failed'[c] = spool_failed[c]
    <2>1. CASE \E c \in Conn : Reader(c)
      BY <2>1 DEF Reader, Recv, WriteSpool, SpoolFails, ReaderEnds, ReaderAt, StreamInv, PlacesInv, TypeInv
    <2>2. CASE UNCHANGED readvars
      BY <2>2 DEF readvars
    <2>3. (\E c \in Conn : Reader(c)) \/ UNCHANGED readvars
      BY DEF Next, Hooks, Connect, Write, Close, AcceptThread, Accept, AcceptRegister, AcceptEnds, Parser, StartPass,
             NextConn, ReadSpool, SpoolRead, PopMem, ConnDrained, EndPass, Finish, Finishing, JoinAccept, AcceptPending,
             PendingDone, WaitOver, JoinReaders, FinishReturns, parseframe, endframe, vars, running
    <2> QED
      BY <2>1, <2>2, <2>3
  <1>2. \A c \in unread : c \in unread'
    <2>1. CASE SpoolRead
      BY <2>1 DEF SpoolRead
    <2>2. SpoolRead \/ UNCHANGED unread
      BY DEF Next, Hooks, Connect, Write, Close, AcceptThread, Accept, AcceptRegister, AcceptEnds, Parser, StartPass,
             NextConn, ReadSpool, PopMem, ConnDrained, EndPass, Finish, Finishing, JoinAccept, AcceptPending,
             PendingDone, WaitOver, JoinReaders, FinishReturns, parsevars, endframe, vars, running, Reader, Recv,
             WriteSpool, SpoolFails, ReaderEnds
    <2> QED
      BY <2>1, <2>2
  <1> QED
    BY <1>1, <1>2 DEF InMem

\* A connection out of the list is not touched again.
LEMMA SettledStays ==
    ASSUME EndInv, [Next]_vars, NEW c \in registered, c \notin ToSet(conns)
    PROVE  Settled(c)'
  <1>1. Settled(c) /\ c \in Conn
    BY DEF EndInv, Parsing, StreamInv, PlacesInv, TypeInv
  <1>2. done'[c] /\ spooled'[c] = spooled[c] /\ InMem(c)' = InMem(c) /\ (c \in unread => c \in unread')
    BY <1>1, DoneStays DEF EndInv, Settled
  <1>3. tail'[c] = tail[c] /\ rd'[c] = rd[c] /\ md'[c] = md[c]
    <2>1. CASE ReadSpool \/ PopMem \/ ConnDrained
      <3>1. Current \in ToSet(conns) /\ Current \in Conn /\ c # Current
        BY <2>1, CurrentIn DEF ReadSpool, PopMem, ConnDrained, EndInv, StreamInv, PlacesInv, TypeInv, Places
      <3>2. CASE ReadSpool \/ PopMem
        <4>1. \E chunk : Process(Current, chunk)
          BY <3>2 DEF ReadSpool, PopMem
        <4>2. \E x, y : tail' = [tail EXCEPT ![Current] = x] /\ handled' = [handled EXCEPT ![Current] = y]
          BY <3>1, <4>1, ProcessFrame
        <4>3. tail'[c] = tail[c]
          BY <1>1, <3>1, <4>2 DEF EndInv, StreamInv, PlacesInv, TypeInv
        <4>4. rd'[c] = rd[c] /\ md'[c] = md[c]
          BY <1>1, <3>1, <3>2 DEF ReadSpool, PopMem, EndInv, StreamInv, PlacesInv, TypeInv
        <4> QED
          BY <4>3, <4>4
      <3>3. CASE ConnDrained
        <4>1. UNCHANGED <<rd, md>> /\ (tail' = tail \/ tail' = [tail EXCEPT ![Current] = <<>>])
          BY <3>3 DEF ConnDrained, FinishConn
        <4> QED
          BY <1>1, <3>1, <4>1 DEF EndInv, StreamInv, PlacesInv, TypeInv
      <3> QED
        BY <2>1, <3>2, <3>3
    <2>2. CASE UNCHANGED <<tail, rd, md>>
      BY <2>2
    <2>3. ReadSpool \/ PopMem \/ ConnDrained \/ UNCHANGED <<tail, rd, md>>
      BY DEF Next, Hooks, Connect, Write, Close, AcceptThread, Accept, AcceptRegister, AcceptEnds, Parser, StartPass,
             NextConn, SpoolRead, EndPass, Finish, Finishing, JoinAccept, AcceptPending,
             PendingDone, WaitOver, JoinReaders, FinishReturns, parsevars, endframe, vars, running, Reader, Recv,
             WriteSpool, SpoolFails, ReaderEnds
    <2> QED
      BY <2>1, <2>2, <2>3
  <1> QED
    BY <1>1, <1>2, <1>3 DEF Settled, Through

LEMMA ParsingStep ==
    ASSUME EndInv, [Next]_vars
    PROVE  Parsing'
  <1>0. StreamInv /\ PlacesInv /\ TypeInv
    BY DEF EndInv, StreamInv, PlacesInv
  <1>1. ASSUME NEW c \in registered', c \notin ToSet(conns)' PROVE Settled(c)'
    <2>1. CASE c \in registered /\ c \notin ToSet(conns)
      BY <2>1, SettledStays
    <2>2. CASE ConnDrained /\ Ended /\ c = Current
      <3>1. Current \in Conn /\ done[Current] /\ Through(Current) /\ md[Current] = InMem(Current)
        BY <1>0, <2>2, CurrentIn DEF ConnDrained, Ended, EndInv, Parsing, TypeInv
      <3>2. tail' = [tail EXCEPT ![Current] = <<>>] /\ UNCHANGED <<rd, md>>
        BY <2>2 DEF ConnDrained, FinishConn
      <3>3. done'[c] /\ spooled'[c] = spooled[c] /\ InMem(c)' = InMem(c) /\ (c \in unread => c \in unread')
        BY <1>0, <2>2, <3>1, DoneStays
      <3>4. tail'[c] = <<>> /\ rd'[c] = rd[c] /\ md'[c] = InMem(c)
        BY <1>0, <2>2, <3>1, <3>2 DEF TypeInv
      <3>5. c \in unread \/ rd[c] = spooled[c]
        BY <2>2, <3>1 DEF Through
      <3> QED
        BY <3>3, <3>4, <3>5 DEF Settled, Through
    <2> QED
      BY <1>0, <1>1, <2>1, <2>2, ListedStays
  <1>2. ASSUME parser' \in {"spool", "mem"}, was_done'
        PROVE  done'[Current'] /\ (parser' = "mem" => Through(Current)')
    <2>1. CASE NextConn
      <3>1. Current \in Conn /\ UNCHANGED <<active, done>> /\ was_done' = done[Current] /\ parser' = "spool"
        BY <1>0, <2>1, CurrentIn DEF NextConn, parseframe, readvars
      <3> QED
        BY <1>2, <3>1 DEF Current
    <2>2. CASE ReadSpool \/ SpoolRead \/ PopMem
      <3>1. Current \in Conn /\ UNCHANGED <<active, was_done, done, spooled>>
        BY <1>0, <2>2, CurrentIn DEF ReadSpool, SpoolRead, PopMem, parseframe, readvars, TypeInv
      <3>2. Current' = Current
        BY <3>1 DEF Current
      <3>3. done[Current]
        BY <1>2, <2>2, <3>1 DEF ReadSpool, SpoolRead, PopMem, EndInv, Parsing
      <3>4. parser' = "mem" => Through(Current)'
        BY <1>2, <2>2, <3>1, <3>2 DEF ReadSpool, SpoolRead, PopMem, EndInv, Parsing, Through
      <3> QED
        BY <3>1, <3>2, <3>3, <3>4
    <2>3. CASE UNCHANGED <<parser, was_done, active, rd, unread>>
      <3>1. Current' = Current /\ Current \in Conn /\ done[Current] /\ (parser = "mem" => Through(Current))
        BY <1>0, <1>2, <2>3, CurrentIn DEF TypeInv, EndInv, Parsing, Current
      <3>2. done'[Current] /\ spooled'[Current] = spooled[Current]
        BY <1>0, <3>1, DoneStays
      <3> QED
        BY <2>3, <3>1, <3>2 DEF Through
    <2>4. \/ NextConn \/ ReadSpool \/ SpoolRead \/ PopMem \/ UNCHANGED <<parser, was_done, active, rd, unread>>
          \/ parser' \notin {"spool", "mem"}
      BY DEF Next, Hooks, Connect, Write, Close, AcceptThread, Accept, AcceptRegister, AcceptEnds, Parser, StartPass,
             ConnDrained, EndPass, Finish, Finishing, JoinAccept, AcceptPending,
             PendingDone, WaitOver, JoinReaders, FinishReturns, parsevars, endframe, vars, running, Reader, Recv,
             WriteSpool, SpoolFails, ReaderEnds
    <2> QED
      BY <1>2, <2>1, <2>2, <2>3, <2>4
  <1> QED
    BY <1>1, <1>2 DEF Parsing

LEMMA EndingStep ==
    ASSUME EndInv, [Next]_vars
    PROVE  Ending'
  <1>0. PlacesInv /\ TypeInv /\ Places
    BY DEF EndInv, StreamInv, PlacesInv
  <1>1. CASE Hooks
    <2>1. PICK c \in Conn : Connect(c) \/ Write(c) \/ Close(c)
      BY <1>1 DEF Hooks
    <2>2. UNCHANGED <<finish, accept, parser, parser_stop, conns>>
      BY <2>1 DEF Connect, Write, Close, acceptvars, connvars, parsevars, endvars
    <2>3. CASE Connect(c)
      <3>1. ToSet(backlog') = ToSet(backlog) \cup {c} /\ c \notin early /\ (finish # "run" => early' = early)
        <4>1. peer[c] = "none"
          BY <2>3 DEF Connect
        <4>2. c \notin ToSet(backlog) /\ c \notin early
          BY <1>0, <4>1 DEF Places
        <4>3. ToSet(Append(backlog, c)) = ToSet(backlog) \cup {c}
          BY <1>0, <4>2, AppendOnce DEF TypeInv, Places
        <4> QED
          BY <2>3, <4>2, <4>3 DEF Connect
      <3> QED
        BY <2>2, <3>1 DEF EndInv, Ending
    <2>4. CASE UNCHANGED <<backlog, early>>
      BY <2>2, <2>4 DEF EndInv, Ending
    <2> QED
      BY <2>1, <2>3, <2>4 DEF Write, Close
  <1>2. CASE Accept
    <2>1. ToSet(Tail(backlog)) = ToSet(backlog) \ {Head(backlog)}
      BY <1>0, <1>2, TailOnce DEF Accept, TypeInv, Places
    <2>2. backlog' = Tail(backlog) /\ accept # "gone" /\ UNCHANGED <<early, finish, parser, parser_stop, conns>>
      BY <1>2 DEF Accept, netvars, connvars, parsevars, endvars
    <2> QED
      BY <2>1, <2>2 DEF EndInv, Ending
  <1>3. CASE AcceptRegister
    <2>1. accept # "gone" /\ UNCHANGED <<backlog, early, finish, parser, parser_stop>>
      BY <1>3 DEF AcceptRegister, netvars, parsevars, endvars
    <2> QED
      BY <2>1 DEF EndInv, Ending
  <1>4. CASE AcceptEnds \/ (\E c \in Conn : Reader(c)) \/ UNCHANGED vars
    <2>1. UNCHANGED <<backlog, early, finish, parser, parser_stop, conns>> /\ (accept = "gone" => accept' = "gone")
      BY <1>4 DEF AcceptEnds, Reader, Recv, WriteSpool, SpoolFails, ReaderEnds, netvars, acceptvars, connvars, parsevars,
                  endvars, vars, running
    <2> QED
      BY <2>1 DEF EndInv, Ending
  <1>5. CASE Parser
    <2>1. UNCHANGED <<backlog, early, accept, finish, parser_stop>>
      BY <1>5 DEF Parser, StartPass, NextConn, ReadSpool, SpoolRead, PopMem, ConnDrained, EndPass, parseframe, netvars,
                  acceptvars, endvars
    <2>2. parser # "returned" /\ (parser' = "returned" => parser_stop /\ conns' = <<>>)
      BY <1>5 DEF Parser, StartPass, NextConn, ReadSpool, SpoolRead, PopMem, ConnDrained, EndPass
    <2> QED
      BY <2>1, <2>2 DEF EndInv, Ending
  <1>6. CASE AcceptPending
    <2>1. ToSet(Tail(backlog)) = ToSet(backlog) \ {Head(backlog)}
      BY <1>0, <1>6, TailOnce DEF AcceptPending, TypeInv, Places
    <2>2. backlog' = Tail(backlog) /\ finish \in {"pending", "wait"} /\ UNCHANGED <<early, accept, finish, parser, parser_stop>>
      BY <1>6 DEF AcceptPending, endframe, netvars, acceptvars, parsevars, endvars
    <2> QED
      BY <2>1, <2>2 DEF EndInv, Ending
  <1>7. CASE PendingDone
    <2>1. backlog' = <<>> /\ finish = "pending" /\ finish' = "wait" /\ UNCHANGED <<accept, parser, parser_stop, conns>>
      BY <1>7 DEF PendingDone, endframe, acceptvars, connvars, parsevars
    <2>2. ToSet(backlog') = {}
      BY <2>1 DEF ToSet
    <2> QED
      BY <2>1, <2>2 DEF EndInv, Ending
  <1>8. CASE Finish \/ JoinAccept \/ WaitOver \/ JoinReaders \/ FinishReturns
    <2>1. UNCHANGED <<backlog, early, accept, parser, conns>>
      BY <1>8 DEF Finish, JoinAccept, WaitOver, JoinReaders, FinishReturns, endframe, netvars, acceptvars, connvars, parsevars
    <2> QED
      BY <1>8, <2>1 DEF EndInv, Ending, Finish, JoinAccept, WaitOver, JoinReaders, FinishReturns
  <1> QED
    BY <1>1, <1>2, <1>3, <1>4, <1>5, <1>6, <1>7, <1>8 DEF Next, AcceptThread, Finishing

(* A connection the parser has taken off the list was read to its end, and  *)
(* finish() returns with the list empty, the accept thread gone and no      *)
(* connection made before it still queued (_parse_loop, finish).            *)
THEOREM EndAlways == Spec => []EndInv
  <1>1. Init => Parsing /\ Ending
    BY DEF Init, Parsing, Ending
  <1>2. Init /\ StreamInv => EndInv
    BY <1>1 DEF EndInv
  <1>3. EndInv /\ [Next]_vars => EndInv'
    BY StreamStep, ParsingStep, EndingStep DEF EndInv
  <1> QED
    BY <1>2, <1>3, StreamAlways, PTL DEF Spec

-----------------------------------------------------------------------------
(* The lines of a connection are processed whole, once and in the order    *)
(* the hook wrote them, and when finish() returns nothing of a connection  *)
(* made before it was called is left unparsed, unless the client was       *)
(* refused or its spool could not be read (Receiver._process, finish).     *)
THEOREM AllParsed == Spec => []ParsedAsWritten
  <1>1. OrderInv /\ EndInv => ParsedAsWritten
    <2> SUFFICES ASSUME OrderInv, EndInv PROVE ParsedAsWritten
      OBVIOUS
    <2>0. StreamInv /\ PlacesInv /\ TypeInv /\ Places /\ Stream
      BY DEF EndInv, StreamInv, PlacesInv
    <2>1. ASSUME NEW c \in Conn, ~spool_failed[c] PROVE \A i \in DOMAIN handled[c] : handled[c][i] = i
      <3>1. PICK h \in Nat : handled[c] = Pieces(0, h)
        BY <2>1 DEF OrderInv, Order, OrderAt, HeardAt
      <3>2. DOMAIN Pieces(0, h) = 1 .. h /\ \A i \in 1 .. h : Pieces(0, h)[i] = i
        BY DEF Pieces
      <3> QED
        BY <3>1, <3>2
    <2>2. ASSUME finish = "returned", NEW c \in early, c \notin refused, c \notin unread
          PROVE  rd[c] = spooled[c] /\ rd[c] + md[c] = written[c] /\ tail[c] = <<>>
      <3>1. conns = <<>> /\ c \notin ToSet(backlog) /\ accept = "gone"
        BY <2>2 DEF EndInv, Ending
      <3>2. c \in Conn /\ c # hand /\ peer[c] # "none"
        BY <2>0, <2>2, <3>1, ReceiverAssumption DEF TypeInv, Places
      <3>3. c \in registered
        BY <2>0, <2>2, <3>1, <3>2 DEF Places
      <3>4. ToSet(conns) = {}
        BY <3>1 DEF ToSet
      <3>5. Settled(c)
        BY <3>3, <3>4 DEF EndInv, Parsing
      <3>6. done[c] /\ tail[c] = <<>> /\ rd[c] = spooled[c] /\ md[c] = InMem(c)
        BY <2>2, <3>5 DEF Settled, Through
      <3>7. got[c] = written[c] /\ InHand(c) = 0
        BY <2>0, <3>2, <3>6 DEF Stream, StreamAt
      <3>8. got[c] \in Nat /\ spooled[c] \in Nat
        BY <2>0, <3>2 DEF TypeInv
      <3>9. spooled[c] + InMem(c) = got[c]
        BY <3>7, <3>8 DEF InMem, InHand
      <3> QED
        BY <3>6, <3>7, <3>9
    <2> QED
      BY <2>1, <2>2 DEF ParsedAsWritten
  <1> QED
    BY <1>1, OrderAlways, EndAlways, PTL

-----------------------------------------------------------------------------
(* A clean capture is a complete one.  What goes wrong is noted in the     *)
(* health counters; what has gone well is that the final status, the last  *)
(* line of its hook, was processed.                                        *)

\* A final status ends its connection, and a key has a status on one connection.
Plain ==
    /\ \A c \in DOMAIN Script : \A n \in DOMAIN Script[c] : Script[c][n].kind = "final" => n = Len(Script[c])
    /\ \A c, d \in DOMAIN Script : \A m \in DOMAIN Script[c], n \in DOMAIN Script[d] :
         IsStatus(Script[c][m]) /\ IsStatus(Script[d][n]) /\ Script[c][m].key = Script[d][n].key => c = d

OverAt(c) ==
    /\ handled[c] = <<>> /\ got[c] > 0 => health # {}
    /\ Keys(c) = {} /\ DataNos(c, handled[c]) # {} => health # {}
    /\ Plain /\ health = {} => Keys(c) \subseteq FinalKeys(c) \cup ended_without_final
Noted ==
    /\ \A c \in refused : c \in Foreign \/ health # {}
    /\ \A c \in Conn : spool_failed[c] \/ c \in unread => health # {}
    /\ \A c \in registered : c \notin ToSet(conns) => OverAt(c)
Reported == health = {} => \A c \in Conn, k \in Key : k \in Keys(c) => transport[k] # None
CleanInv == OrderInv /\ EndInv /\ Noted /\ Reported

LEMMA Heard ==
    ASSUME OrderInv, NEW c \in Conn, ~spool_failed[c]
    PROVE  \E h \in Nat : handled[c] = Pieces(0, h) /\ Len(handled[c]) = h /\ \A i \in 1 .. h : handled[c][i] = i
  <1>1. PICK h \in Nat : handled[c] = Pieces(0, h)
    BY DEF OrderInv, Order, OrderAt, HeardAt
  <1>2. Pieces(0, h) = [n \in 1 .. h |-> n] /\ Len(Pieces(0, h)) = h
    BY DEF Pieces
  <1> QED
    BY <1>1, <1>2

LEMMA HealthGrows ==
    ASSUME [Next]_vars
    PROVE  health \subseteq health'
  BY DEF Next, Hooks, Connect, Write, Close, AcceptThread, Accept, AcceptRegister, AcceptEnds, Reader, Recv, WriteSpool,
         SpoolFails, ReaderEnds, Parser, StartPass, NextConn, ReadSpool, SpoolRead, PopMem, ConnDrained, EndPass, Finish,
         Finishing, JoinAccept, AcceptPending, PendingDone, WaitOver, JoinReaders, FinishReturns, Register, Process,
         FinishConn, vars, running

\* What a connection that is off the list was heard to say stays as it is.
LEMMA HandledStays ==
    ASSUME EndInv, [Next]_vars, NEW c \in registered, c \notin ToSet(conns)
    PROVE  handled'[c] = handled[c] /\ got'[c] = got[c] /\ c \in Conn
  <1>0. StreamInv /\ PlacesInv /\ TypeInv /\ c \in Conn
    BY DEF EndInv, StreamInv, PlacesInv, TypeInv
  <1>1. got'[c] = got[c]
    BY <1>0, DoneStays DEF EndInv, Parsing, Settled
  <1>2. CASE ReadSpool \/ PopMem
    <2>0. active # <<>> /\ ToSet(active) \subseteq ToSet(conns)
      BY <1>0, <1>2 DEF ReadSpool, PopMem, PlacesInv, TypeInv, Places
    <2>1. Current \in ToSet(conns) /\ Current \in Conn /\ c # Current
      BY <1>0, <2>0, CurrentIn
    <2>2. \E chunk : Process(Current, chunk)
      BY <1>2 DEF ReadSpool, PopMem
    <2>3. \E x, y : tail' = [tail EXCEPT ![Current] = x] /\ handled' = [handled EXCEPT ![Current] = y]
      BY <2>1, <2>2, ProcessFrame
    <2> QED
      BY <1>0, <1>1, <2>1, <2>3 DEF TypeInv
  <1>3. ReadSpool \/ PopMem \/ UNCHANGED handled
    BY DEF Next, Hooks, Connect, Write, Close, AcceptThread, Accept, AcceptRegister, AcceptEnds, Parser, StartPass,
           NextConn, SpoolRead, ConnDrained, EndPass, Finish, Finishing, JoinAccept, AcceptPending,
           PendingDone, WaitOver, JoinReaders, FinishReturns, parsevars, endframe, vars, running, Reader, Recv,
           WriteSpool, SpoolFails, ReaderEnds
  <1> QED
    BY <1>0, <1>1, <1>2, <1>3

LEMMA KeysOf ==
    ASSUME NEW c, UNCHANGED scene, handled'[c] = handled[c]
    PROVE  Keys(c)' = Keys(c) /\ FinalKeys(c)' = FinalKeys(c) /\ DataNos(c, handled[c])' = DataNos(c, handled[c])
  BY DEF Keys, FinalKeys, DataNos, IsDataNo, LinesOf, Script

\* The lines heard while the spool holds, and the keys of the status lines among them.
LEMMA HeardLines ==
    ASSUME OrderInv, NEW c \in DOMAIN Script, ~spool_failed[c]
    PROVE  \E h \in Nat :
             /\ h <= Len(Script[c]) /\ handled[c] = Pieces(0, h) /\ DOMAIN handled[c] = 1 .. h
             /\ \A i \in 1 .. h : handled[c][i] = i /\ Script[c][i] \in Line
             /\ DOMAIN Script[c] = 1 .. Len(Script[c]) /\ Len(Script[c]) \in Nat
             /\ Keys(c) = {Script[c][n].key : n \in {m \in 1 .. h : IsStatus(Script[c][m])}}
             /\ FinalKeys(c) = {Script[c][n].key : n \in {m \in 1 .. h : Script[c][m].kind = "final"}}
  <1>0. StreamInv /\ PlacesInv /\ TypeInv /\ Stream /\ scene \in Captures
    BY DEF OrderInv, StreamInv, PlacesInv, TypeInv
  <1>1. Parts \in Nat \ {0} /\ c \in Conn /\ Script[c] \in Seq(Line)
    BY <1>0, SceneFacts
  <1>2. Len(Script[c]) \in Nat /\ DOMAIN Script[c] = 1 .. Len(Script[c])
    BY <1>1, LenProperties
  <1>3. PICK h \in Nat : HeardAt(c, h)
    BY <1>1 DEF OrderInv, Order, OrderAt
  <1>4. handled[c] = Pieces(0, h) /\ Parts * h <= rd[c]
    BY <1>3 DEF HeardAt
  <1>5. h <= Len(Script[c])
    <2>1. rd[c] \in Nat /\ spooled[c] \in Nat /\ got[c] \in Nat /\ written[c] \in Nat
      BY <1>0, <1>1 DEF TypeInv
    <2>2. rd[c] <= spooled[c] /\ spooled[c] <= got[c] /\ got[c] <= written[c] /\ written[c] <= Size(c)
      BY <1>0, <1>1 DEF Stream, StreamAt
    <2>3. Size(c) \in Nat /\ Size(c) = Parts * Len(Script[c])
      BY <1>0, Sizes DEF Size
    <2>4. Parts * h \in Nat
      BY <1>1, Times
    <2>5. Parts * h <= Parts * Len(Script[c])
      BY <1>4, <2>1, <2>2, <2>3, <2>4
    <2>6. Len(Script[c]) < h => Parts * Len(Script[c]) + Parts <= Parts * h
      BY <1>1, <1>2, Times
    <2> QED
      BY <1>1, <1>2, <2>3, <2>4, <2>5, <2>6
  <1>6. DOMAIN handled[c] = 1 .. h /\ \A i \in 1 .. h : handled[c][i] = i
    BY <1>4 DEF Pieces
  <1>7. \A i \in 1 .. h : i \in DOMAIN Script[c] /\ Script[c][i] \in Line
    <2>1. \A i \in 1 .. h : i \in 1 .. Len(Script[c])
      BY <1>2, <1>5
    <2> QED
      BY <1>1, <1>2, <2>1
  <1>8. LinesOf(c, handled[c]) = {Script[c][n] : n \in 1 .. h}
    <2>1. ToSet(handled[c]) = 1 .. h
      BY <1>6 DEF ToSet
    <2>2. (1 .. h) \ {0} = 1 .. h
      OBVIOUS
    <2> QED
      BY <2>1, <2>2 DEF LinesOf
  <1>9. Keys(c) = {Script[c][n].key : n \in {m \in 1 .. h : IsStatus(Script[c][m])}}
    BY <1>8 DEF Keys
  <1>10. FinalKeys(c) = {Script[c][n].key : n \in {m \in 1 .. h : Script[c][m].kind = "final"}}
    BY <1>8 DEF FinalKeys
  <1> QED
    BY <1>2, <1>4, <1>5, <1>6, <1>7, <1>9, <1>10

\* In a plain scene a key is on the status lines of one connection.
LEMMA KeyOnce ==
    ASSUME Plain, OrderInv, NEW c \in DOMAIN Script, NEW d \in DOMAIN Script, ~spool_failed[c], ~spool_failed[d],
           NEW key \in Keys(c), key \in FinalKeys(d)
    PROVE  c = d
  <1>1. PICK m \in DOMAIN Script[c] : IsStatus(Script[c][m]) /\ Script[c][m].key = key
    BY HeardLines
  <1>2. PICK n \in DOMAIN Script[d] : Script[d][n].kind = "final" /\ Script[d][n].key = key
    BY HeardLines
  <1> QED
    BY <1>1, <1>2 DEF Plain, IsStatus

\* A key with a status among the lines h+1 .. g has one in the state of the transport.
LEMMA LatestSome ==
    ASSUME NEW c \in DOMAIN Script, Script[c] \in Seq(Line), NEW h \in Nat, NEW g \in Nat, g <= Len(Script[c]), NEW key
    PROVE  /\ transport[key] # None => Latest(c, Pieces(h, g), key) # None
           /\ \A n \in 1 .. g : n > h /\ IsStatus(Script[c][n]) /\ Script[c][n].key = key => Latest(c, Pieces(h, g), key) # None
  <1> DEFINE ns == Pieces(h, g)
             S == StatusNos(c, ns, key)
  <1>1. Len(Script[c]) \in Nat /\ DOMAIN Script[c] = 1 .. Len(Script[c])
    BY LenProperties
  <1>2. DOMAIN ns = 1 .. (g - h) /\ \A i \in 1 .. (g - h) : ns[i] = h + i /\ ns[i] \in DOMAIN Script[c]
    BY <1>1 DEF Pieces
  <1> HIDE DEF ns
  <1>3. S \in SUBSET Int /\ IsFiniteSet(S) /\ S \subseteq DOMAIN ns
    <2>1. S \subseteq 1 .. (g - h)
      BY <1>2 DEF StatusNos
    <2>2. IsFiniteSet(1 .. (g - h))
      BY FS_Interval
    <2> QED
      BY <1>2, <2>1, <2>2, FS_Subset
  <1>4. ASSUME S # {} PROVE Latest(c, ns, key) # None
    <2>1. Max(S) \in S
      BY <1>3, <1>4, LargestIs
    <2>2. ns[Max(S)] \in DOMAIN Script[c]
      BY <1>2, <1>3, <2>1
    <2>3. Script[c][ns[Max(S)]] \in Line
      BY <2>2
    <2> QED
      BY <1>4, <2>3, ReceiverAssumption DEF Latest
  <1>5. transport[key] # None => Latest(c, ns, key) # None
    BY <1>4 DEF Latest
  <1>6. ASSUME NEW n \in 1 .. g, n > h, IsStatus(Script[c][n]), Script[c][n].key = key PROVE S # {}
    <2>1. n - h \in 1 .. (g - h) /\ h + (n - h) = n /\ n # 0
      BY <1>6
    <2>2. ns[n - h] = n
      BY <1>2, <2>1
    <2>3. n - h \in S
      BY <1>2, <1>6, <2>1, <2>2 DEF StatusNos, IsDataNo
    <2> QED
      BY <2>3
  <1> QED
    BY <1>4, <1>5, <1>6 DEF ns

LEMMA TransportKept ==
    ASSUME OrderInv, Reported, UNCHANGED <<handled, transport, scene>>, health \subseteq health'
    PROVE  Reported'
  <1> SUFFICES ASSUME health' = {}, NEW c \in Conn, NEW key \in Key, key \in Keys(c)' PROVE transport'[key] # None
    BY DEF Reported
  <1>1. key \in Keys(c)
    BY DEF Keys, LinesOf, Script
  <1> QED
    BY <1>1 DEF Reported

LEMMA ReportedStep ==
    ASSUME CleanInv, OrderInv', [Next]_vars
    PROVE  Reported'
  <1>0. UNCHANGED scene /\ health \subseteq health' /\ StreamInv /\ PlacesInv /\ TypeInv /\ Places
    BY HealthGrows DEF Next, vars, CleanInv, EndInv, StreamInv, PlacesInv
  <1>1. CASE ReadSpool
    <2> SUFFICES ASSUME health' = {}, NEW d \in Conn, NEW key \in Key, key \in Keys(d)' PROVE transport'[key] # None
      BY DEF Reported
    <2>1. Current \in Conn /\ Current \in ToSet(active) /\ Current \in registered /\ health = {}
      BY <1>0, <1>1, CurrentIn DEF ReadSpool, TypeInv, Places
    <2>2. Current \in DOMAIN Script /\ Script[Current] \in Seq(Line) /\ ~spool_failed[Current]
      BY <1>0, <2>1, SceneFacts DEF CleanInv, Noted, TypeInv, Places
    <2>3. PICK h \in Nat, g \in Nat :
             /\ handled[Current] = Pieces(0, h) /\ handled' = [handled EXCEPT ![Current] = Pieces(0, g)]
             /\ h <= g /\ g <= Len(Script[Current]) /\ Reports(Current, h, g)
      BY <1>0, <1>1, <2>2, ReadSays DEF CleanInv
    <2>4. \A y \in Key : transport[y] # None => transport'[y] # None
      BY <2>2, <2>3, LatestSome DEF Reports
    <2>5. CASE d = Current
      <3>1. handled'[d] = Pieces(0, g) /\ ToSet(Pieces(0, g)) \ {0} = 1 .. g /\ Script' = Script
        <4>1. handled'[d] = Pieces(0, g) /\ Script' = Script
          BY <1>0, <2>1, <2>3, <2>5 DEF TypeInv, Script
        <4>2. DOMAIN Pieces(0, g) = 1 .. g /\ \A i \in 1 .. g : Pieces(0, g)[i] = i
          BY DEF Pieces
        <4>3. ToSet(Pieces(0, g)) = 1 .. g
          BY <4>2 DEF ToSet
        <4> QED
          BY <4>1, <4>3
      <3>2. LinesOf(d, handled[d])' = {Script[d][n] : n \in 1 .. g}
        BY <3>1 DEF LinesOf
      <3>3. PICK n \in 1 .. g : IsStatus(Script[d][n]) /\ Script[d][n].key = key
        BY <3>2 DEF Keys
      <3>4. n \in DOMAIN Script[d] /\ Script[d][n] \in Line
        <4>1. Len(Script[d]) \in Nat /\ DOMAIN Script[d] = 1 .. Len(Script[d])
          BY <2>2, <2>5, LenProperties
        <4> QED
          BY <2>2, <2>3, <2>5, <3>3, <4>1
      <3>6. CASE n > h
        <4>1. Latest(d, Pieces(h, g), key) # None
          BY <2>2, <2>3, <2>5, <3>3, <3>6, LatestSome
        <4> QED
          BY <2>3, <2>5, <4>1 DEF Reports
      <3>7. CASE n <= h
        <4>1. n \in ToSet(Pieces(0, h)) \ {0}
          BY <3>7 DEF Pieces, ToSet
        <4>2. Script[d][n] \in LinesOf(d, handled[d])
          BY <2>3, <2>5, <4>1 DEF LinesOf
        <4>3. key \in Keys(d)
          BY <3>3, <4>2 DEF Keys
        <4> QED
          BY <2>1, <2>4, <4>3 DEF CleanInv, Reported
      <3> QED
        BY <3>6, <3>7
    <2>6. CASE d # Current
      <3>1. handled'[d] = handled[d]
        BY <1>0, <2>3, <2>6 DEF TypeInv
      <3>2. key \in Keys(d)
        BY <1>0, <3>1, KeysOf
      <3>3. transport[key] # None
        BY <2>1, <3>2 DEF CleanInv, Reported
      <3> QED
        BY <2>4, <3>3
    <2> QED
      BY <2>5, <2>6
  <1>2. CASE PopMem
    <2>1. Current \in Conn
      BY <1>0, <1>2, CurrentIn DEF PopMem, TypeInv
    <2>2. md[Current] < InMem(Current) /\ md[Current] \in Nat
      BY <1>0, <1>2, <2>1 DEF PopMem, TypeInv
    <2>3. spool_failed[Current]
      BY <2>2 DEF InMem
    <2> QED
      BY <1>0, <2>1, <2>3 DEF CleanInv, Noted, Reported
  <1>3. ReadSpool \/ PopMem \/ UNCHANGED <<handled, transport>>
    BY DEF Next, Hooks, Connect, Write, Close, AcceptThread, Accept, AcceptRegister, AcceptEnds, Parser, StartPass,
           NextConn, SpoolRead, ConnDrained, EndPass, Finish, Finishing, JoinAccept, AcceptPending,
           PendingDone, WaitOver, JoinReaders, FinishReturns, parsevars, endframe, vars, running, Reader, Recv,
           WriteSpool, SpoolFails, ReaderEnds
  <1> QED
    BY <1>0, <1>1, <1>2, <1>3, TransportKept DEF CleanInv

\* The parser ends a connection: what it leaves out is noted.
LEMMA OverNow ==
    ASSUME CleanInv, ConnDrained, Ended, UNCHANGED scene, NEW c \in Conn, c = Current
    PROVE  OverAt(c)'
  <1>0. StreamInv /\ PlacesInv /\ TypeInv /\ Places /\ Stream
    BY DEF CleanInv, EndInv, StreamInv, PlacesInv
  <1>1. /\ health' = health \cup EndOf(c) /\ ended_without_final' = (ended_without_final \ FinalKeys(c)) \cup Undrained(c)
        /\ UNCHANGED <<handled, got>>
    BY DEF ConnDrained, FinishConn, parseframe, readvars
  <1>2. Keys(c)' = Keys(c) /\ FinalKeys(c)' = FinalKeys(c) /\ DataNos(c, handled[c])' = DataNos(c, handled[c])
    BY <1>1, KeysOf
  <1>3. ASSUME handled[c] = <<>>, got[c] > 0, health' = {} PROVE FALSE
    <2>1. tail[c] = <<>> /\ health = {}
      BY <1>1, <1>3 DEF EndOf
    <2>2. ~spool_failed[c] /\ c \notin unread
      BY <2>1 DEF CleanInv, Noted
    <2>3. parser = "mem" /\ was_done /\ c \in ToSet(conns)
      BY <1>0, CurrentIn DEF ConnDrained, Ended, TypeInv, Places
    <2>4. done[c] /\ rd[c] = spooled[c]
      BY <2>2, <2>3 DEF CleanInv, EndInv, Parsing, Through
    <2>5. PICK h \in Nat : HeardAt(c, h)
      BY <2>2 DEF CleanInv, OrderInv, Order, OrderAt
    <2>6. h = 0
      <3>1. Pieces(0, h) = <<>>
        BY <1>3, <2>5 DEF HeardAt
      <3>2. Len(Pieces(0, h)) = h
        BY DEF Pieces
      <3> QED
        BY <3>1, <3>2
    <2>7. Parts \in Nat \ {0} /\ rd[c] \in Nat /\ got[c] \in Nat /\ spooled[c] \in Nat
      BY <1>0, SceneFacts DEF TypeInv
    <2>8. Pieces(Parts * h, rd[c]) = <<>>
      BY <2>1, <2>3, <2>5 DEF HeardAt
    <2>9. Parts * h = 0
      BY <2>6, <2>7
    <2>10. Len(Pieces(0, rd[c])) = rd[c]
      BY <2>7 DEF Pieces
    <2>11. rd[c] = 0
      BY <2>8, <2>9, <2>10
    <2>12. got[c] - spooled[c] = 0
      BY <1>0, <2>2, <2>4 DEF Stream, StreamAt, InHand
    <2> QED
      BY <1>3, <2>4, <2>7, <2>11, <2>12
  <1>4. ASSUME Keys(c) = {}, DataNos(c, handled[c]) # {} PROVE health' # {}
    BY <1>1, <1>4 DEF EndOf
  <1>5. Keys(c) \subseteq FinalKeys(c) \cup ended_without_final'
    BY <1>1 DEF Undrained
  <1> QED
    BY <1>1, <1>2, <1>3, <1>4, <1>5 DEF OverAt

\* No other connection's end takes back what was noted of one.
LEMMA OverStays ==
    ASSUME CleanInv, [Next]_vars, NEW c \in registered, c \notin ToSet(conns)
    PROVE  health' = {} => OverAt(c)'
  <1> SUFFICES ASSUME health' = {} PROVE OverAt(c)'
    OBVIOUS
  <1>0. UNCHANGED scene /\ health = {} /\ StreamInv /\ PlacesInv /\ TypeInv /\ Places /\ OverAt(c)
    BY HealthGrows DEF Next, vars, CleanInv, EndInv, StreamInv, PlacesInv, Noted
  <1>1. handled'[c] = handled[c] /\ got'[c] = got[c] /\ c \in Conn
    BY HandledStays DEF CleanInv
  <1>2. Keys(c)' = Keys(c) /\ FinalKeys(c)' = FinalKeys(c) /\ DataNos(c, handled[c])' = DataNos(c, handled[c])
    BY <1>0, <1>1, KeysOf
  <1>3. ASSUME Plain PROVE Keys(c) \subseteq FinalKeys(c) \cup ended_without_final'
    <2>1. CASE UNCHANGED ended_without_final
      BY <1>0, <1>3, <2>1 DEF OverAt
    <2>2. CASE ConnDrained /\ FinishConn(Current)
      <3>1. Current \in Conn /\ Current \in ToSet(conns) /\ Current \in registered
        BY <1>0, <2>2, CurrentIn DEF ConnDrained, TypeInv, Places
      <3>2. ~spool_failed[c] /\ ~spool_failed[Current] /\ c \in DOMAIN Script /\ Current \in DOMAIN Script
        BY <1>0, <1>1, <3>1 DEF CleanInv, Noted, Places
      <3>3. ASSUME NEW key \in Keys(c) PROVE key \notin FinalKeys(Current)
        BY <1>3, <3>1, <3>2, KeyOnce DEF CleanInv
      <3>4. ended_without_final' = (ended_without_final \ FinalKeys(Current)) \cup Undrained(Current)
        BY <2>2 DEF FinishConn
      <3> QED
        BY <1>0, <1>3, <3>3, <3>4 DEF OverAt
    <2>3. (ConnDrained /\ FinishConn(Current)) \/ UNCHANGED ended_without_final
      BY DEF Next, Hooks, Connect, Write, Close, AcceptThread, Accept, AcceptRegister, AcceptEnds, Parser, StartPass,
             NextConn, ReadSpool, SpoolRead, PopMem, ConnDrained, EndPass, Finish, Finishing, JoinAccept, AcceptPending,
             PendingDone, WaitOver, JoinReaders, FinishReturns, parsevars, endframe, vars, running, Reader, Recv,
             WriteSpool, SpoolFails, ReaderEnds
    <2> QED
      BY <2>1, <2>2, <2>3
  <1>4. Plain' = Plain
    BY <1>0 DEF Plain, Script
  <1> QED
    BY <1>0, <1>1, <1>2, <1>3, <1>4 DEF OverAt

LEMMA NotedStep ==
    ASSUME CleanInv, [Next]_vars
    PROVE  Noted'
  <1>0. UNCHANGED scene /\ health \subseteq health' /\ StreamInv /\ PlacesInv /\ TypeInv /\ Places /\ Noted
    BY HealthGrows DEF Next, vars, CleanInv, EndInv, StreamInv, PlacesInv
  <1>1. \A c \in refused' : c \in Foreign' \/ health' # {}
    <2>1. ASSUME NEW c, Register(c) PROVE \A d \in refused' : d \in Foreign' \/ health' # {}
      BY <1>0, <2>1 DEF Register, Noted, Foreign
    <2>2. CASE UNCHANGED refused
      BY <1>0, <2>2 DEF Noted, Foreign
    <2>3. (\E c : Register(c)) \/ UNCHANGED refused
      BY DEF Next, Hooks, Connect, Write, Close, AcceptThread, Accept, AcceptRegister, AcceptEnds, Parser, StartPass,
             NextConn, ReadSpool, SpoolRead, PopMem, ConnDrained, EndPass, Finish, Finishing, JoinAccept, AcceptPending,
             PendingDone, WaitOver, JoinReaders, FinishReturns, parseframe, connvars, vars, running, Reader, Recv,
             WriteSpool, SpoolFails, ReaderEnds
    <2> QED
      BY <2>1, <2>2, <2>3
  <1>2. \A c \in Conn : spool_failed'[c] \/ c \in unread' => health' # {}
    <2>1. CASE \E d \in Conn : SpoolFails(d)
      BY <1>0, <2>1 DEF SpoolFails, Noted
    <2>2. CASE SpoolRead
      BY <1>0, <2>2 DEF SpoolRead, Noted, parseframe, readvars
    <2>3. CASE UNCHANGED <<spool_failed, unread>>
      BY <1>0, <2>3 DEF Noted
    <2>4. (\E d \in Conn : SpoolFails(d)) \/ SpoolRead \/ UNCHANGED <<spool_failed, unread>>
      BY DEF Next, Hooks, Connect, Write, Close, AcceptThread, Accept, AcceptRegister, AcceptEnds, Parser, StartPass,
             NextConn, ReadSpool, PopMem, ConnDrained, EndPass, Finish, Finishing, JoinAccept, AcceptPending,
             PendingDone, WaitOver, JoinReaders, FinishReturns, parseframe, readvars, parsevars, endframe, vars, running,
             Reader, Recv, WriteSpool, ReaderEnds
    <2> QED
      BY <2>1, <2>2, <2>3, <2>4
  <1>3. ASSUME NEW c \in registered', c \notin ToSet(conns)' PROVE OverAt(c)'
    <2>1. CASE c \in registered /\ c \notin ToSet(conns) /\ health' = {}
      BY <2>1, OverStays
    <2>2. CASE ConnDrained /\ Ended /\ c = Current
      BY <1>0, <2>2, CurrentIn, OverNow DEF ConnDrained, TypeInv
    <2>3. CASE health' # {}
      BY <2>3 DEF OverAt
    <2> QED
      BY <1>0, <1>3, <2>1, <2>2, <2>3, ListedStays
  <1> QED
    BY <1>1, <1>2, <1>3 DEF Noted

(* In a capture where every hook's final status is the last line of its    *)
(* connection and a key has one connection, no capture warning means that  *)
(* nothing was lost ("An empty list means nothing was lost or degraded"):  *)
(* each record of a hook that got a first byte through is in the trace,    *)
(* whatever was killed, refused, failed to spool or outlived the deadline. *)
THEOREM CleanIsComplete == Spec => [](Plain => CleanMeansComplete)
  <1>1. Init => Noted /\ Reported
    <2> SUFFICES ASSUME Init PROVE Noted /\ Reported
      OBVIOUS
    <2>1. \A c \in Conn : handled[c] = <<>> /\ ~spool_failed[c]
      BY DEF Init
    <2>2. \A c \in Conn : Keys(c) = {}
      BY <2>1 DEF Keys, LinesOf, ToSet
    <2>3. Noted
      BY <2>1 DEF Init, Noted
    <2> QED
      BY <2>2, <2>3 DEF Reported
  <1>2. Init /\ OrderInv /\ EndInv => CleanInv
    BY <1>1 DEF CleanInv
  <1>3. CleanInv /\ OrderInv' /\ EndInv' /\ [Next]_vars => CleanInv'
    BY ReportedStep, NotedStep DEF CleanInv
  <1>4. CleanInv => (Plain => CleanMeansComplete)
    <2> SUFFICES ASSUME CleanInv, Plain, finish = "returned", ~Warned, NEW c \in early, c \notin Foreign, got[c] > 0,
                        NEW n \in DOMAIN Script[c], IsDataNo(c, n)
                 PROVE  n \in ToSet(handled[c])
      BY DEF CleanMeansComplete
    <2>0. StreamInv /\ PlacesInv /\ TypeInv /\ Places /\ Ending /\ health = {} /\ c \in Conn
      BY DEF CleanInv, EndInv, StreamInv, PlacesInv, TypeInv, Warned
    <2>1. conns = <<>> /\ c \notin ToSet(backlog) /\ accept = "gone" /\ c \notin refused /\ ~spool_failed[c]
      BY <2>0 DEF CleanInv, Noted, Ending
    <2>2. c # hand /\ peer[c] # "none"
      BY <2>0, <2>1, ReceiverAssumption DEF TypeInv, Places
    <2>3. c \in registered /\ c \in DOMAIN Script /\ ToSet(conns) = {}
      BY <2>0, <2>1, <2>2 DEF Places, ToSet
    <2>4. OverAt(c)
      BY <2>3 DEF CleanInv, Noted
    <2>5. PICK h \in Nat :
             /\ h <= Len(Script[c]) /\ handled[c] = Pieces(0, h) /\ DOMAIN handled[c] = 1 .. h
             /\ \A i \in 1 .. h : handled[c][i] = i /\ Script[c][i] \in Line
             /\ DOMAIN Script[c] = 1 .. Len(Script[c]) /\ Len(Script[c]) \in Nat
             /\ Keys(c) = {Script[c][i].key : i \in {j \in 1 .. h : IsStatus(Script[c][j])}}
             /\ FinalKeys(c) = {Script[c][i].key : i \in {j \in 1 .. h : Script[c][j].kind = "final"}}
      BY <2>1, <2>3, HeardLines DEF CleanInv
    <2>6. PICK key \in Key : key \in Keys(c)
      <3>1. 1 \in DOMAIN handled[c]
        BY <2>0, <2>4, <2>5 DEF OverAt, Pieces
      <3>2. Keys(c) # {}
        <4> SUFFICES ASSUME Keys(c) = {} PROVE 1 \in DataNos(c, handled[c])
          BY <2>0, <2>4 DEF OverAt
        <4>1. 1 \in 1 .. h /\ handled[c][1] = 1 /\ ~IsStatus(Script[c][1])
          <5>1. 1 \in 1 .. h /\ handled[c][1] = 1
            BY <2>5, <3>1
          <5>2. ASSUME IsStatus(Script[c][1]) PROVE FALSE
            <6>1. 1 \in {j \in 1 .. h : IsStatus(Script[c][j])}
              BY <5>1, <5>2
            <6>2. Keys(c) = {Script[c][i].key : i \in {j \in 1 .. h : IsStatus(Script[c][j])}}
              BY <2>5
            <6> HIDE DEF IsStatus
            <6> QED
              BY <6>1, <6>2, Zenon
          <5> QED
            BY <5>1, <5>2
        <4> QED
          BY <3>1, <4>1 DEF DataNos, IsDataNo
      <3>3. Keys(c) \subseteq Key
        BY <2>5 DEF Line
      <3> QED
        BY <3>2, <3>3
    <2>7. key \notin ended_without_final
      BY <2>0, <2>6 DEF CleanInv, Reported, Warned
    <2>8. PICK m \in 1 .. h : Script[c][m].kind = "final"
      BY <2>0, <2>4, <2>5, <2>6, <2>7 DEF OverAt
    <2>9. m = Len(Script[c])
      <3>1. m \in DOMAIN Script[c]
        BY <2>5, <2>8
      <3> QED
        BY <2>3, <2>8, <3>1 DEF Plain
    <2>10. n \in DOMAIN handled[c] /\ handled[c][n] = n
      BY <2>5, <2>8, <2>9
    <2> QED
      BY <2>10 DEF ToSet
  <1> QED
    BY <1>2, <1>3, <1>4, OrderAlways, EndAlways, PTL DEF Spec

=============================================================================
