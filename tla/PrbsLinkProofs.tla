--------------------------- MODULE PrbsLinkProofs ---------------------------
(***************************************************************************)
(* What is proved of the receiver evaluation, for every length of a byte,  *)
(* of a packet and of the sequence, every number of packets and of faults. *)
(* The packets carry the pseudorandom sequence, however the scheduler cuts *)
(* the output of the source into calls of work; what the blocks on the way *)
(* do to bits and bytes can be undone, so that an intact packet is judged  *)
(* to be the one that was sent; and the sink keeps books on the files: what*)
(* it counts, and what is on its way to be counted, was heard (CreditInv), *)
(* and what was heard is counted, on its way, or a fault took it (LostInv).*)
(***************************************************************************)
EXTENDS PrbsLink, WellFoundedInduction, FiniteSetTheorems, TLAPS

-----------------------------------------------------------------------------
(* Arithmetic and sequences.                                               *)

\* Division with remainder, for a divisor that is not a literal.
LEMMA DivMod ==
    ASSUME NEW a \in Nat, NEW b \in Nat \ {0}
    PROVE  /\ a \div b \in Nat
           /\ a % b \in 0 .. b - 1
           /\ (a \div b) * b + (a % b) = a
OBVIOUS

\* Quotient and remainder are the only numbers of that kind.
LEMMA DivModUnique ==
    ASSUME NEW b \in Nat \ {0}, NEW q \in Nat, NEW r \in 0 .. b - 1
    PROVE  (q * b + r) \div b = q /\ (q * b + r) % b = r
<1> DEFINE a == q * b + r
           x == a \div b
           y == a % b
<1>1. a \in Nat
  OBVIOUS
<1>2. x \in Nat /\ y \in 0 .. b - 1 /\ x * b + y = a
  BY <1>1, DivMod
<1> HIDE DEF x, y
<1>3. \A m, n \in Nat : m < n => m * b + b <= n * b
  OBVIOUS
<1>4. ~(x < q)
  BY <1>2, <1>3
<1>5. ~(q < x)
  BY <1>2, <1>3
<1>6. x = q
  BY <1>2, <1>4, <1>5
<1>7. y = r
  BY <1>2, <1>6
<1> QED BY <1>6, <1>7 DEF x, y

\* Remainders: of a number below the divisor, of a sum with the divisor, of a sum
\* with a remainder.
LEMMA ModFacts ==
    ASSUME NEW b \in Nat \ {0}, NEW a \in Nat
    PROVE  /\ a < b => a % b = a
           /\ (b + a) % b = a % b
           /\ \A c \in Nat : ((a % b) + c) % b = (a + c) % b
<1> DEFINE q == a \div b
           r == a % b
<1>1. q \in Nat /\ r \in 0 .. b - 1 /\ q * b + r = a
  BY DivMod
<1> HIDE DEF q, r
<1>2. a < b => a % b = a
  <2>1. a < b => a \in 0 .. b - 1 /\ 0 * b + a = a
    OBVIOUS
  <2> QED BY <2>1, DivModUnique
<1>3. (b + a) % b = r
  <2>1. q + 1 \in Nat /\ (q + 1) * b + r = b + a
    BY <1>1
  <2> QED BY <1>1, <2>1, DivModUnique
<1>4. ASSUME NEW c \in Nat PROVE (r + c) % b = (a + c) % b
  <2> DEFINE p == (r + c) \div b
             s == (r + c) % b
  <2>1. r + c \in Nat
    BY <1>1
  <2>2. p \in Nat /\ s \in 0 .. b - 1 /\ p * b + s = r + c
    BY <2>1, DivMod
  <2> HIDE DEF p, s
  <2>3. q + p \in Nat /\ (q + p) * b + s = a + c
    BY <1>1, <2>2
  <2>4. (a + c) % b = s
    BY <2>2, <2>3, DivModUnique
  <2> QED BY <2>4 DEF s
<1> QED BY <1>2, <1>3, <1>4 DEF r

\* Every non-empty set of natural numbers has a least element.
LEMMA LeastNatural ==
    ASSUME NEW T, T \subseteq Nat, T # {}
    PROVE  \E x \in T : \A y \in T : x <= y
<1>1. PICK x \in T : \A y \in T : ~(<<y, x>> \in OpToRel(<, Nat))
  BY WFMin, NatLessThanWellFounded
<1>2. \A y \in T : ~(y < x)
  BY <1>1 DEF OpToRel
<1> QED BY <1>2

LEMMA LeastOf ==
    ASSUME NEW N \in Nat, NEW T, T \subseteq 0 .. N, T # {}, 0 \notin T
    PROVE  \E m \in 1 .. N : m \in T /\ \A k \in 0 .. m - 1 : k \notin T
<1>1. T \subseteq Nat
  OBVIOUS
<1>2. PICK m \in T : \A y \in T : m <= y
  BY <1>1, LeastNatural
<1>3. m \in 1 .. N
  OBVIOUS
<1>4. \A k \in 0 .. m - 1 : k \notin T
  BY <1>2, <1>3
<1> QED BY <1>3, <1>4

\* The smaller of two numbers.
LEMMA MinOfTwo ==
    ASSUME NEW a \in Int, NEW b \in Int
    PROVE  Min({a, b}) = IF a <= b THEN a ELSE b
<1> DEFINE m == IF a <= b THEN a ELSE b
<1>1. m \in {a, b} /\ \A y \in {a, b} : m <= y
  OBVIOUS
<1>2. \A x \in {a, b} : (\A y \in {a, b} : x <= y) => x = m
  OBVIOUS
<1> HIDE DEF m
<1>3. Min({a, b}) = m
  BY <1>1, <1>2 DEF Min
<1> QED BY <1>3 DEF m

-----------------------------------------------------------------------------
(* Bytes and bits.                                                         *)

BitStrings == [1 .. ByteBits -> {0, 1}]

\* The partial results of packing the bits s.
Packing(a, s, n) == a[0] = 0 /\ \A k \in 1 .. n : a[k] = 2 * a[k - 1] + s[k]

LEMMA PackingExists ==
    ASSUME NEW N \in Nat, NEW s \in [1 .. N -> {0, 1}]
    PROVE  \E a \in [0 .. N -> Nat] : Packing(a, s, N)
<1> DEFINE Good(n) == \E a \in [0 .. n -> Nat] : Packing(a, s, n)
           T == {n \in 0 .. N : ~Good(n)}
<1> SUFFICES ASSUME ~Good(N) PROVE FALSE
  OBVIOUS
<1>1. Good(0)
  <2> DEFINE a == [k \in 0 .. 0 |-> 0]
  <2>1. a \in [0 .. 0 -> Nat] /\ Packing(a, s, 0)
    BY DEF Packing
  <2> QED BY <2>1
<1> HIDE DEF Good
<1>2. N \in T /\ T \subseteq 0 .. N /\ 0 \notin T
  BY <1>1
<1> HIDE DEF T
<1>3. PICK m \in 1 .. N : m \in T /\ \A k \in 0 .. m - 1 : k \notin T
  BY <1>2, LeastOf
<1>4. m - 1 \in 0 .. N /\ m - 1 \in 0 .. m - 1 /\ m \in 0 .. N
  OBVIOUS
<1>12. ~Good(m) /\ Good(m - 1)
  BY <1>3, <1>4 DEF T
<1>5. PICK a \in [0 .. m - 1 -> Nat] : Packing(a, s, m - 1)
  BY <1>12 DEF Good
<1> DEFINE b == [k \in 0 .. m |-> IF k = m THEN 2 * a[m - 1] + s[m] ELSE a[k]]
<1>6. s[m] \in {0, 1} /\ a[m - 1] \in Nat
  BY <1>4
<1>7. b \in [0 .. m -> Nat]
  BY <1>6
<1>8. b[m] = 2 * a[m - 1] + s[m] /\ \A k \in 0 .. m - 1 : b[k] = a[k]
  OBVIOUS
<1> HIDE DEF b
<1>9. b[0] = 0
  BY <1>5, <1>8 DEF Packing
<1>10. ASSUME NEW k \in 1 .. m PROVE b[k] = 2 * b[k - 1] + s[k]
  <2>1. CASE k = m
    BY <1>6, <1>8, <2>1
  <2>2. CASE k # m
    <3>1. k \in 1 .. m - 1 /\ k \in 0 .. m - 1 /\ k - 1 \in 0 .. m - 1
      BY <2>2
    <3> QED BY <1>5, <1>8, <3>1 DEF Packing
  <2> QED BY <2>1, <2>2
<1>11. Good(m)
  BY <1>7, <1>9, <1>10 DEF Packing, Good
<1> QED BY <1>12, <1>11

\* Byte is the last of them.
LEMMA ByteIsPacked ==
    ASSUME NEW N \in Nat, NEW s \in [1 .. N -> {0, 1}]
    PROVE  \E a \in [0 .. N -> Nat] : Packing(a, s, N) /\ Byte(s) = a[N]
<1>1. PICK a \in [0 .. N -> Nat] : Packing(a, s, N)
  BY PackingExists
<1>2. Len(s) = N
  OBVIOUS
<1> DEFINE F(x) == [k \in 0 .. N |-> IF k = 0 THEN 0 ELSE 2 * x[k - 1] + s[k]]
<1>3. a = F(a)
  <2>1. \A k \in 0 .. N : a[k] = F(a)[k]
    <3> TAKE k \in 0 .. N
    <3>1. k = 0 \/ k \in 1 .. N
      OBVIOUS
    <3> QED BY <1>1, <3>1 DEF Packing
  <2> QED BY <2>1
<1>4. ASSUME NEW x, x = F(x) PROVE x = a
  <2> DEFINE T == {k \in 0 .. N : x[k] # a[k]}
  <2>1. ASSUME T # {} PROVE FALSE
    <3>1. x[0] = 0 /\ a[0] = 0
      BY <1>1, <1>4 DEF Packing
    <3>2. T \subseteq 0 .. N /\ 0 \notin T
      BY <3>1
    <3> HIDE DEF T
    <3>3. PICK m \in 1 .. N : m \in T /\ \A k \in 0 .. m - 1 : k \notin T
      BY <2>1, <3>2, LeastOf
    <3>4. x[m] # a[m] /\ m - 1 \in 0 .. N /\ m - 1 \in 0 .. m - 1
      BY <3>3 DEF T
    <3>5. x[m - 1] = a[m - 1]
      BY <3>3, <3>4 DEF T
    <3>6. x[m] = F(x)[m] /\ F(x)[m] = 2 * x[m - 1] + s[m]
      BY <1>4, <3>4
    <3>7. a[m] = 2 * a[m - 1] + s[m]
      BY <1>1, <3>4 DEF Packing
    <3> QED BY <3>4, <3>5, <3>6, <3>7
  <2>2. \A k \in 0 .. N : x[k] = a[k]
    BY <2>1
  <2> QED BY <1>4, <2>2
<1>5. \A x : x = F(x) <=> x = a
  BY <1>3, <1>4
<1>6. (CHOOSE x : x = F(x)) = a
  BY <1>5
<1>7. Byte(s) = a[N]
  BY <1>2, <1>6 DEF Byte
<1> QED BY <1>1, <1>7

\* Two bytes with the same value have the same bits: from the last bit backwards,
\* the partial results are the same.
LEMMA ByteInjective ==
    ASSUME NEW s \in BitStrings, NEW t \in BitStrings, Byte(s) = Byte(t)
    PROVE  s = t
<1> DEFINE B == ByteBits
<1>0. B \in Nat
  BY LinkAssumption
<1>1. PICK a \in [0 .. B -> Nat] : Packing(a, s, B) /\ Byte(s) = a[B]
  BY <1>0, ByteIsPacked DEF BitStrings
<1>2. PICK b \in [0 .. B -> Nat] : Packing(b, t, B) /\ Byte(t) = b[B]
  BY <1>0, ByteIsPacked DEF BitStrings
<1> HIDE DEF B
<1>3. ASSUME NEW k \in 1 .. B
      PROVE  /\ a[k] = 2 * a[k - 1] + s[k] /\ b[k] = 2 * b[k - 1] + t[k]
             /\ {a[k], b[k], a[k - 1], b[k - 1]} \subseteq Nat
             /\ s[k] \in {0, 1} /\ t[k] \in {0, 1}
  <2>1. k \in 0 .. B /\ k - 1 \in 0 .. B
    BY <1>0
  <2>2. s[k] \in {0, 1} /\ t[k] \in {0, 1}
    BY DEF BitStrings, B
  <2> QED BY <1>1, <1>2, <2>1, <2>2 DEF Packing
<1>4. ASSUME NEW x \in Nat, NEW y \in Nat, NEW c \in {0, 1}, NEW d \in {0, 1},
             2 * x + c = 2 * y + d
      PROVE  x = y /\ c = d
  BY <1>4
<1> DEFINE T == {d \in 0 .. B : a[B - d] # b[B - d]}
<1>5. T = {}
  <2> SUFFICES ASSUME T # {} PROVE FALSE
    OBVIOUS
  <2>6. a[B] = b[B]
    BY <1>1, <1>2, Zenon
  <2>7. B - 0 = B
    BY <1>0
  <2>1. T \subseteq 0 .. B /\ 0 \notin T
    BY <2>6, <2>7
  <2> HIDE DEF T
  <2>2. PICK m \in 1 .. B : m \in T /\ \A d \in 0 .. m - 1 : d \notin T
    BY <1>0, <2>1, LeastOf
  <2> DEFINE k == B - m + 1
  <2>3. k \in 1 .. B /\ k - 1 = B - m /\ k = B - (m - 1)
        /\ m - 1 \in 0 .. m - 1 /\ m - 1 \in 0 .. B
    BY <1>0
  <2> HIDE DEF k
  <2>4. a[k - 1] # b[k - 1] /\ a[k] = b[k]
    BY <2>2, <2>3 DEF T
  <2>5. a[k - 1] = b[k - 1]
    <3> DEFINE x == a[k - 1]
               y == b[k - 1]
               c == s[k]
               d == t[k]
    <3>1. x \in Nat /\ y \in Nat /\ c \in {0, 1} /\ d \in {0, 1}
      BY <1>3, <2>3
    <3>2. 2 * x + c = 2 * y + d
      BY <1>3, <2>3, <2>4
    <3> HIDE DEF x, y, c, d
    <3>3. x = y
      BY <1>4, <3>1, <3>2
    <3> QED BY <3>3 DEF x, y
  <2> QED BY <2>4, <2>5
<1>6. \A k \in 0 .. B : a[k] = b[k]
  <2> TAKE k \in 0 .. B
  <2>1. B - k \in 0 .. B /\ B - (B - k) = k
    BY <1>0
  <2> QED BY <1>5, <2>1
<1>7. ASSUME NEW k \in 1 .. B PROVE s[k] = t[k]
  <2> DEFINE x == a[k - 1]
             y == b[k - 1]
             c == s[k]
             d == t[k]
  <2>1. k \in 0 .. B
    BY <1>0
  <2>2. x \in Nat /\ y \in Nat /\ c \in {0, 1} /\ d \in {0, 1}
    BY <1>3
  <2>3. 2 * x + c = 2 * y + d
    BY <1>3, <1>6, <2>1
  <2> HIDE DEF x, y, c, d
  <2>4. c = d
    BY <1>4, <2>2, <2>3
  <2> QED BY <2>4 DEF c, d
<1>8. s \in [1 .. B -> {0, 1}] /\ t \in [1 .. B -> {0, 1}]
  BY DEF BitStrings, B
<1>9. s = [k \in 1 .. B |-> s[k]] /\ t = [k \in 1 .. B |-> t[k]]
  BY <1>8
<1>10. [k \in 1 .. B |-> s[k]] = [k \in 1 .. B |-> t[k]]
  BY <1>7
<1> QED BY <1>9, <1>10, Zenon

\* Unpacking a byte undoes packing it.
LEMMA BitsOfByte ==
    ASSUME NEW s \in BitStrings
    PROVE  Bits(Byte(s)) = s
<1>1. \A t \in BitStrings : Byte(t) = Byte(s) <=> t = s
  BY ByteInjective
<1> QED BY <1>1 DEF Bits, BitStrings

\* What pack_bits makes of n times ByteBits bits: the i-th byte has the bits of
\* the i-th word.
Word(arr, i) == [j \in 1 .. ByteBits |-> arr[(i - 1) * ByteBits + j]]

LEMMA PackedBytes ==
    ASSUME NEW n \in Nat, NEW arr \in [1 .. n * ByteBits -> {0, 1}]
    PROVE  /\ pack_bits(arr) \in Seq(Nat) /\ Len(pack_bits(arr)) = n
           /\ \A i \in 1 .. n : Word(arr, i) \in BitStrings
                             /\ pack_bits(arr)[i] = Byte(Word(arr, i))
<1> DEFINE B == ByteBits
<1>0. B \in Nat \ {0}
  BY LinkAssumption
<1> HIDE DEF B
<1>1. n * B \in Nat /\ Len(arr) = n * B
  BY <1>0 DEF B
<1>2. Len(arr) \div B = n
  <2>1. n * B + 0 = n * B /\ 0 \in 0 .. B - 1
    BY <1>0
  <2> QED BY <1>0, <1>1, <2>1, DivModUnique
<1>3. ASSUME NEW i \in 1 .. n
      PROVE  /\ Word(arr, i) \in BitStrings
             /\ SubSeq(arr, (i - 1) * B + 1, i * B) = Word(arr, i)
  <2> DEFINE o == (i - 1) * B
  <2>1. o \in Nat /\ i * B = o + B /\ o + B <= n * B
    <3>1. \A x, y \in Nat : x <= y => x * B <= y * B
      BY <1>0
    <3> QED BY <1>0, <3>1
  <2> HIDE DEF o
  <2>2. \A j \in 1 .. B : o + j \in 1 .. n * B
    BY <1>0, <1>1, <2>1
  <2>3. Word(arr, i) = [j \in 1 .. B |-> arr[o + j]]
    BY DEF Word, B, o
  <2>4. Word(arr, i) \in BitStrings
    BY <2>2, <2>3 DEF BitStrings, B
  <2>5. SubSeq(arr, o + 1, o + B) = [j \in 1 .. B |-> arr[o + j]]
    <3>1. SubSeq(arr, o + 1, o + B) = [j \in 1 .. (o + B) - (o + 1) + 1 |-> arr[(o + 1) + j - 1]]
      BY <1>0, <1>1, <2>1
    <3>2. (o + B) - (o + 1) + 1 = B /\ \A j \in 1 .. B : (o + 1) + j - 1 = o + j
      BY <1>0, <2>1
    <3> QED BY <3>1, <3>2
  <2> QED BY <2>1, <2>3, <2>4, <2>5 DEF o
<1>4. ASSUME NEW i \in 1 .. n PROVE Byte(Word(arr, i)) \in Nat
  <2>1. PICK a \in [0 .. B -> Nat] : Byte(Word(arr, i)) = a[B]
    BY <1>0, <1>3, ByteIsPacked DEF BitStrings, B
  <2> QED BY <1>0, <2>1
<1>5. pack_bits(arr) = [i \in 1 .. n |-> Byte(Word(arr, i))]
  BY <1>2, <1>3 DEF pack_bits, B
<1> QED BY <1>3, <1>4, <1>5

\* Concatenation, whatever the sequences hold.
LEMMA ConcatIs ==
    ASSUME NEW S, NEW s \in Seq(S), NEW t \in Seq(S)
    PROVE  /\ Len(s \o t) = Len(s) + Len(t)
           /\ s \o t = [i \in 1 .. Len(s) + Len(t) |->
                          IF i <= Len(s) THEN s[i] ELSE t[i - Len(s)]]
<1> DEFINE st == s \o t
           c(i) == IF i <= Len(s) THEN s[i] ELSE t[i - Len(s)]
<1>1. st \in Seq(S) /\ Len(st) = Len(s) + Len(t)
  OBVIOUS
<1>2. \A i \in 1 .. Len(s) + Len(t) : st[i] = c(i)
  OBVIOUS
<1> HIDE DEF st, c
<1>3. st = [i \in 1 .. Len(s) + Len(t) |-> st[i]]
  BY <1>1
<1>4. st = [i \in 1 .. Len(s) + Len(t) |-> c(i)]
  BY <1>2, <1>3
<1> QED BY <1>1, <1>4 DEF st, c

LEMMA ConcatAssoc ==
    ASSUME NEW S, NEW r \in Seq(S), NEW s \in Seq(S), NEW t \in Seq(S)
    PROVE  r \o (s \o t) = (r \o s) \o t
OBVIOUS

\* Bit i of H + n words of b bits is bit r + 1 of word q + 1, and that is one of
\* the first H words if i is one of the first H * b bits.
LEMMA Position ==
    ASSUME NEW b \in Nat \ {0}, NEW H \in Nat, NEW n \in Nat,
           NEW i \in 1 .. (H + n) * b,
           NEW q \in Nat, NEW r \in 0 .. b - 1, q * b + r = i - 1
    PROVE  /\ q < H + n
           /\ q < H <=> i <= H * b
           /\ q >= H => i - H * b = (q - H) * b + (r + 1)
<1>1. \A x, y \in Nat : x < y => x * b + b <= y * b
  OBVIOUS
<1>2. \A x, y \in Nat : x <= y => x * b <= y * b
  OBVIOUS
<1> DEFINE Q == q * b
           K == H * b
           L == (H + n) * b
<1>3. Q \in Nat /\ K \in Nat /\ L \in Nat /\ H + n \in Nat
  OBVIOUS
<1>4. q < H => Q + b <= K
  BY <1>1
<1>5. H <= q => K <= Q
  BY <1>2
<1>6. H + n <= q => L <= Q
  BY <1>2, <1>3
<1>7. Q + r = i - 1 /\ i \in 1 .. L
  OBVIOUS
<1>8. (q - H) * b = Q - K
  OBVIOUS
<1> HIDE DEF Q, K, L
<1>9. q < H + n
  BY <1>3, <1>6, <1>7
<1>10. q < H <=> i <= K
  BY <1>3, <1>4, <1>5, <1>7
<1>11. i - K = (q - H) * b + (r + 1)
  BY <1>3, <1>7, <1>8
<1> QED BY <1>9, <1>10, <1>11 DEF K

\* Unpacking bytes of which the last ones are packed bits gives these bits.
LEMMA UnpackPacked ==
    ASSUME NEW A, NEW h \in Seq(A), NEW n \in Nat, NEW arr \in [1 .. n * ByteBits -> {0, 1}]
    PROVE  Unpack(h \o pack_bits(arr)) = Unpack(h) \o arr
<1> DEFINE B == ByteBits
           H == Len(h)
           K == H * B
           p == pack_bits(arr)
           hp == h \o p
           all_bits == Unpack(hp)
           first == Unpack(h)
<1>0. B \in Nat \ {0} /\ H \in Nat /\ K \in Nat /\ n * B \in Nat
  BY LinkAssumption
<1>1. /\ p \in Seq(Nat) /\ Len(p) = n
      /\ \A i \in 1 .. n : Word(arr, i) \in BitStrings /\ p[i] = Byte(Word(arr, i))
  BY PackedBytes
<1> HIDE DEF p
<1>2. Len(hp) = H + n /\ hp = [i \in 1 .. H + n |-> IF i <= H THEN h[i] ELSE p[i - H]]
  <2>1. h \in Seq(A \cup Nat) /\ p \in Seq(A \cup Nat)
    BY <1>1
  <2> QED BY <1>1, <2>1, ConcatIs
<1> HIDE DEF hp
<1>3. /\ all_bits = [i \in 1 .. (H + n) * B |-> Bits(hp[((i - 1) \div B) + 1])[((i - 1) % B) + 1]]
      /\ first = [i \in 1 .. K |-> Bits(h[((i - 1) \div B) + 1])[((i - 1) % B) + 1]]
  BY <1>2 DEF Unpack
<1>4. arr \in [1 .. n * B -> {0, 1}]
  OBVIOUS
<1> HIDE DEF all_bits, first, H, B
<1>5. first \o arr = [i \in 1 .. K + n * B |-> IF i <= K THEN first[i] ELSE arr[i - K]]
  <2> DEFINE S == {first[i] : i \in 1 .. K} \cup {0, 1}
  <2>1. arr \in Seq(S) /\ Len(arr) = n * B
    BY <1>0, <1>4
  <2>2. DOMAIN first = 1 .. K /\ first = [i \in 1 .. K |-> first[i]]
    BY <1>3
  <2>3. \A i \in 1 .. K : first[i] \in S
    OBVIOUS
  <2> HIDE DEF S, K
  <2>4. first \in [1 .. K -> S]
    BY <2>2, <2>3
  <2>5. first \in Seq(S) /\ Len(first) = K
    BY <1>0, <2>4
  <2>6. first \o arr = [i \in 1 .. Len(first) + Len(arr) |->
                         IF i <= Len(first) THEN first[i] ELSE arr[i - Len(first)]]
    BY <2>1, <2>5, ConcatIs
  <2> QED BY <2>1, <2>5, <2>6
<1>6. K + n * B = (H + n) * B
  BY <1>0
<1>7. ASSUME NEW i \in 1 .. (H + n) * B
      PROVE  all_bits[i] = IF i <= K THEN first[i] ELSE arr[i - K]
  <2> DEFINE q == (i - 1) \div B
             r == (i - 1) % B
  <2>1. i - 1 \in Nat
    BY <1>0
  <2>2. q \in Nat /\ r \in 0 .. B - 1 /\ q * B + r = i - 1
    BY <1>0, <2>1, DivMod
  <2>3. all_bits[i] = Bits(hp[q + 1])[r + 1]
    BY <1>3
  <2>4. i \in 1 .. K => first[i] = Bits(h[q + 1])[r + 1]
    BY <1>3
  <2> HIDE DEF q, r
  <2>5. /\ q < H + n
        /\ q < H <=> i <= K
        /\ q >= H => i - K = (q - H) * B + (r + 1)
    BY <1>0, <2>2, Position
  <2> HIDE DEF K
  <2>6. q + 1 \in 1 .. H + n /\ r + 1 \in 1 .. B
    BY <1>0, <2>2, <2>5
  <2>7. CASE i <= K
    <3>1. q + 1 <= H /\ i \in 1 .. K
      BY <1>0, <2>2, <2>5, <2>7
    <3>2. hp[q + 1] = h[q + 1]
      BY <1>2, <2>6, <3>1
    <3> QED BY <2>3, <2>4, <2>7, <3>1, <3>2
  <2>8. CASE ~(i <= K)
    <3> DEFINE w == (q + 1) - H
    <3>1. w \in 1 .. n /\ ~(q + 1 <= H) /\ w - 1 = q - H
      BY <1>0, <2>2, <2>5, <2>8
    <3>2. hp[q + 1] = p[w]
      BY <1>2, <2>6, <3>1
    <3> HIDE DEF w
    <3>3. Bits(p[w]) = Word(arr, w)
      BY <1>1, <3>1, BitsOfByte
    <3>4. Word(arr, w)[r + 1] = arr[(w - 1) * B + (r + 1)]
      BY <2>6 DEF Word, B
    <3>5. (w - 1) * B + (r + 1) = i - K
      BY <1>0, <2>2, <2>5, <2>8, <3>1
    <3> QED BY <2>3, <2>8, <3>2, <3>3, <3>4, <3>5
  <2> QED BY <2>7, <2>8
<1>8. all_bits = [i \in 1 .. (H + n) * B |-> all_bits[i]]
  BY <1>3
<1>9. all_bits = first \o arr
  BY <1>5, <1>6, <1>7, <1>8
<1> QED BY <1>9 DEF p, hp, all_bits, first

-----------------------------------------------------------------------------
(* The sequence.                                                           *)

\* Bit k as the generator computes it from the bits g before it.
Reg(g, k, j) == IF j < k THEN g[k - 1 - j] ELSE init_reg(j - k)
NextBit(g, k) == (Reg(g, k, 28) + Reg(g, k, 31)) % 2

LEMMA Taps == gen_poly[2] = 28 /\ gen_poly[3] = 31
BY DEF gen_poly, modes

LEMMA RegBit ==
    ASSUME NEW k \in Nat, NEW g, \A m \in 0 .. k - 1 : g[m] \in {0, 1}, NEW j \in Nat
    PROVE  Reg(g, k, j) \in {0, 1}
<1>1. CASE j < k
  <2>1. k - 1 - j \in 0 .. k - 1
    BY <1>1
  <2> QED BY <1>1, <2>1 DEF Reg
<1>2. CASE ~(j < k)
  BY <1>2 DEF Reg, init_reg
<1> QED BY <1>1, <1>2

LEMMA NextBitBit ==
    ASSUME NEW k \in Nat, NEW g, \A m \in 0 .. k - 1 : g[m] \in {0, 1}
    PROVE  NextBit(g, k) \in {0, 1}
<1> DEFINE x == Reg(g, k, 28)
           y == Reg(g, k, 31)
<1>1. x \in {0, 1} /\ y \in {0, 1}
  BY RegBit
<1> HIDE DEF x, y
<1>2. (x + y) % 2 \in {0, 1}
  BY <1>1
<1> QED BY <1>2 DEF NextBit, x, y

\* A bit depends only on the bits before it.
LEMMA NextBitLocal ==
    ASSUME NEW k \in Nat, NEW g, NEW h, \A m \in 0 .. k - 1 : g[m] = h[m]
    PROVE  NextBit(g, k) = NextBit(h, k)
<1>1. ASSUME NEW j \in Nat PROVE Reg(g, k, j) = Reg(h, k, j)
  <2>1. CASE j < k
    <3>1. k - 1 - j \in 0 .. k - 1
      BY <2>1
    <3> QED BY <2>1, <3>1 DEF Reg
  <2>2. CASE ~(j < k)
    BY <2>2 DEF Reg
  <2> QED BY <2>1, <2>2
<1> QED BY <1>1 DEF NextBit

\* So the recursion has a solution of every length.
Sequenced(g, n) == \A k \in 0 .. n - 1 : g[k] = NextBit(g, k)

LEMMA SequenceExists ==
    ASSUME NEW N \in Nat
    PROVE  \E g \in [0 .. N - 1 -> {0, 1}] : Sequenced(g, N)
<1> DEFINE Good(n) == \E g \in [0 .. n - 1 -> {0, 1}] : Sequenced(g, n)
           T == {n \in 0 .. N : ~Good(n)}
<1> SUFFICES ASSUME ~Good(N) PROVE FALSE
  OBVIOUS
<1>1. Good(0)
  <2> DEFINE g == [k \in 0 .. 0 - 1 |-> 0]
  <2>1. g \in [0 .. 0 - 1 -> {0, 1}] /\ Sequenced(g, 0)
    BY DEF Sequenced
  <2> QED BY <2>1
<1> HIDE DEF Good
<1>2. N \in T /\ T \subseteq 0 .. N /\ 0 \notin T
  BY <1>1
<1> HIDE DEF T
<1>3. PICK n \in 1 .. N : n \in T /\ \A k \in 0 .. n - 1 : k \notin T
  BY <1>2, LeastOf
<1>4. n - 1 \in 0 .. N /\ n - 1 \in 0 .. n - 1 /\ n - 1 \in Nat
  OBVIOUS
<1>5. ~Good(n) /\ Good(n - 1)
  BY <1>3, <1>4 DEF T
<1> DEFINE m == n - 1
<1>6. m \in Nat /\ n - 1 = m /\ Good(m)
  BY <1>4, <1>5
<1> HIDE DEF m
<1>7. PICK g \in [0 .. m - 1 -> {0, 1}] : Sequenced(g, m)
  BY <1>6 DEF Good
<1> DEFINE h == [k \in 0 .. m |-> IF k = m THEN NextBit(g, m) ELSE g[k]]
<1>8. \A k \in 0 .. m - 1 : g[k] \in {0, 1}
  OBVIOUS
<1>9. NextBit(g, m) \in {0, 1}
  BY <1>6, <1>8, NextBitBit
<1>10. h \in [0 .. m -> {0, 1}]
  BY <1>6, <1>8, <1>9
<1>11. h[m] = NextBit(g, m) /\ \A k \in 0 .. m - 1 : h[k] = g[k]
  BY <1>6
<1> HIDE DEF h
<1>12. ASSUME NEW k \in 0 .. m PROVE h[k] = NextBit(h, k)
  <2>1. k \in Nat /\ \A i \in 0 .. k - 1 : g[i] = h[i]
    BY <1>6, <1>11
  <2>2. NextBit(g, k) = NextBit(h, k)
    BY <2>1, NextBitLocal
  <2>3. CASE k = m
    BY <1>11, <2>2, <2>3
  <2>4. CASE k # m
    <3>1. k \in 0 .. m - 1
      BY <1>6, <2>4
    <3> QED BY <1>7, <1>11, <2>2, <3>1 DEF Sequenced
  <2> QED BY <2>3, <2>4
<1>13. Good(n)
  BY <1>6, <1>10, <1>12 DEF Sequenced, Good
<1> QED BY <1>5, <1>13

\* pre holds bits.
LEMMA PreBits == pre \in [1 .. reset_len -> {0, 1}]
<1> DEFINE R == reset_len
           F(x) == [k \in 0 .. R - 1 |-> NextBit(x, k)]
           g == generate_n_bits_and_store
<1>0. R \in Nat
  BY LinkAssumption
<1>1. g = CHOOSE x : x = F(x)
  BY Taps DEF generate_n_bits_and_store, NextBit, Reg
<1> HIDE DEF R, g
<1>2. PICK a \in [0 .. R - 1 -> {0, 1}] : Sequenced(a, R)
  BY <1>0, SequenceExists
<1>3. a = F(a)
  BY <1>2 DEF Sequenced
<1>4. g = F(g)
  BY <1>1, <1>3
<1>5. \A k \in 0 .. R - 1 : g[k] = NextBit(g, k)
  BY <1>4
<1> DEFINE T == {k \in 0 .. R - 1 : g[k] \notin {0, 1}}
<1>6. T = {}
  <2> SUFFICES ASSUME T # {} PROVE FALSE
    OBVIOUS
  <2>1. T \subseteq Nat
    OBVIOUS
  <2> HIDE DEF T
  <2>2. PICK k \in T : \A i \in T : k <= i
    BY <2>1, LeastNatural
  <2>3. k \in 0 .. R - 1 /\ k \in Nat /\ g[k] \notin {0, 1}
    BY <1>0 DEF T
  <2>4. ASSUME NEW i \in 0 .. k - 1 PROVE g[i] \in {0, 1}
    <3>1. i \in 0 .. R - 1 /\ ~(k <= i)
      BY <1>0, <2>3
    <3> QED BY <2>2, <3>1 DEF T
  <2>5. g[k] \in {0, 1}
    BY <1>5, <2>3, <2>4, NextBitBit
  <2> QED BY <2>3, <2>5
<1>7. \A k \in 1 .. R : g[k - 1] \in {0, 1}
  <2> TAKE k \in 1 .. R
  <2>1. k - 1 \in 0 .. R - 1
    BY <1>0
  <2> QED BY <1>6, <2>1
<1> QED BY <1>7 DEF pre, g, R

-----------------------------------------------------------------------------
(* The generators: left bits from position i of the sequence.              *)

Cyclic(i, left) == [k \in 1 .. left |-> pre[((i + k - 1) % reset_len) + 1]]

\* One round of the loops of both generators: nout bits of this round of the
\* sequence, then the others from the position after them.
LEMMA Round ==
    ASSUME NEW i \in 0 .. reset_len - 1, NEW left \in Nat \ {0}
    PROVE  LET nout == Min({left, reset_len - i})
               next == IF i + nout = reset_len THEN 0 ELSE i + nout
           IN  /\ nout \in 1 .. left /\ next \in 0 .. reset_len - 1
               /\ Min({i + left, reset_len}) = i + nout
               /\ SubSeq(pre, i + 1, i + nout) \o Cyclic(next, left - nout) = Cyclic(i, left)
               /\ (next + (left - nout)) % reset_len = (i + left) % reset_len
<1> DEFINE R == reset_len
           nout == Min({left, R - i})
           next == IF i + nout = R THEN 0 ELSE i + nout
           sub == SubSeq(pre, i + 1, i + nout)
           rest == Cyclic(next, left - nout)
<1>0. R \in Nat \ {0}
  BY LinkAssumption
<1>1. i \in 0 .. R - 1 /\ pre \in [1 .. R -> {0, 1}]
  BY PreBits
<1> HIDE DEF R
<1>2. nout = IF left <= R - i THEN left ELSE R - i
  BY <1>0, <1>1, MinOfTwo
<1>3. Min({i + left, R}) = IF i + left <= R THEN i + left ELSE R
  BY <1>0, <1>1, MinOfTwo
<1> HIDE DEF nout
<1>4. nout \in 1 .. left /\ i + nout <= R /\ Min({i + left, R}) = i + nout
  BY <1>0, <1>1, <1>2, <1>3
<1>5. next \in 0 .. R - 1 /\ (next = i + nout \/ R + next = i + nout)
  BY <1>0, <1>1, <1>4
<1> HIDE DEF next
<1>6. ASSUME NEW x \in Nat PROVE (next + x) % R = ((i + nout) + x) % R
  <2>1. next + x \in Nat
    BY <1>0, <1>5
  <2>2. (R + (next + x)) % R = (next + x) % R
    BY <1>0, <2>1, ModFacts
  <2>3. next + x = (i + nout) + x \/ R + (next + x) = (i + nout) + x
    BY <1>0, <1>1, <1>4, <1>5
  <2> QED BY <2>2, <2>3
<1>7. (next + (left - nout)) % R = (i + left) % R
  <2>1. left - nout \in Nat /\ (i + nout) + (left - nout) = i + left
    BY <1>1, <1>4
  <2> QED BY <1>6, <2>1
<1>8. sub = [k \in 1 .. nout |-> pre[i + k]]
  <2>1. sub = [k \in 1 .. (i + nout) - (i + 1) + 1 |-> pre[(i + 1) + k - 1]]
    BY <1>0, <1>1, <1>4
  <2>2. (i + nout) - (i + 1) + 1 = nout /\ \A k \in 1 .. nout : (i + 1) + k - 1 = i + k
    BY <1>1, <1>4
  <2> QED BY <2>1, <2>2
<1>9. ASSUME NEW x \in Nat PROVE (x % R) + 1 \in 1 .. R
  <2>1. x % R \in 0 .. R - 1
    BY <1>0, DivMod
  <2> HIDE DEF R
  <2> QED BY <1>0, <2>1
<1>10. ASSUME NEW j \in Nat, NEW n \in Nat
       PROVE  /\ Cyclic(j, n) = [k \in 1 .. n |-> pre[((j + k - 1) % R) + 1]]
              /\ Cyclic(j, n) \in Seq({0, 1}) /\ Len(Cyclic(j, n)) = n
  <2>1. Cyclic(j, n) = [k \in 1 .. n |-> pre[((j + k - 1) % R) + 1]]
    BY DEF Cyclic, R
  <2>2. \A k \in 1 .. n : j + k - 1 \in Nat
    OBVIOUS
  <2>3. \A k \in 1 .. n : pre[((j + k - 1) % R) + 1] \in {0, 1}
    BY <1>1, <1>9, <2>2
  <2> QED BY <2>1, <2>3
<1>11. sub \in Seq({0, 1}) /\ Len(sub) = nout
  BY <1>0, <1>1, <1>4, <1>8
<1>12. next \in Nat /\ left - nout \in Nat /\ i \in Nat /\ left \in Nat
  BY <1>0, <1>1, <1>4, <1>5
<1>13. rest \in Seq({0, 1}) /\ Len(rest) = left - nout
  BY <1>10, <1>12
<1> DEFINE c(k) == pre[((i + k - 1) % R) + 1]
<1>14. ASSUME NEW k \in 1 .. nout PROVE sub[k] = c(k)
  <2>1. i + k - 1 \in Nat /\ i + k - 1 < R /\ (i + k - 1) + 1 = i + k
    BY <1>0, <1>1, <1>4
  <2>2. (i + k - 1) % R = i + k - 1
    BY <1>0, <2>1, ModFacts
  <2> QED BY <1>8, <2>1, <2>2
<1>15. ASSUME NEW k \in 1 .. left, ~(k <= nout) PROVE rest[k - nout] = c(k)
  <2>1. /\ k - nout \in 1 .. left - nout /\ (k - nout) - 1 \in Nat
        /\ next + (k - nout) - 1 = next + ((k - nout) - 1)
        /\ (i + nout) + ((k - nout) - 1) = i + k - 1
    BY <1>1, <1>4, <1>12, <1>15
  <2>2. rest = [m \in 1 .. left - nout |-> pre[((next + m - 1) % R) + 1]]
    BY <1>10, <1>12
  <2> HIDE DEF rest
  <2>3. rest[k - nout] = pre[((next + (k - nout) - 1) % R) + 1]
    BY <2>1, <2>2
  <2> QED BY <1>6, <2>1, <2>3
<1>16. sub \o rest = [k \in 1 .. left |-> c(k)]
  <2>1. sub \o rest = [k \in 1 .. Len(sub) + Len(rest) |->
                         IF k <= Len(sub) THEN sub[k] ELSE rest[k - Len(sub)]]
    BY <1>11, <1>13, ConcatIs
  <2>2. Len(sub) + Len(rest) = left /\ Len(sub) = nout
    BY <1>4, <1>11, <1>13
  <2>3. sub \o rest = [k \in 1 .. left |-> IF k <= nout THEN sub[k] ELSE rest[k - nout]]
    BY <2>1, <2>2
  <2>4. \A k \in 1 .. left : (IF k <= nout THEN sub[k] ELSE rest[k - nout]) = c(k)
    BY <1>4, <1>14, <1>15
  <2> HIDE DEF sub, rest, c
  <2> QED BY <2>3, <2>4
<1>17. sub \o rest = Cyclic(i, left)
  BY <1>10, <1>12, <1>16
<1> QED BY <1>4, <1>5, <1>7, <1>17 DEF R, nout, next

\* The stateful generator, that of the source.
LEMMA GenerateIsCyclic ==
    ASSUME NEW idx \in 0 .. reset_len - 1, NEW n \in Nat
    PROVE  generate_n_bits(idx, n) =
             [bits |-> Cyclic(idx, n), idx |-> (idx + n) % reset_len]
<1> DEFINE R == reset_len
           nout(i, left) == Min({left, R - i})
           next(i, left) == IF i + nout(i, left) = R THEN 0 ELSE i + nout(i, left)
           Step(x, i, left) ==
               IF left = 0 THEN [bits |-> <<>>, idx |-> i]
               ELSE [bits |-> SubSeq(pre, i + 1, i + nout(i, left))
                                \o x[left - nout(i, left)][next(i, left)].bits,
                     idx  |-> x[left - nout(i, left)][next(i, left)].idx]
           F(x) == [left \in 0 .. n |-> [i \in 0 .. R - 1 |-> Step(x, i, left)]]
           c(i, left) == [bits |-> Cyclic(i, left), idx |-> (i + left) % R]
           C == [left \in 0 .. n |-> [i \in 0 .. R - 1 |-> c(i, left)]]
<1>0. R \in Nat \ {0}
  BY LinkAssumption
<1>1. generate_n_bits(idx, n) = (CHOOSE x : x = F(x))[n][idx]
  BY DEF generate_n_bits
<1>2. ASSUME NEW x, NEW i \in 0 .. R - 1, NEW left \in 0 .. n,
             \A j \in 0 .. R - 1 : \A m \in 0 .. left - 1 : x[m][j] = c(j, m)
      PROVE  Step(x, i, left) = c(i, left)
  <2>1. CASE left = 0
    <3>1. Cyclic(i, 0) = <<>>
      BY DEF Cyclic
    <3>2. i + 0 = i /\ i % R = i
      BY <1>0, ModFacts
    <3> QED BY <2>1, <3>1, <3>2
  <2>2. CASE left # 0
    <3> DEFINE o == nout(i, left)
               j == next(i, left)
    <3>1. left \in Nat \ {0}
      BY <2>2
    <3>2. /\ o \in 1 .. left /\ j \in 0 .. R - 1
          /\ SubSeq(pre, i + 1, i + o) \o Cyclic(j, left - o) = Cyclic(i, left)
          /\ (j + (left - o)) % R = (i + left) % R
      BY <3>1, Round
    <3>3. Step(x, i, left) = [bits |-> SubSeq(pre, i + 1, i + o) \o x[left - o][j].bits,
                              idx  |-> x[left - o][j].idx]
      BY <2>2
    <3> HIDE DEF o, j, Step
    <3>4. left - o \in 0 .. left - 1
      BY <3>1, <3>2
    <3>5. x[left - o][j] = c(j, left - o)
      BY <1>2, <3>2, <3>4
    <3> QED BY <3>2, <3>3, <3>5
  <2> QED BY <2>1, <2>2
<1> HIDE DEF Step, c
<1>3. \A i \in 0 .. R - 1 : \A left \in 0 .. n : C[left][i] = c(i, left)
  OBVIOUS
<1>4. C = F(C)
  <2>1. ASSUME NEW i \in 0 .. R - 1, NEW left \in 0 .. n PROVE Step(C, i, left) = c(i, left)
    <3>1. \A m \in 0 .. left - 1 : m \in 0 .. n
      OBVIOUS
    <3> QED BY <1>2, <1>3, <3>1
  <2> QED BY <2>1
<1>5. ASSUME NEW x, x = F(x) PROVE x = C
  <2>1. ASSUME NEW i \in 0 .. R - 1, NEW left \in 0 .. n PROVE x[left][i] = Step(x, i, left)
    <3>1. F(x)[left][i] = Step(x, i, left)
      OBVIOUS
    <3> HIDE DEF F
    <3>2. x[left][i] = F(x)[left][i]
      BY <1>5, Zenon
    <3> QED BY <3>1, <3>2
  <2> DEFINE T == {left \in 0 .. n : \E i \in 0 .. R - 1 : x[left][i] # c(i, left)}
  <2>2. T = {}
    <3> SUFFICES ASSUME T # {} PROVE FALSE
      OBVIOUS
    <3>1. T \subseteq Nat
      OBVIOUS
    <3> HIDE DEF T
    <3>2. PICK left \in T : \A m \in T : left <= m
      BY <3>1, LeastNatural
    <3>3. left \in 0 .. n
      BY DEF T
    <3>4. PICK i \in 0 .. R - 1 : x[left][i] # c(i, left)
      BY DEF T
    <3>5. ASSUME NEW j \in 0 .. R - 1, NEW m \in 0 .. left - 1 PROVE x[m][j] = c(j, m)
      <4>1. m \in 0 .. n /\ ~(left <= m)
        BY <3>3
      <4> QED BY <3>2, <4>1 DEF T
    <3>6. x[left][i] = c(i, left)
      BY <1>2, <2>1, <3>3, <3>5
    <3> QED BY <3>4, <3>6
  <2>3. \A i \in 0 .. R - 1 : \A left \in 0 .. n : Step(x, i, left) = c(i, left)
    BY <2>1, <2>2
  <2>4. F(x) = C
    BY <2>3
  <2> QED BY <1>5, <2>4
<1>6. \A x : x = F(x) <=> x = C
  BY <1>4, <1>5
<1> HIDE DEF F, C
<1>7. (CHOOSE x : x = F(x)) = C
  BY <1>6
<1>8. n \in 0 .. n /\ idx \in 0 .. R - 1
  OBVIOUS
<1>9. C[n][idx] = c(idx, n)
  BY <1>3, <1>8
<1> QED BY <1>1, <1>7, <1>9 DEF c

\* The stateless generator, that of the sink.
LEMMA BitsFromIsCyclic ==
    ASSUME NEW idx \in 0 .. reset_len - 1, NEW n \in Nat
    PROVE  bits_from(idx, n) = Cyclic(idx, n)
<1> DEFINE R == reset_len
           nout(i, left) == Min({left, R - i})
           next(i, left) == IF i + nout(i, left) = R THEN 0 ELSE i + nout(i, left)
           Step(x, i, left) ==
               IF left = 0 THEN <<>>
               ELSE SubSeq(pre, i + 1, Min({i + left, R}))
                      \o x[left - nout(i, left)][next(i, left)]
           F(x) == [left \in 0 .. n |-> [i \in 0 .. R - 1 |-> Step(x, i, left)]]
           c(i, left) == Cyclic(i, left)
           C == [left \in 0 .. n |-> [i \in 0 .. R - 1 |-> c(i, left)]]
<1>0. R \in Nat \ {0}
  BY LinkAssumption
<1>1. bits_from(idx, n) = (CHOOSE x : x = F(x))[n][idx]
  BY DEF bits_from
<1>2. ASSUME NEW x, NEW i \in 0 .. R - 1, NEW left \in 0 .. n,
             \A j \in 0 .. R - 1 : \A m \in 0 .. left - 1 : x[m][j] = c(j, m)
      PROVE  Step(x, i, left) = c(i, left)
  <2>1. CASE left = 0
    <3>1. Cyclic(i, 0) = <<>>
      BY DEF Cyclic
    <3> QED BY <2>1, <3>1
  <2>2. CASE left # 0
    <3> DEFINE o == nout(i, left)
               j == next(i, left)
    <3>1. left \in Nat \ {0}
      BY <2>2
    <3>2. /\ o \in 1 .. left /\ j \in 0 .. R - 1
          /\ SubSeq(pre, i + 1, i + o) \o Cyclic(j, left - o) = Cyclic(i, left)
          /\ Min({i + left, R}) = i + o
      BY <3>1, Round
    <3>3. Step(x, i, left) = SubSeq(pre, i + 1, i + o) \o x[left - o][j]
      BY <2>2, <3>2
    <3> HIDE DEF o, j, Step
    <3>4. left - o \in 0 .. left - 1
      BY <3>1, <3>2
    <3>5. x[left - o][j] = c(j, left - o)
      BY <1>2, <3>2, <3>4
    <3> QED BY <3>2, <3>3, <3>5
  <2> QED BY <2>1, <2>2
<1> HIDE DEF Step, c
<1>3. \A i \in 0 .. R - 1 : \A left \in 0 .. n : C[left][i] = c(i, left)
  OBVIOUS
<1>4. C = F(C)
  <2>1. ASSUME NEW i \in 0 .. R - 1, NEW left \in 0 .. n PROVE Step(C, i, left) = c(i, left)
    <3>1. \A m \in 0 .. left - 1 : m \in 0 .. n
      OBVIOUS
    <3> QED BY <1>2, <1>3, <3>1
  <2> QED BY <2>1
<1>5. ASSUME NEW x, x = F(x) PROVE x = C
  <2>1. ASSUME NEW i \in 0 .. R - 1, NEW left \in 0 .. n PROVE x[left][i] = Step(x, i, left)
    <3>1. F(x)[left][i] = Step(x, i, left)
      OBVIOUS
    <3> HIDE DEF F
    <3>2. x[left][i] = F(x)[left][i]
      BY <1>5, Zenon
    <3> QED BY <3>1, <3>2
  <2> DEFINE T == {left \in 0 .. n : \E i \in 0 .. R - 1 : x[left][i] # c(i, left)}
  <2>2. T = {}
    <3> SUFFICES ASSUME T # {} PROVE FALSE
      OBVIOUS
    <3>1. T \subseteq Nat
      OBVIOUS
    <3> HIDE DEF T
    <3>2. PICK left \in T : \A m \in T : left <= m
      BY <3>1, LeastNatural
    <3>3. left \in 0 .. n
      BY DEF T
    <3>4. PICK i \in 0 .. R - 1 : x[left][i] # c(i, left)
      BY DEF T
    <3>5. ASSUME NEW j \in 0 .. R - 1, NEW m \in 0 .. left - 1 PROVE x[m][j] = c(j, m)
      <4>1. m \in 0 .. n /\ ~(left <= m)
        BY <3>3
      <4> QED BY <3>2, <4>1 DEF T
    <3>6. x[left][i] = c(i, left)
      BY <1>2, <2>1, <3>3, <3>5
    <3> QED BY <3>4, <3>6
  <2>3. \A i \in 0 .. R - 1 : \A left \in 0 .. n : Step(x, i, left) = c(i, left)
    BY <2>1, <2>2
  <2>4. F(x) = C
    BY <2>3
  <2> QED BY <1>5, <2>4
<1>6. \A x : x = F(x) <=> x = C
  BY <1>4, <1>5
<1> HIDE DEF F, C
<1>7. (CHOOSE x : x = F(x)) = C
  BY <1>6
<1>8. n \in 0 .. n /\ idx \in 0 .. R - 1
  OBVIOUS
<1>9. C[n][idx] = c(idx, n)
  BY <1>3, <1>8
<1> QED BY <1>1, <1>7, <1>9 DEF c


\* The sink checks a packet against what the source sends for its number: the
\* stateless generate_n_bits_after_x, which the sink calls with the number read
\* from the header, gives the payload that the stateful generator of the source
\* gives the packet with that number.
THEOREM SinkExpectsWhatIsSent ==
    \A i \in Nat : generate_n_bits_after_x(packet_len, packet_len * i) = Payload(i)
<1> TAKE i \in Nat
<1> DEFINE R == reset_len
           P == packet_len
           x == P * i
<1>0. R \in Nat \ {0} /\ P \in Nat
  BY LinkAssumption DEF packet_len
<1>1. x \in Nat /\ x % R \in 0 .. R - 1 /\ x = i * P
  BY <1>0, DivMod
<1>2. generate_n_bits_after_x(P, x) = Cyclic(x % R, P)
  BY <1>0, <1>1, BitsFromIsCyclic DEF generate_n_bits_after_x
<1> HIDE DEF R, P, x
<1>3. ASSUME NEW k \in 1 .. P PROVE ((x % R) + k - 1) % R = (i * P + k - 1) % R
  <2>1. k - 1 \in Nat
    BY <1>0
  <2>2. ((x % R) + (k - 1)) % R = (x + (k - 1)) % R
    BY <1>0, <1>1, <2>1, ModFacts
  <2> QED BY <1>1, <2>2
<1>4. Cyclic(x % R, P) = Payload(i)
  BY <1>3 DEF Cyclic, Payload, P, R
<1> QED BY <1>2, <1>4 DEF P, x

-----------------------------------------------------------------------------
(* Every value of a byte.                                                  *)

\* A loop over 1 .. N that keeps one number: step k makes g[k][v] of the value v.
\* There is one table of the values it takes.
LoopTable(a, N, base, g) ==
    /\ a = [k \in 0 .. N |-> a[k]]
    /\ a[0] = base
    /\ \A k \in 1 .. N : a[k - 1] \in Nat => a[k] = g[k][a[k - 1]]

LEMMA LoopValues ==
    ASSUME NEW N \in Nat, NEW base \in Nat, NEW g \in [1 .. N -> [Nat -> Nat]]
    PROVE  \E a \in [0 .. N -> Nat] :
              /\ a[0] = base
              /\ \A k \in 1 .. N : a[k] = g[k][a[k - 1]]
              /\ \A x : LoopTable(x, N, base, g) <=> x = a
<1> DEFINE Table(a, n) == /\ a \in [0 .. n -> Nat] /\ a[0] = base
                          /\ \A k \in 1 .. n : a[k] = g[k][a[k - 1]]
           Good(n) == \E a : Table(a, n)
           T == {n \in 0 .. N : ~Good(n)}
<1>1. T = {}
  <2> SUFFICES ASSUME T # {} PROVE FALSE
    OBVIOUS
  <2>1. Good(0)
    <3> DEFINE b == [k \in 0 .. 0 |-> base]
    <3>1. Table(b, 0)
      OBVIOUS
    <3> HIDE DEF b, Table
    <3> QED BY <3>1
  <2> HIDE DEF Good
  <2>2. T \subseteq 0 .. N /\ 0 \notin T
    BY <2>1
  <2> HIDE DEF T
  <2>3. PICK m \in 1 .. N : m \in T /\ \A k \in 0 .. m - 1 : k \notin T
    BY <2>2, LeastOf
  <2>4. m - 1 \in 0 .. N /\ m - 1 \in 0 .. m - 1
    OBVIOUS
  <2>5. ~Good(m) /\ Good(m - 1)
    BY <2>3, <2>4 DEF T
  <2>6. PICK a : Table(a, m - 1)
    BY <2>5 DEF Good
  <2> DEFINE b == [k \in 0 .. m |-> IF k = m THEN g[m][a[m - 1]] ELSE a[k]]
  <2>7. /\ a \in [0 .. m - 1 -> Nat] /\ a[0] = base
        /\ \A k \in 1 .. m - 1 : a[k] = g[k][a[k - 1]]
    BY <2>6
  <2>8. a[m - 1] \in Nat /\ g[m] \in [Nat -> Nat]
    BY <2>4, <2>7
  <2>9. g[m][a[m - 1]] \in Nat
    BY <2>8
  <2>10. b \in [0 .. m -> Nat] /\ b[m] = g[m][a[m - 1]] /\ \A k \in 0 .. m - 1 : b[k] = a[k]
    <3>1. \A k \in 0 .. m : (IF k = m THEN g[m][a[m - 1]] ELSE a[k]) \in Nat
      <4> TAKE k \in 0 .. m
      <4>1. k # m => k \in 0 .. m - 1
        OBVIOUS
      <4> QED BY <2>7, <2>9, <4>1
    <3>2. b \in [0 .. m -> Nat]
      BY <3>1
    <3>3. m \in 0 .. m /\ \A k \in 0 .. m - 1 : k \in 0 .. m /\ k # m
      OBVIOUS
    <3> QED BY <3>2, <3>3
  <2> HIDE DEF b
  <2>11. b[0] = base
    BY <2>7, <2>10
  <2>12. ASSUME NEW k \in 1 .. m PROVE b[k] = g[k][b[k - 1]]
    <3>1. k - 1 \in 0 .. m - 1
      OBVIOUS
    <3>2. CASE k = m
      BY <2>10, <3>1, <3>2
    <3>3. CASE k # m
      <4>1. k \in 1 .. m - 1 /\ k \in 0 .. m - 1
        BY <3>3
      <4> QED BY <2>7, <2>10, <3>1, <4>1
    <3> QED BY <3>2, <3>3
  <2>13. Good(m)
    <3>1. Table(b, m)
      BY <2>10, <2>11, <2>12
    <3> HIDE DEF Table
    <3> QED BY <3>1 DEF Good
  <2> QED BY <2>5, <2>13
<1>2. PICK a : Table(a, N)
  <2>1. N \in 0 .. N
    OBVIOUS
  <2> QED BY <1>1, <2>1
<1>3. /\ a \in [0 .. N -> Nat] /\ a[0] = base
      /\ \A k \in 1 .. N : a[k] = g[k][a[k - 1]]
  BY <1>2
<1>4. LoopTable(a, N, base, g)
  BY <1>3 DEF LoopTable
<1>5. ASSUME NEW x, LoopTable(x, N, base, g) PROVE x = a
  <2> DEFINE D == {k \in 0 .. N : x[k] # a[k]}
  <2>1. D = {}
    <3> SUFFICES ASSUME D # {} PROVE FALSE
      OBVIOUS
    <3>1. D \subseteq 0 .. N /\ 0 \notin D
      BY <1>3, <1>5 DEF LoopTable
    <3> HIDE DEF D
    <3>2. PICK m \in 1 .. N : m \in D /\ \A k \in 0 .. m - 1 : k \notin D
      BY <3>1, LeastOf
    <3>3. m - 1 \in 0 .. N /\ m - 1 \in 0 .. m - 1
      OBVIOUS
    <3>4. x[m - 1] = a[m - 1] /\ x[m] # a[m]
      BY <3>2, <3>3 DEF D
    <3>5. a[m - 1] \in Nat
      BY <1>3, <3>3
    <3> QED BY <1>3, <1>5, <3>4, <3>5 DEF LoopTable
  <2>2. x = [k \in 0 .. N |-> x[k]]
    BY <1>5 DEF LoopTable
  <2>3. \A k \in 0 .. N : x[k] = a[k]
    BY <2>1
  <2>4. a = [k \in 0 .. N |-> a[k]]
    BY <1>3
  <2>5. [k \in 0 .. N |-> x[k]] = [k \in 0 .. N |-> a[k]]
    BY <2>3
  <2> QED BY <2>2, <2>4, <2>5, Zenon
<1> QED BY <1>3, <1>4, <1>5

\* The radix is the last of the powers of two up to the number of bits of a byte.
Doubling(a, n) ==
    a \in [0 .. n -> Nat] /\ a[0] = 1 /\ \A k \in 1 .. n : a[k] = 2 * a[k - 1]

LEMMA RadixIsPower == \E a : Doubling(a, ByteBits) /\ Radix = a[ByteBits]
<1> DEFINE B == ByteBits
           d == [x \in Nat |-> 2 * x]
           g == [k \in 1 .. B |-> d]
           F(x) == [k \in 0 .. B |-> IF k = 0 THEN 1 ELSE 2 * x[k - 1]]
<1>0. B \in Nat
  BY LinkAssumption
<1>1. d \in [Nat -> Nat] /\ \A x \in Nat : d[x] = 2 * x
  OBVIOUS
<1> HIDE DEF d
<1>2. g \in [1 .. B -> [Nat -> Nat]] /\ \A k \in 1 .. B : g[k] = d
  BY <1>1
<1> HIDE DEF g
<1>3. Radix = (CHOOSE x : x = F(x))[B]
  BY DEF Radix
<1> HIDE DEF B
<1>4. PICK a \in [0 .. B -> Nat] :
         /\ a[0] = 1
         /\ \A k \in 1 .. B : a[k] = g[k][a[k - 1]]
         /\ \A x : LoopTable(x, B, 1, g) <=> x = a
  BY <1>0, <1>2, LoopValues
<1>5. ASSUME NEW k \in 1 .. B PROVE a[k] = 2 * a[k - 1]
  <2>1. a[k - 1] \in Nat
    BY <1>0
  <2> QED BY <1>1, <1>2, <1>4, <2>1
<1>6. a = F(a)
  <2>1. \A k \in 0 .. B : a[k] = (IF k = 0 THEN 1 ELSE 2 * a[k - 1])
    BY <1>0, <1>4, <1>5
  <2> QED BY <2>1
<1>7. ASSUME NEW x, x = F(x) PROVE LoopTable(x, B, 1, g)
  <2>1. x = [k \in 0 .. B |-> x[k]]
    BY <1>7
  <2>2. ASSUME NEW k \in 0 .. B PROVE x[k] = IF k = 0 THEN 1 ELSE 2 * x[k - 1]
    <3>1. F(x)[k] = IF k = 0 THEN 1 ELSE 2 * x[k - 1]
      OBVIOUS
    <3> HIDE DEF F
    <3> QED BY <1>7, <3>1
  <2>3. x[0] = 1
    BY <1>0, <2>2
  <2>4. ASSUME NEW k \in 1 .. B, x[k - 1] \in Nat PROVE x[k] = g[k][x[k - 1]]
    <3>1. x[k] = 2 * x[k - 1]
      BY <1>0, <2>2
    <3> QED BY <1>1, <1>2, <2>4, <3>1
  <2> QED BY <2>1, <2>3, <2>4 DEF LoopTable
<1> HIDE DEF F
<1>8. \A x : x = F(x) <=> x = a
  BY <1>4, <1>6, <1>7
<1>9. (CHOOSE x : x = F(x)) = a
  BY <1>8
<1>10. Doubling(a, B)
  BY <1>4, <1>5 DEF Doubling
<1> QED BY <1>3, <1>9, <1>10 DEF B

\* Every number below the radix is a byte.
PackedFrom(b, n) ==
    \E s \in [1 .. n -> {0, 1}], p \in [0 .. n -> Nat] : Packing(p, s, n) /\ p[n] = b

LEMMA EveryByte ==
    /\ Radix \in Nat \ {0, 1}
    /\ \A b \in 0 .. Radix - 1 : \E s \in BitStrings : Byte(s) = b
<1> DEFINE B == ByteBits
<1>0. B \in Nat \ {0}
  BY LinkAssumption
<1>1. PICK a : Doubling(a, B) /\ Radix = a[B]
  BY RadixIsPower
<1> HIDE DEF B
<1>2. a \in [0 .. B -> Nat] /\ a[0] = 1 /\ \A k \in 1 .. B : a[k] = 2 * a[k - 1]
  BY <1>1 DEF Doubling
<1> DEFINE Good(n) == /\ a[n] > 0
                      /\ \A b \in 0 .. a[n] - 1 : PackedFrom(b, n)
           T == {n \in 0 .. B : ~Good(n)}
<1>3. T = {}
  <2> SUFFICES ASSUME T # {} PROVE FALSE
    OBVIOUS
  <2>1. Good(0)
    <3>1. a[0] - 1 = 0
      BY <1>2
    <3> DEFINE p == [k \in 0 .. 0 |-> 0]
               s == [k \in 1 .. 0 |-> 0]
    <3>2. p \in [0 .. 0 -> Nat] /\ s \in [1 .. 0 -> {0, 1}] /\ Packing(p, s, 0) /\ p[0] = 0
      BY DEF Packing
    <3> HIDE DEF p, s
    <3>3. PackedFrom(0, 0)
      BY <3>2 DEF PackedFrom
    <3>4. a[0] > 0 /\ \A b \in 0 .. a[0] - 1 : b = 0
      BY <1>2, <3>1
    <3> QED BY <3>3, <3>4
  <2> HIDE DEF Good
  <2>2. T \subseteq 0 .. B /\ 0 \notin T
    BY <2>1
  <2> HIDE DEF T
  <2>3. PICK m \in 1 .. B : m \in T /\ \A k \in 0 .. m - 1 : k \notin T
    BY <1>0, <2>2, LeastOf
  <2>4. m - 1 \in 0 .. B /\ m - 1 \in 0 .. m - 1 /\ m \in 0 .. B
    BY <1>0
  <2>5. ~Good(m) /\ Good(m - 1)
    BY <2>3, <2>4 DEF T
  <2>6. a[m - 1] \in Nat /\ a[m - 1] > 0 /\ a[m] = 2 * a[m - 1]
    BY <1>2, <2>4, <2>5 DEF Good
  <2>7. ASSUME NEW b \in 0 .. a[m] - 1
        PROVE  PackedFrom(b, m)
    <3> DEFINE q == b \div 2
               r == b % 2
    <3>1. b \in Nat /\ b < 2 * a[m - 1]
      BY <2>6
    <3>2. q \in 0 .. a[m - 1] - 1 /\ r \in {0, 1} /\ 2 * q + r = b
      BY <2>6, <3>1
    <3> HIDE DEF q, r
    <3>3. PICK s \in [1 .. m - 1 -> {0, 1}], p \in [0 .. m - 1 -> Nat] :
             Packing(p, s, m - 1) /\ p[m - 1] = q
      BY <2>5, <3>2 DEF Good, PackedFrom
    <3> DEFINE t == [k \in 1 .. m |-> IF k = m THEN r ELSE s[k]]
               o == [k \in 0 .. m |-> IF k = m THEN b ELSE p[k]]
    <3>4. /\ t \in [1 .. m -> {0, 1}] /\ t[m] = r
          /\ \A k \in 1 .. m - 1 : t[k] = s[k]
      BY <3>2, <3>3
    <3>5. /\ o \in [0 .. m -> Nat] /\ o[m] = b
          /\ \A k \in 0 .. m - 1 : o[k] = p[k]
      BY <3>1, <3>3
    <3> HIDE DEF t, o
    <3>6. o[0] = 0
      BY <3>3, <3>5 DEF Packing
    <3>7. ASSUME NEW k \in 1 .. m PROVE o[k] = 2 * o[k - 1] + t[k]
      <4>1. k - 1 \in 0 .. m - 1
        OBVIOUS
      <4>2. CASE k = m
        BY <2>4, <3>2, <3>3, <3>4, <3>5, <4>1, <4>2
      <4>3. CASE k # m
        <5>1. k \in 1 .. m - 1 /\ k \in 0 .. m - 1
          BY <4>3
        <5>2. p[k] = 2 * p[k - 1] + s[k]
          BY <3>3, <5>1 DEF Packing
        <5> QED BY <3>4, <3>5, <4>1, <5>1, <5>2
      <4> QED BY <4>2, <4>3
    <3>8. Packing(o, t, m)
      BY <3>6, <3>7 DEF Packing
    <3> QED BY <3>4, <3>5, <3>8 DEF PackedFrom
  <2>8. Good(m)
    BY <2>6, <2>7 DEF Good
  <2> QED BY <2>5, <2>8
<1>4. Good(B)
  <2>1. B \in 0 .. B
    BY <1>0
  <2> QED BY <1>3, <2>1
<1>5. Radix \in Nat \ {0, 1}
  <2>1. B - 1 \in 0 .. B /\ B \in 1 .. B
    BY <1>0
  <2>2. a[B - 1] \in Nat /\ a[B] = 2 * a[B - 1] /\ a[B] > 0
    BY <1>2, <1>4, <2>1
  <2> QED BY <1>1, <2>2
<1>6. ASSUME NEW b \in 0 .. Radix - 1 PROVE \E s \in BitStrings : Byte(s) = b
  <2>1. PICK s \in [1 .. B -> {0, 1}], p \in [0 .. B -> Nat] : Packing(p, s, B) /\ p[B] = b
    BY <1>1, <1>4 DEF PackedFrom
  <2>2. PICK c \in [0 .. B -> Nat] : Packing(c, s, B) /\ Byte(s) = c[B]
    BY <1>0, ByteIsPacked
  <2>3. c[B] = p[B]
    <3> DEFINE D == {k \in 0 .. B : c[k] # p[k]}
    <3>0. B \in 0 .. B
      BY <1>0
    <3> SUFFICES ASSUME c[B] # p[B] PROVE FALSE
      OBVIOUS
    <3>5. D # {}
      BY <3>0
    <3>1. D \subseteq 0 .. B /\ 0 \notin D
      BY <2>1, <2>2 DEF Packing
    <3> HIDE DEF D
    <3>2. PICK k \in 1 .. B : k \in D /\ \A j \in 0 .. k - 1 : j \notin D
      BY <1>0, <3>1, <3>5, LeastOf
    <3>3. k - 1 \in 0 .. B /\ k - 1 \in 0 .. k - 1
      BY <1>0
    <3>4. c[k - 1] = p[k - 1] /\ c[k] # p[k]
      BY <3>2, <3>3 DEF D
    <3> QED BY <2>1, <2>2, <3>4 DEF Packing
  <2> QED BY <2>1, <2>2, <2>3 DEF BitStrings, B
<1> QED BY <1>5, <1>6

\* So repack_bits undoes pack_bits the other way as well.
LEMMA ByteOfBits ==
    ASSUME NEW b \in 0 .. Radix - 1
    PROVE  Bits(b) \in BitStrings /\ Byte(Bits(b)) = b
<1>1. \E s \in [1 .. ByteBits -> {0, 1}] : Byte(s) = b
  BY EveryByte DEF BitStrings
<1> QED BY <1>1 DEF Bits, BitStrings

LEMMA SyncBits == sync_array \in BitStrings
<1>1. sync_word \in 0 .. Radix - 1
  BY EveryByte DEF sync_word
<1> QED BY <1>1, ByteOfBits DEF sync_array

-----------------------------------------------------------------------------
(* Packets and frames.                                                     *)

LEMMA Lengths ==
    /\ reset_len \in Nat \ {0} /\ ByteBits \in Nat \ {0} /\ PacketBytes \in Nat \ {0}
    /\ packet_len \in Nat \ {0} /\ packet_len = PacketBytes * ByteBits
<1>1. reset_len \in Nat \ {0} /\ ByteBits \in Nat \ {0} /\ PacketBytes \in Nat \ {0}
  BY LinkAssumption
<1>2. \A a, b \in Nat \ {0} : a * b \in Nat \ {0}
  OBVIOUS
<1> QED BY <1>1, <1>2 DEF packet_len

LEMMA CyclicBits ==
    ASSUME NEW i \in Nat, NEW n \in Nat
    PROVE  Cyclic(i, n) \in [1 .. n -> {0, 1}]
<1>1. ASSUME NEW k \in 1 .. n PROVE pre[((i + k - 1) % reset_len) + 1] \in {0, 1}
  <2> DEFINE r == (i + k - 1) % reset_len
  <2>1. i + k - 1 \in Nat
    OBVIOUS
  <2>2. r \in 0 .. reset_len - 1
    BY <2>1, Lengths, DivMod
  <2> HIDE DEF r
  <2>3. r + 1 \in 1 .. reset_len
    BY <2>2, Lengths
  <2>4. pre[r + 1] \in {0, 1}
    BY <2>3, PreBits
  <2> QED BY <2>4 DEF r
<1> QED BY <1>1 DEF Cyclic

LEMMA PayloadBits ==
    ASSUME NEW i \in Nat
    PROVE  /\ Payload(i) = Cyclic(i * packet_len, packet_len)
           /\ Payload(i) \in [1 .. PacketBytes * ByteBits -> {0, 1}]
<1>1. Payload(i) = Cyclic(i * packet_len, packet_len)
  BY DEF Payload, Cyclic
<1>2. i * packet_len \in Nat
  BY Lengths
<1>3. Cyclic(i * packet_len, packet_len) \in [1 .. packet_len -> {0, 1}]
  BY <1>2, Lengths, CyclicBits
<1> QED BY <1>1, <1>3, Lengths

\* A function on 1 .. n is a sequence of what it takes as values.
LEMMA AnySequence ==
    ASSUME NEW n \in Nat, NEW f, f = [i \in 1 .. n |-> f[i]],
           NEW S, \A i \in 1 .. n : f[i] \in S
    PROVE  f \in Seq(S) /\ Len(f) = n
<1>1. f \in [1 .. n -> S]
  OBVIOUS
<1> QED BY <1>1

\* The header and payload of packet i.
HeaderAndPayload(i) == Unpack(header_arr(i)) \o Payload(i)

\* add_incrementing_header_pdu and repack_bits, on the PDU of packet i.
LEMMA HeaderAdded ==
    ASSUME NEW i \in Nat
    PROVE  Unpack(header_arr(i) \o pack_bits(Payload(i))) = HeaderAndPayload(i)
<1> DEFINE h == header_arr(i)
           A == {h[d] : d \in 1 .. HeaderBytes}
<1>1. HeaderBytes \in Nat /\ h = [d \in 1 .. HeaderBytes |-> h[d]]
  BY DEF header_arr, HeaderBytes
<1>2. \A d \in 1 .. HeaderBytes : h[d] \in A
  OBVIOUS
<1> HIDE DEF h, A
<1>3. h \in Seq(A)
  BY <1>1, <1>2, AnySequence
<1>4. PacketBytes \in Nat /\ Payload(i) \in [1 .. PacketBytes * ByteBits -> {0, 1}]
  BY Lengths, PayloadBits
<1>5. Unpack(h \o pack_bits(Payload(i))) = Unpack(h) \o Payload(i)
  BY <1>3, <1>4, UnpackPacked
<1> QED BY <1>5 DEF h, HeaderAndPayload

\* add_sync_pdu.
LEMMA SyncAdded ==
    ASSUME NEW i \in Nat
    PROVE  sync_array \o HeaderAndPayload(i) = Frame(i)
<1> DEFINE h == header_arr(i)
           u == Unpack(h)
           m == HeaderBytes * ByteBits
           y == sync_array
           P == Payload(i)
           n == packet_len
           S == {y[k] : k \in 1 .. ByteBits} \cup {u[k] : k \in 1 .. m} \cup {0, 1}
<1>1. h \in Seq({h[d] : d \in 1 .. HeaderBytes}) /\ Len(h) = HeaderBytes
  <2>1. HeaderBytes \in Nat /\ h = [d \in 1 .. HeaderBytes |-> h[d]]
    BY DEF header_arr, HeaderBytes
  <2>2. \A d \in 1 .. HeaderBytes : h[d] \in {h[e] : e \in 1 .. HeaderBytes}
    OBVIOUS
  <2> HIDE DEF h
  <2> QED BY <2>1, <2>2, AnySequence
<1>2. m \in Nat /\ n \in Nat /\ ByteBits \in Nat
  BY Lengths DEF HeaderBytes
<1>3. u = [k \in 1 .. m |-> u[k]]
  <2> HIDE DEF h
  <2> QED BY <1>1 DEF Unpack
<1>4. y = [k \in 1 .. ByteBits |-> y[k]]
  BY SyncBits DEF BitStrings
<1>5. P \in [1 .. n -> {0, 1}]
  BY PayloadBits, Lengths
<1>6. /\ \A k \in 1 .. m : u[k] \in S
      /\ \A k \in 1 .. ByteBits : y[k] \in S
      /\ \A k \in 1 .. n : P[k] \in S
  <2> HIDE DEF u, y, P
  <2> QED BY <1>5
<1> HIDE DEF S, u, y, P, m, n
<1>7. u \in Seq(S) /\ y \in Seq(S)
  BY <1>2, <1>3, <1>4, <1>6, AnySequence
<1>8. P \in Seq(S)
  <2>1. P \in [1 .. n -> S]
    BY <1>5, <1>6
  <2> QED BY <1>2, <2>1
<1>9. y \o (u \o P) = (y \o u) \o P
  BY <1>7, <1>8, ConcatAssoc
<1> QED BY <1>9 DEF HeaderAndPayload, Frame, y, u, P

\* The PDUs of n packets, when the source has sent `sent` of them.
LEMMA PacketsSent ==
    ASSUME NEW sent \in Nat, NEW n \in Nat
    PROVE  LET gen == generate_n_bits((sent * packet_len) % reset_len, n * packet_len)
           IN  /\ gen.idx = ((sent + n) * packet_len) % reset_len
               /\ Packets(gen.bits) = [p \in 1 .. n |-> pack_bits(Payload(sent + p - 1))]
<1> DEFINE R == reset_len
           P == packet_len
           x == sent * P
           i == x % R
           gen == generate_n_bits(i, n * P)
           bits == Cyclic(i, n * P)
<1>0. R \in Nat \ {0} /\ P \in Nat \ {0}
  BY Lengths
<1>1. x \in Nat /\ n * P \in Nat /\ x + n * P = (sent + n) * P
  BY <1>0
<1>2. i \in 0 .. R - 1 /\ i \in Nat
  BY <1>0, <1>1, DivMod
<1>3. gen = [bits |-> bits, idx |-> (i + n * P) % R]
  BY <1>1, <1>2, GenerateIsCyclic
<1> HIDE DEF R, P, bits
<1>4. \A c \in Nat : (i + c) % R = (x + c) % R
  BY <1>0, <1>1, ModFacts
<1> HIDE DEF i, x
<1>5. gen.idx = ((sent + n) * P) % R
  BY <1>1, <1>3, <1>4
<1>6. bits \in [1 .. n * P -> {0, 1}] /\ Len(bits) = n * P
  BY <1>1, <1>2, CyclicBits DEF bits
<1>7. Len(bits) \div P = n
  <2>1. n * P + 0 = n * P /\ 0 \in 0 .. P - 1
    BY <1>0
  <2> QED BY <1>0, <1>6, <2>1, DivModUnique
<1>8. ASSUME NEW p \in 1 .. n
      PROVE  SubSeq(bits, (p - 1) * P + 1, p * P) = Payload(sent + p - 1)
  <2> DEFINE o == (p - 1) * P
  <2>1. o \in Nat /\ p * P = o + P /\ o + P <= n * P
    <3>1. \A a, b \in Nat : a <= b => a * P <= b * P
      BY <1>0
    <3> QED BY <1>0, <3>1
  <2>2. sent + p - 1 \in Nat /\ (sent + p - 1) * P = x + o
    BY <1>0 DEF x
  <2> HIDE DEF o
  <2>3. SubSeq(bits, o + 1, o + P) = [k \in 1 .. P |-> bits[o + k]]
    <3>1. SubSeq(bits, o + 1, o + P) = [k \in 1 .. (o + P) - (o + 1) + 1 |-> bits[(o + 1) + k - 1]]
      BY <1>0, <1>1, <1>6, <2>1
    <3>2. (o + P) - (o + 1) + 1 = P /\ \A k \in 1 .. P : (o + 1) + k - 1 = o + k
      BY <1>0, <2>1
    <3> QED BY <3>1, <3>2
  <2>4. Payload(sent + p - 1) = [k \in 1 .. P |-> pre[(((x + o) + k - 1) % R) + 1]]
    BY <2>2, PayloadBits DEF Cyclic, P, R
  <2>5. ASSUME NEW k \in 1 .. P
        PROVE  bits[o + k] = pre[(((x + o) + k - 1) % R) + 1]
    <3>1. o + k \in 1 .. n * P /\ (o + k) - 1 \in Nat
      BY <1>0, <1>1, <2>1
    <3>2. bits[o + k] = pre[((i + (o + k) - 1) % R) + 1]
      BY <3>1 DEF bits, Cyclic, R
    <3>3. (i + ((o + k) - 1)) % R = (x + ((o + k) - 1)) % R
      BY <1>4, <3>1
    <3>4. x + ((o + k) - 1) = (x + o) + k - 1
      BY <1>0, <1>1, <2>1
    <3> QED BY <3>2, <3>3, <3>4
  <2> QED BY <2>1, <2>3, <2>4, <2>5 DEF o
<1>9. Packets(bits) = [p \in 1 .. n |-> pack_bits(Payload(sent + p - 1))]
  BY <1>7, <1>8 DEF Packets, P
<1> QED BY <1>3, <1>5, <1>9 DEF P, R, i, x

-----------------------------------------------------------------------------
(* The generator flowgraph.                                                *)

Pdus == {pack_bits(Payload(i)) : i \in Nat}
HeaderAndPayloads == {HeaderAndPayload(i) : i \in Nat}
Frames == {Frame(i) : i \in Nat}

\* The generator of the source stands where the packets it has sent end, and it
\* sends no more of them than it was told to.
SourceInv ==
    /\ source \in [num : Nat, packets_sent : Nat, idx : Nat, done : BOOLEAN]
    /\ source.num > 0 => source.packets_sent <= source.num
    /\ source.idx = (source.packets_sent * packet_len) % reset_len

\* The header block has numbered every packet that was sent and does not wait for
\* it; what waits there, at the sync block and on the air are the packets by their
\* numbers.
NumberInv ==
    /\ incrementing_header \in Nat
    /\ pdus \in Seq(Pdus) /\ framed \in Seq(HeaderAndPayloads) /\ air \in Seq(Frames)
    /\ phase = "generating" => incrementing_header + Len(pdus) = source.packets_sent
    /\ \A k \in 1 .. Len(pdus) : pdus[k] = pack_bits(Payload(incrementing_header + k - 1))
    /\ \A k \in 1 .. Len(framed) :
          \E i \in 0 .. incrementing_header - 1 : framed[k] = HeaderAndPayload(i)
    /\ \A k \in 1 .. Len(air) : \E i \in 0 .. incrementing_header - 1 : air[k] = Frame(i)

GenInv == SourceInv /\ NumberInv

LEMMA GenInit == Init => GenInv
<1> SUFFICES ASSUME Init PROVE GenInv
  OBVIOUS
<1>1. source \in [num : Nat, packets_sent : Nat, idx : Nat, done : BOOLEAN]
      /\ source.packets_sent = 0 /\ source.idx = 0 /\ source.num \in Nat
  <2>1. source \in [num : {0, num_packets}, packets_sent : {0}, idx : {0}, done : {FALSE}]
    BY DEF Init
  <2>2. num_packets \in Nat
    BY LinkAssumption
  <2>3. /\ source = [num |-> source.num, packets_sent |-> source.packets_sent,
                   idx |-> source.idx, done |-> source.done]
        /\ source.num \in {0, num_packets} /\ source.packets_sent = 0
        /\ source.idx = 0 /\ source.done = FALSE
    BY <2>1
  <2>4. source.num \in Nat /\ 0 \in Nat /\ FALSE \in BOOLEAN
    BY <2>2, <2>3
  <2> QED BY <2>3, <2>4, Zenon
<1>2. 0 * packet_len = 0 /\ 0 % reset_len = 0
  <2>1. 0 < reset_len
    BY Lengths
  <2> QED BY <2>1, Lengths, ModFacts
<1>3. SourceInv
  BY <1>1, <1>2 DEF SourceInv
<1>4. incrementing_header = 0 /\ pdus = <<>> /\ framed = <<>> /\ air = <<>>
  BY DEF Init
<1>5. NumberInv
  BY <1>1, <1>4 DEF NumberInv
<1> QED BY <1>3, <1>5 DEF GenInv

\* prbs_source_b.work: the new PDUs carry on where the packets sent before end.
LEMMA WorkStep ==
    ASSUME GenInv, NEW requested \in 1 .. MaxSent, work(requested)
    PROVE  GenInv'
<1> DEFINE n == packets_to_send_now(requested)
           sent == source.packets_sent
           gen == generate_n_bits(source.idx, n * packet_len)
           new == Packets(gen.bits)
<1>1. /\ source \in [num : Nat, packets_sent : Nat, idx : Nat, done : BOOLEAN]
      /\ source.num > 0 => sent <= source.num
      /\ source.idx = (sent * packet_len) % reset_len
      /\ sent \in Nat /\ source.num \in Nat
  BY DEF GenInv, SourceInv
<1>2. requested \in Nat /\ MaxSent \in Nat
  BY LinkAssumption
<1>3. n \in Nat /\ (source.num > 0 => sent + n <= source.num)
  <2>1. CASE source.num = 0
    BY <1>1, <1>2, <2>1 DEF packets_to_send_now
  <2>2. CASE source.num # 0
    <3>1. n = IF requested <= source.num - sent THEN requested ELSE source.num - sent
      BY <1>1, <1>2, <2>2, MinOfTwo DEF packets_to_send_now
    <3> HIDE DEF n
    <3> QED BY <1>1, <1>2, <2>2, <3>1
  <2> QED BY <2>1, <2>2
<1>4. /\ phase = "generating" /\ phase' = phase
      /\ source' = [source EXCEPT !.packets_sent = @ + n, !.idx = gen.idx]
      /\ pdus' = pdus \o new
      /\ UNCHANGED <<incrementing_header, framed, air>>
  BY DEF work, linkVars
<1> HIDE DEF n
<1>5. /\ gen.idx = ((sent + n) * packet_len) % reset_len
      /\ new = [p \in 1 .. n |-> pack_bits(Payload(sent + p - 1))]
  BY <1>1, <1>3, PacketsSent
<1> HIDE DEF gen, new
<1>6. sent + n \in Nat /\ gen.idx \in Nat
  <2>1. (sent + n) * packet_len \in Nat
    BY <1>1, <1>3, Lengths
  <2>2. ((sent + n) * packet_len) % reset_len \in 0 .. reset_len - 1
    BY <2>1, Lengths, DivMod
  <2>3. gen.idx \in 0 .. reset_len - 1
    BY <1>5, <2>2
  <2> QED BY <1>1, <1>3, <2>3, Lengths
<1>7. /\ source'.num = source.num /\ source'.packets_sent = sent + n
      /\ source'.idx = gen.idx
      /\ source' \in [num : Nat, packets_sent : Nat, idx : Nat, done : BOOLEAN]
  BY <1>1, <1>4, <1>6
<1>8. SourceInv'
  BY <1>3, <1>5, <1>7 DEF SourceInv
<1> DEFINE inc == incrementing_header
           L == Len(pdus)
<1>9. /\ inc \in Nat /\ pdus \in Seq(Pdus) /\ L \in Nat /\ inc + L = sent
      /\ \A k \in 1 .. L : pdus[k] = pack_bits(Payload(inc + k - 1))
  BY <1>4 DEF GenInv, NumberInv
<1>10. new \in Seq(Pdus) /\ Len(new) = n
  <2>1. \A p \in 1 .. n : new[p] \in Pdus
    <3> TAKE p \in 1 .. n
    <3>1. sent + p - 1 \in Nat /\ new[p] = pack_bits(Payload(sent + p - 1))
      BY <1>1, <1>5
    <3> QED BY <3>1 DEF Pdus
  <2>2. new = [p \in 1 .. n |-> new[p]]
    BY <1>5
  <2> QED BY <1>3, <2>1, <2>2, AnySequence
<1>11. /\ pdus' \in Seq(Pdus) /\ Len(pdus') = L + n
       /\ pdus' = [k \in 1 .. L + n |-> IF k <= L THEN pdus[k] ELSE new[k - L]]
  <2>1. pdus' \in Seq(Pdus)
    BY <1>4, <1>9, <1>10
  <2> QED BY <1>4, <1>9, <1>10, <2>1, ConcatIs
<1>12. ASSUME NEW k \in 1 .. L + n PROVE pdus'[k] = pack_bits(Payload(inc + k - 1))
  <2>1. CASE k <= L
    BY <1>9, <1>11, <2>1
  <2>2. CASE ~(k <= L)
    <3>1. k - L \in 1 .. n /\ sent + (k - L) - 1 = inc + k - 1
      BY <1>3, <1>9, <2>2
    <3>2. pdus'[k] = new[k - L]
      BY <1>11, <2>2
    <3>3. new[k - L] = pack_bits(Payload(sent + (k - L) - 1))
      BY <1>5, <3>1
    <3> QED BY <3>1, <3>2, <3>3
  <2> QED BY <2>1, <2>2
<1>13. inc' + Len(pdus') = source'.packets_sent
  BY <1>1, <1>3, <1>4, <1>7, <1>9, <1>11
<1>14. NumberInv'
  <2>1. \A k \in 1 .. Len(pdus') : pdus'[k] = pack_bits(Payload(inc' + k - 1))
    BY <1>4, <1>11, <1>12
  <2> QED BY <1>4, <1>11, <1>13, <2>1 DEF GenInv, NumberInv
<1> QED BY <1>8, <1>14 DEF GenInv

\* add_incrementing_header_pdu: the first PDU is that of the packet with the
\* number it gets.
LEMMA HeaderStep ==
    ASSUME GenInv, add_header
    PROVE  GenInv'
<1> DEFINE inc == incrementing_header
           f == Unpack(header_arr(inc) \o Head(pdus))
<1>1. /\ inc \in Nat /\ pdus \in Seq(Pdus) /\ framed \in Seq(HeaderAndPayloads)
      /\ inc + Len(pdus) = source.packets_sent
      /\ \A k \in 1 .. Len(pdus) : pdus[k] = pack_bits(Payload(inc + k - 1))
      /\ \A k \in 1 .. Len(framed) : \E i \in 0 .. inc - 1 : framed[k] = HeaderAndPayload(i)
      /\ \A k \in 1 .. Len(air) : \E i \in 0 .. inc - 1 : air[k] = Frame(i)
  BY DEF GenInv, NumberInv, add_header
<1>2. /\ pdus # <<>> /\ framed' = Append(framed, f) /\ inc' = inc + 1 /\ pdus' = Tail(pdus)
      /\ phase' = phase /\ source' = source /\ air' = air
  BY DEF add_header, linkVars
<1>3. f = HeaderAndPayload(inc) /\ f \in HeaderAndPayloads
  <2>1. Head(pdus) = pdus[1] /\ 1 \in 1 .. Len(pdus) /\ inc + 1 - 1 = inc
    BY <1>1, <1>2
  <2>2. Head(pdus) = pack_bits(Payload(inc))
    BY <1>1, <2>1
  <2> QED BY <1>1, <2>2, HeaderAdded DEF HeaderAndPayloads
<1> HIDE DEF f
<1>4. /\ pdus' \in Seq(Pdus) /\ Len(pdus') = Len(pdus) - 1
      /\ \A k \in 1 .. Len(pdus') : pdus'[k] = pdus[k + 1]
  BY <1>1, <1>2
<1>5. ASSUME NEW k \in 1 .. Len(pdus') PROVE pdus'[k] = pack_bits(Payload(inc' + k - 1))
  <2>1. k + 1 \in 1 .. Len(pdus) /\ inc + (k + 1) - 1 = inc' + k - 1
    BY <1>1, <1>2, <1>4
  <2>2. pdus[k + 1] = pack_bits(Payload(inc + (k + 1) - 1))
    BY <1>1, <2>1
  <2> QED BY <1>4, <2>1, <2>2
<1>6. /\ framed' \in Seq(HeaderAndPayloads) /\ Len(framed') = Len(framed) + 1
      /\ framed'[Len(framed) + 1] = f
      /\ \A k \in 1 .. Len(framed) : framed'[k] = framed[k]
  BY <1>1, <1>2, <1>3
<1>7. ASSUME NEW k \in 1 .. Len(framed')
      PROVE  \E i \in 0 .. inc' - 1 : framed'[k] = HeaderAndPayload(i)
  <2>1. CASE k = Len(framed) + 1
    <3>1. inc \in 0 .. inc' - 1
      BY <1>1, <1>2
    <3> QED BY <1>3, <1>6, <2>1, <3>1
  <2>2. CASE k # Len(framed) + 1
    <3>1. k \in 1 .. Len(framed)
      BY <1>1, <1>6, <2>2
    <3>2. PICK i \in 0 .. inc - 1 : framed[k] = HeaderAndPayload(i)
      BY <1>1, <3>1
    <3>3. i \in 0 .. inc' - 1
      BY <1>1, <1>2
    <3> QED BY <1>6, <3>1, <3>2, <3>3
  <2> QED BY <2>1, <2>2
<1>8. ASSUME NEW k \in 1 .. Len(air')
      PROVE  \E i \in 0 .. inc' - 1 : air'[k] = Frame(i)
  <2>1. PICK i \in 0 .. inc - 1 : air[k] = Frame(i)
    BY <1>1, <1>2
  <2>2. i \in 0 .. inc' - 1
    BY <1>1, <1>2
  <2> QED BY <1>2, <2>1, <2>2
<1>9. inc' \in Nat /\ inc' + Len(pdus') = source'.packets_sent
  BY <1>1, <1>2, <1>4
<1>10. air' \in Seq(Frames)
  BY <1>2 DEF GenInv, NumberInv
<1>11. NumberInv'
  BY <1>4, <1>5, <1>6, <1>7, <1>8, <1>9, <1>10 DEF NumberInv
<1>12. SourceInv'
  BY <1>2 DEF GenInv, SourceInv
<1> QED BY <1>11, <1>12 DEF GenInv

\* add_sync_pdu.
LEMMA SyncStep ==
    ASSUME GenInv, add_sync
    PROVE  GenInv'
<1> DEFINE inc == incrementing_header
           f == sync_array \o Head(framed)
<1>1. /\ inc \in Nat /\ framed \in Seq(HeaderAndPayloads) /\ air \in Seq(Frames)
      /\ \A k \in 1 .. Len(framed) : \E i \in 0 .. inc - 1 : framed[k] = HeaderAndPayload(i)
      /\ \A k \in 1 .. Len(air) : \E i \in 0 .. inc - 1 : air[k] = Frame(i)
  BY DEF GenInv, NumberInv
<1>2. /\ framed # <<>> /\ air' = Append(air, f) /\ framed' = Tail(framed)
      /\ phase' = phase /\ source' = source /\ inc' = inc /\ pdus' = pdus
  BY DEF add_sync
<1>3. PICK i \in 0 .. inc - 1 : f = Frame(i)
  <2>1. Head(framed) = framed[1] /\ 1 \in 1 .. Len(framed)
    BY <1>1, <1>2
  <2>2. PICK i \in 0 .. inc - 1 : Head(framed) = HeaderAndPayload(i)
    BY <1>1, <2>1
  <2>3. i \in Nat
    OBVIOUS
  <2> QED BY <2>2, <2>3, SyncAdded
<1>4. f \in Frames
  BY <1>3 DEF Frames
<1> HIDE DEF f
<1>5. /\ framed' \in Seq(HeaderAndPayloads) /\ Len(framed') = Len(framed) - 1
      /\ \A k \in 1 .. Len(framed') : k + 1 \in 1 .. Len(framed) /\ framed'[k] = framed[k + 1]
  BY <1>1, <1>2
<1>6. /\ air' \in Seq(Frames) /\ Len(air') = Len(air) + 1 /\ air'[Len(air) + 1] = f
      /\ \A k \in 1 .. Len(air) : air'[k] = air[k]
  BY <1>1, <1>2, <1>4
<1>7. ASSUME NEW k \in 1 .. Len(air') PROVE \E j \in 0 .. inc' - 1 : air'[k] = Frame(j)
  <2>1. CASE k = Len(air) + 1
    BY <1>2, <1>3, <1>6, <2>1
  <2>2. CASE k # Len(air) + 1
    <3>1. k \in 1 .. Len(air)
      BY <1>1, <1>6, <2>2
    <3> QED BY <1>1, <1>2, <1>6, <3>1
  <2> QED BY <2>1, <2>2
<1>8. \A k \in 1 .. Len(framed') : \E j \in 0 .. inc' - 1 : framed'[k] = HeaderAndPayload(j)
  BY <1>1, <1>2, <1>5
<1>9. NumberInv'
  BY <1>1, <1>2, <1>5, <1>6, <1>7, <1>8 DEF GenInv, NumberInv
<1>10. SourceInv'
  BY <1>2 DEF GenInv, SourceInv
<1> QED BY <1>9, <1>10 DEF GenInv

\* Steps that change none of this but perhaps end the phase, empty queues or take
\* the first frame from the air.
Aside ==
    /\ UNCHANGED incrementing_header
    /\ source' \in {source, [source EXCEPT !.done = TRUE]}
    /\ \/ UNCHANGED <<pdus, framed>> /\ (phase' = "generating" => phase = "generating")
       \/ pdus' = <<>> /\ framed' = <<>> /\ phase' # "generating"
    /\ \/ UNCHANGED air
       \/ air # <<>> /\ air' = Tail(air)

LEMMA AsideStep ==
    ASSUME GenInv, Aside
    PROVE  GenInv'
<1>1. SourceInv' /\ source'.packets_sent = source.packets_sent
  BY DEF GenInv, SourceInv, Aside
<1>2. /\ incrementing_header \in Nat
      /\ pdus \in Seq(Pdus) /\ framed \in Seq(HeaderAndPayloads) /\ air \in Seq(Frames)
  BY DEF GenInv, NumberInv
<1>6. incrementing_header' = incrementing_header
  BY DEF Aside
<1>3. /\ air' \in Seq(Frames)
      /\ \A k \in 1 .. Len(air') : \E i \in 0 .. incrementing_header - 1 : air'[k] = Frame(i)
  <2>1. CASE air' = air
    BY <2>1 DEF GenInv, NumberInv
  <2>2. CASE air # <<>> /\ air' = Tail(air)
    <3>1. /\ air' \in Seq(Frames)
          /\ \A k \in 1 .. Len(air') : k + 1 \in 1 .. Len(air) /\ air'[k] = air[k + 1]
      BY <1>2, <2>2
    <3> QED BY <3>1 DEF GenInv, NumberInv
  <2> QED BY <2>1, <2>2 DEF Aside
<1>4. CASE pdus' = pdus /\ framed' = framed /\ (phase' = "generating" => phase = "generating")
  BY <1>1, <1>3, <1>4, <1>6 DEF GenInv, NumberInv
<1>5. CASE pdus' = <<>> /\ framed' = <<>> /\ phase' # "generating"
  BY <1>1, <1>2, <1>3, <1>5, <1>6 DEF GenInv, NumberInv
<1> QED BY <1>4, <1>5 DEF Aside

LEMMA GenNext == GenInv /\ [Next]_vars => GenInv'
<1> SUFFICES ASSUME GenInv, [Next]_vars PROVE GenInv'
  OBVIOUS
<1>1. ASSUME NEW requested \in 1 .. MaxSent, work(requested) PROVE GenInv'
  BY <1>1, WorkStep
<1>2. CASE SourceDone
  <2>1. Aside
    BY <1>2 DEF Aside, SourceDone, linkVars
  <2> QED BY <2>1, AsideStep
<1>3. CASE add_header
  BY <1>3, HeaderStep
<1>4. CASE add_sync
  BY <1>4, SyncStep
<1>5. CASE StopGenerator
  <2>1. Aside
    BY <1>5 DEF Aside, StopGenerator, linkVars
  <2> QED BY <2>1, AsideStep
<1>6. CASE Receive
  <2>1. Aside
    BY <1>6 DEF Aside, Receive, generatorVars
  <2> QED BY <2>1, AsideStep
<1>7. CASE StartEvaluator
  <2>1. Aside
    BY <1>7 DEF Aside, StartEvaluator, linkVars, generatorVars
  <2> QED BY <2>1, AsideStep
<1>8. CASE ReadFile
  <2>1. Aside
    BY <1>8 DEF Aside, ReadFile, linkVars, generatorVars
  <2> QED BY <2>1, AsideStep
<1>9. CASE Decode
  <2>1. Aside
    BY <1>9 DEF Aside, Decode, generatorVars
  <2> QED BY <2>1, AsideStep
<1>10. CASE all_handler
  <2>1. Aside
    BY <1>10 DEF Aside, all_handler, linkVars, generatorVars
  <2> QED BY <2>1, AsideStep
<1>11. CASE corrected_handler
  <2>1. Aside
    BY <1>11 DEF Aside, corrected_handler, linkVars, generatorVars
  <2> QED BY <2>1, AsideStep
<1>12. CASE StopEvaluator
  <2>1. Aside
    BY <1>12 DEF Aside, StopEvaluator, linkVars, generatorVars
  <2> QED BY <2>1, AsideStep
<1>13. CASE Done \/ UNCHANGED vars
  <2>1. Aside
    BY <1>13 DEF Aside, Done, vars, linkVars, generatorVars
  <2> QED BY <2>1, AsideStep
<1> QED BY <1>1, <1>2, <1>3, <1>4, <1>5, <1>6, <1>7, <1>8, <1>9, <1>10, <1>11, <1>12, <1>13
        DEF Next

\* However prbs_source_b's work is called, every PDU, and every frame that goes on
\* the air, carries the bits of the sequence that belong to the number its header
\* holds.
THEOREM PacketsCarrySequence == Spec => []PacketsMatchSequence
<1>1. GenInv => PacketsMatchSequence
  <2> SUFFICES ASSUME GenInv PROVE PacketsMatchSequence
    OBVIOUS
  <2>1. DOMAIN pdus = 1 .. Len(pdus) /\ DOMAIN air = 1 .. Len(air)
    BY DEF GenInv, NumberInv
  <2> QED BY <2>1 DEF GenInv, NumberInv, PacketsMatchSequence
<1> QED BY <1>1, GenInit, GenNext, PTL DEF Spec

-----------------------------------------------------------------------------
(* What the blocks do to bits and bytes can be undone.                      *)

\* Words of ByteBits bits one after the other: where bit j of word i is.
LEMMA WordBit ==
    ASSUME NEW n \in Nat, NEW i \in 1 .. n, NEW j \in 1 .. ByteBits
    PROVE  /\ (i - 1) * ByteBits + j \in 1 .. n * ByteBits
           /\ (((i - 1) * ByteBits + j) - 1) \div ByteBits = i - 1
           /\ (((i - 1) * ByteBits + j) - 1) % ByteBits = j - 1
<1> DEFINE B == ByteBits
           o == (i - 1) * B
<1>0. B \in Nat \ {0} /\ j \in 1 .. B
  BY LinkAssumption
<1> HIDE DEF B
<1>1. o \in Nat /\ o + B <= n * B /\ n * B \in Nat
  <2>1. \A x, y \in Nat : x <= y => x * B <= y * B
    BY <1>0
  <2> QED BY <1>0, <2>1
<1>2. j - 1 \in 0 .. B - 1 /\ i - 1 \in Nat /\ o + (j - 1) = (o + j) - 1
  BY <1>0, <1>1
<1>3. (o + (j - 1)) \div B = i - 1 /\ (o + (j - 1)) % B = j - 1
  BY <1>0, <1>2, DivModUnique
<1> HIDE DEF o
<1> QED BY <1>0, <1>1, <1>2, <1>3 DEF o, B

\* Bits are determined by their words.
LEMMA WordsDetermine ==
    ASSUME NEW n \in Nat, NEW s \in [1 .. n * ByteBits -> {0, 1}],
           NEW t \in [1 .. n * ByteBits -> {0, 1}],
           \A i \in 1 .. n : Word(s, i) = Word(t, i)
    PROVE  s = t
<1> DEFINE B == ByteBits
<1>0. B \in Nat \ {0}
  BY LinkAssumption
<1>1. ASSUME NEW k \in 1 .. n * B PROVE s[k] = t[k]
  <2> DEFINE q == (k - 1) \div B
             r == (k - 1) % B
  <2>1. k - 1 \in Nat /\ n * B \in Nat
    BY <1>0
  <2>2. q \in Nat /\ r \in 0 .. B - 1 /\ q * B + r = k - 1
    BY <1>0, <2>1, DivMod
  <2> HIDE DEF q, r, B
  <2>3. q < 0 + n
    <3>1. 0 \in Nat /\ k \in 1 .. (0 + n) * B
      BY <2>1
    <3> QED BY <1>0, <2>2, <3>1, Position
  <2>4. q + 1 \in 1 .. n /\ r + 1 \in 1 .. B /\ ((q + 1) - 1) * B + (r + 1) = k
    BY <1>0, <2>1, <2>2, <2>3
  <2>5. Word(s, q + 1)[r + 1] = s[k] /\ Word(t, q + 1)[r + 1] = t[k]
    BY <2>4 DEF Word, B
  <2> QED BY <2>4, <2>5
<1>2. s = [k \in 1 .. n * B |-> s[k]] /\ t = [k \in 1 .. n * B |-> t[k]]
  OBVIOUS
<1> HIDE DEF B
<1>3. [k \in 1 .. n * B |-> s[k]] = [k \in 1 .. n * B |-> t[k]]
  BY <1>1
<1> QED BY <1>2, <1>3, Zenon

\* Packing loses nothing.
LEMMA PackInjective ==
    ASSUME NEW n \in Nat, NEW s \in [1 .. n * ByteBits -> {0, 1}],
           NEW t \in [1 .. n * ByteBits -> {0, 1}], pack_bits(s) = pack_bits(t)
    PROVE  s = t
<1>1. ASSUME NEW i \in 1 .. n PROVE Word(s, i) = Word(t, i)
  <2>1. Word(s, i) \in BitStrings /\ pack_bits(s)[i] = Byte(Word(s, i))
    BY PackedBytes
  <2>2. Word(t, i) \in BitStrings /\ pack_bits(t)[i] = Byte(Word(t, i))
    BY PackedBytes
  <2> QED BY <2>1, <2>2, ByteInjective
<1> QED BY <1>1, WordsDetermine

LEMMA ElementOfSeq ==
    ASSUME NEW S, NEW s \in Seq(S), NEW i \in 1 .. Len(s)
    PROVE  s[i] \in S
OBVIOUS

\* What repack_bits makes of bytes.
LEMMA Unpacked ==
    ASSUME NEW h \in Seq(0 .. Radix - 1)
    PROVE  /\ Unpack(h) \in [1 .. Len(h) * ByteBits -> {0, 1}]
           /\ \A i \in 1 .. Len(h) : Word(Unpack(h), i) = Bits(h[i])
<1> DEFINE B == ByteBits
           H == Len(h)
           u == Unpack(h)
<1>0. B \in Nat \ {0} /\ H \in Nat
  BY LinkAssumption
<1>1. ASSUME NEW i \in 1 .. H PROVE Bits(h[i]) \in [1 .. B -> {0, 1}]
  <2>1. h[i] \in 0 .. Radix - 1
    BY ElementOfSeq
  <2> QED BY <2>1, ByteOfBits DEF BitStrings
<1>2. u = [k \in 1 .. H * B |-> Bits(h[((k - 1) \div B) + 1])[((k - 1) % B) + 1]]
  BY DEF Unpack
<1> HIDE DEF u, H, B
<1>3. ASSUME NEW k \in 1 .. H * B PROVE u[k] \in {0, 1}
  <2> DEFINE q == (k - 1) \div B
             r == (k - 1) % B
  <2>1. k - 1 \in Nat /\ H * B \in Nat
    BY <1>0
  <2>2. q \in Nat /\ r \in 0 .. B - 1 /\ q * B + r = k - 1
    BY <1>0, <2>1, DivMod
  <2>3. u[k] = Bits(h[q + 1])[r + 1]
    BY <1>2
  <2> HIDE DEF q, r
  <2>4. q < 0 + H
    <3>1. 0 \in Nat /\ k \in 1 .. (0 + H) * B
      BY <1>0, <2>1
    <3> QED BY <1>0, <2>2, <3>1, Position
  <2>5. q + 1 \in 1 .. H /\ r + 1 \in 1 .. B
    BY <1>0, <2>2, <2>4
  <2> QED BY <1>1, <2>3, <2>5
<1>4. u \in [1 .. H * B -> {0, 1}]
  BY <1>2, <1>3
<1>5. ASSUME NEW i \in 1 .. H PROVE Word(u, i) = Bits(h[i])
  <2>1. ASSUME NEW j \in 1 .. B PROVE u[(i - 1) * B + j] = Bits(h[i])[j]
    <3> DEFINE k == (i - 1) * B + j
    <3>1. k \in 1 .. H * B /\ (k - 1) \div B = i - 1 /\ (k - 1) % B = j - 1
      BY <1>0, WordBit DEF B
    <3>2. u[k] = Bits(h[((k - 1) \div B) + 1])[((k - 1) % B) + 1]
      BY <1>2, <3>1
    <3>3. (i - 1) + 1 = i /\ (j - 1) + 1 = j
      BY <1>0
    <3> HIDE DEF k
    <3>4. u[k] = Bits(h[i])[j]
      BY <3>1, <3>2, <3>3
    <3> QED BY <3>4 DEF k
  <2>2. Bits(h[i]) = [j \in 1 .. B |-> Bits(h[i])[j]]
    BY <1>1
  <2>3. Word(u, i) = [j \in 1 .. B |-> u[(i - 1) * B + j]]
    BY DEF Word, B
  <2> QED BY <2>1, <2>2, <2>3
<1> QED BY <1>4, <1>5 DEF u, H, B

\* Packing bytes that were unpacked, and the bits that follow them.
LEMMA PackedUnpacked ==
    ASSUME NEW h \in Seq(0 .. Radix - 1), NEW n \in Nat,
           NEW arr \in [1 .. n * ByteBits -> {0, 1}]
    PROVE  /\ Unpack(h) \o arr \in [1 .. (Len(h) + n) * ByteBits -> {0, 1}]
           /\ pack_bits(Unpack(h) \o arr) = h \o pack_bits(arr)
<1> DEFINE B == ByteBits
           H == Len(h)
           u == Unpack(h)
           bits == u \o arr
           p == pack_bits(arr)
<1>0. B \in Nat \ {0} /\ H \in Nat /\ H * B \in Nat /\ n * B \in Nat /\ (H + n) * B = H * B + n * B
  BY LinkAssumption
<1>1. /\ u \in [1 .. H * B -> {0, 1}]
      /\ \A i \in 1 .. H : Word(u, i) = Bits(h[i])
  BY Unpacked
<1>2. arr \in [1 .. n * B -> {0, 1}]
  OBVIOUS
<1>3. /\ p \in Seq(Nat) /\ Len(p) = n
      /\ \A i \in 1 .. n : Word(arr, i) \in BitStrings /\ p[i] = Byte(Word(arr, i))
  BY PackedBytes
<1>4. \A i \in 1 .. H : h[i] \in 0 .. Radix - 1
  BY ElementOfSeq
<1>5. h \in Seq(Nat)
  BY EveryByte
<1> HIDE DEF u, p
<1>6. bits = [k \in 1 .. H * B + n * B |-> IF k <= H * B THEN u[k] ELSE arr[k - H * B]]
  <2>1. u \in Seq({0, 1}) /\ arr \in Seq({0, 1}) /\ Len(u) = H * B /\ Len(arr) = n * B
    <3> DEFINE K == H * B
               L == n * B
    <3>1. K \in Nat /\ L \in Nat /\ u \in [1 .. K -> {0, 1}] /\ arr \in [1 .. L -> {0, 1}]
      BY <1>0, <1>1, <1>2
    <3> HIDE DEF K, L
    <3>2. u \in Seq({0, 1}) /\ arr \in Seq({0, 1}) /\ Len(u) = K /\ Len(arr) = L
      BY <3>1
    <3> QED BY <3>2 DEF K, L
  <2>2. bits = [k \in 1 .. Len(u) + Len(arr) |-> IF k <= Len(u) THEN u[k] ELSE arr[k - Len(u)]]
    BY <2>1, ConcatIs
  <2> HIDE DEF bits, B, H
  <2> QED BY <2>1, <2>2
<1> HIDE DEF bits, B, H
<1>7. bits \in [1 .. (H + n) * B -> {0, 1}]
  <2>1. \A k \in 1 .. H * B + n * B :
            (IF k <= H * B THEN u[k] ELSE arr[k - H * B]) \in {0, 1}
    <3> TAKE k \in 1 .. H * B + n * B
    <3> DEFINE K == H * B
               L == n * B
    <3>1. K \in Nat /\ L \in Nat /\ k \in 1 .. K + L
      BY <1>0
    <3>2. u \in [1 .. K -> {0, 1}] /\ arr \in [1 .. L -> {0, 1}]
      BY <1>1, <1>2
    <3> HIDE DEF K, L
    <3>3. k <= K => k \in 1 .. K
      BY <3>1
    <3>4. ~(k <= K) => k - K \in 1 .. L
      BY <3>1
    <3>5. (IF k <= K THEN u[k] ELSE arr[k - K]) \in {0, 1}
      BY <3>2, <3>3, <3>4
    <3> QED BY <3>5 DEF K
  <2> QED BY <1>0, <1>6, <2>1
<1>8. /\ pack_bits(bits) \in Seq(Nat) /\ Len(pack_bits(bits)) = H + n
      /\ \A i \in 1 .. H + n : pack_bits(bits)[i] = Byte(Word(bits, i))
  <2>1. H + n \in Nat
    BY <1>0
  <2> QED BY <1>7, <2>1, PackedBytes DEF B
<1>9. ASSUME NEW i \in 1 .. H PROVE Byte(Word(bits, i)) = h[i]
  <2>1. ASSUME NEW j \in 1 .. B PROVE bits[(i - 1) * B + j] = u[(i - 1) * B + j]
    <3>1. (i - 1) * B + j \in 1 .. H * B
      BY <1>0, WordBit DEF B
    <3> QED BY <1>0, <1>6, <3>1
  <2>2. Word(bits, i) = Word(u, i)
    BY <2>1 DEF Word, B
  <2> QED BY <1>1, <1>4, <2>2, ByteOfBits
<1>10. ASSUME NEW i \in 1 .. H + n, ~(i <= H) PROVE Byte(Word(bits, i)) = p[i - H]
  <2> DEFINE w == i - H
  <2>1. w \in 1 .. n /\ (i - 1) * B = H * B + (w - 1) * B
    BY <1>0, <1>10
  <2> HIDE DEF w
  <2>2. ASSUME NEW j \in 1 .. B PROVE bits[(i - 1) * B + j] = arr[(w - 1) * B + j]
    <3> DEFINE K == H * B
               L == n * B
               x == (w - 1) * B + j
    <3>1. x \in 1 .. L
      BY <2>1, WordBit DEF B
    <3>2. (i - 1) * B + j = K + x
      <4>1. (w - 1) * B \in Int
        BY <1>0, <2>1
      <4> QED BY <1>0, <2>1, <4>1
    <3> HIDE DEF x
    <3>3. bits = [k \in 1 .. K + L |-> IF k <= K THEN u[k] ELSE arr[k - K]] /\ K \in Nat /\ L \in Nat
      BY <1>0, <1>6
    <3> HIDE DEF K, L
    <3>4. K + x \in 1 .. K + L /\ ~(K + x <= K) /\ (K + x) - K = x
      BY <3>1, <3>3
    <3>5. bits[K + x] = arr[x]
      BY <3>3, <3>4
    <3> QED BY <3>2, <3>5 DEF x
  <2>3. Word(bits, i) = Word(arr, w)
    BY <2>2 DEF Word, B
  <2> QED BY <1>3, <2>1, <2>3 DEF w
<1>11. h \o p = [i \in 1 .. H + n |-> IF i <= H THEN h[i] ELSE p[i - H]]
  BY <1>3, <1>5, ConcatIs DEF H
<1>12. pack_bits(bits) = [i \in 1 .. H + n |-> pack_bits(bits)[i]]
  BY <1>0, <1>8
<1>13. \A i \in 1 .. H + n : pack_bits(bits)[i] = IF i <= H THEN h[i] ELSE p[i - H]
  <2> TAKE i \in 1 .. H + n
  <2>1. i <= H => i \in 1 .. H
    BY <1>0
  <2> QED BY <1>8, <1>9, <1>10, <2>1
<1>14. pack_bits(bits) = h \o p
  BY <1>11, <1>12, <1>13
<1> QED BY <1>7, <1>14 DEF bits, p, u, H, B

\* Dividing twice.
LEMMA DivDiv ==
    ASSUME NEW n \in Nat, NEW b \in Nat \ {0}, NEW c \in Nat \ {0}
    PROVE  n \div (b * c) = (n \div b) \div c
<1> DEFINE x == n \div b
           r == n % b
           y == x \div c
           s == x % c
<1>1. x \in Nat /\ r \in 0 .. b - 1 /\ x * b + r = n
  BY DivMod
<1> HIDE DEF x, r
<1>2. y \in Nat /\ s \in 0 .. c - 1 /\ y * c + s = x
  BY <1>1, DivMod
<1> HIDE DEF y, s
<1> DEFINE d == b * c
           z == s * b + r
<1>3. d \in Nat \ {0} /\ y * d + z = n
  BY <1>1, <1>2
<1>4. z \in 0 .. d - 1
  <2>1. s + 1 <= c /\ (s + 1) * b <= c * b
    BY <1>2
  <2>2. (s + 1) * b = s * b + b /\ s * b \in Nat
    BY <1>2
  <2> QED BY <1>1, <1>2, <2>1, <2>2
<1> HIDE DEF d, z
<1>5. (y * d + z) \div d = y
  BY <1>2, <1>3, <1>4, DivModUnique
<1> QED BY <1>3, <1>5 DEF d, y, x

\* Header round trip: what add_incrementing_header_pdu writes for a number is made of
\* bytes, and prbs_sink_pdu.read_little_endian_header reads the number back from the
\* front of a packet when four bytes hold it.
THEOREM HeaderRead ==
    ASSUME NEW i \in Nat
    PROVE  /\ header_arr(i) \in Seq(0 .. Radix - 1) /\ Len(header_arr(i)) = HeaderBytes
           /\ header_arr(i) \in Seq(Nat)
           /\ i < Radix * Radix * Radix * Radix =>
                 \A arr : (\A d \in 1 .. HeaderBytes : arr[d] = header_arr(i)[d])
                             => read_little_endian_header(arr) = i
<1> DEFINE R == Radix
           h == header_arr(i)
           q1 == i \div R
           q2 == q1 \div R
           q3 == q2 \div R
<1>0. R \in Nat \ {0} /\ R * R \in Nat \ {0}
  BY EveryByte
<1> HIDE DEF R
<1>1. q1 \in Nat /\ i % R \in 0 .. R - 1 /\ q1 * R + (i % R) = i
  BY <1>0, DivMod
<1>2. q2 \in Nat /\ q1 % R \in 0 .. R - 1 /\ q2 * R + (q1 % R) = q1
  <2> HIDE DEF q1
  <2> QED BY <1>0, <1>1, DivMod
<1>3. q3 \in Nat /\ q2 % R \in 0 .. R - 1 /\ q3 * R + (q2 % R) = q2
  <2> HIDE DEF q2
  <2> QED BY <1>0, <1>2, DivMod
<1>4. i \div (R * R) = q2
  BY <1>0, DivDiv
<1>5. i \div (R * R * R) = q3
  <2> DEFINE S == R * R
  <2>1. S \in Nat \ {0}
    BY <1>0
  <2> HIDE DEF S
  <2>2. i \div (S * R) = (i \div S) \div R
    BY <1>0, <2>1, DivDiv
  <2> QED BY <1>4, <2>2 DEF S
<1>6. q3 % R \in 0 .. R - 1 /\ (q3 < R => q3 % R = q3)
  <2> HIDE DEF q3
  <2> QED BY <1>0, <1>3, DivMod, ModFacts
<1>7. h = <<i % R, q1 % R, q2 % R, q3 % R>>
  BY <1>4, <1>5 DEF header_arr, R
<1> HIDE DEF h, q1, q2, q3
<1>8. h \in Seq(0 .. R - 1) /\ Len(h) = 4 /\ h \in Seq(Nat)
  BY <1>0, <1>1, <1>2, <1>3, <1>6, <1>7
<1>9. ASSUME i < R * R * R * R, NEW arr, \A d \in 1 .. 4 : arr[d] = h[d]
      PROVE  read_little_endian_header(arr) = i
  <2>1. q3 < R
    <3> SUFFICES ASSUME R <= q3 PROVE FALSE
      BY <1>0, <1>3
    <3> DEFINE a == i % R
               b == q1 % R
               c == q2 % R
    <3>1. a \in Nat /\ b \in Nat /\ c \in Nat
      BY <1>0, <1>1, <1>2, <1>3
    <3>2. q1 * R + a = i /\ q2 * R + b = q1 /\ q3 * R + c = q2
      BY <1>1, <1>2, <1>3
    <3> HIDE DEF a, b, c
    <3>3. ASSUME NEW x \in Nat, NEW y \in Nat, x <= y PROVE x * R <= y * R
      BY <1>0, <3>3
    <3>4. R * R <= q2
      BY <1>0, <1>2, <1>3, <3>1, <3>2, <3>3
    <3>5. R * R * R <= q1
      <4>1. (R * R) * R <= q2 * R
        BY <1>0, <1>2, <3>3, <3>4
      <4> QED BY <1>0, <1>1, <1>2, <3>1, <3>2, <4>1
    <3>6. R * R * R * R <= i
      <4>1. R * R * R \in Nat
        BY <1>0
      <4>2. (R * R * R) * R <= q1 * R
        BY <1>1, <3>3, <3>5, <4>1
      <4> QED BY <1>0, <1>1, <3>1, <3>2, <4>1, <4>2
    <3>7. R * R * R * R \in Nat
      BY <1>0
    <3> QED BY <1>9, <3>6, <3>7
  <2>2. arr[1] = i % R /\ arr[2] = q1 % R /\ arr[3] = q2 % R /\ arr[4] = q3
    BY <1>6, <1>7, <1>9, <2>1
  <2>3. read_little_endian_header(arr) = q3 * (R * R * R) + arr[3] * (R * R) + arr[2] * R + arr[1]
    BY <2>2 DEF read_little_endian_header, R
  <2> DEFINE a == i % R
             b == q1 % R
             c == q2 % R
  <2>4. a \in Nat /\ b \in Nat /\ c \in Nat
    BY <1>0, <1>1, <1>2, <1>3
  <2>5. q1 * R + a = i /\ q2 * R + b = q1 /\ q3 * R + c = q2
    BY <1>1, <1>2, <1>3
  <2>6. read_little_endian_header(arr) = q3 * (R * R * R) + c * (R * R) + b * R + a
    BY <2>2, <2>3
  <2> HIDE DEF a, b, c
  <2>7. q2 * R * R = q3 * (R * R * R) + c * (R * R)
    BY <1>0, <1>3, <2>4, <2>5
  <2>8. q1 * R = q2 * R * R + b * R
    BY <1>0, <1>2, <2>4, <2>5
  <2>9. q3 * (R * R * R) \in Nat /\ c * (R * R) \in Nat /\ b * R \in Nat /\ q2 * R * R \in Nat /\ q1 * R \in Nat
    BY <1>0, <1>1, <1>2, <1>3, <2>4
  <2> QED BY <2>4, <2>5, <2>6, <2>7, <2>8, <2>9
<1> QED BY <1>8, <1>9 DEF h, R, HeaderBytes

-----------------------------------------------------------------------------
(* Frames, and what the sink makes of them.                                *)

\* The bytes of a packet with its header, and their bits.
FrameBytes == HeaderBytes + PacketBytes
BitsOf(n) == [1 .. n * ByteBits -> {0, 1}]

LEMMA FrameBits ==
    ASSUME NEW i \in Nat
    PROVE  /\ HeaderAndPayload(i) \in BitsOf(FrameBytes)
           /\ pack_bits(HeaderAndPayload(i)) = header_arr(i) \o pack_bits(Payload(i))
           /\ Frame(i) \in Seq({0, 1})
           /\ Len(Frame(i)) = ByteBits + FrameBytes * ByteBits
           /\ \A k \in 1 .. FrameBytes * ByteBits : Frame(i)[ByteBits + k] = HeaderAndPayload(i)[k]
<1> DEFINE p == HeaderAndPayload(i)
           n == FrameBytes * ByteBits
<1>1. header_arr(i) \in Seq(0 .. Radix - 1) /\ Len(header_arr(i)) = HeaderBytes
  BY HeaderRead
<1>2. PacketBytes \in Nat /\ Payload(i) \in [1 .. PacketBytes * ByteBits -> {0, 1}]
  BY Lengths, PayloadBits
<1>3. p \in BitsOf(FrameBytes) /\ pack_bits(p) = header_arr(i) \o pack_bits(Payload(i))
  BY <1>1, <1>2, PackedUnpacked DEF HeaderAndPayload, BitsOf, FrameBytes
<1>4. n \in Nat /\ ByteBits \in Nat
  BY Lengths DEF FrameBytes, HeaderBytes
<1>5. p \in [1 .. n -> {0, 1}]
  BY <1>3 DEF BitsOf
<1>6. sync_array \in [1 .. ByteBits -> {0, 1}]
  BY SyncBits DEF BitStrings
<1>7. Frame(i) = sync_array \o p
  BY SyncAdded
<1> HIDE DEF p, n
<1>8. p \in Seq({0, 1}) /\ Len(p) = n
  BY <1>4, <1>5
<1>9. sync_array \in Seq({0, 1}) /\ Len(sync_array) = ByteBits
  BY <1>4, <1>6
<1>10. /\ sync_array \o p \in Seq({0, 1}) /\ Len(sync_array \o p) = ByteBits + n
       /\ \A k \in 1 .. n : (sync_array \o p)[ByteBits + k] = p[k]
  BY <1>4, <1>8, <1>9
<1> QED BY <1>3, <1>7, <1>10 DEF p, n

LEMMA FrameLengthIs ==
    /\ FrameLength = ByteBits + FrameBytes * ByteBits
    /\ {FrameLength, ByteBits, FrameBytes, PacketBytes, FrameBytes * ByteBits} \subseteq Nat \ {0}
    /\ packet_len = PacketBytes * ByteBits
    /\ FrameBytes * ByteBits = HeaderBytes * ByteBits + packet_len
    /\ packet_len \div ByteBits + HeaderBytes = FrameBytes
<1>1. FrameLength = ByteBits + FrameBytes * ByteBits
  BY FrameBits DEF FrameLength
<1>2. {ByteBits, FrameBytes, PacketBytes} \subseteq Nat \ {0}
  BY Lengths DEF FrameBytes, HeaderBytes
<1>3. FrameBytes * ByteBits \in Nat \ {0}
  BY <1>2
<1>4. packet_len = PacketBytes * ByteBits
  BY Lengths
<1>5. FrameBytes * ByteBits = HeaderBytes * ByteBits + packet_len
  BY <1>2, <1>4 DEF FrameBytes, HeaderBytes
<1>6. packet_len \div ByteBits = PacketBytes
  <2>1. PacketBytes * ByteBits + 0 = packet_len /\ 0 \in 0 .. ByteBits - 1 /\ ByteBits \in Nat \ {0}
        /\ PacketBytes \in Nat
    BY <1>2, <1>4
  <2> QED BY <2>1, DivModUnique
<1>7. packet_len \div ByteBits + HeaderBytes = FrameBytes
  BY <1>2, <1>6 DEF FrameBytes, HeaderBytes
<1> QED BY <1>1, <1>2, <1>3, <1>4, <1>5, <1>7

LEMMA SubSeqIs ==
    ASSUME NEW S, NEW s \in Seq(S), NEW o \in Nat, NEW n \in Nat, o + n <= Len(s)
    PROVE  SubSeq(s, o + 1, o + n) = [k \in 1 .. n |-> s[o + k]]
<1>1. SubSeq(s, o + 1, o + n) = [k \in 1 .. (o + n) - (o + 1) + 1 |-> s[(o + 1) + k - 1]]
  OBVIOUS
<1>2. (o + n) - (o + 1) + 1 = n /\ \A k \in 1 .. n : (o + 1) + k - 1 = o + k
  OBVIOUS
<1> QED BY <1>1, <1>2

\* Bits as a receiver records them from a frame of the right length.
Recorded == {bits \in Seq({0, 1}) : Len(bits) = FrameLength}

LEMMA Trimmed ==
    ASSUME NEW bits \in Recorded
    PROVE  /\ pdu_trim_uvector(bits) \in BitsOf(FrameBytes)
           /\ Len(pdu_trim_uvector(bits)) = FrameBytes * ByteBits
           /\ \A k \in 1 .. FrameBytes * ByteBits : pdu_trim_uvector(bits)[k] = bits[ByteBits + k]
<1> DEFINE n == FrameBytes * ByteBits
           B == ByteBits
<1>1. bits \in Seq({0, 1}) /\ Len(bits) = B + n /\ n \in Nat /\ B \in Nat
  BY FrameLengthIs DEF Recorded
<1>2. pdu_trim_uvector(bits) = SubSeq(bits, B + 1, Len(bits) - 0)
  BY DEF pdu_trim_uvector, start_trim_length, end_trim_length
<1> HIDE DEF n, B
<1>3. SubSeq(bits, B + 1, Len(bits) - 0) = [k \in 1 .. n |-> bits[B + k]]
  <2>1. Len(bits) - 0 = B + n
    BY <1>1
  <2> QED BY <1>1, <2>1, SubSeqIs
<1>4. \A k \in 1 .. n : bits[B + k] \in {0, 1}
  BY <1>1
<1>5. [k \in 1 .. n |-> bits[B + k]] \in [1 .. n -> {0, 1}]
  BY <1>4
<1>6. Len([k \in 1 .. n |-> bits[B + k]]) = n
  BY <1>1
<1> QED BY <1>2, <1>3, <1>5, <1>6 DEF BitsOf, n, B

LEMMA TrimmedFrame ==
    ASSUME NEW i \in Nat
    PROVE  Frame(i) \in Recorded /\ pdu_trim_uvector(Frame(i)) = HeaderAndPayload(i)
<1> DEFINE n == FrameBytes * ByteBits
           t == pdu_trim_uvector(Frame(i))
           p == HeaderAndPayload(i)
<1>1. Frame(i) \in Recorded
  BY FrameBits, FrameLengthIs DEF Recorded
<1>2. t \in [1 .. n -> {0, 1}] /\ \A k \in 1 .. n : t[k] = Frame(i)[ByteBits + k]
  BY <1>1, Trimmed DEF BitsOf
<1>3. p \in [1 .. n -> {0, 1}] /\ \A k \in 1 .. n : Frame(i)[ByteBits + k] = p[k]
  BY FrameBits DEF BitsOf
<1> HIDE DEF n, t, p
<1>4. t = [k \in 1 .. n |-> t[k]] /\ p = [k \in 1 .. n |-> p[k]]
  BY <1>2, <1>3
<1>5. [k \in 1 .. n |-> t[k]] = [k \in 1 .. n |-> p[k]]
  BY <1>2, <1>3
<1>6. t = p
  BY <1>4, <1>5, Zenon
<1> QED BY <1>1, <1>6 DEF t, p

\* The messages at the sink, by what it says of them.
ExpectedBytes == packet_len \div ByteBits + HeaderBytes
WrongLength == {arr \in Seq(Nat) : Len(arr) # ExpectedBytes}
Erroneous ==
    {arr \in Seq(Nat) : /\ Len(arr) = ExpectedBytes
                        /\ \/ verify_packet_and_return_idx(arr) = -1
                           \/ verify_packet_and_return_idx(arr) > num_packets - 1}
Numbered(i) ==
    {arr \in Seq(Nat) : Len(arr) = ExpectedBytes /\ verify_packet_and_return_idx(arr) = i}

LEMMA PackedTrimmed ==
    ASSUME NEW bits \in Recorded
    PROVE  /\ pack_bits(pdu_trim_uvector(bits)) \in Seq(Nat)
           /\ Len(pack_bits(pdu_trim_uvector(bits))) = ExpectedBytes
           /\ \A b \in 1 .. FrameBytes : /\ Word(pdu_trim_uvector(bits), b) \in BitStrings
                                         /\ pack_bits(pdu_trim_uvector(bits))[b]
                                              = Byte(Word(pdu_trim_uvector(bits), b))
<1>1. FrameBytes \in Nat /\ ExpectedBytes = FrameBytes
  BY FrameLengthIs DEF ExpectedBytes
<1>2. pdu_trim_uvector(bits) \in [1 .. FrameBytes * ByteBits -> {0, 1}]
  BY Trimmed DEF BitsOf
<1> QED BY <1>1, <1>2, PackedBytes

\* A message that lost a byte has the wrong length.
LEMMA CutIsWrong ==
    ASSUME NEW bits \in Recorded
    PROVE  LET t == pdu_trim_uvector(bits)
           IN  pack_bits(SubSeq(t, 1, Len(t) - ByteBits)) \in WrongLength
<1> DEFINE t == pdu_trim_uvector(bits)
           n == FrameBytes - 1
           m == n * ByteBits
           c == SubSeq(t, 1, Len(t) - ByteBits)
<1>1. FrameBytes \in Nat \ {0} /\ ByteBits \in Nat /\ ExpectedBytes = FrameBytes
  BY FrameLengthIs DEF ExpectedBytes
<1>2. n \in Nat /\ m \in Nat /\ FrameBytes * ByteBits = m + ByteBits
  BY <1>1
<1>3. t \in [1 .. m + ByteBits -> {0, 1}] /\ Len(t) = m + ByteBits
  BY <1>2, Trimmed DEF BitsOf
<1> HIDE DEF t, m
<1>4. c = [k \in 1 .. m |-> t[k]]
  BY <1>1, <1>2, <1>3
<1>8. \A k \in 1 .. m : t[k] \in {0, 1}
  BY <1>1, <1>2, <1>3
<1>5. c \in [1 .. m -> {0, 1}]
  BY <1>4, <1>8
<1> HIDE DEF c
<1>6. pack_bits(c) \in Seq(Nat) /\ Len(pack_bits(c)) = n
  <2> HIDE DEF n
  <2> QED BY <1>2, <1>5, PackedBytes DEF m
<1>7. pack_bits(c) \in WrongLength
  BY <1>1, <1>6 DEF WrongLength
<1> QED BY <1>7 DEF c, t

\* The sink's check returns a number or -1.
LEMMA VerifyResult ==
    ASSUME NEW arr \in Seq(Nat), Len(arr) = ExpectedBytes
    PROVE  verify_packet_and_return_idx(arr) \in Nat \cup {-1}
<1>1. {1, 2, 3, 4} \subseteq 1 .. Len(arr)
  <2>1. Len(arr) = 4 + PacketBytes /\ PacketBytes \in Nat
    BY FrameLengthIs DEF ExpectedBytes, FrameBytes, HeaderBytes
  <2> QED BY <2>1
<1>2. arr[1] \in Nat /\ arr[2] \in Nat /\ arr[3] \in Nat /\ arr[4] \in Nat
  BY <1>1
<1>3. \A x, y \in Nat : x * y \in Nat /\ x + y \in Nat
  OBVIOUS
<1>4. read_little_endian_header(arr) \in Nat
  <2>1. Radix \in Nat /\ Radix * Radix \in Nat /\ Radix * Radix * Radix \in Nat
    BY <1>3, EveryByte
  <2> DEFINE a == arr[4] * (Radix * Radix * Radix)
             b == arr[3] * (Radix * Radix)
             c == arr[2] * Radix
             d == arr[1]
  <2>2. a \in Nat /\ b \in Nat /\ c \in Nat /\ d \in Nat
    BY <1>2, <1>3, <2>1
  <2>3. read_little_endian_header(arr) = a + b + c + d
    BY Zenon DEF read_little_endian_header
  <2> HIDE DEF a, b, c, d
  <2>4. a + b + c + d \in Nat
    BY <2>2
  <2> QED BY <2>3, <2>4
<1> QED BY <1>4 DEF verify_packet_and_return_idx

\* An expected packet that was recorded without damage is judged to be the one it is:
\* what folder_source_pdu, pdu_trim_uvector and the packing hand to
\* verify_packet_and_return_idx has the expected length and gives its number.
THEOREM IntactIsNumbered ==
    ASSUME NEW i \in 0 .. num_packets - 1
    PROVE  pack_bits(pdu_trim_uvector(Frame(i))) \in Numbered(i)
<1> DEFINE h == header_arr(i)
           p == pack_bits(Payload(i))
           arr == pack_bits(pdu_trim_uvector(Frame(i)))
<1>0. i \in Nat /\ num_packets \in Nat
  BY LinkAssumption
<1>1. Frame(i) \in Recorded /\ arr = h \o p
  BY <1>0, FrameBits, TrimmedFrame
<1>2. arr \in Seq(Nat) /\ Len(arr) = ExpectedBytes
  BY <1>1, PackedTrimmed
<1>3. h \in Seq(Nat) /\ Len(h) = HeaderBytes
  BY <1>0, HeaderRead
<1>4. p \in Seq(Nat) /\ Len(p) = PacketBytes
  <2>1. PacketBytes \in Nat /\ Payload(i) \in [1 .. PacketBytes * ByteBits -> {0, 1}]
    BY <1>0, Lengths, PayloadBits
  <2> QED BY <2>1, PackedBytes
<1>5. i < Radix * Radix * Radix * Radix
  <2> DEFINE S == Radix * Radix * Radix * Radix
  <2>1. S \in Nat
    BY EveryByte
  <2>2. num_packets <= S
    BY HeaderAssumption
  <2> HIDE DEF S
  <2>3. i < S
    BY <1>0, <2>1, <2>2
  <2> QED BY <2>3 DEF S
<1>6. generate_n_bits_after_x(packet_len, packet_len * i) = Payload(i)
  BY <1>0, SinkExpectsWhatIsSent
<1> HIDE DEF arr, p
<1>7. read_little_endian_header(arr) = i
  <2>1. \A d \in 1 .. HeaderBytes : arr[d] = h[d]
    <3> HIDE DEF h
    <3> QED BY <1>1, <1>3, <1>4
  <2> QED BY <1>0, <1>5, <2>1, HeaderRead
<1> HIDE DEF h
<1>8. SubSeq(arr, HeaderBytes + 1, Len(arr)) = p
  <2>1. HeaderBytes \in Nat /\ PacketBytes \in Nat
    BY Lengths DEF HeaderBytes
  <2>2. Len(arr) = HeaderBytes + PacketBytes
    <3>1. Len(h \o p) = Len(h) + Len(p)
      BY <1>3, <1>4, ConcatIs
    <3> QED BY <1>1, <1>3, <1>4, <3>1
  <2>3. SubSeq(arr, HeaderBytes + 1, Len(arr)) = [k \in 1 .. PacketBytes |-> p[k]]
    <3>1. SubSeq(arr, HeaderBytes + 1, HeaderBytes + PacketBytes)
            = [k \in 1 .. PacketBytes |-> arr[HeaderBytes + k]]
      BY <1>2, <2>1, <2>2, SubSeqIs
    <3>2. \A k \in 1 .. PacketBytes : arr[HeaderBytes + k] = p[k]
      BY <1>1, <1>3, <1>4, <2>1
    <3> QED BY <2>2, <3>1, <3>2
  <2>4. p = [k \in 1 .. PacketBytes |-> p[k]]
    BY <1>4
  <2> QED BY <2>3, <2>4
<1>9. verify_packet_and_return_idx(arr) = i
  BY <1>6, <1>7, <1>8 DEF verify_packet_and_return_idx, p
<1> QED BY <1>2, <1>9 DEF Numbered, arr

\* The sink does not take one packet for another: whatever the channel made of a
\* recording of the right length, if verify_packet_and_return_idx says that it is
\* packet i then its last bits are those of packet i.
THEOREM NumberedHasPayload ==
    ASSUME NEW bits \in Recorded, NEW i \in Nat,
           pack_bits(pdu_trim_uvector(bits)) \in Numbered(i)
    PROVE  SubSeq(bits, FrameLength - packet_len + 1, Len(bits)) = Payload(i)
<1> DEFINE t == pdu_trim_uvector(bits)
           arr == pack_bits(t)
           H == HeaderBytes
           B == ByteBits
           P == PacketBytes
           L == packet_len
           w == SubSeq(bits, FrameLength - L + 1, Len(bits))
           e == Payload(i)
<1>1. arr \in Seq(Nat) /\ Len(arr) = H + P /\ verify_packet_and_return_idx(arr) = i
  BY FrameLengthIs DEF Numbered, ExpectedBytes, FrameBytes
<1>2. /\ {B, P, H, L} \subseteq Nat \ {0} /\ L = P * B
      /\ FrameLength = B + (H * B + L) /\ FrameBytes * B = H * B + L
      /\ FrameBytes = H + P
  BY FrameLengthIs, Lengths DEF HeaderBytes, FrameBytes
<1>3. e \in [1 .. P * B -> {0, 1}]
  BY PayloadBits
<1>4. pack_bits(e) = SubSeq(arr, H + 1, Len(arr))
  <2>1. read_little_endian_header(arr) = i
    BY <1>1 DEF verify_packet_and_return_idx
  <2>2. pack_bits(generate_n_bits_after_x(packet_len, packet_len * i)) = SubSeq(arr, H + 1, Len(arr))
    BY <1>1, <2>1 DEF verify_packet_and_return_idx
  <2> QED BY <2>2, SinkExpectsWhatIsSent
<1>5. bits \in Seq({0, 1}) /\ Len(bits) = B + (H * B + L)
  BY <1>2 DEF Recorded
<1>6. /\ \A b \in 1 .. H + P : arr[b] = Byte(Word(t, b))
      /\ \A k \in 1 .. H * B + L : t[k] = bits[B + k]
  BY <1>2, PackedTrimmed, Trimmed
<1> HIDE DEF arr, t, H, B, P, L, e
<1>7. w = [k \in 1 .. L |-> bits[(B + H * B) + k]]
  <2> DEFINE o == B + H * B
  <2>1. o \in Nat /\ FrameLength - L + 1 = o + 1 /\ Len(bits) = o + L
    BY <1>2, <1>5
  <2> HIDE DEF o
  <2>2. L \in Nat /\ o + L <= Len(bits)
    BY <1>2, <2>1
  <2>3. SubSeq(bits, o + 1, o + L) = [k \in 1 .. L |-> bits[o + k]]
    BY <1>5, <2>1, <2>2, SubSeqIs
  <2> QED BY <2>1, <2>3 DEF o, w
<1>8. w \in [1 .. L -> {0, 1}]
  <2> DEFINE o == B + H * B
  <2>1. o \in Nat /\ Len(bits) = o + L /\ L \in Nat
    BY <1>2, <1>5
  <2> HIDE DEF o
  <2>2. \A k \in 1 .. L : bits[o + k] \in {0, 1}
    BY <1>5, <2>1
  <2> QED BY <1>7, <2>2 DEF o
<1> HIDE DEF w
<1>9. /\ Len(pack_bits(w)) = P /\ pack_bits(w) \in Seq(Nat)
      /\ \A b \in 1 .. P : pack_bits(w)[b] = Byte(Word(w, b))
  <2>1. w \in [1 .. P * B -> {0, 1}] /\ P \in Nat
    BY <1>2, <1>8
  <2> QED BY <2>1, PackedBytes DEF B
<1>10. ASSUME NEW b \in 1 .. P PROVE Word(w, b) = Word(t, H + b)
  <2>1. ASSUME NEW j \in 1 .. B
        PROVE  w[(b - 1) * B + j] = t[((H + b) - 1) * B + j]
    <3> DEFINE k == (b - 1) * B + j
    <3>1. k \in 1 .. L
      BY <1>2, WordBit DEF B
    <3>2. ((H + b) - 1) * B + j = H * B + k
      BY <1>2
    <3> HIDE DEF k
    <3>3. H * B \in Nat
      BY <1>2
    <3>4. H * B + k \in 1 .. H * B + L
      BY <1>2, <3>1, <3>3
    <3>5. t[H * B + k] = bits[B + (H * B + k)]
      BY <1>6, <3>4
    <3>6. B + (H * B + k) = (B + H * B) + k
      BY <1>2, <3>1, <3>3
    <3>7. w[k] = bits[(B + H * B) + k]
      BY <1>7, <3>1
    <3> QED BY <3>2, <3>5, <3>6, <3>7 DEF k
  <2> QED BY <2>1 DEF Word, B
<1>11. SubSeq(arr, H + 1, Len(arr)) = [b \in 1 .. P |-> arr[H + b]]
  <2>1. H \in Nat /\ P \in Nat /\ H + P <= Len(arr)
    BY <1>1, <1>2
  <2> QED BY <1>1, <2>1, SubSeqIs
<1>12. pack_bits(w) = [b \in 1 .. P |-> arr[H + b]]
  <2>1. \A b \in 1 .. P : pack_bits(w)[b] = arr[H + b]
    <3> TAKE b \in 1 .. P
    <3>1. H + b \in 1 .. H + P
      BY <1>2
    <3> QED BY <1>6, <1>9, <1>10, <3>1
  <2>2. pack_bits(w) = [b \in 1 .. P |-> pack_bits(w)[b]]
    BY <1>9
  <2> QED BY <2>1, <2>2
<1>13. pack_bits(w) = pack_bits(e)
  BY <1>4, <1>11, <1>12
<1>14. w = e
  <2>1. w \in [1 .. P * B -> {0, 1}] /\ P \in Nat
    BY <1>2, <1>8
  <2> QED BY <1>3, <1>13, <2>1, PackInjective DEF B
<1> QED BY <1>14 DEF w, e, L

\* So frames of different expected packets differ.
LEMMA FrameInjective ==
    ASSUME NEW i \in 0 .. num_packets - 1, NEW j \in 0 .. num_packets - 1, Frame(i) = Frame(j)
    PROVE  i = j
<1>1. pack_bits(pdu_trim_uvector(Frame(i))) \in Numbered(i) \cap Numbered(j)
  BY IntactIsNumbered
<1> QED BY <1>1 DEF Numbered

-----------------------------------------------------------------------------
(* Counting.                                                               *)

\* How many messages of a queue are of a kind.
CountIn(q, S) == Cardinality({k \in 1 .. Len(q) : q[k] \in S})

LEMMA SubsetOfInterval ==
    ASSUME NEW n \in Nat, NEW T, T \subseteq 1 .. n
    PROVE  IsFiniteSet(T) /\ Cardinality(T) \in Nat /\ Cardinality(T) <= n
<1>1. IsFiniteSet(1 .. n) /\ Cardinality(1 .. n) = n
  <2>1. 1 \in Int /\ n \in Int /\ (1 > n => n = 0)
    OBVIOUS
  <2>2. IsFiniteSet(1 .. n) /\ Cardinality(1 .. n) = IF 1 > n THEN 0 ELSE n - 1 + 1
    BY <2>1, FS_Interval
  <2> QED BY <2>1, <2>2
<1>2. T \in SUBSET (1 .. n)
  OBVIOUS
<1>3. IsFiniteSet(T) /\ Cardinality(T) <= n
  BY <1>1, <1>2, FS_Subset
<1> QED BY <1>3, FS_CardinalityType

LEMMA CountEmpty ==
    ASSUME NEW S
    PROVE  CountIn(<<>>, S) = 0
<1>1. {k \in 1 .. Len(<<>>) : <<>>[k] \in S} = {}
  OBVIOUS
<1> QED BY <1>1, FS_EmptySet DEF CountIn

LEMMA CountType ==
    ASSUME NEW A, NEW q \in Seq(A), NEW S
    PROVE  /\ CountIn(q, S) \in Nat
           /\ (\E k \in 1 .. Len(q) : q[k] \in S) => CountIn(q, S) > 0
<1> DEFINE T == {k \in 1 .. Len(q) : q[k] \in S}
<1>1. Len(q) \in Nat /\ T \subseteq 1 .. Len(q)
  OBVIOUS
<1>2. IsFiniteSet(T) /\ Cardinality(T) \in Nat
  BY <1>1, SubsetOfInterval
<1>3. T # {} => Cardinality(T) # 0
  BY <1>2, FS_EmptySet
<1> QED BY <1>2, <1>3 DEF CountIn

LEMMA CountAppend ==
    ASSUME NEW A, NEW q \in Seq(A), NEW x \in A, NEW S
    PROVE  CountIn(Append(q, x), S) = CountIn(q, S) + (IF x \in S THEN 1 ELSE 0)
<1> DEFINE n == Len(q)
           r == Append(q, x)
           T == {k \in 1 .. n : q[k] \in S}
           U == {k \in 1 .. n + 1 : r[k] \in S}
<1>1. /\ n \in Nat /\ Len(r) = n + 1 /\ r[n + 1] = x
      /\ \A k \in 1 .. n : r[k] = q[k]
  OBVIOUS
<1> HIDE DEF n, r
<1>2. T \subseteq 1 .. n
  OBVIOUS
<1>3. IsFiniteSet(T) /\ n + 1 \notin T /\ Cardinality(T) \in Nat
  BY <1>1, <1>2, SubsetOfInterval
<1>4. U = IF x \in S THEN T \cup {n + 1} ELSE T
  BY <1>1
<1> HIDE DEF T, U
<1>5. Cardinality(U) = Cardinality(T) + (IF x \in S THEN 1 ELSE 0)
  <2>1. Cardinality(T \cup {n + 1}) = Cardinality(T) + 1
    BY <1>3, FS_AddElement
  <2> QED BY <1>3, <1>4, <2>1
<1> QED BY <1>1, <1>5 DEF CountIn, T, U, n, r

LEMMA CountTail ==
    ASSUME NEW A, NEW q \in Seq(A), q # <<>>, NEW S
    PROVE  CountIn(q, S) = CountIn(Tail(q), S) + (IF Head(q) \in S THEN 1 ELSE 0)
<1> DEFINE n == Len(q)
           r == Tail(q)
           T == {k \in 1 .. n : q[k] \in S}
           U == {k \in 1 .. n - 1 : r[k] \in S}
           f == [k \in U |-> k + 1]
<1>1. /\ n \in Nat \ {0} /\ Len(r) = n - 1 /\ Head(q) = q[1]
      /\ \A k \in 1 .. n - 1 : r[k] = q[k + 1]
  OBVIOUS
<1> HIDE DEF n, r
<1>2. n - 1 \in Nat /\ U \subseteq 1 .. n - 1 /\ T \subseteq 1 .. n
  BY <1>1
<1>3. IsFiniteSet(U) /\ Cardinality(U) \in Nat /\ IsFiniteSet(T)
  BY <1>1, <1>2, SubsetOfInterval
<1>4. ExistsBijection(U, T \ {1})
  <2>1. \A k \in U : k + 1 \in T \ {1}
    BY <1>1
  <2>2. f \in [U -> T \ {1}]
    BY <2>1
  <2>3. \A k, m \in U : f[k] = f[m] => k = m
    OBVIOUS
  <2>4. \A m \in T \ {1} : \E k \in U : f[k] = m
    <3> TAKE m \in T \ {1}
    <3>1. m - 1 \in 1 .. n - 1 /\ (m - 1) + 1 = m
      BY <1>1
    <3>2. m - 1 \in U
      BY <1>1, <3>1
    <3> QED BY <3>1, <3>2
  <2> HIDE DEF f, U, T
  <2>5. f \in Bijection(U, T \ {1})
    BY <2>2, <2>3, <2>4 DEF Bijection, Injection, IsInjective, Surjection
  <2> QED BY <2>5 DEF ExistsBijection
<1>5. 1 \in T <=> Head(q) \in S
  BY <1>1
<1> HIDE DEF T, U
<1>6. Cardinality(T \ {1}) = Cardinality(U)
  BY <1>3, <1>4, FS_Bijection
<1>7. Cardinality(T \ {1}) = IF 1 \in T THEN Cardinality(T) - 1 ELSE Cardinality(T)
  BY <1>3, FS_RemoveElement
<1>8. Cardinality(T) \in Nat
  BY <1>3, FS_CardinalityType
<1>9. Cardinality(T) = Cardinality(U) + (IF Head(q) \in S THEN 1 ELSE 0)
  BY <1>3, <1>5, <1>6, <1>7, <1>8
<1> QED BY <1>1, <1>9 DEF CountIn, T, U, n, r

-----------------------------------------------------------------------------
(* First copies and duplicates.                                            *)

Collections == [0 .. num_packets - 1 -> Nat]
Extra(c, k) == IF c[k - 1] > 1 THEN c[k - 1] - 1 ELSE 0

DuplicatesOf(c) ==
    LET sum[n \in 0 .. num_packets] ==
            IF n = 0 THEN 0
            ELSE sum[n - 1] + (IF c[n - 1] > 1 THEN c[n - 1] - 1 ELSE 0)
    IN  sum[num_packets]
UniqueOf(c) == Cardinality({i \in DOMAIN c : c[i] # 0})

LEMMA DuplicatesTable ==
    ASSUME NEW c \in Collections
    PROVE  \E a \in [0 .. num_packets -> Nat] :
              /\ a[0] = 0 /\ \A k \in 1 .. num_packets : a[k] = a[k - 1] + Extra(c, k)
              /\ DuplicatesOf(c) = a[num_packets]
<1> DEFINE N == num_packets
           e == [k \in 1 .. N |-> Extra(c, k)]
           g == [k \in 1 .. N |-> [v \in Nat |-> v + e[k]]]
           F(x) == [k \in 0 .. N |-> IF k = 0 THEN 0 ELSE x[k - 1] + Extra(c, k)]
<1>0. N \in Nat
  BY LinkAssumption
<1>1. DuplicatesOf(c) = (CHOOSE x : x = F(x))[N]
  BY DEF DuplicatesOf, Extra
<1>2. \A k \in 1 .. N : Extra(c, k) \in Nat
  <2> TAKE k \in 1 .. N
  <2>1. k - 1 \in 0 .. N - 1
    BY <1>0
  <2>2. c[k - 1] \in Nat
    BY <2>1 DEF Collections
  <2> QED BY <2>2 DEF Extra
<1> HIDE DEF N
<1>3. e \in [1 .. N -> Nat] /\ \A k \in 1 .. N : e[k] = Extra(c, k)
  BY <1>2
<1> HIDE DEF e
<1>4. /\ g \in [1 .. N -> [Nat -> Nat]]
      /\ \A k \in 1 .. N : \A v \in Nat : g[k][v] = v + Extra(c, k)
  <2>1. \A k \in 1 .. N : [v \in Nat |-> v + e[k]] \in [Nat -> Nat]
    BY <1>3
  <2> QED BY <1>3, <2>1
<1> HIDE DEF g
<1>5. PICK a \in [0 .. N -> Nat] :
         /\ a[0] = 0
         /\ \A k \in 1 .. N : a[k] = g[k][a[k - 1]]
         /\ \A x : LoopTable(x, N, 0, g) <=> x = a
  BY <1>0, <1>4, LoopValues
<1>6. ASSUME NEW k \in 1 .. N PROVE a[k] = a[k - 1] + Extra(c, k)
  <2>1. a[k - 1] \in Nat
    BY <1>0
  <2> QED BY <1>4, <1>5, <2>1
<1>7. a = F(a)
  <2>1. \A k \in 0 .. N : a[k] = (IF k = 0 THEN 0 ELSE a[k - 1] + Extra(c, k))
    BY <1>0, <1>5, <1>6
  <2> QED BY <2>1
<1>8. ASSUME NEW x, x = F(x) PROVE LoopTable(x, N, 0, g)
  <2>1. x = [k \in 0 .. N |-> x[k]]
    BY <1>8
  <2>2. ASSUME NEW k \in 0 .. N PROVE x[k] = IF k = 0 THEN 0 ELSE x[k - 1] + Extra(c, k)
    <3>1. F(x)[k] = IF k = 0 THEN 0 ELSE x[k - 1] + Extra(c, k)
      OBVIOUS
    <3> HIDE DEF F
    <3> QED BY <1>8, <3>1
  <2>3. x[0] = 0
    BY <1>0, <2>2
  <2>4. ASSUME NEW k \in 1 .. N, x[k - 1] \in Nat PROVE x[k] = g[k][x[k - 1]]
    <3>1. x[k] = x[k - 1] + Extra(c, k)
      BY <1>0, <2>2
    <3> QED BY <1>4, <2>4, <3>1
  <2> QED BY <2>1, <2>3, <2>4 DEF LoopTable
<1> HIDE DEF F
<1>9. \A x : x = F(x) <=> x = a
  BY <1>5, <1>7, <1>8
<1>10. (CHOOSE x : x = F(x)) = a
  BY <1>9
<1> QED BY <1>1, <1>5, <1>6, <1>10 DEF N

LEMMA NothingCollected ==
    ASSUME NEW c, c = [i \in 0 .. num_packets - 1 |-> 0]
    PROVE  c \in Collections /\ DuplicatesOf(c) = 0 /\ UniqueOf(c) = 0
<1> DEFINE N == num_packets
<1>0. N \in Nat
  BY LinkAssumption
<1>1. c \in Collections
  BY DEF Collections
<1>2. PICK a \in [0 .. N -> Nat] :
         /\ a[0] = 0 /\ \A k \in 1 .. N : a[k] = a[k - 1] + Extra(c, k)
         /\ DuplicatesOf(c) = a[N]
  BY <1>1, DuplicatesTable
<1>3. \A k \in 1 .. N : Extra(c, k) = 0
  BY <1>0 DEF Extra
<1> DEFINE D == {k \in 0 .. N : a[k] # 0}
<1>4. D = {}
  <2> SUFFICES ASSUME D # {} PROVE FALSE
    OBVIOUS
  <2>1. D \subseteq 0 .. N /\ 0 \notin D
    BY <1>2
  <2> HIDE DEF D
  <2>2. PICK m \in 1 .. N : m \in D /\ \A k \in 0 .. m - 1 : k \notin D
    BY <1>0, <2>1, LeastOf
  <2>3. m - 1 \in 0 .. N /\ m - 1 \in 0 .. m - 1
    BY <1>0
  <2>4. a[m - 1] = 0 /\ a[m] # 0
    BY <2>2, <2>3 DEF D
  <2>5. a[m] = a[m - 1] + Extra(c, m)
    BY <1>2
  <2>6. Extra(c, m) = 0
    BY <1>3
  <2> QED BY <2>4, <2>5, <2>6
<1>5. DuplicatesOf(c) = 0
  <2>1. N \in 0 .. N
    BY <1>0
  <2> QED BY <1>2, <1>4, <2>1
<1>6. {i \in DOMAIN c : c[i] # 0} = {}
  OBVIOUS
<1> QED BY <1>1, <1>5, <1>6, FS_EmptySet DEF UniqueOf

\* A packet that was collected once more is a first copy or a duplicate.
LEMMA OneMoreCollected ==
    ASSUME NEW c \in Collections, NEW p \in 0 .. num_packets - 1,
           NEW d, d = [c EXCEPT ![p] = @ + 1]
    PROVE  /\ d \in Collections
           /\ {UniqueOf(c), DuplicatesOf(c)} \subseteq Nat
           /\ UniqueOf(d) + DuplicatesOf(d) = UniqueOf(c) + DuplicatesOf(c) + 1
<1> DEFINE N == num_packets
<1>0. N \in Nat /\ p \in Nat
  BY LinkAssumption
<1>1. /\ d \in Collections /\ c[p] \in Nat /\ d[p] = c[p] + 1
      /\ \A i \in 0 .. N - 1 : i # p => d[i] = c[i]
      /\ DOMAIN c = 0 .. N - 1 /\ DOMAIN d = 0 .. N - 1
  BY DEF Collections
<1>2. PICK a \in [0 .. N -> Nat] :
         /\ a[0] = 0 /\ \A k \in 1 .. N : a[k] = a[k - 1] + Extra(c, k)
         /\ DuplicatesOf(c) = a[N]
  BY DuplicatesTable
<1>3. PICK b \in [0 .. N -> Nat] :
         /\ b[0] = 0 /\ \A k \in 1 .. N : b[k] = b[k - 1] + Extra(d, k)
         /\ DuplicatesOf(d) = b[N]
  BY <1>1, DuplicatesTable
<1> DEFINE more == IF c[p] = 0 THEN 0 ELSE 1
           add(k) == IF k > p THEN more ELSE 0
           D == {k \in 0 .. N : b[k] # a[k] + add(k)}
<1>4. ASSUME NEW k \in 1 .. N
      PROVE  Extra(d, k) = Extra(c, k) + (IF k = p + 1 THEN more ELSE 0) /\ Extra(c, k) \in Nat
  <2>1. k - 1 \in 0 .. N - 1 /\ (k = p + 1 <=> k - 1 = p)
    BY <1>0
  <2>2. c[k - 1] \in Nat
    BY <2>1 DEF Collections
  <2>3. CASE k = p + 1
    BY <1>1, <2>1, <2>2, <2>3 DEF Extra
  <2>4. CASE k # p + 1
    BY <1>1, <2>1, <2>2, <2>4 DEF Extra
  <2> QED BY <2>3, <2>4
<1>5. more \in Nat
  OBVIOUS
<1> HIDE DEF more
<1>6. D = {}
  <2> SUFFICES ASSUME D # {} PROVE FALSE
    OBVIOUS
  <2>1. D \subseteq 0 .. N /\ 0 \notin D
    BY <1>0, <1>2, <1>3
  <2> HIDE DEF D
  <2>2. PICK m \in 1 .. N : m \in D /\ \A k \in 0 .. m - 1 : k \notin D
    BY <1>0, <2>1, LeastOf
  <2>3. m - 1 \in 0 .. N /\ m - 1 \in 0 .. m - 1 /\ m \in 0 .. N
    BY <1>0
  <2>4. b[m - 1] = a[m - 1] + add(m - 1) /\ b[m] # a[m] + add(m)
    BY <2>2, <2>3 DEF D
  <2>5. a[m] = a[m - 1] + Extra(c, m) /\ b[m] = b[m - 1] + Extra(d, m)
    BY <1>2, <1>3
  <2>6. {a[m], a[m - 1], b[m], b[m - 1]} \subseteq Nat
    BY <2>3
  <2>7. add(m) = add(m - 1) + (IF m = p + 1 THEN more ELSE 0)
    BY <1>0, <1>5
  <2>8. add(m - 1) \in Nat
    BY <1>5
  <2> HIDE DEF add
  <2> QED BY <1>4, <1>5, <2>4, <2>5, <2>6, <2>7, <2>8
<1>7. DuplicatesOf(d) = DuplicatesOf(c) + more /\ DuplicatesOf(c) \in Nat
  <2>1. N \in 0 .. N /\ N > p
    BY <1>0
  <2>2. b[N] = a[N] + add(N) /\ add(N) = more /\ a[N] \in Nat
    BY <1>6, <2>1
  <2> QED BY <1>2, <1>3, <2>2
<1> DEFINE U == {i \in 0 .. N - 1 : c[i] # 0}
           V == {i \in 0 .. N - 1 : d[i] # 0}
<1>8. IsFiniteSet(U)
  <2>1. 0 \in Int /\ N - 1 \in Int
    BY <1>0
  <2>2. IsFiniteSet(0 .. N - 1)
    BY <2>1, FS_Interval
  <2>3. U \in SUBSET (0 .. N - 1)
    OBVIOUS
  <2> QED BY <2>2, <2>3, FS_Subset
<1>9. V = U \cup {p} /\ (p \in U <=> c[p] # 0)
  BY <1>1
<1>10. UniqueOf(c) = Cardinality(U) /\ UniqueOf(d) = Cardinality(V)
  BY <1>1 DEF UniqueOf
<1> HIDE DEF U, V
<1>11. Cardinality(U) \in Nat
  BY <1>8, FS_CardinalityType
<1>12. Cardinality(V) = IF p \in U THEN Cardinality(U) ELSE Cardinality(U) + 1
  BY <1>8, <1>9, FS_AddElement
<1>13. UniqueOf(d) + more = UniqueOf(c) + 1
  BY <1>9, <1>10, <1>11, <1>12 DEF more
<1>14. UniqueOf(d) \in Nat /\ UniqueOf(c) \in Nat
  BY <1>10, <1>11, <1>12
<1> QED BY <1>1, <1>5, <1>7, <1>13, <1>14

-----------------------------------------------------------------------------
(* The evaluator: what the invariant says.                                 *)

Early == {"generating", "generated"}
Files == [sent : Frames, bits : Seq({0, 1})]
Messages == [file : Nat, bits : Seq({0, 1})]

\* Nothing was evaluated yet.
Idle ==
    /\ decoding = <<>> /\ corrected = <<>>
    /\ sink.wrong_length = 0 /\ sink.erroneous = 0 /\ sink.correct = 0
    /\ sink.collected = [i \in 0 .. num_packets - 1 |-> 0]

\* What waits at the decoder is a trimmed file that was read.
Waiting(m) ==
    /\ m.file \in Read
    /\ folder[m.file].bits \in Recorded
    /\ m.bits = pdu_trim_uvector(folder[m.file].bits)

EvalTypes ==
    /\ phase \in Early \cup {"evaluating", "reported"}
    /\ faults \in Nat
    /\ folder \in Seq(Files)
    /\ unread \subseteq DOMAIN folder
    /\ corrected \in Seq(Seq(Nat))
    /\ decoding \in Seq(Messages)
    /\ \A k \in 1 .. Len(decoding) : Waiting(decoding[k])
    /\ sink \in [all : Nat, wrong_length : Nat, erroneous : Nat, correct : Nat,
                 collected : Collections]
    /\ phase \in Early => Idle /\ unread = {}
    /\ statistics = IF phase = "reported" THEN evaluate_statistics ELSE None

\* The files that deserve to be called erroneous, and those in which packet i was
\* heard.
Bad ==
    {f \in DOMAIN folder : \/ folder[f].bits # folder[f].sent
                           \/ \A i \in 0 .. num_packets - 1 : folder[f].sent # Frame(i)}
HeardOf(i) ==
    {f \in DOMAIN folder : \E bits \in {folder[f].bits, folder[f].sent} :
        SubSeq(bits, FrameLength - packet_len + 1, Len(bits)) = Payload(i)}

\* The messages at the decoder that come from some files.
From(F) == {m \in Messages : m.file \in F}

\* n messages were judged to be in A; with those that wait for it or may turn out
\* to be, they are no more than the files of F that were read.
Credit(n, A, F) ==
    n + CountIn(corrected, A) + CountIn(decoding, From(F)) <= Cardinality(F \ unread)

CreditInv ==
    /\ sink.wrong_length + CountIn(corrected, WrongLength) <= faults
    /\ Credit(sink.erroneous, Erroneous, Bad)
    /\ \A i \in 0 .. num_packets - 1 : Credit(sink.collected[i], Numbered(i), HeardOf(i))
    /\ Credit(sink.correct + sink.wrong_length + sink.erroneous, Seq(Nat), DOMAIN folder)
    /\ sink.correct = UniqueOf(sink.collected) + DuplicatesOf(sink.collected)

\* A packet that was sent and not damaged is on its way to its counter, unless a
\* fault took it.
Intact(i) == {f \in DOMAIN folder : folder[f].sent = Frame(i) /\ folder[f].bits = Frame(i)}
Candidates == IF phase \in Early THEN DOMAIN folder ELSE unread
Found(i) ==
    \/ sink.collected[i] # 0
    \/ \E k \in 1 .. Len(corrected) : corrected[k] \in Numbered(i)
    \/ \E k \in 1 .. Len(decoding) : decoding[k].file \in Intact(i)
    \/ Candidates \cap Intact(i) # {}
Lost ==
    {i \in 0 .. num_packets - 1 :
        (\E f \in DOMAIN folder : folder[f].sent = Frame(i)) /\ ~Found(i)}
LostInv == Cardinality(Lost) <= faults

EvalInv == EvalTypes /\ CreditInv /\ LostInv

-----------------------------------------------------------------------------
(* Facts about it.                                                         *)

LEMMA FileFacts ==
    ASSUME EvalTypes
    PROVE  /\ Len(folder) \in Nat /\ DOMAIN folder = 1 .. Len(folder)
           /\ \A f \in DOMAIN folder :
                 /\ folder[f] \in Files /\ f \in Nat
                 /\ folder[f].sent \in Frames /\ folder[f].sent \in Recorded
                 /\ folder[f].bits \in Seq({0, 1})
<1>1. folder \in Seq(Files)
  BY DEF EvalTypes
<1>2. Len(folder) \in Nat /\ DOMAIN folder = 1 .. Len(folder)
  BY <1>1
<1>3. \A f \in 1 .. Len(folder) : folder[f] \in Files
  BY <1>1, ElementOfSeq
<1>4. \A x \in Frames : x \in Recorded
  BY TrimmedFrame DEF Frames
<1>5. \A r \in Files : r.sent \in Frames /\ r.bits \in Seq({0, 1})
  BY DEF Files
<1> QED BY <1>2, <1>3, <1>4, <1>5

\* Sets of files are finite.
LEMMA FilesCount ==
    ASSUME EvalTypes, NEW F, F \subseteq DOMAIN folder
    PROVE  IsFiniteSet(F) /\ Cardinality(F) \in Nat
BY FileFacts, SubsetOfInterval

\* A file whose packet may be judged to be in A belongs to F: as it was recorded,
\* as the decoder repairs it, and cut short by the decoder.
Cut(t) == SubSeq(t, 1, Len(t) - ByteBits)

Fits(A, F) ==
    /\ F \subseteq DOMAIN folder
    /\ \A f \in DOMAIN folder :
          /\ pack_bits(pdu_trim_uvector(folder[f].sent)) \in A => f \in F
          /\ folder[f].bits \in Recorded =>
                /\ pack_bits(pdu_trim_uvector(folder[f].bits)) \in A => f \in F
                /\ pack_bits(Cut(pdu_trim_uvector(folder[f].bits))) \in A => f \in F

LEMMA CutWrong ==
    ASSUME NEW bits \in Recorded
    PROVE  pack_bits(Cut(pdu_trim_uvector(bits))) \in WrongLength
BY CutIsWrong DEF Cut

LEMMA VerdictsDiffer ==
    /\ WrongLength \cap Erroneous = {}
    /\ \A i \in 0 .. num_packets - 1 : /\ WrongLength \cap Numbered(i) = {}
                                       /\ Erroneous \cap Numbered(i) = {}
<1>1. num_packets \in Nat
  BY LinkAssumption
<1>2. \A i \in 0 .. num_packets - 1 : i \in Nat /\ i # -1 /\ ~(i > num_packets - 1)
  BY <1>1
<1> QED BY <1>2 DEF WrongLength, Erroneous, Numbered

LEMMA FitsBad ==
    ASSUME EvalTypes
    PROVE  Fits(Erroneous, Bad)
<1>1. Bad \subseteq DOMAIN folder
  BY DEF Bad
<1>2. ASSUME NEW f \in DOMAIN folder, f \notin Bad
      PROVE  /\ folder[f].bits = folder[f].sent
             /\ pack_bits(pdu_trim_uvector(folder[f].sent)) \notin Erroneous
  <2>1. folder[f].bits = folder[f].sent
    BY <1>2 DEF Bad
  <2>2. PICK i \in 0 .. num_packets - 1 : folder[f].sent = Frame(i)
    BY <1>2 DEF Bad
  <2>3. pack_bits(pdu_trim_uvector(folder[f].sent)) \in Numbered(i)
    BY <2>2, IntactIsNumbered
  <2> QED BY <2>1, <2>3, VerdictsDiffer
<1>3. ASSUME NEW f \in DOMAIN folder, folder[f].bits \in Recorded
      PROVE  pack_bits(Cut(pdu_trim_uvector(folder[f].bits))) \notin Erroneous
  BY <1>3, CutWrong, VerdictsDiffer
<1> QED BY <1>1, <1>2, <1>3 DEF Fits

LEMMA FitsHeard ==
    ASSUME EvalTypes, NEW i \in 0 .. num_packets - 1
    PROVE  Fits(Numbered(i), HeardOf(i))
<1>0. i \in Nat
  OBVIOUS
<1>1. HeardOf(i) \subseteq DOMAIN folder
  BY DEF HeardOf
<1>2. ASSUME NEW f \in DOMAIN folder, NEW bits \in Recorded,
             bits \in {folder[f].bits, folder[f].sent},
             pack_bits(pdu_trim_uvector(bits)) \in Numbered(i)
      PROVE  f \in HeardOf(i)
  <2>1. SubSeq(bits, FrameLength - packet_len + 1, Len(bits)) = Payload(i)
    BY <1>0, <1>2, NumberedHasPayload
  <2> QED BY <1>2, <2>1 DEF HeardOf
<1>3. ASSUME NEW f \in DOMAIN folder
      PROVE  pack_bits(pdu_trim_uvector(folder[f].sent)) \in Numbered(i) => f \in HeardOf(i)
  <2>1. folder[f].sent \in Recorded
    BY FileFacts
  <2> QED BY <1>2, <2>1
<1>4. ASSUME NEW f \in DOMAIN folder, folder[f].bits \in Recorded
      PROVE  /\ pack_bits(pdu_trim_uvector(folder[f].bits)) \in Numbered(i) => f \in HeardOf(i)
             /\ pack_bits(Cut(pdu_trim_uvector(folder[f].bits))) \notin Numbered(i)
  <2>1. pack_bits(Cut(pdu_trim_uvector(folder[f].bits))) \notin Numbered(i)
    BY <1>4, CutWrong, VerdictsDiffer
  <2> QED BY <1>2, <1>4, <2>1
<1> QED BY <1>1, <1>3, <1>4 DEF Fits

LEMMA FitsAll == Fits(Seq(Nat), DOMAIN folder)
BY DEF Fits

\* While nothing was evaluated, there is nothing to account for.
LEMMA IdleCredit == EvalTypes /\ Idle => CreditInv
<1> SUFFICES ASSUME EvalTypes, Idle PROVE CreditInv
  OBVIOUS
<1>1. corrected = <<>> /\ decoding = <<>>
  BY DEF Idle
<1>2. ASSUME NEW A, NEW F, F \subseteq DOMAIN folder PROVE Credit(0, A, F)
  <2>1. F \ unread \subseteq DOMAIN folder
    BY <1>2
  <2>2. Cardinality(F \ unread) \in Nat
    BY <2>1, FilesCount
  <2>3. CountIn(corrected, A) = 0 /\ CountIn(decoding, From(F)) = 0
    BY <1>1, CountEmpty
  <2> QED BY <2>2, <2>3 DEF Credit
<1>3. sink.wrong_length + CountIn(corrected, WrongLength) <= faults
  <2>1. CountIn(corrected, WrongLength) = 0
    BY <1>1, CountEmpty
  <2> QED BY <2>1 DEF Idle, EvalTypes
<1>4. Credit(sink.erroneous, Erroneous, Bad)
  <2>1. Bad \subseteq DOMAIN folder /\ sink.erroneous = 0
    BY DEF Bad, Idle
  <2> QED BY <1>2, <2>1
<1>5. ASSUME NEW i \in 0 .. num_packets - 1
      PROVE  Credit(sink.collected[i], Numbered(i), HeardOf(i))
  <2>1. HeardOf(i) \subseteq DOMAIN folder /\ sink.collected[i] = 0
    BY DEF HeardOf, Idle
  <2> QED BY <1>2, <2>1
<1>6. Credit(sink.correct + sink.wrong_length + sink.erroneous, Seq(Nat), DOMAIN folder)
  <2>1. sink.correct + sink.wrong_length + sink.erroneous = 0
    BY DEF Idle
  <2> QED BY <1>2, <2>1
<1>7. sink.correct = UniqueOf(sink.collected) + DuplicatesOf(sink.collected)
  BY NothingCollected DEF Idle
<1> QED BY <1>3, <1>4, <1>5, <1>6, <1>7 DEF CreditInv

\* What a step does to the number of lost packets: nothing new, or with a fault the
\* packet of one frame.
LEMMA LostBound ==
    ASSUME NEW S, S \subseteq 0 .. num_packets - 1, NEW n \in Nat, Cardinality(S) <= n,
           NEW T, T \subseteq 0 .. num_packets - 1, NEW m \in Nat, NEW x,
           \/ T \subseteq S /\ n <= m
           \/ T \subseteq S \cup {i \in 0 .. num_packets - 1 : Frame(i) = x} /\ n + 1 <= m
    PROVE  Cardinality(T) <= m
<1> DEFINE I == 0 .. num_packets - 1
           X == {i \in I : Frame(i) = x}
<1>1. ASSUME NEW U, U \subseteq I PROVE IsFiniteSet(U) /\ Cardinality(U) \in Nat
  <2>1. 0 \in Int /\ num_packets - 1 \in Int
    BY LinkAssumption
  <2>2. IsFiniteSet(I)
    BY <2>1, FS_Interval
  <2>3. IsFiniteSet(U)
    BY <1>1, <2>2, FS_Subset
  <2> QED BY <2>3, FS_CardinalityType
<1>2. IsFiniteSet(S) /\ Cardinality(S) \in Nat
  BY <1>1
<1>3. CASE T \subseteq S /\ n <= m
  <2>1. Cardinality(T) <= Cardinality(S)
    BY <1>2, <1>3, FS_Subset
  <2>2. Cardinality(T) \in Nat
    BY <1>1
  <2> QED BY <1>2, <1>3, <2>1, <2>2
<1>4. CASE T \subseteq S \cup X /\ n + 1 <= m
  <2>1. CASE X = {}
    <3>1. T \subseteq S
      BY <1>4, <2>1
    <3>2. Cardinality(T) <= Cardinality(S)
      BY <1>2, <3>1, FS_Subset
    <3>3. Cardinality(T) \in Nat
      BY <1>1
    <3> QED BY <1>2, <1>4, <3>2, <3>3
  <2>2. CASE X # {}
    <3>1. PICK p \in I : Frame(p) = x
      BY <2>2
    <3>2. X = {p}
      BY <3>1, FrameInjective
    <3>3. T \subseteq S \cup {p} /\ S \cup {p} \subseteq I
      BY <1>4, <3>1, <3>2
    <3>4. Cardinality(S \cup {p}) <= Cardinality(S) + 1 /\ IsFiniteSet(S \cup {p})
      BY <1>2, FS_AddElement
    <3>5. Cardinality(T) <= Cardinality(S \cup {p})
      BY <3>3, <3>4, FS_Subset
    <3>6. Cardinality(T) \in Nat /\ Cardinality(S \cup {p}) \in Nat
      BY <1>1, <3>3
    <3> QED BY <1>2, <1>4, <3>4, <3>5, <3>6
  <2> QED BY <2>1, <2>2
<1> QED BY <1>3, <1>4

-----------------------------------------------------------------------------
(* Steps of the evaluator.                                                 *)

Sinks == [all : Nat, wrong_length : Nat, erroneous : Nat, correct : Nat,
          collected : Collections]

\* The inequality of Credit after a step.
After(n, A, F) ==
    n + CountIn(corrected', A) + CountIn(decoding', From(F)) <= Cardinality(F \ unread')

\* The invariant after a step that leaves the folder as it is.
LEMMA CreditAfter ==
    ASSUME folder' = folder,
           sink'.wrong_length + CountIn(corrected', WrongLength) <= faults',
           After(sink'.erroneous, Erroneous, Bad),
           \A i \in 0 .. num_packets - 1 : After(sink'.collected[i], Numbered(i), HeardOf(i)),
           After(sink'.correct + sink'.wrong_length + sink'.erroneous, Seq(Nat), DOMAIN folder),
           sink'.correct = UniqueOf(sink'.collected) + DuplicatesOf(sink'.collected)
    PROVE  CreditInv'
<1>1. Bad' = Bad
  BY DEF Bad
<1>2. \A i \in 0 .. num_packets - 1 : HeardOf(i)' = HeardOf(i)
  BY DEF HeardOf
<1>3. (Credit(sink.erroneous, Erroneous, Bad))'
  BY <1>1 DEF Credit, After
<1>4. ASSUME NEW i \in 0 .. num_packets - 1
      PROVE  (Credit(sink.collected[i], Numbered(i), HeardOf(i)))'
  <2>1. After(sink'.collected[i], Numbered(i), HeardOf(i)) /\ HeardOf(i)' = HeardOf(i)
    BY <1>2
  <2> QED BY <2>1 DEF Credit, After
<1>5. (Credit(sink.correct + sink.wrong_length + sink.erroneous, Seq(Nat), DOMAIN folder))'
  BY DEF Credit, After
<1> QED BY <1>3, <1>4, <1>5 DEF CreditInv

LEMMA TypesAfter ==
    ASSUME EvalTypes, phase = "evaluating", phase' = phase, statistics' = statistics,
           folder' = folder, faults' \in Nat, unread' \subseteq unread,
           corrected' \in Seq(Seq(Nat)), decoding' \in Seq(Messages),
           \A k \in 1 .. Len(decoding') :
              \/ Waiting(decoding'[k])
              \/ /\ decoding'[k].file \in unread \ unread'
                 /\ folder[decoding'[k].file].bits \in Recorded
                 /\ decoding'[k].bits = pdu_trim_uvector(folder[decoding'[k].file].bits),
           sink' \in Sinks
    PROVE  EvalTypes'
<1>1. unread \subseteq DOMAIN folder /\ statistics = None
  BY DEF EvalTypes
<1>2. ASSUME NEW k \in 1 .. Len(decoding') PROVE (Waiting(decoding[k]))'
  <2> DEFINE m == decoding'[k]
  <2>1. \/ Waiting(m)
        \/ /\ m.file \in unread \ unread' /\ folder[m.file].bits \in Recorded
           /\ m.bits = pdu_trim_uvector(folder[m.file].bits)
    OBVIOUS
  <2>2. m.file \in DOMAIN folder \ unread'
    BY <1>1, <2>1 DEF Waiting, Read
  <2>3. folder[m.file].bits \in Recorded /\ m.bits = pdu_trim_uvector(folder[m.file].bits)
    BY <2>1 DEF Waiting
  <2> QED BY <2>2, <2>3 DEF Waiting, Read
<1>3. phase' \notin Early
  BY DEF Early
<1> QED BY <1>1, <1>2, <1>3 DEF EvalTypes, Sinks

\* The packets that are lost after a step: those that were, or with a fault that of
\* one frame.
LEMMA LostAfter ==
    ASSUME EvalTypes, LostInv, faults' \in Nat, NEW x,
           \A i \in 0 .. num_packets - 1 :
              i \in Lost' => \/ i \in Lost
                             \/ Frame(i) = x /\ faults + 1 <= faults',
           faults <= faults'
    PROVE  LostInv'
<1>1. Lost \subseteq 0 .. num_packets - 1 /\ Lost' \subseteq 0 .. num_packets - 1
  BY DEF Lost
<1>2. faults \in Nat /\ Cardinality(Lost) <= faults
  BY DEF EvalTypes, LostInv
<1>3. \/ Lost' \subseteq Lost /\ faults <= faults'
      \/ Lost' \subseteq Lost \cup {i \in 0 .. num_packets - 1 : Frame(i) = x} /\ faults + 1 <= faults'
  BY <1>1
<1> HIDE DEF Lost
<1>4. Cardinality(Lost') <= faults'
  BY <1>1, <1>2, <1>3, LostBound
<1> QED BY <1>4 DEF LostInv

\* So it is enough to look at the packets that were found.
LEMMA FoundAfter ==
    ASSUME EvalTypes, LostInv, faults' \in Nat, faults <= faults', folder' = folder, NEW x,
           \A i \in 0 .. num_packets - 1 :
              Found(i) => \/ Found(i)'
                          \/ Frame(i) = x /\ faults + 1 <= faults'
    PROVE  LostInv'
<1>1. ASSUME NEW i \in 0 .. num_packets - 1, i \in Lost'
      PROVE  \/ i \in Lost
             \/ Frame(i) = x /\ faults + 1 <= faults'
  <2>1. ~Found(i)' /\ \E f \in DOMAIN folder : folder[f].sent = Frame(i)
    BY <1>1 DEF Lost
  <2> QED BY <2>1 DEF Lost
<1> QED BY <1>1, LostAfter

\* The report is a function of the counters.
LEMMA ReportOf ==
    /\ Duplicates = DuplicatesOf(sink.collected)
    /\ sink' = sink => evaluate_statistics' = evaluate_statistics
<1>1. Duplicates = DuplicatesOf(sink.collected)
  BY DEF Duplicates, DuplicatesOf
<1>2. Duplicates' = DuplicatesOf(sink'.collected)
  BY DEF Duplicates, DuplicatesOf
<1>3. ASSUME sink' = sink PROVE evaluate_statistics' = evaluate_statistics
  <2>1. Duplicates' = Duplicates
    BY <1>1, <1>2, <1>3
  <2> QED BY <1>3, <2>1 DEF evaluate_statistics
<1> QED BY <1>1, <1>3

LEMMA EvalInit == Init => EvalInv
<1> SUFFICES ASSUME Init PROVE EvalInv
  OBVIOUS
<1>1. /\ phase = "generating" /\ folder = <<>> /\ unread = {} /\ faults = 0
      /\ decoding = <<>> /\ corrected = <<>> /\ statistics = None
      /\ sink = [all |-> 0, wrong_length |-> 0, erroneous |-> 0, correct |-> 0,
                 collected |-> [i \in 0 .. num_packets - 1 |-> 0]]
  BY DEF Init
<1>2. Idle
  BY <1>1 DEF Idle
<1>3. sink \in Sinks
  <2>1. [i \in 0 .. num_packets - 1 |-> 0] \in Collections
    BY NothingCollected
  <2> QED BY <1>1, <2>1 DEF Sinks
<1>4. EvalTypes
  <2>1. phase \in Early
    BY <1>1 DEF Early
  <2>2. folder \in Seq(Files) /\ corrected \in Seq(Seq(Nat)) /\ decoding \in Seq(Messages)
    BY <1>1
  <2>3. \A k \in 1 .. Len(decoding) : Waiting(decoding[k])
    BY <1>1
  <2> QED BY <1>1, <1>2, <1>3, <2>1, <2>2, <2>3 DEF EvalTypes, Sinks
<1>5. CreditInv
  BY <1>2, <1>4, IdleCredit
<1>6. LostInv
  <2>1. Lost = {}
    BY <1>1 DEF Lost
  <2> QED BY <1>1, <2>1, FS_EmptySet DEF LostInv
<1> QED BY <1>4, <1>5, <1>6 DEF EvalInv

\* Steps that move no packet: those of the generator, the counter of the port
\* "all", and the operator who ends a flowgraph.
Quiet ==
    /\ UNCHANGED <<folder, faults, unread, decoding, corrected>>
    /\ \/ UNCHANGED <<phase, sink, statistics>>
       \/ phase = "generating" /\ phase' = "generated" /\ UNCHANGED <<sink, statistics>>
       \/ /\ phase = "evaluating" /\ UNCHANGED <<phase, statistics>>
          /\ sink' = [sink EXCEPT !.all = @ + 1]
       \/ /\ phase = "evaluating" /\ phase' = "reported" /\ UNCHANGED sink
          /\ statistics' = evaluate_statistics

LEMMA QuietStep ==
    ASSUME EvalInv, Quiet
    PROVE  EvalInv'
<1>0. EvalTypes /\ CreditInv /\ LostInv
  BY DEF EvalInv
<1>1. UNCHANGED <<folder, faults, unread, decoding, corrected>>
  BY DEF Quiet
<1>2. /\ sink' \in Sinks
      /\ sink'.wrong_length = sink.wrong_length /\ sink'.erroneous = sink.erroneous
      /\ sink'.correct = sink.correct /\ sink'.collected = sink.collected
  <2>1. sink \in Sinks
    BY <1>0 DEF EvalTypes, Sinks
  <2>2. CASE sink' = sink
    BY <2>1, <2>2
  <2>3. CASE sink' = [sink EXCEPT !.all = @ + 1]
    BY <2>1, <2>3 DEF Sinks
  <2> QED BY <2>2, <2>3 DEF Quiet
<1>3. phase' \in Early <=> phase \in Early
  BY DEF Quiet, Early
<1>4. phase' \in Early \cup {"evaluating", "reported"}
  BY <1>0 DEF Quiet, Early, EvalTypes
<1>5. (statistics = IF phase = "reported" THEN evaluate_statistics ELSE None)'
  <2>1. statistics = IF phase = "reported" THEN evaluate_statistics ELSE None
    BY <1>0 DEF EvalTypes
  <2>2. sink' = sink => evaluate_statistics' = evaluate_statistics
    BY ReportOf
  <2> QED BY <2>1, <2>2 DEF Quiet
<1>6. \A k \in 1 .. Len(decoding) : Waiting(decoding[k])'
  <2>1. \A k \in 1 .. Len(decoding) : Waiting(decoding[k])
    BY <1>0 DEF EvalTypes
  <2> QED BY <1>1, <2>1 DEF Waiting, Read
<1>7. (phase \in Early => Idle /\ unread = {})'
  <2>1. phase \in Early => Idle /\ unread = {}
    BY <1>0 DEF EvalTypes
  <2> QED BY <1>1, <1>2, <1>3, <2>1 DEF Idle
<1>8. EvalTypes'
  BY <1>0, <1>1, <1>2, <1>4, <1>5, <1>6, <1>7 DEF EvalTypes, Sinks
<1>9. CreditInv'
  <2>1. ASSUME NEW n, NEW A, NEW F, Credit(n, A, F) PROVE After(n, A, F)
    BY <1>1, <2>1 DEF Credit, After
  <2> QED BY <1>0, <1>1, <1>2, <2>1, CreditAfter DEF CreditInv
<1>10. LostInv'
  <2>1. \A i \in 0 .. num_packets - 1 : Found(i) => Found(i)'
    <3>1. Candidates' = Candidates
      BY <1>1, <1>3 DEF Candidates
    <3>2. \A i \in 0 .. num_packets - 1 : Intact(i)' = Intact(i)
      BY <1>1 DEF Intact
    <3> QED BY <1>1, <1>2, <3>1, <3>2 DEF Found
  <2>2. faults' \in Nat /\ faults <= faults'
    BY <1>0, <1>1 DEF EvalTypes
  <2> QED BY <1>0, <1>1, <2>1, <2>2, FoundAfter
<1> QED BY <1>8, <1>9, <1>10 DEF EvalInv

LEMMA IdleCreditAfter == EvalTypes' /\ Idle' => CreditInv'
BY IdleCredit, PTL

\* The receiver records bits, whatever the channel does to them.
LEMMA FilesRecorded ==
    ASSUME NEW bits \in Recorded, NEW files \in Recordings(bits)
    PROVE  files \in Seq(Seq({0, 1}))
<1> DEFINE B == Seq({0, 1})
<1>1. bits \in B
  BY DEF Recorded
<1>2. SubSeq(bits, 1, Len(bits) - ByteBits) \in B
  <2>1. Len(bits) \in Nat /\ ByteBits \in Nat /\ Len(bits) >= ByteBits
    BY FrameLengthIs DEF Recorded
  <2> QED BY <1>1, <2>1
<1>3. ASSUME NEW k \in 1 .. Len(bits) PROVE Flip(bits, k) \in B
  <2>1. bits[k] \in {0, 1}
    BY <1>1
  <2>2. 1 - bits[k] \in {0, 1}
    BY <2>1
  <2> QED BY <1>1, <2>2 DEF Flip
<1> HIDE DEF B
<1>4. \A s \in B : <<s>> \in Seq(B) /\ <<s, s>> \in Seq(B)
  OBVIOUS
<1>5. <<>> \in Seq(B)
  OBVIOUS
<1>6. files \in {<<bits>>, <<>>, <<bits, bits>>, <<SubSeq(bits, 1, Len(bits) - ByteBits)>>}
                  \cup {<<Flip(bits, k)>> : k \in FlipAt \cap 1 .. Len(bits)}
  BY DEF Recordings
<1>7. CASE files \in {<<Flip(bits, k)>> : k \in FlipAt \cap 1 .. Len(bits)}
  <2>1. PICK k \in 1 .. Len(bits) : files = <<Flip(bits, k)>>
    BY <1>7
  <2> QED BY <1>3, <1>4, <2>1 DEF B
<1>8. CASE files \in {<<bits>>, <<>>, <<bits, bits>>, <<SubSeq(bits, 1, Len(bits) - ByteBits)>>}
  BY <1>1, <1>2, <1>4, <1>5, <1>8 DEF B
<1> QED BY <1>6, <1>7, <1>8

\* The receiver: the files of a frame, or with a fault what else may become of it.
LEMMA ReceiveStep ==
    ASSUME GenInv, EvalInv, Receive
    PROVE  EvalInv'
<1> DEFINE x == Head(air)
<1>0. EvalTypes /\ CreditInv /\ LostInv
  BY DEF EvalInv
<1>1. /\ phase \in Early /\ phase' = phase /\ air # <<>>
      /\ UNCHANGED <<unread, decoding, corrected, sink, statistics>>
  BY DEF Receive, Early, evaluatorVars
<1>2. x \in Frames /\ x \in Recorded
  <2>1. air \in Seq(Frames)
    BY DEF GenInv, NumberInv
  <2>2. x \in Frames
    BY <1>1, <2>1
  <2> QED BY <2>2, TrimmedFrame DEF Frames
<1> DEFINE new(files) == [f \in DOMAIN files |-> [sent |-> x, bits |-> files[f]]]
<1>3. PICK files \in Recordings(x) :
         /\ folder' = folder \o new(files)
         /\ IF files = <<x>> THEN faults' = faults ELSE faults' = faults + 1
  <2>1. PICK files \in Recordings(x) :
           LET fault == IF files = <<x>> THEN 0 ELSE 1
           IN  faults' = faults + fault /\ folder' = folder \o new(files)
    BY DEF Receive
  <2>2. faults + 0 = faults
    BY <1>0 DEF EvalTypes
  <2> QED BY <2>1, <2>2
<1> DEFINE s == new(files)
           n == Len(folder)
           m == Len(files)
<1>4. files \in Seq(Seq({0, 1})) /\ m \in Nat /\ DOMAIN files = 1 .. m
  BY <1>2, FilesRecorded
<1>5. /\ s \in Seq(Files) /\ Len(s) = m
      /\ \A f \in 1 .. m : s[f].sent = x /\ s[f].bits = files[f]
  <2>1. \A f \in 1 .. m : files[f] \in Seq({0, 1})
    BY <1>4, ElementOfSeq
  <2>2. \A f \in 1 .. m : [sent |-> x, bits |-> files[f]] \in Files
    BY <1>2, <2>1 DEF Files
  <2>3. s = [f \in 1 .. m |-> [sent |-> x, bits |-> files[f]]]
    BY <1>4
  <2> HIDE DEF s, m
  <2>4. \A f \in 1 .. m : s[f] = [sent |-> x, bits |-> files[f]]
    BY <2>3
  <2>5. s \in Seq(Files) /\ Len(s) = m
    <3>1. s = [f \in 1 .. m |-> s[f]] /\ \A f \in 1 .. m : s[f] \in Files
      BY <2>2, <2>3, <2>4
    <3> QED BY <1>4, <3>1, AnySequence
  <2> QED BY <2>4, <2>5
<1>6. folder \in Seq(Files) /\ n \in Nat /\ DOMAIN folder = 1 .. n
  BY <1>0, FileFacts DEF EvalTypes
<1> HIDE DEF x, s, m
<1>7. /\ folder' \in Seq(Files) /\ DOMAIN folder' = 1 .. n + m
      /\ \A f \in 1 .. n : f \in DOMAIN folder' /\ folder'[f] = folder[f]
      /\ \A f \in 1 .. m : n + f \in DOMAIN folder' /\ folder'[n + f] = s[f]
  <2>1. folder' = folder \o s
    BY <1>3 DEF s, x
  <2>2. folder \o s \in Seq(Files) /\ Len(folder \o s) = n + m
    BY <1>5, <1>6
  <2>3. folder \o s = [i \in 1 .. n + m |-> IF i <= n THEN folder[i] ELSE s[i - n]]
    BY <1>5, <1>6, ConcatIs
  <2>4. \A f \in 1 .. n : f \in 1 .. n + m /\ folder'[f] = folder[f]
    BY <1>4, <1>6, <2>1, <2>3
  <2>5. ASSUME NEW f \in 1 .. m PROVE n + f \in 1 .. n + m /\ folder'[n + f] = s[f]
    <3>1. n + f \in 1 .. n + m /\ ~(n + f <= n) /\ (n + f) - n = f
      BY <1>4, <1>6
    <3> QED BY <2>1, <2>3, <3>1
  <2>6. DOMAIN folder' = 1 .. n + m
    BY <2>1, <2>3
  <2> QED BY <2>1, <2>2, <2>4, <2>5, <2>6
<1>8. faults \in Nat /\ faults' \in Nat /\ faults <= faults' /\ (files # <<x>> => faults + 1 <= faults')
  BY <1>0, <1>3 DEF EvalTypes, x
<1>9. unread = {} /\ Idle
  BY <1>0, <1>1 DEF EvalTypes
<1>10. Idle'
  BY <1>1, <1>9 DEF Idle
<1>11. EvalTypes'
  <2>1. corrected = <<>> /\ decoding = <<>>
    BY <1>9 DEF Idle
  <2>2. \A k \in 1 .. Len(decoding') : Waiting(decoding[k])'
    BY <1>1, <2>1
  <2>3. statistics' = None /\ phase' # "reported"
    BY <1>0, <1>1 DEF EvalTypes, Early
  <2>4. unread' = {} /\ phase' \in Early
    BY <1>1, <1>9
  <2> QED BY <1>0, <1>1, <1>7, <1>8, <1>10, <2>2, <2>3, <2>4 DEF EvalTypes
<1>12. CreditInv'
  BY <1>10, <1>11, IdleCreditAfter
<1>13. LostInv'
  <2>1. ASSUME NEW i \in 0 .. num_packets - 1, NEW f \in DOMAIN folder', f \in Intact(i)'
        PROVE  Found(i)'
    <3>1. Candidates' = DOMAIN folder'
      BY <1>1 DEF Candidates
    <3> QED BY <2>1, <3>1 DEF Found
  <2>2. ASSUME NEW i \in 0 .. num_packets - 1, Found(i) PROVE Found(i)'
    <3>1. Candidates \cap Intact(i) # {}
      <4>1. Candidates = DOMAIN folder
        BY <1>1 DEF Candidates
      <4> QED BY <1>9, <2>2 DEF Found, Idle
    <3>2. PICK f \in DOMAIN folder : folder[f].sent = Frame(i) /\ folder[f].bits = Frame(i)
      BY <3>1 DEF Intact
    <3>3. f \in DOMAIN folder' /\ folder'[f] = folder[f]
      BY <1>6, <1>7
    <3>4. f \in Intact(i)'
      BY <3>2, <3>3 DEF Intact
    <3> QED BY <2>1, <3>3, <3>4
  <2>3. ASSUME NEW i \in 0 .. num_packets - 1, i \in Lost'
        PROVE  \/ i \in Lost
               \/ Frame(i) = x /\ faults + 1 <= faults'
    <3>1. ~Found(i)' /\ \E f \in DOMAIN folder' : folder'[f].sent = Frame(i)
      BY <2>3 DEF Lost
    <3>2. PICK f \in DOMAIN folder' : folder'[f].sent = Frame(i)
      BY <3>1
    <3>3. CASE f \in 1 .. n
      <4>1. ~Found(i)
        BY <2>2, <3>1
      <4>2. folder[f].sent = Frame(i) /\ f \in DOMAIN folder
        BY <1>6, <1>7, <3>2, <3>3
      <4> QED BY <4>1, <4>2 DEF Lost
    <3>4. CASE f \notin 1 .. n
      <4>1. PICK g \in 1 .. m : f = n + g
        <5>1. f \in 1 .. n + m
          BY <1>7
        <5>2. f - n \in 1 .. m /\ f = n + (f - n)
          BY <1>4, <1>6, <3>4, <5>1
        <5> QED BY <5>2
      <4>2. Frame(i) = x
        BY <1>5, <1>7, <3>2, <4>1
      <4>3. files # <<x>>
        <5> SUFFICES ASSUME files = <<x>> PROVE FALSE
          OBVIOUS
        <5>1. m = 1 /\ g = 1 /\ files[1] = x
          BY <4>1 DEF m
        <5>2. folder'[f].sent = Frame(i) /\ folder'[f].bits = Frame(i)
          BY <1>5, <1>7, <4>1, <4>2, <5>1
        <5>3. f \in Intact(i)'
          BY <5>2 DEF Intact
        <5> QED BY <2>1, <3>1, <5>3
      <4> QED BY <1>8, <4>2, <4>3
    <3> QED BY <3>3, <3>4
  <2> QED BY <1>0, <1>8, <2>3, LostAfter
<1> QED BY <1>11, <1>12, <1>13 DEF EvalInv

\* The evaluator starts: the files of the folder are those it has to read.
LEMMA StartStep ==
    ASSUME EvalInv, StartEvaluator
    PROVE  EvalInv'
<1>0. EvalTypes /\ CreditInv /\ LostInv
  BY DEF EvalInv
<1>1. /\ phase = "generated" /\ phase' = "evaluating" /\ unread' = DOMAIN folder
      /\ UNCHANGED <<folder, faults, decoding, corrected, sink, statistics>>
  BY DEF StartEvaluator, linkVars
<1>2. Idle /\ phase \in Early /\ phase' \notin Early
  BY <1>0, <1>1 DEF EvalTypes, Early
<1>3. Idle'
  BY <1>1, <1>2 DEF Idle
<1>4. EvalTypes'
  <2>1. decoding = <<>>
    BY <1>2 DEF Idle
  <2>2. \A k \in 1 .. Len(decoding') : Waiting(decoding[k])'
    BY <1>1, <2>1
  <2>3. statistics' = None
    BY <1>0, <1>1 DEF EvalTypes
  <2> QED BY <1>0, <1>1, <1>2, <2>2, <2>3 DEF EvalTypes
<1>5. CreditInv'
  BY <1>3, <1>4, IdleCreditAfter
<1>6. \A i \in 0 .. num_packets - 1 : Found(i) => Found(i)'
  <2>1. Candidates = DOMAIN folder /\ Candidates' = DOMAIN folder
    BY <1>1, <1>2 DEF Candidates
  <2>2. \A i \in 0 .. num_packets - 1 : Intact(i)' = Intact(i)
    BY <1>1 DEF Intact
  <2> QED BY <1>1, <2>1, <2>2 DEF Found
<1>7. LostInv'
  <2>1. faults' \in Nat /\ faults <= faults'
    BY <1>0, <1>1 DEF EvalTypes
  <2> QED BY <1>0, <1>1, <1>6, <2>1, FoundAfter
<1> QED BY <1>4, <1>5, <1>7 DEF EvalInv

\* What the decoder publishes for a file, and the sink is given of it.
Outcome(f) ==
    {pack_bits(pdu_trim_uvector(folder[f].bits)), pack_bits(pdu_trim_uvector(folder[f].sent)),
     pack_bits(Cut(pdu_trim_uvector(folder[f].bits)))}

LEMMA OutcomeFits ==
    ASSUME EvalTypes, NEW f \in DOMAIN folder, folder[f].bits \in Recorded,
           NEW arr \in Outcome(f)
    PROVE  /\ arr \in Seq(Nat)
           /\ \A A, F : Fits(A, F) /\ arr \in A => f \in F
<1>1. folder[f].sent \in Recorded
  BY FileFacts
<1>2. arr \in Seq(Nat)
  <2>1. pack_bits(pdu_trim_uvector(folder[f].bits)) \in Seq(Nat)
    BY PackedTrimmed
  <2>2. pack_bits(pdu_trim_uvector(folder[f].sent)) \in Seq(Nat)
    BY <1>1, PackedTrimmed
  <2>3. pack_bits(Cut(pdu_trim_uvector(folder[f].bits))) \in Seq(Nat)
    BY CutWrong DEF WrongLength
  <2> QED BY <2>1, <2>2, <2>3 DEF Outcome
<1>3. ASSUME NEW A, NEW F, Fits(A, F), arr \in A PROVE f \in F
  BY <1>3 DEF Fits, Outcome
<1> QED BY <1>2, <1>3

\* A file that is read: its packet goes to the sink or to the decoder, or its size
\* is wrong.
Reads(f) ==
    /\ f \in unread /\ unread' = unread \ {f} /\ folder' = folder
    /\ \/ /\ folder[f].bits \in Recorded
          /\ corrected' = Append(corrected, pack_bits(pdu_trim_uvector(folder[f].bits)))
          /\ decoding' = decoding
       \/ /\ folder[f].bits \in Recorded
          /\ decoding' = Append(decoding, [file |-> f, bits |-> pdu_trim_uvector(folder[f].bits)])
          /\ corrected' = corrected
       \/ folder[f].bits \notin Recorded /\ corrected' = corrected /\ decoding' = decoding

LEMMA Appended ==
    ASSUME NEW S, NEW q \in Seq(S), NEW x \in S, NEW r, r = Append(q, x)
    PROVE  /\ r \in Seq(S) /\ Len(q) \in Nat /\ Len(r) = Len(q) + 1 /\ r[Len(q) + 1] = x
           /\ \A k \in 1 .. Len(q) : r[k] = q[k]
           /\ \A k \in 1 .. Len(r) : k \in 1 .. Len(q) \/ k = Len(q) + 1
OBVIOUS

LEMMA TrimmedIsBits ==
    ASSUME NEW bits \in Recorded
    PROVE  pdu_trim_uvector(bits) \in Seq({0, 1})
<1> DEFINE t == pdu_trim_uvector(bits)
           n == FrameBytes * ByteBits
<1>1. t \in [1 .. n -> {0, 1}] /\ n \in Nat
  BY Trimmed, FrameLengthIs DEF BitsOf
<1> HIDE DEF t, n
<1>2. t = [k \in 1 .. n |-> t[k]] /\ \A k \in 1 .. n : t[k] \in {0, 1}
  BY <1>1
<1>3. t \in Seq({0, 1})
  BY <1>1, <1>2, AnySequence
<1> QED BY <1>3 DEF t

LEMMA ReadsCredit ==
    ASSUME EvalTypes, NEW f, Reads(f), NEW n \in Nat, NEW A, NEW F, Fits(A, F), Credit(n, A, F)
    PROVE  After(n, A, F)
<1> DEFINE R == F \ unread
           T == F \ unread'
           c == CountIn(corrected, A)
           d == CountIn(decoding, From(F))
<1>1. /\ f \in unread /\ f \in DOMAIN folder /\ f \in Nat /\ unread' = unread \ {f}
      /\ F \subseteq DOMAIN folder
  BY FileFacts DEF EvalTypes, Reads, Fits
<1>2. R \subseteq DOMAIN folder /\ T \subseteq DOMAIN folder
  BY <1>1
<1>3. IsFiniteSet(R) /\ Cardinality(R) \in Nat
  BY <1>2, FilesCount
<1>4. Cardinality(T) = Cardinality(R) + (IF f \in F THEN 1 ELSE 0)
  <2>1. CASE f \in F
    <3>1. T = R \cup {f} /\ f \notin R
      BY <1>1, <2>1
    <3> QED BY <1>3, <2>1, <3>1, FS_AddElement
  <2>2. CASE f \notin F
    <3>1. T = R
      BY <1>1, <2>2
    <3> HIDE DEF T, R
    <3> QED BY <1>3, <2>2, <3>1
  <2> QED BY <2>1, <2>2
<1>5. c \in Nat /\ d \in Nat /\ n + c + d <= Cardinality(R)
  BY CountType DEF Credit, EvalTypes
<1> HIDE DEF R, T, c, d
<1>6. CASE /\ folder[f].bits \in Recorded
           /\ corrected' = Append(corrected, pack_bits(pdu_trim_uvector(folder[f].bits)))
           /\ decoding' = decoding
  <2> DEFINE arr == pack_bits(pdu_trim_uvector(folder[f].bits))
  <2>1. arr \in Outcome(f)
    BY DEF Outcome
  <2>2. arr \in Seq(Nat) /\ (arr \in A => f \in F)
    BY <1>1, <1>6, <2>1, OutcomeFits
  <2> HIDE DEF arr
  <2>3. CountIn(corrected', A) = c + (IF arr \in A THEN 1 ELSE 0)
    <3>1. corrected' = Append(corrected, arr) /\ corrected \in Seq(Seq(Nat))
      BY <1>6 DEF arr, EvalTypes
    <3> QED BY <2>2, <3>1, CountAppend DEF c
  <2>4. CountIn(decoding', From(F)) = d
    BY <1>6 DEF d
  <2> QED BY <1>3, <1>4, <1>5, <2>2, <2>3, <2>4 DEF After, T
<1>7. CASE /\ folder[f].bits \in Recorded
           /\ decoding' = Append(decoding, [file |-> f, bits |-> pdu_trim_uvector(folder[f].bits)])
           /\ corrected' = corrected
  <2> DEFINE m == [file |-> f, bits |-> pdu_trim_uvector(folder[f].bits)]
  <2>1. m \in Messages /\ m.file = f
    <3>1. pdu_trim_uvector(folder[f].bits) \in Seq({0, 1})
      BY <1>7, TrimmedIsBits
    <3> QED BY <1>1, <3>1 DEF Messages
  <2>2. m \in From(F) <=> f \in F
    BY <2>1 DEF From
  <2> HIDE DEF m
  <2>3. CountIn(decoding', From(F)) = d + (IF f \in F THEN 1 ELSE 0)
    <3>1. decoding' = Append(decoding, m) /\ decoding \in Seq(Messages)
      BY <1>7 DEF m, EvalTypes
    <3> QED BY <2>1, <2>2, <3>1, CountAppend DEF d
  <2>4. CountIn(corrected', A) = c
    BY <1>7 DEF c
  <2> QED BY <1>3, <1>4, <1>5, <2>3, <2>4 DEF After, T
<1>8. CASE corrected' = corrected /\ decoding' = decoding
  <2>1. CountIn(corrected', A) = c /\ CountIn(decoding', From(F)) = d
    BY <1>8 DEF c, d
  <2> QED BY <1>3, <1>4, <1>5, <2>1 DEF After, T
<1> QED BY <1>6, <1>7, <1>8 DEF Reads

LEMMA ReadStep ==
    ASSUME EvalInv, ReadFile
    PROVE  EvalInv'
<1>0. EvalTypes /\ CreditInv /\ LostInv
  BY DEF EvalInv
<1>1. /\ phase = "evaluating" /\ UNCHANGED <<phase, folder, faults, sink, statistics>>
  BY DEF ReadFile, linkVars
<1>2. PICK f \in unread :
         /\ unread' = unread \ {f}
         /\ \/ Len(folder[f].bits) = FrameLength /\ message_router(f)
            \/ Len(folder[f].bits) # FrameLength /\ UNCHANGED <<decoding, corrected>>
  BY DEF ReadFile
<1> DEFINE trimmed == pdu_trim_uvector(folder[f].bits)
           arr == pack_bits(trimmed)
           m == [file |-> f, bits |-> trimmed]
<1>3. /\ f \in DOMAIN folder /\ f \in Nat
      /\ folder[f].bits \in Recorded <=> Len(folder[f].bits) = FrameLength
  BY <1>0, FileFacts DEF EvalTypes, Recorded
<1>4. Reads(f)
  BY <1>1, <1>2, <1>3 DEF Reads, message_router
<1>5. /\ corrected \in Seq(Seq(Nat)) /\ decoding \in Seq(Messages)
      /\ \A k \in 1 .. Len(decoding) : Waiting(decoding[k])
      /\ sink \in Sinks /\ faults \in Nat
  BY <1>0 DEF EvalTypes, Sinks
<1>6. folder[f].bits \in Recorded => arr \in Seq(Nat) /\ Len(arr) = ExpectedBytes /\ trimmed \in Seq({0, 1})
  BY PackedTrimmed, TrimmedIsBits
<1> HIDE DEF arr, trimmed
<1>7. folder[f].bits \in Recorded => m \in Messages
  BY <1>3, <1>6 DEF Messages
<1>8. m.file = f /\ m.bits = trimmed
  OBVIOUS
<1> HIDE DEF m
<1>9. \/ /\ folder[f].bits \in Recorded
         /\ corrected' = Append(corrected, arr) /\ decoding' = decoding
      \/ /\ folder[f].bits \in Recorded
         /\ decoding' = Append(decoding, m) /\ corrected' = corrected
      \/ /\ folder[f].bits \notin Recorded
         /\ corrected' = corrected /\ decoding' = decoding
  BY <1>4 DEF Reads, arr, trimmed, m
<1>10. /\ corrected' \in Seq(Seq(Nat)) /\ decoding' \in Seq(Messages)
       /\ Len(corrected') >= Len(corrected) /\ Len(decoding') >= Len(decoding)
       /\ \A k \in 1 .. Len(corrected) : corrected'[k] = corrected[k]
       /\ \A k \in 1 .. Len(decoding) : decoding'[k] = decoding[k]
       /\ \A k \in 1 .. Len(decoding') :
             \/ k \in 1 .. Len(decoding)
             \/ decoding'[k] = m /\ folder[f].bits \in Recorded
  <2>0. Len(corrected) \in Nat /\ Len(decoding) \in Nat
    BY <1>5
  <2>1. CASE /\ folder[f].bits \in Recorded
             /\ corrected' = Append(corrected, arr) /\ decoding' = decoding
    <3>1. arr \in Seq(Nat)
      BY <1>6, <2>1
    <3>2. /\ corrected' \in Seq(Seq(Nat)) /\ Len(corrected') = Len(corrected) + 1
          /\ \A k \in 1 .. Len(corrected) : corrected'[k] = corrected[k]
      BY <1>5, <2>1, <3>1, Appended
    <3> QED BY <1>5, <2>0, <2>1, <3>2
  <2>2. CASE /\ folder[f].bits \in Recorded
             /\ decoding' = Append(decoding, m) /\ corrected' = corrected
    <3>1. m \in Messages
      BY <1>7, <2>2
    <3>2. /\ decoding' \in Seq(Messages) /\ Len(decoding') = Len(decoding) + 1
          /\ decoding'[Len(decoding) + 1] = m
          /\ \A k \in 1 .. Len(decoding) : decoding'[k] = decoding[k]
          /\ \A k \in 1 .. Len(decoding') : k \in 1 .. Len(decoding) \/ k = Len(decoding) + 1
      BY <1>5, <2>2, <3>1, Appended
    <3> QED BY <1>5, <2>0, <2>2, <3>2
  <2>3. CASE corrected' = corrected /\ decoding' = decoding
    BY <1>5, <2>0, <2>3
  <2> QED BY <1>9, <2>1, <2>2, <2>3
<1>11. EvalTypes'
  <2>1. f \in unread \ unread' /\ unread' \subseteq unread
    BY <1>2
  <2>2. ASSUME NEW k \in 1 .. Len(decoding')
        PROVE  \/ Waiting(decoding'[k])
               \/ /\ decoding'[k].file \in unread \ unread'
                  /\ folder[decoding'[k].file].bits \in Recorded
                  /\ decoding'[k].bits = pdu_trim_uvector(folder[decoding'[k].file].bits)
    <3>1. CASE k \in 1 .. Len(decoding)
      BY <1>5, <1>10, <3>1
    <3>2. CASE decoding'[k] = m /\ folder[f].bits \in Recorded
      BY <1>8, <2>1, <3>2 DEF trimmed
    <3> QED BY <1>10, <3>1, <3>2
  <2> QED BY <1>0, <1>1, <1>5, <1>10, <2>1, <2>2, TypesAfter
<1>12. CreditInv'
  <2>1. ASSUME NEW n \in Nat, NEW A, NEW F, Fits(A, F), Credit(n, A, F) PROVE After(n, A, F)
    BY <1>0, <1>4, <2>1, ReadsCredit
  <2>2. After(sink.erroneous, Erroneous, Bad)
    <3>1. sink.erroneous \in Nat
      BY <1>5 DEF Sinks
    <3> QED BY <1>0, <2>1, <3>1, FitsBad DEF CreditInv
  <2>3. \A i \in 0 .. num_packets - 1 : After(sink.collected[i], Numbered(i), HeardOf(i))
    <3>1. \A i \in 0 .. num_packets - 1 : sink.collected[i] \in Nat
      BY <1>5 DEF Sinks, Collections
    <3> QED BY <1>0, <2>1, <3>1, FitsHeard DEF CreditInv
  <2>4. After(sink.correct + sink.wrong_length + sink.erroneous, Seq(Nat), DOMAIN folder)
    <3>1. sink.correct + sink.wrong_length + sink.erroneous \in Nat
      BY <1>5 DEF Sinks
    <3> QED BY <1>0, <2>1, <3>1, FitsAll DEF CreditInv
  <2>5. CountIn(corrected', WrongLength) = CountIn(corrected, WrongLength)
    <3>1. CASE folder[f].bits \in Recorded /\ corrected' = Append(corrected, arr)
      <4>1. arr \in Seq(Nat) /\ arr \notin WrongLength
        BY <1>6, <3>1 DEF WrongLength
      <4>2. CountIn(corrected', WrongLength) = CountIn(corrected, WrongLength) + 0
        BY <1>5, <3>1, <4>1, CountAppend
      <4>3. CountIn(corrected, WrongLength) \in Nat
        BY <1>5, CountType
      <4> QED BY <4>2, <4>3
    <3>2. CASE corrected' = corrected
      BY <3>2
    <3> QED BY <1>9, <3>1, <3>2
  <2>6. /\ sink.wrong_length + CountIn(corrected, WrongLength) <= faults
        /\ sink.correct = UniqueOf(sink.collected) + DuplicatesOf(sink.collected)
    BY <1>0 DEF CreditInv
  <2> QED BY <1>1, <2>2, <2>3, <2>4, <2>5, <2>6, CreditAfter
<1>13. LostInv'
  <2>1. ASSUME NEW i \in 0 .. num_packets - 1, Found(i) PROVE Found(i)'
    <3>1. Candidates = unread /\ Candidates' = unread'
      BY <1>1 DEF Candidates, Early
    <3>2. Intact(i)' = Intact(i)
      BY <1>1 DEF Intact
    <3>3. CASE sink.collected[i] # 0
      BY <1>1, <3>3 DEF Found
    <3>4. CASE \E k \in 1 .. Len(corrected) : corrected[k] \in Numbered(i)
      <4>1. PICK k \in 1 .. Len(corrected) : corrected[k] \in Numbered(i)
        BY <3>4
      <4>2. k \in 1 .. Len(corrected') /\ corrected'[k] \in Numbered(i)
        BY <1>5, <1>10, <4>1
      <4> QED BY <4>2 DEF Found
    <3>5. CASE \E k \in 1 .. Len(decoding) : decoding[k].file \in Intact(i)
      <4>1. PICK k \in 1 .. Len(decoding) : decoding[k].file \in Intact(i)
        BY <3>5
      <4>2. k \in 1 .. Len(decoding') /\ decoding'[k].file \in Intact(i)'
        BY <1>5, <1>10, <3>2, <4>1
      <4> QED BY <4>2 DEF Found
    <3>6. CASE unread \cap Intact(i) # {}
      <4>1. PICK g \in unread : g \in Intact(i)
        BY <3>6
      <4>2. CASE g # f
        <5>1. g \in Candidates' \cap Intact(i)'
          BY <1>2, <3>1, <3>2, <4>1, <4>2
        <5> QED BY <5>1 DEF Found
      <4>3. CASE g = f
        <5>1. folder[f].bits = Frame(i) /\ folder[f].bits \in Recorded
          <6>1. i \in Nat
            OBVIOUS
          <6> QED BY <4>1, <4>3, <6>1, TrimmedFrame DEF Intact
        <5>2. CASE corrected' = Append(corrected, arr)
          <6>1. arr \in Numbered(i)
            BY <5>1, IntactIsNumbered DEF arr, trimmed
          <6>2. Len(corrected) + 1 \in 1 .. Len(corrected') /\ corrected'[Len(corrected) + 1] = arr
            BY <1>5, <1>6, <5>1, <5>2
          <6> QED BY <6>1, <6>2 DEF Found
        <5>3. CASE decoding' = Append(decoding, m)
          <6>1. Len(decoding) + 1 \in 1 .. Len(decoding') /\ decoding'[Len(decoding) + 1] = m
            BY <1>5, <1>7, <5>1, <5>3
          <6>2. m.file \in Intact(i)'
            BY <1>8, <3>2, <4>1, <4>3
          <6> QED BY <6>1, <6>2 DEF Found
        <5> QED BY <1>9, <5>1, <5>2, <5>3
      <4> QED BY <4>2, <4>3
    <3> QED BY <2>1, <3>1, <3>3, <3>4, <3>5, <3>6 DEF Found
  <2>2. faults' \in Nat /\ faults <= faults'
    BY <1>1, <1>5
  <2> QED BY <1>0, <1>1, <2>1, <2>2, FoundAfter
<1> QED BY <1>11, <1>12, <1>13 DEF EvalInv

\* The first message at the decoder leaves it, and perhaps something of its file
\* goes to the sink.
Decodes(f) ==
    /\ decoding # <<>> /\ f = Head(decoding).file /\ decoding' = Tail(decoding)
    /\ folder' = folder /\ unread' = unread
    /\ \/ corrected' = corrected
       \/ \E arr \in Outcome(f) : corrected' = Append(corrected, arr)

\* Which file that is.
LEMMA FirstDecoded ==
    ASSUME EvalTypes, decoding # <<>>
    PROVE  /\ Head(decoding) \in Messages /\ Waiting(Head(decoding))
           /\ Head(decoding).file \in DOMAIN folder
           /\ Head(decoding).file \notin unread
           /\ Head(decoding) = decoding[1] /\ 1 \in 1 .. Len(decoding)
<1>1. decoding \in Seq(Messages) /\ \A k \in 1 .. Len(decoding) : Waiting(decoding[k])
  BY DEF EvalTypes
<1>2. Head(decoding) = decoding[1] /\ 1 \in 1 .. Len(decoding)
  BY <1>1
<1>3. Head(decoding) \in Messages
  BY <1>1, <1>2, ElementOfSeq
<1>4. Waiting(Head(decoding))
  BY <1>1, <1>2
<1> QED BY <1>2, <1>3, <1>4 DEF Waiting, Read

LEMMA DecodesCredit ==
    ASSUME EvalTypes, NEW f, Decodes(f), NEW n \in Nat, NEW A, NEW F, Fits(A, F), Credit(n, A, F)
    PROVE  After(n, A, F)
<1> DEFINE c == CountIn(corrected, A)
           d == CountIn(decoding, From(F))
           R == Cardinality(F \ unread)
           m == Head(decoding)
<1>1. /\ decoding # <<>> /\ f = m.file /\ decoding' = Tail(decoding) /\ unread' = unread
  BY DEF Decodes
<1>2. /\ m \in Messages /\ f \in DOMAIN folder /\ folder[f].bits \in Recorded
  BY <1>1, FirstDecoded DEF Waiting
<1>3. c \in Nat /\ d \in Nat /\ n + c + d <= R
  BY CountType DEF Credit, EvalTypes
<1>4. R \in Nat
  <2>1. F \ unread \subseteq DOMAIN folder
    BY DEF Fits
  <2> QED BY <2>1, FilesCount
<1>5. d = CountIn(decoding', From(F)) + (IF f \in F THEN 1 ELSE 0)
  <2>1. m \in From(F) <=> f \in F
    BY <1>1, <1>2 DEF From
  <2>2. decoding \in Seq(Messages)
    BY DEF EvalTypes
  <2>3. d = CountIn(Tail(decoding), From(F)) + (IF m \in From(F) THEN 1 ELSE 0)
    BY <1>1, <2>2, CountTail
  <2> QED BY <1>1, <2>1, <2>3
<1>6. CountIn(decoding', From(F)) \in Nat
  <2>1. decoding' \in Seq(Messages)
    BY <1>1 DEF EvalTypes
  <2> QED BY <2>1, CountType
<1>7. CountIn(corrected', A) \in Nat /\ CountIn(corrected', A) <= c + (IF f \in F THEN 1 ELSE 0)
  <2>1. CASE corrected' = corrected
    BY <1>3, <2>1
  <2>2. CASE \E arr \in Outcome(f) : corrected' = Append(corrected, arr)
    <3>1. PICK arr \in Outcome(f) : corrected' = Append(corrected, arr)
      BY <2>2
    <3>2. arr \in Seq(Nat) /\ (arr \in A => f \in F)
      BY <1>2, OutcomeFits
    <3>3. corrected \in Seq(Seq(Nat))
      BY DEF EvalTypes
    <3>4. CountIn(corrected', A) = c + (IF arr \in A THEN 1 ELSE 0)
      BY <3>1, <3>2, <3>3, CountAppend
    <3> HIDE DEF c
    <3> QED BY <1>3, <3>2, <3>4
  <2> QED BY <2>1, <2>2 DEF Decodes
<1> HIDE DEF c, d, m
<1> QED BY <1>1, <1>3, <1>4, <1>5, <1>6, <1>7 DEF After

LEMMA DecodeStep ==
    ASSUME EvalInv, Decode
    PROVE  EvalInv'
<1> DEFINE m == Head(decoding)
           f == m.file
           good == {pack_bits(pdu_trim_uvector(folder[f].bits)),
                    pack_bits(pdu_trim_uvector(folder[f].sent))}
           cut == pack_bits(Cut(pdu_trim_uvector(folder[f].bits)))
           x == folder[f].sent
<1>0. EvalTypes /\ CreditInv /\ LostInv
  BY DEF EvalInv
<1>1. /\ phase = "evaluating" /\ decoding # <<>> /\ decoding' = Tail(decoding)
      /\ UNCHANGED <<phase, folder, unread, sink, statistics>>
  BY DEF Decode
<1>2. /\ m \in Messages /\ Waiting(m) /\ f \in DOMAIN folder /\ folder[f].bits \in Recorded
      /\ m.bits = pdu_trim_uvector(folder[f].bits) /\ m = decoding[1]
  BY <1>0, <1>1, FirstDecoded DEF Waiting
<1>3. \/ faults' = faults /\ \E arr \in good : corrected' = Append(corrected, arr)
      \/ faults' = faults + 1 /\ corrected' = corrected
      \/ faults' = faults + 1 /\ corrected' = Append(corrected, cut)
  <2>1. m.bits = pdu_trim_uvector(folder[f].bits)
    BY <1>2
  <2> QED BY <2>1 DEF Decode, Cut
<1>4. /\ \A arr \in good : arr \in Seq(Nat) /\ Len(arr) = ExpectedBytes /\ arr \in Outcome(f)
      /\ cut \in Seq(Nat) /\ cut \in Outcome(f)
  <2>1. folder[f].sent \in Recorded
    BY <1>0, <1>2, FileFacts
  <2>2. cut \in Seq(Nat)
    BY <1>2, CutWrong DEF WrongLength
  <2> QED BY <1>2, <2>1, <2>2, PackedTrimmed DEF Outcome
<1>5. Decodes(f)
  BY <1>1, <1>3, <1>4 DEF Decodes
<1> HIDE DEF m, good, cut
<1>6. /\ corrected \in Seq(Seq(Nat)) /\ decoding \in Seq(Messages)
      /\ \A k \in 1 .. Len(decoding) : Waiting(decoding[k])
      /\ sink \in Sinks /\ faults \in Nat
  BY <1>0 DEF EvalTypes, Sinks
<1>7. faults' \in Nat /\ faults <= faults'
  BY <1>3, <1>6
<1>8. /\ corrected' \in Seq(Seq(Nat))
      /\ \A k \in 1 .. Len(corrected) : k \in 1 .. Len(corrected') /\ corrected'[k] = corrected[k]
  <2>1. CASE corrected' = corrected
    BY <1>6, <2>1
  <2>2. CASE \E arr \in Seq(Nat) : corrected' = Append(corrected, arr)
    <3>1. PICK arr \in Seq(Nat) : corrected' = Append(corrected, arr)
      BY <2>2
    <3>2. /\ corrected' \in Seq(Seq(Nat)) /\ Len(corrected') = Len(corrected) + 1
          /\ Len(corrected) \in Nat
          /\ \A k \in 1 .. Len(corrected) : corrected'[k] = corrected[k]
      BY <1>6, <3>1, Appended
    <3> QED BY <3>2
  <2> QED BY <1>3, <1>4, <2>1, <2>2
<1>9. /\ decoding' \in Seq(Messages) /\ Len(decoding) \in Nat /\ Len(decoding') = Len(decoding) - 1
      /\ \A k \in 1 .. Len(decoding') : k + 1 \in 1 .. Len(decoding) /\ decoding'[k] = decoding[k + 1]
  BY <1>1, <1>6
<1>10. EvalTypes'
  <2>1. \A k \in 1 .. Len(decoding') : Waiting(decoding'[k])
    BY <1>6, <1>9
  <2> QED BY <1>0, <1>1, <1>6, <1>7, <1>8, <1>9, <2>1, TypesAfter
<1>11. CreditInv'
  <2>1. ASSUME NEW n \in Nat, NEW A, NEW F, Fits(A, F), Credit(n, A, F) PROVE After(n, A, F)
    BY <1>0, <1>5, <2>1, DecodesCredit
  <2>2. After(sink.erroneous, Erroneous, Bad)
    <3>1. sink.erroneous \in Nat
      BY <1>6 DEF Sinks
    <3> QED BY <1>0, <2>1, <3>1, FitsBad DEF CreditInv
  <2>3. \A i \in 0 .. num_packets - 1 : After(sink.collected[i], Numbered(i), HeardOf(i))
    <3>1. \A i \in 0 .. num_packets - 1 : sink.collected[i] \in Nat
      BY <1>6 DEF Sinks, Collections
    <3> QED BY <1>0, <2>1, <3>1, FitsHeard DEF CreditInv
  <2>4. After(sink.correct + sink.wrong_length + sink.erroneous, Seq(Nat), DOMAIN folder)
    <3>1. sink.correct + sink.wrong_length + sink.erroneous \in Nat
      BY <1>6 DEF Sinks
    <3> QED BY <1>0, <2>1, <3>1, FitsAll DEF CreditInv
  <2>5. /\ sink.wrong_length + CountIn(corrected, WrongLength) <= faults
        /\ sink.correct = UniqueOf(sink.collected) + DuplicatesOf(sink.collected)
    BY <1>0 DEF CreditInv
  <2>6. sink.wrong_length + CountIn(corrected', WrongLength) <= faults'
    <3>1. CountIn(corrected, WrongLength) \in Nat /\ sink.wrong_length \in Nat
      BY <1>6, CountType DEF Sinks
    <3>2. CASE faults' = faults /\ \E arr \in good : corrected' = Append(corrected, arr)
      <4>1. PICK arr \in good : corrected' = Append(corrected, arr)
        BY <3>2
      <4>2. arr \in Seq(Nat) /\ arr \notin WrongLength
        BY <1>4 DEF WrongLength
      <4>3. CountIn(corrected', WrongLength) = CountIn(corrected, WrongLength) + 0
        BY <1>6, <4>1, <4>2, CountAppend
      <4> QED BY <2>5, <3>1, <3>2, <4>3
    <3>3. CASE faults' = faults + 1 /\ corrected' = corrected
      BY <1>6, <2>5, <3>1, <3>3
    <3>4. CASE faults' = faults + 1 /\ corrected' = Append(corrected, cut)
      <4>1. CountIn(corrected', WrongLength)
              = CountIn(corrected, WrongLength) + (IF cut \in WrongLength THEN 1 ELSE 0)
        BY <1>4, <1>6, <3>4, CountAppend
      <4> QED BY <1>6, <2>5, <3>1, <3>4, <4>1
    <3> QED BY <1>3, <3>2, <3>3, <3>4
  <2> QED BY <1>1, <2>2, <2>3, <2>4, <2>5, <2>6, CreditAfter
<1>12. LostInv'
  <2>1. ASSUME NEW i \in 0 .. num_packets - 1, Found(i)
        PROVE  \/ Found(i)'
               \/ Frame(i) = x /\ faults + 1 <= faults'
    <3>1. Candidates' = Candidates
      BY <1>1 DEF Candidates
    <3>2. Intact(i)' = Intact(i)
      BY <1>1 DEF Intact
    <3>3. CASE sink.collected[i] # 0
      BY <1>1, <3>3 DEF Found
    <3>4. CASE \E k \in 1 .. Len(corrected) : corrected[k] \in Numbered(i)
      <4>1. PICK k \in 1 .. Len(corrected) : corrected[k] \in Numbered(i)
        BY <3>4
      <4>2. k \in 1 .. Len(corrected') /\ corrected'[k] \in Numbered(i)
        BY <1>8, <4>1
      <4> QED BY <4>2 DEF Found
    <3>5. CASE Candidates \cap Intact(i) # {}
      BY <3>1, <3>2, <3>5 DEF Found
    <3>6. CASE \E k \in 1 .. Len(decoding) : decoding[k].file \in Intact(i)
      <4>1. PICK k \in 1 .. Len(decoding) : decoding[k].file \in Intact(i)
        BY <3>6
      <4>2. CASE k # 1
        <5>1. k - 1 \in 1 .. Len(decoding') /\ (k - 1) + 1 = k
          BY <1>9, <4>1, <4>2
        <5>2. decoding'[k - 1] = decoding[k]
          BY <1>9, <5>1
        <5>3. decoding'[k - 1].file \in Intact(i)'
          BY <3>2, <4>1, <5>2
        <5> QED BY <5>1, <5>3 DEF Found
      <4>3. CASE k = 1
        <5>1. x = Frame(i) /\ folder[f].bits = Frame(i)
          BY <1>2, <4>1, <4>3 DEF Intact
        <5>2. CASE \E arr \in good : corrected' = Append(corrected, arr)
          <6>1. PICK arr \in good : corrected' = Append(corrected, arr)
            BY <5>2
          <6>2. arr = pack_bits(pdu_trim_uvector(Frame(i)))
            BY <5>1, <6>1 DEF good
          <6>3. arr \in Numbered(i) /\ arr \in Seq(Nat)
            BY <1>4, <6>2, IntactIsNumbered
          <6>4. Len(corrected) + 1 \in 1 .. Len(corrected') /\ corrected'[Len(corrected) + 1] = arr
            <7>1. /\ Len(corrected) \in Nat /\ Len(corrected') = Len(corrected) + 1
                  /\ corrected'[Len(corrected) + 1] = arr
              BY <1>6, <6>1, <6>3, Appended
            <7> QED BY <7>1
          <6> QED BY <6>3, <6>4 DEF Found
        <5>3. CASE faults' = faults + 1
          BY <1>6, <5>1, <5>3
        <5> QED BY <1>3, <5>2, <5>3
      <4> QED BY <4>2, <4>3
    <3> QED BY <2>1, <3>3, <3>4, <3>5, <3>6 DEF Found
  <2> QED BY <1>0, <1>1, <1>7, <2>1, FoundAfter
<1> QED BY <1>10, <1>11, <1>12 DEF EvalInv

\* What a packet does to the counters: each goes up by one if the packet is of its
\* kind.
One(b) == IF b THEN 1 ELSE 0

LEMMA Counted ==
    ASSUME sink \in Sinks, NEW arr \in Seq(Nat), NEW s, s = Count(arr)
    PROVE  /\ s \in Sinks
           /\ s.wrong_length = sink.wrong_length + One(arr \in WrongLength)
           /\ s.erroneous = sink.erroneous + One(arr \in Erroneous)
           /\ \A i \in 0 .. num_packets - 1 :
                 s.collected[i] = sink.collected[i] + One(arr \in Numbered(i))
           /\ s.correct + s.wrong_length + s.erroneous
                = sink.correct + sink.wrong_length + sink.erroneous + 1
           /\ sink.correct = UniqueOf(sink.collected) + DuplicatesOf(sink.collected)
                => s.correct = UniqueOf(s.collected) + DuplicatesOf(s.collected)
<1> DEFINE v == verify_packet_and_return_idx(arr)
           c == sink.collected
<1>0. num_packets \in Nat \ {0}
  BY LinkAssumption
<1>1. /\ sink.wrong_length \in Nat /\ sink.erroneous \in Nat /\ sink.correct \in Nat
      /\ c \in Collections
      /\ \A i \in 0 .. num_packets - 1 : c[i] \in Nat
  BY DEF Sinks, Collections
<1>2. CASE Len(arr) # ExpectedBytes
  <2>1. s = [sink EXCEPT !.wrong_length = @ + 1]
    BY <1>2 DEF Count, ExpectedBytes
  <2>2. /\ s \in Sinks /\ s.wrong_length = sink.wrong_length + 1
        /\ s.erroneous = sink.erroneous /\ s.correct = sink.correct /\ s.collected = c
    BY <2>1 DEF Sinks
  <2>3. /\ arr \in WrongLength /\ arr \notin Erroneous
        /\ \A i \in 0 .. num_packets - 1 : arr \notin Numbered(i)
    BY <1>2 DEF WrongLength, Erroneous, Numbered
  <2>4. \A i \in 0 .. num_packets - 1 : s.collected[i] = c[i] + One(arr \in Numbered(i))
    BY <1>1, <2>2, <2>3 DEF One
  <2> HIDE DEF c
  <2> QED BY <1>1, <2>2, <2>3, <2>4 DEF One, c
<1>3. CASE Len(arr) = ExpectedBytes /\ (v = -1 \/ v > num_packets - 1)
  <2>1. s = [sink EXCEPT !.erroneous = @ + 1]
    BY <1>3 DEF Count, ExpectedBytes
  <2>2. /\ s \in Sinks /\ s.erroneous = sink.erroneous + 1
        /\ s.wrong_length = sink.wrong_length /\ s.correct = sink.correct /\ s.collected = c
    BY <2>1 DEF Sinks
  <2>3. /\ arr \notin WrongLength /\ arr \in Erroneous
        /\ \A i \in 0 .. num_packets - 1 : arr \notin Numbered(i)
    <3>1. \A i \in 0 .. num_packets - 1 : v # i
      BY <1>0, <1>3
    <3> QED BY <1>3, <3>1 DEF WrongLength, Erroneous, Numbered
  <2>4. \A i \in 0 .. num_packets - 1 : s.collected[i] = c[i] + One(arr \in Numbered(i))
    BY <1>1, <2>2, <2>3 DEF One
  <2> HIDE DEF c
  <2> QED BY <1>1, <2>2, <2>3, <2>4 DEF One, c
<1>4. CASE Len(arr) = ExpectedBytes /\ ~(v = -1 \/ v > num_packets - 1)
  <2>1. s = [sink EXCEPT !.correct = @ + 1, !.collected[v] = @ + 1]
    BY <1>4 DEF Count, ExpectedBytes
  <2>2. v \in 0 .. num_packets - 1
    BY <1>0, <1>4, VerifyResult
  <2> DEFINE d == [c EXCEPT ![v] = @ + 1]
  <2>3. /\ d \in Collections /\ {UniqueOf(c), DuplicatesOf(c)} \subseteq Nat
        /\ UniqueOf(d) + DuplicatesOf(d) = UniqueOf(c) + DuplicatesOf(c) + 1
    BY <1>1, <2>2, OneMoreCollected
  <2>4. /\ s.collected = d /\ s.correct = sink.correct + 1
        /\ s.wrong_length = sink.wrong_length /\ s.erroneous = sink.erroneous
    BY <2>1 DEF Sinks
  <2>5. s \in Sinks
    <3> HIDE DEF d
    <3>1. s = [all |-> sink.all, wrong_length |-> sink.wrong_length, erroneous |-> sink.erroneous,
               correct |-> sink.correct + 1, collected |-> d]
      BY <2>1 DEF Sinks, d
    <3>2. sink.all \in Nat /\ sink.correct + 1 \in Nat
      BY <1>1 DEF Sinks
    <3> QED BY <1>1, <2>3, <3>1, <3>2 DEF Sinks
  <2>6. /\ arr \notin WrongLength /\ arr \notin Erroneous
        /\ \A i \in 0 .. num_packets - 1 : arr \in Numbered(i) <=> v = i
    BY <1>4 DEF WrongLength, Erroneous, Numbered
  <2>7. \A i \in 0 .. num_packets - 1 : d[i] = c[i] + One(arr \in Numbered(i))
    <3> TAKE i \in 0 .. num_packets - 1
    <3>1. DOMAIN c = 0 .. num_packets - 1 /\ c[i] \in Nat
      BY <1>1 DEF Collections
    <3>2. d[i] = IF i = v THEN c[i] + 1 ELSE c[i]
      BY <3>1
    <3> HIDE DEF d, v, c
    <3> QED BY <2>6, <3>1, <3>2 DEF One
  <2> HIDE DEF c, d, v
  <2>8. /\ s.wrong_length = sink.wrong_length + One(arr \in WrongLength)
        /\ s.erroneous = sink.erroneous + One(arr \in Erroneous)
    BY <1>1, <2>4, <2>6 DEF One
  <2>9. s.correct + s.wrong_length + s.erroneous
          = sink.correct + sink.wrong_length + sink.erroneous + 1
    BY <1>1, <2>4
  <2>10. sink.correct = UniqueOf(c) + DuplicatesOf(c)
           => s.correct = UniqueOf(s.collected) + DuplicatesOf(s.collected)
    BY <2>3, <2>4
  <2> QED BY <2>4, <2>5, <2>7, <2>8, <2>9, <2>10 DEF c
<1> QED BY <1>2, <1>3, <1>4

LEMMA HandledStep ==
    ASSUME EvalInv, corrected_handler
    PROVE  EvalInv'
<1> DEFINE arr == Head(corrected)
<1>0. EvalTypes /\ CreditInv /\ LostInv
  BY DEF EvalInv
<1>1. /\ phase = "evaluating" /\ corrected # <<>> /\ corrected' = Tail(corrected)
      /\ sink' = Count(arr)
      /\ UNCHANGED <<phase, folder, faults, unread, decoding, statistics>>
  BY DEF corrected_handler, linkVars
<1>2. /\ corrected \in Seq(Seq(Nat)) /\ decoding \in Seq(Messages)
      /\ \A k \in 1 .. Len(decoding) : Waiting(decoding[k])
      /\ sink \in Sinks /\ faults \in Nat
  BY <1>0 DEF EvalTypes, Sinks
<1>3. /\ Len(corrected) \in Nat \ {0} /\ arr = corrected[1] /\ arr \in Seq(Nat)
      /\ corrected' \in Seq(Seq(Nat)) /\ Len(corrected') = Len(corrected) - 1
      /\ \A k \in 1 .. Len(corrected') : corrected'[k] = corrected[k + 1]
  <2>1. Len(corrected) \in Nat \ {0} /\ arr = corrected[1] /\ 1 \in 1 .. Len(corrected)
    BY <1>1, <1>2
  <2>2. arr \in Seq(Nat)
    BY <1>2, <2>1, ElementOfSeq
  <2> QED BY <1>1, <1>2, <2>1, <2>2
<1>4. \A A : CountIn(corrected, A) = CountIn(corrected', A) + One(arr \in A)
  <2> TAKE A
  <2>1. CountIn(corrected, A) = CountIn(Tail(corrected), A) + (IF Head(corrected) \in A THEN 1 ELSE 0)
    BY <1>1, <1>2, CountTail
  <2> QED BY <1>1, <2>1 DEF One
<1>5. \A A : CountIn(corrected', A) \in Nat /\ CountIn(decoding, From(A)) \in Nat
  BY <1>2, <1>3, CountType
<1> HIDE DEF arr
<1>6. /\ sink' \in Sinks
      /\ sink'.wrong_length = sink.wrong_length + One(arr \in WrongLength)
      /\ sink'.erroneous = sink.erroneous + One(arr \in Erroneous)
      /\ \A i \in 0 .. num_packets - 1 :
            sink'.collected[i] = sink.collected[i] + One(arr \in Numbered(i))
      /\ sink'.correct + sink'.wrong_length + sink'.erroneous
           = sink.correct + sink.wrong_length + sink.erroneous + 1
      /\ sink'.correct = UniqueOf(sink'.collected) + DuplicatesOf(sink'.collected)
  BY <1>0, <1>1, <1>2, <1>3, Counted DEF CreditInv
<1>7. EvalTypes'
  <2>1. \A k \in 1 .. Len(decoding') : Waiting(decoding'[k])
    BY <1>1, <1>2
  <2>2. faults' \in Nat /\ unread' \subseteq unread /\ decoding' \in Seq(Messages)
    BY <1>1, <1>2
  <2> QED BY <1>0, <1>1, <1>3, <1>6, <2>1, <2>2, TypesAfter
<1>8. CreditInv'
  <2>1. ASSUME NEW n \in Nat, NEW k, NEW A, NEW F, k = n + One(arr \in A), Credit(n, A, F),
               F \subseteq DOMAIN folder
        PROVE  After(k, A, F)
    <3> DEFINE a == CountIn(corrected, A)
               b == CountIn(corrected', A)
               d == CountIn(decoding, From(F))
               R == Cardinality(F \ unread)
    <3>1. a = b + One(arr \in A) /\ b \in Nat /\ d \in Nat
      BY <1>4, <1>5
    <3>2. n + a + d <= R
      BY <2>1 DEF Credit
    <3>3. R \in Nat
      <4>1. F \ unread \subseteq DOMAIN folder
        BY <2>1
      <4> QED BY <1>0, <4>1, FilesCount
    <3>4. One(arr \in A) \in Nat
      BY DEF One
    <3>5. CountIn(decoding', From(F)) = d /\ F \ unread' = F \ unread
      BY <1>1
    <3> DEFINE o == One(arr \in A)
    <3> HIDE DEF a, b, d, R, o
    <3>6. k + b + d <= R
      BY <2>1, <3>1, <3>2, <3>3, <3>4 DEF o
    <3> QED BY <3>5, <3>6 DEF After, b, R
  <2>2. After(sink'.erroneous, Erroneous, Bad)
    <3>1. sink.erroneous \in Nat /\ Bad \subseteq DOMAIN folder
      BY <1>2 DEF Sinks, Bad
    <3> QED BY <1>0, <1>6, <2>1, <3>1 DEF CreditInv
  <2>3. \A i \in 0 .. num_packets - 1 : After(sink'.collected[i], Numbered(i), HeardOf(i))
    <3>1. \A i \in 0 .. num_packets - 1 : sink.collected[i] \in Nat /\ HeardOf(i) \subseteq DOMAIN folder
      BY <1>2 DEF Sinks, Collections, HeardOf
    <3> QED BY <1>0, <1>6, <2>1, <3>1 DEF CreditInv
  <2>4. After(sink'.correct + sink'.wrong_length + sink'.erroneous, Seq(Nat), DOMAIN folder)
    <3>1. sink.correct + sink.wrong_length + sink.erroneous \in Nat
      BY <1>2 DEF Sinks
    <3>2. One(arr \in Seq(Nat)) = 1
      BY <1>3 DEF One
    <3>3. Credit(sink.correct + sink.wrong_length + sink.erroneous, Seq(Nat), DOMAIN folder)
      BY <1>0 DEF CreditInv
    <3> QED BY <1>6, <2>1, <3>1, <3>2, <3>3
  <2>5. sink'.wrong_length + CountIn(corrected', WrongLength) <= faults'
    <3> DEFINE a == CountIn(corrected, WrongLength)
               b == CountIn(corrected', WrongLength)
               o == One(arr \in WrongLength)
    <3>1. a = b + o /\ b \in Nat /\ o \in Nat /\ sink'.wrong_length = sink.wrong_length + o
      BY <1>4, <1>5, <1>6 DEF One
    <3>2. sink.wrong_length + a <= faults /\ sink.wrong_length \in Nat
      BY <1>0, <1>2 DEF CreditInv, Sinks
    <3> HIDE DEF a, b, o
    <3>3. sink'.wrong_length + b <= faults
      BY <1>2, <3>1, <3>2
    <3> QED BY <1>1, <3>3 DEF b
  <2> QED BY <1>1, <1>6, <2>2, <2>3, <2>4, <2>5, CreditAfter
<1>9. LostInv'
  <2>1. ASSUME NEW i \in 0 .. num_packets - 1, Found(i) PROVE Found(i)'
    <3>1. Candidates' = Candidates /\ Intact(i)' = Intact(i)
      BY <1>1 DEF Candidates, Intact
    <3>2. sink.collected[i] \in Nat /\ sink'.collected[i] = sink.collected[i] + One(arr \in Numbered(i))
      BY <1>2, <1>6 DEF Sinks, Collections
    <3>3. CASE sink.collected[i] # 0
      <4>1. sink'.collected[i] # 0
        BY <3>2, <3>3 DEF One
      <4> QED BY <4>1 DEF Found
    <3>4. CASE \E k \in 1 .. Len(corrected) : corrected[k] \in Numbered(i)
      <4>1. PICK k \in 1 .. Len(corrected) : corrected[k] \in Numbered(i)
        BY <3>4
      <4>2. CASE k = 1
        <5>1. sink'.collected[i] # 0
          BY <1>3, <3>2, <4>1, <4>2 DEF One
        <5> QED BY <5>1 DEF Found
      <4>3. CASE k # 1
        <5>1. k - 1 \in 1 .. Len(corrected') /\ (k - 1) + 1 = k
          BY <1>3, <4>1, <4>3
        <5>2. corrected'[k - 1] \in Numbered(i)
          BY <1>3, <4>1, <5>1
        <5> QED BY <5>1, <5>2 DEF Found
      <4> QED BY <4>2, <4>3
    <3>5. CASE \E k \in 1 .. Len(decoding) : decoding[k].file \in Intact(i)
      BY <1>1, <3>1, <3>5 DEF Found
    <3>6. CASE Candidates \cap Intact(i) # {}
      BY <3>1, <3>6 DEF Found
    <3> QED BY <2>1, <3>3, <3>4, <3>5, <3>6 DEF Found
  <2>2. faults' \in Nat /\ faults <= faults'
    BY <1>1, <1>2
  <2> QED BY <1>0, <1>1, <2>1, <2>2, FoundAfter
<1> QED BY <1>7, <1>8, <1>9 DEF EvalInv

LEMMA EvalNext == GenInv /\ EvalInv /\ [Next]_vars => EvalInv'
<1> SUFFICES ASSUME GenInv, EvalInv, [Next]_vars PROVE EvalInv'
  OBVIOUS
<1>1. CASE \/ \E requested \in 1 .. MaxSent : work(requested)
           \/ SourceDone \/ add_header \/ add_sync \/ Done \/ UNCHANGED vars
  <2>1. UNCHANGED <<folder, faults, unread, decoding, corrected, phase, sink, statistics>>
    BY <1>1 DEF work, SourceDone, add_header, add_sync, Done, vars, linkVars, evaluatorVars
  <2>2. Quiet
    BY <2>1 DEF Quiet
  <2> QED BY <2>2, QuietStep
<1>2. CASE StopGenerator
  <2>1. Quiet
    BY <1>2 DEF Quiet, StopGenerator, linkVars, evaluatorVars
  <2> QED BY <2>1, QuietStep
<1>3. CASE Receive
  BY <1>3, ReceiveStep
<1>4. CASE StartEvaluator
  BY <1>4, StartStep
<1>5. CASE ReadFile
  BY <1>5, ReadStep
<1>6. CASE Decode
  BY <1>6, DecodeStep
<1>7. CASE all_handler
  <2>1. Quiet
    BY <1>7 DEF Quiet, all_handler, linkVars
  <2> QED BY <2>1, QuietStep
<1>8. CASE corrected_handler
  BY <1>8, HandledStep
<1>9. CASE StopEvaluator
  <2>1. Quiet
    BY <1>9 DEF Quiet, StopEvaluator, linkVars
  <2> QED BY <2>1, QuietStep
<1> QED BY <1>1, <1>2, <1>3, <1>4, <1>5, <1>6, <1>7, <1>8, <1>9 DEF Next

LEMMA Evaluated == Spec => [](GenInv /\ EvalInv)
BY GenInit, GenNext, EvalInit, EvalNext, PTL DEF Spec

-----------------------------------------------------------------------------
(* What the sink says is true.                                             *)

\* The sink, whatever the channel and the decoder did, blames only what deserves it
\* and credits only what it heard: prbs_sink_pdu.corrected_handler on the files that
\* folder_source_pdu read.
THEOREM JudgesRightly == Spec => []JudgedRightly
<1>1. EvalInv => JudgedRightly
  <2> SUFFICES ASSUME EvalInv PROVE JudgedRightly
    OBVIOUS
  <2>1. EvalTypes /\ CreditInv
    BY DEF EvalInv
  <2>2. corrected \in Seq(Seq(Nat)) /\ decoding \in Seq(Messages)
    BY <2>1 DEF EvalTypes
  <2>3. ASSUME NEW n \in Nat, NEW A, NEW F, F \subseteq DOMAIN folder, Credit(n, A, F)
        PROVE  n <= Cardinality(F \ unread)
    <3>1. CountIn(corrected, A) \in Nat /\ CountIn(decoding, From(F)) \in Nat
      BY <2>2, CountType
    <3>2. Cardinality(F \ unread) \in Nat
      <4>1. F \ unread \subseteq DOMAIN folder
        BY <2>3
      <4> QED BY <2>1, <4>1, FilesCount
    <3> QED BY <2>3, <3>1, <3>2 DEF Credit
  <2>4. /\ sink.wrong_length \in Nat /\ sink.erroneous \in Nat /\ faults \in Nat
        /\ \A i \in 0 .. num_packets - 1 : sink.collected[i] \in Nat
    BY <2>1 DEF EvalTypes, Collections
  <2>5. sink.wrong_length <= faults
    <3>1. CountIn(corrected, WrongLength) \in Nat
      BY <2>2, CountType
    <3> QED BY <2>1, <2>4, <3>1 DEF CreditInv
  <2>6. sink.erroneous <= Cardinality(Bad \ unread)
    <3>1. Bad \subseteq DOMAIN folder
      BY DEF Bad
    <3> QED BY <2>1, <2>3, <2>4, <3>1 DEF CreditInv
  <2>7. Bad \ unread =
          {f \in Read : \/ folder[f].bits # folder[f].sent
                        \/ \A i \in 0 .. num_packets - 1 : folder[f].sent # Frame(i)}
    BY DEF Bad, Read
  <2>8. \A i \in 0 .. num_packets - 1 : sink.collected[i] <= Cardinality(HeardOf(i) \ unread)
    <3>1. \A i \in 0 .. num_packets - 1 : HeardOf(i) \subseteq DOMAIN folder
      BY DEF HeardOf
    <3> QED BY <2>1, <2>3, <2>4, <3>1 DEF CreditInv
  <2>9. \A i \in 0 .. num_packets - 1 : HeardOf(i) \ unread =
          {f \in Read : \E bits \in {folder[f].bits, folder[f].sent} :
             SubSeq(bits, FrameLength - packet_len + 1, Len(bits)) = Payload(i)}
    BY DEF HeardOf, Read
  <2> QED BY <2>5, <2>6, <2>7, <2>8, <2>9 DEF JudgedRightly
<1> QED BY <1>1, Evaluated, PTL

\* What prbs_sink_pdu.evaluate_statistics reports is true: it adds up, and when
\* everything that was read has been judged, the packets that were heard and are
\* missing from it are no more than the faults.
THEOREM ReportsTruly == Spec => []ReportTruthful
<1>1. EvalInv => ReportTruthful
  <2> SUFFICES ASSUME EvalInv, statistics # None
      PROVE  /\ statistics.correct = statistics.unique + statistics.duplicates
             /\ statistics.correct + statistics.wrong + statistics.erroneous <= Cardinality(Read)
             /\ unread = {} /\ decoding = <<>> /\ corrected = <<>> =>
                   LET heard == {i \in 0 .. num_packets - 1 :
                                   \E f \in DOMAIN folder : folder[f].sent = Frame(i)}
                   IN  Cardinality(heard) - statistics.unique <= faults
    BY DEF ReportTruthful
  <2>1. EvalTypes /\ CreditInv /\ LostInv
    BY DEF EvalInv
  <2>2. phase = "reported" /\ statistics = evaluate_statistics
    BY <2>1 DEF EvalTypes
  <2> DEFINE c == sink.collected
             I == 0 .. num_packets - 1
  <2>3. /\ statistics.correct = sink.correct /\ statistics.wrong = sink.wrong_length
        /\ statistics.erroneous = sink.erroneous
        /\ statistics.unique = UniqueOf(c) /\ statistics.duplicates = DuplicatesOf(c)
    BY <2>2, ReportOf DEF evaluate_statistics, UniqueOf
  <2>4. /\ sink.wrong_length \in Nat /\ sink.erroneous \in Nat /\ sink.correct \in Nat
        /\ faults \in Nat /\ c \in Collections
    BY <2>1 DEF EvalTypes
  <2>5. statistics.correct = statistics.unique + statistics.duplicates
    BY <2>1, <2>3 DEF CreditInv
  <2>6. statistics.correct + statistics.wrong + statistics.erroneous <= Cardinality(Read)
    <3> DEFINE n == sink.correct + sink.wrong_length + sink.erroneous
               a == CountIn(corrected, Seq(Nat))
               b == CountIn(decoding, From(DOMAIN folder))
               r == Cardinality(Read)
    <3>1. a \in Nat /\ b \in Nat
      <4>1. corrected \in Seq(Seq(Nat)) /\ decoding \in Seq(Messages)
        BY <2>1 DEF EvalTypes
      <4> QED BY <4>1, CountType
    <3>2. r \in Nat
      <4>1. Read \subseteq DOMAIN folder
        BY DEF Read
      <4> QED BY <2>1, <4>1, FilesCount
    <3>3. n + a + b <= r
      BY <2>1 DEF CreditInv, Credit, Read
    <3>4. n \in Nat /\ n = statistics.correct + statistics.wrong + statistics.erroneous
      BY <2>3, <2>4
    <3> HIDE DEF n, a, b, r
    <3>5. n <= r
      BY <3>1, <3>2, <3>3, <3>4
    <3> QED BY <3>4, <3>5 DEF r
  <2>7. ASSUME unread = {}, decoding = <<>>, corrected = <<>>
        PROVE  Cardinality({i \in I : \E f \in DOMAIN folder : folder[f].sent = Frame(i)})
                 - statistics.unique <= faults
    <3> DEFINE heard == {i \in I : \E f \in DOMAIN folder : folder[f].sent = Frame(i)}
               U == {i \in DOMAIN c : c[i] # 0}
    <3>1. heard \subseteq Lost \cup U
      <4> SUFFICES ASSUME NEW i \in I, i \in heard, c[i] = 0 PROVE i \in Lost
        BY <2>4 DEF Collections
      <4>1. Candidates = {}
        BY <2>2, <2>7 DEF Candidates, Early
      <4>2. ~Found(i)
        BY <2>7, <4>1 DEF Found
      <4> QED BY <4>2 DEF Lost
    <3>2. ASSUME NEW T, T \subseteq I PROVE IsFiniteSet(T) /\ Cardinality(T) \in Nat
      <4>1. 0 \in Int /\ num_packets - 1 \in Int
        BY LinkAssumption
      <4>2. IsFiniteSet(I)
        BY <4>1, FS_Interval
      <4>3. IsFiniteSet(T)
        BY <3>2, <4>2, FS_Subset
      <4> QED BY <4>3, FS_CardinalityType
    <3>3. heard \subseteq I /\ Lost \subseteq I /\ U \subseteq I
      BY <2>4 DEF Lost, Collections
    <3>4. UniqueOf(c) = Cardinality(U)
      BY DEF UniqueOf
    <3> HIDE DEF heard, U, I, c
    <3>5. /\ IsFiniteSet(Lost) /\ IsFiniteSet(U) /\ IsFiniteSet(Lost \cup U)
          /\ {Cardinality(heard), Cardinality(Lost), Cardinality(U), Cardinality(Lost \cup U),
              Cardinality(Lost \cap U)} \subseteq Nat
      <4>1. Lost \cup U \subseteq I /\ Lost \cap U \subseteq I
        BY <3>3
      <4> QED BY <3>2, <3>3, <4>1
    <3>6. Cardinality(heard) <= Cardinality(Lost \cup U)
      BY <3>1, <3>5, FS_Subset
    <3>7. Cardinality(Lost \cup U) = Cardinality(Lost) + Cardinality(U) - Cardinality(Lost \cap U)
      BY <3>5, FS_Union
    <3>8. Cardinality(Lost) <= faults
      BY <2>1 DEF LostInv
    <3>9. Cardinality(heard) - Cardinality(U) <= faults
      BY <2>4, <3>5, <3>6, <3>7, <3>8
    <3> QED BY <2>3, <3>4, <3>9 DEF heard
  <2> QED BY <2>5, <2>6, <2>7
<1> QED BY <1>1, Evaluated, PTL

=============================================================================
