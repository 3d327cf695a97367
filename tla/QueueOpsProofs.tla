--------------------------- MODULE QueueOpsProofs ---------------------------
(***************************************************************************)
(* What the operations of a queue do to the items that are left in it and  *)
(* to the selection its consumer has made of those it took, for items and  *)
(* queues of every kind.                                                   *)
(***************************************************************************)
EXTENDS QueueOps, TLAPS

\* What a sequence holds is in the set it is a sequence of.
LEMMA ElementType ==
  ASSUME NEW S, NEW s \in Seq(S), NEW i \in 1..Len(s)
  PROVE  s[i] \in S
OBVIOUS

\* An Append, item by item.
LEMMA AppendItems ==
  ASSUME NEW S, NEW s \in Seq(S), NEW x \in S
  PROVE  /\ Append(s, x) \in Seq(S) /\ Len(s) \in Nat
         /\ Len(Append(s, x)) = Len(s) + 1
         /\ \A i \in 1..Len(s) : Append(s, x)[i] = s[i]
         /\ Append(s, x)[Len(s) + 1] = x
OBVIOUS

\* What the operations return and leave are strings, and sequences of them
\* within the capacity.
LEMMA QueueTypes ==
  ASSUME NEW q \in Seq(Strings)
  PROVE  /\ Popped(q) \in Seq(Strings) /\ PopResult(q) \in Strings
         /\ \A m \in Strings : Pushed(q, m) \in Seq(Strings)
BY QueueAssumption DEF Popped, PopResult, Pushed, HasRoom

LEMMA QueueBounds ==
  ASSUME NEW q \in Seq(Strings), Len(q) <= Capacity
  PROVE  /\ Len(Popped(q)) <= Capacity
         /\ \A m \in Strings : Len(Pushed(q, m)) <= Capacity
BY QueueAssumption DEF Popped, Pushed, HasRoom

\* The number of items taken is within those accepted.
LEMMA TakenBounds ==
  ASSUME NEW S, NEW q \in Seq(S), NEW in \in Seq(S), HoldsRest(q, in)
  PROVE  /\ Taken(q, in) \in Nat /\ Taken(q, in) <= Len(in)
         /\ q = <<>> <=> Taken(q, in) = Len(in)
<1>1. Len(q) \in Nat /\ Len(in) \in Nat /\ (q = <<>> <=> Len(q) = 0)
  OBVIOUS
<1> QED BY <1>1 DEF Taken, HoldsRest

\* An item that is pushed and accepted.
LEMMA RestPushed ==
  ASSUME NEW S, NEW q \in Seq(S), NEW in \in Seq(S), NEW x \in S, HoldsRest(q, in)
  PROVE  /\ HoldsRest(Append(q, x), Append(in, x))
         /\ Taken(Append(q, x), Append(in, x)) = Taken(q, in)
<1> DEFINE r == Append(q, x)
           on == Append(in, x)
           n == Taken(q, in)
<1>1. /\ Len(q) \in Nat /\ Len(r) = Len(q) + 1 /\ r[Len(q) + 1] = x
      /\ \A i \in 1..Len(q) : r[i] = q[i]
  BY AppendItems
<1>2. /\ Len(in) \in Nat /\ Len(on) = Len(in) + 1 /\ on[Len(in) + 1] = x
      /\ \A i \in 1..Len(in) : on[i] = in[i]
  BY AppendItems
<1> HIDE DEF r, on
<1>3. Taken(r, on) = n /\ n \in Nat /\ n + Len(q) = Len(in)
  BY <1>1, <1>2 DEF Taken, HoldsRest
<1>4. \A i \in 1..Len(q) : q[i] = in[n + i]
  BY DEF HoldsRest
<1> HIDE DEF n
<1>5. ASSUME NEW i \in 1..Len(r) PROVE r[i] = on[n + i]
  <2>1. CASE i \in 1..Len(q)
    <3>1. n + i \in 1..Len(in)
      BY <1>1, <1>2, <1>3, <2>1
    <3>2. q[i] = in[n + i]
      BY <2>1, <1>4
    <3> QED BY <1>1, <1>2, <2>1, <3>1, <3>2
  <2>2. CASE i = Len(q) + 1
    <3>1. \A a, b, c \in Nat : a + b = c => a + (b + 1) = c + 1
      OBVIOUS
    <3>2. n + (Len(q) + 1) = Len(in) + 1
      BY <1>1, <1>2, <1>3, <3>1
    <3> QED BY <1>1, <1>2, <2>2, <3>2
  <2> QED BY <1>1, <2>1, <2>2
<1>6. Len(r) <= Len(on)
  BY <1>1, <1>2 DEF HoldsRest
<1>7. HoldsRest(r, on)
  BY <1>3, <1>5, <1>6 DEF HoldsRest
<1> QED BY <1>3, <1>7 DEF r, on, n

\* The oldest item is taken.
LEMMA RestPopped ==
  ASSUME NEW S, NEW q \in Seq(S), NEW in \in Seq(S), q # <<>>, HoldsRest(q, in)
  PROVE  /\ HoldsRest(Tail(q), in)
         /\ Taken(Tail(q), in) = Taken(q, in) + 1
         /\ Head(q) = in[Taken(q, in) + 1]
         /\ Taken(q, in) + 1 \in 1..Len(in)
<1> DEFINE r == Tail(q)
           n == Taken(q, in)
<1>1. /\ Len(q) \in Nat /\ Len(q) > 0 /\ Len(r) = Len(q) - 1
      /\ Head(q) = q[1]
      /\ \A i \in 1..Len(r) : r[i] = q[i + 1]
  OBVIOUS
<1>2. Len(in) \in Nat
  OBVIOUS
<1> HIDE DEF r
<1>3. n \in Nat /\ n + Len(q) = Len(in) /\ Taken(r, in) = n + 1 /\ Len(r) <= Len(in)
  BY <1>1, <1>2 DEF Taken, HoldsRest
<1>4. \A i \in 1..Len(q) : q[i] = in[n + i]
  BY DEF HoldsRest
<1> HIDE DEF n
<1>5. ASSUME NEW i \in 1..Len(r) PROVE r[i] = in[(n + 1) + i]
  <2>1. i + 1 \in 1..Len(q) /\ n + (i + 1) = (n + 1) + i
    BY <1>1, <1>3
  <2> QED BY <1>1, <1>4, <2>1
<1>6. HoldsRest(r, in)
  BY <1>3, <1>5 DEF HoldsRest
<1>7. Head(q) = in[n + 1] /\ n + 1 \in 1..Len(in)
  BY <1>1, <1>2, <1>3, <1>4
<1> QED BY <1>3, <1>6, <1>7 DEF r, n

-----------------------------------------------------------------------------
\* Nothing was taken, and nothing selected.
LEMMA SelectedNone ==
  ASSUME NEW in, NEW Keep
  PROVE  SelectedFrom(<<>>, in, 0, Keep)
<1> DEFINE f == [i \in 1..0 |-> i]
<1>1. Len(<<>>) = 0 /\ f \in [1..0 -> 1..0]
  OBVIOUS
<1> HIDE DEF f
<1>2. \A i \in 1..0 : FALSE
  OBVIOUS
<1>3. /\ f \in [1..Len(<<>>) -> 1..0]
      /\ \A i \in 1..Len(<<>>) : FALSE
  BY <1>1, <1>2
<1> QED BY <1>2, <1>3, Zenon DEF SelectedFrom

\* The selection does not depend on the items that are accepted later.
LEMMA SelectedAccept ==
  ASSUME NEW S, NEW in \in Seq(S), NEW x \in S, NEW n \in 0..Len(in), NEW Keep, NEW out,
         SelectedFrom(out, in, n, Keep)
  PROVE  SelectedFrom(out, Append(in, x), n, Keep)
<1>1. PICK f \in [1..Len(out) -> 1..n] :
        /\ \A i, j \in 1..Len(out) : i < j => f[i] < f[j]
        /\ \A i \in 1..Len(out) : out[i] = in[f[i]]
        /\ \A k \in 1..n : in[k] \in Keep <=> \E i \in 1..Len(out) : f[i] = k
  BY DEF SelectedFrom
<1>2. \A k \in 1..n : Append(in, x)[k] = in[k]
  <2>1. Len(in) \in Nat /\ \A k \in 1..Len(in) : Append(in, x)[k] = in[k]
    BY AppendItems
  <2> QED BY <2>1
<1>3. \A i \in 1..Len(out) : out[i] = Append(in, x)[f[i]]
  BY <1>1, <1>2
<1> QED BY <1>1, <1>2, <1>3 DEF SelectedFrom

\* The next item is left out.
LEMMA SelectedSkip ==
  ASSUME NEW S, NEW in, NEW n \in Nat, NEW Keep, NEW out \in Seq(S),
         SelectedFrom(out, in, n, Keep), in[n + 1] \notin Keep
  PROVE  SelectedFrom(out, in, n + 1, Keep)
<1>1. PICK f \in [1..Len(out) -> 1..n] :
        /\ \A i, j \in 1..Len(out) : i < j => f[i] < f[j]
        /\ \A i \in 1..Len(out) : out[i] = in[f[i]]
        /\ \A k \in 1..n : in[k] \in Keep <=> \E i \in 1..Len(out) : f[i] = k
  BY DEF SelectedFrom
<1>2. \A i \in 1..Len(out) : f[i] \in 1..n /\ f[i] \in 1..(n + 1) /\ f[i] # n + 1
  OBVIOUS
<1>3. f \in [1..Len(out) -> 1..(n + 1)]
  BY <1>2
<1>4. ASSUME NEW k \in 1..(n + 1)
      PROVE  in[k] \in Keep <=> \E i \in 1..Len(out) : f[i] = k
  <2>1. CASE k = n + 1
    BY <1>2, <2>1
  <2>2. CASE k # n + 1
    <3>1. k \in 1..n
      BY <2>2
    <3> QED BY <1>1, <3>1
  <2> QED BY <2>1, <2>2
<1> QED BY <1>1, <1>3, <1>4 DEF SelectedFrom

\* The next item is selected.
LEMMA SelectedKeep ==
  ASSUME NEW S, NEW in, NEW n \in Nat, NEW Keep, NEW out \in Seq(S), NEW x \in S,
         SelectedFrom(out, in, n, Keep), in[n + 1] = x, x \in Keep
  PROVE  SelectedFrom(Append(out, x), in, n + 1, Keep)
<1> DEFINE L == Len(out)
           new == Append(out, x)
<1>1. PICK f \in [1..L -> 1..n] :
        /\ \A i, j \in 1..L : i < j => f[i] < f[j]
        /\ \A i \in 1..L : out[i] = in[f[i]]
        /\ \A k \in 1..n : in[k] \in Keep <=> \E i \in 1..L : f[i] = k
  BY DEF SelectedFrom
<1>2. /\ L \in Nat /\ Len(new) = L + 1 /\ new[L + 1] = x
      /\ \A i \in 1..L : new[i] = out[i]
  BY AppendItems
<1> HIDE DEF L, new
<1> DEFINE g == [i \in 1..(L + 1) |-> IF i = L + 1 THEN n + 1 ELSE f[i]]
<1>3. \A i \in 1..L : i \in 1..(L + 1) /\ i # L + 1 /\ f[i] \in 1..n
  BY <1>2
<1>4. \A i \in 1..L : g[i] = f[i]
  BY <1>3
<1>5. L + 1 \in 1..(L + 1) /\ g[L + 1] = n + 1
  BY <1>2
<1>6. \A i \in 1..(L + 1) : i \in 1..L \/ i = L + 1
  BY <1>2
<1>7. g \in [1..(L + 1) -> 1..(n + 1)]
  <2>1. ASSUME NEW i \in 1..(L + 1)
        PROVE  (IF i = L + 1 THEN n + 1 ELSE f[i]) \in 1..(n + 1)
    <3>1. CASE i = L + 1
      BY <3>1
    <3>2. CASE i # L + 1
      <4>1. f[i] \in 1..n
        BY <1>3, <1>6, <3>2
      <4> QED BY <3>2, <4>1
    <3> QED BY <3>1, <3>2
  <2> QED BY <2>1
<1> HIDE DEF g
<1>8. ASSUME NEW i \in 1..(L + 1), NEW j \in 1..(L + 1), i < j PROVE g[i] < g[j]
  <2>1. i \in 1..L
    BY <1>2, <1>8
  <2>2. CASE j \in 1..L
    BY <1>1, <1>4, <1>8, <2>1, <2>2
  <2>3. CASE j = L + 1
    <3>1. g[i] \in 1..n /\ g[j] = n + 1
      BY <1>3, <1>4, <1>5, <2>1, <2>3
    <3> QED BY <3>1
  <2> QED BY <1>6, <2>2, <2>3
<1>9. ASSUME NEW i \in 1..(L + 1) PROVE new[i] = in[g[i]]
  <2>1. CASE i \in 1..L
    BY <1>1, <1>2, <1>4, <2>1
  <2>2. CASE i = L + 1
    BY <1>2, <1>5, <2>2
  <2> QED BY <1>6, <2>1, <2>2
<1>10. ASSUME NEW k \in 1..(n + 1)
       PROVE  in[k] \in Keep <=> \E i \in 1..(L + 1) : g[i] = k
  <2>1. CASE k = n + 1
    BY <1>5, <2>1
  <2>2. CASE k # n + 1
    <3>1. k \in 1..n
      BY <2>2
    <3>2. (\E i \in 1..L : f[i] = k) <=> \E i \in 1..(L + 1) : g[i] = k
      BY <1>3, <1>4, <1>5, <1>6, <2>2
    <3> QED BY <1>1, <3>1, <3>2
  <2> QED BY <2>1, <2>2
<1>11. SelectedFrom(new, in, n + 1, Keep)
  <2>1. /\ g \in [1..Len(new) -> 1..(n + 1)]
        /\ \A i, j \in 1..Len(new) : i < j => g[i] < g[j]
        /\ \A i \in 1..Len(new) : new[i] = in[g[i]]
        /\ \A k \in 1..(n + 1) : in[k] \in Keep <=> \E i \in 1..Len(new) : g[i] = k
    BY <1>2, <1>7, <1>8, <1>9, <1>10
  <2> QED BY <2>1, Zenon DEF SelectedFrom
<1> QED BY <1>11 DEF new

-----------------------------------------------------------------------------
(* A consumer with nothing in hand, and one that has taken the item c.  in is *)
(* what the queue q has accepted, out what the consumer has passed on.        *)

Settled(q, in, out, Keep) ==
  HoldsRest(q, in) /\ SelectedFrom(out, in, Taken(q, in), Keep)

Holding(q, in, out, c, Keep) ==
  /\ HoldsRest(q, in)
  /\ Taken(q, in) > 0 /\ c = in[Taken(q, in)]
  /\ SelectedFrom(out, in, Taken(q, in) - 1, Keep)

\* At first there is nothing.
LEMMA SettledEmpty ==
  ASSUME NEW Keep
  PROVE  Settled(<<>>, <<>>, <<>>, Keep)
<1>1. Taken(<<>>, <<>>) = 0 /\ HoldsRest(<<>>, <<>>)
  BY DEF Taken, HoldsRest
<1> QED BY <1>1, SelectedNone DEF Settled

\* The queue accepts an item.
LEMMA SettledPush ==
  ASSUME NEW S, NEW q \in Seq(S), NEW in \in Seq(S), NEW x \in S, NEW out, NEW Keep,
         Settled(q, in, out, Keep)
  PROVE  Settled(Append(q, x), Append(in, x), out, Keep)
<1> DEFINE n == Taken(q, in)
<1>1. HoldsRest(q, in) /\ SelectedFrom(out, in, n, Keep)
  BY DEF Settled
<1>2. HoldsRest(Append(q, x), Append(in, x)) /\ Taken(Append(q, x), Append(in, x)) = n
  BY <1>1, RestPushed
<1>3. n \in 0..Len(in)
  BY <1>1, TakenBounds
<1> HIDE DEF n
<1>4. SelectedFrom(out, Append(in, x), n, Keep)
  BY <1>1, <1>3, SelectedAccept
<1> QED BY <1>2, <1>4 DEF Settled

LEMMA HoldingPush ==
  ASSUME NEW S, NEW q \in Seq(S), NEW in \in Seq(S), NEW x \in S, NEW out, NEW c, NEW Keep,
         Holding(q, in, out, c, Keep)
  PROVE  Holding(Append(q, x), Append(in, x), out, c, Keep)
<1> DEFINE n == Taken(q, in)
           m == n - 1
<1>1. /\ HoldsRest(q, in) /\ SelectedFrom(out, in, m, Keep)
      /\ n > 0 /\ c = in[n]
  BY DEF Holding
<1>2. HoldsRest(Append(q, x), Append(in, x)) /\ Taken(Append(q, x), Append(in, x)) = n
  BY <1>1, RestPushed
<1>3. n \in Nat /\ n <= Len(in) /\ Len(in) \in Nat
  BY <1>1, TakenBounds
<1>4. m \in 0..Len(in) /\ n \in 1..Len(in)
  BY <1>1, <1>3
<1> HIDE DEF n
<1>5. Append(in, x)[n] = in[n]
  BY <1>4, AppendItems
<1> HIDE DEF m
<1>6. SelectedFrom(out, Append(in, x), m, Keep)
  BY <1>1, <1>4, SelectedAccept
<1> QED BY <1>1, <1>2, <1>5, <1>6 DEF Holding, m

\* The consumer takes the oldest item.
LEMMA SettledTake ==
  ASSUME NEW S, NEW q \in Seq(S), NEW in \in Seq(S), NEW out, NEW Keep,
         q # <<>>, Settled(q, in, out, Keep)
  PROVE  Holding(Tail(q), in, out, Head(q), Keep)
<1> DEFINE n == Taken(q, in)
<1>1. HoldsRest(q, in) /\ SelectedFrom(out, in, n, Keep)
  BY DEF Settled
<1>2. n \in Nat
  BY <1>1, TakenBounds
<1>3. /\ HoldsRest(Tail(q), in) /\ Taken(Tail(q), in) = n + 1
      /\ Head(q) = in[n + 1]
  BY <1>1, RestPopped
<1> HIDE DEF n
<1>4. n + 1 > 0 /\ (n + 1) - 1 = n
  BY <1>2
<1> QED BY <1>1, <1>3, <1>4 DEF Holding

\* It drops the item, which is not one of those to keep, or passes it on.
LEMMA HoldingSettles ==
  ASSUME NEW S, NEW q \in Seq(S), NEW in \in Seq(S), NEW out \in Seq(S), NEW c \in S,
         NEW Keep, Holding(q, in, out, c, Keep)
  PROVE  /\ c \notin Keep => Settled(q, in, out, Keep)
         /\ c \in Keep => Settled(q, in, Append(out, c), Keep)
<1> DEFINE n == Taken(q, in)
           m == n - 1
<1>1. /\ HoldsRest(q, in) /\ SelectedFrom(out, in, m, Keep)
      /\ n > 0 /\ c = in[n]
  BY DEF Holding
<1>2. n \in Nat
  BY <1>1, TakenBounds
<1>3. m \in Nat /\ n = m + 1
  BY <1>1, <1>2
<1> HIDE DEF m, n
<1>4. in[m + 1] = c
  BY <1>1, <1>3
<1>5. c \notin Keep => SelectedFrom(out, in, m + 1, Keep)
  BY <1>1, <1>3, <1>4, SelectedSkip
<1>6. c \in Keep => SelectedFrom(Append(out, c), in, m + 1, Keep)
  BY <1>1, <1>3, <1>4, SelectedKeep
<1> QED BY <1>1, <1>3, <1>5, <1>6 DEF Settled, n

=============================================================================
