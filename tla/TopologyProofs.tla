---------------------------- MODULE TopologyProofs ----------------------------
(***************************************************************************)
(* Proofs about Topology, for any cabling, controllers, devices and lanes. *)
(***************************************************************************)
EXTENDS Topology, SequenceTheorems, WellFoundedInduction, FiniteSetTheorems, TLAPS

-----------------------------------------------------------------------------
(* Counting, and functions defined by it                                    *)

LEMMA Counting ==
  ASSUME NEW P, 0 \in P, \A n \in Nat : n \in P => n + 1 \in P
  PROVE  Nat \subseteq P
<1> DEFINE T == Nat \ P
<1> SUFFICES ASSUME T # {} PROVE FALSE
  OBVIOUS
<1>1. PICK n \in T : \A m \in T : <<m, n>> \notin OpToRel(<, Nat)
  <2>1. IsWellFoundedOn(OpToRel(<, Nat), Nat)
    BY NatLessThanWellFounded
  <2>2. T \subseteq Nat /\ T # {}
    OBVIOUS
  <2> HIDE DEF T
  <2> QED BY <2>1, <2>2, WFMin
<1>2. \A m \in T : ~(m < n)
  BY <1>1 DEF OpToRel
<1>3. n # 0 /\ n \in Nat /\ n - 1 \in Nat /\ n - 1 < n
  OBVIOUS
<1>4. n - 1 \in P
  BY <1>2, <1>3
<1> QED BY <1>3, <1>4

Steps(G, X, N) == \A n \in 1 .. N : \A y \in X : G[n][y] \in X
Iterates(f, G, X, base, N) ==
  f \in [0 .. N -> X] /\ f[0] = base /\ \A n \in 1 .. N : f[n] = G[n][f[n - 1]]

LEMMA Iterated ==
  ASSUME NEW X, NEW base \in X, NEW N \in Nat, NEW G, Steps(G, X, N)
  PROVE  \E f : Iterates(f, G, X, base, N)
<1> USE DEF Steps, Iterates
<1> DEFINE Good(k, f) == f[0] = base /\ \A n \in 1 .. k : f[n] = G[n][f[n - 1]]
           P == {k \in Nat : k <= N => \E f \in [0 .. k -> X] : Good(k, f)}
<1>1. 0 \in P
  <2>1. Good(0, [n \in 0 .. 0 |-> base]) /\ [n \in 0 .. 0 |-> base] \in [0 .. 0 -> X]
    OBVIOUS
  <2> QED BY <2>1
<1>2. ASSUME NEW k \in Nat, k \in P PROVE k + 1 \in P
  <2> SUFFICES ASSUME k + 1 <= N PROVE \E f \in [0 .. k + 1 -> X] : Good(k + 1, f)
    OBVIOUS
  <2>1. PICK f \in [0 .. k -> X] : Good(k, f)
    BY <1>2
  <2> DEFINE g == [n \in 0 .. k + 1 |-> IF n <= k THEN f[n] ELSE G[k + 1][f[k]]]
  <2>2. G[k + 1][f[k]] \in X /\ f[k] \in X
    <3>1. k + 1 \in 1 .. N /\ f[k] \in X
      OBVIOUS
    <3> QED BY <3>1
  <2>3. g \in [0 .. k + 1 -> X]
    BY <2>2
  <2>4. g[0] = base
    BY <2>1
  <2>5. ASSUME NEW n \in 1 .. k + 1 PROVE g[n] = G[n][g[n - 1]]
    <3>1. CASE n <= k
      BY <3>1, <2>1
    <3>2. CASE n = k + 1
      BY <3>2
    <3> QED BY <3>1, <3>2
  <2>6. Good(k + 1, g)
    BY <2>4, <2>5
  <2> QED BY <2>3, <2>6
<1>3. N \in P
  <2> HIDE DEF P
  <2> QED BY <1>1, <1>2, Counting
<1> QED BY <1>3

-----------------------------------------------------------------------------
(* Sequences and what is in them                                            *)

LEMMA Elements ==
  ASSUME NEW X, NEW s \in Seq(X)
  PROVE  /\ ToSet(s) \subseteq X
         /\ DOMAIN s = 1 .. Len(s) /\ Len(s) \in Nat
         /\ \A x : x \in ToSet(s) <=> \E i \in 1 .. Len(s) : s[i] = x
BY DEF ToSet

LEMMA Joined ==
  ASSUME NEW X, NEW s \in Seq(X), NEW t \in Seq(X)
  PROVE  s \o t \in Seq(X) /\ ToSet(s \o t) = ToSet(s) \cup ToSet(t)
<1>1. s \o t \in Seq(X)
  OBVIOUS
<1>2. ASSUME NEW x \in ToSet(s \o t) PROVE x \in ToSet(s) \cup ToSet(t)
  <2>1. PICK i \in 1 .. Len(s \o t) : (s \o t)[i] = x
    BY <1>1 DEF ToSet
  <2> QED BY <2>1 DEF ToSet
<1>3. ASSUME NEW x \in ToSet(s) PROVE x \in ToSet(s \o t)
  <2>1. PICK i \in 1 .. Len(s) : s[i] = x
    BY DEF ToSet
  <2>2. i \in 1 .. Len(s \o t) /\ (s \o t)[i] = x
    BY <2>1
  <2> QED BY <1>1, <2>2 DEF ToSet
<1>4. ASSUME NEW x \in ToSet(t) PROVE x \in ToSet(s \o t)
  <2>1. PICK i \in 1 .. Len(t) : t[i] = x
    BY DEF ToSet
  <2>2. Len(s) + i \in 1 .. Len(s \o t) /\ (s \o t)[Len(s) + i] = x
    BY <2>1
  <2> QED BY <1>1, <2>2 DEF ToSet
<1> QED BY <1>1, <1>2, <1>3, <1>4

LEMMA ThreeJoined ==
  ASSUME NEW X, NEW a \in Seq(X), NEW b \in Seq(X), NEW c \in Seq(X)
  PROVE  a \o b \o c \in Seq(X) /\ ToSet(a \o b \o c) = ToSet(a) \cup ToSet(b) \cup ToSet(c)
<1>1. a \o b \in Seq(X) /\ ToSet(a \o b) = ToSet(a) \cup ToSet(b)
  BY Joined
<1> DEFINE ab == a \o b
<1>2. ab \in Seq(X)
  BY <1>1
<1> HIDE DEF ab
<1>3. ab \o c \in Seq(X) /\ ToSet(ab \o c) = ToSet(ab) \cup ToSet(c)
  BY <1>2, Joined
<1> QED BY <1>1, <1>3 DEF ab

LEMMA Singleton == ASSUME NEW X, NEW x \in X PROVE <<x>> \in Seq(X) /\ ToSet(<<x>>) = {x}
BY DEF ToSet

LEMMA Empty == ASSUME NEW X PROVE <<>> \in Seq(X) /\ ToSet(<<>>) = {}
BY DEF ToSet

LEMMA Appended ==
  ASSUME NEW X, NEW s \in Seq(X), NEW x \in X
  PROVE  Append(s, x) \in Seq(X) /\ ToSet(Append(s, x)) = ToSet(s) \cup {x}
<1>1. Append(s, x) = s \o <<x>>
  BY AppendIsConcat
<1> DEFINE e == <<x>>
<1>2. e \in Seq(X) /\ ToSet(e) = {x}
  BY Singleton
<1>3. s \o e \in Seq(X) /\ ToSet(s \o e) = ToSet(s) \cup ToSet(e)
  <2> HIDE DEF e
  <2> QED BY <1>2, Joined
<1> QED BY <1>1, <1>2, <1>3

LEMMA Narrowed ==
  ASSUME NEW X, NEW Y, NEW s \in Seq(X), ToSet(s) \subseteq Y
  PROVE  s \in Seq(Y)
BY DEF ToSet

(* f picks one element of seq after the other.                              *)
PicksUp(f, X, seq, S) ==
  /\ f \in [0 .. Len(seq) -> Seq(X)]
  /\ f[0] = <<>>
  /\ \A n \in 1 .. Len(seq) : f[n] = IF seq[n] \in S THEN Append(f[n - 1], seq[n]) ELSE f[n - 1]
  /\ Among(seq, S) = f[Len(seq)]

LEMMA AmongBuilt ==
  ASSUME NEW X, NEW seq \in Seq(X), NEW S
  PROVE  \E f : PicksUp(f, X, seq, S)
<1> DEFINE N == Len(seq)
           Picks(f) == f = [n \in 0 .. N |-> IF n = 0 THEN <<>>
                                             ELSE IF seq[n] \in S THEN Append(f[n - 1], seq[n]) ELSE f[n - 1]]
           f == CHOOSE f : Picks(f)
           G == [n \in 1 .. N |-> [y \in Seq(X) |-> IF seq[n] \in S THEN Append(y, seq[n]) ELSE y]]
<1>1. Among(seq, S) = f[N]
  BY DEF Among
<1>2. N \in Nat /\ \A n \in 1 .. N : seq[n] \in X
  BY LenProperties, ElementOfSeq
<1>3. \E g \in [0 .. N -> Seq(X)] : Picks(g)
  <2>1. \A n \in 1 .. N : \A y \in Seq(X) : G[n][y] \in Seq(X)
    BY <1>2
  <2>2. PICK g : Iterates(g, G, Seq(X), <<>>, N)
    <3>1. <<>> \in Seq(X)
      OBVIOUS
    <3> HIDE DEF G, N
    <3> QED BY <1>2, <2>1, <3>1, Iterated DEF Steps
  <2>3. g \in [0 .. N -> Seq(X)] /\ g[0] = <<>> /\ \A n \in 1 .. N : g[n] = G[n][g[n - 1]]
    <3> HIDE DEF G, N
    <3> QED BY <2>2 DEF Iterates
  <2>4. ASSUME NEW n \in 0 .. N
        PROVE  g[n] = IF n = 0 THEN <<>> ELSE IF seq[n] \in S THEN Append(g[n - 1], seq[n]) ELSE g[n - 1]
    <3>1. CASE n = 0
      BY <3>1, <2>3
    <3>2. CASE n # 0
      <4>1. n \in 1 .. N /\ n - 1 \in 0 .. N /\ g[n - 1] \in Seq(X)
        <5>1. n \in 1 .. N /\ n - 1 \in 0 .. N
          BY <3>2, <1>2
        <5> HIDE DEF G, N
        <5> QED BY <5>1, <2>3
      <4>2. g[n] = G[n][g[n - 1]]
        BY <4>1, <2>3
      <4> QED BY <3>2, <4>1, <4>2
    <3> QED BY <3>1, <3>2
  <2> QED BY <2>3, <2>4
<1>4. Picks(f)
  BY <1>3
<1> HIDE DEF f
<1>5. \A n \in 0 .. N : f[n] = IF n = 0 THEN <<>> ELSE IF seq[n] \in S THEN Append(f[n - 1], seq[n]) ELSE f[n - 1]
  BY <1>4
<1> DEFINE P == {n \in Nat : n <= N => f[n] \in Seq(X)}
<1>6. 0 \in P
  <2>1. 0 \in 0 .. N
    BY <1>2
  <2>2. f[0] = <<>> /\ <<>> \in Seq(X)
    BY <1>5, <2>1
  <2> HIDE DEF N
  <2> QED BY <2>2
<1>7. ASSUME NEW n \in Nat, n \in P PROVE n + 1 \in P
  <2> SUFFICES ASSUME n + 1 <= N PROVE f[n + 1] \in Seq(X)
    OBVIOUS
  <2>1. n + 1 \in 0 .. N /\ n + 1 # 0 /\ (n + 1) - 1 = n /\ seq[n + 1] \in X /\ f[n] \in Seq(X)
    BY <1>2, <1>7
  <2>2. f[n + 1] = IF seq[n + 1] \in S THEN Append(f[n], seq[n + 1]) ELSE f[n]
    BY <1>5, <2>1
  <2> QED BY <2>1, <2>2
<1>8. \A n \in 0 .. N : f[n] \in Seq(X)
  <2>1. Nat \subseteq P
    <3> HIDE DEF P
    <3> QED BY <1>6, <1>7, Counting
  <2> QED BY <1>2, <2>1
<1>9. f \in [0 .. N -> Seq(X)]
  <2>1. f = [n \in 0 .. N |-> f[n]]
    BY <1>4
  <2> QED BY <1>8, <2>1
<1>10. \A n \in 1 .. N : f[n] = IF seq[n] \in S THEN Append(f[n - 1], seq[n]) ELSE f[n - 1]
  <2>1. \A n \in 1 .. N : n \in 0 .. N /\ n # 0
    BY <1>2
  <2> QED BY <1>5, <2>1
<1>11. f[0] = <<>>
  BY <1>2, <1>5
<1> QED BY <1>1, <1>9, <1>10, <1>11 DEF PicksUp

LEMMA AmongFacts ==
  ASSUME NEW X, NEW seq \in Seq(X), NEW S
  PROVE  /\ Among(seq, S) \in Seq(X)
         /\ ToSet(Among(seq, S)) = ToSet(seq) \cap S
         /\ Len(Among(seq, S)) <= Len(seq)
         /\ IsInjective(seq) => IsInjective(Among(seq, S))
<1>0. PICK f : PicksUp(f, X, seq, S)
  BY AmongBuilt
<1> DEFINE N == Len(seq)
<1>1. N \in Nat /\ \A n \in 1 .. N : seq[n] \in X
  BY LenProperties, ElementOfSeq
<1>2. /\ f \in [0 .. N -> Seq(X)]
      /\ f[0] = <<>>
      /\ \A n \in 1 .. N : f[n] = IF seq[n] \in S THEN Append(f[n - 1], seq[n]) ELSE f[n - 1]
      /\ Among(seq, S) = f[N]
  BY <1>0 DEF PicksUp
<1> DEFINE Right(n, y) == /\ y \in Seq(X) /\ Len(y) <= n
                          /\ ToSet(y) = {seq[i] : i \in 1 .. n} \cap S
                          /\ IsInjective(seq) => IsInjective(y)
           P == {n \in Nat : n <= N => Right(n, f[n])}
<1>3. 0 \in P
  <2>1. Len(<<>>) = 0 /\ DOMAIN <<>> = {} /\ ToSet(<<>>) = {} /\ <<>> \in Seq(X)
    BY Empty
  <2>2. Right(0, <<>>)
    BY <2>1 DEF IsInjective
  <2>3. f[0] = <<>>
    BY <1>2
  <2> HIDE DEF N, Right
  <2> QED BY <2>2, <2>3
<1>4. ASSUME NEW n \in Nat, n \in P PROVE n + 1 \in P
  <2> SUFFICES ASSUME n + 1 <= N PROVE Right(n + 1, f[n + 1])
    OBVIOUS
  <2>1. Right(n, f[n]) /\ n + 1 \in 1 .. N /\ (n + 1) - 1 = n /\ seq[n + 1] \in X
    BY <1>1, <1>4
  <2>2. f[n + 1] = IF seq[n + 1] \in S THEN Append(f[n], seq[n + 1]) ELSE f[n]
    BY <1>2, <2>1
  <2>3. {seq[i] : i \in 1 .. n + 1} = {seq[i] : i \in 1 .. n} \cup {seq[n + 1]}
    <3>1. 1 .. n + 1 = (1 .. n) \cup {n + 1}
      OBVIOUS
    <3> QED BY <3>1
  <2>4. CASE seq[n + 1] \in S
    <3>1. Append(f[n], seq[n + 1]) \in Seq(X) /\ ToSet(Append(f[n], seq[n + 1])) = ToSet(f[n]) \cup {seq[n + 1]}
      BY <2>1, Appended
    <3>2. Len(Append(f[n], seq[n + 1])) <= n + 1
      BY <2>1
    <3>3. IsInjective(seq) => IsInjective(Append(f[n], seq[n + 1]))
      <4> SUFFICES ASSUME IsInjective(seq) PROVE IsInjective(Append(f[n], seq[n + 1]))
        OBVIOUS
      <4>1. \A i \in 1 .. n : seq[i] # seq[n + 1]
        BY <1>1, <2>1 DEF IsInjective
      <4>2. seq[n + 1] \notin ToSet(f[n])
        BY <2>1, <4>1
      <4>3. \A i \in 1 .. Len(f[n]) : f[n][i] # seq[n + 1]
        BY <2>1, <4>2, Elements
      <4>4. IsInjective(f[n])
        BY <2>1
      <4>5. f[n] \in Seq(X)
        BY <2>1
      <4> DEFINE y == f[n]
                 x == seq[n + 1]
                 z == Append(y, x)
      <4> HIDE DEF y, x
      <4>6. /\ Len(y) \in Nat /\ DOMAIN y = 1 .. Len(y) /\ DOMAIN z = 1 .. Len(y) + 1
            /\ z[Len(y) + 1] = x /\ \A i \in 1 .. Len(y) : z[i] = y[i] /\ y[i] # x
        BY <4>3, <4>5 DEF y, x
      <4>7. \A i, j \in 1 .. Len(y) : y[i] = y[j] => i = j
        BY <4>4, <4>6 DEF IsInjective, y
      <4> HIDE DEF z
      <4>8. \A i, j \in 1 .. Len(y) + 1 : z[i] = z[j] => i = j
        <5>1. \A i \in 1 .. Len(y) + 1 : i \in 1 .. Len(y) \/ i = Len(y) + 1
          BY <4>6
        <5> QED BY <4>6, <4>7, <5>1
      <4> QED BY <4>6, <4>8 DEF IsInjective, z, y, x
    <3> QED BY <2>1, <2>2, <2>3, <2>4, <3>1, <3>2, <3>3
  <2>5. CASE seq[n + 1] \notin S
    BY <2>1, <2>2, <2>3, <2>5
  <2> QED BY <2>4, <2>5
<1>5. N \in P
  <2> HIDE DEF P
  <2>1. Nat \subseteq P
    BY <1>3, <1>4, Counting
  <2> QED BY <1>1, <2>1
<1>6. ToSet(seq) = {seq[i] : i \in 1 .. N}
  BY DEF ToSet
<1> QED BY <1>1, <1>2, <1>5, <1>6

(* The last of seq that is in S is the last of what is among it.            *)
LEMMA LastAmong ==
  ASSUME NEW X, NEW seq \in Seq(X), NEW S, NEW k \in 1 .. Len(seq), seq[k] \in S,
         \A j \in k + 1 .. Len(seq) : seq[j] \notin S
  PROVE  Among(seq, S) # <<>> /\ Last(Among(seq, S)) = seq[k]
<1>0. PICK f : PicksUp(f, X, seq, S)
  BY AmongBuilt
<1> DEFINE N == Len(seq)
<1>1. N \in Nat /\ k \in Nat /\ k \in 1 .. N /\ seq[k] \in X
  BY LenProperties, ElementOfSeq
<1>2. /\ f \in [0 .. N -> Seq(X)]
      /\ f[0] = <<>>
      /\ \A n \in 1 .. N : f[n] = IF seq[n] \in S THEN Append(f[n - 1], seq[n]) ELSE f[n - 1]
      /\ Among(seq, S) = f[N]
  BY <1>0 DEF PicksUp
<1> DEFINE P == {n \in Nat : k + n <= N => f[k + n] # <<>> /\ Last(f[k + n]) = seq[k]}
<1>3. 0 \in P
  <2>1. k - 1 \in 0 .. N /\ k + 0 = k
    BY <1>1
  <2>2. f[k] = Append(f[k - 1], seq[k]) /\ f[k - 1] \in Seq(X)
    BY <1>1, <1>2, <2>1
  <2> QED BY <1>1, <2>1, <2>2 DEF Last
<1>4. ASSUME NEW n \in Nat, n \in P PROVE n + 1 \in P
  <2> SUFFICES ASSUME k + (n + 1) <= N PROVE f[k + (n + 1)] = f[k + n]
    BY <1>1, <1>4
  <2>1. k + (n + 1) \in 1 .. N /\ k + (n + 1) \in k + 1 .. N /\ (k + (n + 1)) - 1 = k + n
    BY <1>1
  <2> QED BY <1>2, <2>1
<1>5. N - k \in P /\ k + (N - k) = N
  <2> HIDE DEF P
  <2>1. Nat \subseteq P
    BY <1>3, <1>4, Counting
  <2> QED BY <1>1, <2>1
<1>6. N <= N
  BY <1>1
<1> QED BY <1>2, <1>5, <1>6

LEMMA FlattenBuilt ==
  ASSUME NEW X, NEW ss \in Seq(Seq(X))
  PROVE  \E f \in [0 .. Len(ss) -> Seq(X)] :
           /\ f[0] = <<>> /\ \A n \in 1 .. Len(ss) : f[n] = f[n - 1] \o ss[n]
           /\ FlattenSeq(ss) = f[Len(ss)]
<1> DEFINE N == Len(ss)
           Flattens(f) == f = [i \in 1 .. N |-> IF i = 1 THEN ss[i] ELSE f[i - 1] \o ss[i]]
           f == CHOOSE f : Flattens(f)
           G == [n \in 1 .. N |-> [y \in Seq(X) |-> y \o ss[n]]]
<1>1. N \in Nat /\ \A n \in 1 .. N : ss[n] \in Seq(X)
  OBVIOUS
<1>2. PICK g \in [0 .. N -> Seq(X)] : g[0] = <<>> /\ \A n \in 1 .. N : g[n] = g[n - 1] \o ss[n]
  <2>1. \A n \in 1 .. N : \A y \in Seq(X) : y \o ss[n] \in Seq(X)
    BY <1>1, Joined
  <2>2. Steps(G, Seq(X), N) /\ <<>> \in Seq(X)
    BY <2>1 DEF Steps
  <2>3. PICK g : Iterates(g, G, Seq(X), <<>>, N)
    <3> HIDE DEF G, N
    <3> QED BY <1>1, <2>2, Iterated
  <2>4. ASSUME NEW n \in 1 .. N PROVE g[n] = g[n - 1] \o ss[n]
    <3>1. n - 1 \in 0 .. N /\ n \in 1 .. N
      BY <1>1
    <3>2. g[n] = G[n][g[n - 1]] /\ g[n - 1] \in Seq(X)
      <4> HIDE DEF G, N
      <4> QED BY <2>3, <3>1 DEF Iterates
    <3> QED BY <3>2
  <2> QED BY <2>3, <2>4 DEF Iterates
<1>3. CASE N = 0
  <2>1. ss = <<>> /\ FlattenSeq(ss) = ss
    BY <1>3 DEF FlattenSeq
  <2> QED BY <1>2, <1>3, <2>1
<1>4. CASE N # 0
  <2>1. FlattenSeq(ss) = f[N]
    BY <1>4 DEF FlattenSeq
  <2>2. Flattens(f)
    <3> DEFINE h == [i \in 1 .. N |-> g[i]]
    <3>1. ASSUME NEW n \in 1 .. N PROVE h[n] = IF n = 1 THEN ss[n] ELSE h[n - 1] \o ss[n]
      <4>1. n # 1 => n - 1 \in 1 .. N
        BY <1>1
      <4>2. n = 1 => n - 1 = 0 /\ <<>> \o ss[n] = ss[n]
        BY <1>1
      <4> QED BY <1>2, <4>1, <4>2
    <3>2. Flattens(h)
      BY <3>1
    <3> QED BY <3>2
  <2> DEFINE P == {n \in Nat : n + 1 <= N => f[n + 1] = g[n + 1]}
  <2> HIDE DEF f
  <2>3. 0 \in P
    <3>1. 1 \in 1 .. N /\ 1 - 1 = 0 /\ <<>> \o ss[1] = ss[1] /\ 0 + 1 = 1
      BY <1>1, <1>4
    <3> QED BY <1>2, <2>2, <3>1
  <2>4. ASSUME NEW n \in Nat, n \in P PROVE n + 1 \in P
    <3>1. (n + 1) + 1 = n + 2 /\ n + 2 # 1 /\ (n + 2) - 1 = n + 1
      OBVIOUS
    <3> SUFFICES ASSUME n + 2 <= N PROVE f[n + 2] = g[n + 2]
      BY <3>1
    <3>2. f[n + 1] = g[n + 1] /\ n + 2 \in 1 .. N
      BY <1>1, <2>4
    <3>3. f[n + 2] = f[n + 1] \o ss[n + 2]
      BY <2>2, <3>1, <3>2
    <3>4. g[n + 2] = g[n + 1] \o ss[n + 2]
      BY <1>2, <3>1, <3>2
    <3> QED BY <3>2, <3>3, <3>4
  <2>5. N - 1 \in P
    <3>1. N - 1 \in Nat
      BY <1>1, <1>4
    <3> HIDE DEF P, N
    <3>2. Nat \subseteq P
      BY <2>3, <2>4, Counting
    <3> QED BY <3>1, <3>2
  <2>6. (N - 1) + 1 = N /\ N <= N
    BY <1>1
  <2>7. f[N] = g[N]
    BY <2>5, <2>6
  <2> QED BY <1>2, <2>1, <2>7
<1> QED BY <1>3, <1>4

LEMMA FlattenFacts ==
  ASSUME NEW X, NEW ss \in Seq(Seq(X))
  PROVE  /\ FlattenSeq(ss) \in Seq(X)
         /\ ToSet(FlattenSeq(ss)) = UNION {ToSet(ss[i]) : i \in 1 .. Len(ss)}
<1> DEFINE N == Len(ss)
<1>1. N \in Nat /\ \A n \in 1 .. N : ss[n] \in Seq(X)
  OBVIOUS
<1>2. PICK f \in [0 .. N -> Seq(X)] : /\ f[0] = <<>> /\ \A n \in 1 .. N : f[n] = f[n - 1] \o ss[n]
                                     /\ FlattenSeq(ss) = f[N]
  BY FlattenBuilt
<1> HIDE DEF N
<1> DEFINE P == {n \in Nat : n <= N => ToSet(f[n]) = UNION {ToSet(ss[i]) : i \in 1 .. n}}
<1>3. 0 \in P
  BY <1>2, Empty
<1>4. ASSUME NEW n \in Nat, n \in P PROVE n + 1 \in P
  <2> SUFFICES ASSUME n + 1 <= N PROVE ToSet(f[n + 1]) = UNION {ToSet(ss[i]) : i \in 1 .. n + 1}
    OBVIOUS
  <2>1. n \in 0 .. N /\ n + 1 \in 1 .. N /\ (n + 1) - 1 = n
    BY <1>1
  <2>2. f[n + 1] = f[n] \o ss[n + 1] /\ f[n] \in Seq(X) /\ ss[n + 1] \in Seq(X)
    BY <1>1, <1>2, <2>1
  <2>3. ToSet(f[n + 1]) = ToSet(f[n]) \cup ToSet(ss[n + 1])
    BY <2>2, Joined
  <2>4. {ToSet(ss[i]) : i \in 1 .. n + 1} = {ToSet(ss[i]) : i \in 1 .. n} \cup {ToSet(ss[n + 1])}
    <3>1. 1 .. n + 1 = (1 .. n) \cup {n + 1}
      OBVIOUS
    <3> QED BY <3>1
  <2>5. ToSet(f[n]) = UNION {ToSet(ss[i]) : i \in 1 .. n}
    BY <1>4, <2>1
  <2> QED BY <2>3, <2>4, <2>5
<1>5. N \in P
  <2> HIDE DEF P
  <2>1. Nat \subseteq P
    BY <1>3, <1>4, Counting
  <2> QED BY <1>1, <2>1
<1> QED BY <1>1, <1>2, <1>5 DEF N

-----------------------------------------------------------------------------
(* What is there, and what leads to a controller                            *)

(* All that leads to a device of S is in S.                                 *)
Climbs(S) == \A x \in S : At[x] \in Controllers \/ At[x] \in S

(* Devices that may have been seen since the session opened, and those of   *)
(* them that are not there any more                                         *)
Reached == UNION {S \in SUBSET (plugged \cup changed) : Climbs(S)}
Lost == Reached \ There

LEMMA AtFacts ==
  ASSUME NEW d \in Devices
  PROVE  /\ At[d] \in Owners
         /\ At[d] \notin Controllers => At[d] \in Devices /\ At[d] \in Routers
         /\ d \in Multipliers => At[d] \in Ahci
         /\ d \in Expanders \cup Ses => At[d] \in Isci \cup Expanders
BY CablingAssumption DEF Owners, Devices, Routers

(* The function that follows At within K is there, and is true of the       *)
(* largest part of K that climbs.                                           *)
Follows(f, K) == f = [x \in Devices |-> x \in K /\ (At[x] \in Controllers \/ f[At[x]])]

LEMMA FollowsSome ==
  ASSUME NEW K \in SUBSET Devices
  PROVE  \E f : Follows(f, K)
<1> DEFINE U == UNION {S \in SUBSET K : Climbs(S)}
           h == [x \in Devices |-> x \in U]
<1>1. Climbs(U)
  BY DEF Climbs
<1>2. ASSUME NEW x \in Devices PROVE (x \in U) = (x \in K /\ (At[x] \in Controllers \/ h[At[x]]))
  <2>1. CASE x \in U
    BY <1>1, <2>1, AtFacts DEF Climbs
  <2>2. ASSUME x \in K, At[x] \in Controllers \/ h[At[x]] PROVE x \in U
    <3>1. At[x] \in Controllers \/ At[x] \in U
      BY <2>2, AtFacts
    <3>2. Climbs(U \cup {x}) /\ U \cup {x} \subseteq K
      BY <1>1, <2>2, <3>1 DEF Climbs
    <3> QED BY <3>2
  <2> QED BY <2>1, <2>2
<1>3. Follows(h, K)
  <2> HIDE DEF U
  <2> QED BY <1>2 DEF Follows
<1> QED BY <1>3

LEMMA FollowsClimbs ==
  ASSUME NEW K \in SUBSET Devices, NEW f, Follows(f, K), NEW T, T = {d \in Devices : f[d]}
  PROVE  T \subseteq K /\ Climbs(T) /\ \A S \in SUBSET K : Climbs(S) => S \subseteq T
<1>1. \A x \in Devices : f[x] <=> x \in K /\ (At[x] \in Controllers \/ f[At[x]])
  BY DEF Follows
<1>2. T \subseteq K
  BY <1>1
<1>3. Climbs(T)
  BY <1>1, AtFacts DEF Climbs
<1>4. ASSUME NEW S \in SUBSET K, Climbs(S) PROVE S \subseteq T
  <2> SUFFICES ASSUME S \ T # {} PROVE FALSE
    OBVIOUS
  <2>1. PICK d \in S \ T : At[d] \notin S \ T
    BY TreeAssumption
  <2>2. At[d] \in Controllers \/ At[d] \in T
    BY <1>4, <2>1 DEF Climbs
  <2>3. d \in Devices /\ f[d]
    BY <1>1, <2>1, <2>2
  <2> QED BY <2>1, <2>3
<1> QED BY <1>2, <1>3, <1>4

LEMMA ThereFacts ==
  ASSUME plugged \subseteq Devices
  PROVE  /\ There \subseteq plugged
         /\ Climbs(There)
         /\ \A S \in SUBSET plugged : Climbs(S) => S \subseteq There
<1> DEFINE f == CHOOSE g : Follows(g, plugged)
<1>1. \A d : Present(d) = f[d]
  BY DEF Present, Follows
<1>2. There = {d \in Devices : f[d]}
  BY <1>1 DEF There
<1>3. Follows(f, plugged)
  BY FollowsSome
<1> HIDE DEF f
<1> QED BY <1>2, <1>3, FollowsClimbs

LEMMA ThereRule ==
  ASSUME plugged \subseteq Devices, NEW d \in Devices
  PROVE  d \in There <=> d \in plugged /\ (At[d] \in Controllers \/ At[d] \in There)
<1>1. There \subseteq plugged /\ Climbs(There) /\ \A S \in SUBSET plugged : Climbs(S) => S \subseteq There
  BY ThereFacts
<1>2. ASSUME d \in plugged, At[d] \in Controllers \/ At[d] \in There PROVE d \in There
  <2>1. Climbs(There \cup {d}) /\ There \cup {d} \subseteq plugged
    BY <1>1, <1>2 DEF Climbs
  <2> QED BY <1>1, <2>1
<1> QED BY <1>1, <1>2 DEF Climbs

LEMMA ReachedFacts ==
  ASSUME plugged \subseteq Devices, changed \subseteq Devices
  PROVE  /\ Reached \subseteq plugged \cup changed
         /\ Climbs(Reached)
         /\ There \subseteq Reached
<1>1. There \subseteq plugged /\ Climbs(There)
  BY ThereFacts
<1> QED BY <1>1 DEF Reached, Climbs

(* A device that is lost has been unplugged, or one that leads to it has.   *)
LEMMA LostRule ==
  ASSUME plugged \subseteq Devices, changed \subseteq Devices, NEW d \in Lost
  PROVE  d \in Devices /\ (d \in Unplugged \/ (At[d] \in Lost /\ At[d] \in Routers))
<1>1. d \in Devices /\ d \in plugged \cup changed /\ (At[d] \in Controllers \/ At[d] \in Reached) /\ d \notin There
  BY ReachedFacts DEF Lost, Climbs
<1>2. d \in plugged => At[d] \notin Controllers /\ At[d] \notin There
  BY <1>1, ThereRule
<1> QED BY <1>1, <1>2, AtFacts DEF Lost, Unplugged

ThereOK == plugged \subseteq Devices => There \subseteq plugged /\ Climbs(There)
LEMMA ThereNext == ThereOK'
<1>1. ThereOK
  BY ThereFacts DEF ThereOK
<1> QED BY <1>1, PTL

(* What was lost stays lost: no device comes back.                          *)
LEMMA LostStays ==
  ASSUME plugged \subseteq Devices, changed \subseteq Devices, NEW d \in Devices, Change(d)
  PROVE  Reached \subseteq Reached' /\ Lost \subseteq Lost'
<1>1. /\ d \notin changed /\ changed' = changed \cup {d}
      /\ plugged' = IF d \in plugged THEN plugged \ {d} ELSE plugged \cup {d}
  BY DEF Change
<1>2. plugged' \subseteq Devices /\ changed' \subseteq Devices /\ plugged \cup changed \subseteq plugged' \cup changed'
  BY <1>1
<1>3. Reached \subseteq Reached'
  BY <1>2 DEF Reached, Climbs
<1>4. There' \subseteq plugged' /\ \A x \in There' : At[x] \in Controllers \/ At[x] \in There'
  BY <1>2, ThereNext DEF ThereOK, Climbs
<1>5. SUFFICES ASSUME Lost \cap There' # {} PROVE FALSE
  BY <1>3 DEF Lost
<1>6. Lost \subseteq Devices
  BY LostRule
<1>7. PICK x \in Lost \cap There' : At[x] \notin Lost \cap There'
  BY <1>5, <1>6, TreeAssumption
<1>8. x \in plugged' /\ (At[x] \in Controllers \/ At[x] \in There') /\ x \in Devices
  BY <1>4, <1>6, <1>7
<1>9. x \in Reached /\ x \notin There /\ x \in plugged \cup changed
  BY <1>7, ReachedFacts DEF Lost
<1>10. x \in plugged
  BY <1>1, <1>8, <1>9
<1>11. At[x] \notin Controllers /\ At[x] \notin There
  BY <1>8, <1>9, <1>10, ThereRule
<1>12. At[x] \in Lost
  BY <1>9, <1>11, ReachedFacts DEF Lost, Climbs
<1> QED BY <1>7, <1>8, <1>11, <1>12

(* ... which is to blame on a device that was unplugged.                    *)
LEMMA Blamed ==
  ASSUME plugged \subseteq Devices, changed \subseteq Devices, NEW d \in Lost,
         At[d] \in Isci \cup Expanders
  PROVE  /\ \E x \in Unplugged : At[x] \in Isci \cup Expanders
         /\ d \in Expanders => Unplugged \cap Expanders # {}
<1> DEFINE Blame(K) == {x \in Lost : At[x] \in Isci \cup Expanders /\ x \in K}
<1>1. Lost \subseteq Devices
  BY LostRule
<1>2. ASSUME NEW K, Expanders \subseteq K, d \in K
      PROVE  \E x \in Unplugged : At[x] \in Isci \cup Expanders /\ x \in K
  <2>1. PICK x \in Blame(K) : At[x] \notin Blame(K)
    <3>1. Blame(K) # {} /\ Blame(K) \in SUBSET Devices
      BY <1>1, <1>2
    <3> HIDE DEF Blame
    <3> QED BY <3>1, TreeAssumption
  <2>2. CASE x \in Unplugged
    BY <2>1, <2>2
  <2>3. CASE At[x] \in Lost /\ At[x] \in Routers
    <3>1. At[x] \in Expanders /\ At[x] \in Devices
      BY <1>1, <2>1, <2>3, KindsAssumption DEF Controllers, Devices, Routers
    <3>2. At[At[x]] \in Isci \cup Expanders
      BY <3>1, AtFacts
    <3> QED BY <1>2, <2>1, <2>3, <3>1, <3>2
  <2> QED BY <2>1, <2>2, <2>3, LostRule
<1>3. \E x \in Unplugged : At[x] \in Isci \cup Expanders
  <2>1. Expanders \subseteq Devices /\ d \in Devices
    BY <1>1 DEF Devices, Routers
  <2> QED BY <1>2, <2>1
<1>4. d \in Expanders => Unplugged \cap Expanders # {}
  <2> SUFFICES ASSUME d \in Expanders PROVE \E x \in Unplugged : x \in Expanders
    OBVIOUS
  <2> QED BY <1>2
<1> QED BY <1>3, <1>4

-----------------------------------------------------------------------------
(* The controller at the end of the m_pParent chain                         *)

LEMMA RootRule ==
  ASSUME parent \in [Devices -> Owners \cup {None}], NEW o \in Owners \cup {None}
  PROVE  Root(o) = IF o \in Controllers \cup {None} THEN o ELSE Root(parent[o])
<1> DEFINE Ends == Controllers \cup {None}
           Ups(f) == f = [x \in Owners \cup {None} |-> IF x \in Ends THEN x ELSE f[parent[x]]]
           f == CHOOSE f : Ups(f)
<1>1. \A x : Root(x) = f[x]
  BY DEF Root
<1>2. Owners \cup {None} = Ends \cup Routers /\ Ends \cap Routers = {}
      /\ \A x \in Routers : parent[x] \in Ends \cup Routers
  BY KindsAssumption DEF Owners, Routers, Devices
<1>3. Ups(f)
  <2> DEFINE Closed(S, c) == c \in S /\ \A x \in Routers : parent[x] \in S => x \in S
             Below(c) == {x \in Ends \cup Routers : \A S : Closed(S, c) => x \in S}
             g == [x \in Ends \cup Routers |-> CHOOSE c \in Ends : x \in Below(c)]
  <2>1. ASSUME NEW c \in Ends, NEW x \in Ends PROVE x \in Below(c) <=> x = c
    <3>1. Closed({c} \cup Routers, c)
      OBVIOUS
    <3> QED BY <1>2, <3>1
  <2>2. ASSUME NEW c \in Ends, NEW x \in Routers PROVE x \in Below(c) <=> parent[x] \in Below(c)
    <3>1. Closed(Below(c), c)
      BY <1>2
    <3>2. ASSUME x \in Below(c), parent[x] \notin Below(c) PROVE FALSE
      <4>1. x # c
        BY <1>2
      <4>2. Closed(Below(c) \ {x}, c)
        BY <3>1, <3>2, <4>1
      <4> QED BY <3>2, <4>2
    <3> QED BY <3>1, <3>2
  <2> HIDE DEF Below
  <2>3. ASSUME NEW x \in Ends PROVE g[x] = x
    BY <2>1, <2>3
  <2>4. ASSUME NEW x \in Routers PROVE g[x] = g[parent[x]]
    <3>1. \A c \in Ends : x \in Below(c) <=> parent[x] \in Below(c)
      BY <2>2, <2>4
    <3>2. (CHOOSE c \in Ends : x \in Below(c)) = (CHOOSE c \in Ends : parent[x] \in Below(c))
      <4> HIDE DEF Ends
      <4> QED BY <3>1
    <3>3. g[x] = CHOOSE c \in Ends : x \in Below(c)
      OBVIOUS
    <3>4. parent[x] \in Ends \cup Routers
      BY <1>2
    <3>5. g[parent[x]] = CHOOSE c \in Ends : parent[x] \in Below(c)
      BY <3>4
    <3> QED BY <3>2, <3>3, <3>5
  <2>5. Ups(g)
    <3>1. g = [x \in Ends \cup Routers |-> g[x]]
      OBVIOUS
    <3> HIDE DEF g, Ends
    <3>2. \A x \in Ends \cup Routers : g[x] = IF x \in Ends THEN x ELSE g[parent[x]]
      BY <2>3, <2>4
    <3>3. g = [x \in Ends \cup Routers |-> IF x \in Ends THEN x ELSE g[parent[x]]]
      BY <3>1, <3>2
    <3>4. Owners \cup {None} = Ends \cup Routers
      BY <1>2
    <3> QED BY <3>3, <3>4, ZenonT(40)
  <2> QED BY <2>5
<1> QED BY <1>1, <1>3

-----------------------------------------------------------------------------
(* What a task is about                                                     *)

Hosts == Isci \cup Expanders

(* The devices at the other end of the phys of o; an expander names its way *)
(* up by itself.                                                            *)
Far(o) == {d \in Devices : At[d] = o} \cup ({o} \cap Expanders)

ListTask == {"list", "ports"} \X Hosts
PhyTask == {t \in {"phy", "create"} \X Hosts \X Devices \X (1 .. Lanes) : t[3] \in Far(t[2])}
PortTask == {t \in {"port"} \X Hosts \X Devices : t[3] \in Far(t[2])}
AttachTask == {t \in {"attach"} \X Hosts \X Expanders : t[3] \in Far(t[2])}
EndTask == {t \in {"end"} \X Hosts \X (Disks \cup Ses) : At[t[3]] = t[2]}
VmdTask == {t \in {"readdir"} \X Vmd \X Vmd : t[3] = t[2]}
AhciTask == {t \in {"readdir"} \X Ahci \X (Disks \cup Multipliers) : At[t[3]] = t[2]}
VmdStat == {t \in {"stat"} \X Vmd \X Vmd \X Seq(Disks) : t[3] = t[2] /\ \A x \in ToSet(t[4]) : At[x] = t[2]}
AhciStat ==
  {t \in {"stat"} \X Ahci \X (Disks \cup Multipliers) \X Seq(Disks) :
     /\ At[t[3]] = t[2]
     /\ t[3] \in Disks => Len(t[4]) <= 1
     /\ \A x \in ToSet(t[4]) : x = t[3] \/ At[x] = t[3]}
NvmeTask == {t \in {"nvme"} \X Vmd \X Disks : At[t[3]] = t[2]}
DiskTask ==
  {t \in {"disk"} \X (Ahci \cup Vmd) \X Disks \X (Disks \cup Multipliers) :
     At[t[4]] = t[2] /\ (t[3] = t[4] \/ At[t[3]] = t[4])}
MemberTask == {t \in {"member"} \X Multipliers \X Disks : At[t[3]] = t[2]}
MultiplierTask == {t \in {"multiplier"} \X Ahci \X Multipliers : At[t[3]] = t[2]}
AddTask == {"add"} \X Controllers

Task ==
  ListTask \cup PhyTask \cup PortTask \cup AttachTask \cup EndTask \cup VmdTask \cup AhciTask \cup VmdStat
    \cup AhciStat \cup NvmeTask \cup DiskTask \cup MemberTask \cup MultiplierTask \cup AddTask

LEMMA TaskKinds ==
  ASSUME NEW t \in Task
  PROVE  /\ t[1] \in {"list", "ports"} => t \in ListTask
         /\ t[1] \in {"phy", "create"} => t \in PhyTask
         /\ t[1] = "port" => t \in PortTask
         /\ t[1] = "attach" => t \in AttachTask
         /\ t[1] = "end" => t \in EndTask
         /\ t[1] = "readdir" => t \in VmdTask \cup AhciTask
         /\ t[1] = "stat" => t \in VmdStat \cup AhciStat
         /\ t[1] = "nvme" => t \in NvmeTask
         /\ t[1] = "disk" => t \in DiskTask
         /\ t[1] = "member" => t \in MemberTask
         /\ t[1] = "multiplier" => t \in MultiplierTask
         /\ t[1] = "add" => t \in AddTask
BY DEF Task, ListTask, PhyTask, PortTask, AttachTask, EndTask, VmdTask, AhciTask, VmdStat, AhciStat,
       NvmeTask, DiskTask, MemberTask, MultiplierTask, AddTask

LEMMA PluggedFacts ==
  ASSUME NEW o
  PROVE  /\ Plugged(o) \in Seq({d \in Devices : At[d] = o})
         /\ ToSet(Plugged(o)) = {d \in Devices : At[d] = o}
<1> DEFINE D == {d \in Devices : At[d] = o}
<1>1. Plugged(o) = Among(Order, D)
  BY DEF Plugged
<1>2. Order \in Seq(Controllers \cup Devices) /\ D \subseteq ToSet(Order)
  BY OrderAssumption
<1>3. /\ Among(Order, D) \in Seq(Controllers \cup Devices)
      /\ ToSet(Among(Order, D)) = ToSet(Order) \cap D
  <2> HIDE DEF D
  <2> QED BY <1>2, AmongFacts
<1> HIDE DEF D
<1>4. ToSet(Plugged(o)) = D
  BY <1>1, <1>2, <1>3
<1>5. Plugged(o) \in Seq(D)
  BY <1>1, <1>3, <1>4, Narrowed
<1> QED BY <1>4, <1>5 DEF D

OwnPhy(o) == {t \in PhyTask : t[1] = "phy" /\ t[2] = o}
OwnPort(o) == {t \in PortTask : t[2] = o}

LEMMA PhysToFacts ==
  ASSUME NEW o \in Hosts, NEW d \in Far(o)
  PROVE  /\ PhysTo(o, d) \in Seq(OwnPhy(o))
         /\ Len(PhysTo(o, d)) >= 1 /\ PhysTo(o, d)[1] = Phy(o, d, 1)
<1> DEFINE N == IF d \in Expanders THEN Lanes ELSE 1
<1>1. N \in Nat \ {0} /\ 1 .. N \subseteq 1 .. Lanes /\ 1 \in 1 .. N
  BY LanesAssumption
<1>2. PhysTo(o, d) = [n \in 1 .. N |-> Phy(o, d, n)]
  BY DEF PhysTo
<1>3. d \in Devices
  BY DEF Far, Devices, Routers
<1>4. ASSUME NEW n \in 1 .. N PROVE Phy(o, d, n) \in OwnPhy(o)
  BY <1>1, <1>3, <1>4 DEF Phy, OwnPhy, PhyTask
<1>5. [n \in 1 .. N |-> Phy(o, d, n)] \in Seq(OwnPhy(o))
  <2> HIDE DEF N
  <2> QED BY <1>1, <1>4
<1>6. Len(PhysTo(o, d)) = N /\ PhysTo(o, d)[1] = Phy(o, d, 1)
  <2> HIDE DEF N
  <2> QED BY <1>1, <1>2
<1> QED BY <1>1, <1>2, <1>5, <1>6

LEMMA PhysOfFacts ==
  ASSUME NEW o \in Hosts
  PROVE  /\ PhysOf(o) \in Seq(OwnPhy(o))
         /\ o \in Expanders => Len(PhysOf(o)) >= 1 /\ PhysOf(o)[1] = Phy(o, o, 1)
<1> DEFINE up == IF o \in Expanders THEN PhysTo(o, o) ELSE <<>>
           each == [i \in DOMAIN Plugged(o) |-> PhysTo(o, Plugged(o)[i])]
<1>1. PhysOf(o) = up \o FlattenSeq(each)
  BY DEF PhysOf
<1>2. up \in Seq(OwnPhy(o)) /\ (o \in Expanders => Len(up) >= 1 /\ up[1] = Phy(o, o, 1))
  <2>1. CASE o \in Expanders
    <3>1. o \in Far(o)
      BY <2>1 DEF Far
    <3> QED BY <2>1, <3>1, PhysToFacts
  <2>2. CASE o \notin Expanders
    BY <2>2
  <2> QED BY <2>1, <2>2
<1>3. each \in Seq(Seq(OwnPhy(o)))
  <2>1. \A i \in DOMAIN Plugged(o) : Plugged(o)[i] \in Far(o)
    <3> DEFINE D == {d \in Devices : At[d] = o}
    <3>1. Plugged(o) \in Seq(D)
      BY PluggedFacts
    <3>2. D \subseteq Far(o)
      BY DEF Far
    <3> HIDE DEF D
    <3> QED BY <3>1, <3>2
  <2>2. \A i \in DOMAIN Plugged(o) : PhysTo(o, Plugged(o)[i]) \in Seq(OwnPhy(o))
    BY <2>1, PhysToFacts
  <2>3. DOMAIN Plugged(o) = 1 .. Len(Plugged(o)) /\ Len(Plugged(o)) \in Nat
    BY PluggedFacts
  <2> QED BY <2>2, <2>3
<1>4. FlattenSeq(each) \in Seq(OwnPhy(o))
  <2> HIDE DEF each
  <2> QED BY <1>3, FlattenFacts
<1> HIDE DEF up, each
<1> QED BY <1>1, <1>2, <1>4

-----------------------------------------------------------------------------
(* The types                                                                *)

Scopes == [ends : Seq(Disks), allEnds : Seq(Disks), routers : Seq(Routers), allRouters : Seq(Routers)]

CablingType ==
  /\ plugged \subseteq Devices
  /\ changed \subseteq Devices /\ IsFiniteSet(changed) /\ Cardinality(changed) <= MaxChanges
  /\ status \in {"scan", "open", "failed", "crashed"}
TodoType == todo \in Seq(Task)
WiringType ==
  /\ phys \in [Owners -> Seq(Objects)]
  /\ ports \in [Owners -> Seq(Objects)]
  /\ \A o \in Hosts : ports[o] \in Seq(OwnPort(o))
  /\ wires \subseteq Objects \X Objects
  /\ joined \subseteq Objects \X Objects
  /\ subtractive \subseteq Routers
TreeType ==
  /\ parent \in [Devices -> Owners \cup {None}]
  /\ scope \in [Owners -> Scopes]
BoxesType ==
  /\ enclosures \in [Controllers -> Seq(Ses)]
  /\ lister \in [Ses -> Expanders \cup {None}]
  /\ mounted \in [Expanders -> Ses \cup {None}]
  /\ members \in [Ses -> Seq(Disks)]
  /\ box \in [Disks -> Ses \cup {None}]
  /\ \A c \in Controllers : \A s \in ToSet(enclosures[c]) : lister[s] \in Expanders
Types == CablingType /\ TodoType /\ WiringType /\ TreeType /\ BoxesType

LEMMA HeadFacts ==
  ASSUME TodoType, NEW what, Doing(what)
  PROVE  /\ Head(todo) \in Task /\ Tail(todo) \in Seq(Task)
         /\ Head(todo)[1] = what
BY DEF TodoType, Doing

LEMMA Continued ==
  ASSUME TodoType, todo # <<>>, NEW tasks \in Seq(Task), Continue(tasks)
  PROVE  TodoType'
<1>1. Tail(todo) \in Seq(Task)
  BY DEF TodoType
<1>2. tasks \o Tail(todo) \in Seq(Task)
  BY <1>1, Joined
<1> QED BY <1>2 DEF Continue, TodoType

LEMMA Stopped ==
  ASSUME Types, NEW how \in {"failed", "crashed"}, Stop(how)
  PROVE  Types'
<1>1. CablingType'
  BY DEF Stop, Types, CablingType, cabling
<1>2. TodoType'
  BY DEF Stop, TodoType
<1>3. WiringType' /\ TreeType' /\ BoxesType'
  BY DEF Stop, Types, WiringType, TreeType, BoxesType, wiring, tree, boxes
<1> QED BY <1>1, <1>2, <1>3 DEF Types

LEMMA PhyObject ==
  ASSUME NEW o \in Owners \cup Devices, NEW d \in Devices, NEW n \in 1 .. Lanes
  PROVE  Phy(o, d, n) \in Objects /\ Phy(d, d, 1) \in Objects
BY LanesAssumption DEF Objects

LEMMA PortObject ==
  ASSUME NEW o \in Owners \cup Devices, NEW d \in Devices
  PROVE  Port(o, d) \in Objects
BY DEF Objects

LEMMA TaskSets ==
  /\ ListTask \subseteq Task /\ PhyTask \subseteq Task /\ PortTask \subseteq Task
  /\ AttachTask \subseteq Task /\ EndTask \subseteq Task /\ VmdTask \subseteq Task /\ AhciTask \subseteq Task
  /\ VmdStat \subseteq Task /\ AhciStat \subseteq Task /\ NvmeTask \subseteq Task /\ DiskTask \subseteq Task
  /\ MemberTask \subseteq Task /\ MultiplierTask \subseteq Task /\ AddTask \subseteq Task
BY DEF Task

LEMMA KindFacts ==
  /\ Disks \subseteq Devices /\ Ses \subseteq Devices /\ Routers \subseteq Devices
  /\ Expanders \subseteq Routers /\ Multipliers \subseteq Routers
  /\ Hosts \subseteq Owners /\ Controllers \subseteq Owners /\ Routers \subseteq Owners
  /\ Isci \subseteq Controllers /\ Ahci \subseteq Controllers /\ Vmd \subseteq Controllers
  /\ Controllers \cap Devices = {} /\ Disks \cap Ses = {} /\ Disks \cap Routers = {} /\ Ses \cap Routers = {}
  /\ Expanders \cap Multipliers = {} /\ Ahci \cap Isci = {} /\ Ahci \cap Vmd = {} /\ Isci \cap Vmd = {}
  /\ None \notin Devices /\ None \notin Controllers /\ None \notin Owners
  /\ Devices = Disks \cup Ses \cup Routers /\ Routers = Expanders \cup Multipliers /\ Owners = Controllers \cup Routers
  /\ Controllers = Ahci \cup Isci \cup Vmd
BY KindsAssumption DEF Devices, Routers, Owners, Controllers, Hosts

-----------------------------------------------------------------------------
(* ... which each step keeps                                                *)

LEMMA TypesChange ==
  ASSUME Types, NEW d \in Devices, Change(d)
  PROVE  Types'
<1>1. CablingType'
  <2>1. IsFiniteSet(changed \cup {d}) /\ Cardinality(changed \cup {d}) = Cardinality(changed) + 1
    BY FS_AddElement DEF Types, CablingType, Change
  <2>2. Cardinality(changed) \in Nat /\ Cardinality(changed) < MaxChanges /\ MaxChanges \in Nat
    BY FS_CardinalityType, BoundsAssumption DEF Types, CablingType, Change
  <2> QED BY <2>1, <2>2 DEF Types, CablingType, Change
<1>2. TodoType' /\ WiringType' /\ TreeType' /\ BoxesType'
  BY DEF Change, Types, TodoType, WiringType, TreeType, BoxesType, wiring, tree, boxes
<1> QED BY <1>1, <1>2 DEF Types

LEMMA TypesList ==
  ASSUME Types, Doing("list"), ListPhys(Owner)
  PROVE  Types'
<1>1. Owner \in Hosts /\ todo # <<>>
  BY HeadFacts, TaskKinds DEF Types, ListTask, Owner, Doing
<1> DEFINE o == Owner
<1>2. PhysOf(o) \in Seq(OwnPhy(o))
  BY <1>1, PhysOfFacts
<1>3. OwnPhy(o) \subseteq Task /\ OwnPhy(o) \subseteq Objects
  <2>1. ASSUME NEW t \in OwnPhy(o) PROVE t \in Objects
    <3>1. t = <<"phy", t[2], t[3], t[4]>> /\ t[2] \in Hosts /\ t[3] \in Devices /\ t[4] \in 1 .. Lanes
      BY DEF OwnPhy, PhyTask
    <3>2. Phy(t[2], t[3], t[4]) \in Objects
      BY <3>1, PhyObject, KindFacts
    <3>3. t = Phy(t[2], t[3], t[4])
      BY <3>1 DEF Phy
    <3> QED BY <3>2, <3>3, Zenon
  <2> QED BY <2>1, TaskSets DEF OwnPhy
<1>4. CablingType' /\ TreeType' /\ BoxesType'
  BY DEF ListPhys, Continue, Types, CablingType, TreeType, BoxesType, cabling, tree, boxes
<1>5. TodoType'
  <2>1. PhysOf(o) \in Seq(Task) /\ <<"ports", o>> \in Task
    BY <1>1, <1>2, <1>3, SeqMonotonic, TaskSets DEF ListTask
  <2>2. PhysOf(o) \o << <<"ports", o>> >> \in Seq(Task) /\ <<>> \in Seq(Task)
    BY <2>1, Joined, Singleton, Empty
  <2> HIDE DEF o
  <2> QED BY <1>1, <2>2, Continued DEF Types, ListPhys, o
<1>6. WiringType'
  <2>1. PhysOf(o) \in Seq(Objects)
    BY <1>2, <1>3, SeqMonotonic
  <2> HIDE DEF o
  <2>2. phys' = phys \/ phys' = [phys EXCEPT ![o] = PhysOf(o)]
    BY DEF ListPhys, o
  <2>3. ports' = ports /\ wires' = wires /\ joined' = joined /\ subtractive' = subtractive
    BY DEF ListPhys
  <2> QED BY <2>1, <2>2, <2>3 DEF Types, WiringType
<1> QED BY <1>4, <1>5, <1>6 DEF Types

LEMMA PhyTaskFacts ==
  ASSUME NEW t \in PhyTask
  PROVE  /\ t[2] \in Hosts /\ t[3] \in Devices /\ t[4] \in 1 .. Lanes /\ t[3] \in Far(t[2])
         /\ Port(t[2], t[3]) \in OwnPort(t[2]) /\ Port(t[2], t[3]) \in Objects
         /\ Phy(t[2], t[3], t[4]) \in Objects
         /\ <<"create", t[2], t[3], t[4]>> \in Task
<1>1. t[2] \in Hosts /\ t[3] \in Devices /\ t[4] \in 1 .. Lanes /\ t[3] \in Far(t[2])
  BY DEF PhyTask
<1>2. Port(t[2], t[3]) \in OwnPort(t[2])
  BY <1>1 DEF OwnPort, PortTask, Port
<1>3. Port(t[2], t[3]) \in Objects /\ Phy(t[2], t[3], t[4]) \in Objects
  BY <1>1, PhyObject, PortObject, KindFacts
<1>4. <<"create", t[2], t[3], t[4]>> \in Task
  BY <1>1, TaskSets DEF PhyTask
<1> QED BY <1>1, <1>2, <1>3, <1>4

LEMMA PortAdded ==
  ASSUME WiringType, NEW o \in Owners, NEW x \in Objects, o \in Hosts => x \in OwnPort(o),
         ports' = ports \/ ports' = [ports EXCEPT ![o] = Append(@, x)]
  PROVE  ports' \in [Owners -> Seq(Objects)] /\ \A h \in Hosts : ports'[h] \in Seq(OwnPort(h))
<1>1. CASE ports' = ports
  BY <1>1 DEF WiringType
<1>2. CASE ports' = [ports EXCEPT ![o] = Append(@, x)]
  <2>1. ports[o] \in Seq(Objects) /\ Append(ports[o], x) \in Seq(Objects)
    BY DEF WiringType
  <2>2. o \in Hosts => Append(ports[o], x) \in Seq(OwnPort(o))
    BY DEF WiringType
  <2>3. ports' \in [Owners -> Seq(Objects)]
    BY <1>2, <2>1 DEF WiringType
  <2>4. ASSUME NEW h \in Hosts PROVE ports'[h] \in Seq(OwnPort(h))
    <3>1. ports'[h] = IF h = o THEN Append(ports[o], x) ELSE ports[h]
      BY <1>2, KindFacts DEF WiringType
    <3> QED BY <2>2, <3>1 DEF WiringType
  <2> QED BY <2>3, <2>4
<1> QED BY <1>1, <1>2

LEMMA TypesPhy ==
  ASSUME Types, Doing("phy"), ReadPhy(Owner, Device, Argument)
  PROVE  Types'
<1> DEFINE o == Owner
           d == Device
           n == Argument
<1>1. Head(todo) \in PhyTask /\ todo # <<>>
  BY HeadFacts, TaskKinds DEF Types, Doing
<1>2. /\ o \in Hosts /\ d \in Devices /\ n \in 1 .. Lanes /\ Port(o, d) \in OwnPort(o) /\ Port(o, d) \in Objects
      /\ Phy(o, d, n) \in Objects /\ <<"create", o, d, n>> \in Task
  BY <1>1, PhyTaskFacts DEF Owner, Device, Argument
<1>3. CablingType' /\ TreeType' /\ BoxesType'
  BY DEF ReadPhy, Continue, Types, CablingType, TreeType, BoxesType, cabling, tree, boxes
<1>4. TodoType'
  <2>1. Continue(<<>>) \/ Continue(<< <<"create", o, d, n>> >>)
    BY DEF ReadPhy
  <2>2. <<>> \in Seq(Task) /\ << <<"create", o, d, n>> >> \in Seq(Task)
    BY <1>2, Singleton, Empty
  <2> HIDE DEF o, d, n
  <2> QED BY <1>1, <2>1, <2>2, Continued DEF Types
<1>5. WiringType'
  <2>1. ports' = ports \/ ports' = [ports EXCEPT ![o] = Append(@, Port(o, d))]
    BY DEF ReadPhy
  <2>2. wires' \subseteq wires \cup {<<Phy(o, d, n), Port(o, d)>>}
    BY DEF ReadPhy
  <2>3. phys' = phys /\ joined' = joined /\ subtractive' = subtractive
    BY DEF ReadPhy
  <2> HIDE DEF o, d, n
  <2>4. ports' \in [Owners -> Seq(Objects)] /\ \A h \in Hosts : ports'[h] \in Seq(OwnPort(h))
    BY <1>2, <2>1, PortAdded, KindFacts DEF Types
  <2> QED BY <1>2, <2>2, <2>3, <2>4 DEF Types, WiringType
<1> QED BY <1>3, <1>4, <1>5 DEF Types

LEMMA TypesCreate ==
  ASSUME Types, Doing("create"), CreatePort(Owner, Device, Argument)
  PROVE  Types'
<1> DEFINE o == Owner
           d == Device
           n == Argument
<1>1. Head(todo) \in PhyTask /\ todo # <<>>
  BY HeadFacts, TaskKinds DEF Types, Doing
<1>2. /\ o \in Hosts /\ d \in Devices /\ n \in 1 .. Lanes /\ Port(o, d) \in OwnPort(o) /\ Port(o, d) \in Objects
      /\ Phy(o, d, n) \in Objects /\ d \in Far(o)
  BY <1>1, PhyTaskFacts DEF Owner, Device, Argument
<1>3. CablingType' /\ TreeType' /\ BoxesType'
  BY DEF CreatePort, Continue, Types, CablingType, TreeType, BoxesType, cabling, tree, boxes
<1>4. TodoType'
  <2>1. Continue(<<>>) /\ <<>> \in Seq(Task)
    BY Empty DEF CreatePort
  <2> QED BY <1>1, <2>1, Continued DEF Types
<1>5. WiringType'
  <2>1. ports' = ports \/ ports' = [ports EXCEPT ![o] = Append(@, Port(o, d))]
    BY DEF CreatePort
  <2>2. wires' = wires \cup {<<Phy(o, d, n), Port(o, d)>>}
    BY DEF CreatePort
  <2>3. phys' = phys /\ joined' = joined /\ (subtractive' = subtractive \/ (subtractive' = subtractive \cup {o} /\ o = d))
    BY DEF CreatePort
  <2> HIDE DEF o, d, n
  <2>4. ports' \in [Owners -> Seq(Objects)] /\ \A h \in Hosts : ports'[h] \in Seq(OwnPort(h))
    BY <1>2, <2>1, PortAdded, KindFacts DEF Types
  <2>5. subtractive' \subseteq Routers
    BY <1>2, <2>3, KindFacts DEF Hosts, Types, WiringType
  <2> QED BY <1>2, <2>2, <2>3, <2>4, <2>5 DEF Types, WiringType
<1> QED BY <1>3, <1>4, <1>5 DEF Types

LEMMA TypesPorts ==
  ASSUME Types, Doing("ports"), ListPorts(Owner)
  PROVE  Types'
<1>1. Owner \in Hosts /\ todo # <<>>
  BY HeadFacts, TaskKinds DEF Types, ListTask, Owner, Doing
<1>2. ports[Owner] \in Seq(OwnPort(Owner)) /\ OwnPort(Owner) \subseteq Task
  BY <1>1, TaskSets DEF Types, WiringType, OwnPort
<1>3. ports[Owner] \in Seq(Task)
  BY <1>2, SeqMonotonic
<1>4. TodoType'
  BY <1>1, <1>3, Continued DEF Types, ListPorts
<1>5. CablingType' /\ WiringType' /\ TreeType' /\ BoxesType'
  BY DEF ListPorts, Continue, Types, CablingType, WiringType, TreeType, BoxesType, cabling, wiring, tree, boxes
<1> QED BY <1>4, <1>5 DEF Types

LEMMA PortTaskFacts ==
  ASSUME NEW t \in PortTask
  PROVE  /\ t[2] \in Hosts /\ t[3] \in Devices /\ t[3] \in Far(t[2])
         /\ t[3] \in Expanders => << <<"list", t[3]>>, <<"attach", t[2], t[3]>> >> \in Seq(Task)
         /\ t[3] \notin Expanders => At[t[3]] = t[2] /\ << <<"end", t[2], t[3]>> >> \in Seq(Task)
<1>1. t[2] \in Hosts /\ t[3] \in Devices /\ t[3] \in Far(t[2])
  BY DEF PortTask
<1>2. ASSUME t[3] \in Expanders PROVE << <<"list", t[3]>>, <<"attach", t[2], t[3]>> >> \in Seq(Task)
  <2>1. <<"list", t[3]>> \in ListTask
    BY <1>2 DEF ListTask, Hosts
  <2>2. <<"attach", t[2], t[3]>> \in AttachTask
    BY <1>1, <1>2 DEF AttachTask
  <2>3. <<"list", t[3]>> \in Task /\ <<"attach", t[2], t[3]>> \in Task
    BY <2>1, <2>2, TaskSets
  <2> QED BY <2>3
<1>3. ASSUME t[3] \notin Expanders PROVE At[t[3]] = t[2] /\ << <<"end", t[2], t[3]>> >> \in Seq(Task)
  <2>1. At[t[3]] = t[2]
    BY <1>1, <1>3 DEF Far
  <2>2. t[3] \notin Multipliers
    BY <1>1, <2>1, AtFacts, KindFacts DEF Hosts
  <2>3. t[3] \in Disks \cup Ses
    BY <1>1, <1>3, <2>2, KindFacts
  <2>4. <<"end", t[2], t[3]>> \in EndTask
    BY <1>1, <2>1, <2>3 DEF EndTask
  <2> QED BY <2>1, <2>4, TaskSets, Singleton
<1> QED BY <1>1, <1>2, <1>3

LEMMA ParentSet ==
  ASSUME TreeType, NEW d \in Devices, NEW o \in Owners, parent' = [parent EXCEPT ![d] = o]
  PROVE  parent' \in [Devices -> Owners \cup {None}]
BY DEF TreeType

LEMMA TypesPort ==
  ASSUME Types, Doing("port"), DiscoverPort(Owner, Device)
  PROVE  Types'
<1> DEFINE o == Owner
           d == Device
<1>1. Head(todo) \in PortTask /\ todo # <<>>
  BY HeadFacts, TaskKinds DEF Types, Doing
<1>2. /\ o \in Hosts /\ d \in Devices
      /\ d \in Expanders => << <<"list", d>>, <<"attach", o, d>> >> \in Seq(Task)
      /\ d \notin Expanders => << <<"end", o, d>> >> \in Seq(Task)
  BY <1>1, PortTaskFacts DEF Owner, Device
<1>3. CASE ~Present(d)
  BY <1>3, Stopped DEF DiscoverPort
<1>4. CASE Present(d)
  <2>1. CablingType' /\ WiringType' /\ BoxesType'
    BY <1>4 DEF DiscoverPort, Continue, Types, CablingType, WiringType, BoxesType, cabling, wiring, boxes
  <2>2. TodoType'
    <3>1. \/ d \in Expanders /\ Continue(<< <<"list", d>>, <<"attach", o, d>> >>)
          \/ d \notin Expanders /\ Continue(<< <<"end", o, d>> >>)
      BY <1>4 DEF DiscoverPort
    <3> HIDE DEF o, d
    <3> QED BY <1>1, <1>2, <3>1, Continued DEF Types
  <2>3. TreeType'
    <3>1. scope' = scope /\ (parent' = parent \/ parent' = [parent EXCEPT ![d] = o])
      BY <1>4 DEF DiscoverPort
    <3> HIDE DEF o, d
    <3> QED BY <1>2, <3>1, ParentSet, KindFacts DEF Types, TreeType
  <2> QED BY <2>1, <2>2, <2>3 DEF Types
<1> QED BY <1>3, <1>4

LEMMA EndsAdded ==
  ASSUME TreeType, NEW o \in Owners, NEW d \in Disks, AttachEndDevice(o, d)
  PROVE  scope' \in [Owners -> Scopes]
<1>1. scope[o] \in Scopes
  BY DEF TreeType
<1>2. Append(scope[o].ends, d) \in Seq(Disks)
  BY <1>1 DEF Scopes
<1>3. [scope[o] EXCEPT !.ends = Append(scope[o].ends, d)] \in Scopes
  BY <1>1, <1>2 DEF Scopes
<1>4. scope' = [scope EXCEPT ![o] = [scope[o] EXCEPT !.ends = Append(scope[o].ends, d)]]
  BY DEF AttachEndDevice, TreeType
<1> QED BY <1>3, <1>4 DEF TreeType

(* What attaching a routing device does to the scope of its owner           *)
LEMMA RouterAdded ==
  ASSUME TreeType, NEW o \in Owners, NEW r \in Routers, AttachRoutingDevice(o, r)
  PROVE  /\ scope' \in [Owners -> Scopes]
         /\ scope'[o].ends = scope[o].ends
         /\ scope'[o].routers = Append(scope[o].routers, r)
         /\ scope'[o].allEnds = scope[o].allEnds \o scope[r].ends \o scope[r].allEnds
         /\ scope'[o].allRouters = scope[o].allRouters \o scope[r].routers \o scope[r].allRouters
         /\ \A x \in Owners \ {o} : scope'[x] = scope[x]
<1> DEFINE old == scope[o]
           A == Append(scope[o].routers, r)
           B == scope[o].allEnds \o scope[r].ends \o scope[r].allEnds
           C == scope[o].allRouters \o scope[r].routers \o scope[r].allRouters
           step == [old EXCEPT !.routers = A, !.allEnds = B, !.allRouters = C]
<1>1. scope[o] \in Scopes /\ scope[r] \in Scopes
  BY KindFacts DEF TreeType
<1>2. A \in Seq(Routers) /\ B \in Seq(Disks) /\ C \in Seq(Routers)
  BY <1>1 DEF Scopes
<1>3. scope' = [scope EXCEPT ![o] = step]
  BY <1>1 DEF AttachRoutingDevice, TreeType, Scopes
<1>4. old \in Scopes
  BY <1>1
<1> HIDE DEF A, B, C, old
<1>5. step.ends = old.ends /\ step.routers = A /\ step.allEnds = B /\ step.allRouters = C
  BY <1>4 DEF Scopes
<1>6. step \in Scopes
  BY <1>2, <1>4 DEF Scopes
<1> HIDE DEF step
<1>7. scope' \in [Owners -> Scopes] /\ scope'[o] = step /\ \A x \in Owners \ {o} : scope'[x] = scope[x]
  BY <1>3, <1>6 DEF TreeType
<1> QED BY <1>5, <1>7 DEF A, B, C, old

LEMMA TypesAttach ==
  ASSUME Types, Doing("attach"), AttachExpander(Owner, Device)
  PROVE  Types'
<1> DEFINE o == Owner
           e == Device
<1>1. Head(todo) \in AttachTask /\ todo # <<>>
  BY HeadFacts, TaskKinds DEF Types, Doing
<1>2. o \in Hosts /\ e \in Expanders
  BY <1>1 DEF AttachTask, Owner, Device
<1>3. CASE e \notin subtractive
  BY <1>3, Stopped DEF AttachExpander
<1>4. CASE e \in subtractive
  <2>1. CablingType' /\ BoxesType'
    BY <1>4 DEF AttachExpander, Continue, Types, CablingType, BoxesType, cabling, boxes
  <2>2. TodoType'
    BY <1>1, <1>4, Continued, Empty DEF AttachExpander, Types
  <2>3. WiringType'
    <3>1. Port(o, e) \in Objects /\ Port(e, e) \in Objects
      BY <1>2, PortObject, KindFacts
    <3>2. joined' = joined \cup {<<Port(o, e), Port(e, e)>>}
      BY <1>4 DEF AttachExpander
    <3>3. phys' = phys /\ ports' = ports /\ wires' = wires /\ subtractive' = subtractive
      BY <1>4 DEF AttachExpander
    <3> HIDE DEF o, e
    <3> QED BY <3>1, <3>2, <3>3 DEF Types, WiringType
  <2>4. TreeType'
    <3>1. AttachRoutingDevice(o, e) /\ parent' = parent
      BY <1>4 DEF AttachExpander
    <3> HIDE DEF o, e
    <3> QED BY <1>2, <3>1, RouterAdded, KindFacts DEF Types, TreeType
  <2> QED BY <2>1, <2>2, <2>3, <2>4 DEF Types
<1> QED BY <1>3, <1>4

LEMMA EndAttached ==
  ASSUME WiringType, TreeType, NEW o \in Owners, NEW d \in Disks, NEW port \in Objects, AttachEnd(o, d, port)
  PROVE  TreeType' /\ wires' \subseteq Objects \X Objects /\ joined' \subseteq Objects \X Objects
<1>1. d \in Devices /\ Phy(d, d, 1) \in Objects /\ Port(d, d) \in Objects
  BY PhyObject, PortObject, KindFacts, LanesAssumption
<1>2. wires' = wires \cup {<<Phy(d, d, 1), Port(d, d)>>} /\ joined' = joined \cup {<<port, Port(d, d)>>}
  BY DEF AttachEnd, OwnWire
<1>3. TreeType'
  BY <1>1, EndsAdded, ParentSet DEF AttachEnd, TreeType
<1>4. wires \subseteq Objects \X Objects /\ joined \subseteq Objects \X Objects
  BY DEF WiringType
<1> QED BY <1>1, <1>2, <1>3, <1>4

LEMMA EnclosureTaken ==
  ASSUME BoxesType, NEW o \in Expanders, NEW s \in Ses, TakeEnclosure(o, s)
  PROVE  BoxesType'
<1>1. lister' = [lister EXCEPT ![s] = o] /\ mounted' = [mounted EXCEPT ![o] = s] /\ members' = members /\ box' = box
  BY DEF TakeEnclosure
<1>2. \/ enclosures' = enclosures
      \/ \E c \in Controllers : enclosures' = [enclosures EXCEPT ![c] = Append(enclosures[c], s)]
  <2>1. CASE Root(o) \in Controllers
    BY <2>1 DEF TakeEnclosure
  <2>2. CASE Root(o) \notin Controllers
    BY <2>2 DEF TakeEnclosure, BoxesType
  <2> QED BY <2>1, <2>2
<1>3. /\ enclosures' \in [Controllers -> Seq(Ses)]
      /\ \A c \in Controllers : \A x \in ToSet(enclosures'[c]) : x = s \/ x \in ToSet(enclosures[c])
  <2>1. CASE enclosures' = enclosures
    BY <2>1 DEF BoxesType
  <2>2. ASSUME NEW c \in Controllers, enclosures' = [enclosures EXCEPT ![c] = Append(enclosures[c], s)]
        PROVE  /\ enclosures' \in [Controllers -> Seq(Ses)]
               /\ \A k \in Controllers : \A x \in ToSet(enclosures'[k]) : x = s \/ x \in ToSet(enclosures[k])
    <3>1. Append(enclosures[c], s) \in Seq(Ses) /\ ToSet(Append(enclosures[c], s)) = ToSet(enclosures[c]) \cup {s}
      BY Appended DEF BoxesType
    <3> QED BY <2>2, <3>1 DEF BoxesType
  <2> QED BY <1>2, <2>1, <2>2
<1>4. \A x \in Ses : lister'[x] = IF x = s THEN o ELSE lister[x]
  BY <1>1 DEF BoxesType
<1>5. ASSUME NEW c \in Controllers, NEW x \in ToSet(enclosures'[c]) PROVE lister'[x] \in Expanders
  <2>1. x \in Ses
    BY <1>3, Elements
  <2> QED BY <1>3, <1>4, <2>1 DEF BoxesType
<1>6. lister' \in [Ses -> Expanders \cup {None}] /\ mounted' \in [Expanders -> Ses \cup {None}]
  BY <1>1 DEF BoxesType
<1> QED BY <1>1, <1>3, <1>5, <1>6 DEF BoxesType

LEMMA TypesEnd ==
  ASSUME Types, Doing("end"), OpenEndDevice(Owner, Device)
  PROVE  Types'
<1> DEFINE o == Owner
           d == Device
<1>1. Head(todo) \in EndTask /\ todo # <<>>
  BY HeadFacts, TaskKinds DEF Types, Doing
<1>2. o \in Hosts /\ d \in Disks \cup Ses /\ o \in Owners /\ d \in Devices
  BY <1>1, KindFacts DEF EndTask, Owner, Device
<1>3. CablingType'
  BY DEF OpenEndDevice, Continue, Types, CablingType, cabling
<1>4. TodoType'
  BY <1>1, Continued, Empty DEF OpenEndDevice, Types
<1>5. phys' = phys /\ ports' = ports /\ subtractive' = subtractive
  BY DEF OpenEndDevice
<1> SUFFICES TreeType' /\ wires' \subseteq Objects \X Objects /\ joined' \subseteq Objects \X Objects /\ BoxesType'
  BY <1>3, <1>4, <1>5 DEF Types, WiringType
<1>6. CASE ~Present(d)
  BY <1>6 DEF OpenEndDevice, Types, TreeType, BoxesType, WiringType, tree, boxes
<1>7. CASE Present(d) /\ d \in Disks
  <2>1. AttachEnd(o, d, Port(o, d)) /\ UNCHANGED boxes
    BY <1>7 DEF OpenEndDevice
  <2>2. Port(o, d) \in Objects
    BY <1>2, PortObject
  <2>3. BoxesType'
    BY <2>1 DEF boxes, Types, BoxesType
  <2> HIDE DEF o, d
  <2> QED BY <1>2, <1>7, <2>1, <2>2, <2>3, EndAttached DEF Types
<1>8. CASE Present(d) /\ d \notin Disks
  <2>1. parent' = [parent EXCEPT ![d] = o] /\ AttachEnclosure(o, d) /\ UNCHANGED <<wires, joined, scope>>
    BY <1>8 DEF OpenEndDevice
  <2> HIDE DEF o, d
  <2>2. TreeType'
    BY <1>2, <2>1, ParentSet DEF Types, TreeType
  <2>3. BoxesType'
    <3>1. CASE o \in Controllers
      BY <2>1, <3>1 DEF AttachEnclosure, boxes, Types, BoxesType
    <3>2. CASE o \notin Controllers
      <4>1. o \in Expanders /\ d \in Ses
        BY <1>2, <1>8, <3>2, KindFacts DEF Hosts
      <4> QED BY <2>1, <3>2, <4>1, EnclosureTaken DEF AttachEnclosure, Types
    <3> QED BY <3>1, <3>2
  <2> QED BY <2>1, <2>2, <2>3 DEF Types, WiringType
<1> QED BY <1>6, <1>7, <1>8

(* What sysfs lists of a port, an AHCI host or a VMD domain                 *)
LEMMA ListedThere ==
  ASSUME NEW o \in Controllers \cup Multipliers, o \in Vmd \cup Multipliers
  PROVE  /\ Plugged(o) \in Seq(Disks) /\ Among(Plugged(o), There) \in Seq(Disks)
         /\ \A x \in ToSet(Among(Plugged(o), There)) : At[x] = o
<1> DEFINE D == {d \in Devices : At[d] = o}
<1>1. D \subseteq Disks
  <2>1. ASSUME NEW d \in Devices, At[d] = o PROVE d \in Disks
    BY <2>1, AtFacts, KindFacts
  <2> QED BY <2>1
<1>2. Plugged(o) \in Seq(D) /\ ToSet(Plugged(o)) = D
  BY PluggedFacts
<1>3. Among(Plugged(o), There) \in Seq(D) /\ ToSet(Among(Plugged(o), There)) \subseteq D
  <2> HIDE DEF D
  <2> QED BY <1>2, AmongFacts
<1> QED BY <1>1, <1>2, <1>3, SeqMonotonic

LEMMA TargetFacts ==
  ASSUME NEW h \in Disks \cup Multipliers
  PROVE  /\ Targets(h) \in Seq(Disks)
         /\ h \in Disks => Len(Targets(h)) <= 1
         /\ \A x \in ToSet(Targets(h)) : x = h \/ At[x] = h
<1>1. CASE h \in Disks
  <2> DEFINE one == <<h>>
  <2>1. one \in Seq(Disks) /\ ToSet(one) = {h} /\ Len(one) = 1
    BY <1>1, Singleton
  <2>2. Targets(h) = Among(one, There)
    BY <1>1 DEF Targets
  <2> HIDE DEF one
  <2>3. /\ Among(one, There) \in Seq(Disks) /\ ToSet(Among(one, There)) = ToSet(one) \cap There
        /\ Len(Among(one, There)) <= Len(one)
    BY <2>1, AmongFacts
  <2> QED BY <2>1, <2>2, <2>3
<1>2. CASE h \in Multipliers
  <2>1. h \notin Disks
    BY <1>2, KindFacts
  <2>2. Targets(h) = Among(Plugged(h), There)
    BY <2>1 DEF Targets
  <2> QED BY <1>2, <2>1, <2>2, ListedThere
<1> QED BY <1>1, <1>2

LEMMA EachFacts ==
  ASSUME NEW X, NEW devices \in Seq(X), NEW T, NEW what, NEW o, \A x \in ToSet(devices) : <<what, o, x>> \in T
  PROVE  /\ Each(what, o, devices) \in Seq(T) /\ Len(Each(what, o, devices)) = Len(devices)
         /\ \A i \in 1 .. Len(devices) : Each(what, o, devices)[i] = <<what, o, devices[i]>>
<1>1. DOMAIN devices = 1 .. Len(devices) /\ Len(devices) \in Nat /\ \A i \in 1 .. Len(devices) : devices[i] \in ToSet(devices)
  BY Elements
<1>2. \A i \in 1 .. Len(devices) : <<what, o, devices[i]>> \in T
  BY <1>1
<1>3. Each(what, o, devices) = [i \in 1 .. Len(devices) |-> <<what, o, devices[i]>>]
  BY <1>1 DEF Each
<1> QED BY <1>1, <1>2, <1>3

LEMMA EachEntries ==
  ASSUME NEW X, NEW devices \in Seq(X), NEW what, NEW o
  PROVE  /\ Len(Each(what, o, devices)) = Len(devices)
         /\ \A i \in 1 .. Len(devices) : Each(what, o, devices)[i] = <<what, o, devices[i]>>
<1> DEFINE T == {<<what, o, devices[i]>> : i \in 1 .. Len(devices)}
           each == [i \in 1 .. Len(devices) |-> <<what, o, devices[i]>>]
<1>1. Each(what, o, devices) = each
  BY Elements DEF Each
<1>2. each \in [1 .. Len(devices) -> T] /\ Len(devices) \in Nat
  OBVIOUS
<1>3. each \in Seq(T) /\ Len(each) = Len(devices)
  <2> HIDE DEF each, T
  <2> QED BY <1>2
<1> QED BY <1>1, <1>3

LEMMA TypesReadDir ==
  ASSUME Types, Doing("readdir"), ReadDir(Owner, Device)
  PROVE  Types'
<1> DEFINE o == Owner
           d == Device
           listing == IF o \in Vmd THEN Among(Plugged(o), There) ELSE Targets(d)
<1>1. Head(todo) \in VmdTask \cup AhciTask /\ todo # <<>>
  BY HeadFacts, TaskKinds DEF Types, Doing
<1>2. CablingType' /\ WiringType' /\ TreeType' /\ BoxesType'
  BY DEF ReadDir, Continue, Types, CablingType, WiringType, TreeType, BoxesType, cabling, wiring, tree, boxes
<1>3. <<"stat", o, d, listing>> \in Task
  <2>1. CASE Head(todo) \in VmdTask
    <3>1. o \in Vmd /\ d = o
      BY <2>1 DEF VmdTask, Owner, Device
    <3>2. listing \in Seq(Disks) /\ \A x \in ToSet(listing) : At[x] = o
      BY <3>1, ListedThere, KindFacts
    <3> HIDE DEF o, d, listing
    <3>3. <<"stat", o, d, listing>> \in VmdStat
      BY <3>1, <3>2 DEF VmdStat
    <3> QED BY <3>3, TaskSets
  <2>2. CASE Head(todo) \in AhciTask
    <3>1. o \in Ahci /\ o \notin Vmd /\ d \in Disks \cup Multipliers /\ At[d] = o
      BY <2>2, KindFacts DEF AhciTask, Owner, Device
    <3>2. /\ listing \in Seq(Disks) /\ (d \in Disks => Len(listing) <= 1)
          /\ \A x \in ToSet(listing) : x = d \/ At[x] = d
      BY <3>1, TargetFacts
    <3> HIDE DEF o, d, listing
    <3>3. <<"stat", o, d, listing>> \in AhciStat
      BY <3>1, <3>2 DEF AhciStat
    <3> QED BY <3>3, TaskSets
  <2> QED BY <1>1, <2>1, <2>2
<1>4. TodoType'
  <2>1. Continue(<< <<"stat", o, d, listing>> >>)
    BY DEF ReadDir
  <2>2. << <<"stat", o, d, listing>> >> \in Seq(Task)
    BY <1>3, Singleton
  <2> HIDE DEF o, d, listing
  <2> QED BY <1>1, <2>1, <2>2, Continued DEF Types
<1> QED BY <1>2, <1>4 DEF Types

LEMMA FoundFacts ==
  ASSUME NEW X, NEW listing \in Seq(X)
  PROVE  /\ Found(listing) \in Seq(X) /\ ToSet(Found(listing)) \subseteq ToSet(listing)
         /\ Found(listing) = listing \/ Found(listing) = <<>>
         /\ Len(Found(listing)) <= Len(listing)
<1>1. CASE Found(listing) = listing
  BY <1>1
<1>2. CASE Found(listing) = <<>>
  BY <1>2, Empty
<1> QED BY <1>1, <1>2 DEF Found

LEMMA TypesStatNvme ==
  ASSUME Types, Doing("stat"), Owner \in Vmd, StatNvme(Owner, Argument)
  PROVE  Types'
<1> DEFINE v == Owner
           found == Found(Argument)
<1>1. Head(todo) \in VmdStat /\ todo # <<>>
  BY HeadFacts, TaskKinds, KindFacts DEF Types, Doing, AhciStat, Owner
<1>2. CablingType' /\ WiringType' /\ TreeType' /\ BoxesType'
  BY DEF StatNvme, Continue, Types, CablingType, WiringType, TreeType, BoxesType, cabling, wiring, tree, boxes
<1>3. Argument \in Seq(Disks) /\ \A x \in ToSet(Argument) : At[x] = v
  BY <1>1 DEF VmdStat, Owner, Argument
<1>4. found \in Seq(Disks) /\ ToSet(found) \subseteq Disks /\ \A x \in ToSet(found) : At[x] = v
  <2>1. found \in Seq(Disks) /\ ToSet(found) \subseteq ToSet(Argument)
    BY <1>3, FoundFacts
  <2>2. ToSet(found) \subseteq Disks
    BY <2>1, Elements
  <2> QED BY <1>3, <2>1, <2>2
<1>5. Continue(Each("nvme", v, found))
  BY DEF StatNvme
<1> HIDE DEF found
<1>6. \A x \in ToSet(found) : <<"nvme", v, x>> \in Task
  <2>1. \A x \in ToSet(found) : <<"nvme", v, x>> \in NvmeTask
    BY <1>4 DEF NvmeTask
  <2> QED BY <2>1, TaskSets
<1>7. Each("nvme", v, found) \in Seq(Task)
  BY <1>4, <1>6, EachFacts
<1>8. TodoType'
  BY <1>1, <1>5, <1>7, Continued DEF Types
<1> QED BY <1>2, <1>8 DEF Types

LEMMA PhyAdded ==
  ASSUME WiringType, NEW o \in Owners, NEW x \in Objects, phys' = [phys EXCEPT ![o] = Append(@, x)]
  PROVE  phys' \in [Owners -> Seq(Objects)]
<1>1. Append(phys[o], x) \in Seq(Objects)
  BY DEF WiringType
<1> QED BY <1>1 DEF WiringType

LEMMA TypesNvme ==
  ASSUME Types, Doing("nvme"), ReadNvmeDriver(Owner, Device)
  PROVE  Types'
<1> DEFINE v == Owner
           d == Device
<1>1. Head(todo) \in NvmeTask /\ todo # <<>>
  BY HeadFacts, TaskKinds DEF Types, Doing
<1>2. v \in Vmd /\ d \in Disks /\ At[d] = v /\ v \in Owners /\ d \in Devices
  BY <1>1, KindFacts DEF NvmeTask, Owner, Device
<1>3. CablingType' /\ TreeType' /\ BoxesType'
  BY DEF ReadNvmeDriver, Continue, Types, CablingType, TreeType, BoxesType, cabling, tree, boxes
<1>4. TodoType'
  <2>1. Continue(<<>>) \/ Continue(<< <<"disk", v, d, d>> >>)
    BY DEF ReadNvmeDriver
  <2> HIDE DEF v, d
  <2>2. <<"disk", v, d, d>> \in Task
    BY <1>2, TaskSets DEF DiskTask
  <2>3. << <<"disk", v, d, d>> >> \in Seq(Task) /\ <<>> \in Seq(Task)
    BY <2>2, Singleton, Empty
  <2> QED BY <1>1, <2>1, <2>3, Continued DEF Types
<1>5. WiringType'
  <2>1. Phy(v, d, 1) \in Objects /\ Port(v, d) \in Objects
    BY <1>2, PhyObject, PortObject, LanesAssumption
  <2>2. phys' = phys \/ phys' = [phys EXCEPT ![v] = Append(@, Phy(v, d, 1))]
    BY DEF ReadNvmeDriver
  <2>3. wires' \subseteq wires \cup {<<Phy(v, d, 1), Port(v, d)>>}
    BY DEF ReadNvmeDriver
  <2>4. ports' = ports /\ joined' = joined /\ subtractive' = subtractive
    BY DEF ReadNvmeDriver
  <2> HIDE DEF v, d
  <2>5. phys' \in [Owners -> Seq(Objects)]
    <3>1. phys' = phys => phys' \in [Owners -> Seq(Objects)]
      BY DEF Types, WiringType
    <3> QED BY <1>2, <2>1, <2>2, <3>1, PhyAdded DEF Types
  <2> QED BY <2>1, <2>3, <2>4, <2>5 DEF Types, WiringType
<1> QED BY <1>3, <1>4, <1>5 DEF Types

(* The targets of a host become one disk, or members and their multiplier.  *)
LEMMA TargetTasks ==
  ASSUME NEW t \in AhciStat, NEW found, found = Found(t[4])
  PROVE  /\ t[2] \in Ahci /\ t[3] \in Disks \cup Multipliers /\ At[t[3]] = t[2]
         /\ found \in Seq(Disks)
         /\ Len(found) = 1 => << <<"disk", t[2], found[1], t[3]>> >> \in Seq(Task)
         /\ Len(found) > 1 => /\ t[3] \in Multipliers
                              /\ Each("member", t[3], found) \in Seq(Task)
                              /\ << <<"multiplier", t[2], t[3]>> >> \in Seq(Task)
<1> DEFINE c == t[2]
           h == t[3]
<1>1. /\ c \in Ahci /\ h \in Disks \cup Multipliers /\ At[h] = c /\ t[4] \in Seq(Disks)
      /\ (h \in Disks => Len(t[4]) <= 1) /\ \A x \in ToSet(t[4]) : x = h \/ At[x] = h
  BY DEF AhciStat
<1>2. found \in Seq(Disks) /\ ToSet(found) \subseteq ToSet(t[4]) /\ Len(found) <= Len(t[4])
  BY <1>1, FoundFacts
<1>3. \A x \in ToSet(found) : x \in Disks /\ (x = h \/ At[x] = h)
  BY <1>1, <1>2, Elements
<1> HIDE DEF c, h
<1>4. ASSUME Len(found) = 1 PROVE << <<"disk", c, found[1], h>> >> \in Seq(Task)
  <2>1. found[1] \in ToSet(found)
    BY <1>2, <1>4, Elements
  <2>2. <<"disk", c, found[1], h>> \in DiskTask
    BY <1>1, <1>3, <2>1 DEF DiskTask
  <2> QED BY <2>2, TaskSets, Singleton
<1>5. ASSUME Len(found) > 1
      PROVE  h \in Multipliers /\ Each("member", h, found) \in Seq(Task) /\ << <<"multiplier", c, h>> >> \in Seq(Task)
  <2>1. h \in Multipliers
    <3>1. Len(t[4]) \in Nat /\ Len(found) \in Nat
      BY <1>1, <1>2
    <3> QED BY <1>1, <1>2, <1>5, <3>1
  <2>2. h \notin Disks
    BY <2>1, KindFacts
  <2>3. \A x \in ToSet(found) : x = h \/ <<"member", h, x>> \in MemberTask
    BY <1>3, <2>1 DEF MemberTask
  <2>4. \A x \in ToSet(found) : <<"member", h, x>> \in Task
    BY <1>3, <2>2, <2>3, TaskSets
  <2>5. Each("member", h, found) \in Seq(Task)
    BY <1>2, <2>4, EachFacts
  <2>6. <<"multiplier", c, h>> \in MultiplierTask
    BY <1>1, <2>1 DEF MultiplierTask
  <2> QED BY <2>1, <2>5, <2>6, TaskSets, Singleton
<1> QED BY <1>1, <1>2, <1>4, <1>5 DEF c, h

LEMMA TypesStatTargets ==
  ASSUME Types, Doing("stat"), Owner \in Ahci, StatTargets(Owner, Device, Argument)
  PROVE  Types'
<1> DEFINE c == Owner
           h == Device
           found == Found(Argument)
<1>1. Head(todo) \in AhciStat /\ todo # <<>>
  BY HeadFacts, TaskKinds, KindFacts DEF Types, Doing, VmdStat, Owner
<1>2. /\ c \in Ahci /\ h \in Disks \cup Multipliers
      /\ found \in Seq(Disks)
      /\ Len(found) = 1 => << <<"disk", c, found[1], h>> >> \in Seq(Task)
      /\ Len(found) > 1 => /\ h \in Multipliers
                           /\ Each("member", h, found) \in Seq(Task)
                           /\ << <<"multiplier", c, h>> >> \in Seq(Task)
  BY <1>1, TargetTasks DEF Owner, Device, Argument
<1>3. CablingType' /\ TreeType' /\ BoxesType'
  BY DEF StatTargets, Continue, Types, CablingType, TreeType, BoxesType, cabling, tree, boxes
<1>4. /\ phys' = [phys EXCEPT ![c] = Append(@, Phy(c, h, 1))]
      /\ ports' = ports /\ joined' = joined
      /\ \/ Continue(<<>>) /\ wires' = wires /\ subtractive' = subtractive
         \/ /\ Len(found) = 1 /\ Continue(<< <<"disk", c, found[1], h>> >>)
            /\ wires' = wires \cup {<<Phy(c, h, 1), Port(c, h)>>} /\ subtractive' = subtractive
         \/ /\ Len(found) > 1 /\ Continue(Each("member", h, found) \o << <<"multiplier", c, h>> >>)
            /\ wires' = wires \cup {<<Phy(c, h, 1), Port(c, h)>>, <<Phy(h, h, 1), Port(h, h)>>}
            /\ subtractive' = subtractive \cup {h}
  BY DEF StatTargets, OwnWire
<1> HIDE DEF c, h, found
<1>5. TodoType'
  <2>1. <<>> \in Seq(Task)
    BY Empty
  <2>2. Len(found) > 1 => Each("member", h, found) \o << <<"multiplier", c, h>> >> \in Seq(Task)
    BY <1>2, Joined
  <2> QED BY <1>1, <1>2, <1>4, <2>1, <2>2, Continued DEF Types
<1>6. WiringType'
  <2>1. c \in Owners /\ h \in Devices
    BY <1>2, KindFacts
  <2>2. Phy(c, h, 1) \in Objects /\ Port(c, h) \in Objects /\ Phy(h, h, 1) \in Objects /\ Port(h, h) \in Objects
    BY <2>1, PhyObject, PortObject, LanesAssumption
  <2>3. phys' \in [Owners -> Seq(Objects)]
    BY <1>4, <2>1, <2>2, PhyAdded DEF Types
  <2>4. wires' \subseteq wires \cup {<<Phy(c, h, 1), Port(c, h)>>, <<Phy(h, h, 1), Port(h, h)>>}
    BY <1>4
  <2>5. subtractive' \subseteq Routers
    BY <1>2, <1>4, KindFacts DEF Types, WiringType
  <2> QED BY <1>4, <2>2, <2>3, <2>4, <2>5 DEF Types, WiringType
<1> QED BY <1>3, <1>5, <1>6 DEF Types

LEMMA TypesDisk ==
  ASSUME Types, Doing("disk"), AttachSingle(Owner, Device, Argument)
  PROVE  Types'
<1> DEFINE c == Owner
           d == Device
           h == Argument
<1>1. Head(todo) \in DiskTask /\ todo # <<>>
  BY HeadFacts, TaskKinds DEF Types, Doing
<1>2. c \in Ahci \cup Vmd /\ d \in Disks /\ h \in Disks \cup Multipliers
  BY <1>1 DEF DiskTask, Owner, Device, Argument
<1>3. CablingType' /\ BoxesType'
  BY DEF AttachSingle, Continue, Types, CablingType, BoxesType, cabling, boxes
<1>4. TodoType'
  BY <1>1, Continued, Empty DEF AttachSingle, Types
<1>5. /\ phys' = phys /\ subtractive' = subtractive
      /\ ports' = [ports EXCEPT ![c] = Append(@, Port(c, h))]
      /\ AttachEnd(c, d, Port(c, h)) \/ UNCHANGED <<wires, joined, tree>>
  BY DEF AttachSingle
<1> HIDE DEF c, d, h
<1>6. c \in Owners /\ c \notin Hosts /\ h \in Devices /\ Port(c, h) \in Objects
  BY <1>2, PortObject, KindFacts DEF Hosts
<1>7. ports' \in [Owners -> Seq(Objects)] /\ \A o \in Hosts : ports'[o] \in Seq(OwnPort(o))
  BY <1>5, <1>6, PortAdded DEF Types
<1>8. TreeType' /\ wires' \subseteq Objects \X Objects /\ joined' \subseteq Objects \X Objects
  <2>1. CASE AttachEnd(c, d, Port(c, h))
    BY <1>2, <1>6, <2>1, EndAttached DEF Types
  <2>2. CASE UNCHANGED <<wires, joined, tree>>
    BY <2>2 DEF tree, Types, TreeType, WiringType
  <2> QED BY <1>5, <2>1, <2>2
<1>9. WiringType'
  BY <1>5, <1>7, <1>8 DEF Types, WiringType
<1> QED BY <1>3, <1>4, <1>8, <1>9 DEF Types

LEMMA TypesMember ==
  ASSUME Types, Doing("member"), AttachMember(Owner, Device)
  PROVE  Types'
<1> DEFINE m == Owner
           d == Device
<1>1. Head(todo) \in MemberTask /\ todo # <<>>
  BY HeadFacts, TaskKinds DEF Types, Doing
<1>2. m \in Multipliers /\ d \in Disks
  BY <1>1 DEF MemberTask, Owner, Device
<1>3. CablingType' /\ BoxesType'
  BY DEF AttachMember, Continue, Types, CablingType, BoxesType, cabling, boxes
<1>4. TodoType'
  BY <1>1, Continued, Empty DEF AttachMember, Types
<1>5. /\ subtractive' = subtractive /\ parent' = parent
      /\ \/ /\ phys' = [phys EXCEPT ![m] = Append(@, Phy(m, d, 1))]
            /\ ports' = [ports EXCEPT ![m] = Append(@, Port(m, d))]
            /\ wires' = wires \cup {<<Phy(m, d, 1), Port(m, d)>>, <<Phy(d, d, 1), Port(d, d)>>}
            /\ joined' = joined \cup {<<Port(m, d), Port(d, d)>>}
            /\ AttachEndDevice(m, d)
         \/ UNCHANGED <<phys, ports, wires, joined, scope>>
  BY DEF AttachMember, OwnWire
<1> HIDE DEF m, d
<1>6. CASE UNCHANGED <<phys, ports, wires, joined, scope>>
  BY <1>3, <1>4, <1>5, <1>6 DEF Types, TreeType, WiringType
<1>7. ASSUME phys' = [phys EXCEPT ![m] = Append(@, Phy(m, d, 1))],
             ports' = [ports EXCEPT ![m] = Append(@, Port(m, d))],
             wires' = wires \cup {<<Phy(m, d, 1), Port(m, d)>>, <<Phy(d, d, 1), Port(d, d)>>},
             joined' = joined \cup {<<Port(m, d), Port(d, d)>>},
             AttachEndDevice(m, d)
      PROVE  Types'
  <2>1. m \in Owners /\ m \notin Hosts /\ d \in Devices
    BY <1>2, KindFacts DEF Hosts
  <2>2. Phy(m, d, 1) \in Objects /\ Port(m, d) \in Objects /\ Phy(d, d, 1) \in Objects /\ Port(d, d) \in Objects
    BY <2>1, PhyObject, PortObject, LanesAssumption
  <2>3. phys' \in [Owners -> Seq(Objects)]
    BY <1>7, <2>1, <2>2, PhyAdded DEF Types
  <2>4. ports' \in [Owners -> Seq(Objects)] /\ \A o \in Hosts : ports'[o] \in Seq(OwnPort(o))
    BY <1>7, <2>1, <2>2, PortAdded DEF Types
  <2>5. WiringType'
    BY <1>5, <1>7, <2>2, <2>3, <2>4 DEF Types, WiringType
  <2>6. TreeType'
    BY <1>2, <1>5, <1>7, <2>1, EndsAdded DEF Types, TreeType
  <2> QED BY <1>3, <1>4, <2>5, <2>6 DEF Types
<1> QED BY <1>5, <1>6, <1>7

LEMMA TypesMultiplier ==
  ASSUME Types, Doing("multiplier"), AttachMultiplier(Owner, Device)
  PROVE  Types'
<1> DEFINE c == Owner
           m == Device
<1>1. Head(todo) \in MultiplierTask /\ todo # <<>>
  BY HeadFacts, TaskKinds DEF Types, Doing
<1>2. c \in Ahci /\ m \in Multipliers
  BY <1>1 DEF MultiplierTask, Owner, Device
<1>3. CablingType' /\ BoxesType'
  BY DEF AttachMultiplier, Continue, Types, CablingType, BoxesType, cabling, boxes
<1>4. TodoType'
  BY <1>1, Continued, Empty DEF AttachMultiplier, Types
<1>5. /\ subtractive' = subtractive /\ phys' = phys /\ wires' = wires
      /\ parent' = [parent EXCEPT ![m] = c]
      /\ joined' = joined \cup {<<Port(c, m), Port(m, m)>>}
      /\ AttachRoutingDevice(c, m)
      /\ ports' = [ports EXCEPT ![c] = Append(@, Port(c, m))]
  BY DEF AttachMultiplier
<1> HIDE DEF c, m
<1>6. c \in Owners /\ c \notin Hosts /\ m \in Routers /\ m \in Devices /\ Port(c, m) \in Objects /\ Port(m, m) \in Objects
  BY <1>2, PortObject, KindFacts DEF Hosts
<1>7. ports' \in [Owners -> Seq(Objects)] /\ \A o \in Hosts : ports'[o] \in Seq(OwnPort(o))
  BY <1>5, <1>6, PortAdded DEF Types
<1>8. WiringType'
  BY <1>5, <1>6, <1>7 DEF Types, WiringType
<1>9. TreeType'
  BY <1>5, <1>6, RouterAdded, ParentSet DEF Types, TreeType
<1> QED BY <1>3, <1>4, <1>8, <1>9 DEF Types

LEMMA TypesAdd ==
  ASSUME Types, Doing("add"), AddToSession(Owner)
  PROVE  Types'
<1> DEFINE c == Owner
<1>1. c \in Controllers /\ todo # <<>>
  BY HeadFacts, TaskKinds DEF Types, Doing, AddTask, Owner
<1>2. CablingType' /\ WiringType' /\ TreeType'
  BY DEF AddToSession, Types, CablingType, WiringType, TreeType, cabling, wiring, tree
<1>3. TodoType'
  BY <1>1 DEF AddToSession, Types, TodoType
<1>4. members' = [s \in Ses |-> IF s \in ToSet(enclosures[c]) THEN Taken(s) ELSE members[s]]
  BY DEF AddToSession
<1>5. box' = [d \in Disks |->
         IF Among(enclosures[c], {s \in ToSet(enclosures[c]) : d \in ToSet(Taken(s))}) = <<>> THEN box[d]
         ELSE Last(Among(enclosures[c], {s \in ToSet(enclosures[c]) : d \in ToSet(Taken(s))}))]
  BY DEF AddToSession
<1>6. enclosures' = enclosures /\ lister' = lister /\ mounted' = mounted
  BY DEF AddToSession
<1> HIDE DEF c
<1>7. ASSUME NEW s \in ToSet(enclosures[c]) PROVE Taken(s) \in Seq(Disks)
  <2>1. lister[s] \in Owners
    BY <1>1, KindFacts DEF Types, BoxesType
  <2> QED BY <2>1 DEF Taken, Types, TreeType, Scopes
<1>8. members' \in [Ses -> Seq(Disks)]
  BY <1>4, <1>7 DEF Types, BoxesType
<1>9. ASSUME NEW S PROVE Among(enclosures[c], S) = <<>> \/ Last(Among(enclosures[c], S)) \in Ses
  <2>1. Among(enclosures[c], S) \in Seq(Ses)
    BY <1>1, AmongFacts DEF Types, BoxesType
  <2> QED BY <2>1 DEF Last
<1>10. box' \in [Disks -> Ses \cup {None}]
  BY <1>5, <1>9 DEF Types, BoxesType
<1>11. BoxesType'
  BY <1>6, <1>8, <1>10 DEF Types, BoxesType
<1> QED BY <1>2, <1>3, <1>11 DEF Types

(* The tasks a session starts with                                          *)
StartTask ==
  {t \in Task : t[1] \in {"list", "readdir", "add"} /\ (t[1] = "list" => t[2] \in Isci)}

LEMMA TasksFacts ==
  ASSUME NEW c \in Controllers
  PROVE  Tasks(c) \in Seq(StartTask)
<1>1. << <<"add", c>> >> \in Seq(StartTask)
  BY TaskSets, Singleton DEF AddTask, StartTask
<1>2. CASE c \in Isci
  <2>1. << <<"list", c>> >> \in Seq(StartTask)
    BY <1>2, TaskSets, Singleton DEF ListTask, Hosts, StartTask
  <2> QED BY <1>1, <1>2, <2>1, Joined DEF Tasks
<1>3. CASE c \in Vmd
  <2>1. << <<"readdir", c, c>> >> \in Seq(StartTask)
    BY <1>3, TaskSets, Singleton DEF VmdTask, StartTask
  <2>2. c \notin Isci
    BY <1>3, KindFacts
  <2> QED BY <1>1, <1>3, <2>1, <2>2, Joined DEF Tasks
<1>4. CASE c \in Ahci
  <2>1. Plugged(c) \in Seq({d \in Devices : At[d] = c}) /\ ToSet(Plugged(c)) = {d \in Devices : At[d] = c}
    BY PluggedFacts
  <2>2. ASSUME NEW d \in Devices, At[d] = c PROVE d \in Disks \cup Multipliers
    BY <1>4, <2>2, AtFacts, KindFacts
  <2>3. \A d \in ToSet(Plugged(c)) : <<"readdir", c, d>> \in AhciTask
    BY <1>4, <2>1, <2>2 DEF AhciTask
  <2>4. \A d \in ToSet(Plugged(c)) : <<"readdir", c, d>> \in StartTask
    BY <2>3, TaskSets DEF StartTask
  <2>5. Each("readdir", c, Plugged(c)) \in Seq(StartTask)
    BY <2>1, <2>4, EachFacts
  <2>6. c \notin Isci /\ c \notin Vmd
    BY <1>4, KindFacts
  <2> QED BY <1>1, <2>5, <2>6, Joined DEF Tasks
<1> QED BY <1>2, <1>3, <1>4, KindFacts

LEMMA AllOfFacts ==
  ASSUME NEW S \in SUBSET Controllers
  PROVE  AllOf(S) \in Seq(Controllers) /\ ToSet(AllOf(S)) = S
<1>1. Order \in Seq(Controllers \cup Devices) /\ ToSet(Order) = Controllers \cup Devices
  BY OrderAssumption
<1>2. /\ Among(Order, S) \in Seq(Controllers \cup Devices)
      /\ ToSet(Among(Order, S)) = ToSet(Order) \cap S
  BY <1>1, AmongFacts
<1>3. ToSet(Among(Order, S)) = S
  BY <1>1, <1>2
<1> QED BY <1>2, <1>3, Narrowed DEF AllOf

LEMMA TodoInit == Init => todo \in Seq(StartTask)
<1> SUFFICES ASSUME Init PROVE todo \in Seq(StartTask)
  OBVIOUS
<1> DEFINE cs == AllOf(Ahci) \o AllOf(Isci) \o AllOf(Vmd)
           each == [i \in DOMAIN cs |-> Tasks(cs[i])]
<1>1. cs \in Seq(Controllers)
  BY AllOfFacts, KindFacts, Joined
<1>2. todo = FlattenSeq(each)
  BY DEF Init, Concat
<1> HIDE DEF cs
<1>3. DOMAIN cs = 1 .. Len(cs) /\ Len(cs) \in Nat /\ \A i \in DOMAIN cs : Tasks(cs[i]) \in Seq(StartTask)
  BY <1>1, TasksFacts
<1>4. each \in Seq(Seq(StartTask))
  BY <1>3
<1> HIDE DEF each
<1> QED BY <1>2, <1>4, FlattenFacts

LEMMA TypesInit == Init => Types
<1> SUFFICES ASSUME Init PROVE Types
  OBVIOUS
<1>1. CablingType
  BY FS_EmptySet, BoundsAssumption DEF Init, CablingType
<1>2. TodoType
  BY TodoInit, SeqMonotonic DEF TodoType, StartTask
<1>3. WiringType
  BY KindFacts DEF Init, WiringType
<1>4. TreeType
  BY DEF Init, TreeType, Scopes
<1>5. BoxesType
  BY Empty DEF Init, BoxesType
<1> QED BY <1>1, <1>2, <1>3, <1>4, <1>5 DEF Types

LEMMA TypesNext == Types /\ [Next]_vars => Types'
<1> SUFFICES ASSUME Types, [Next]_vars PROVE Types'
  OBVIOUS
<1>1. CASE UNCHANGED vars
  BY <1>1 DEF vars, cabling, wiring, tree, boxes, Types, CablingType, TodoType, WiringType, TreeType, BoxesType
<1>2. CASE Opened
  <2>1. CablingType'
    BY <1>2 DEF Opened, cabling, Types, CablingType
  <2>2. TodoType' /\ WiringType' /\ TreeType' /\ BoxesType'
    BY <1>2 DEF Opened, wiring, tree, boxes, Types, TodoType, WiringType, TreeType, BoxesType
  <2> QED BY <2>1, <2>2 DEF Types
<1>3. CASE \E d \in Devices : Change(d)
  BY <1>3, TypesChange
<1>4. CASE Doing("list") /\ ListPhys(Owner)
  BY <1>4, TypesList
<1>5. CASE Doing("phy") /\ ReadPhy(Owner, Device, Argument)
  BY <1>5, TypesPhy
<1>6. CASE Doing("create") /\ CreatePort(Owner, Device, Argument)
  BY <1>6, TypesCreate
<1>7. CASE Doing("ports") /\ ListPorts(Owner)
  BY <1>7, TypesPorts
<1>8. CASE Doing("port") /\ DiscoverPort(Owner, Device)
  BY <1>8, TypesPort
<1>9. CASE Doing("attach") /\ AttachExpander(Owner, Device)
  BY <1>9, TypesAttach
<1>10. CASE Doing("end") /\ OpenEndDevice(Owner, Device)
  BY <1>10, TypesEnd
<1>11. CASE Doing("readdir") /\ ReadDir(Owner, Device)
  BY <1>11, TypesReadDir
<1>12. CASE Doing("stat") /\ Owner \in Vmd /\ StatNvme(Owner, Argument)
  BY <1>12, TypesStatNvme
<1>13. CASE Doing("stat") /\ Owner \in Ahci /\ StatTargets(Owner, Device, Argument)
  BY <1>13, TypesStatTargets
<1>14. CASE Doing("nvme") /\ ReadNvmeDriver(Owner, Device)
  BY <1>14, TypesNvme
<1>15. CASE Doing("disk") /\ AttachSingle(Owner, Device, Argument)
  BY <1>15, TypesDisk
<1>16. CASE Doing("member") /\ AttachMember(Owner, Device)
  BY <1>16, TypesMember
<1>17. CASE Doing("multiplier") /\ AttachMultiplier(Owner, Device)
  BY <1>17, TypesMultiplier
<1>18. CASE Doing("add") /\ AddToSession(Owner)
  BY <1>18, TypesAdd
<1> QED
  BY <1>1, <1>2, <1>3, <1>4, <1>5, <1>6, <1>7, <1>8, <1>9, <1>10, <1>11, <1>12, <1>13, <1>14, <1>15,
     <1>16, <1>17, <1>18 DEF Next

LEMMA TypesHold == Spec => []Types
BY TypesInit, TypesNext, PTL DEF Spec

-----------------------------------------------------------------------------
(* A session fails only when a device vanished                              *)

(* The tasks that find the subtractive port of e, or that it is lost        *)
LeadsTo(t, e) ==
  \/ t[1] = "list" /\ t[2] = e
  \/ t[1] \in {"phy", "create"} /\ t[2] = e /\ t[3] = e

(* The device at the end of a port has been there.  A port that should lead *)
(* up and was not recognised belongs to an expander that has vanished.      *)
PortSeen(t) == t[3] \in Reached /\ (t[3] = t[2] => t[3] \in Lost)
PortsSeen == \A o \in Hosts : \A t \in ToSet(ports[o]) : PortSeen(t)

TaskSeen(t) ==
  /\ t[1] = "port" => PortSeen(t)
  /\ t[1] = "create" => t[3] \in Reached
  /\ t[1] = "attach" => t[3] \in Reached /\ t[3] # t[2]
  /\ \A e \in Expanders : LeadsTo(t, e) => e \in Reached
TasksSeen == \A i \in 1 .. Len(todo) : TaskSeen(todo[i])

(* An expander has its subtractive port when it is attached, unless it is   *)
(* lost.                                                                    *)
AttachReady ==
  \A i \in 1 .. Len(todo) : todo[i][1] = "attach" =>
    \/ todo[i][3] \in subtractive \cup Lost
    \/ \E j \in 1 .. i - 1 : LeadsTo(todo[j], todo[i][3])

Seen == PortsSeen /\ TasksSeen /\ AttachReady /\ FailsOnlyOnUnplug

Push(tasks) == todo' = tasks \o Tail(todo) /\ UNCHANGED <<cabling, status>>

LEMMA StackFacts ==
  ASSUME TodoType, todo # <<>>, NEW tasks \in Seq(Task), Push(tasks)
  PROVE  /\ Len(tasks) \in Nat /\ Len(todo) \in Nat /\ Len(todo') \in Nat
         /\ \A i \in 1 .. Len(tasks) : i \in 1 .. Len(todo') /\ todo'[i] = tasks[i]
         /\ \A i \in 2 .. Len(todo) : /\ i + Len(tasks) - 1 \in 1 .. Len(todo')
                                      /\ todo'[i + Len(tasks) - 1] = todo[i]
         /\ \A k \in 1 .. Len(todo') : \/ k \in 1 .. Len(tasks)
                                       \/ \E i \in 2 .. Len(todo) : k = i + Len(tasks) - 1
         /\ todo[1] = Head(todo) /\ 1 \in 1 .. Len(todo)
<1> DEFINE rest == Tail(todo)
<1>1. rest \in Seq(Task) /\ Len(rest) = Len(todo) - 1 /\ \A i \in 1 .. Len(rest) : rest[i] = todo[i + 1]
  BY DEF TodoType
<1>2. todo' = tasks \o rest
  BY DEF Push
<1>3. Len(todo) \in Nat /\ Len(todo) >= 1 /\ todo[1] = Head(todo)
  BY DEF TodoType
<1> HIDE DEF rest
<1>4. Len(todo') = Len(tasks) + Len(todo) - 1 /\ Len(tasks) \in Nat
  BY <1>1, <1>2, <1>3
<1>5. \A i \in 1 .. Len(tasks) : i \in 1 .. Len(todo') /\ todo'[i] = tasks[i]
  BY <1>1, <1>2, <1>3, <1>4
<1>6. ASSUME NEW i \in 2 .. Len(todo)
      PROVE  i + Len(tasks) - 1 \in 1 .. Len(todo') /\ todo'[i + Len(tasks) - 1] = todo[i]
  <2>1. i - 1 \in 1 .. Len(rest) /\ rest[i - 1] = todo[i] /\ i + Len(tasks) - 1 = Len(tasks) + (i - 1)
    BY <1>1, <1>3, <1>4
  <2>2. (tasks \o rest)[Len(tasks) + (i - 1)] = rest[i - 1]
    BY <1>1, <2>1
  <2> QED BY <1>2, <1>3, <1>4, <2>1, <2>2
<1>7. ASSUME NEW k \in 1 .. Len(todo'), k \notin 1 .. Len(tasks)
      PROVE  \E i \in 2 .. Len(todo) : k = i + Len(tasks) - 1
  <2>1. k - Len(tasks) + 1 \in 2 .. Len(todo) /\ k = (k - Len(tasks) + 1) + Len(tasks) - 1
    BY <1>3, <1>4, <1>7
  <2> QED BY <2>1
<1>8. \A k \in 1 .. Len(todo') : k \in 1 .. Len(tasks) \/ \E i \in 2 .. Len(todo) : k = i + Len(tasks) - 1
  BY <1>7
<1>9. Len(todo') \in Nat /\ 1 \in 1 .. Len(todo)
  BY <1>3, <1>4
<1> QED BY <1>3, <1>4, <1>5, <1>6, <1>8, <1>9

(* What a step must do for this to stay true                                *)
LEMMA SeenPush ==
  ASSUME Types, Seen, status = "scan", todo # <<>>, NEW tasks \in Seq(Task), Push(tasks),
         subtractive \subseteq subtractive',
         \A o \in Hosts : \A t \in ToSet(ports'[o]) : PortSeen(t),
         \A i \in 1 .. Len(tasks) :
           /\ TaskSeen(tasks[i])
           /\ tasks[i][1] = "attach" => \E j \in 1 .. i - 1 : LeadsTo(tasks[j], tasks[i][3]),
         \A e \in Expanders : LeadsTo(Head(todo), e) =>
           e \in subtractive' \cup Lost \/ \E j \in 1 .. Len(tasks) : LeadsTo(tasks[j], e)
  PROVE  Seen'
<1>1. Reached' = Reached /\ Lost' = Lost /\ status' = "scan"
  BY DEF Push, cabling, Reached, Lost, Climbs, There, Present
<1>2. \A t : PortSeen(t)' <=> PortSeen(t)
  BY <1>1 DEF PortSeen
<1>3. \A t : TaskSeen(t)' <=> TaskSeen(t)
  BY <1>1, <1>2 DEF TaskSeen
<1>4. PortsSeen'
  BY <1>1 DEF PortsSeen, PortSeen
<1>5. TasksSeen'
  <2>1. ASSUME NEW k \in 1 .. Len(todo') PROVE TaskSeen(todo'[k])
    <3>1. CASE k \in 1 .. Len(tasks)
      BY <3>1, StackFacts DEF Types
    <3>2. ASSUME NEW i \in 2 .. Len(todo), k = i + Len(tasks) - 1 PROVE TaskSeen(todo'[k])
      <4>1. todo'[k] = todo[i] /\ i \in 1 .. Len(todo)
        BY <3>2, StackFacts DEF Types
      <4> QED BY <4>1 DEF Seen, TasksSeen
    <3> QED BY <3>1, <3>2, StackFacts DEF Types
  <2> QED BY <1>1, <2>1 DEF TasksSeen, TaskSeen, PortSeen
<1>6. AttachReady'
  <2>1. ASSUME NEW k \in 1 .. Len(todo'), todo'[k][1] = "attach"
        PROVE  \/ todo'[k][3] \in subtractive' \cup Lost
               \/ \E j \in 1 .. k - 1 : LeadsTo(todo'[j], todo'[k][3])
    <3>1. CASE k \in 1 .. Len(tasks)
      <4>1. todo'[k] = tasks[k]
        BY <3>1, StackFacts DEF Types
      <4>2. PICK j \in 1 .. k - 1 : LeadsTo(tasks[j], tasks[k][3])
        BY <2>1, <3>1, <4>1
      <4>3. j \in 1 .. Len(tasks)
        BY <3>1, StackFacts DEF Types
      <4>4. todo'[j] = tasks[j]
        BY <4>3, StackFacts DEF Types
      <4> QED BY <4>1, <4>2, <4>4
    <3>2. CASE k \notin 1 .. Len(tasks)
      <4>1. PICK i \in 2 .. Len(todo) : k = i + Len(tasks) - 1
        BY <3>2, StackFacts DEF Types
      <4>2. todo'[k] = todo[i] /\ i \in 1 .. Len(todo) /\ Len(tasks) \in Nat /\ Len(todo) \in Nat
        BY <4>1, StackFacts DEF Types
      <4> DEFINE e == todo[i][3]
      <4>3. CASE e \in subtractive \cup Lost
        BY <4>2, <4>3
      <4>4. ASSUME NEW j \in 1 .. i - 1, LeadsTo(todo[j], e)
            PROVE  e \in subtractive' \cup Lost \/ \E m \in 1 .. k - 1 : LeadsTo(todo'[m], e)
        <5>1. CASE j = 1
          <6>1. LeadsTo(Head(todo), e)
            BY <4>4, <5>1, StackFacts DEF Types
          <6>2. e \in Expanders
            <7>1. todo[i] \in Task
              BY <4>2 DEF Types, TodoType
            <7>2. todo[i] \in AttachTask
              BY <2>1, <4>2, <7>1, TaskKinds
            <7> QED BY <7>2 DEF AttachTask
          <6>3. e \in subtractive' \cup Lost \/ \E m \in 1 .. Len(tasks) : LeadsTo(tasks[m], e)
            BY <6>1, <6>2
          <6>4. ASSUME NEW m \in 1 .. Len(tasks), LeadsTo(tasks[m], e)
                PROVE  \E q \in 1 .. k - 1 : LeadsTo(todo'[q], e)
            <7>1. todo'[m] = tasks[m]
              BY StackFacts DEF Types
            <7>2. m \in 1 .. k - 1
              BY <4>1, <4>2
            <7> QED BY <6>4, <7>1, <7>2
          <6> QED BY <6>3, <6>4
        <5>2. CASE j # 1
          <6>1. j \in 2 .. Len(todo)
            BY <4>2, <5>2
          <6>2. todo'[j + Len(tasks) - 1] = todo[j]
            BY <6>1, StackFacts DEF Types
          <6>3. j + Len(tasks) - 1 \in 1 .. k - 1
            BY <4>1, <4>2, <5>2
          <6> QED BY <4>4, <6>2, <6>3
        <5> QED BY <5>1, <5>2
      <4>5. e \in subtractive \cup Lost \/ \E j \in 1 .. i - 1 : LeadsTo(todo[j], e)
        BY <2>1, <4>2 DEF Seen, AttachReady
      <4> QED BY <4>2, <4>3, <4>4, <4>5
    <3> QED BY <3>1, <3>2
  <2> QED BY <1>1, <2>1 DEF AttachReady, LeadsTo
<1>7. FailsOnlyOnUnplug'
  BY <1>1 DEF FailsOnlyOnUnplug
<1> QED BY <1>4, <1>5, <1>6, <1>7 DEF Seen

LEMMA SeenStep ==
  ASSUME Types, Seen, status = "scan", todo # <<>>, NEW tasks \in Seq(Task), Continue(tasks),
         subtractive \subseteq subtractive',
         \A o \in Hosts : \A t \in ToSet(ports'[o]) : PortSeen(t),
         \A i \in 1 .. Len(tasks) :
           /\ TaskSeen(tasks[i])
           /\ tasks[i][1] = "attach" => \E j \in 1 .. i - 1 : LeadsTo(tasks[j], tasks[i][3]),
         \A e \in Expanders : LeadsTo(Head(todo), e) =>
           e \in subtractive' \cup Lost \/ \E j \in 1 .. Len(tasks) : LeadsTo(tasks[j], e)
  PROVE  Seen'
<1>1. Push(tasks)
  BY DEF Continue, Push
<1> QED BY <1>1, SeenPush

LEMMA SeenSkip ==
  ASSUME Types, Seen, status = "scan", todo # <<>>, Continue(<<>>),
         subtractive \subseteq subtractive',
         \A o \in Hosts : \A t \in ToSet(ports'[o]) : PortSeen(t),
         \A e \in Expanders : LeadsTo(Head(todo), e) => e \in subtractive' \cup Lost
  PROVE  Seen'
<1> DEFINE none == <<>>
<1>1. none \in Seq(Task) /\ 1 .. Len(none) = {} /\ Continue(none)
  OBVIOUS
<1> HIDE DEF none
<1> QED BY <1>1, SeenStep

LEMMA SeenHead ==
  ASSUME Types, Seen, todo # <<>>
  PROVE  /\ TaskSeen(Head(todo))
         /\ Head(todo)[1] = "attach" => Head(todo)[3] \in subtractive \cup Lost
<1>1. 1 \in 1 .. Len(todo) /\ todo[1] = Head(todo)
  BY DEF Types, TodoType
<1>2. \A j \in 1 .. 1 - 1 : FALSE
  OBVIOUS
<1> QED BY <1>1, <1>2 DEF Seen, TasksSeen, AttachReady

LEMMA SeenList ==
  ASSUME Types, Seen, Doing("list"), ListPhys(Owner)
  PROVE  Seen'
<1> DEFINE o == Owner
           tasks == PhysOf(o) \o << <<"ports", o>> >>
<1>1. o \in Hosts /\ todo # <<>> /\ status = "scan" /\ Head(todo)[1] = "list" /\ Head(todo)[2] = o
  BY HeadFacts, TaskKinds DEF Types, ListTask, Owner, Doing
<1>2. PhysOf(o) \in Seq(OwnPhy(o)) /\ (o \in Expanders => Len(PhysOf(o)) >= 1 /\ PhysOf(o)[1] = Phy(o, o, 1))
  BY <1>1, PhysOfFacts
<1>3. ports' = ports /\ subtractive' = subtractive
  BY DEF ListPhys
<1>4. \A h \in Hosts : \A t \in ToSet(ports'[h]) : PortSeen(t)
  BY <1>3 DEF Seen, PortsSeen
<1>5. \A e : LeadsTo(Head(todo), e) => e = o
  BY <1>1 DEF LeadsTo
<1>6. CASE o \in Isci \/ Present(o)
  <2> DEFINE T == OwnPhy(o) \cup {<<"ports", o>>}
  <2>1. PhysOf(o) \in Seq(T) /\ << <<"ports", o>> >> \in Seq(T)
    BY <1>2, SeqMonotonic, Singleton
  <2>2. T \subseteq Task /\ \A t \in T : t[1] \in {"phy", "ports"}
    BY <1>1, TaskSets DEF OwnPhy, ListTask
  <2>3. tasks \in Seq(T)
    BY <2>1, Joined
  <2>4. tasks \in Seq(Task) /\ \A i \in 1 .. Len(tasks) : tasks[i][1] \in {"phy", "ports"}
    <3>1. \A i \in 1 .. Len(tasks) : tasks[i] \in T
      BY <2>3, ElementOfSeq
    <3> QED BY <2>2, <2>3, <3>1, SeqMonotonic
  <2>5. o \in Expanders => \E j \in 1 .. Len(tasks) : LeadsTo(tasks[j], o)
    <3> SUFFICES ASSUME o \in Expanders PROVE \E j \in 1 .. Len(tasks) : LeadsTo(tasks[j], o)
      OBVIOUS
    <3>1. 1 \in 1 .. Len(tasks) /\ tasks[1] = PhysOf(o)[1]
      BY <1>2, <2>1
    <3>2. LeadsTo(tasks[1], o)
      BY <1>2, <3>1 DEF LeadsTo, Phy
    <3> QED BY <3>1, <3>2
  <2>6. Continue(tasks)
    BY <1>6 DEF ListPhys
  <2>8. /\ \A i \in 1 .. Len(tasks) : tasks[i][1] = "phy" => tasks[i][2] = o
        /\ o \in Expanders => o \in Reached
    <3>1. \A i \in 1 .. Len(tasks) : tasks[i] \in T
      BY <2>3, ElementOfSeq
    <3>2. o \in Expanders => o \in There
      BY <1>6, KindFacts DEF There
    <3> QED BY <3>1, <3>2, ReachedFacts DEF OwnPhy, Types, CablingType
  <2> HIDE DEF o, tasks
  <2>7. \A i \in 1 .. Len(tasks) : TaskSeen(tasks[i]) /\ tasks[i][1] # "attach"
    <3>1. \A i \in 1 .. Len(tasks) : \A e \in Expanders : LeadsTo(tasks[i], e) => e \in Reached
      BY <2>4, <2>8 DEF LeadsTo
    <3> QED BY <2>4, <3>1 DEF TaskSeen
  <2> QED BY <1>1, <1>3, <1>4, <1>5, <2>4, <2>5, <2>6, <2>7, SeenStep
<1>7. CASE ~(o \in Isci \/ Present(o))
  <2>1. Continue(<<>>) /\ <<>> \in Seq(Task) /\ Len(<<>>) = 0
    BY <1>7 DEF ListPhys
  <2>2. ASSUME o \in Expanders PROVE o \in Lost
    <3>1. o \in Reached
      BY <1>1, <2>2, SeenHead DEF TaskSeen, LeadsTo
    <3>2. o \notin There
      BY <1>7 DEF There
    <3> QED BY <3>1, <3>2 DEF Lost
  <2> QED BY <1>1, <1>3, <1>4, <1>5, <2>1, <2>2, SeenSkip
<1> QED BY <1>6, <1>7

LEMMA SeenPhy ==
  ASSUME Types, Seen, Doing("phy"), ReadPhy(Owner, Device, Argument)
  PROVE  Seen'
<1> DEFINE o == Owner
           d == Device
           n == Argument
           create == <<"create", o, d, n>>
<1>1. Head(todo) \in PhyTask /\ todo # <<>> /\ status = "scan" /\ Head(todo)[1] = "phy"
  BY HeadFacts, TaskKinds DEF Types, Doing
<1>2. /\ o \in Hosts /\ d \in Devices /\ d \in Far(o) /\ create \in Task
      /\ Head(todo)[2] = o /\ Head(todo)[3] = d
  BY <1>1, PhyTaskFacts DEF Owner, Device, Argument
<1>3. subtractive' = subtractive
  BY DEF ReadPhy
<1>4. \A e : LeadsTo(Head(todo), e) <=> e = o /\ e = d
  BY <1>1, <1>2 DEF LeadsTo
<1>5. \/ Present(d) /\ o \in Expanders /\ ~KnownPort(o, d) /\ Continue(<<create>>) /\ ports' = ports
      \/ ~Present(d) /\ Continue(<<>>) /\ ports' = ports
      \/ Present(d) /\ KnownPort(o, d) /\ Continue(<<>>) /\ ports' = ports
      \/ /\ Present(d) /\ o \notin Expanders /\ ~KnownPort(o, d) /\ Continue(<<>>)
         /\ ports' = [ports EXCEPT ![o] = Append(@, Port(o, d))]
  BY DEF ReadPhy
<1> HIDE DEF o, d, n, create
<1>6. Present(d) => d \in Reached
  BY <1>2, ReachedFacts DEF There, Types, CablingType
<1>7. <<>> \in Seq(Task) /\ Len(<<>>) = 0 /\ \A h \in Hosts : \A t \in ToSet(ports[h]) : PortSeen(t)
  BY DEF Seen, PortsSeen
<1>8. CASE Present(d) /\ o \in Expanders /\ ~KnownPort(o, d) /\ Continue(<<create>>) /\ ports' = ports
  <2>1. <<create>> \in Seq(Task) /\ Len(<<create>>) = 1 /\ <<create>>[1] = create
    BY <1>2, Singleton
  <2>2. create[1] = "create" /\ create[2] = o /\ create[3] = d
    BY DEF create
  <2>3. TaskSeen(create) /\ create[1] # "attach"
    BY <1>6, <1>8, <2>2 DEF TaskSeen, LeadsTo
  <2>4. \A e \in Expanders : LeadsTo(Head(todo), e) => LeadsTo(create, e)
    BY <1>4, <2>2 DEF LeadsTo
  <2>5. \A i \in 1 .. Len(<<create>>) : <<create>>[i] = create
    BY <2>1
  <2>6. 1 \in 1 .. Len(<<create>>)
    BY <2>1
  <2>7. Continue(<<create>>) /\ \A h \in Hosts : \A t \in ToSet(ports'[h]) : PortSeen(t)
    BY <1>7, <1>8
  <2> QED BY <1>1, <1>3, <2>1, <2>3, <2>4, <2>5, <2>6, <2>7, SeenStep
<1>9. CASE ~Present(d) /\ Continue(<<>>) /\ ports' = ports
  <2>1. ASSUME NEW e \in Expanders, LeadsTo(Head(todo), e) PROVE e \in Lost
    <3>1. e \in Reached /\ e = d
      BY <1>1, <1>4, <2>1, SeenHead DEF TaskSeen
    <3>2. e \notin There
      BY <1>9, <3>1 DEF There
    <3> QED BY <3>1, <3>2 DEF Lost
  <2> QED BY <1>1, <1>3, <1>7, <1>9, <2>1, SeenSkip
<1>10. CASE Present(d) /\ KnownPort(o, d) /\ Continue(<<>>) /\ ports' = ports
  <2>1. ASSUME NEW e \in Expanders, LeadsTo(Head(todo), e) PROVE e \in subtractive \cup Lost
    <3>1. e = o /\ e = d /\ e \in Hosts
      BY <1>2, <1>4, <2>1
    <3>2. CASE Port(o, d) \in ToSet(ports[o])
      BY <1>2, <1>7, <3>1, <3>2 DEF PortSeen, Port
    <3>3. CASE o \in subtractive
      BY <3>1, <3>3
    <3> QED BY <1>10, <3>2, <3>3 DEF KnownPort
  <2> QED BY <1>1, <1>3, <1>7, <1>3, <1>10, <2>1, SeenSkip
<1>11. CASE /\ Present(d) /\ o \notin Expanders /\ ~KnownPort(o, d) /\ Continue(<<>>)
            /\ ports' = [ports EXCEPT ![o] = Append(@, Port(o, d))]
  <2>1. o # d
    BY <1>2, <1>11, KindFacts DEF Hosts
  <2>2. PortSeen(Port(o, d))
    BY <1>6, <1>11, <2>1 DEF PortSeen, Port
  <2>3. o \in Owners /\ ports[o] \in Seq(OwnPort(o)) /\ Port(o, d) \in OwnPort(o)
    BY <1>2, KindFacts DEF Types, WiringType, OwnPort, PortTask, Port
  <2>4. ToSet(Append(ports[o], Port(o, d))) = ToSet(ports[o]) \cup {Port(o, d)}
    BY <2>3, Appended
  <2>5. \A h \in Hosts : ports'[h] = IF h = o THEN Append(ports[o], Port(o, d)) ELSE ports[h]
    BY <1>11, KindFacts DEF Types, WiringType
  <2>6. \A h \in Hosts : \A t \in ToSet(ports'[h]) : PortSeen(t)
    BY <1>7, <2>2, <2>4, <2>5
  <2>7. \A e \in Expanders : ~LeadsTo(Head(todo), e)
    BY <1>4, <2>1
  <2> QED BY <1>1, <1>3, <1>7, <1>11, <2>6, <2>7, SeenSkip
<1> QED BY <1>5, <1>8, <1>9, <1>10, <1>11

LEMMA SeenCreate ==
  ASSUME Types, Seen, Doing("create"), CreatePort(Owner, Device, Argument)
  PROVE  Seen'
<1> DEFINE o == Owner
           d == Device
<1>1. Head(todo) \in PhyTask /\ todo # <<>> /\ status = "scan" /\ Head(todo)[1] = "create"
  BY HeadFacts, TaskKinds DEF Types, Doing
<1>2. o \in Hosts /\ d \in Devices /\ d \in Far(o) /\ Head(todo)[2] = o /\ Head(todo)[3] = d
  BY <1>1, PhyTaskFacts DEF Owner, Device, Argument
<1>3. Continue(<<>>)
  BY DEF CreatePort
<1>4. \/ o = d /\ Present(d) /\ subtractive' = subtractive \cup {o} /\ ports' = ports
      \/ /\ ~(o = d /\ Present(d)) /\ subtractive' = subtractive
         /\ ports' = [ports EXCEPT ![o] = Append(@, Port(o, d))]
  BY DEF CreatePort
<1> HIDE DEF o, d
<1>5. d \in Reached
  BY <1>1, <1>2, SeenHead DEF TaskSeen
<1>6. \A e : LeadsTo(Head(todo), e) <=> e = o /\ e = d
  BY <1>1, <1>2 DEF LeadsTo
<1>7. \A h \in Hosts : \A t \in ToSet(ports[h]) : PortSeen(t)
  BY DEF Seen, PortsSeen
<1>8. CASE o = d /\ Present(d) /\ subtractive' = subtractive \cup {o} /\ ports' = ports
  BY <1>1, <1>3, <1>6, <1>7, <1>8, SeenSkip
<1>9. CASE /\ ~(o = d /\ Present(d)) /\ subtractive' = subtractive
           /\ ports' = [ports EXCEPT ![o] = Append(@, Port(o, d))]
  <2>1. o = d => d \in Lost
    BY <1>5, <1>9 DEF Lost, There
  <2>2. PortSeen(Port(o, d))
    BY <1>5, <2>1 DEF PortSeen, Port
  <2>3. o \in Owners /\ ports[o] \in Seq(OwnPort(o)) /\ Port(o, d) \in OwnPort(o)
    BY <1>2, KindFacts DEF Types, WiringType, OwnPort, PortTask, Port
  <2>4. ToSet(Append(ports[o], Port(o, d))) = ToSet(ports[o]) \cup {Port(o, d)}
    BY <2>3, Appended
  <2>5. \A h \in Hosts : ports'[h] = IF h = o THEN Append(ports[o], Port(o, d)) ELSE ports[h]
    BY <1>9, KindFacts DEF Types, WiringType
  <2>6. \A h \in Hosts : \A t \in ToSet(ports'[h]) : PortSeen(t)
    BY <1>7, <2>2, <2>4, <2>5
  <2> QED BY <1>1, <1>3, <1>6, <1>9, <2>1, <2>6, SeenSkip
<1> QED BY <1>4, <1>8, <1>9

LEMMA SeenPorts ==
  ASSUME Types, Seen, Doing("ports"), ListPorts(Owner)
  PROVE  Seen'
<1> DEFINE tasks == ports[Owner]
<1>1. Owner \in Hosts /\ todo # <<>> /\ status = "scan" /\ Head(todo)[1] = "ports"
  BY HeadFacts, TaskKinds DEF Types, ListTask, Owner, Doing
<1>2. tasks \in Seq(OwnPort(Owner)) /\ OwnPort(Owner) \subseteq Task
  BY <1>1, TaskSets DEF Types, WiringType, OwnPort
<1>3. tasks \in Seq(Task) /\ \A i \in 1 .. Len(tasks) : tasks[i] \in OwnPort(Owner) /\ tasks[i] \in ToSet(tasks)
  <2>1. tasks \in Seq(Task)
    BY <1>2, SeqMonotonic
  <2> HIDE DEF tasks
  <2> QED BY <1>2, <2>1, Elements
<1>4. Continue(tasks) /\ ports' = ports /\ subtractive' = subtractive
  BY DEF ListPorts, wiring
<1>5. \A h \in Hosts : \A t \in ToSet(ports[h]) : PortSeen(t)
  BY DEF Seen, PortsSeen
<1>6. \A t \in ToSet(tasks) : PortSeen(t)
  BY <1>1, <1>5
<1> HIDE DEF tasks
<1>7. \A i \in 1 .. Len(tasks) : TaskSeen(tasks[i]) /\ tasks[i][1] # "attach"
  <2>1. \A i \in 1 .. Len(tasks) : tasks[i][1] = "port" /\ PortSeen(tasks[i])
    BY <1>3, <1>6 DEF OwnPort, PortTask
  <2> QED BY <2>1 DEF TaskSeen, LeadsTo
<1>8. \A e : ~LeadsTo(Head(todo), e)
  BY <1>1 DEF LeadsTo
<1> QED BY <1>1, <1>3, <1>4, <1>5, <1>7, <1>8, SeenStep

(* An exception or a crash is the fault of a device that is lost.           *)
LEMMA SeenStop ==
  ASSUME Types, Seen, NEW how \in {"failed", "crashed"}, Stop(how), NEW d \in Lost, At[d] \in Hosts,
         how = "crashed" => d \in Expanders
  PROVE  Seen'
<1>1. Reached' = Reached /\ Lost' = Lost /\ Unplugged' = Unplugged
  BY DEF Stop, cabling, Reached, Lost, Climbs, There, Present, Unplugged
<1>2. PortsSeen'
  <2>1. ports' = ports
    BY DEF Stop, wiring
  <2> QED BY <1>1, <2>1 DEF Seen, PortsSeen, PortSeen
<1>3. TasksSeen' /\ AttachReady'
  <2>1. todo' = <<>> /\ 1 .. Len(todo') = {}
    BY DEF Stop
  <2> QED BY <2>1 DEF TasksSeen, AttachReady
<1>4. FailsOnlyOnUnplug'
  <2>1. /\ \E x \in Unplugged : At[x] \in Isci \cup Expanders
        /\ d \in Expanders => Unplugged \cap Expanders # {}
    BY Blamed DEF Hosts, Types, CablingType
  <2>2. status' = how
    BY DEF Stop
  <2> QED BY <1>1, <2>1, <2>2 DEF FailsOnlyOnUnplug
<1> QED BY <1>2, <1>3, <1>4 DEF Seen

LEMMA SeenPort ==
  ASSUME Types, Seen, Doing("port"), DiscoverPort(Owner, Device)
  PROVE  Seen'
<1> DEFINE o == Owner
           d == Device
<1>1. Head(todo) \in PortTask /\ todo # <<>> /\ status = "scan" /\ Head(todo)[1] = "port"
  BY HeadFacts, TaskKinds DEF Types, Doing
<1>2. /\ o \in Hosts /\ d \in Devices /\ d \in Far(o) /\ Head(todo)[2] = o /\ Head(todo)[3] = d
      /\ d \in Expanders => << <<"list", d>>, <<"attach", o, d>> >> \in Seq(Task)
      /\ d \notin Expanders => << <<"end", o, d>> >> \in Seq(Task)
  BY <1>1, PortTaskFacts DEF Owner, Device
<1>3. d \in Reached /\ (d = o => d \in Lost)
  BY <1>1, <1>2, SeenHead DEF TaskSeen, PortSeen
<1>4. \A e : ~LeadsTo(Head(todo), e)
  BY <1>1 DEF LeadsTo
<1>5. CASE ~Present(d)
  <2>1. d \in Lost
    BY <1>3, <1>5 DEF Lost, There
  <2>2. At[d] \in Hosts
    BY <1>2, AtFacts, KindFacts DEF Far, Hosts
  <2>3. Stop("failed")
    BY <1>5 DEF DiscoverPort
  <2> QED BY <2>1, <2>2, <2>3, SeenStop
<1>6. CASE Present(d)
  <2>1. o # d
    BY <1>2, <1>3, <1>6 DEF Lost, There
  <2>2. ports' = ports /\ subtractive' = subtractive
    BY <1>6 DEF DiscoverPort, wiring
  <2>3. \A h \in Hosts : \A t \in ToSet(ports'[h]) : PortSeen(t)
    BY <2>2 DEF Seen, PortsSeen
  <2>4. \/ d \in Expanders /\ Continue(<< <<"list", d>>, <<"attach", o, d>> >>)
        \/ d \notin Expanders /\ Continue(<< <<"end", o, d>> >>)
    BY <1>6 DEF DiscoverPort
  <2> HIDE DEF o, d
  <2>5. CASE d \in Expanders /\ Continue(<< <<"list", d>>, <<"attach", o, d>> >>)
    <3> DEFINE list == <<"list", d>>
               attach == <<"attach", o, d>>
               tasks == <<list, attach>>
    <3>1. tasks \in Seq(Task) /\ Len(tasks) = 2 /\ tasks[1] = list /\ tasks[2] = attach
      BY <1>2, <2>5
    <3>2. TaskSeen(list) /\ list[1] # "attach" /\ LeadsTo(list, d)
      BY <1>3 DEF TaskSeen, LeadsTo
    <3>3. TaskSeen(attach) /\ attach[3] = d
      BY <1>3, <2>1 DEF TaskSeen, LeadsTo
    <3>4. Continue(tasks)
      BY <2>5
    <3> HIDE DEF tasks, list, attach
    <3>5. \A i \in 1 .. Len(tasks) : i = 1 \/ i = 2
      BY <3>1
    <3>6. \A i \in 1 .. Len(tasks) :
            /\ TaskSeen(tasks[i])
            /\ tasks[i][1] = "attach" => \E j \in 1 .. i - 1 : LeadsTo(tasks[j], tasks[i][3])
      <4>1. 1 \in 1 .. 2 - 1
        OBVIOUS
      <4>2. \E j \in 1 .. 2 - 1 : LeadsTo(tasks[j], tasks[2][3])
        BY <3>1, <3>2, <3>3, <4>1
      <4> QED BY <3>1, <3>2, <3>3, <3>5, <4>2
    <3> QED BY <1>1, <1>4, <2>2, <2>3, <3>1, <3>4, <3>6, SeenStep
  <2>6. CASE d \notin Expanders /\ Continue(<< <<"end", o, d>> >>)
    <3> DEFINE end == <<"end", o, d>>
               tasks == <<end>>
    <3>1. tasks \in Seq(Task) /\ \A i \in 1 .. Len(tasks) : tasks[i] = end
      BY <1>2, <2>6
    <3>2. TaskSeen(end) /\ end[1] # "attach"
      BY DEF TaskSeen, LeadsTo
    <3>3. Continue(tasks)
      BY <2>6
    <3> HIDE DEF tasks, end
    <3> QED BY <1>1, <1>4, <2>2, <2>3, <3>1, <3>2, <3>3, SeenStep
  <2> QED BY <2>4, <2>5, <2>6
<1> QED BY <1>5, <1>6

LEMMA SeenAttach ==
  ASSUME Types, Seen, Doing("attach"), AttachExpander(Owner, Device)
  PROVE  Seen'
<1> DEFINE o == Owner
           e == Device
<1>1. Head(todo) \in AttachTask /\ todo # <<>> /\ status = "scan" /\ Head(todo)[1] = "attach"
  BY HeadFacts, TaskKinds DEF Types, Doing
<1>2. o \in Hosts /\ e \in Expanders /\ Head(todo)[3] = e
  BY <1>1 DEF AttachTask, Owner, Device
<1>3. \A x : ~LeadsTo(Head(todo), x)
  BY <1>1 DEF LeadsTo
<1>4. CASE e \notin subtractive
  <2>1. e \in Lost
    BY <1>1, <1>2, <1>4, SeenHead
  <2>2. Stop("crashed") /\ At[e] \in Hosts
    BY <1>2, <1>4, AtFacts, KindFacts DEF AttachExpander, Hosts
  <2> QED BY <1>2, <2>1, <2>2, SeenStop
<1>5. CASE e \in subtractive
  <2>1. Continue(<<>>) /\ ports' = ports /\ subtractive' = subtractive
    BY <1>5 DEF AttachExpander
  <2>2. \A h \in Hosts : \A t \in ToSet(ports'[h]) : PortSeen(t)
    BY <2>1 DEF Seen, PortsSeen
  <2> QED BY <1>1, <1>3, <2>1, <2>2, SeenSkip
<1> QED BY <1>4, <1>5

(* The steps of AHCI, VMD and Session that discover nothing of ISCI         *)
LEMMA SeenElsewhere ==
  ASSUME Types, Seen, status = "scan", todo # <<>>, NEW tasks \in Seq(Task), Push(tasks),
         subtractive \subseteq subtractive', \A h \in Hosts : ports'[h] = ports[h],
         Head(todo)[1] \notin {"list", "phy", "create"},
         \A i \in 1 .. Len(tasks) : tasks[i][1] \notin {"list", "phy", "create", "port", "attach"}
  PROVE  Seen'
<1>1. \A h \in Hosts : \A t \in ToSet(ports'[h]) : PortSeen(t)
  BY DEF Seen, PortsSeen
<1>2. \A i \in 1 .. Len(tasks) : TaskSeen(tasks[i]) /\ tasks[i][1] # "attach"
  BY DEF TaskSeen, LeadsTo
<1>3. \A e : ~LeadsTo(Head(todo), e)
  BY DEF LeadsTo
<1> QED BY <1>1, <1>2, <1>3, SeenPush

LEMMA SeenQuietly ==
  ASSUME Types, Seen, status = "scan", todo # <<>>, Push(<<>>),
         subtractive \subseteq subtractive', \A h \in Hosts : ports'[h] = ports[h],
         Head(todo)[1] \notin {"list", "phy", "create"}
  PROVE  Seen'
<1> DEFINE none == <<>>
<1>1. none \in Seq(Task) /\ 1 .. Len(none) = {} /\ Push(none)
  OBVIOUS
<1> HIDE DEF none
<1> QED BY <1>1, SeenElsewhere

LEMMA SeenOne ==
  ASSUME Types, Seen, status = "scan", todo # <<>>, NEW t \in Task, Push(<<t>>),
         subtractive \subseteq subtractive', \A h \in Hosts : ports'[h] = ports[h],
         Head(todo)[1] \notin {"list", "phy", "create"},
         t[1] \notin {"list", "phy", "create", "port", "attach"}
  PROVE  Seen'
<1> DEFINE tasks == <<t>>
<1>1. tasks \in Seq(Task) /\ Push(tasks) /\ \A i \in 1 .. Len(tasks) : tasks[i] = t
  OBVIOUS
<1> HIDE DEF tasks
<1> QED BY <1>1, SeenElsewhere

LEMMA PortsElsewhere ==
  ASSUME Types, NEW o \in Owners \ Hosts, NEW x, ports' = [ports EXCEPT ![o] = Append(@, x)]
  PROVE  \A h \in Hosts : ports'[h] = ports[h]
BY KindFacts DEF Types, WiringType

LEMMA SeenEnd ==
  ASSUME Types, Seen, Doing("end"), OpenEndDevice(Owner, Device)
  PROVE  Seen'
<1>1. todo # <<>> /\ status = "scan" /\ Head(todo)[1] = "end"
  BY DEF Doing
<1>2. Push(<<>>) /\ ports' = ports /\ subtractive' = subtractive
  BY DEF OpenEndDevice, Continue, Push
<1> QED BY <1>1, <1>2, SeenQuietly

LEMMA SeenReadDir ==
  ASSUME Types, Types', Seen, Doing("readdir"), ReadDir(Owner, Device)
  PROVE  Seen'
<1> DEFINE listing == IF Owner \in Vmd THEN Among(Plugged(Owner), There) ELSE Targets(Device)
           stat == <<"stat", Owner, Device, listing>>
<1>1. todo # <<>> /\ status = "scan" /\ Head(todo)[1] = "readdir"
  BY DEF Doing
<1>2. Continue(<<stat>>) /\ ports' = ports /\ subtractive' = subtractive
  BY DEF ReadDir, wiring
<1>3. stat[1] = "stat"
  OBVIOUS
<1> HIDE DEF stat
<1>4. Push(<<stat>>)
  BY <1>2 DEF Continue, Push
<1>5. stat \in Task
  <2>1. todo' = <<stat>> \o Tail(todo) /\ Tail(todo) \in Seq(Task) /\ todo' \in Seq(Task)
    BY <1>1, <1>2 DEF Continue, Types, TodoType
  <2>2. 1 \in 1 .. Len(todo') /\ todo'[1] = stat
    BY <2>1
  <2> QED BY <2>1, <2>2, ElementOfSeq
<1> QED BY <1>1, <1>2, <1>3, <1>4, <1>5, SeenOne

LEMMA SeenStatNvme ==
  ASSUME Types, Seen, Doing("stat"), Owner \in Vmd, StatNvme(Owner, Argument)
  PROVE  Seen'
<1> DEFINE v == Owner
           found == Found(Argument)
           tasks == Each("nvme", v, found)
<1>1. todo # <<>> /\ status = "scan" /\ Head(todo)[1] = "stat" /\ Head(todo) \in VmdStat
  BY HeadFacts, TaskKinds, KindFacts DEF Types, Doing, AhciStat, Owner
<1>2. Continue(tasks) /\ ports' = ports /\ subtractive' = subtractive
  BY DEF StatNvme, wiring
<1>3. v \in Vmd /\ Argument \in Seq(Disks) /\ \A x \in ToSet(Argument) : At[x] = v
  BY <1>1 DEF VmdStat, Owner, Argument
<1>4. found \in Seq(Disks) /\ \A x \in ToSet(found) : x \in Disks /\ At[x] = v
  <2>1. found \in Seq(Disks) /\ ToSet(found) \subseteq ToSet(Argument)
    BY <1>3, FoundFacts
  <2> QED BY <1>3, <2>1, Elements
<1> HIDE DEF found
<1>5. \A x \in ToSet(found) : <<"nvme", v, x>> \in NvmeTask
  BY <1>3, <1>4 DEF NvmeTask
<1>6. tasks \in Seq(NvmeTask)
  BY <1>4, <1>5, EachFacts
<1> HIDE DEF tasks
<1>7. tasks \in Seq(Task) /\ \A i \in 1 .. Len(tasks) : tasks[i][1] = "nvme"
  <2>1. \A i \in 1 .. Len(tasks) : tasks[i] \in NvmeTask
    BY <1>6, ElementOfSeq
  <2> QED BY <1>6, <2>1, TaskSets, SeqMonotonic DEF NvmeTask
<1>8. Push(tasks)
  BY <1>2 DEF Continue, Push
<1> QED BY <1>1, <1>2, <1>7, <1>8, SeenElsewhere

LEMMA SeenStatTargets ==
  ASSUME Types, Seen, Doing("stat"), Owner \in Ahci, StatTargets(Owner, Device, Argument)
  PROVE  Seen'
<1> DEFINE c == Owner
           h == Device
           found == Found(Argument)
           each == Each("member", h, found)
           multiplier == <<"multiplier", c, h>>
           disk == <<"disk", c, found[1], h>>
<1>1. todo # <<>> /\ status = "scan" /\ Head(todo)[1] = "stat" /\ Head(todo) \in AhciStat
  BY HeadFacts, TaskKinds, KindFacts DEF Types, Doing, VmdStat, Owner
<1>2. /\ found \in Seq(Disks)
      /\ Len(found) = 1 => <<disk>> \in Seq(Task)
      /\ Len(found) > 1 => each \in Seq(Task) /\ <<multiplier>> \in Seq(Task)
  BY <1>1, TargetTasks DEF Owner, Device, Argument
<1>3. /\ ports' = ports /\ subtractive \subseteq subtractive'
      /\ \/ Continue(<<>>)
         \/ Len(found) = 1 /\ Continue(<<disk>>)
         \/ Len(found) > 1 /\ Continue(each \o <<multiplier>>)
  BY DEF StatTargets
<1>4. disk[1] = "disk" /\ multiplier[1] = "multiplier"
  OBVIOUS
<1>5. each \in Seq(Task) => \A i \in 1 .. Len(each) : each[i][1] = "member"
  <2>1. Len(each) = Len(found) /\ \A i \in 1 .. Len(found) : each[i] = <<"member", h, found[i]>>
    <3>1. found \in Seq(Disks)
      BY <1>2
    <3> HIDE DEF found, h
    <3> QED BY <3>1, EachEntries
  <2> HIDE DEF found, each, h
  <2> QED BY <2>1
<1> HIDE DEF c, h, found, each, disk, multiplier
<1>6. CASE Continue(<<>>)
  <2>1. Push(<<>>)
    BY <1>6 DEF Continue, Push
  <2> QED BY <1>1, <1>3, <2>1, SeenQuietly
<1>7. CASE Len(found) = 1 /\ Continue(<<disk>>)
  <2>1. disk \in Task
    <3>1. <<disk>> \in Seq(Task) /\ 1 \in 1 .. Len(<<disk>>) /\ <<disk>>[1] = disk
      BY <1>2, <1>7
    <3> QED BY <3>1, ElementOfSeq
  <2>2. Push(<<disk>>)
    BY <1>7 DEF Continue, Push
  <2> QED BY <1>1, <1>3, <1>4, <2>1, <2>2, SeenOne
<1>8. CASE Len(found) > 1 /\ Continue(each \o <<multiplier>>)
  <2> DEFINE tasks == each \o <<multiplier>>
  <2>1. each \in Seq(Task) /\ <<multiplier>> \in Seq(Task) /\ tasks \in Seq(Task)
    BY <1>2, <1>8, Joined
  <2>2. \A i \in 1 .. Len(tasks) : tasks[i][1] \in {"member", "multiplier"}
    <3>1. ASSUME NEW i \in 1 .. Len(tasks) PROVE tasks[i] = multiplier \/ (i \in 1 .. Len(each) /\ tasks[i] = each[i])
      BY <2>1
    <3> QED BY <1>4, <1>5, <2>1, <3>1
  <2>3. Push(tasks)
    BY <1>8 DEF Continue, Push
  <2> HIDE DEF tasks
  <2> QED BY <1>1, <1>3, <2>1, <2>2, <2>3, SeenElsewhere
<1> QED BY <1>3, <1>6, <1>7, <1>8

LEMMA SeenNvme ==
  ASSUME Types, Seen, Doing("nvme"), ReadNvmeDriver(Owner, Device)
  PROVE  Seen'
<1> DEFINE disk == <<"disk", Owner, Device, Device>>
<1>1. todo # <<>> /\ status = "scan" /\ Head(todo)[1] = "nvme" /\ Head(todo) \in NvmeTask
  BY HeadFacts, TaskKinds DEF Types, Doing
<1>2. disk \in Task /\ disk[1] = "disk"
  <2>1. Owner \in Vmd /\ Device \in Disks /\ At[Device] = Owner
    BY <1>1 DEF NvmeTask, Owner, Device
  <2> QED BY <2>1, TaskSets DEF DiskTask
<1>3. ports' = ports /\ subtractive' = subtractive /\ (Continue(<<>>) \/ Continue(<<disk>>))
  BY DEF ReadNvmeDriver
<1> HIDE DEF disk
<1>4. CASE Continue(<<>>)
  <2>1. Push(<<>>)
    BY <1>4 DEF Continue, Push
  <2> QED BY <1>1, <1>3, <2>1, SeenQuietly
<1>5. CASE Continue(<<disk>>)
  <2>1. Push(<<disk>>)
    BY <1>5 DEF Continue, Push
  <2> QED BY <1>1, <1>2, <1>3, <2>1, SeenOne
<1> QED BY <1>3, <1>4, <1>5

LEMMA SeenDisk ==
  ASSUME Types, Seen, Doing("disk"), AttachSingle(Owner, Device, Argument)
  PROVE  Seen'
<1>1. todo # <<>> /\ status = "scan" /\ Head(todo)[1] = "disk" /\ Head(todo) \in DiskTask
  BY HeadFacts, TaskKinds DEF Types, Doing
<1>2. Owner \in Owners \ Hosts
  BY <1>1, KindFacts DEF DiskTask, Hosts, Owner
<1>3. Push(<<>>) /\ subtractive' = subtractive
  BY DEF AttachSingle, Continue, Push
<1>4. \A o \in Hosts : ports'[o] = ports[o]
  BY <1>2, PortsElsewhere DEF AttachSingle
<1> QED BY <1>1, <1>3, <1>4, SeenQuietly

LEMMA SeenMember ==
  ASSUME Types, Seen, Doing("member"), AttachMember(Owner, Device)
  PROVE  Seen'
<1>1. todo # <<>> /\ status = "scan" /\ Head(todo)[1] = "member" /\ Head(todo) \in MemberTask
  BY HeadFacts, TaskKinds DEF Types, Doing
<1>2. Owner \in Owners \ Hosts
  BY <1>1, KindFacts DEF MemberTask, Hosts, Owner
<1>3. Push(<<>>) /\ subtractive' = subtractive
  BY DEF AttachMember, Continue, Push
<1>4. \A o \in Hosts : ports'[o] = ports[o]
  BY <1>2, PortsElsewhere DEF AttachMember
<1> QED BY <1>1, <1>3, <1>4, SeenQuietly

LEMMA SeenMultiplier ==
  ASSUME Types, Seen, Doing("multiplier"), AttachMultiplier(Owner, Device)
  PROVE  Seen'
<1>1. todo # <<>> /\ status = "scan" /\ Head(todo)[1] = "multiplier" /\ Head(todo) \in MultiplierTask
  BY HeadFacts, TaskKinds DEF Types, Doing
<1>2. Owner \in Owners \ Hosts
  BY <1>1, KindFacts DEF MultiplierTask, Hosts, Owner
<1>3. Push(<<>>) /\ subtractive' = subtractive
  BY DEF AttachMultiplier, Continue, Push
<1>4. \A o \in Hosts : ports'[o] = ports[o]
  BY <1>2, PortsElsewhere DEF AttachMultiplier
<1> QED BY <1>1, <1>3, <1>4, SeenQuietly

LEMMA SeenAdd ==
  ASSUME Types, Seen, Doing("add"), AddToSession(Owner)
  PROVE  Seen'
<1>1. todo # <<>> /\ status = "scan" /\ Head(todo)[1] = "add"
  BY DEF Doing
<1>2. Push(<<>>)
  <2>1. Tail(todo) \in Seq(Task) /\ todo' = Tail(todo) /\ UNCHANGED <<cabling, status>>
    BY <1>1 DEF AddToSession, Types, TodoType
  <2> QED BY <2>1, ConcatEmptySeq DEF Push
<1>3. ports' = ports /\ subtractive' = subtractive
  BY DEF AddToSession, wiring
<1> QED BY <1>1, <1>2, <1>3, SeenQuietly

LEMMA SeenChange ==
  ASSUME Types, Seen, NEW d \in Devices, Change(d)
  PROVE  Seen'
<1>1. Reached \subseteq Reached' /\ Lost \subseteq Lost'
  BY LostStays DEF Types, CablingType
<1>2. todo' = todo /\ ports' = ports /\ subtractive' = subtractive /\ status' = "scan"
  BY DEF Change, wiring
<1>3. \A t : PortSeen(t) => PortSeen(t)'
  BY <1>1 DEF PortSeen
<1>4. PortsSeen'
  BY <1>2, <1>3 DEF Seen, PortsSeen, PortSeen
<1>5. \A t : TaskSeen(t) => TaskSeen(t)'
  BY <1>1, <1>3 DEF TaskSeen
<1>6. TasksSeen'
  BY <1>2, <1>5 DEF Seen, TasksSeen
<1>7. AttachReady'
  BY <1>1, <1>2 DEF Seen, AttachReady
<1>8. FailsOnlyOnUnplug'
  BY <1>2 DEF FailsOnlyOnUnplug
<1> QED BY <1>4, <1>6, <1>7, <1>8 DEF Seen

LEMMA SeenInit == Init => Seen
<1> SUFFICES ASSUME Init PROVE Seen
  OBVIOUS
<1>1. \A i \in 1 .. Len(todo) : todo[i] \in StartTask
  <2>1. todo \in Seq(StartTask)
    BY TodoInit
  <2> QED BY <2>1
<1>2. ASSUME NEW t \in StartTask PROVE t[1] # "attach" /\ TaskSeen(t)
  <2>1. t[1] = "list" => t[2] \notin Expanders
    BY KindFacts DEF StartTask
  <2>2. t[1] \in {"list", "readdir", "add"}
    BY DEF StartTask
  <2> QED BY <2>1, <2>2 DEF TaskSeen, LeadsTo
<1>3. PortsSeen
  BY KindFacts, Empty DEF Init, PortsSeen
<1>4. TasksSeen /\ AttachReady
  BY <1>1, <1>2 DEF TasksSeen, AttachReady
<1>5. FailsOnlyOnUnplug
  BY DEF Init, FailsOnlyOnUnplug
<1> QED BY <1>3, <1>4, <1>5 DEF Seen

LEMMA SeenNext == Types /\ Types' /\ Seen /\ [Next]_vars => Seen'
<1> SUFFICES ASSUME Types, Types', Seen, [Next]_vars PROVE Seen'
  OBVIOUS
<1>1. CASE UNCHANGED vars \/ Opened
  <2>1. plugged' = plugged /\ changed' = changed /\ todo' = todo /\ ports' = ports /\ subtractive' = subtractive
    BY <1>1 DEF vars, cabling, wiring, Opened
  <2>2. status' = status \/ status' = "open"
    BY <1>1 DEF vars, Opened
  <2>3. Reached' = Reached /\ Lost' = Lost
    BY <2>1 DEF Reached, Lost, Climbs, There, Present
  <2>4. PortsSeen'
    BY <2>1, <2>3 DEF Seen, PortsSeen, PortSeen
  <2>5. TasksSeen'
    BY <2>1, <2>3 DEF Seen, TasksSeen, TaskSeen, PortSeen
  <2>6. AttachReady'
    BY <2>1, <2>3 DEF Seen, AttachReady
  <2>7. FailsOnlyOnUnplug'
    BY <2>1, <2>2 DEF Seen, FailsOnlyOnUnplug, Unplugged
  <2> QED BY <2>4, <2>5, <2>6, <2>7 DEF Seen
<1>3. CASE \E d \in Devices : Change(d)
  BY <1>3, SeenChange
<1>4. CASE Doing("list") /\ ListPhys(Owner)
  BY <1>4, SeenList
<1>5. CASE Doing("phy") /\ ReadPhy(Owner, Device, Argument)
  BY <1>5, SeenPhy
<1>6. CASE Doing("create") /\ CreatePort(Owner, Device, Argument)
  BY <1>6, SeenCreate
<1>7. CASE Doing("ports") /\ ListPorts(Owner)
  BY <1>7, SeenPorts
<1>8. CASE Doing("port") /\ DiscoverPort(Owner, Device)
  BY <1>8, SeenPort
<1>9. CASE Doing("attach") /\ AttachExpander(Owner, Device)
  BY <1>9, SeenAttach
<1>10. CASE Doing("end") /\ OpenEndDevice(Owner, Device)
  BY <1>10, SeenEnd
<1>11. CASE Doing("readdir") /\ ReadDir(Owner, Device)
  BY <1>11, SeenReadDir
<1>12. CASE Doing("stat") /\ Owner \in Vmd /\ StatNvme(Owner, Argument)
  BY <1>12, SeenStatNvme
<1>13. CASE Doing("stat") /\ Owner \in Ahci /\ StatTargets(Owner, Device, Argument)
  BY <1>13, SeenStatTargets
<1>14. CASE Doing("nvme") /\ ReadNvmeDriver(Owner, Device)
  BY <1>14, SeenNvme
<1>15. CASE Doing("disk") /\ AttachSingle(Owner, Device, Argument)
  BY <1>15, SeenDisk
<1>16. CASE Doing("member") /\ AttachMember(Owner, Device)
  BY <1>16, SeenMember
<1>17. CASE Doing("multiplier") /\ AttachMultiplier(Owner, Device)
  BY <1>17, SeenMultiplier
<1>18. CASE Doing("add") /\ AddToSession(Owner)
  BY <1>18, SeenAdd
<1> QED
  BY <1>1, <1>3, <1>4, <1>5, <1>6, <1>7, <1>8, <1>9, <1>10, <1>11, <1>12, <1>13, <1>14, <1>15,
     <1>16, <1>17, <1>18 DEF Next

LEMMA SeenHolds == Spec => []Seen
BY TypesHold, TypesInit, TypesNext, SeenInit, SeenNext, PTL DEF Spec

(* SsiSessionOpen throws only where ISCI_Port::discover meets a device of   *)
(* an ISCI controller that vanished, and Port::attachPort dereferences a    *)
(* null pointer only for an expander that did: for every cabling, number of *)
(* devices and number of changes.                                           *)
THEOREM FailureNeedsUnplug == Spec => []FailsOnlyOnUnplug
<1>1. Seen => FailsOnlyOnUnplug
  BY DEF Seen
<1> QED BY <1>1, SeenHolds, PTL

-----------------------------------------------------------------------------
(* The parent of a device and the lists of the scopes agree                 *)

(* The object above d that becomes its parent: the disks of a multiplier    *)
(* that is taken for one disk get its controller.                           *)
Above(d) == IF At[d] \in Multipliers THEN At[At[d]] ELSE At[d]

ParentsUp == \A d \in Devices : parent[d] \in {None, Above(d)}
TasksUp == \A i \in 1 .. Len(todo) : todo[i][1] = "attach" => parent[todo[i][3]] = todo[i][2]
EndUp(d, o) == IF o \in Multipliers THEN At[d] = o ELSE parent[d] = o
EndsUp == \A o \in Owners : \A d \in ToSet(scope[o].ends) : EndUp(d, o)

(* All routing devices in the scope of o                                    *)
Below(o) == ToSet(scope[o].routers) \cup ToSet(scope[o].allRouters)
RoutersUp ==
  \A o \in Owners :
    /\ \A r \in ToSet(scope[o].routers) : At[r] = o /\ parent[r] = o
    /\ \A r \in ToSet(scope[o].allRouters) : parent[r] = At[r] /\ At[r] \in Below(o)
    /\ \A d \in ToSet(scope[o].allEnds) : \E r \in Below(o) : d \in ToSet(scope[r].ends)
Up == ParentsUp /\ TasksUp /\ EndsUp /\ RoutersUp

(* setParent is called once for a device.                                   *)
ParentsStay == \A d \in Devices : parent[d] # None => parent'[d] = parent[d]

LEMMA ScopeFacts ==
  ASSUME TreeType, NEW o \in Owners
  PROVE  /\ scope[o].ends \in Seq(Disks) /\ scope[o].allEnds \in Seq(Disks)
         /\ scope[o].routers \in Seq(Routers) /\ scope[o].allRouters \in Seq(Routers)
         /\ ToSet(scope[o].ends) \subseteq Disks /\ ToSet(scope[o].allEnds) \subseteq Disks
         /\ ToSet(scope[o].routers) \subseteq Routers /\ ToSet(scope[o].allRouters) \subseteq Routers
         /\ Below(o) \subseteq Routers
<1>1. /\ scope[o].ends \in Seq(Disks) /\ scope[o].allEnds \in Seq(Disks)
      /\ scope[o].routers \in Seq(Routers) /\ scope[o].allRouters \in Seq(Routers)
  BY DEF TreeType, Scopes
<1>2. /\ ToSet(scope[o].ends) \subseteq Disks /\ ToSet(scope[o].allEnds) \subseteq Disks
      /\ ToSet(scope[o].routers) \subseteq Routers /\ ToSet(scope[o].allRouters) \subseteq Routers
  BY <1>1, Elements
<1> QED BY <1>1, <1>2 DEF Below

LEMMA ParentGiven ==
  ASSUME TreeType, ParentsUp, NEW d \in Devices, parent' = [parent EXCEPT ![d] = Above(d)]
  PROVE  ParentsUp' /\ ParentsStay /\ parent'[d] = Above(d)
<1>1. \A x \in Devices : parent'[x] = IF x = d THEN Above(d) ELSE parent[x]
  BY DEF TreeType
<1> QED BY <1>1 DEF ParentsUp, ParentsStay, Above

LEMMA ParentsSame ==
  ASSUME ParentsUp, parent' = parent
  PROVE  ParentsUp' /\ ParentsStay
BY DEF ParentsUp, ParentsStay

LEMMA ScopesSame ==
  ASSUME TreeType, EndsUp, RoutersUp, ParentsStay, scope' = scope
  PROVE  EndsUp' /\ RoutersUp'
<1>1. \A o : Below(o)' = Below(o)
  BY DEF Below
<1>2. \A o \in Owners : o # None
  BY KindFacts
<1>3. \A o \in Owners : \A d \in Disks \cup Routers : parent[d] = o => parent'[d] = o
  BY <1>2, KindFacts DEF ParentsStay
<1>4. EndsUp'
  BY <1>3, ScopeFacts DEF EndsUp, EndUp
<1>5. RoutersUp'
  <2>1. ASSUME NEW o \in Owners, NEW r \in ToSet(scope[o].routers) PROVE At[r] = o /\ parent'[r] = o
    BY <1>3, <2>1, ScopeFacts DEF RoutersUp
  <2>2. ASSUME NEW o \in Owners, NEW r \in ToSet(scope[o].allRouters) PROVE parent'[r] = At[r] /\ At[r] \in Below(o)
    <3>1. r \in Routers /\ parent[r] = At[r] /\ At[r] \in Below(o) /\ At[r] \in Owners
      BY <2>2, ScopeFacts, AtFacts, KindFacts DEF RoutersUp
    <3> QED BY <1>3, <3>1
  <2>3. \A o \in Owners : \A d \in ToSet(scope[o].allEnds) : \E r \in Below(o) : d \in ToSet(scope[r].ends)
    BY DEF RoutersUp
  <2> QED BY <1>1, <2>1, <2>2, <2>3 DEF RoutersUp
<1> QED BY <1>4, <1>5

LEMMA EndIsUp ==
  ASSUME TreeType, EndsUp, RoutersUp, ParentsStay, NEW o \in Owners, NEW d \in Disks, AttachEndDevice(o, d),
         IF o \in Multipliers THEN At[d] = o ELSE parent'[d] = o
  PROVE  EndsUp' /\ RoutersUp'
<1>1. /\ \A x \in Owners : /\ scope'[x].routers = scope[x].routers
                           /\ scope'[x].allEnds = scope[x].allEnds
                           /\ scope'[x].allRouters = scope[x].allRouters
      /\ \A x \in Owners \ {o} : scope'[x].ends = scope[x].ends
      /\ scope'[o].ends = Append(scope[o].ends, d)
  <2>1. \A x \in Owners : scope'[x] = IF x = o THEN [scope[o] EXCEPT !.ends = Append(scope[o].ends, d)] ELSE scope[x]
    BY DEF AttachEndDevice, TreeType
  <2>2. scope[o] \in Scopes
    BY DEF TreeType
  <2> QED BY <2>1, <2>2 DEF Scopes
<1>2. ToSet(scope'[o].ends) = ToSet(scope[o].ends) \cup {d}
  BY <1>1, ScopeFacts, Appended
<1>3. \A x \in Owners : Below(x)' = Below(x)
  BY <1>1 DEF Below
<1>4. \A x \in Owners : \A y \in Disks \cup Routers : parent[y] = x => parent'[y] = x
  BY KindFacts DEF ParentsStay
<1>5. EndsUp'
  <2>1. ASSUME NEW x \in Owners, NEW y \in ToSet(scope'[x].ends)
        PROVE  IF x \in Multipliers THEN At[y] = x ELSE parent'[y] = x
    <3>1. CASE y \in ToSet(scope[x].ends)
      BY <1>4, <3>1, ScopeFacts DEF EndsUp, EndUp
    <3>2. CASE y \notin ToSet(scope[x].ends)
      BY <1>1, <1>2, <2>1, <3>2
    <3> QED BY <3>1, <3>2
  <2> QED BY <2>1 DEF EndsUp, EndUp
<1>6. RoutersUp'
  <2>1. ASSUME NEW x \in Owners, NEW r \in ToSet(scope'[x].routers) PROVE At[r] = x /\ parent'[r] = x
    <3>1. r \in ToSet(scope[x].routers)
      BY <1>1, <2>1
    <3>2. r \in Routers /\ At[r] = x /\ parent[r] = x
      BY <3>1, ScopeFacts DEF RoutersUp
    <3> QED BY <1>4, <3>2
  <2>2. ASSUME NEW x \in Owners, NEW r \in ToSet(scope'[x].allRouters) PROVE parent'[r] = At[r] /\ At[r] \in Below(x)
    <3>1. r \in Routers /\ parent[r] = At[r] /\ At[r] \in Below(x) /\ At[r] \in Owners
      BY <1>1, <2>2, ScopeFacts, AtFacts, KindFacts DEF RoutersUp
    <3> QED BY <1>4, <3>1
  <2>3. ASSUME NEW x \in Owners, NEW y \in ToSet(scope'[x].allEnds)
        PROVE  \E r \in Below(x) : y \in ToSet(scope'[r].ends)
    <3>1. PICK r \in Below(x) : y \in ToSet(scope[r].ends)
      BY <1>1, <2>3 DEF RoutersUp
    <3>2. r \in Owners
      BY <3>1, ScopeFacts, KindFacts
    <3>3. y \in ToSet(scope'[r].ends)
      BY <1>1, <1>2, <3>1, <3>2
    <3> QED BY <3>1, <3>3
  <2> QED BY <1>3, <2>1, <2>2, <2>3 DEF RoutersUp
<1> QED BY <1>5, <1>6

LEMMA RouterIsUp ==
  ASSUME TreeType, EndsUp, RoutersUp, ParentsStay, NEW o \in Owners, NEW r \in Routers,
         At[r] = o, parent'[r] = o, AttachRoutingDevice(o, r)
  PROVE  EndsUp' /\ RoutersUp'
<1>1. /\ scope'[o].ends = scope[o].ends
      /\ scope'[o].routers = Append(scope[o].routers, r)
      /\ scope'[o].allEnds = scope[o].allEnds \o scope[r].ends \o scope[r].allEnds
      /\ scope'[o].allRouters = scope[o].allRouters \o scope[r].routers \o scope[r].allRouters
      /\ \A x \in Owners \ {o} : scope'[x] = scope[x]
  BY RouterAdded
<1>2. r \in Owners
  BY KindFacts
<1>3. /\ ToSet(scope'[o].routers) = ToSet(scope[o].routers) \cup {r}
      /\ ToSet(scope'[o].allEnds) = ToSet(scope[o].allEnds) \cup ToSet(scope[r].ends) \cup ToSet(scope[r].allEnds)
      /\ ToSet(scope'[o].allRouters) = ToSet(scope[o].allRouters) \cup Below(r)
  <2>1. /\ scope[o].routers \in Seq(Routers) /\ scope[o].allEnds \in Seq(Disks) /\ scope[o].allRouters \in Seq(Routers)
        /\ scope[r].routers \in Seq(Routers) /\ scope[r].allEnds \in Seq(Disks)
        /\ scope[r].allRouters \in Seq(Routers) /\ scope[r].ends \in Seq(Disks)
    BY <1>2, ScopeFacts
  <2>2. ToSet(scope'[o].routers) = ToSet(scope[o].routers) \cup {r}
    BY <1>1, <2>1, Appended
  <2>3. ToSet(scope'[o].allEnds) = ToSet(scope[o].allEnds) \cup ToSet(scope[r].ends) \cup ToSet(scope[r].allEnds)
    BY <1>1, <2>1, ThreeJoined
  <2>4. ToSet(scope'[o].allRouters) =
          ToSet(scope[o].allRouters) \cup ToSet(scope[r].routers) \cup ToSet(scope[r].allRouters)
    BY <1>1, <2>1, ThreeJoined
  <2> QED BY <2>2, <2>3, <2>4 DEF Below
<1>4. Below(o)' = Below(o) \cup {r} \cup Below(r) /\ \A x \in Owners \ {o} : Below(x)' = Below(x)
  BY <1>1, <1>3 DEF Below
<1>5. \A x \in Owners : \A y \in Disks \cup Routers : parent[y] = x => parent'[y] = x
  BY KindFacts DEF ParentsStay
<1>6. \A x \in Owners : scope'[x].ends = scope[x].ends
  BY <1>1
<1>7. EndsUp'
  BY <1>5, <1>6, ScopeFacts DEF EndsUp, EndUp
<1>8. RoutersUp'
  <2>1. ASSUME NEW x \in Owners, NEW y \in ToSet(scope'[x].routers) PROVE At[y] = x /\ parent'[y] = x
    <3>1. CASE y \in ToSet(scope[x].routers)
      BY <1>5, <3>1, ScopeFacts DEF RoutersUp
    <3>2. CASE y \notin ToSet(scope[x].routers)
      BY <1>1, <1>3, <2>1, <3>2
    <3> QED BY <3>1, <3>2
  <2>2. ASSUME NEW x \in Owners, NEW y \in ToSet(scope'[x].allRouters)
        PROVE  parent'[y] = At[y] /\ At[y] \in Below(x)'
    <3>1. ASSUME NEW z \in Owners, y \in ToSet(scope[z].allRouters) PROVE parent'[y] = At[y] /\ At[y] \in Below(z)
      <4>1. y \in Routers /\ parent[y] = At[y] /\ At[y] \in Below(z) /\ At[y] \in Owners
        BY <3>1, ScopeFacts, AtFacts, KindFacts DEF RoutersUp
      <4> QED BY <1>5, <4>1
    <3>2. ASSUME y \in ToSet(scope[r].routers) PROVE parent'[y] = At[y] /\ At[y] = r
      BY <1>2, <1>5, <3>2, ScopeFacts DEF RoutersUp
    <3>3. CASE y \in ToSet(scope[x].allRouters)
      BY <1>4, <3>1, <3>3
    <3>4. CASE y \notin ToSet(scope[x].allRouters)
      <4>1. x = o /\ y \in Below(r)
        BY <1>1, <1>3, <2>2, <3>4
      <4> QED BY <1>2, <1>4, <3>1, <3>2, <4>1 DEF Below
    <3> QED BY <3>3, <3>4
  <2>3. ASSUME NEW x \in Owners, NEW y \in ToSet(scope'[x].allEnds)
        PROVE  \E z \in Below(x)' : y \in ToSet(scope'[z].ends)
    <3>1. ASSUME NEW w \in Owners, y \in ToSet(scope[w].allEnds)
          PROVE  \E z \in Below(w) : y \in ToSet(scope'[z].ends)
      <4>1. PICK z \in Below(w) : y \in ToSet(scope[z].ends)
        BY <3>1 DEF RoutersUp
      <4>2. z \in Owners
        BY <4>1, ScopeFacts, KindFacts
      <4> QED BY <1>6, <4>1, <4>2
    <3>2. y \in ToSet(scope[r].ends) => y \in ToSet(scope'[r].ends)
      BY <1>2, <1>6
    <3>3. CASE y \in ToSet(scope[x].allEnds)
      BY <1>4, <3>1, <3>3
    <3>4. CASE y \notin ToSet(scope[x].allEnds)
      <4>1. x = o /\ (y \in ToSet(scope[r].ends) \/ y \in ToSet(scope[r].allEnds))
        BY <1>1, <1>3, <2>3, <3>4
      <4> QED BY <1>2, <1>4, <3>1, <3>2, <4>1
    <3> QED BY <3>3, <3>4
  <2> QED BY <2>1, <2>2, <2>3 DEF RoutersUp
<1> QED BY <1>7, <1>8

(* No step but the one that gives the parent pushes an attachment.          *)
LEMMA TasksStayUp ==
  ASSUME Types, TasksUp, ParentsStay, todo # <<>>, NEW tasks \in Seq(Task), Push(tasks),
         \A i \in 1 .. Len(tasks) : tasks[i][1] = "attach" => parent'[tasks[i][3]] = tasks[i][2]
  PROVE  TasksUp'
<1>1. ASSUME NEW i \in 1 .. Len(todo), todo[i][1] = "attach" PROVE parent'[todo[i][3]] = todo[i][2]
  <2>1. todo[i] \in Task
    BY DEF Types, TodoType
  <2>2. todo[i] \in AttachTask
    BY <1>1, <2>1, TaskKinds
  <2>3. todo[i][2] \in Owners /\ todo[i][3] \in Devices
    BY <2>2, KindFacts DEF AttachTask
  <2> QED BY <1>1, <2>3, KindFacts DEF TasksUp, ParentsStay
<1>2. ASSUME NEW k \in 1 .. Len(todo'), todo'[k][1] = "attach" PROVE parent'[todo'[k][3]] = todo'[k][2]
  <2>1. CASE k \in 1 .. Len(tasks)
    BY <1>2, <2>1, StackFacts DEF Types
  <2>2. ASSUME NEW i \in 2 .. Len(todo), k = i + Len(tasks) - 1 PROVE parent'[todo'[k][3]] = todo'[k][2]
    <3>1. todo'[k] = todo[i] /\ i \in 1 .. Len(todo)
      BY <2>2, StackFacts DEF Types
    <3> QED BY <1>1, <1>2, <3>1
  <2> QED BY <2>1, <2>2, StackFacts DEF Types
<1> QED BY <1>2 DEF TasksUp

(* ... which the steps that only read sysfs keep                            *)
LEMMA UpQuietly ==
  ASSUME Types, Up, todo # <<>>, NEW tasks \in Seq(Task), Push(tasks), UNCHANGED tree,
         \A i \in 1 .. Len(tasks) : tasks[i][1] # "attach"
  PROVE  Up'
<1>1. parent' = parent /\ scope' = scope
  BY DEF tree
<1>2. ParentsUp' /\ ParentsStay
  BY <1>1, ParentsSame DEF Up
<1>3. EndsUp' /\ RoutersUp'
  BY <1>1, <1>2, ScopesSame DEF Up, Types
<1>4. TasksUp'
  BY <1>2, TasksStayUp DEF Up
<1> QED BY <1>2, <1>3, <1>4 DEF Up

LEMMA UpDone ==
  ASSUME Types, Up, todo # <<>>, Push(<<>>), UNCHANGED tree
  PROVE  Up'
<1> DEFINE none == <<>>
<1>1. none \in Seq(Task) /\ 1 .. Len(none) = {} /\ Push(none)
  OBVIOUS
<1> HIDE DEF none
<1> QED BY <1>1, UpQuietly

LEMMA UpOne ==
  ASSUME Types, Types', Up, todo # <<>>, NEW t, Push(<<t>>), UNCHANGED tree, t[1] # "attach"
  PROVE  Up'
<1> DEFINE tasks == <<t>>
<1>1. t \in Task
  <2>1. todo' = <<t>> \o Tail(todo) /\ Tail(todo) \in Seq(Task) /\ todo' \in Seq(Task)
    BY DEF Push, Types, TodoType
  <2>2. 1 \in 1 .. Len(todo') /\ todo'[1] = t
    BY <2>1
  <2> QED BY <2>1, <2>2, ElementOfSeq
<1>2. tasks \in Seq(Task) /\ Push(tasks) /\ \A i \in 1 .. Len(tasks) : tasks[i] = t
  BY <1>1
<1> HIDE DEF tasks
<1> QED BY <1>2, UpQuietly

LEMMA UpOf ==
  ASSUME Types, Up, todo # <<>>, NEW T \in SUBSET Task, NEW tasks \in Seq(T), Continue(tasks), UNCHANGED tree,
         \A t \in T : t[1] # "attach"
  PROVE  Up'
<1>1. tasks \in Seq(Task) /\ \A i \in 1 .. Len(tasks) : tasks[i] \in T
  BY SeqMonotonic, ElementOfSeq
<1>2. Push(tasks)
  BY DEF Continue, Push
<1> QED BY <1>1, <1>2, UpQuietly

LEMMA UpList ==
  ASSUME Types, Up, Doing("list"), ListPhys(Owner)
  PROVE  Up'
<1> DEFINE o == Owner
           T == OwnPhy(o) \cup ListTask
           tasks == PhysOf(o) \o << <<"ports", o>> >>
<1>1. o \in Hosts /\ todo # <<>>
  BY HeadFacts, TaskKinds DEF Types, ListTask, Owner, Doing
<1>2. PhysOf(o) \in Seq(T) /\ << <<"ports", o>> >> \in Seq(T)
  BY <1>1, PhysOfFacts, SeqMonotonic, Singleton DEF ListTask
<1>3. tasks \in Seq(T) /\ T \in SUBSET Task /\ \A t \in T : t[1] # "attach"
  BY <1>2, Joined, TaskSets DEF OwnPhy, ListTask
<1>4. Continue(tasks) \/ Continue(<<>>)
  BY DEF ListPhys
<1>5. UNCHANGED tree
  BY DEF ListPhys
<1> HIDE DEF o, T, tasks
<1>6. CASE Continue(tasks)
  BY <1>1, <1>3, <1>5, <1>6, UpOf
<1>7. CASE Continue(<<>>)
  <2>1. Push(<<>>)
    BY <1>7 DEF Continue, Push
  <2> QED BY <1>1, <1>5, <2>1, UpDone
<1> QED BY <1>4, <1>6, <1>7

LEMMA UpPhy ==
  ASSUME Types, Types', Up, Doing("phy"), ReadPhy(Owner, Device, Argument)
  PROVE  Up'
<1> DEFINE create == <<"create", Owner, Device, Argument>>
<1>1. todo # <<>> /\ create[1] # "attach"
  BY DEF Doing
<1>2. UNCHANGED tree /\ (Push(<<>>) \/ Push(<<create>>))
  BY DEF ReadPhy, Continue, Push
<1> HIDE DEF create
<1> QED BY <1>1, <1>2, UpDone, UpOne

LEMMA UpCreate ==
  ASSUME Types, Up, Doing("create"), CreatePort(Owner, Device, Argument)
  PROVE  Up'
<1>1. todo # <<>> /\ UNCHANGED tree /\ Push(<<>>)
  BY DEF Doing, CreatePort, Continue, Push
<1> QED BY <1>1, UpDone

LEMMA UpPorts ==
  ASSUME Types, Up, Doing("ports"), ListPorts(Owner)
  PROVE  Up'
<1> DEFINE tasks == ports[Owner]
<1>1. Owner \in Hosts /\ todo # <<>>
  BY HeadFacts, TaskKinds DEF Types, ListTask, Owner, Doing
<1>2. tasks \in Seq(OwnPort(Owner)) /\ OwnPort(Owner) \in SUBSET Task /\ \A t \in OwnPort(Owner) : t[1] # "attach"
  BY <1>1, TaskSets DEF Types, WiringType, OwnPort, PortTask
<1>3. Continue(tasks) /\ UNCHANGED tree
  BY DEF ListPorts
<1> HIDE DEF tasks
<1> QED BY <1>1, <1>2, <1>3, UpOf

LEMMA UpReadDir ==
  ASSUME Types, Types', Up, Doing("readdir"), ReadDir(Owner, Device)
  PROVE  Up'
<1> DEFINE listing == IF Owner \in Vmd THEN Among(Plugged(Owner), There) ELSE Targets(Device)
           stat == <<"stat", Owner, Device, listing>>
<1>1. todo # <<>> /\ stat[1] # "attach"
  BY DEF Doing
<1>2. UNCHANGED tree /\ Push(<<stat>>)
  BY DEF ReadDir, Continue, Push
<1> HIDE DEF stat
<1> QED BY <1>1, <1>2, UpOne

LEMMA UpStatNvme ==
  ASSUME Types, Types', Up, Doing("stat"), Owner \in Vmd, StatNvme(Owner, Argument)
  PROVE  Up'
<1> DEFINE tasks == Each("nvme", Owner, Found(Argument))
<1>1. todo # <<>> /\ Head(todo) \in VmdStat
  BY HeadFacts, TaskKinds, KindFacts DEF Types, Doing, AhciStat, Owner
<1>2. Argument \in Seq(Disks) /\ \A x \in ToSet(Argument) : At[x] = Owner
  BY <1>1 DEF VmdStat, Owner, Argument
<1>3. Found(Argument) \in Seq(Disks) /\ \A x \in ToSet(Found(Argument)) : x \in Disks /\ At[x] = Owner
  <2>1. Found(Argument) \in Seq(Disks) /\ ToSet(Found(Argument)) \subseteq ToSet(Argument)
    BY <1>2, FoundFacts
  <2> QED BY <1>2, <2>1, Elements
<1>4. tasks \in Seq(NvmeTask)
  <2>1. \A x \in ToSet(Found(Argument)) : <<"nvme", Owner, x>> \in NvmeTask
    BY <1>3 DEF NvmeTask
  <2> QED BY <1>3, <2>1, EachFacts
<1>5. Continue(tasks) /\ UNCHANGED tree /\ NvmeTask \in SUBSET Task /\ \A t \in NvmeTask : t[1] # "attach"
  BY TaskSets DEF StatNvme, NvmeTask
<1> HIDE DEF tasks
<1> QED BY <1>1, <1>4, <1>5, UpOf

LEMMA UpStatTargets ==
  ASSUME Types, Types', Up, Doing("stat"), Owner \in Ahci, StatTargets(Owner, Device, Argument)
  PROVE  Up'
<1> DEFINE c == Owner
           h == Device
           found == Found(Argument)
           each == Each("member", h, found)
           multiplier == <<"multiplier", c, h>>
           disk == <<"disk", c, found[1], h>>
<1>1. todo # <<>> /\ Head(todo) \in AhciStat
  BY HeadFacts, TaskKinds, KindFacts DEF Types, Doing, VmdStat, Owner
<1>2. /\ found \in Seq(Disks)
      /\ Len(found) > 1 => each \in Seq(Task) /\ <<multiplier>> \in Seq(Task)
  BY <1>1, TargetTasks DEF Owner, Device, Argument
<1>3. \A i \in 1 .. Len(each) : each[i][1] = "member"
  <2>1. Len(each) = Len(found) /\ \A i \in 1 .. Len(found) : each[i] = <<"member", h, found[i]>>
    <3>1. found \in Seq(Disks)
      BY <1>2
    <3> HIDE DEF found, h
    <3> QED BY <3>1, EachEntries
  <2> HIDE DEF found, each, h
  <2> QED BY <2>1
<1>4. /\ UNCHANGED tree
      /\ \/ Push(<<>>)
         \/ Push(<<disk>>)
         \/ Len(found) > 1 /\ Push(each \o <<multiplier>>)
  BY DEF StatTargets, Continue, Push
<1>5. disk[1] # "attach" /\ multiplier[1] = "multiplier"
  OBVIOUS
<1> HIDE DEF c, h, found, each, disk, multiplier
<1>6. CASE Len(found) > 1 /\ Push(each \o <<multiplier>>)
  <2> DEFINE tasks == each \o <<multiplier>>
  <2>1. each \in Seq(Task) /\ <<multiplier>> \in Seq(Task) /\ tasks \in Seq(Task)
    BY <1>2, <1>6, Joined
  <2>2. ASSUME NEW i \in 1 .. Len(tasks) PROVE tasks[i][1] # "attach"
    <3>1. tasks[i] = multiplier \/ (i \in 1 .. Len(each) /\ tasks[i] = each[i])
      BY <2>1, <2>2
    <3> QED BY <1>3, <1>5, <3>1
  <2>3. Push(tasks)
    BY <1>6
  <2> HIDE DEF tasks
  <2> QED BY <1>1, <1>4, <2>1, <2>2, <2>3, UpQuietly
<1> QED BY <1>1, <1>4, <1>5, <1>6, UpDone, UpOne

LEMMA UpNvme ==
  ASSUME Types, Types', Up, Doing("nvme"), ReadNvmeDriver(Owner, Device)
  PROVE  Up'
<1> DEFINE disk == <<"disk", Owner, Device, Device>>
<1>1. todo # <<>> /\ disk[1] # "attach"
  BY DEF Doing
<1>2. UNCHANGED tree /\ (Push(<<>>) \/ Push(<<disk>>))
  BY DEF ReadNvmeDriver, Continue, Push
<1> HIDE DEF disk
<1> QED BY <1>1, <1>2, UpDone, UpOne

LEMMA UpAdd ==
  ASSUME Types, Up, Doing("add"), AddToSession(Owner)
  PROVE  Up'
<1>1. todo # <<>> /\ UNCHANGED tree
  BY DEF Doing, AddToSession
<1>2. Push(<<>>)
  <2>1. Tail(todo) \in Seq(Task) /\ todo' = Tail(todo) /\ UNCHANGED <<cabling, status>>
    BY <1>1 DEF AddToSession, Types, TodoType
  <2> QED BY <2>1, ConcatEmptySeq DEF Push
<1> QED BY <1>1, <1>2, UpDone

(* ... and by those that give a parent or attach an object                  *)
LEMMA UpPort ==
  ASSUME Types, Seen, Up, Doing("port"), DiscoverPort(Owner, Device)
  PROVE  Up'
<1> DEFINE o == Owner
           d == Device
           list == <<"list", d>>
           attach == <<"attach", o, d>>
           end == <<"end", o, d>>
<1>1. Head(todo) \in PortTask /\ todo # <<>> /\ Head(todo)[1] = "port"
  BY HeadFacts, TaskKinds DEF Types, Doing
<1>2. /\ o \in Hosts /\ d \in Devices /\ d \in Far(o) /\ Head(todo)[2] = o /\ Head(todo)[3] = d
      /\ d \in Expanders => <<list, attach>> \in Seq(Task)
      /\ d \notin Expanders => <<end>> \in Seq(Task)
  BY <1>1, PortTaskFacts DEF Owner, Device
<1>3. CASE ~Present(d)
  <2>1. todo' = <<>> /\ parent' = parent /\ scope' = scope
    BY <1>3 DEF DiscoverPort, Stop, tree
  <2>2. ParentsUp' /\ ParentsStay
    BY <2>1, ParentsSame DEF Up
  <2>3. EndsUp' /\ RoutersUp'
    BY <2>1, <2>2, ScopesSame DEF Up, Types
  <2>4. TasksUp'
    BY <2>1 DEF TasksUp
  <2> QED BY <2>2, <2>3, <2>4 DEF Up
<1>4. CASE Present(d) /\ d \in Expanders
  <2>1. d # o
    BY <1>1, <1>2, <1>4, SeenHead DEF TaskSeen, PortSeen, Lost, There
  <2>2. Above(d) = o
    BY <1>2, <2>1, KindFacts DEF Far, Above, Hosts
  <2>3. parent' = [parent EXCEPT ![d] = Above(d)] /\ scope' = scope /\ Push(<<list, attach>>)
    BY <1>4, <2>2 DEF DiscoverPort, Continue, Push
  <2>4. ParentsUp' /\ ParentsStay /\ parent'[d] = o
    BY <1>2, <2>2, <2>3, ParentGiven DEF Up, Types
  <2>5. EndsUp' /\ RoutersUp'
    BY <2>3, <2>4, ScopesSame DEF Up, Types
  <2>6. TasksUp'
    <3> DEFINE tasks == <<list, attach>>
    <3>1. tasks \in Seq(Task) /\ Len(tasks) = 2 /\ tasks[1] = list /\ tasks[2] = attach
      BY <1>2, <1>4
    <3>2. list[1] # "attach" /\ attach[2] = o /\ attach[3] = d
      OBVIOUS
    <3>3. Push(tasks)
      BY <2>3
    <3> HIDE DEF tasks, list, attach
    <3>4. \A i \in 1 .. Len(tasks) : tasks[i][1] = "attach" => parent'[tasks[i][3]] = tasks[i][2]
      BY <2>4, <3>1, <3>2
    <3> QED BY <1>1, <2>4, <3>1, <3>3, <3>4, TasksStayUp DEF Up
  <2> QED BY <2>4, <2>5, <2>6 DEF Up
<1>5. CASE Present(d) /\ d \notin Expanders
  <2>1. UNCHANGED tree /\ Push(<<end>>)
    BY <1>5 DEF DiscoverPort, Continue, Push, tree
  <2>2. <<end>> \in Seq(Task) /\ end[1] # "attach"
    BY <1>2, <1>5
  <2> DEFINE tasks == <<end>>
  <2>3. tasks \in Seq(Task) /\ Push(tasks) /\ \A i \in 1 .. Len(tasks) : tasks[i] = end
    BY <2>1, <2>2
  <2> HIDE DEF tasks, end
  <2> QED BY <1>1, <2>1, <2>2, <2>3, UpQuietly
<1> QED BY <1>3, <1>4, <1>5

LEMMA TasksDone ==
  ASSUME Types, TasksUp, ParentsStay, todo # <<>>, Continue(<<>>)
  PROVE  TasksUp'
<1> DEFINE none == <<>>
<1>1. none \in Seq(Task) /\ 1 .. Len(none) = {} /\ Push(none)
  BY DEF Continue, Push
<1> HIDE DEF none
<1> QED BY <1>1, TasksStayUp

LEMMA UpAttach ==
  ASSUME Types, Seen, Up, Doing("attach"), AttachExpander(Owner, Device)
  PROVE  Up'
<1> DEFINE o == Owner
           e == Device
<1>1. Head(todo) \in AttachTask /\ todo # <<>> /\ Head(todo)[1] = "attach"
  BY HeadFacts, TaskKinds DEF Types, Doing
<1>2. /\ o \in Hosts /\ e \in Expanders /\ e \in Far(o) /\ Head(todo)[2] = o /\ Head(todo)[3] = e
      /\ o \in Owners /\ e \in Routers
  BY <1>1, KindFacts DEF AttachTask, Owner, Device
<1>3. At[e] = o
  BY <1>1, <1>2, SeenHead DEF TaskSeen, Far
<1>4. parent[e] = o
  <2>1. 1 \in 1 .. Len(todo) /\ todo[1] = Head(todo)
    BY <1>1 DEF Types, TodoType
  <2> QED BY <1>1, <1>2, <2>1 DEF Up, TasksUp
<1>5. CASE e \notin subtractive
  <2>1. todo' = <<>> /\ parent' = parent /\ scope' = scope
    BY <1>5 DEF AttachExpander, Stop, tree
  <2>2. ParentsUp' /\ ParentsStay
    BY <2>1, ParentsSame DEF Up
  <2>3. EndsUp' /\ RoutersUp'
    BY <2>1, <2>2, ScopesSame DEF Up, Types
  <2>4. TasksUp'
    BY <2>1 DEF TasksUp
  <2> QED BY <2>2, <2>3, <2>4 DEF Up
<1>6. CASE e \in subtractive
  <2>1. AttachRoutingDevice(o, e) /\ parent' = parent /\ Continue(<<>>)
    BY <1>6 DEF AttachExpander
  <2> HIDE DEF o, e
  <2>2. ParentsUp' /\ ParentsStay
    BY <2>1, ParentsSame DEF Up
  <2>3. EndsUp' /\ RoutersUp'
    BY <1>2, <1>3, <1>4, <2>1, <2>2, RouterIsUp DEF Up, Types
  <2>4. TasksUp'
    BY <1>1, <2>1, <2>2, TasksDone DEF Up
  <2> QED BY <2>2, <2>3, <2>4 DEF Up
<1> QED BY <1>5, <1>6

LEMMA UpAttachEnd ==
  ASSUME Types, Up, todo # <<>>, Continue(<<>>), NEW o \in Owners \ Multipliers, NEW d \in Disks,
         o = Above(d), NEW port, AttachEnd(o, d, port)
  PROVE  Up'
<1>1. parent' = [parent EXCEPT ![d] = Above(d)] /\ AttachEndDevice(o, d)
  BY DEF AttachEnd
<1>2. ParentsUp' /\ ParentsStay /\ parent'[d] = o
  BY <1>1, ParentGiven, KindFacts DEF Up, Types
<1>3. EndsUp' /\ RoutersUp'
  BY <1>1, <1>2, EndIsUp DEF Up, Types
<1>4. TasksUp'
  BY <1>2, TasksDone DEF Up
<1> QED BY <1>2, <1>3, <1>4 DEF Up

LEMMA UpEnd ==
  ASSUME Types, Up, Doing("end"), OpenEndDevice(Owner, Device)
  PROVE  Up'
<1> DEFINE o == Owner
           d == Device
<1>1. Head(todo) \in EndTask /\ todo # <<>>
  BY HeadFacts, TaskKinds DEF Types, Doing
<1>2. o \in Hosts /\ d \in Disks \cup Ses /\ d \in Devices /\ At[d] = o /\ o \in Owners \ Multipliers
  BY <1>1, KindFacts DEF EndTask, Owner, Device, Hosts
<1>3. Above(d) = o
  BY <1>2 DEF Above
<1>4. Continue(<<>>)
  BY DEF OpenEndDevice
<1>5. CASE ~Present(d)
  <2>1. UNCHANGED tree /\ Push(<<>>)
    BY <1>4, <1>5 DEF OpenEndDevice, Continue, Push
  <2> QED BY <1>1, <2>1, UpDone
<1>6. CASE Present(d) /\ d \in Disks
  <2>1. AttachEnd(o, d, Port(o, d))
    BY <1>6 DEF OpenEndDevice
  <2> HIDE DEF o, d
  <2> QED BY <1>1, <1>2, <1>3, <1>4, <1>6, <2>1, UpAttachEnd
<1>7. CASE Present(d) /\ d \notin Disks
  <2>1. parent' = [parent EXCEPT ![d] = Above(d)] /\ scope' = scope
    BY <1>3, <1>7 DEF OpenEndDevice
  <2> HIDE DEF o, d
  <2>2. ParentsUp' /\ ParentsStay
    BY <1>2, <2>1, ParentGiven DEF Up, Types
  <2>3. EndsUp' /\ RoutersUp'
    BY <2>1, <2>2, ScopesSame DEF Up, Types
  <2>4. TasksUp'
    BY <1>1, <1>4, <2>2, TasksDone DEF Up
  <2> QED BY <2>2, <2>3, <2>4 DEF Up
<1> QED BY <1>5, <1>6, <1>7

LEMMA UpDisk ==
  ASSUME Types, Up, Doing("disk"), AttachSingle(Owner, Device, Argument)
  PROVE  Up'
<1> DEFINE c == Owner
           d == Device
           h == Argument
<1>1. Head(todo) \in DiskTask /\ todo # <<>>
  BY HeadFacts, TaskKinds DEF Types, Doing
<1>2. /\ c \in Ahci \cup Vmd /\ d \in Disks /\ h \in Disks \cup Multipliers /\ At[h] = c
      /\ d = h \/ At[d] = h
  BY <1>1 DEF DiskTask, Owner, Device, Argument
<1>3. Continue(<<>>) /\ (AttachEnd(c, d, Port(c, h)) \/ UNCHANGED tree)
  BY DEF AttachSingle, tree
<1> HIDE DEF c, d, h
<1>4. c \in Owners \ Multipliers /\ c \notin Devices
  BY <1>2, KindFacts
<1>5. Above(d) = c
  <2>1. CASE d = h
    BY <1>2, <1>4, <2>1, KindFacts DEF Above
  <2>2. CASE At[d] = h
    <3>1. h \in Owners
      BY <1>2, <2>2, AtFacts, KindFacts
    <3>2. h \in Multipliers
      BY <1>2, <3>1, KindFacts
    <3> QED BY <1>2, <2>2, <3>2 DEF Above
  <2> QED BY <1>2, <2>1, <2>2
<1>6. CASE UNCHANGED tree
  <2>1. Push(<<>>)
    BY <1>3 DEF Continue, Push
  <2> QED BY <1>1, <1>6, <2>1, UpDone
<1> QED BY <1>1, <1>2, <1>3, <1>4, <1>5, <1>6, UpAttachEnd

LEMMA UpMember ==
  ASSUME Types, Up, Doing("member"), AttachMember(Owner, Device)
  PROVE  Up'
<1> DEFINE m == Owner
           d == Device
<1>1. Head(todo) \in MemberTask /\ todo # <<>>
  BY HeadFacts, TaskKinds DEF Types, Doing
<1>2. m \in Multipliers /\ d \in Disks /\ At[d] = m /\ m \in Owners
  BY <1>1, KindFacts DEF MemberTask, Owner, Device
<1>3. parent' = parent /\ (scope' = scope \/ AttachEndDevice(m, d)) /\ Continue(<<>>)
  BY DEF AttachMember
<1> HIDE DEF m, d
<1>4. ParentsUp' /\ ParentsStay
  BY <1>3, ParentsSame DEF Up
<1>5. EndsUp' /\ RoutersUp'
  <2>1. CASE scope' = scope
    BY <1>4, <2>1, ScopesSame DEF Up, Types
  <2>2. CASE AttachEndDevice(m, d)
    BY <1>2, <1>4, <2>2, EndIsUp DEF Up, Types
  <2> QED BY <1>3, <2>1, <2>2
<1>6. TasksUp'
  BY <1>1, <1>3, <1>4, TasksDone DEF Up
<1> QED BY <1>4, <1>5, <1>6 DEF Up

LEMMA UpMultiplier ==
  ASSUME Types, Up, Doing("multiplier"), AttachMultiplier(Owner, Device)
  PROVE  Up'
<1> DEFINE c == Owner
           m == Device
<1>1. Head(todo) \in MultiplierTask /\ todo # <<>>
  BY HeadFacts, TaskKinds DEF Types, Doing
<1>2. c \in Ahci /\ m \in Multipliers /\ At[m] = c /\ c \in Owners \ Multipliers /\ m \in Routers /\ m \in Devices
  BY <1>1, KindFacts DEF MultiplierTask, Owner, Device
<1>3. Above(m) = c
  BY <1>2 DEF Above
<1>4. parent' = [parent EXCEPT ![m] = Above(m)] /\ AttachRoutingDevice(c, m) /\ Continue(<<>>)
  BY <1>3 DEF AttachMultiplier
<1> HIDE DEF c, m
<1>5. ParentsUp' /\ ParentsStay /\ parent'[m] = c
  BY <1>2, <1>3, <1>4, ParentGiven DEF Up, Types
<1>6. EndsUp' /\ RoutersUp'
  BY <1>2, <1>4, <1>5, RouterIsUp DEF Up, Types
<1>7. TasksUp'
  BY <1>1, <1>4, <1>5, TasksDone DEF Up
<1> QED BY <1>5, <1>6, <1>7 DEF Up

LEMMA UpElsewhere ==
  ASSUME Types, Up, todo' = todo, UNCHANGED tree
  PROVE  Up'
<1>1. parent' = parent /\ scope' = scope
  BY DEF tree
<1>2. ParentsUp' /\ ParentsStay
  BY <1>1, ParentsSame DEF Up
<1>3. EndsUp' /\ RoutersUp'
  BY <1>1, <1>2, ScopesSame DEF Up, Types
<1>4. TasksUp'
  BY <1>1 DEF Up, TasksUp
<1> QED BY <1>2, <1>3, <1>4 DEF Up

LEMMA UpInit == Init => Up
<1> SUFFICES ASSUME Init PROVE Up
  OBVIOUS
<1>1. ParentsUp
  BY DEF Init, ParentsUp
<1>2. TasksUp
  <2>1. todo \in Seq(StartTask)
    BY TodoInit
  <2>2. \A i \in 1 .. Len(todo) : todo[i] \in StartTask
    BY <2>1
  <2> QED BY <2>2 DEF TasksUp, StartTask
<1>3. \A o \in Owners : /\ ToSet(scope[o].ends) = {} /\ ToSet(scope[o].allEnds) = {}
                        /\ ToSet(scope[o].routers) = {} /\ ToSet(scope[o].allRouters) = {}
  <2>1. \A o \in Owners : scope[o] = [ends |-> <<>>, allEnds |-> <<>>, routers |-> <<>>, allRouters |-> <<>>]
    BY DEF Init
  <2> QED BY <2>1, Empty
<1>4. EndsUp
  BY <1>3 DEF EndsUp
<1>5. RoutersUp
  BY <1>3 DEF RoutersUp
<1> QED BY <1>1, <1>2, <1>4, <1>5 DEF Up

LEMMA UpNext == Types /\ Types' /\ Seen /\ Up /\ [Next]_vars => Up'
<1> SUFFICES ASSUME Types, Types', Seen, Up, [Next]_vars PROVE Up'
  OBVIOUS
<1>1. CASE UNCHANGED vars \/ Opened \/ \E d \in Devices : Change(d)
  <2>1. todo' = todo /\ UNCHANGED tree
    BY <1>1 DEF vars, Opened, Change
  <2> QED BY <2>1, UpElsewhere
<1>2. CASE Doing("list") /\ ListPhys(Owner)
  BY <1>2, UpList
<1>3. CASE Doing("phy") /\ ReadPhy(Owner, Device, Argument)
  BY <1>3, UpPhy
<1>4. CASE Doing("create") /\ CreatePort(Owner, Device, Argument)
  BY <1>4, UpCreate
<1>5. CASE Doing("ports") /\ ListPorts(Owner)
  BY <1>5, UpPorts
<1>6. CASE Doing("port") /\ DiscoverPort(Owner, Device)
  BY <1>6, UpPort
<1>7. CASE Doing("attach") /\ AttachExpander(Owner, Device)
  BY <1>7, UpAttach
<1>8. CASE Doing("end") /\ OpenEndDevice(Owner, Device)
  BY <1>8, UpEnd
<1>9. CASE Doing("readdir") /\ ReadDir(Owner, Device)
  BY <1>9, UpReadDir
<1>10. CASE Doing("stat") /\ Owner \in Vmd /\ StatNvme(Owner, Argument)
  BY <1>10, UpStatNvme
<1>11. CASE Doing("stat") /\ Owner \in Ahci /\ StatTargets(Owner, Device, Argument)
  BY <1>11, UpStatTargets
<1>12. CASE Doing("nvme") /\ ReadNvmeDriver(Owner, Device)
  BY <1>12, UpNvme
<1>13. CASE Doing("disk") /\ AttachSingle(Owner, Device, Argument)
  BY <1>13, UpDisk
<1>14. CASE Doing("member") /\ AttachMember(Owner, Device)
  BY <1>14, UpMember
<1>15. CASE Doing("multiplier") /\ AttachMultiplier(Owner, Device)
  BY <1>15, UpMultiplier
<1>16. CASE Doing("add") /\ AddToSession(Owner)
  BY <1>16, UpAdd
<1> QED
  BY <1>1, <1>2, <1>3, <1>4, <1>5, <1>6, <1>7, <1>8, <1>9, <1>10, <1>11, <1>12, <1>13, <1>14, <1>15,
     <1>16 DEF Next

(* All the routing devices in the scope of a controller lead up to it.      *)
LEMMA RootsBelow ==
  ASSUME Types, Up, NEW c \in Controllers, NEW r \in Below(c)
  PROVE  Root(r) = c
<1> DEFINE S == {x \in Below(c) : Root(x) # c}
<1>1. c \in Owners /\ S \subseteq Devices /\ Below(c) \subseteq Routers
  BY ScopeFacts, KindFacts DEF Types
<1>2. Root(c) = c
  BY <1>1, RootRule DEF Types, TreeType
<1>3. ASSUME S # {} PROVE FALSE
  <2>1. PICK x \in S : At[x] \notin S
    BY <1>1, <1>3, TreeAssumption
  <2>2. x \in Below(c) /\ x \in Routers /\ x \notin Controllers \cup {None} /\ x \in Owners
    BY <1>1, <2>1, KindFacts
  <2>3. Root(x) = Root(parent[x])
    BY <2>2, RootRule DEF Types, TreeType
  <2>4. CASE x \in ToSet(scope[c].routers)
    BY <1>1, <1>2, <2>1, <2>3, <2>4 DEF Up, RoutersUp
  <2>5. CASE x \in ToSet(scope[c].allRouters)
    <3>1. parent[x] = At[x] /\ At[x] \in Below(c)
      BY <1>1, <2>5 DEF Up, RoutersUp
    <3> QED BY <2>1, <2>3, <3>1
  <2> QED BY <2>2, <2>4, <2>5 DEF Below
<1> QED BY <1>3

LEMMA ControllersFollow == Types /\ Up => ControllerAgrees
<1> SUFFICES ASSUME Types, Up, NEW c \in Controllers,
                    NEW d \in ToSet(scope[c].ends \o scope[c].allEnds \o scope[c].routers \o scope[c].allRouters)
             PROVE  \/ Root(parent[d]) = c
                    \/ parent[d] = None /\ \E m \in Multipliers : d \in ToSet(scope[m].ends)
  BY DEF ControllerAgrees
<1>1. c \in Owners /\ c \notin Multipliers
  BY KindFacts
<1>2. \/ d \in ToSet(scope[c].ends) \/ d \in ToSet(scope[c].allEnds)
      \/ d \in ToSet(scope[c].routers) \/ d \in ToSet(scope[c].allRouters)
  <2> DEFINE ends == scope[c].ends \o scope[c].allEnds
  <2>1. /\ scope[c].ends \in Seq(Disks \cup Routers) /\ scope[c].allEnds \in Seq(Disks \cup Routers)
        /\ scope[c].routers \in Seq(Disks \cup Routers) /\ scope[c].allRouters \in Seq(Disks \cup Routers)
    BY <1>1, ScopeFacts, SeqMonotonic DEF Types
  <2>2. ends \in Seq(Disks \cup Routers) /\ ToSet(ends) = ToSet(scope[c].ends) \cup ToSet(scope[c].allEnds)
    BY <2>1, Joined
  <2>3. d \in ToSet(ends \o scope[c].routers \o scope[c].allRouters)
    OBVIOUS
  <2> HIDE DEF ends
  <2>4. d \in ToSet(ends) \cup ToSet(scope[c].routers) \cup ToSet(scope[c].allRouters)
    BY <2>1, <2>2, <2>3, ThreeJoined
  <2> QED BY <2>2, <2>4
<1>3. Root(c) = c
  BY <1>1, RootRule DEF Types, TreeType
<1>4. CASE d \in ToSet(scope[c].ends)
  BY <1>1, <1>3, <1>4 DEF Up, EndsUp, EndUp
<1>5. CASE d \in ToSet(scope[c].routers)
  BY <1>1, <1>3, <1>5 DEF Up, RoutersUp
<1>6. CASE d \in ToSet(scope[c].allRouters)
  <2>1. parent[d] = At[d] /\ At[d] \in Below(c)
    BY <1>1, <1>6 DEF Up, RoutersUp
  <2> QED BY <2>1, RootsBelow
<1>7. CASE d \in ToSet(scope[c].allEnds)
  <2>1. PICK r \in Below(c) : d \in ToSet(scope[r].ends)
    BY <1>1, <1>7 DEF Up, RoutersUp
  <2>2. r \in Routers /\ r \in Owners /\ Root(r) = c
    BY <1>1, <2>1, ScopeFacts, KindFacts, RootsBelow DEF Types
  <2>3. EndUp(d, r)
    BY <2>1, <2>2 DEF Up, EndsUp
  <2>4. CASE r \notin Multipliers
    BY <2>2, <2>3, <2>4 DEF EndUp
  <2>5. CASE r \in Multipliers
    <3>1. d \in Devices /\ At[d] = r /\ At[r] \in Ahci /\ At[r] \notin Routers
      BY <1>1, <1>7, <2>3, <2>5, ScopeFacts, CablingAssumption, KindFacts DEF EndUp, Types
    <3>2. parent[d] = None \/ parent[d] = At[r]
      BY <2>5, <3>1 DEF Up, ParentsUp, Above
    <3>3. r \in ToSet(scope[c].routers)
      <4>1. r \notin ToSet(scope[c].allRouters)
        BY <1>1, <3>1, ScopeFacts DEF Up, RoutersUp, Types
      <4> QED BY <2>1, <4>1 DEF Below
    <3>4. At[r] = c
      BY <1>1, <3>3 DEF Up, RoutersUp
    <3> QED BY <1>3, <2>1, <2>5, <3>2, <3>4
  <2> QED BY <2>4, <2>5
<1> QED BY <1>2, <1>4, <1>5, <1>6, <1>7

LEMMA UpHolds == Spec => []Up
BY TypesHold, SeenHolds, TypesInit, TypesNext, UpInit, UpNext, PTL DEF Spec

(* What StorageObject::getController finds for an end device or a routing   *)
(* device that is in the scope of a controller is that controller, or       *)
(* nothing for a disk of a port multiplier: for every tree of devices.      *)
THEOREM ControllersAgree == Spec => []ControllerAgrees
BY TypesHold, UpHolds, ControllersFollow, PTL

-----------------------------------------------------------------------------
(* What a routing device adds to the session, down the tree                 *)

(* f gathers from x what A and B say of it around what K names below it.    *)
Gathered(f, A, K, B, x) == A[x] \o FlattenSeq([i \in DOMAIN K[x] |-> f[K[x][i]]]) \o B[x]
Gathers(f, A, K, B, S) == f = [x \in S |-> Gathered(f, A, K, B, x)]
Closed(K, S) == \A x \in S : ToSet(K[x]) \subseteq S
Downward(K) == K \in [Routers -> Seq(Routers)] /\ \A x \in Routers : \A y \in ToSet(K[x]) : At[y] = x

LEMMA GatheredAlike ==
  ASSUME NEW A, NEW K, NEW B, NEW f, NEW g, NEW x \in Routers, Downward(K), \A y \in ToSet(K[x]) : f[y] = g[y]
  PROVE  Gathered(f, A, K, B, x) = Gathered(g, A, K, B, x)
<1>1. K[x] \in Seq(Routers)
  BY DEF Downward
<1>2. \A i \in DOMAIN K[x] : K[x][i] \in ToSet(K[x])
  BY <1>1, Elements
<1>3. [i \in DOMAIN K[x] |-> f[K[x][i]]] = [i \in DOMAIN K[x] |-> g[K[x][i]]]
  BY <1>2
<1> QED BY <1>3 DEF Gathered

LEMMA GatheredType ==
  ASSUME NEW V, NEW A, NEW K, NEW B, NEW f, NEW x \in Routers, Downward(K), A[x] \in Seq(V), B[x] \in Seq(V),
         \A y \in ToSet(K[x]) : f[y] \in Seq(V)
  PROVE  /\ Gathered(f, A, K, B, x) \in Seq(V)
         /\ ToSet(Gathered(f, A, K, B, x)) =
              ToSet(A[x]) \cup (UNION {ToSet(f[y]) : y \in ToSet(K[x])}) \cup ToSet(B[x])
<1> DEFINE below == [i \in DOMAIN K[x] |-> f[K[x][i]]]
<1>1. K[x] \in Seq(Routers)
  BY DEF Downward
<1>2. DOMAIN K[x] = 1 .. Len(K[x]) /\ Len(K[x]) \in Nat /\ \A y : y \in ToSet(K[x]) <=> \E i \in 1 .. Len(K[x]) : K[x][i] = y
  BY <1>1, Elements
<1>3. \A i \in 1 .. Len(K[x]) : f[K[x][i]] \in Seq(V)
  BY <1>2
<1>4. below \in Seq(Seq(V)) /\ Len(below) = Len(K[x]) /\ \A i \in 1 .. Len(K[x]) : below[i] = f[K[x][i]]
  BY <1>2, <1>3
<1> HIDE DEF below
<1>5. FlattenSeq(below) \in Seq(V) /\ ToSet(FlattenSeq(below)) = UNION {ToSet(below[i]) : i \in 1 .. Len(below)}
  BY <1>4, FlattenFacts
<1>6. {ToSet(below[i]) : i \in 1 .. Len(below)} = {ToSet(f[y]) : y \in ToSet(K[x])}
  <2>1. ASSUME NEW i \in 1 .. Len(below) PROVE \E y \in ToSet(K[x]) : ToSet(below[i]) = ToSet(f[y])
    <3>1. i \in 1 .. Len(K[x]) /\ below[i] = f[K[x][i]]
      BY <1>4
    <3>2. K[x][i] \in ToSet(K[x])
      BY <1>2, <3>1
    <3> QED BY <3>1, <3>2
  <2>2. ASSUME NEW y \in ToSet(K[x]) PROVE \E i \in 1 .. Len(below) : ToSet(below[i]) = ToSet(f[y])
    <3>1. PICK i \in 1 .. Len(K[x]) : K[x][i] = y
      BY <1>2
    <3>2. i \in 1 .. Len(below) /\ below[i] = f[y]
      BY <1>4, <3>1
    <3> QED BY <3>2
  <2> QED BY <2>1, <2>2
<1> DEFINE middle == FlattenSeq(below)
<1>7. Gathered(f, A, K, B, x) = A[x] \o middle \o B[x]
  BY DEF Gathered, below
<1>8. middle \in Seq(V) /\ ToSet(middle) = UNION {ToSet(f[y]) : y \in ToSet(K[x])}
  BY <1>5, <1>6
<1> HIDE DEF middle
<1>9. /\ A[x] \o middle \o B[x] \in Seq(V)
      /\ ToSet(A[x] \o middle \o B[x]) = ToSet(A[x]) \cup ToSet(middle) \cup ToSet(B[x])
  BY <1>8, ThreeJoined
<1> QED BY <1>7, <1>8, <1>9

LEMMA GatheredOnce ==
  ASSUME NEW A, NEW K, NEW B, NEW f, NEW g, NEW S \in SUBSET Routers, NEW T \in SUBSET Routers, Downward(K),
         Closed(K, S), Closed(K, T), Gathers(f, A, K, B, S), Gathers(g, A, K, B, T)
  PROVE  \A x \in S \cap T : f[x] = g[x]
<1> DEFINE D == {x \in S \cap T : f[x] # g[x]}
<1> SUFFICES ASSUME D # {} PROVE FALSE
  OBVIOUS
<1>1. D \subseteq Devices
  BY KindFacts
<1>2. PICK x \in D : \A y \in D : At[y] # x
  <2> HIDE DEF D
  <2> QED BY <1>1, TreeAssumption
<1>3. x \in S /\ x \in T /\ x \in Routers
  OBVIOUS
<1>4. \A y \in ToSet(K[x]) : y \in S /\ y \in T /\ At[y] = x
  BY <1>3 DEF Closed, Downward
<1>5. \A y \in ToSet(K[x]) : f[y] = g[y]
  BY <1>2, <1>4
<1>6. Gathered(f, A, K, B, x) = Gathered(g, A, K, B, x)
  BY <1>3, <1>5, GatheredAlike
<1>7. f[x] = Gathered(f, A, K, B, x) /\ g[x] = Gathered(g, A, K, B, x)
  BY <1>3 DEF Gathers
<1> QED BY <1>2, <1>6, <1>7

(* Such a function exists, and its values are what the definition says.     *)
LEMMA GatheredAll ==
  ASSUME NEW V, NEW A, NEW K, NEW B, Downward(K), \A x \in Routers : A[x] \in Seq(V) /\ B[x] \in Seq(V),
         NEW f, f = CHOOSE g : Gathers(g, A, K, B, Routers)
  PROVE  Gathers(f, A, K, B, Routers) /\ \A x \in Routers : f[x] \in Seq(V)
<1> DEFINE Part(S, g) == Closed(K, S) /\ g \in [S -> Seq(V)] /\ Gathers(g, A, K, B, S)
           W == {x \in Routers : \E S \in SUBSET Routers : x \in S /\ \E g : Part(S, g)}
           h == [x \in W |-> CHOOSE v : \E S \in SUBSET Routers : x \in S /\ \E g : Part(S, g) /\ v = g[x]]
<1>1. ASSUME NEW S \in SUBSET Routers, NEW g, Part(S, g) PROVE S \subseteq W /\ \A x \in S : h[x] = g[x]
  <2>1. S \subseteq W
    BY <1>1
  <2>2. ASSUME NEW x \in S PROVE h[x] = g[x]
    <3>1. \E v : \E T \in SUBSET Routers : x \in T /\ \E k : Part(T, k) /\ v = k[x]
      BY <1>1, <2>2
    <3>2. \E T \in SUBSET Routers : x \in T /\ \E k : Part(T, k) /\ h[x] = k[x]
      BY <2>1, <3>1
    <3>3. PICK T \in SUBSET Routers : x \in T /\ \E k : Part(T, k) /\ h[x] = k[x]
      BY <3>2
    <3>4. PICK k : Part(T, k) /\ h[x] = k[x]
      BY <3>3
    <3>5. k[x] = g[x]
      <4>1. Closed(K, S) /\ Closed(K, T) /\ Gathers(g, A, K, B, S) /\ Gathers(k, A, K, B, T)
        BY <1>1, <3>4
      <4>2. \A y \in T \cap S : k[y] = g[y]
        <5> HIDE DEF h, W, Part
        <5> QED BY <4>1, GatheredOnce
      <4> QED BY <3>3, <4>2
    <3> QED BY <3>4, <3>5
  <2> QED BY <2>1, <2>2
<1>2. Part(W, h)
  <2>1. ASSUME NEW x \in W
        PROVE  /\ ToSet(K[x]) \subseteq W /\ h[x] \in Seq(V)
               /\ h[x] = Gathered(h, A, K, B, x)
    <3>1. PICK S \in SUBSET Routers : x \in S /\ \E g : Part(S, g)
      OBVIOUS
    <3>2. PICK g : Part(S, g)
      BY <3>1
    <3>3. S \subseteq W /\ \A y \in S : h[y] = g[y]
      <4> HIDE DEF h, W, Part
      <4> QED BY <1>1, <3>1, <3>2
    <3>4. ToSet(K[x]) \subseteq S /\ g[x] \in Seq(V) /\ g[x] = Gathered(g, A, K, B, x)
      BY <3>1, <3>2 DEF Closed, Gathers
    <3> HIDE DEF h, W
    <3>5. \A y \in ToSet(K[x]) : g[y] = h[y]
      BY <3>3, <3>4
    <3>6. Gathered(g, A, K, B, x) = Gathered(h, A, K, B, x)
      BY <3>1, <3>5, GatheredAlike
    <3> QED BY <3>1, <3>3, <3>4, <3>6
  <2>2. h = [x \in W |-> h[x]]
    OBVIOUS
  <2> HIDE DEF h, W
  <2>3. Gathers(h, A, K, B, W)
    BY <2>1, <2>2 DEF Gathers
  <2>4. h \in [W -> Seq(V)]
    BY <2>1, <2>2
  <2> QED BY <2>1, <2>3, <2>4 DEF Closed
<1>3. W = Routers
  <2> DEFINE R == Routers \ W
  <2> SUFFICES ASSUME R # {} PROVE FALSE
    OBVIOUS
  <2>1. R \subseteq Devices
    BY KindFacts
  <2>2. PICK x \in R : \A y \in R : At[y] # x
    <3> HIDE DEF R
    <3> QED BY <2>1, TreeAssumption
  <2> DEFINE S == W \cup {x}
             g == [y \in S |-> IF y = x THEN Gathered(h, A, K, B, x) ELSE h[y]]
  <2>3. ToSet(K[x]) \subseteq W /\ x \in Routers /\ x \notin W
    <3>1. K[x] \in Seq(Routers) /\ \A y \in ToSet(K[x]) : At[y] = x
      BY DEF Downward
    <3>2. ToSet(K[x]) \subseteq Routers
      BY <3>1, Elements
    <3> HIDE DEF W
    <3> QED BY <2>2, <3>1, <3>2
  <2>4. \A y \in W : h[y] \in Seq(V) /\ h[y] = Gathered(h, A, K, B, y) /\ ToSet(K[y]) \subseteq W
    <3> HIDE DEF h, W
    <3> QED BY <1>2 DEF Gathers, Closed
  <2>5. W \subseteq Routers
    OBVIOUS
  <2> HIDE DEF h, W, R
  <2>6. \A y \in W : g[y] = h[y]
    BY <2>3
  <2>7. ASSUME NEW y \in S PROVE g[y] = Gathered(h, A, K, B, y) /\ Gathered(h, A, K, B, y) = Gathered(g, A, K, B, y)
    <3>1. ToSet(K[y]) \subseteq W /\ y \in Routers
      BY <2>3, <2>4, <2>5
    <3>2. \A z \in ToSet(K[y]) : h[z] = g[z]
      BY <2>6, <3>1
    <3>3. g[y] = Gathered(h, A, K, B, y)
      BY <2>4
    <3> HIDE DEF g
    <3> QED BY <3>1, <3>2, <3>3, GatheredAlike
  <2>8. Gathered(h, A, K, B, x) \in Seq(V)
    <3>1. \A y \in ToSet(K[x]) : h[y] \in Seq(V)
      BY <2>3, <2>4
    <3> QED BY <2>3, <3>1, GatheredType
  <2>9. g \in [S -> Seq(V)]
    BY <2>4, <2>8
  <2>10. g = [y \in S |-> g[y]]
    OBVIOUS
  <2>11. Gathers(g, A, K, B, S)
    <3> HIDE DEF g
    <3> QED BY <2>7, <2>10 DEF Gathers
  <2>12. Closed(K, S) /\ S \in SUBSET Routers /\ x \in S
    BY <2>3, <2>4, <2>5 DEF Closed
  <2>13. x \in W
    <3> HIDE DEF g, S
    <3> QED BY <2>3, <2>9, <2>11, <2>12 DEF W
  <2> QED BY <2>3, <2>13
<1>4. Gathers(h, A, K, B, Routers)
  <2> HIDE DEF h, W
  <2> QED BY <1>2, <1>3
<1> HIDE DEF h
<1>5. Gathers(f, A, K, B, Routers)
  BY <1>4
<1>6. Closed(K, Routers)
  <2>1. \A x \in Routers : K[x] \in Seq(Routers)
    BY DEF Downward
  <2> QED BY <2>1, Elements DEF Closed
<1>7. \A x \in Routers : f[x] = h[x] /\ h[x] \in Seq(V)
  <2>1. \A x \in Routers \cap Routers : f[x] = h[x]
    BY <1>4, <1>5, <1>6, GatheredOnce
  <2>2. \A x \in Routers : h[x] \in Seq(V)
    <3> HIDE DEF W
    <3> QED BY <1>2, <1>3
  <2> QED BY <2>1, <2>2
<1> QED BY <1>5, <1>7

(* What is registered is an object                                          *)
SessionType == session \in Seq(Objects)

LEMMA EndsListed ==
  ASSUME NEW s \in Seq(Disks)
  PROVE  Concat(EndListed, s) \in Seq(Objects)
<1> DEFINE each == [i \in DOMAIN s |-> EndListed(s[i])]
<1>1. ASSUME NEW d \in Disks PROVE EndListed(d) \in Seq(Objects)
  <2>1. d \in Objects /\ Phy(d, d, 1) \in Objects /\ Port(d, d) \in Objects
    BY PhyObject, PortObject, KindFacts, LanesAssumption DEF Objects
  <2> QED BY <2>1 DEF EndListed
<1>2. DOMAIN s = 1 .. Len(s) /\ Len(s) \in Nat /\ \A i \in 1 .. Len(s) : s[i] \in Disks
  OBVIOUS
<1>3. each \in Seq(Seq(Objects))
  BY <1>1, <1>2
<1> HIDE DEF each
<1>4. FlattenSeq(each) \in Seq(Objects)
  BY <1>3, FlattenFacts
<1> QED BY <1>4 DEF Concat, each

(* What it adds before what its routing devices do                          *)
RouterOwn(x) ==
  (IF x \in Multipliers THEN <<Phy(x, x, 1)>> ELSE <<>>)
    \o <<x>> \o Concat(EndListed, scope[x].ends) \o phys[x] \o ports[x]

LEMMA RouterIsListed ==
  ASSUME Types, Up, NEW r \in Routers
  PROVE  /\ RouterListed(r) \in Seq(Objects)
         /\ RouterListed(r) =
              RouterOwn(r) \o FlattenSeq([i \in DOMAIN scope[r].routers |-> RouterListed(scope[r].routers[i])])
                \o <<Port(r, r)>>
<1> DEFINE own(x) == RouterOwn(x)
           A == [x \in Routers |-> own(x)]
           K == [x \in Routers |-> scope[x].routers]
           B == [x \in Routers |-> <<Port(x, x)>>]
           f == CHOOSE g : Gathers(g, A, K, B, Routers)
<1>1. ASSUME NEW x \in Routers PROVE own(x) \in Seq(Objects) /\ <<Port(x, x)>> \in Seq(Objects)
  <2> DEFINE first == IF x \in Multipliers THEN <<Phy(x, x, 1)>> ELSE <<>>
             ends == Concat(EndListed, scope[x].ends)
  <2>1. x \in Objects /\ Phy(x, x, 1) \in Objects /\ Port(x, x) \in Objects /\ x \in Owners
    BY PhyObject, PortObject, KindFacts, LanesAssumption DEF Objects
  <2>2. first \in Seq(Objects) /\ <<x>> \in Seq(Objects) /\ <<Port(x, x)>> \in Seq(Objects)
    BY <2>1
  <2>3. ends \in Seq(Objects)
    BY <2>1, ScopeFacts, EndsListed DEF Types
  <2>4. phys[x] \in Seq(Objects) /\ ports[x] \in Seq(Objects)
    BY <2>1 DEF Types, WiringType
  <2> DEFINE one == <<x>>
             port == <<Port(x, x)>>
  <2>5. own(x) = first \o one \o ends \o phys[x] \o ports[x] /\ one \in Seq(Objects) /\ port \in Seq(Objects)
    BY <2>2 DEF RouterOwn
  <2> HIDE DEF first, ends, one, port
  <2>6. first \o one \o ends \in Seq(Objects)
    BY <2>2, <2>3, <2>5, ThreeJoined
  <2>7. first \o one \o ends \o phys[x] \o ports[x] \in Seq(Objects)
    BY <2>4, <2>6, ThreeJoined
  <2> QED BY <2>5, <2>7 DEF port
<1>2. \A x \in Routers : A[x] \in Seq(Objects) /\ B[x] \in Seq(Objects)
  BY <1>1
<1>3. Downward(K)
  <2>1. ASSUME NEW x \in Routers PROVE scope[x].routers \in Seq(Routers) /\ \A y \in ToSet(scope[x].routers) : At[y] = x
    BY ScopeFacts, KindFacts DEF Types, Up, RoutersUp
  <2> QED BY <2>1 DEF Downward
<1> DEFINE Walks(g) ==
             g = [x \in Routers |->
                   (IF x \in Multipliers THEN <<Phy(x, x, 1)>> ELSE <<>>)
                     \o <<x>> \o Concat(EndListed, scope[x].ends) \o phys[x] \o ports[x]
                     \o FlattenSeq([i \in DOMAIN scope[x].routers |-> g[scope[x].routers[i]]])
                     \o <<Port(x, x)>>]
<1>4. \A g : Gathers(g, A, K, B, Routers) <=> Walks(g)
  <2>1. ASSUME NEW g, NEW x \in Routers
        PROVE  Gathered(g, A, K, B, x) =
                 own(x) \o FlattenSeq([i \in DOMAIN scope[x].routers |-> g[scope[x].routers[i]]]) \o <<Port(x, x)>>
    <3>1. A[x] = own(x) /\ K[x] = scope[x].routers /\ B[x] = <<Port(x, x)>>
      OBVIOUS
    <3> HIDE DEF A, K, B, own
    <3> QED BY <3>1 DEF Gathered
  <2> HIDE DEF A, K, B
  <2> QED BY <2>1 DEF Gathers, RouterOwn
<1>5. \A x : RouterListed(x) = f[x]
  <2> DEFINE walk == CHOOSE g : Walks(g)
  <2>1. \A x : RouterListed(x) = walk[x]
    BY DEF RouterListed
  <2> HIDE DEF A, K, B, Walks
  <2>2. walk = f
    BY <1>4
  <2> QED BY <2>1, <2>2
<1>6. A[r] = own(r) /\ K[r] = scope[r].routers /\ B[r] = <<Port(r, r)>>
  OBVIOUS
<1> HIDE DEF A, K, B
<1>7. Gathers(f, A, K, B, Routers) /\ \A x \in Routers : f[x] \in Seq(Objects)
  BY <1>2, <1>3, GatheredAll
<1> HIDE DEF f
<1> HIDE DEF own
<1>8. f[r] = own(r) \o FlattenSeq([i \in DOMAIN scope[r].routers |-> f[scope[r].routers[i]]]) \o <<Port(r, r)>>
  <2>1. f[r] = Gathered(f, A, K, B, r)
    BY <1>7 DEF Gathers
  <2>2. Gathered(f, A, K, B, r)
          = A[r] \o FlattenSeq([i \in DOMAIN K[r] |-> f[K[r][i]]]) \o B[r]
    BY DEF Gathered
  <2>3. [i \in DOMAIN K[r] |-> f[K[r][i]]] = [i \in DOMAIN scope[r].routers |-> f[scope[r].routers[i]]]
    BY <1>6
  <2> QED BY <1>6, <2>1, <2>2, <2>3
<1>9. [i \in DOMAIN scope[r].routers |-> f[scope[r].routers[i]]] =
        [i \in DOMAIN scope[r].routers |-> RouterListed(scope[r].routers[i])]
  BY <1>5
<1> QED BY <1>5, <1>7, <1>8, <1>9 DEF own

LEMMA RoutersListed ==
  ASSUME Types, Up, NEW s \in Seq(Routers)
  PROVE  Concat(RouterListed, s) \in Seq(Objects)
<1> DEFINE each == [i \in DOMAIN s |-> RouterListed(s[i])]
<1>1. DOMAIN s = 1 .. Len(s) /\ Len(s) \in Nat /\ \A i \in 1 .. Len(s) : s[i] \in Routers
  OBVIOUS
<1>2. \A i \in 1 .. Len(s) : RouterListed(s[i]) \in Seq(Objects)
  BY <1>1, RouterIsListed
<1>3. each \in Seq(Seq(Objects))
  BY <1>1, <1>2
<1> HIDE DEF each
<1>4. FlattenSeq(each) \in Seq(Objects)
  BY <1>3, FlattenFacts
<1> QED BY <1>4 DEF Concat, each

LEMMA SessionAdd ==
  ASSUME Types, Up, SessionType, Doing("add"), AddToSession(Owner)
  PROVE  SessionType'
<1> DEFINE c == Owner
           own == <<c>>
           ends == Concat(EndListed, scope[c].ends)
           routers == Concat(RouterListed, scope[c].routers)
<1>1. c \in Controllers
  BY HeadFacts, TaskKinds DEF Types, Doing, AddTask, Owner
<1>2. c \in Objects /\ c \in Owners
  BY <1>1, KindFacts DEF Objects
<1>3. session \in Seq(Objects) /\ own \in Seq(Objects)
  BY <1>2 DEF SessionType
<1>4. ends \in Seq(Objects) /\ routers \in Seq(Objects)
  BY <1>2, ScopeFacts, EndsListed, RoutersListed DEF Types
<1>5. ports[c] \in Seq(Objects) /\ phys[c] \in Seq(Objects)
  BY <1>2 DEF Types, WiringType
<1>6. enclosures[c] \in Seq(Objects)
  <2>1. Ses \subseteq Objects
    BY KindFacts DEF Objects
  <2> QED BY <1>1, <2>1, SeqMonotonic DEF Types, BoxesType
<1>7. session' = session \o own \o ends \o routers \o ports[c] \o phys[c] \o enclosures[c]
  BY DEF AddToSession
<1> HIDE DEF own, ends, routers
<1>8. session \o own \o ends \in Seq(Objects)
  BY <1>3, <1>4, ThreeJoined
<1>9. session \o own \o ends \o routers \o ports[c] \in Seq(Objects)
  BY <1>4, <1>5, <1>8, ThreeJoined
<1>10. session \o own \o ends \o routers \o ports[c] \o phys[c] \o enclosures[c] \in Seq(Objects)
  BY <1>5, <1>6, <1>9, ThreeJoined
<1> QED BY <1>7, <1>10 DEF SessionType

LEMMA SessionNext == Types /\ Up /\ SessionType /\ [Next]_vars => SessionType'
<1> SUFFICES ASSUME Types, Up, SessionType, [Next]_vars PROVE SessionType'
  OBVIOUS
<1>1. CASE Doing("add") /\ AddToSession(Owner)
  BY <1>1, SessionAdd
<1>2. CASE session' = session
  BY <1>2 DEF SessionType
<1>3. CASE session' = <<>>
  BY <1>3 DEF SessionType
<1>4. session' = session \/ session' = <<>> \/ (Doing("add") /\ AddToSession(Owner))
  BY DEF vars, Next, Change, ListPhys, ReadPhy, CreatePort, ListPorts, DiscoverPort, AttachExpander, OpenEndDevice,
         ReadDir, StatNvme, StatTargets, ReadNvmeDriver, AttachSingle, AttachMember, AttachMultiplier, Opened,
         Continue, Stop
<1> QED BY <1>1, <1>2, <1>3, <1>4

LEMMA SessionHolds == Spec => []SessionType
<1>1. Init => SessionType
  BY DEF Init, SessionType
<1> QED BY <1>1, TypesHold, UpHolds, SessionNext, PTL DEF Spec

LEMMA TypesMean == Types /\ SessionType => TypeOK
<1> SUFFICES ASSUME Types, SessionType PROVE TypeOK
  OBVIOUS
<1>1. /\ plugged \subseteq Devices
      /\ changed \subseteq Devices /\ Cardinality(changed) <= MaxChanges
      /\ status \in {"scan", "open", "failed", "crashed"}
  BY DEF Types, CablingType
<1>2. /\ \A o \in Owners : ToSet(phys[o]) \cup ToSet(ports[o]) \subseteq Objects
      /\ \A w \in wires \cup joined : w[1] \in Objects /\ w[2] \in Objects
      /\ subtractive \subseteq Routers
  <2>1. \A o \in Owners : phys[o] \in Seq(Objects) /\ ports[o] \in Seq(Objects)
    BY DEF Types, WiringType
  <2>2. \A o \in Owners : ToSet(phys[o]) \cup ToSet(ports[o]) \subseteq Objects
    BY <2>1, Elements
  <2> QED BY <2>2 DEF Types, WiringType
<1>3. parent \in [Devices -> Owners \cup {None}]
  BY DEF Types, TreeType
<1>4. ASSUME NEW o \in Owners
      PROVE  /\ ToSet(scope[o].ends \o scope[o].allEnds) \subseteq Disks
             /\ ToSet(scope[o].routers \o scope[o].allRouters) \subseteq Routers
  <2>1. /\ scope[o].ends \in Seq(Disks) /\ scope[o].allEnds \in Seq(Disks)
        /\ scope[o].routers \in Seq(Routers) /\ scope[o].allRouters \in Seq(Routers)
    BY ScopeFacts DEF Types
  <2>2. /\ scope[o].ends \o scope[o].allEnds \in Seq(Disks)
        /\ scope[o].routers \o scope[o].allRouters \in Seq(Routers)
    BY <2>1, Joined
  <2> QED BY <2>2, Elements
<1>5. /\ \A c \in Controllers : ToSet(enclosures[c]) \subseteq Ses
      /\ lister \in [Ses -> Expanders \cup {None}]
      /\ mounted \in [Expanders -> Ses \cup {None}]
      /\ \A s \in Ses : ToSet(members[s]) \subseteq Disks
      /\ box \in [Disks -> Ses \cup {None}]
  <2>1. (\A c \in Controllers : enclosures[c] \in Seq(Ses)) /\ (\A s \in Ses : members[s] \in Seq(Disks))
    BY DEF Types, BoxesType
  <2>2. (\A c \in Controllers : ToSet(enclosures[c]) \subseteq Ses) /\ (\A s \in Ses : ToSet(members[s]) \subseteq Disks)
    BY <2>1, Elements
  <2> QED BY <2>2 DEF Types, BoxesType
<1>6. ToSet(session) \subseteq Objects
  BY Elements DEF SessionType
<1> QED BY <1>1, <1>2, <1>3, <1>4, <1>5, <1>6 DEF TypeOK

(* Every variable of a discovery keeps its type, whatever is plugged or     *)
(* unplugged meanwhile: in particular Port::attachEnclosure only ever makes *)
(* a routing device the lister of an enclosure, and what Session::add       *)
(* registers are objects the discovery made.                                *)
THEOREM TypeCorrect == Spec => []TypeOK
BY SessionHolds, TypesHold, TypesMean, PTL

LEMMA Concatenated ==
  ASSUME NEW X, NEW s \in Seq(X), NEW t \in Seq(X)
  PROVE  /\ Len(s) \in Nat /\ Len(t) \in Nat /\ Len(s \o t) = Len(s) + Len(t)
         /\ \A i \in 1 .. Len(s) : i \in 1 .. Len(s \o t) /\ (s \o t)[i] = s[i]
         /\ \A i \in 1 .. Len(t) : Len(s) + i \in 1 .. Len(s \o t) /\ (s \o t)[Len(s) + i] = t[i]
         /\ \A k \in 1 .. Len(s \o t) : k \in 1 .. Len(s) \/ \E i \in 1 .. Len(t) : k = Len(s) + i
<1>1. Len(s) \in Nat /\ Len(t) \in Nat /\ Len(s \o t) = Len(s) + Len(t)
  OBVIOUS
<1>2. \A i \in 1 .. Len(s) : i \in 1 .. Len(s \o t) /\ (s \o t)[i] = s[i]
  OBVIOUS
<1>3. ASSUME NEW i \in 1 .. Len(t) PROVE Len(s) + i \in 1 .. Len(s \o t) /\ (s \o t)[Len(s) + i] = t[i]
  OBVIOUS
<1>4. ASSUME NEW k \in 1 .. Len(s \o t), k \notin 1 .. Len(s) PROVE \E i \in 1 .. Len(t) : k = Len(s) + i
  <2>1. k - Len(s) \in 1 .. Len(t) /\ k = Len(s) + (k - Len(s))
    BY <1>1, <1>4
  <2> QED BY <2>1
<1> QED BY <1>1, <1>2, <1>3, <1>4

-----------------------------------------------------------------------------
(* The controllers one after the other                                      *)

(* The devices below o                                                      *)
Leads(S, o) == \A x \in S : At[x] = o \/ At[x] \in S
Under(o) == UNION {S \in SUBSET Devices : Leads(S, o)}

LEMMA UnderRule ==
  ASSUME NEW o
  PROVE  Under(o) \subseteq Devices /\ \A d \in Devices : d \in Under(o) <=> At[d] = o \/ At[d] \in Under(o)
<1>1. Under(o) \subseteq Devices
  BY DEF Under
<1>2. ASSUME NEW d \in Under(o) PROVE At[d] = o \/ At[d] \in Under(o)
  BY DEF Under, Leads
<1>3. ASSUME NEW d \in Devices, At[d] = o PROVE d \in Under(o)
  <2>1. Leads({d}, o) /\ {d} \in SUBSET Devices
    BY <1>3 DEF Leads
  <2> QED BY <2>1 DEF Under
<1>4. ASSUME NEW d \in Devices, At[d] \in Under(o) PROVE d \in Under(o)
  <2>1. PICK S \in SUBSET Devices : Leads(S, o) /\ At[d] \in S
    BY <1>4 DEF Under
  <2>2. Leads(S \cup {d}, o) /\ S \cup {d} \in SUBSET Devices
    BY <2>1 DEF Leads
  <2> QED BY <2>2 DEF Under
<1> QED BY <1>1, <1>2, <1>3, <1>4

(* No device is below two controllers.                                      *)
LEMMA UnderOne ==
  ASSUME NEW c \in Controllers, NEW k \in Controllers, NEW d \in Under(c), d \in Under(k)
  PROVE  c = k
<1> DEFINE S == Under(c) \cap Under(k)
<1>1. S \subseteq Devices /\ S # {}
  BY UnderRule
<1>2. PICK x \in S : At[x] \notin S
  BY <1>1, TreeAssumption
<1>3. x \in Devices /\ x \in Under(c) /\ x \in Under(k) /\ Controllers \cap Devices = {}
  BY <1>1, KindFacts
<1>4. At[x] = c \/ At[x] \in Under(c)
  BY <1>3, UnderRule
<1>5. At[x] = k \/ At[x] \in Under(k)
  BY <1>3, UnderRule
<1>6. Under(c) \subseteq Devices /\ Under(k) \subseteq Devices
  BY UnderRule
<1> QED BY <1>2, <1>3, <1>4, <1>5, <1>6

LEMMA UnderSome ==
  ASSUME NEW d \in Devices
  PROVE  \E c \in Controllers : d \in Under(c)
<1> DEFINE S == {x \in Devices : \A c \in Controllers : x \notin Under(c)}
<1> SUFFICES ASSUME S # {} PROVE FALSE
  OBVIOUS
<1>1. PICK x \in S : At[x] \notin S
  BY TreeAssumption
<1>2. At[x] \in Controllers \/ At[x] \in Devices
  BY AtFacts
<1> QED BY <1>1, <1>2, UnderRule

(* The tasks of a controller, which its registration ends                   *)
Add(c) == <<"add", c>>
Of(c, t) == t[2] = c \/ t[2] \in Under(c)
Followed(q) ==
  \A i \in 1 .. Len(q) : \A c \in Controllers : Of(c, q[i]) => \E j \in i .. Len(q) : q[j] = Add(c)
Staged == Followed(todo)

LEMMA TasksStaged ==
  ASSUME NEW c \in Controllers
  PROVE  /\ Len(Tasks(c)) \in Nat \ {0} /\ Tasks(c)[Len(Tasks(c))] = Add(c)
         /\ \A i \in 1 .. Len(Tasks(c)) : Tasks(c)[i][2] = c
<1> DEFINE first == IF c \in Isci THEN << <<"list", c>> >>
                    ELSE IF c \in Vmd THEN << <<"readdir", c, c>> >> ELSE Each("readdir", c, Plugged(c))
           last == << Add(c) >>
<1>1. Tasks(c) = first \o last
  BY DEF Tasks, Add
<1>2. /\ \E V : first \in Seq(V)
      /\ \A i \in 1 .. Len(first) : first[i][2] = c
  <2>1. CASE c \in Isci
    <3>1. first = << <<"list", c>> >>
      BY <2>1
    <3> DEFINE t == <<"list", c>>
    <3>2. t[2] = c /\ first = <<t>>
      BY <3>1
    <3> HIDE DEF first, t
    <3>3. first \in Seq({t}) /\ \A i \in 1 .. Len(first) : first[i] = t
      BY <3>2
    <3> QED BY <3>2, <3>3
  <2>2. CASE c \notin Isci /\ c \in Vmd
    <3>1. first = << <<"readdir", c, c>> >>
      BY <2>2
    <3> DEFINE t == <<"readdir", c, c>>
    <3>2. t[2] = c /\ first = <<t>>
      BY <3>1
    <3> HIDE DEF first, t
    <3>3. first \in Seq({t}) /\ \A i \in 1 .. Len(first) : first[i] = t
      BY <3>2
    <3> QED BY <3>2, <3>3
  <2>3. CASE c \notin Isci /\ c \notin Vmd
    <3> DEFINE P == Plugged(c)
               D == {d \in Devices : At[d] = c}
               V == {<<"readdir", c, d>> : d \in D}
    <3>1. P \in Seq(D)
      BY PluggedFacts
    <3>2. first = Each("readdir", c, P)
      BY <2>3
    <3> HIDE DEF P, first
    <3>3. \A d \in ToSet(P) : <<"readdir", c, d>> \in V
      BY <3>1, Elements
    <3> HIDE DEF D
    <3>4. first \in Seq(V)
      BY <3>1, <3>2, <3>3, EachFacts
    <3>5. \A i \in 1 .. Len(first) : first[i] \in V
      BY <3>4
    <3> QED BY <3>4, <3>5
  <2> QED BY <2>1, <2>2, <2>3
<1>3. PICK V : first \in Seq(V)
  BY <1>2
<1>4. last \in Seq({Add(c)}) /\ Len(last) = 1 /\ last[1] = Add(c)
  OBVIOUS
<1> HIDE DEF first, last
<1>5. /\ Len(first) \in Nat /\ Len(first \o last) = Len(first) + 1
      /\ \A i \in 1 .. Len(first) : (first \o last)[i] = first[i]
      /\ (first \o last)[Len(first) + 1] = Add(c)
  <2> DEFINE W == V \cup {Add(c)}
  <2>1. first \in Seq(W) /\ last \in Seq(W)
    BY <1>3, <1>4, SeqMonotonic
  <2> HIDE DEF W
  <2>2. 1 \in 1 .. Len(last)
    BY <1>4
  <2>3. /\ Len(first) \in Nat /\ Len(first \o last) = Len(first) + Len(last)
        /\ \A i \in 1 .. Len(first) : (first \o last)[i] = first[i]
        /\ \A i \in 1 .. Len(last) : (first \o last)[Len(first) + i] = last[i]
    BY <2>1, Concatenated
  <2> QED BY <1>4, <2>2, <2>3
<1>6. Add(c)[2] = c
  BY DEF Add
<1> DEFINE q == Tasks(c)
           n == Len(first)
<1>7. n \in Nat /\ Len(q) = n + 1 /\ q[n + 1] = Add(c) /\ \A i \in 1 .. n : q[i][2] = c
  <2>1. q = first \o last
    BY <1>1
  <2> HIDE DEF q
  <2>2. n \in Nat /\ Len(q) = n + 1 /\ q[n + 1] = Add(c)
    BY <1>5, <2>1
  <2>3. \A i \in 1 .. n : q[i] = first[i] /\ first[i][2] = c
    BY <1>2, <1>5, <2>1
  <2> HIDE DEF n
  <2> QED BY <2>2, <2>3
<1> HIDE DEF q, n
<1>8. \A i \in 1 .. Len(q) : q[i][2] = c
  <2>1. \A i \in 1 .. n + 1 : i \in 1 .. n \/ i = n + 1
    BY <1>7
  <2> QED BY <1>6, <1>7, <2>1
<1>9. Len(q) \in Nat \ {0} /\ Len(q) - 1 = n
  BY <1>7
<1> QED BY <1>7, <1>8, <1>9 DEF q

LEMMA JoinFollowed ==
  ASSUME NEW c \in Controllers, NEW q \in Seq(Task), Followed(q)
  PROVE  Followed(q \o Tasks(c))
<1> DEFINE t == Tasks(c)
           u == q \o t
           n == Len(q)
           m == Len(t)
<1>1. t \in Seq(Task)
  BY TasksFacts, SeqMonotonic DEF StartTask
<1>2. /\ n \in Nat /\ m \in Nat \ {0} /\ Len(u) = n + m
      /\ \A i \in 1 .. n : i \in 1 .. Len(u) /\ u[i] = q[i]
      /\ \A i \in 1 .. m : n + i \in 1 .. Len(u) /\ u[n + i] = t[i]
      /\ \A k \in 1 .. Len(u) : k \in 1 .. n \/ \E i \in 1 .. m : k = n + i
  <2>1. m \in Nat \ {0}
    BY TasksStaged
  <2> HIDE DEF t
  <2> QED BY <1>1, <2>1, Concatenated
<1>3. t[m] = Add(c) /\ \A i \in 1 .. m : t[i][2] = c
  BY TasksStaged
<1>4. \A k \in Controllers : \A x : x[2] = c /\ Of(k, x) => k = c
  BY UnderRule, KindFacts DEF Of
<1> HIDE DEF t, u, n, m
<1> SUFFICES ASSUME NEW i \in 1 .. Len(u), NEW k \in Controllers, Of(k, u[i])
             PROVE  \E j \in i .. Len(u) : u[j] = Add(k)
  BY DEF Followed, u, t
<1>5. CASE i \in 1 .. n
  <2>1. Of(k, q[i])
    BY <1>2, <1>5
  <2>2. PICK j \in i .. n : q[j] = Add(k)
    BY <1>5, <2>1 DEF Followed, n
  <2>3. j \in 1 .. n /\ j \in i .. Len(u)
    BY <1>2, <1>5, <2>2
  <2> QED BY <1>2, <2>2, <2>3
<1>6. CASE i \notin 1 .. n
  <2>1. PICK e \in 1 .. m : i = n + e
    BY <1>2, <1>6
  <2>2. u[i][2] = c
    BY <1>2, <1>3, <2>1
  <2>3. k = c
    BY <1>4, <2>2
  <2>4. n + m \in i .. Len(u) /\ m \in 1 .. m
    BY <1>2, <2>1
  <2>5. u[n + m] = Add(c)
    BY <1>2, <1>3, <2>4
  <2> QED BY <2>3, <2>4, <2>5
<1> QED BY <1>5, <1>6

LEMMA StagedInit == Init => Staged
<1> SUFFICES ASSUME Init PROVE Staged
  OBVIOUS
<1> DEFINE cs == AllOf(Ahci) \o AllOf(Isci) \o AllOf(Vmd)
           each == [i \in DOMAIN cs |-> Tasks(cs[i])]
           N == Len(cs)
<1>1. cs \in Seq(Controllers)
  BY AllOfFacts, ThreeJoined, KindFacts
<1>2. todo = FlattenSeq(each)
  BY DEF Init, Concat
<1> HIDE DEF cs
<1>3. DOMAIN cs = 1 .. N /\ N \in Nat /\ \A i \in 1 .. N : cs[i] \in Controllers
  BY <1>1
<1>4. ASSUME NEW c \in Controllers PROVE Tasks(c) \in Seq(Task)
  BY TasksFacts, SeqMonotonic DEF StartTask
<1>5. each \in Seq(Seq(Task)) /\ Len(each) = N /\ \A i \in 1 .. N : each[i] = Tasks(cs[i])
  BY <1>3, <1>4
<1> HIDE DEF each, N
<1>6. PICK f \in [0 .. N -> Seq(Task)] :
         f[0] = <<>> /\ (\A n \in 1 .. N : f[n] = f[n - 1] \o each[n]) /\ todo = f[N]
  BY <1>2, <1>5, FlattenBuilt
<1> DEFINE P == {n \in Nat : n <= N => Followed(f[n])}
<1>7. 0 \in P
  <2>1. f[0] = <<>> /\ 1 .. Len(<<>>) = {}
    BY <1>6
  <2> QED BY <2>1 DEF Followed
<1>8. ASSUME NEW n \in Nat, n \in P PROVE n + 1 \in P
  <2> SUFFICES ASSUME n + 1 <= N PROVE Followed(f[n + 1])
    OBVIOUS
  <2>1. n \in 0 .. N /\ n + 1 \in 1 .. N /\ (n + 1) - 1 = n /\ Followed(f[n])
    BY <1>3, <1>8
  <2>2. f[n] \in Seq(Task) /\ f[n + 1] = f[n] \o Tasks(cs[n + 1]) /\ cs[n + 1] \in Controllers
    BY <1>3, <1>5, <1>6, <2>1
  <2> QED BY <2>1, <2>2, JoinFollowed
<1>9. N \in P
  <2> HIDE DEF P
  <2>1. Nat \subseteq P
    BY <1>7, <1>8, Counting
  <2> QED BY <1>3, <2>1
<1> QED BY <1>3, <1>6, <1>9 DEF Staged

-----------------------------------------------------------------------------
(* What a task does, whichever it is                                        *)

(* A task which one for Owner leaves to do                                  *)
Own(t) ==
  /\ t[1] # "add"
  /\ t[2] = Owner \/ (t[2] \in Devices /\ At[t[2]] = Owner)
  /\ t[2] \in Expanders => t[2] = Owner \/ parent'[t[2]] = Owner
Pushes == \E tasks \in Seq(Task) : Push(tasks) /\ \A i \in 1 .. Len(tasks) : Own(tasks[i])

(* Its effect on the disks of routing devices                               *)
EndsGrow ==
  /\ \A o \in Owners : o # Owner => scope'[o].ends = scope[o].ends
  /\ \A o \in Owners : ToSet(scope[o].ends) \subseteq ToSet(scope'[o].ends)

(* ... and on enclosures                                                    *)
Takes == Owner \in Expanders /\ Device \in Ses /\ At[Device] = Owner /\ TakeEnclosure(Owner, Device)
BoxesKept == UNCHANGED <<members, box>> /\ (UNCHANGED <<enclosures, lister, mounted>> \/ Takes)

(* What every task does but a registration                                  *)
Moved == Pushes /\ UNCHANGED session /\ ParentsStay /\ EndsGrow /\ BoxesKept

LEMMA EndsSame ==
  ASSUME scope' = scope
  PROVE  EndsGrow
BY DEF EndsGrow

LEMMA EndsMore ==
  ASSUME TreeType, Owner \in Owners, NEW d \in Disks, AttachEndDevice(Owner, d)
  PROVE  EndsGrow
<1> DEFINE o == Owner
<1>1. \A x \in Owners : scope'[x].ends = IF x = o THEN Append(scope[x].ends, d) ELSE scope[x].ends
  BY DEF TreeType, Scopes, AttachEndDevice
<1>2. scope[o].ends \in Seq(Disks)
  BY ScopeFacts
<1>3. ToSet(Append(scope[o].ends, d)) = ToSet(scope[o].ends) \cup {d}
  BY <1>2, Appended
<1> QED BY <1>1, <1>3 DEF EndsGrow

LEMMA EndsAside ==
  ASSUME TreeType, Owner \in Owners, NEW r \in Routers, AttachRoutingDevice(Owner, r)
  PROVE  EndsGrow
<1>1. \A x \in Owners : scope'[x].ends = scope[x].ends
  BY RouterAdded
<1> QED BY <1>1 DEF EndsGrow

LEMMA PushesNone ==
  ASSUME Continue(<<>>)
  PROVE  Pushes /\ UNCHANGED session
<1> DEFINE none == <<>>
<1>1. none \in Seq(Task) /\ 1 .. Len(none) = {} /\ Push(none) /\ UNCHANGED session
  BY DEF Continue, Push
<1> HIDE DEF none
<1> QED BY <1>1 DEF Pushes

LEMMA PushesSome ==
  ASSUME NEW T \in SUBSET Task, NEW tasks \in Seq(T), Continue(tasks), \A t \in T : Own(t)
  PROVE  Pushes /\ UNCHANGED session
<1>1. tasks \in Seq(Task) /\ \A i \in 1 .. Len(tasks) : tasks[i] \in T
  BY SeqMonotonic, ElementOfSeq
<1>2. Push(tasks) /\ UNCHANGED session
  BY DEF Continue, Push
<1> QED BY <1>1, <1>2 DEF Pushes

LEMMA PushesOne ==
  ASSUME Types, Types', todo # <<>>, NEW t, Continue(<<t>>), Own(t)
  PROVE  Pushes /\ UNCHANGED session
<1> DEFINE T == {t}
           tasks == <<t>>
<1>1. t \in Task
  <2>1. todo' = <<t>> \o Tail(todo) /\ Tail(todo) \in Seq(Task) /\ todo' \in Seq(Task)
    BY DEF Continue, Types, TodoType
  <2>2. 1 \in 1 .. Len(todo') /\ todo'[1] = t
    BY <2>1
  <2> QED BY <2>1, <2>2, ElementOfSeq
<1>2. tasks \in Seq(T) /\ T \in SUBSET Task /\ \A x \in T : Own(x)
  BY <1>1
<1>3. Continue(tasks)
  OBVIOUS
<1> HIDE DEF tasks, T
<1> QED BY <1>2, <1>3, PushesSome

(* A step that attaches nothing                                             *)
LEMMA MovedQuietly ==
  ASSUME Pushes, UNCHANGED session, UNCHANGED <<tree, boxes>>
  PROVE  Moved
<1>1. parent' = parent /\ scope' = scope /\ BoxesKept
  BY DEF tree, boxes, BoxesKept
<1>2. ParentsStay /\ EndsGrow
  BY <1>1, EndsSame DEF ParentsStay
<1> QED BY <1>1, <1>2 DEF Moved

LEMMA MovedList ==
  ASSUME Types, Up, Doing("list"), ListPhys(Owner)
  PROVE  Moved
<1> DEFINE o == Owner
           T == OwnPhy(o) \cup {<<"ports", o>>}
           tasks == PhysOf(o) \o << <<"ports", o>> >>
<1>1. o \in Hosts
  BY HeadFacts, TaskKinds DEF Types, ListTask, Owner, Doing
<1>2. PhysOf(o) \in Seq(T) /\ << <<"ports", o>> >> \in Seq(T)
  BY <1>1, PhysOfFacts, SeqMonotonic, Singleton
<1>3. tasks \in Seq(T)
  BY <1>2, Joined
<1>4. T \in SUBSET Task /\ \A t \in T : Own(t)
  <2>1. OwnPhy(o) \subseteq Task /\ \A t \in OwnPhy(o) : t[1] = "phy" /\ t[2] = o
    BY TaskSets DEF OwnPhy
  <2>2. <<"ports", o>> \in Task
    BY <1>1, TaskSets DEF ListTask
  <2>3. <<"ports", o>>[1] = "ports" /\ <<"ports", o>>[2] = o
    OBVIOUS
  <2> HIDE DEF o
  <2> QED BY <2>1, <2>2, <2>3 DEF Own, o
<1>5. Continue(tasks) \/ Continue(<<>>)
  BY DEF ListPhys
<1>6. UNCHANGED <<tree, boxes>>
  BY DEF ListPhys
<1> HIDE DEF o, T, tasks
<1>7. Pushes /\ UNCHANGED session
  <2>1. CASE Continue(tasks)
    BY <1>3, <1>4, <2>1, PushesSome
  <2>2. CASE Continue(<<>>)
    BY <2>2, PushesNone
  <2> QED BY <1>5, <2>1, <2>2
<1> QED BY <1>6, <1>7, MovedQuietly

LEMMA MovedPhy ==
  ASSUME Types, Types', Up, Doing("phy"), ReadPhy(Owner, Device, Argument)
  PROVE  Moved
<1> DEFINE create == <<"create", Owner, Device, Argument>>
<1>1. todo # <<>> /\ Own(create)
  BY DEF Doing, Own
<1>2. UNCHANGED <<tree, boxes>> /\ (Continue(<<>>) \/ Continue(<<create>>))
  BY DEF ReadPhy
<1> HIDE DEF create
<1> QED BY <1>1, <1>2, PushesNone, PushesOne, MovedQuietly

LEMMA MovedCreate ==
  ASSUME Types, Up, Doing("create"), CreatePort(Owner, Device, Argument)
  PROVE  Moved
<1>1. UNCHANGED <<tree, boxes>> /\ Continue(<<>>)
  BY DEF CreatePort
<1> QED BY <1>1, PushesNone, MovedQuietly

LEMMA MovedPorts ==
  ASSUME Types, Up, Doing("ports"), ListPorts(Owner)
  PROVE  Moved
<1> DEFINE tasks == ports[Owner]
<1>1. Owner \in Hosts
  BY HeadFacts, TaskKinds DEF Types, ListTask, Owner, Doing
<1>2. tasks \in Seq(OwnPort(Owner)) /\ OwnPort(Owner) \in SUBSET Task
  BY <1>1, TaskSets DEF Types, WiringType, OwnPort
<1>3. \A t \in OwnPort(Owner) : Own(t)
  BY DEF OwnPort, PortTask, Own
<1>4. Continue(tasks) /\ UNCHANGED <<tree, boxes>>
  BY DEF ListPorts
<1> HIDE DEF tasks
<1>5. Pushes /\ UNCHANGED session
  BY <1>2, <1>3, <1>4, PushesSome
<1> QED BY <1>4, <1>5, MovedQuietly

LEMMA MovedReadDir ==
  ASSUME Types, Types', Up, Doing("readdir"), ReadDir(Owner, Device)
  PROVE  Moved
<1> DEFINE listing == IF Owner \in Vmd THEN Among(Plugged(Owner), There) ELSE Targets(Device)
           stat == <<"stat", Owner, Device, listing>>
<1>1. todo # <<>> /\ Own(stat)
  BY DEF Doing, Own
<1>2. UNCHANGED <<tree, boxes>> /\ Continue(<<stat>>)
  BY DEF ReadDir
<1> HIDE DEF stat
<1> QED BY <1>1, <1>2, PushesOne, MovedQuietly

LEMMA MovedStatNvme ==
  ASSUME Types, Types', Up, Doing("stat"), Owner \in Vmd, StatNvme(Owner, Argument)
  PROVE  Moved
<1> DEFINE tasks == Each("nvme", Owner, Found(Argument))
           T == {t \in NvmeTask : t[2] = Owner}
<1>1. Head(todo) \in VmdStat
  BY HeadFacts, TaskKinds, KindFacts DEF Types, Doing, AhciStat, Owner
<1>2. Argument \in Seq(Disks) /\ \A x \in ToSet(Argument) : At[x] = Owner
  BY <1>1 DEF VmdStat, Owner, Argument
<1>3. Found(Argument) \in Seq(Disks) /\ \A x \in ToSet(Found(Argument)) : x \in Disks /\ At[x] = Owner
  <2>1. Found(Argument) \in Seq(Disks) /\ ToSet(Found(Argument)) \subseteq ToSet(Argument)
    BY <1>2, FoundFacts
  <2> QED BY <1>2, <2>1, Elements
<1>4. tasks \in Seq(T)
  <2>1. \A x \in ToSet(Found(Argument)) : <<"nvme", Owner, x>> \in T
    BY <1>3 DEF NvmeTask
  <2> HIDE DEF T
  <2> QED BY <1>3, <2>1, EachFacts
<1>5. Continue(tasks) /\ UNCHANGED <<tree, boxes>> /\ T \in SUBSET Task /\ \A t \in T : Own(t)
  BY TaskSets DEF StatNvme, NvmeTask, Own
<1> HIDE DEF tasks, T
<1>6. Pushes /\ UNCHANGED session
  BY <1>4, <1>5, PushesSome
<1> QED BY <1>5, <1>6, MovedQuietly

LEMMA MovedStatTargets ==
  ASSUME Types, Types', Up, Doing("stat"), Owner \in Ahci, StatTargets(Owner, Device, Argument)
  PROVE  Moved
<1> DEFINE c == Owner
           h == Device
           found == Found(Argument)
           each == Each("member", h, found)
           multiplier == <<"multiplier", c, h>>
           disk == <<"disk", c, found[1], h>>
           T == {t \in Task : Own(t)}
<1>1. todo # <<>> /\ Head(todo) \in AhciStat
  BY HeadFacts, TaskKinds, KindFacts DEF Types, Doing, VmdStat, Owner
<1>2. /\ found \in Seq(Disks) /\ At[h] = c /\ h \in Devices /\ (Len(found) > 1 => h \in Multipliers)
      /\ Len(found) > 1 => each \in Seq(Task) /\ <<multiplier>> \in Seq(Task)
  BY <1>1, TargetTasks, KindFacts DEF Owner, Device, Argument
<1>3. \A i \in 1 .. Len(each) : each[i][1] = "member" /\ each[i][2] = h
  <2>1. Len(each) = Len(found) /\ \A i \in 1 .. Len(found) : each[i] = <<"member", h, found[i]>>
    <3>1. found \in Seq(Disks)
      BY <1>2
    <3> HIDE DEF found, h
    <3> QED BY <3>1, EachEntries
  <2> HIDE DEF found, each, h
  <2> QED BY <2>1
<1>4. /\ UNCHANGED <<tree, boxes>>
      /\ \/ Continue(<<>>)
         \/ Continue(<<disk>>)
         \/ Len(found) > 1 /\ Continue(each \o <<multiplier>>)
  BY DEF StatTargets
<1>5. Own(disk) /\ Own(multiplier)
  BY DEF Own
<1>6. CASE Len(found) > 1 /\ Continue(each \o <<multiplier>>)
  <2> DEFINE tasks == each \o <<multiplier>>
  <2>1. \A t : t[1] = "member" /\ t[2] = h => Own(t)
    BY <1>2, <1>6, KindFacts DEF Own
  <2>2. each \in Seq(Task) /\ <<multiplier>> \in Seq(Task)
    BY <1>2, <1>6
  <2>3. Continue(tasks)
    BY <1>6
  <2> HIDE DEF c, h, found, each, disk, multiplier
  <2>4. multiplier \in T
    <3>1. 1 \in DOMAIN <<multiplier>> /\ <<multiplier>>[1] = multiplier
      OBVIOUS
    <3> QED BY <1>5, <2>2, <3>1, ElementOfSeq
  <2>5. ToSet(each) \subseteq T
    <3>1. \A i \in 1 .. Len(each) : each[i] \in T
      BY <1>3, <2>1, <2>2
    <3> QED BY <2>2, <3>1, Elements
  <2> HIDE DEF T
  <2>6. each \in Seq(T) /\ <<multiplier>> \in Seq(T)
    BY <2>2, <2>4, <2>5, Narrowed, Singleton
  <2>7. tasks \in Seq(T)
    BY <2>6, Joined
  <2>8. T \in SUBSET Task /\ \A t \in T : Own(t)
    BY DEF T
  <2> HIDE DEF tasks
  <2>9. Pushes /\ UNCHANGED session
    BY <2>3, <2>7, <2>8, PushesSome
  <2> QED BY <1>4, <2>9, MovedQuietly
<1> HIDE DEF c, h, found, each, disk, multiplier, T
<1>7. CASE Continue(<<>>) \/ Continue(<<disk>>)
  BY <1>1, <1>4, <1>5, <1>7, PushesNone, PushesOne, MovedQuietly
<1> QED BY <1>4, <1>6, <1>7

LEMMA MovedNvme ==
  ASSUME Types, Types', Up, Doing("nvme"), ReadNvmeDriver(Owner, Device)
  PROVE  Moved
<1> DEFINE disk == <<"disk", Owner, Device, Device>>
<1>1. todo # <<>> /\ Own(disk)
  BY DEF Doing, Own
<1>2. UNCHANGED <<tree, boxes>> /\ (Continue(<<>>) \/ Continue(<<disk>>))
  BY DEF ReadNvmeDriver
<1> HIDE DEF disk
<1> QED BY <1>1, <1>2, PushesNone, PushesOne, MovedQuietly

Stops == \E how \in {"failed", "crashed"} : Stop(how)

LEMMA MovedPort ==
  ASSUME Types, Types', Seen, Up, Doing("port"), DiscoverPort(Owner, Device)
  PROVE  Moved \/ Stops
<1> DEFINE o == Owner
           d == Device
           list == <<"list", d>>
           attach == <<"attach", o, d>>
           end == <<"end", o, d>>
<1>1. Head(todo) \in PortTask /\ todo # <<>> /\ Head(todo)[1] = "port"
  BY HeadFacts, TaskKinds DEF Types, Doing
<1>2. /\ o \in Hosts /\ d \in Devices /\ d \in Far(o) /\ Head(todo)[2] = o /\ Head(todo)[3] = d
      /\ d \in Expanders => <<list, attach>> \in Seq(Task)
  BY <1>1, PortTaskFacts DEF Owner, Device
<1>3. CASE ~Present(d)
  BY <1>3 DEF DiscoverPort, Stops
<1>4. CASE Present(d) /\ d \in Expanders
  <2>1. d # o
    BY <1>1, <1>2, <1>4, SeenHead DEF TaskSeen, PortSeen, Lost, There
  <2>2. Above(d) = o /\ At[d] = o
    BY <1>2, <2>1, KindFacts DEF Far, Above, Hosts
  <2>3. /\ parent' = [parent EXCEPT ![d] = Above(d)] /\ scope' = scope /\ UNCHANGED boxes
        /\ Continue(<<list, attach>>)
    BY <1>4, <2>2 DEF DiscoverPort
  <2>4. ParentsStay /\ parent'[d] = o
    BY <1>2, <2>2, <2>3, ParentGiven DEF Up, Types
  <2>5. Own(list) /\ Own(attach)
    BY <1>2, <2>2, <2>4 DEF Own
  <2>6. Pushes /\ UNCHANGED session
    <3> DEFINE tasks == <<list, attach>>
    <3>1. tasks \in Seq(Task) /\ Len(tasks) = 2 /\ tasks[1] = list /\ tasks[2] = attach
      BY <1>2, <1>4
    <3>2. Push(tasks) /\ UNCHANGED session
      BY <2>3 DEF Continue, Push
    <3> HIDE DEF tasks, list, attach
    <3>3. \A i \in 1 .. Len(tasks) : Own(tasks[i])
      BY <2>5, <3>1
    <3> QED BY <3>1, <3>2, <3>3 DEF Pushes
  <2>7. EndsGrow /\ BoxesKept
    BY <2>3, EndsSame DEF boxes, BoxesKept
  <2> QED BY <2>4, <2>6, <2>7 DEF Moved
<1>5. CASE Present(d) /\ d \notin Expanders
  <2>1. UNCHANGED <<tree, boxes>> /\ Continue(<<end>>)
    BY <1>5 DEF DiscoverPort, tree
  <2>2. Own(end)
    BY DEF Own
  <2> HIDE DEF end
  <2> QED BY <1>1, <2>1, <2>2, PushesOne, MovedQuietly
<1> QED BY <1>3, <1>4, <1>5

LEMMA MovedAttach ==
  ASSUME Types, Seen, Up, Doing("attach"), AttachExpander(Owner, Device)
  PROVE  Moved \/ Stops
<1>1. Head(todo) \in AttachTask
  BY HeadFacts, TaskKinds DEF Types, Doing
<1>2. Owner \in Owners /\ Device \in Routers
  BY <1>1, KindFacts DEF AttachTask, Owner, Device
<1>3. CASE Device \notin subtractive
  BY <1>3 DEF AttachExpander, Stops
<1>4. CASE Device \in subtractive
  <2>1. AttachRoutingDevice(Owner, Device) /\ parent' = parent /\ Continue(<<>>) /\ UNCHANGED boxes
    BY <1>4 DEF AttachExpander
  <2>2. ParentsStay /\ BoxesKept
    BY <2>1 DEF ParentsStay, BoxesKept, boxes
  <2>3. EndsGrow
    BY <1>2, <2>1, EndsAside DEF Types
  <2> QED BY <2>1, <2>2, <2>3, PushesNone DEF Moved
<1> QED BY <1>3, <1>4

LEMMA MovedAttachEnd ==
  ASSUME Types, Up, Continue(<<>>), Owner \in Owners \ Multipliers, NEW d \in Disks,
         Owner = Above(d), NEW port, AttachEnd(Owner, d, port), UNCHANGED boxes
  PROVE  Moved
<1>1. parent' = [parent EXCEPT ![d] = Above(d)] /\ AttachEndDevice(Owner, d)
  BY DEF AttachEnd
<1>2. ParentsStay
  BY <1>1, ParentGiven, KindFacts DEF Up, Types
<1>3. EndsGrow
  BY <1>1, EndsMore DEF Types
<1> QED BY <1>2, <1>3, PushesNone DEF Moved, BoxesKept, boxes

LEMMA MovedEnd ==
  ASSUME Types, Up, Doing("end"), OpenEndDevice(Owner, Device)
  PROVE  Moved
<1> DEFINE o == Owner
           d == Device
<1>1. Head(todo) \in EndTask
  BY HeadFacts, TaskKinds DEF Types, Doing
<1>2. o \in Hosts /\ d \in Disks \cup Ses /\ d \in Devices /\ At[d] = o /\ o \in Owners \ Multipliers
  BY <1>1, KindFacts DEF EndTask, Owner, Device, Hosts
<1>3. Above(d) = o
  BY <1>2 DEF Above
<1>4. Continue(<<>>)
  BY DEF OpenEndDevice
<1>5. CASE ~Present(d)
  <2>1. UNCHANGED <<tree, boxes>>
    BY <1>5 DEF OpenEndDevice
  <2> QED BY <1>4, <2>1, PushesNone, MovedQuietly
<1>6. CASE Present(d) /\ d \in Disks
  <2>1. AttachEnd(Owner, d, Port(o, d)) /\ UNCHANGED boxes
    BY <1>6 DEF OpenEndDevice
  <2> HIDE DEF d
  <2> QED BY <1>2, <1>3, <1>4, <1>6, <2>1, MovedAttachEnd
<1>7. CASE Present(d) /\ d \notin Disks
  <2>1. /\ parent' = [parent EXCEPT ![d] = Above(d)] /\ scope' = scope
        /\ AttachEnclosure(o, d)
    BY <1>3, <1>7 DEF OpenEndDevice
  <2>2. BoxesKept
    <3>1. CASE o \in Controllers
      BY <2>1, <3>1 DEF AttachEnclosure, BoxesKept, boxes
    <3>2. CASE o \notin Controllers
      <4>1. o \in Expanders /\ d \in Ses
        BY <1>2, <1>7, <3>2, KindFacts DEF Hosts
      <4>2. TakeEnclosure(Owner, Device)
        BY <2>1, <3>2 DEF AttachEnclosure
      <4>3. UNCHANGED <<members, box>>
        BY <4>2 DEF TakeEnclosure
      <4> QED BY <1>2, <4>1, <4>2, <4>3 DEF BoxesKept, Takes
    <3> QED BY <3>1, <3>2
  <2>3. ParentsStay
    BY <1>2, <2>1, ParentGiven DEF Up, Types
  <2>4. EndsGrow
    BY <2>1, EndsSame
  <2> QED BY <1>4, <2>2, <2>3, <2>4, PushesNone DEF Moved
<1> QED BY <1>5, <1>6, <1>7

LEMMA MovedDisk ==
  ASSUME Types, Up, Doing("disk"), AttachSingle(Owner, Device, Argument)
  PROVE  Moved
<1> DEFINE c == Owner
           d == Device
           h == Argument
<1>1. Head(todo) \in DiskTask
  BY HeadFacts, TaskKinds DEF Types, Doing
<1>2. /\ c \in Ahci \cup Vmd /\ d \in Disks /\ h \in Disks \cup Multipliers /\ At[h] = c
      /\ d = h \/ At[d] = h
  BY <1>1 DEF DiskTask, Owner, Device, Argument
<1>3. Continue(<<>>) /\ UNCHANGED boxes /\ (AttachEnd(Owner, d, Port(c, h)) \/ UNCHANGED tree)
  BY DEF AttachSingle, tree
<1> HIDE DEF d, h
<1>4. c \in Owners \ Multipliers /\ c \notin Devices
  BY <1>2, KindFacts
<1>5. Above(d) = c
  <2>1. CASE d = h
    BY <1>2, <1>4, <2>1, KindFacts DEF Above
  <2>2. CASE At[d] = h
    <3>1. h \in Owners
      BY <1>2, <2>2, AtFacts, KindFacts
    <3>2. h \in Multipliers
      BY <1>2, <3>1, KindFacts
    <3> QED BY <1>2, <2>2, <3>2 DEF Above
  <2> QED BY <1>2, <2>1, <2>2
<1>6. CASE UNCHANGED tree
  BY <1>3, <1>6, PushesNone, MovedQuietly
<1> QED BY <1>2, <1>3, <1>4, <1>5, <1>6, MovedAttachEnd

LEMMA MovedMember ==
  ASSUME Types, Up, Doing("member"), AttachMember(Owner, Device)
  PROVE  Moved
<1>1. Head(todo) \in MemberTask
  BY HeadFacts, TaskKinds DEF Types, Doing
<1>2. Owner \in Owners /\ Device \in Disks
  BY <1>1, KindFacts DEF MemberTask, Owner, Device
<1>3. /\ parent' = parent /\ (scope' = scope \/ AttachEndDevice(Owner, Device))
      /\ Continue(<<>>) /\ UNCHANGED boxes
  BY DEF AttachMember
<1>4. ParentsStay /\ BoxesKept
  BY <1>3 DEF ParentsStay, BoxesKept, boxes
<1>5. EndsGrow
  BY <1>2, <1>3, EndsSame, EndsMore DEF Types
<1> QED BY <1>3, <1>4, <1>5, PushesNone DEF Moved

LEMMA MovedMultiplier ==
  ASSUME Types, Up, Doing("multiplier"), AttachMultiplier(Owner, Device)
  PROVE  Moved
<1>1. Head(todo) \in MultiplierTask
  BY HeadFacts, TaskKinds DEF Types, Doing
<1>2. /\ Owner \in Ahci /\ Device \in Multipliers /\ At[Device] = Owner /\ Owner \in Owners \ Multipliers
      /\ Device \in Routers /\ Device \in Devices
  BY <1>1, KindFacts DEF MultiplierTask, Owner, Device
<1>3. Above(Device) = Owner
  BY <1>2 DEF Above
<1>4. /\ parent' = [parent EXCEPT ![Device] = Above(Device)] /\ AttachRoutingDevice(Owner, Device)
      /\ Continue(<<>>) /\ UNCHANGED boxes
  BY <1>3 DEF AttachMultiplier
<1>5. ParentsStay
  BY <1>2, <1>4, ParentGiven DEF Up, Types
<1>6. EndsGrow
  BY <1>2, <1>4, EndsAside DEF Types
<1> QED BY <1>4, <1>5, <1>6, PushesNone DEF Moved, BoxesKept, boxes

(* The steps of a discovery                                                 *)
Calm ==
  /\ UNCHANGED <<todo, session, tree, boxes>>
  /\ status' = status \/ (status = "scan" /\ status' = "open" /\ todo = <<>>)
Works == status = "scan" /\ todo # <<>> /\ Head(todo)[1] # "add" /\ Moved
Adds == Doing("add") /\ AddToSession(Owner)

LEMMA StepKinds ==
  ASSUME Types, Types', Seen, Up, [Next]_vars
  PROVE  Calm \/ Stops \/ Works \/ Adds
<1>1. CASE UNCHANGED vars \/ Opened \/ \E d \in Devices : Change(d)
  BY <1>1 DEF vars, Opened, Change, Calm
<1>2. CASE Doing("list") /\ ListPhys(Owner)
  BY <1>2, MovedList DEF Doing, Works
<1>3. CASE Doing("phy") /\ ReadPhy(Owner, Device, Argument)
  BY <1>3, MovedPhy DEF Doing, Works
<1>4. CASE Doing("create") /\ CreatePort(Owner, Device, Argument)
  BY <1>4, MovedCreate DEF Doing, Works
<1>5. CASE Doing("ports") /\ ListPorts(Owner)
  BY <1>5, MovedPorts DEF Doing, Works
<1>6. CASE Doing("port") /\ DiscoverPort(Owner, Device)
  BY <1>6, MovedPort DEF Doing, Works
<1>7. CASE Doing("attach") /\ AttachExpander(Owner, Device)
  BY <1>7, MovedAttach DEF Doing, Works
<1>8. CASE Doing("end") /\ OpenEndDevice(Owner, Device)
  BY <1>8, MovedEnd DEF Doing, Works
<1>9. CASE Doing("readdir") /\ ReadDir(Owner, Device)
  BY <1>9, MovedReadDir DEF Doing, Works
<1>10. CASE Doing("stat") /\ Owner \in Vmd /\ StatNvme(Owner, Argument)
  BY <1>10, MovedStatNvme DEF Doing, Works
<1>11. CASE Doing("stat") /\ Owner \in Ahci /\ StatTargets(Owner, Device, Argument)
  BY <1>11, MovedStatTargets DEF Doing, Works
<1>12. CASE Doing("nvme") /\ ReadNvmeDriver(Owner, Device)
  BY <1>12, MovedNvme DEF Doing, Works
<1>13. CASE Doing("disk") /\ AttachSingle(Owner, Device, Argument)
  BY <1>13, MovedDisk DEF Doing, Works
<1>14. CASE Doing("member") /\ AttachMember(Owner, Device)
  BY <1>14, MovedMember DEF Doing, Works
<1>15. CASE Doing("multiplier") /\ AttachMultiplier(Owner, Device)
  BY <1>15, MovedMultiplier DEF Doing, Works
<1>16. CASE Doing("add") /\ AddToSession(Owner)
  BY <1>16 DEF Adds
<1> QED
  BY <1>1, <1>2, <1>3, <1>4, <1>5, <1>6, <1>7, <1>8, <1>9, <1>10, <1>11, <1>12, <1>13, <1>14, <1>15,
     <1>16 DEF Next

(* A disk in the list of an expander is plugged into it.                    *)
LEMMA EndsAt ==
  ASSUME Types, Up, NEW e \in Expanders, NEW d \in ToSet(scope[e].ends)
  PROVE  d \in Disks /\ At[d] = e
<1>1. e \in Owners /\ e \notin Multipliers /\ e # None /\ e \notin Controllers
  BY KindFacts
<1>2. d \in Disks /\ d \in Devices /\ parent[d] = e
  BY <1>1, ScopeFacts, KindFacts DEF Types, Up, EndsUp, EndUp
<1>3. Above(d) = e
  BY <1>1, <1>2 DEF Up, ParentsUp
<1>4. At[d] \notin Multipliers
  BY <1>1, <1>2, <1>3, CablingAssumption, KindFacts DEF Above
<1> QED BY <1>2, <1>3, <1>4 DEF Above

-----------------------------------------------------------------------------
(* The controller of an expander                                            *)

RootOK ==
  parent \in [Devices -> Owners \cup {None}] =>
    \A o \in Owners \cup {None} : Root(o) = IF o \in Controllers \cup {None} THEN o ELSE Root(parent[o])

LEMMA RootNext == RootOK /\ RootOK'
<1>1. RootOK
  BY RootRule DEF RootOK
<1> QED BY <1>1, PTL

(* What a controller is found for leads up to it by its parents, which are  *)
(* what it is plugged into.                                                 *)
LEMMA RootUp ==
  ASSUME Types, Up, NEW r \in Routers, Root(r) \in Controllers
  PROVE  r \in Devices /\ At[r] \in Owners /\ parent[r] = At[r] /\ Root(r) = Root(At[r])
<1>1. r \in Devices /\ r \in Owners /\ r \notin Controllers \cup {None} /\ None \notin Controllers
  BY KindFacts
<1>2. Root(r) = Root(parent[r]) /\ Root(None) = None
  BY <1>1, RootRule DEF Types, TreeType
<1>3. parent[r] = Above(r)
  BY <1>1, <1>2 DEF Up, ParentsUp
<1>4. At[r] \in Owners /\ At[r] \notin Multipliers
  BY <1>1, AtFacts, KindFacts
<1> QED BY <1>1, <1>2, <1>3, <1>4 DEF Above

LEMMA RootUnder ==
  ASSUME Types, Up, NEW r \in Routers, Root(r) \in Controllers
  PROVE  r \in Under(Root(r))
<1> DEFINE S == {x \in Routers : Root(x) \in Controllers /\ x \notin Under(Root(x))}
<1> SUFFICES ASSUME S # {} PROVE FALSE
  OBVIOUS
<1>1. S \subseteq Devices
  BY KindFacts
<1>2. PICK x \in S : At[x] \notin S
  BY <1>1, TreeAssumption
<1>3. x \in Devices /\ At[x] \in Owners /\ Root(x) = Root(At[x])
  BY <1>2, RootUp
<1>4. CASE At[x] \in Controllers
  <2>1. Root(At[x]) = At[x]
    BY <1>3, <1>4, RootRule DEF Types, TreeType
  <2> QED BY <1>2, <1>3, <2>1, UnderRule
<1>5. CASE At[x] \in Routers
  BY <1>2, <1>3, <1>5, UnderRule
<1> QED BY <1>3, <1>4, <1>5, KindFacts

LEMMA RootStays ==
  ASSUME Types, Types', Up, ParentsStay, NEW o \in Owners, Root(o) \in Controllers
  PROVE  Root(o)' = Root(o)
<1> DEFINE S == {x \in Routers : Root(x) \in Controllers /\ Root(x)' # Root(x)}
<1>1. \A x \in Owners : Root(x)' = IF x \in Controllers \cup {None} THEN x ELSE Root(parent[x])'
  BY RootNext DEF RootOK, Types, TreeType
<1>2. \A x \in Controllers : Root(x)' = x /\ Root(x) = x
  BY <1>1, RootRule, KindFacts DEF Types, TreeType
<1>3. ASSUME S # {} PROVE FALSE
  <2>1. S \subseteq Devices
    BY KindFacts
  <2>2. PICK x \in S : At[x] \notin S
    BY <1>3, <2>1, TreeAssumption
  <2>3. x \in Devices /\ At[x] \in Owners /\ parent[x] = At[x] /\ Root(x) = Root(At[x])
    BY <2>2, RootUp
  <2>4. parent'[x] = At[x]
    BY <2>3, KindFacts DEF ParentsStay
  <2>5. Root(x)' = Root(parent[x])'
    BY <1>1, <2>2, KindFacts
  <2>6. Root(parent[x])' = Root(At[x])'
    BY <2>4
  <2>7. CASE At[x] \in Controllers
    BY <1>2, <2>2, <2>3, <2>5, <2>6, <2>7
  <2>8. CASE At[x] \in Routers
    BY <2>2, <2>3, <2>5, <2>6, <2>8
  <2> QED BY <2>3, <2>7, <2>8, KindFacts
<1> QED BY <1>2, <1>3, KindFacts

(* What a controller is registered for has not been registered yet.         *)
LEMMA FollowedPush ==
  ASSUME Types, Staged, todo # <<>>, NEW tasks \in Seq(Task), Push(tasks),
         \A i \in 1 .. Len(tasks) : \A c \in Controllers :
           Of(c, tasks[i]) => Of(c, Head(todo)) /\ Head(todo)[1] # "add"
  PROVE  Staged'
<1> DEFINE n == Len(tasks)
<1>1. /\ n \in Nat /\ Len(todo) \in Nat /\ Len(todo') \in Nat
      /\ \A i \in 1 .. n : todo'[i] = tasks[i]
      /\ \A i \in 2 .. Len(todo) : i + n - 1 \in 1 .. Len(todo') /\ todo'[i + n - 1] = todo[i]
      /\ \A k \in 1 .. Len(todo') : k \in 1 .. n \/ \E i \in 2 .. Len(todo) : k = i + n - 1
      /\ todo[1] = Head(todo) /\ 1 \in 1 .. Len(todo)
  BY StackFacts DEF Types
<1> HIDE DEF n
<1> SUFFICES ASSUME NEW k \in 1 .. Len(todo'), NEW c \in Controllers, Of(c, todo'[k])
             PROVE  \E j \in k .. Len(todo') : todo'[j] = Add(c)
  BY DEF Staged, Followed, Of
<1>2. CASE k \in 1 .. n
  <2>1. Of(c, Head(todo)) /\ Head(todo)[1] # "add"
    BY <1>1, <1>2 DEF n
  <2>2. PICK j \in 1 .. Len(todo) : todo[j] = Add(c)
    BY <1>1, <2>1 DEF Staged, Followed
  <2>3. j # 1
    BY <1>1, <2>1, <2>2 DEF Add
  <2>4. j \in 2 .. Len(todo) /\ j + n - 1 \in k .. Len(todo')
    BY <1>1, <1>2, <2>2, <2>3
  <2> QED BY <1>1, <2>2, <2>4
<1>3. CASE k \notin 1 .. n
  <2>1. PICK i \in 2 .. Len(todo) : k = i + n - 1
    BY <1>1, <1>3
  <2>2. i \in 1 .. Len(todo) /\ todo'[k] = todo[i]
    BY <1>1, <2>1
  <2>3. PICK j \in i .. Len(todo) : todo[j] = Add(c)
    BY <2>2 DEF Staged, Followed, Of
  <2>4. j \in 2 .. Len(todo) /\ j + n - 1 \in k .. Len(todo')
    BY <1>1, <2>1, <2>3
  <2> QED BY <1>1, <2>3, <2>4
<1> QED BY <1>2, <1>3

(* Every expander with something to do has a controller above it.           *)
Rooted == \A e \in Expanders : \A i \in 1 .. Len(todo) : todo[i][2] = e => Root(e) \in Controllers

LEMMA RootedPush ==
  ASSUME Types, Types', Up, Rooted, ParentsStay, todo # <<>>, NEW tasks \in Seq(Task), Push(tasks),
         \A e \in Expanders : \A i \in 1 .. Len(tasks) : tasks[i][2] = e => Root(e)' \in Controllers
  PROVE  Rooted'
<1> DEFINE n == Len(tasks)
<1>1. /\ \A i \in 1 .. n : todo'[i] = tasks[i]
      /\ \A i \in 2 .. Len(todo) : todo'[i + n - 1] = todo[i]
      /\ \A k \in 1 .. Len(todo') : k \in 1 .. n \/ \E i \in 2 .. Len(todo) : k = i + n - 1
      /\ Len(todo) \in Nat
  BY StackFacts DEF Types
<1> HIDE DEF n
<1> SUFFICES ASSUME NEW e \in Expanders, NEW k \in 1 .. Len(todo'), todo'[k][2] = e
             PROVE  Root(e)' \in Controllers
  BY DEF Rooted
<1>2. CASE k \in 1 .. n
  BY <1>1, <1>2 DEF n
<1>3. CASE k \notin 1 .. n
  <2>1. PICK i \in 2 .. Len(todo) : k = i + n - 1
    BY <1>1, <1>3
  <2>2. todo'[k] = todo[i] /\ i \in 1 .. Len(todo)
    BY <1>1, <2>1
  <2>3. e \in Owners /\ Root(e) \in Controllers
    BY <2>2, KindFacts DEF Rooted
  <2>4. Root(e)' = Root(e)
    BY <2>3, RootStays
  <2> QED BY <2>3, <2>4
<1> QED BY <1>2, <1>3

LEMMA HeadOfTodo ==
  ASSUME Types, todo # <<>>
  PROVE  1 \in 1 .. Len(todo) /\ todo[1] = Head(todo) /\ Head(todo) \in Task
BY DEF Types, TodoType

(* A task is about an owner.                                                *)
LEMMA TaskOwner ==
  ASSUME NEW t \in Task
  PROVE  t[2] \in Owners
BY KindFacts DEF Task, ListTask, PhyTask, PortTask, AttachTask, EndTask, VmdTask, AhciTask, VmdStat, AhciStat,
  NvmeTask, DiskTask, MemberTask, MultiplierTask, AddTask

LEMMA RootedMoves ==
  ASSUME Types, Types', Seen, Up, Staged, Rooted, Works
  PROVE  Staged' /\ Rooted'
<1>1. PICK tasks \in Seq(Task) : Push(tasks) /\ \A i \in 1 .. Len(tasks) : Own(tasks[i])
  BY DEF Works, Moved, Pushes
<1>2. todo # <<>> /\ Head(todo)[1] # "add" /\ ParentsStay
  BY DEF Works, Moved
<1>3. todo[1] = Head(todo) /\ 1 \in 1 .. Len(todo) /\ Owner = Head(todo)[2] /\ Owner \in Owners
  BY <1>2, HeadOfTodo, TaskOwner DEF Owner
<1>4. ASSUME NEW i \in 1 .. Len(tasks), NEW c \in Controllers, Of(c, tasks[i]) PROVE Of(c, Head(todo))
  <2>1. tasks[i][2] = Owner \/ (tasks[i][2] \in Devices /\ At[tasks[i][2]] = Owner)
    BY <1>1 DEF Own
  <2>2. CASE tasks[i][2] = Owner
    BY <1>3, <1>4, <2>2 DEF Of
  <2>3. CASE tasks[i][2] \in Devices /\ At[tasks[i][2]] = Owner
    <3>1. tasks[i][2] \in Under(c)
      BY <1>4, <2>3, KindFacts DEF Of
    <3>2. Owner = c \/ Owner \in Under(c)
      BY <2>3, <3>1, UnderRule
    <3> QED BY <1>3, <3>2 DEF Of
  <2> QED BY <2>1, <2>2, <2>3
<1>5. Staged'
  BY <1>1, <1>2, <1>4, FollowedPush
<1>6. PICK o \in Owners : o = Owner
  BY <1>3
<1>7. o \in Expanders => Root(o) \in Controllers
  BY <1>3, <1>6 DEF Rooted
<1>8. Root(o) \in Controllers => Root(o)' \in Controllers
  BY <1>2, RootStays
<1>9. ASSUME NEW e \in Expanders, NEW i \in 1 .. Len(tasks), tasks[i][2] = e PROVE Root(e)' \in Controllers
  <2>1. e = o \/ (At[e] = o /\ parent'[e] = o)
    BY <1>1, <1>6, <1>9 DEF Own
  <2>2. CASE e = o
    BY <1>7, <1>8, <2>2
  <2>3. CASE At[e] = o /\ parent'[e] = o
    <3>1. o \in Controllers \/ o \in Expanders
      BY <2>3, AtFacts, KindFacts
    <3>2. o \in Controllers => Root(o) = o
      BY RootRule DEF Types, TreeType
    <3>3. Root(e)' = Root(parent[e])'
      BY RootNext, KindFacts DEF RootOK, Types, TreeType
    <3>4. Root(parent[e])' = Root(o)'
      BY <2>3
    <3> QED BY <1>7, <1>8, <3>1, <3>2, <3>3, <3>4
  <2> QED BY <2>1, <2>2, <2>3
<1>10. Rooted'
  BY <1>1, <1>2, <1>9, RootedPush
<1> QED BY <1>5, <1>10

LEMMA AddsPush ==
  ASSUME Types, Adds
  PROVE  Push(<<>>) /\ todo # <<>> /\ Owner \in Controllers /\ Head(todo) = Add(Owner)
<1>1. todo # <<>> /\ todo' = Tail(todo) /\ UNCHANGED <<cabling, status>>
  BY DEF Adds, AddToSession, Doing
<1>2. Tail(todo) \in Seq(Task)
  BY <1>1 DEF Types, TodoType
<1>3. Push(<<>>)
  BY <1>1, <1>2, ConcatEmptySeq DEF Push
<1>4. Head(todo) \in AddTask
  BY HeadFacts, TaskKinds DEF Types, Adds, Doing
<1>5. Head(todo) = <<"add", Head(todo)[2]>> /\ Head(todo)[2] \in Controllers
  BY <1>4 DEF AddTask
<1> QED BY <1>1, <1>3, <1>5 DEF Owner, Add

LEMMA RootedAdds ==
  ASSUME Types, Types', Up, Staged, Rooted, Adds
  PROVE  Staged' /\ Rooted'
<1>1. Push(<<>>) /\ todo # <<>>
  BY AddsPush
<1>2. ParentsStay
  BY DEF Adds, AddToSession, tree, ParentsStay
<1> DEFINE none == <<>>
<1>3. none \in Seq(Task) /\ 1 .. Len(none) = {} /\ Push(none)
  BY <1>1
<1> HIDE DEF none
<1>4. Staged'
  BY <1>1, <1>3, FollowedPush
<1>5. Rooted'
  BY <1>1, <1>2, <1>3, RootedPush
<1> QED BY <1>4, <1>5

(* c has been registered.                                                   *)
Done(c) == \A i \in 1 .. Len(todo) : todo[i] # Add(c)

LEMMA DonePush ==
  ASSUME Types, todo # <<>>, NEW tasks \in Seq(Task), Push(tasks), NEW c \in Controllers, Done(c)'
  PROVE  Done(c) \/ Head(todo) = Add(c)
<1> SUFFICES ASSUME NEW i \in 1 .. Len(todo), todo[i] = Add(c) PROVE Head(todo) = Add(c)
  BY DEF Done
<1>1. CASE i = 1
  BY <1>1, HeadOfTodo
<1>2. CASE i # 1
  <2>1. i \in 2 .. Len(todo)
    BY <1>2, HeadOfTodo DEF Types, TodoType
  <2>2. i + Len(tasks) - 1 \in 1 .. Len(todo') /\ todo'[i + Len(tasks) - 1] = todo[i]
    BY <2>1, StackFacts DEF Types
  <2> QED BY <2>2 DEF Done, Add
<1> QED BY <1>1, <1>2

(* Nothing is done for what is below a controller that has been.            *)
LEMMA DoneElsewhere ==
  ASSUME Types, Staged, todo # <<>>, NEW c \in Controllers, Done(c), NEW o \in Under(c)
  PROVE  Owner # o
<1>1. 1 \in 1 .. Len(todo) /\ todo[1] = Head(todo)
  BY HeadOfTodo
<1> SUFFICES ASSUME Owner = o PROVE FALSE
  OBVIOUS
<1>2. Of(c, todo[1])
  BY <1>1 DEF Of, Owner
<1>3. PICK j \in 1 .. Len(todo) : todo[j] = Add(c)
  BY <1>1, <1>2 DEF Staged, Followed
<1> QED BY <1>3 DEF Done

-----------------------------------------------------------------------------
(* The enclosures a controller lists, and what they take                    *)

Listers == \A s \in Ses : lister[s] \in {None, At[s]}
Placed == \A c \in Controllers : \A s \in ToSet(enclosures[c]) : lister[s] = At[s] /\ s \in Under(c)

(* The enclosure an expander names is the last of its own that is listed.   *)
LastOn(q, e, s) == \E k \in 1 .. Len(q) : q[k] = s /\ \A j \in k + 1 .. Len(q) : At[q[j]] # e
Latest ==
  \A e \in Expanders : mounted[e] # None =>
    /\ lister[mounted[e]] = e
    /\ \A c \in Controllers : e \in Under(c) => LastOn(enclosures[c], e, mounted[e])
Mounts == Listers /\ Placed /\ Latest

LEMMA LastAppended ==
  ASSUME NEW q \in Seq(Ses), NEW s \in Ses
  PROVE  /\ LastOn(Append(q, s), At[s], s)
         /\ \A e, m : LastOn(q, e, m) /\ At[s] # e => LastOn(Append(q, s), e, m)
<1> DEFINE n == Len(q)
           u == Append(q, s)
<1>1. n \in Nat /\ Len(u) = n + 1 /\ u[n + 1] = s /\ \A i \in 1 .. n : u[i] = q[i]
  OBVIOUS
<1> HIDE DEF n, u
<1>2. LastOn(u, At[s], s)
  <2>1. n + 1 \in 1 .. Len(u) /\ (n + 1) + 1 .. Len(u) = {}
    BY <1>1
  <2> QED BY <1>1, <2>1 DEF LastOn
<1>3. ASSUME NEW e, NEW m, LastOn(q, e, m), At[s] # e PROVE LastOn(u, e, m)
  <2>1. PICK k \in 1 .. n : q[k] = m /\ \A j \in k + 1 .. n : At[q[j]] # e
    BY <1>3 DEF LastOn, n
  <2>2. k \in 1 .. Len(u) /\ u[k] = m
    BY <1>1, <2>1
  <2>3. ASSUME NEW j \in k + 1 .. Len(u) PROVE At[u[j]] # e
    <3>1. CASE j = n + 1
      BY <1>1, <1>3, <3>1
    <3>2. CASE j # n + 1
      <4>1. j \in k + 1 .. n /\ j \in 1 .. n
        BY <1>1, <2>1, <3>2
      <4> QED BY <1>1, <2>1, <4>1
    <3> QED BY <3>1, <3>2
  <2> QED BY <2>2, <2>3 DEF LastOn
<1> QED BY <1>2, <1>3 DEF u

LEMMA MountsSame ==
  ASSUME Mounts, UNCHANGED <<enclosures, lister, mounted>>
  PROVE  Mounts'
BY DEF Mounts, Listers, Placed, Latest

(* RoutingDevice::attachEnclosure and Controller::attachEnclosure           *)
LEMMA MountsTake ==
  ASSUME Types, Up, Rooted, Mounts, todo # <<>>, Takes
  PROVE  /\ Mounts'
         /\ \A e \in Expanders : e # Owner => mounted'[e] = mounted[e]
         /\ \A x \in Ses : lister[x] # None => lister'[x] = lister[x]
<1>1. PICK o \in Expanders : o = Owner
  BY DEF Takes
<1>2. PICK s \in Ses : s = Device
  BY DEF Takes
<1>3. PICK c \in Controllers : c = Root(o)
  BY <1>1, HeadOfTodo DEF Rooted, Owner
<1>4. At[s] = o /\ o \in Under(c) /\ s \in Under(c) /\ s # None /\ o # None
  <2>1. o \in Under(c)
    BY <1>3, RootUnder, KindFacts
  <2> QED BY <1>1, <1>2, <2>1, UnderRule, KindFacts DEF Takes
<1>5. TakeEnclosure(o, s)
  BY <1>1, <1>2 DEF Takes
<1>6. /\ \A x \in Ses : lister'[x] = IF x = s THEN o ELSE lister[x]
      /\ \A e \in Expanders : mounted'[e] = IF e = o THEN s ELSE mounted[e]
      /\ \A k \in Controllers : enclosures'[k] = IF k = c THEN Append(enclosures[k], s) ELSE enclosures[k]
  BY <1>3, <1>5, KindFacts DEF TakeEnclosure, Types, BoxesType
<1>7. \A k \in Controllers : enclosures[k] \in Seq(Ses) /\ ToSet(enclosures[k]) \subseteq Ses
  BY Elements DEF Types, BoxesType
<1>8. Listers'
  BY <1>4, <1>6 DEF Mounts, Listers
<1>9. \A x \in Ses : lister[x] # None => lister'[x] = lister[x]
  BY <1>4, <1>6 DEF Mounts, Listers
<1>10. Placed'
  <2> SUFFICES ASSUME NEW k \in Controllers, NEW x \in ToSet(enclosures'[k]) PROVE lister'[x] = At[x] /\ x \in Under(k)
    BY DEF Placed
  <2>1. x \in ToSet(enclosures[k]) \/ (k = c /\ x = s)
    <3>1. ToSet(Append(enclosures[c], s)) = ToSet(enclosures[c]) \cup {s}
      BY <1>7, Appended
    <3> QED BY <1>6, <3>1
  <2>2. CASE k = c /\ x = s
    BY <1>4, <1>6, <2>2
  <2>3. CASE x \in ToSet(enclosures[k])
    <3>1. x \in Ses /\ lister[x] = At[x] /\ x \in Under(k)
      BY <1>7, <2>3 DEF Mounts, Placed
    <3> QED BY <1>4, <1>6, <3>1
  <2> QED BY <2>1, <2>2, <2>3
<1>11. Latest'
  <2>1. ASSUME NEW e \in Expanders, mounted'[e] # None
        PROVE  /\ lister'[mounted'[e]] = e
               /\ \A k \in Controllers : e \in Under(k) => LastOn(enclosures'[k], e, mounted'[e])
    <3>1. CASE e = o
      <4>1. ASSUME NEW k \in Controllers, e \in Under(k) PROVE LastOn(enclosures'[k], e, s)
        <5>1. k = c
          BY <1>4, <3>1, <4>1, UnderOne
        <5>2. LastOn(Append(enclosures[c], s), At[s], s)
          BY <1>7, LastAppended
        <5> QED BY <1>4, <1>6, <3>1, <5>1, <5>2
      <4> QED BY <1>6, <3>1, <4>1
    <3>2. CASE e # o
      <4> DEFINE m == mounted[e]
      <4>1. mounted'[e] = m /\ m \in Ses /\ lister[m] = e
        BY <1>6, <2>1, <3>2 DEF Mounts, Latest, Types, BoxesType
      <4>2. lister'[m] = e
        BY <1>9, <4>1, KindFacts
      <4>3. ASSUME NEW k \in Controllers, e \in Under(k) PROVE LastOn(enclosures'[k], e, m)
        <5>1. LastOn(enclosures[k], e, m)
          BY <1>6, <2>1, <3>2, <4>3 DEF Mounts, Latest
        <5>2. At[s] # e /\ enclosures[k] \in Seq(Ses)
          BY <1>4, <1>7, <3>2
        <5> HIDE DEF m
        <5>3. LastOn(Append(enclosures[k], s), e, m)
          BY <5>1, <5>2, LastAppended
        <5> QED BY <1>6, <5>1, <5>3
      <4> QED BY <4>1, <4>2, <4>3
    <3> QED BY <3>1, <3>2
  <2> QED BY <2>1 DEF Latest, LastOn
<1>12. \A e \in Expanders : e # Owner => mounted'[e] = mounted[e]
  BY <1>1, <1>6
<1> QED BY <1>8, <1>9, <1>10, <1>11, <1>12 DEF Mounts

LEMMA MountsMoves ==
  ASSUME Types, Up, Rooted, Mounts, Works
  PROVE  /\ Mounts'
         /\ \A e \in Expanders : e # Owner => mounted'[e] = mounted[e]
         /\ \A x \in Ses : lister[x] # None => lister'[x] = lister[x]
<1>1. todo # <<>> /\ (UNCHANGED <<enclosures, lister, mounted>> \/ Takes)
  BY DEF Works, Moved, BoxesKept
<1>2. CASE UNCHANGED <<enclosures, lister, mounted>>
  BY <1>2, MountsSame
<1>3. CASE Takes
  BY <1>1, <1>3, MountsTake
<1> QED BY <1>1, <1>2, <1>3

(* What an enclosure has taken is plugged into the expander that lists it.  *)
Filled ==
  \A s \in Ses : \A d \in ToSet(members[s]) :
    /\ lister[s] \in Expanders /\ d \in ToSet(scope[lister[s]].ends)
    /\ box[d] \in Ses /\ lister[box[d]] = lister[s]
Boxed ==
  \A d \in Disks : box[d] # None =>
    d \in ToSet(members[box[d]]) /\ (status \in {"scan", "open"} => box[d] \in ToSet(session))

(* The disks of an expander whose controller is registered are in the       *)
(* enclosure it names.                                                      *)
Settled ==
  status \in {"scan", "open"} =>
    \A c \in Controllers : \A e \in Expanders :
      e \in Under(c) /\ Done(c) /\ mounted[e] # None => \A d \in ToSet(scope[e].ends) : box[d] = mounted[e]
Fills == Filled /\ Boxed /\ Settled
Ended == (status \notin {"scan", "open"} => session = <<>>) /\ (status = "open" => todo = <<>>)

LEMMA FillsMoves ==
  ASSUME Types, Up, Staged, Rooted, Mounts, Fills, Works
  PROVE  Fills'
<1>1. /\ UNCHANGED <<members, box, session, status>> /\ status = "scan" /\ todo # <<>> /\ Head(todo)[1] # "add"
      /\ EndsGrow
  BY DEF Works, Moved, Pushes, Push, BoxesKept
<1>2. /\ \A e \in Expanders : e # Owner => mounted'[e] = mounted[e]
      /\ \A x \in Ses : lister[x] # None => lister'[x] = lister[x]
  BY MountsMoves
<1>3. \A e \in Expanders : /\ ToSet(scope[e].ends) \subseteq ToSet(scope'[e].ends)
                           /\ e # Owner => scope'[e].ends = scope[e].ends
                           /\ e # None
  BY <1>1, KindFacts DEF EndsGrow
<1>4. Filled'
  <2> SUFFICES ASSUME NEW s \in Ses, NEW d \in ToSet(members[s])
               PROVE  /\ lister'[s] \in Expanders /\ d \in ToSet(scope'[lister'[s]].ends)
                      /\ box[d] \in Ses /\ lister'[box[d]] = lister'[s]
    BY <1>1 DEF Filled
  <2>1. /\ lister[s] \in Expanders /\ d \in ToSet(scope[lister[s]].ends)
        /\ box[d] \in Ses /\ lister[box[d]] = lister[s]
    BY DEF Fills, Filled
  <2>2. lister'[s] = lister[s] /\ lister'[box[d]] = lister[box[d]]
    BY <1>2, <1>3, <2>1
  <2> QED BY <1>3, <2>1, <2>2
<1>5. Boxed'
  BY <1>1 DEF Fills, Boxed
<1>6. Settled'
  <2> SUFFICES ASSUME NEW c \in Controllers, NEW e \in Expanders, e \in Under(c), Done(c)', mounted'[e] # None,
                      NEW d \in ToSet(scope'[e].ends)
               PROVE  box[d] = mounted'[e]
    BY <1>1 DEF Settled
  <2>1. PICK tasks \in Seq(Task) : Push(tasks)
    BY DEF Works, Moved, Pushes
  <2>2. Done(c)
    BY <1>1, <2>1, DonePush DEF Add
  <2>3. Owner # e
    BY <1>1, <2>2, DoneElsewhere
  <2>4. mounted'[e] = mounted[e] /\ scope'[e].ends = scope[e].ends
    BY <1>2, <1>3, <2>3
  <2> QED BY <1>1, <2>2, <2>4 DEF Fills, Settled
<1> QED BY <1>4, <1>5, <1>6 DEF Fills

LEMMA LastIn ==
  ASSUME NEW X, NEW s \in Seq(X), s # <<>>
  PROVE  Last(s) \in ToSet(s)
<1>1. Len(s) \in 1 .. Len(s)
  OBVIOUS
<1> QED BY <1>1, Elements DEF Last

(* s, which c lists, takes d.                                               *)
Taker(c, s, d) == s \in ToSet(enclosures[c]) /\ d \in ToSet(scope[lister[s]].ends)

LEMMA TakerFacts ==
  ASSUME Types, Up, Mounts, NEW c \in Controllers, NEW s \in ToSet(enclosures[c])
  PROVE  /\ s \in Ses /\ lister[s] = At[s] /\ lister[s] \in Expanders /\ lister[s] \in Under(c)
         /\ \A d \in ToSet(scope[lister[s]].ends) : d \in Disks /\ At[d] = lister[s]
<1>1. s \in Ses /\ s \in Devices
  BY Elements, KindFacts DEF Types, BoxesType
<1>2. lister[s] \in Expanders /\ lister[s] = At[s] /\ s \in Under(c)
  BY DEF Types, BoxesType, Mounts, Placed
<1>3. lister[s] \in Under(c)
  BY <1>1, <1>2, UnderRule, KindFacts
<1> QED BY <1>1, <1>2, <1>3, EndsAt

(* Enclosure::addToSession for each enclosure of c                          *)
LEMMA BoxesAdded ==
  ASSUME Types, Up, Mounts, NEW c \in Controllers, c = Owner, Adds
  PROVE  /\ \A s \in Ses : members'[s] = IF s \in ToSet(enclosures[c]) THEN scope[lister[s]].ends ELSE members[s]
         /\ \A d \in Disks : \/ Taker(c, box'[d], d)
                             \/ box'[d] = box[d] /\ \A s : ~Taker(c, s, d)
         /\ \A d \in Disks, e \in Expanders : \A m :
              LastOn(enclosures[c], e, m) /\ lister[m] = e /\ d \in ToSet(scope[e].ends) => box'[d] = m
<1> DEFINE q == enclosures[c]
           Ts(d) == {s \in ToSet(q) : d \in ToSet(scope[lister[s]].ends)}
<1>1. q \in Seq(Ses)
  BY DEF Types, BoxesType
<1>2. \A s \in Ses : members'[s] = IF s \in ToSet(q) THEN scope[lister[s]].ends ELSE members[s]
  BY DEF Adds, AddToSession, Taken
<1>3. \A d \in Disks : box'[d] = IF Among(q, Ts(d)) = <<>> THEN box[d] ELSE Last(Among(q, Ts(d)))
  BY DEF Adds, AddToSession, Taken
<1>4. \A s, d : Taker(c, s, d) <=> s \in Ts(d)
  BY DEF Taker
<1>5. \A s \in ToSet(q) : lister[s] = At[s] /\ lister[s] \in Expanders
  BY TakerFacts
<1> HIDE DEF q
<1>6. ASSUME NEW d \in Disks PROVE Taker(c, box'[d], d) \/ (box'[d] = box[d] /\ \A s : ~Taker(c, s, d))
  <2> DEFINE a == Among(q, Ts(d))
  <2>1. a \in Seq(Ses) /\ ToSet(a) = ToSet(q) \cap Ts(d)
    BY <1>1, AmongFacts
  <2>2. ToSet(a) = Ts(d)
    BY <2>1
  <2>3. box'[d] = IF a = <<>> THEN box[d] ELSE Last(a)
    BY <1>3
  <2> HIDE DEF a, Ts
  <2>4. CASE a = <<>>
    BY <1>4, <2>2, <2>3, <2>4, Empty
  <2>5. CASE a # <<>>
    BY <1>4, <2>1, <2>2, <2>3, <2>5, LastIn
  <2> QED BY <2>4, <2>5
<1>7. ASSUME NEW d \in Disks, NEW e \in Expanders, NEW m, LastOn(q, e, m), lister[m] = e, d \in ToSet(scope[e].ends)
      PROVE  box'[d] = m
  <2>1. PICK k \in 1 .. Len(q) : q[k] = m /\ \A j \in k + 1 .. Len(q) : At[q[j]] # e
    BY <1>7 DEF LastOn
  <2>2. Len(q) \in Nat /\ \A j \in 1 .. Len(q) : q[j] \in ToSet(q)
    BY <1>1, Elements
  <2>3. q[k] \in Ts(d)
    BY <1>7, <2>1, <2>2
  <2>4. ASSUME NEW j \in k + 1 .. Len(q) PROVE q[j] \notin Ts(d)
    <3>1. j \in 1 .. Len(q)
      BY <2>1, <2>2
    <3>2. q[j] \in ToSet(q) /\ At[q[j]] # e /\ lister[q[j]] = At[q[j]] /\ lister[q[j]] \in Expanders
      BY <1>5, <2>1, <2>2, <3>1
    <3>3. At[d] = e
      BY <1>7, EndsAt
    <3>4. d \in ToSet(scope[lister[q[j]]].ends) => At[d] = lister[q[j]]
      BY <3>2, EndsAt
    <3> QED BY <3>2, <3>3, <3>4
  <2> HIDE DEF Ts
  <2>5. Among(q, Ts(d)) # <<>> /\ Last(Among(q, Ts(d))) = q[k]
    BY <1>1, <2>1, <2>3, <2>4, LastAmong
  <2> QED BY <1>3, <2>1, <2>5
<1> QED BY <1>2, <1>6, <1>7 DEF q

(* What is registered stays, and the enclosures of the controller are added.*)
LEMMA SessionGrows ==
  ASSUME Types, Up, SessionType, NEW c \in Controllers, c = Owner, Adds
  PROVE  ToSet(session) \subseteq ToSet(session') /\ ToSet(enclosures[c]) \subseteq ToSet(session')
<1> DEFINE own == <<c>>
           ends == Concat(EndListed, scope[c].ends)
           routers == Concat(RouterListed, scope[c].routers)
<1>1. c \in Objects /\ c \in Owners
  BY KindFacts DEF Objects
<1>2. session \in Seq(Objects) /\ own \in Seq(Objects)
  BY <1>1 DEF SessionType
<1>3. ends \in Seq(Objects) /\ routers \in Seq(Objects)
  BY <1>1, ScopeFacts, EndsListed, RoutersListed DEF Types
<1>4. ports[c] \in Seq(Objects) /\ phys[c] \in Seq(Objects)
  BY <1>1 DEF Types, WiringType
<1>5. enclosures[c] \in Seq(Objects)
  <2>1. Ses \subseteq Objects
    BY KindFacts DEF Objects
  <2> QED BY <2>1, SeqMonotonic DEF Types, BoxesType
<1>6. session' = session \o own \o ends \o routers \o ports[c] \o phys[c] \o enclosures[c]
  BY DEF Adds, AddToSession
<1> HIDE DEF own, ends, routers
<1>7. session \o own \o ends \in Seq(Objects) /\ ToSet(session) \subseteq ToSet(session \o own \o ends)
  BY <1>2, <1>3, ThreeJoined
<1> DEFINE first == session \o own \o ends
           second == first \o routers \o ports[c]
<1>8. session' = second \o phys[c] \o enclosures[c]
  BY <1>6
<1>9. first \in Seq(Objects) /\ ToSet(session) \subseteq ToSet(first)
  BY <1>7
<1> HIDE DEF first
<1>10. second \in Seq(Objects) /\ ToSet(first) \subseteq ToSet(second)
  BY <1>3, <1>4, <1>9, ThreeJoined
<1> HIDE DEF second
<1> QED BY <1>4, <1>5, <1>8, <1>9, <1>10, ThreeJoined

LEMMA FillsAdds ==
  ASSUME Types, Up, SessionType, Mounts, Fills, Adds
  PROVE  Fills'
<1>1. PICK c \in Controllers : c = Owner
  BY AddsPush
<1>2. UNCHANGED <<status, scope, lister, mounted>> /\ status = "scan"
  BY DEF Adds, AddToSession, tree, Doing
<1>3. \A s \in Ses : members'[s] = IF s \in ToSet(enclosures[c]) THEN scope[lister[s]].ends ELSE members[s]
  BY <1>1, BoxesAdded
<1>4. \A d \in Disks : Taker(c, box'[d], d) \/ (box'[d] = box[d] /\ \A s : ~Taker(c, s, d))
  BY <1>1, BoxesAdded
<1>5. \A s, d : Taker(c, s, d) => /\ s \in Ses /\ lister[s] \in Expanders /\ lister[s] \in Under(c)
                                  /\ d \in Disks /\ At[d] = lister[s]
  BY TakerFacts DEF Taker
<1>6. ToSet(session) \subseteq ToSet(session') /\ ToSet(enclosures[c]) \subseteq ToSet(session')
  BY <1>1, SessionGrows
<1>7. Filled'
  <2> SUFFICES ASSUME NEW s \in Ses, NEW d \in ToSet(members'[s])
               PROVE  /\ lister[s] \in Expanders /\ d \in ToSet(scope[lister[s]].ends)
                      /\ box'[d] \in Ses /\ lister[box'[d]] = lister[s]
    BY <1>2 DEF Filled
  <2>1. CASE s \in ToSet(enclosures[c])
    <3>1. Taker(c, s, d)
      BY <1>3, <2>1 DEF Taker
    <3> QED BY <1>4, <1>5, <3>1 DEF Taker
  <2>2. CASE s \notin ToSet(enclosures[c])
    <3>1. /\ lister[s] \in Expanders /\ d \in ToSet(scope[lister[s]].ends)
          /\ box[d] \in Ses /\ lister[box[d]] = lister[s]
      BY <1>3, <2>2 DEF Fills, Filled
    <3>2. d \in Disks /\ At[d] = lister[s]
      BY <3>1, EndsAt
    <3> QED BY <1>4, <1>5, <3>1, <3>2
  <2> QED BY <2>1, <2>2
<1>8. Boxed'
  <2> SUFFICES ASSUME NEW d \in Disks, box'[d] # None
               PROVE  d \in ToSet(members'[box'[d]]) /\ box'[d] \in ToSet(session')
    BY DEF Boxed
  <2>1. CASE Taker(c, box'[d], d)
    BY <1>3, <1>5, <1>6, <2>1 DEF Taker
  <2>2. CASE box'[d] = box[d] /\ \A s : ~Taker(c, s, d)
    <3>1. /\ box[d] \in Ses /\ d \in ToSet(members[box[d]]) /\ box[d] \in ToSet(session)
      BY <1>2, <2>2 DEF Fills, Boxed, Types, BoxesType
    <3>2. d \in ToSet(scope[lister[box[d]]].ends)
      BY <3>1 DEF Fills, Filled
    <3>3. box[d] \notin ToSet(enclosures[c])
      BY <2>2, <3>2 DEF Taker
    <3> QED BY <1>3, <1>6, <2>2, <3>1, <3>3
  <2> QED BY <1>4, <2>1, <2>2
<1>9. Settled'
  <2> SUFFICES ASSUME NEW k \in Controllers, NEW e \in Expanders, e \in Under(k), Done(k)', mounted[e] # None,
                      NEW d \in ToSet(scope[e].ends)
               PROVE  box'[d] = mounted[e]
    BY <1>2 DEF Settled
  <2>1. d \in Disks /\ At[d] = e
    BY EndsAt
  <2>2. k = c \/ Done(k)
    <3> DEFINE none == <<>>
    <3>1. none \in Seq(Task) /\ Push(none) /\ todo # <<>> /\ Head(todo) = Add(Owner)
      BY AddsPush
    <3> HIDE DEF none
    <3>2. Done(k) \/ Head(todo) = Add(k)
      BY <3>1, DonePush
    <3> QED BY <1>1, <3>1, <3>2 DEF Add
  <2>3. CASE k = c
    <3>1. lister[mounted[e]] = e /\ LastOn(enclosures[c], e, mounted[e])
      BY <2>3 DEF Mounts, Latest
    <3> QED BY <1>1, <2>1, <3>1, BoxesAdded
  <2>4. CASE k # c /\ Done(k)
    <3>1. box[d] = mounted[e]
      BY <1>2, <2>4 DEF Fills, Settled
    <3>2. \A s : ~Taker(c, s, d)
      BY <1>5, <2>1, <2>4, UnderOne
    <3> QED BY <1>4, <2>1, <3>1, <3>2
  <2> QED BY <2>2, <2>3, <2>4
<1> QED BY <1>7, <1>8, <1>9 DEF Fills

LEMMA FillsMean == Types /\ Mounts /\ Fills /\ Ended => EnclosuresAgree
<1> SUFFICES ASSUME Types, Mounts, Fills, Ended PROVE EnclosuresAgree
  OBVIOUS
<1>1. CASE status \notin {"scan", "open"}
  <2>1. Registered = {}
    BY <1>1, Empty DEF Ended, Registered
  <2> QED BY <2>1 DEF EnclosuresAgree
<1>2. CASE status \in {"scan", "open"}
  <2>1. \A d \in Disks : box[d] # None => box[d] \in Registered /\ d \in ToSet(members[box[d]])
    BY <1>2 DEF Fills, Boxed, Registered
  <2>2. \A e \in Expanders : mounted[e] # None => lister[mounted[e]] = e
    BY DEF Mounts, Latest
  <2>3. ASSUME status = "open", NEW e \in Expanders, mounted[e] # None, NEW d \in ToSet(scope[e].ends)
        PROVE  box[d] = mounted[e]
    <3>1. \A c : Done(c)
      <4>1. 1 .. Len(<<>>) = {}
        OBVIOUS
      <4> QED BY <2>3, <4>1 DEF Ended, Done
    <3>2. PICK c \in Controllers : e \in Under(c)
      BY UnderSome, KindFacts
    <3> QED BY <1>2, <2>3, <3>1, <3>2 DEF Fills, Settled
  <2>4. \A s \in Ses : \A d \in ToSet(members[s]) : d \in ToSet(scope[lister[s]].ends) /\ lister[box[d]] = lister[s]
    BY DEF Fills, Filled
  <2> QED BY <2>1, <2>2, <2>3, <2>4 DEF EnclosuresAgree
<1> QED BY <1>1, <1>2

(* The inductive invariant                                                  *)
EncInv == Staged /\ Rooted /\ Mounts /\ Fills /\ Ended

LEMMA EncInit == Init => EncInv
<1> SUFFICES ASSUME Init PROVE EncInv
  OBVIOUS
<1>1. Staged /\ Types
  BY StagedInit, TypesInit
<1>2. Rooted
  <2>1. ASSUME NEW i \in 1 .. Len(todo) PROVE todo[i][2] \notin Expanders
    <3>1. todo[i] \in StartTask
      BY TodoInit
    <3>2. todo[i] \in Task /\ (todo[i][1] = "list" => todo[i][2] \in Isci) /\ todo[i][1] \in {"list", "readdir", "add"}
      BY <3>1 DEF StartTask
    <3>3. todo[i][1] = "readdir" => todo[i][2] \in Controllers
      BY <3>2, TaskKinds, KindFacts DEF VmdTask, AhciTask
    <3>4. todo[i][1] = "add" => todo[i][2] \in Controllers
      BY <3>2, TaskKinds DEF AddTask
    <3> QED BY <3>2, <3>3, <3>4, KindFacts
  <2> QED BY <2>1 DEF Rooted
<1>3. Mounts
  <2>1. \A c \in Controllers : ToSet(enclosures[c]) = {}
    BY Empty DEF Init
  <2> QED BY <2>1 DEF Init, Mounts, Listers, Placed, Latest
<1>4. Fills
  <2>1. \A s \in Ses : ToSet(members[s]) = {}
    BY Empty DEF Init
  <2> QED BY <2>1 DEF Init, Fills, Filled, Boxed, Settled
<1>5. Ended
  BY DEF Init, Ended
<1> QED BY <1>1, <1>2, <1>3, <1>4, <1>5 DEF EncInv

LEMMA EncNext == Types /\ Types' /\ Seen /\ Up /\ SessionType /\ EncInv /\ [Next]_vars => EncInv'
<1> SUFFICES ASSUME Types, Types', Seen, Up, SessionType, EncInv, [Next]_vars PROVE EncInv'
  OBVIOUS
<1> USE DEF EncInv
<1>1. CASE Calm
  <2>1. /\ UNCHANGED <<todo, session, parent, scope, enclosures, lister, mounted, members, box>>
        /\ status' = status \/ (status = "scan" /\ status' = "open" /\ todo = <<>>)
    BY <1>1 DEF Calm, tree, boxes
  <2>2. Staged' /\ Mounts' /\ Ended'
    BY <2>1, MountsSame DEF Staged, Ended
  <2>3. Rooted'
    <3>1. ASSUME NEW e \in Expanders, Root(e) \in Controllers PROVE Root(e)' \in Controllers
      <4>1. ParentsStay /\ e \in Owners
        BY <2>1, KindFacts DEF ParentsStay
      <4> QED BY <3>1, <4>1, RootStays
    <3> QED BY <2>1, <3>1 DEF Rooted
  <2>4. Filled'
    BY <2>1 DEF Fills, Filled
  <2>5. Boxed'
    BY <2>1 DEF Fills, Boxed
  <2>6. Settled'
    <3>1. \A c : Done(c)' => Done(c)
      BY <2>1 DEF Done
    <3> QED BY <2>1, <3>1 DEF Fills, Settled
  <2> QED BY <2>2, <2>3, <2>4, <2>5, <2>6 DEF Fills
<1>2. CASE Stops
  <2>1. /\ UNCHANGED <<parent, scope, enclosures, lister, mounted, members, box>>
        /\ todo' = <<>> /\ session' = <<>> /\ status' \in {"failed", "crashed"} /\ 1 .. Len(todo') = {}
    BY <1>2 DEF Stops, Stop, tree, boxes
  <2>2. Staged' /\ Mounts' /\ Ended' /\ Rooted'
    BY <2>1, MountsSame DEF Staged, Followed, Ended, Rooted
  <2>3. Filled' /\ Boxed' /\ Settled'
    BY <2>1 DEF Fills, Filled, Boxed, Settled
  <2> QED BY <2>2, <2>3 DEF Fills
<1>3. CASE Works
  <2>1. status' = status /\ status = "scan"
    BY <1>3 DEF Works, Moved, Pushes, Push
  <2>2. Staged' /\ Rooted' /\ Mounts' /\ Fills'
    BY <1>3, RootedMoves, MountsMoves, FillsMoves
  <2> QED BY <2>1, <2>2 DEF Ended
<1>4. CASE Adds
  <2>1. UNCHANGED <<status, enclosures, lister, mounted>> /\ status = "scan"
    BY <1>4 DEF Adds, AddToSession, Doing
  <2>2. Staged' /\ Rooted' /\ Mounts' /\ Fills'
    BY <1>4, <2>1, RootedAdds, MountsSame, FillsAdds
  <2> QED BY <2>1, <2>2 DEF Ended
<1> QED BY <1>1, <1>2, <1>3, <1>4, StepKinds

LEMMA EncHolds == Spec => []EncInv
BY TypesHold, SeenHolds, UpHolds, SessionHolds, TypesInit, EncInit, EncNext, PTL DEF Spec

(* A disk that names an enclosure is in its list and the enclosure is       *)
(* registered, Enclosure::addToSession takes only disks of the expander the *)
(* enclosure is mounted in, and once the library is open every disk of an   *)
(* expander that names an enclosure is in that one: whatever order the      *)
(* controllers, expanders and enclosures were met in.                       *)
THEOREM EnclosuresFollow == Spec => []EnclosuresAgree
BY TypesHold, EncHolds, FillsMean, PTL DEF EncInv

-----------------------------------------------------------------------------
(* The devices as a tree                                                    *)

(* d and the devices below it                                               *)
Sub(d) == {d} \cup Under(d)

LEMMA UnderDeep ==
  ASSUME NEW o, NEW r \in Under(o)
  PROVE  Under(r) \subseteq Under(o)
<1> DEFINE S == Under(r) \ Under(o)
<1> SUFFICES ASSUME S # {} PROVE FALSE
  OBVIOUS
<1>1. S \in SUBSET Devices
  BY UnderRule
<1>2. PICK x \in S : At[x] \notin S
  BY <1>1, TreeAssumption
<1>3. x \in Devices /\ (At[x] = r \/ At[x] \in Under(r))
  BY <1>1, <1>2, UnderRule
<1>4. At[x] \in Under(o)
  BY <1>2, <1>3
<1> QED BY <1>2, <1>3, <1>4, UnderRule

LEMMA NotBelowItself ==
  ASSUME NEW o
  PROVE  o \notin Under(o)
<1> SUFFICES ASSUME o \in Under(o) PROVE FALSE
  OBVIOUS
<1> DEFINE S == {x \in Under(o) : o \in Sub(x)}
<1>1. S \in SUBSET Devices /\ o \in S
  BY UnderRule DEF Sub
<1>2. PICK x \in S : At[x] \notin S
  BY <1>1, TreeAssumption
<1>3. x \in Devices /\ x \in Under(o) /\ o \in Sub(x)
  BY <1>1, <1>2
<1>4. At[x] \in Under(o)
  BY <1>3, UnderRule
<1>5. x \in Under(At[x])
  BY <1>3, UnderRule
<1>6. o \in Under(At[x])
  BY <1>3, <1>5, UnderDeep DEF Sub
<1> QED BY <1>2, <1>4, <1>6 DEF Sub

LEMMA AboveItself ==
  ASSUME NEW d \in Devices
  PROVE  At[d] \notin Sub(d)
<1>1. At[d] \in Sub(d) => d \in Under(d)
  BY UnderRule DEF Sub
<1> QED BY <1>1, NotBelowItself

LEMMA SubRule ==
  ASSUME NEW r, NEW x \in Devices, x \in Sub(r)
  PROVE  x = r \/ At[x] \in Sub(r)
BY UnderRule DEF Sub

(* What is plugged in at the same place has nothing below in common.        *)
LEMMA Siblings ==
  ASSUME NEW r \in Devices, NEW s \in Devices, At[r] = At[s], r # s
  PROVE  Sub(r) \cap Sub(s) = {}
<1> DEFINE S == Sub(r) \cap Sub(s)
<1> SUFFICES ASSUME S # {} PROVE FALSE
  OBVIOUS
<1>1. S \in SUBSET Devices
  BY UnderRule DEF Sub
<1>2. PICK x \in S : At[x] \notin S
  BY <1>1, TreeAssumption
<1>3. x \in Devices /\ x \in Sub(r) /\ x \in Sub(s)
  BY <1>1, <1>2
<1>4. (x = r \/ At[x] \in Sub(r)) /\ (x = s \/ At[x] \in Sub(s))
  BY <1>3, SubRule
<1> QED BY <1>2, <1>4, AboveItself

(* What is below d is below what is above d.                                *)
LEMMA SubUnder ==
  ASSUME NEW o, NEW d \in Devices, At[d] = o \/ At[d] \in Under(o)
  PROVE  d \in Under(o) /\ Sub(d) \subseteq Under(o) /\ Under(d) \subseteq Under(o) /\ o \notin Sub(d)
<1>1. d \in Under(o)
  BY UnderRule
<1>2. Under(d) \subseteq Under(o)
  BY <1>1, UnderDeep
<1>3. o \notin Under(o)
  BY NotBelowItself
<1> QED BY <1>1, <1>2, <1>3 DEF Sub

LEMMA SubOfController ==
  ASSUME NEW c \in Controllers
  PROVE  c \notin Devices /\ \A o : c \notin Under(o)
BY KindFacts, UnderRule

-----------------------------------------------------------------------------
(* What is left to discover                                                 *)

(* The devices that a task will still attach, it or the tasks it leaves:    *)
(* nothing attaches them twice.                                             *)
Claims(t) ==
  CASE t[1] \in {"list", "ports"} -> Under(t[2])
    [] t[1] \in {"phy", "create"} -> {}
    [] t[1] = "port" -> IF t[3] = t[2] THEN {} ELSE Sub(t[3])
    [] t[1] \in {"attach", "end", "nvme", "member", "multiplier"} -> {t[3]}
    [] t[1] \in {"readdir", "stat"} -> IF t[2] \in Vmd THEN Under(t[2]) ELSE Sub(t[3])
    [] t[1] = "disk" -> {t[3], t[4]}
    [] t[1] = "add" -> {t[2]}

(* ... with what has been attached below them, and with the owner           *)
Shade(t) == IF t[1] \in {"attach", "multiplier"} THEN Sub(t[3]) ELSE Claims(t)
Wants(t) == {t[2]} \cup Claims(t)

Separate(q) == \A j \in 1 .. Len(q) : \A i \in 1 .. j - 1 : Wants(q[j]) \cap Shade(q[i]) = {}
Apart == Separate(todo)

LEMMA ClaimsAre ==
  ASSUME NEW t
  PROVE  /\ t[1] \in {"list", "ports"} => Claims(t) = Under(t[2])
         /\ t[1] \in {"phy", "create"} => Claims(t) = {}
         /\ t[1] = "port" => Claims(t) = IF t[3] = t[2] THEN {} ELSE Sub(t[3])
         /\ t[1] \in {"attach", "end", "nvme", "member", "multiplier"} => Claims(t) = {t[3]}
         /\ t[1] \in {"readdir", "stat"} => Claims(t) = IF t[2] \in Vmd THEN Under(t[2]) ELSE Sub(t[3])
         /\ t[1] = "disk" => Claims(t) = {t[3], t[4]}
         /\ t[1] = "add" => Claims(t) = {t[2]}
         /\ Shade(t) = IF t[1] \in {"attach", "multiplier"} THEN Sub(t[3]) ELSE Claims(t)
         /\ Claims(t) \subseteq Shade(t)
<1>1. t[1] \in {"list", "ports"} => Claims(t) = Under(t[2])
  BY DEF Claims
<1>2. t[1] \in {"phy", "create"} => Claims(t) = {}
  BY DEF Claims
<1>3. t[1] = "port" => Claims(t) = IF t[3] = t[2] THEN {} ELSE Sub(t[3])
  BY DEF Claims
<1>4. t[1] \in {"attach", "end", "nvme", "member", "multiplier"} => Claims(t) = {t[3]}
  BY DEF Claims
<1>5. t[1] \in {"readdir", "stat"} => Claims(t) = IF t[2] \in Vmd THEN Under(t[2]) ELSE Sub(t[3])
  BY DEF Claims
<1>6. t[1] = "disk" => Claims(t) = {t[3], t[4]}
  BY DEF Claims
<1>7. t[1] = "add" => Claims(t) = {t[2]}
  BY DEF Claims
<1>8. Shade(t) = IF t[1] \in {"attach", "multiplier"} THEN Sub(t[3]) ELSE Claims(t)
  BY DEF Shade
<1>9. Claims(t) \subseteq Shade(t)
  BY <1>4, <1>8 DEF Sub
<1> QED BY <1>1, <1>2, <1>3, <1>4, <1>5, <1>6, <1>7, <1>8, <1>9

(* A task that splits another one takes from it.                            *)
Early == {"readdir", "stat", "nvme", "member"}
Within(t, u) ==
  /\ Claims(t) \subseteq Claims(u) /\ Shade(t) \subseteq Shade(u) /\ t[2] \in Wants(u)
  /\ t[1] \in Early => u[1] \in Early
Splits(tasks) == Separate(tasks) /\ \A i \in 1 .. Len(tasks) : Within(tasks[i], Head(todo))

(* Every task that is left after a step takes from one there was.           *)
Settles ==
  \A k \in 1 .. Len(todo') : \E i \in 1 .. Len(todo) :
    /\ Claims(todo'[k]) \subseteq Claims(todo[i]) /\ Wants(todo'[k]) \subseteq Wants(todo[i])
    /\ todo'[k][1] \in Early => todo[i][1] \in Early

LEMMA ApartPush ==
  ASSUME Types, Apart, todo # <<>>, NEW tasks \in Seq(Task), Push(tasks), Splits(tasks)
  PROVE  Apart' /\ Settles
<1> DEFINE n == Len(tasks)
<1>1. /\ n \in Nat /\ Len(todo) \in Nat /\ Len(todo') \in Nat
      /\ \A i \in 1 .. n : i \in 1 .. Len(todo') /\ todo'[i] = tasks[i]
      /\ \A i \in 2 .. Len(todo) : i + n - 1 \in 1 .. Len(todo') /\ todo'[i + n - 1] = todo[i]
      /\ \A k \in 1 .. Len(todo') : k \in 1 .. n \/ \E i \in 2 .. Len(todo) : k = i + n - 1
      /\ todo[1] = Head(todo) /\ 1 \in 1 .. Len(todo)
  BY StackFacts DEF Types
<1> HIDE DEF n
<1>2. \A i \in 1 .. n : Within(tasks[i], todo[1]) /\ Wants(tasks[i]) \subseteq Wants(todo[1])
  BY <1>1 DEF Splits, Within, Wants, n
<1>3. Settles
  <2> SUFFICES ASSUME NEW k \in 1 .. Len(todo')
               PROVE  \E i \in 1 .. Len(todo) :
                        /\ Claims(todo'[k]) \subseteq Claims(todo[i]) /\ Wants(todo'[k]) \subseteq Wants(todo[i])
                        /\ todo'[k][1] \in Early => todo[i][1] \in Early
    BY DEF Settles
  <2>1. CASE k \in 1 .. n
    BY <1>1, <1>2, <2>1 DEF Within
  <2>2. CASE k \notin 1 .. n
    <3>1. PICK i \in 2 .. Len(todo) : k = i + n - 1
      BY <1>1, <2>2
    <3>2. i \in 1 .. Len(todo) /\ todo'[k] = todo[i]
      BY <1>1, <3>1
    <3> QED BY <3>2
  <2> QED BY <2>1, <2>2
<1>4. ASSUME NEW j \in 1 .. Len(todo'), NEW i \in 1 .. j - 1
      PROVE  Wants(todo'[j]) \cap Shade(todo'[i]) = {}
  <2>0. i \in 1 .. Len(todo')
    BY <1>1
  <2>1. CASE j \in 1 .. n
    <3>1. i \in 1 .. n /\ todo'[i] = tasks[i] /\ todo'[j] = tasks[j]
      BY <1>1, <2>1
    <3> QED BY <2>1, <3>1 DEF Splits, Separate, n
  <2>2. CASE j \notin 1 .. n
    <3>1. PICK b \in 2 .. Len(todo) : j = b + n - 1
      BY <1>1, <2>2
    <3>2. b \in 1 .. Len(todo) /\ 1 \in 1 .. b - 1 /\ todo'[j] = todo[b]
      BY <1>1, <3>1
    <3>3. CASE i \in 1 .. n
      <4>1. Wants(todo[b]) \cap Shade(todo[1]) = {}
        BY <3>2 DEF Apart, Separate
      <4>2. todo'[i] = tasks[i] /\ Shade(tasks[i]) \subseteq Shade(todo[1])
        BY <1>1, <1>2, <3>3 DEF Within
      <4> QED BY <3>2, <4>1, <4>2
    <3>4. CASE i \notin 1 .. n
      <4>1. PICK a \in 2 .. Len(todo) : i = a + n - 1
        BY <1>1, <2>0, <3>4
      <4>2. a \in 1 .. b - 1 /\ todo'[i] = todo[a]
        BY <1>1, <3>1, <4>1
      <4> QED BY <3>2, <4>2 DEF Apart, Separate
    <3> QED BY <3>3, <3>4
  <2> QED BY <2>1, <2>2
<1>5. Apart'
  BY <1>4 DEF Apart, Separate
<1> QED BY <1>3, <1>5

(* A task that leaves none gives up what it had.                            *)
LEMMA ApartDone ==
  ASSUME Types, Apart, todo # <<>>, Push(<<>>)
  PROVE  /\ Apart' /\ Settles
         /\ \A k \in 1 .. Len(todo') : Wants(todo'[k]) \cap Shade(Head(todo)) = {}
<1> DEFINE none == <<>>
<1>1. none \in Seq(Task) /\ Len(none) = 0
  OBVIOUS
<1>2. Splits(none) /\ Push(none)
  BY DEF Splits, Separate
<1> HIDE DEF none
<1>3. Apart' /\ Settles
  BY <1>1, <1>2, ApartPush
<1>4. /\ Len(todo) \in Nat /\ Len(todo') \in Nat /\ todo[1] = Head(todo)
      /\ \A i \in 2 .. Len(todo) : todo'[i + Len(none) - 1] = todo[i]
      /\ \A k \in 1 .. Len(todo') : k \in 1 .. Len(none) \/ \E i \in 2 .. Len(todo) : k = i + Len(none) - 1
  BY <1>1, <1>2, StackFacts DEF Types
<1>5. ASSUME NEW k \in 1 .. Len(todo') PROVE Wants(todo'[k]) \cap Shade(Head(todo)) = {}
  <2>1. PICK i \in 2 .. Len(todo) : k = i + Len(none) - 1
    BY <1>1, <1>4
  <2>2. todo'[k] = todo[i] /\ i \in 1 .. Len(todo) /\ 1 \in 1 .. i - 1
    BY <1>4, <2>1
  <2> QED BY <1>4, <2>2 DEF Apart, Separate
<1> QED BY <1>3, <1>5

LEMMA ApartStays ==
  ASSUME Apart, todo' = todo
  PROVE  Apart' /\ Settles
BY DEF Apart, Settles

LEMMA ApartStopped ==
  ASSUME NEW how, Stop(how)
  PROVE  Apart' /\ Settles
<1>1. todo' = <<>> /\ 1 .. Len(<<>>) = {}
  BY DEF Stop
<1>2. 1 .. Len(todo') = {}
  BY <1>1
<1> QED BY <1>2 DEF Apart, Separate, Settles

-----------------------------------------------------------------------------
(* Sequences with nothing twice                                             *)

LEMMA OnceIn ==
  ASSUME NEW X, NEW s \in Seq(X)
  PROVE  IsInjective(s) <=> \A i, j \in 1 .. Len(s) : s[i] = s[j] => i = j
BY Elements DEF IsInjective

LEMMA OnceNone == IsInjective(<<>>)
BY DEF IsInjective

LEMMA OnceOne ==
  ASSUME NEW x
  PROVE  IsInjective(<<x>>)
<1> DEFINE s == <<x>>
<1>1. s \in Seq({x}) /\ Len(s) = 1
  OBVIOUS
<1> HIDE DEF s
<1> QED BY <1>1, OnceIn

LEMMA JoinedOnce ==
  ASSUME NEW X, NEW s \in Seq(X), NEW t \in Seq(X), IsInjective(s), IsInjective(t),
         ToSet(s) \cap ToSet(t) = {}
  PROVE  IsInjective(s \o t)
<1> DEFINE u == s \o t
           n == Len(s)
           m == Len(t)
<1>1. /\ n \in Nat /\ m \in Nat /\ Len(u) = n + m
      /\ \A i \in 1 .. n : u[i] = s[i]
      /\ \A i \in 1 .. m : u[n + i] = t[i]
      /\ \A k \in 1 .. Len(u) : k \in 1 .. n \/ \E i \in 1 .. m : k = n + i
  BY Concatenated
<1>2. u \in Seq(X)
  OBVIOUS
<1>3. /\ \A i, j \in 1 .. n : s[i] = s[j] => i = j
      /\ \A i, j \in 1 .. m : t[i] = t[j] => i = j
      /\ \A i \in 1 .. n, j \in 1 .. m : s[i] # t[j]
  BY OnceIn, Elements
<1> HIDE DEF u, n, m
<1>4. ASSUME NEW i \in 1 .. Len(u), NEW j \in 1 .. Len(u), u[i] = u[j] PROVE i = j
  <2>1. CASE i \in 1 .. n /\ j \in 1 .. n
    BY <1>1, <1>3, <1>4, <2>1
  <2>2. CASE i \in 1 .. n /\ j \notin 1 .. n
    BY <1>1, <1>3, <1>4, <2>2
  <2>3. ASSUME NEW a \in 1 .. m, i = n + a, j \in 1 .. n PROVE FALSE
    BY <1>1, <1>3, <1>4, <2>3
  <2>4. ASSUME NEW a \in 1 .. m, NEW b \in 1 .. m, i = n + a, j = n + b PROVE i = j
    <3>1. t[a] = t[b]
      BY <1>1, <1>4, <2>4
    <3> QED BY <1>3, <2>4, <3>1
  <2> QED BY <1>1, <2>1, <2>2, <2>3, <2>4
<1>5. IsInjective(u)
  BY <1>2, <1>4, OnceIn
<1> QED BY <1>5 DEF u

LEMMA AppendedOnce ==
  ASSUME NEW X, NEW s \in Seq(X), NEW x \in X, IsInjective(s), x \notin ToSet(s)
  PROVE  IsInjective(Append(s, x))
<1>1. <<x>> \in Seq(X) /\ ToSet(<<x>>) = {x} /\ Append(s, x) = s \o <<x>>
  BY Singleton
<1>2. IsInjective(<<x>>)
  BY OnceOne
<1> DEFINE one == <<x>>
<1> HIDE DEF one
<1>3. one \in Seq(X) /\ ToSet(one) = {x} /\ IsInjective(one) /\ Append(s, x) = s \o one
  BY <1>1, <1>2 DEF one
<1> QED BY <1>3, JoinedOnce

LEMMA FlattenedOnce ==
  ASSUME NEW X, NEW ss \in Seq(Seq(X)), \A i \in 1 .. Len(ss) : IsInjective(ss[i]),
         \A i, j \in 1 .. Len(ss) : i # j => ToSet(ss[i]) \cap ToSet(ss[j]) = {}
  PROVE  IsInjective(FlattenSeq(ss))
<1>1. PICK f \in [0 .. Len(ss) -> Seq(X)] :
        /\ f[0] = <<>> /\ \A n \in 1 .. Len(ss) : f[n] = f[n - 1] \o ss[n]
        /\ FlattenSeq(ss) = f[Len(ss)]
  BY FlattenBuilt
<1>2. Len(ss) \in Nat /\ \A i \in 1 .. Len(ss) : ss[i] \in Seq(X)
  OBVIOUS
<1> DEFINE P == {n \in Nat : n <= Len(ss) =>
                   IsInjective(f[n]) /\ ToSet(f[n]) = UNION {ToSet(ss[i]) : i \in 1 .. n}}
<1>3. 0 \in P
  <2>1. f[0] = <<>> /\ 1 .. 0 = {} /\ ToSet(<<>>) = {}
    BY <1>1, Empty
  <2> QED BY <2>1, OnceNone
<1>4. ASSUME NEW n \in Nat, n \in P PROVE n + 1 \in P
  <2> SUFFICES ASSUME n + 1 <= Len(ss)
               PROVE  IsInjective(f[n + 1]) /\ ToSet(f[n + 1]) = UNION {ToSet(ss[i]) : i \in 1 .. n + 1}
    OBVIOUS
  <2>1. n \in 0 .. Len(ss) /\ n + 1 \in 1 .. Len(ss) /\ (n + 1) - 1 = n /\ n <= Len(ss)
    BY <1>2
  <2>2. f[n] \in Seq(X) /\ ss[n + 1] \in Seq(X) /\ f[n + 1] = f[n] \o ss[n + 1]
    BY <1>1, <1>2, <2>1
  <2>3. IsInjective(f[n]) /\ ToSet(f[n]) = UNION {ToSet(ss[i]) : i \in 1 .. n}
    BY <1>4, <2>1
  <2>4. ToSet(f[n]) \cap ToSet(ss[n + 1]) = {}
    <3>1. \A i \in 1 .. n : i \in 1 .. Len(ss) /\ i # n + 1
      BY <2>1
    <3>2. \A i \in 1 .. n : ToSet(ss[i]) \cap ToSet(ss[n + 1]) = {}
      BY <2>1, <3>1
    <3> QED BY <2>3, <3>2
  <2>5. ToSet(f[n + 1]) = ToSet(f[n]) \cup ToSet(ss[n + 1])
    BY <2>2, Joined
  <2>6. IsInjective(f[n + 1])
    <3> DEFINE a == f[n]
               b == ss[n + 1]
    <3>1. IsInjective(b)
      BY <2>1
    <3>2. a \in Seq(X) /\ b \in Seq(X) /\ IsInjective(a) /\ ToSet(a) \cap ToSet(b) = {} /\ f[n + 1] = a \o b
      BY <2>2, <2>3, <2>4
    <3> HIDE DEF a, b
    <3>3. IsInjective(a \o b)
      BY <3>1, <3>2, JoinedOnce
    <3> QED BY <3>2, <3>3
  <2>7. 1 .. n + 1 = (1 .. n) \cup {n + 1}
    OBVIOUS
  <2> QED BY <2>3, <2>5, <2>6, <2>7
<1>5. Len(ss) \in P
  <2> HIDE DEF P
  <2>1. Nat \subseteq P
    BY <1>3, <1>4, Counting
  <2> QED BY <1>2, <2>1
<1> QED BY <1>1, <1>2, <1>5

LEMMA PluggedOnce ==
  ASSUME NEW o
  PROVE  IsInjective(Plugged(o)) /\ IsInjective(Among(Plugged(o), There))
<1> DEFINE D == {d \in Devices : At[d] = o}
<1>1. Plugged(o) = Among(Order, D) /\ Order \in Seq(Controllers \cup Devices) /\ IsInjective(Order)
  BY OrderAssumption DEF Plugged
<1> HIDE DEF D
<1>2. IsInjective(Plugged(o))
  BY <1>1, AmongFacts
<1>3. Plugged(o) \in Seq({d \in Devices : At[d] = o})
  BY PluggedFacts
<1> QED BY <1>2, <1>3, AmongFacts

LEMMA TargetsOnce ==
  ASSUME NEW h \in Devices
  PROVE  IsInjective(Targets(h))
<1>1. CASE h \in Disks
  <2> DEFINE one == <<h>>
  <2>1. one \in Seq(Disks) /\ IsInjective(one) /\ Targets(h) = Among(one, There)
    BY <1>1, OnceOne DEF Targets
  <2> HIDE DEF one
  <2> QED BY <2>1, AmongFacts
<1>2. CASE h \notin Disks
  BY <1>2, PluggedOnce DEF Targets
<1> QED BY <1>1, <1>2

LEMMA FoundOnce ==
  ASSUME NEW s, IsInjective(s)
  PROVE  IsInjective(Found(s))
BY OnceNone DEF Found

-----------------------------------------------------------------------------
(* Each task splits what the one before it had                              *)

(* A port is created for a phy that has found none, before any other phy is *)
(* read; a directory names an entry once.                                   *)
Unknown(t) == \A o \in Hosts, d \in Devices : t[2] = o /\ t[3] = d => ~KnownPort(o, d)
Creates == \A i \in 1 .. Len(todo) : todo[i][1] = "create" => i = 1 /\ Unknown(todo[i])
Listed == \A i \in 1 .. Len(todo) : todo[i][1] = "stat" => IsInjective(todo[i][4])
PortsOnce == \A o \in Hosts : IsInjective(ports[o])

Fresh(tasks) ==
  \A i \in 1 .. Len(tasks) :
    /\ tasks[i][1] = "stat" => IsInjective(tasks[i][4])
    /\ tasks[i][1] = "create" => i = 1 /\ Unknown(tasks[i])'
Divides == \E tasks \in Seq(Task) : Push(tasks) /\ Splits(tasks) /\ Fresh(tasks)

LEMMA DividesNone ==
  ASSUME Push(<<>>)
  PROVE  Divides
<1> DEFINE none == <<>>
<1>1. none \in Seq(Task) /\ Len(none) = 0 /\ Push(none)
  OBVIOUS
<1> HIDE DEF none
<1>2. Splits(none) /\ Fresh(none)
  BY <1>1 DEF Splits, Separate, Fresh
<1> QED BY <1>1, <1>2 DEF Divides

LEMMA DividesOne ==
  ASSUME Types, Types', todo # <<>>, NEW t, Push(<<t>>), Within(t, Head(todo)),
         t[1] = "stat" => IsInjective(t[4]), t[1] = "create" => Unknown(t)'
  PROVE  Divides
<1> DEFINE tasks == <<t>>
<1>1. t \in Task
  <2>1. todo' = <<t>> \o Tail(todo) /\ Tail(todo) \in Seq(Task) /\ todo' \in Seq(Task)
    BY DEF Push, Types, TodoType
  <2>2. 1 \in 1 .. Len(todo') /\ todo'[1] = t
    BY <2>1
  <2> QED BY <2>1, <2>2, ElementOfSeq
<1>2. tasks \in Seq(Task) /\ Len(tasks) = 1 /\ tasks[1] = t /\ Push(tasks)
  BY <1>1
<1> HIDE DEF tasks
<1>3. \A i \in 1 .. 1 : i = 1 /\ 1 .. i - 1 = {}
  OBVIOUS
<1>4. Splits(tasks) /\ Fresh(tasks)
  BY <1>2, <1>3 DEF Splits, Separate, Fresh
<1> QED BY <1>2, <1>4 DEF Divides

LEMMA DividesSome ==
  ASSUME NEW tasks \in Seq(Task), Push(tasks), Splits(tasks),
         \A i \in 1 .. Len(tasks) : tasks[i][1] \notin {"stat", "create"}
  PROVE  Divides
<1>1. Fresh(tasks)
  BY DEF Fresh
<1> QED BY <1>1 DEF Divides

(* What is left after a step that splits its task                           *)
LEMMA DividesMeans ==
  ASSUME Types, Apart, Creates, Listed, todo # <<>>, Divides
  PROVE  Apart' /\ Settles /\ Creates' /\ Listed'
<1>1. PICK tasks \in Seq(Task) : Push(tasks) /\ Splits(tasks) /\ Fresh(tasks)
  BY DEF Divides
<1> DEFINE n == Len(tasks)
<1>2. /\ n \in Nat /\ Len(todo) \in Nat /\ Len(todo') \in Nat
      /\ \A i \in 1 .. n : todo'[i] = tasks[i]
      /\ \A i \in 2 .. Len(todo) : todo'[i + n - 1] = todo[i]
      /\ \A k \in 1 .. Len(todo') : k \in 1 .. n \/ \E i \in 2 .. Len(todo) : k = i + n - 1
  BY <1>1, StackFacts DEF Types
<1>3. \A i \in 2 .. Len(todo) : i \in 1 .. Len(todo) /\ i # 1
  BY <1>2
<1>4. Creates'
  <2> SUFFICES ASSUME NEW k \in 1 .. Len(todo'), todo'[k][1] = "create"
               PROVE  k = 1 /\ Unknown(todo[k])'
    BY DEF Creates
  <2>1. CASE k \in 1 .. n
    <3>1. todo'[k] = tasks[k] /\ tasks[k][1] = "create"
      BY <1>2, <2>1
    <3>2. k = 1 /\ Unknown(tasks[k])'
      BY <1>1, <2>1, <3>1 DEF Fresh
    <3> QED BY <3>1, <3>2 DEF Unknown
  <2>2. CASE k \notin 1 .. n
    <3>1. PICK i \in 2 .. Len(todo) : k = i + n - 1
      BY <1>2, <2>2
    <3>2. todo'[k] = todo[i]
      BY <1>2, <3>1
    <3>3. i \in 1 .. Len(todo) /\ i # 1 /\ todo[i][1] = "create"
      BY <1>3, <3>2
    <3> QED BY <3>3 DEF Creates
  <2> QED BY <2>1, <2>2
<1>5. Listed'
  <2> SUFFICES ASSUME NEW k \in 1 .. Len(todo'), todo'[k][1] = "stat"
               PROVE  IsInjective(todo'[k][4])
    BY DEF Listed
  <2>1. CASE k \in 1 .. n
    <3>1. todo'[k] = tasks[k]
      BY <1>2, <2>1
    <3> QED BY <1>1, <2>1, <3>1 DEF Fresh
  <2>2. CASE k \notin 1 .. n
    <3>1. PICK i \in 2 .. Len(todo) : k = i + n - 1
      BY <1>2, <2>2
    <3>2. todo'[k] = todo[i]
      BY <1>2, <3>1
    <3> QED BY <1>3, <3>2 DEF Listed
  <2> QED BY <2>1, <2>2
<1> QED BY <1>1, <1>4, <1>5, ApartPush

LEMMA JoinedLast ==
  ASSUME NEW X, NEW s \in Seq(X), NEW x \in X
  PROVE  /\ s \o <<x>> \in Seq(X) /\ Len(s) \in Nat /\ Len(s \o <<x>>) = Len(s) + 1
         /\ \A i \in 1 .. Len(s) : (s \o <<x>>)[i] = s[i]
         /\ (s \o <<x>>)[Len(s) + 1] = x
<1>1. s \o <<x>> = Append(s, x)
  OBVIOUS
<1> QED BY <1>1

LEMMA DividesList ==
  ASSUME Types, Doing("list"), ListPhys(Owner)
  PROVE  Divides
<1> DEFINE o == Owner
           last == <<"ports", o>>
           T == OwnPhy(o) \cup {last}
           p == PhysOf(o)
           tasks == p \o <<last>>
<1>1. Head(todo)[1] = "list" /\ Head(todo)[2] = o /\ o \in Hosts
  BY HeadFacts, TaskKinds DEF Types, ListTask, Owner, Doing
<1>2. Push(tasks) \/ Push(<<>>)
  BY DEF ListPhys, Continue, Push
<1>3. p \in Seq(Task) /\ p \in Seq(OwnPhy(o)) /\ last \in Task
  <2>1. OwnPhy(o) \subseteq Task
    BY TaskSets DEF OwnPhy
  <2>2. last \in Task
    BY <1>1, TaskSets DEF ListTask
  <2> QED BY <1>1, <2>1, <2>2, PhysOfFacts, SeqMonotonic
<1>4. last[1] = "ports" /\ last[2] = o
  OBVIOUS
<1> HIDE DEF p, last
<1>5. \A i \in 1 .. Len(p) : p[i][1] = "phy" /\ p[i][2] = o
  BY <1>3 DEF OwnPhy
<1>7. /\ tasks \in Seq(Task) /\ Len(p) \in Nat /\ Len(tasks) = Len(p) + 1
      /\ \A i \in 1 .. Len(p) : tasks[i] = p[i]
      /\ tasks[Len(p) + 1] = last
  BY <1>3, JoinedLast
<1> HIDE DEF tasks
<1>8. \A t : t[1] = "phy" /\ t[2] = o => Shade(t) = {} /\ Within(t, Head(todo))
  BY ClaimsAre DEF Within, Wants, Owner, Early
<1>9. Within(last, Head(todo))
  BY <1>1, <1>4, ClaimsAre DEF Within, Wants, Early
<1> HIDE DEF o
<1>10. Splits(tasks) /\ \A i \in 1 .. Len(tasks) : tasks[i][1] \notin {"stat", "create"}
  <2>1. ASSUME NEW i \in 1 .. Len(tasks)
        PROVE  Within(tasks[i], Head(todo)) /\ tasks[i][1] \notin {"stat", "create"} /\ (i < Len(tasks) => Shade(tasks[i]) = {})
    <3>1. CASE i \in 1 .. Len(p)
      BY <1>5, <1>7, <1>8, <3>1
    <3>2. CASE i \notin 1 .. Len(p)
      <4>1. i = Len(p) + 1
        BY <1>7, <3>2
      <4> QED BY <1>4, <1>7, <1>9, <4>1
    <3> QED BY <3>1, <3>2
  <2>2. ASSUME NEW j \in 1 .. Len(tasks), NEW i \in 1 .. j - 1
        PROVE  Wants(tasks[j]) \cap Shade(tasks[i]) = {}
    BY <1>7, <2>1
  <2> QED BY <2>1, <2>2 DEF Splits, Separate
<1> QED BY <1>2, <1>7, <1>10, DividesNone, DividesSome

LEMMA DividesPhy ==
  ASSUME Types, Types', Doing("phy"), ReadPhy(Owner, Device, Argument)
  PROVE  Divides
<1>1. PICK t : t = <<"create", Owner, Device, Argument>>
  OBVIOUS
<1>2. todo # <<>> /\ t[1] = "create" /\ t[2] = Owner /\ t[3] = Device
  BY <1>1 DEF Doing
<1>3. \/ Push(<<>>)
      \/ Push(<<t>>) /\ ~KnownPort(Owner, Device) /\ UNCHANGED <<ports, subtractive>>
  BY <1>1 DEF ReadPhy, Continue, Push
<1>4. Within(t, Head(todo))
  BY <1>2, ClaimsAre DEF Within, Wants, Early, Owner
<1>5. CASE Push(<<t>>) /\ ~KnownPort(Owner, Device) /\ UNCHANGED <<ports, subtractive>>
  <2>1. Unknown(t)'
    <3> SUFFICES ASSUME NEW o \in Hosts, NEW d \in Devices, t[2] = o, t[3] = d
                 PROVE  ~KnownPort(o, d)'
      BY DEF Unknown
    <3> QED BY <1>2, <1>5 DEF KnownPort
  <2> QED BY <1>2, <1>4, <1>5, <2>1, DividesOne
<1> QED BY <1>3, <1>5, DividesNone

LEMMA DividesPorts ==
  ASSUME Types, PortsOnce, Doing("ports"), ListPorts(Owner)
  PROVE  Divides
<1> DEFINE o == Owner
           q == ports[o]
<1>1. Head(todo)[1] = "ports" /\ Head(todo)[2] = o /\ o \in Hosts
  BY HeadFacts, TaskKinds DEF Types, ListTask, Owner, Doing
<1>2. q \in Seq(OwnPort(o)) /\ OwnPort(o) \subseteq Task /\ IsInjective(q)
  BY <1>1, TaskSets DEF Types, WiringType, OwnPort, PortsOnce
<1>3. Push(q)
  BY DEF ListPorts, Continue, Push
<1> HIDE DEF q
<1>4. ASSUME NEW t \in OwnPort(o)
      PROVE  /\ t[1] = "port" /\ t[2] = o /\ t[3] \in Devices /\ t = <<"port", o, t[3]>>
             /\ Claims(t) = Shade(t) /\ Claims(t) \subseteq Under(o) /\ o \notin Claims(t)
             /\ Claims(t) = {} \/ (Claims(t) = Sub(t[3]) /\ At[t[3]] = o)
  <2>1. t[1] = "port" /\ t[2] = o /\ t[3] \in Devices /\ t = <<"port", o, t[3]>> /\ t[3] \in Far(o)
    BY DEF OwnPort, PortTask
  <2>2. Claims(t) = IF t[3] = o THEN {} ELSE Sub(t[3])
    BY <2>1, ClaimsAre
  <2>3. Claims(t) = Shade(t)
    BY <2>1, ClaimsAre
  <2>4. t[3] # o => At[t[3]] = o
    BY <2>1 DEF Far
  <2> QED BY <2>1, <2>2, <2>3, <2>4, SubUnder
<1>5. ASSUME NEW i \in 1 .. Len(q)
      PROVE  q[i] \in OwnPort(o) /\ Within(q[i], Head(todo)) /\ q[i][1] = "port"
  <2>1. q[i] \in OwnPort(o)
    BY <1>2
  <2>2. Claims(Head(todo)) = Under(o) /\ Shade(Head(todo)) = Under(o)
    BY <1>1, ClaimsAre
  <2> QED BY <1>1, <1>4, <2>1, <2>2 DEF Within, Wants, Early
<1>6. ASSUME NEW j \in 1 .. Len(q), NEW i \in 1 .. j - 1 PROVE Wants(q[j]) \cap Shade(q[i]) = {}
  <2>1. i \in 1 .. Len(q) /\ i # j /\ Len(q) \in Nat
    BY <1>2
  <2>2. q[i] # q[j]
    BY <1>2, <2>1, OnceIn
  <2>3. q[i] \in OwnPort(o) /\ q[j] \in OwnPort(o)
    BY <1>5, <2>1
  <2>4. q[i][3] # q[j][3] /\ q[i][3] \in Devices /\ q[j][3] \in Devices
    BY <1>4, <2>2, <2>3
  <2>5. Claims(q[i]) \cap Claims(q[j]) = {}
    BY <1>4, <2>3, <2>4, Siblings
  <2> QED BY <1>4, <2>3, <2>5 DEF Wants
<1>7. Splits(q) /\ q \in Seq(Task)
  BY <1>2, <1>5, <1>6, SeqMonotonic DEF Splits, Separate
<1> QED BY <1>3, <1>5, <1>7, DividesSome

LEMMA DividesPort ==
  ASSUME Types, Types', Seen, Doing("port"), DiscoverPort(Owner, Device), Present(Device)
  PROVE  Divides
<1> DEFINE o == Owner
           d == Device
           list == <<"list", d>>
           attach == <<"attach", o, d>>
           end == <<"end", o, d>>
<1>1. Head(todo) \in PortTask /\ todo # <<>> /\ Head(todo)[1] = "port"
  BY HeadFacts, TaskKinds DEF Types, Doing
<1>2. /\ o \in Hosts /\ d \in Devices /\ d \in Far(o) /\ Head(todo)[2] = o /\ Head(todo)[3] = d
      /\ d \in Expanders => <<list, attach>> \in Seq(Task)
  BY <1>1, PortTaskFacts DEF Owner, Device
<1>3. d # o
  BY <1>1, <1>2, SeenHead DEF TaskSeen, PortSeen, Lost, There
<1>4. At[d] = o
  BY <1>2, <1>3 DEF Far
<1>5. /\ Claims(Head(todo)) = Sub(d) /\ Shade(Head(todo)) = Sub(d) /\ Wants(Head(todo)) = {o} \cup Sub(d)
      /\ o \notin Sub(d) /\ d \in Sub(d) /\ d \notin Under(d) /\ Under(d) \subseteq Sub(d) /\ o \notin Under(d)
  BY <1>1, <1>2, <1>3, <1>4, ClaimsAre, SubUnder, NotBelowItself DEF Wants, Sub
<1>6. CASE d \in Expanders
  <2> DEFINE tasks == <<list, attach>>
  <2>1. Push(tasks)
    BY <1>6 DEF DiscoverPort, Continue, Push
  <2>2. tasks \in Seq(Task) /\ Len(tasks) = 2 /\ tasks[1] = list /\ tasks[2] = attach
    BY <1>2, <1>6
  <2>3. /\ list[1] = "list" /\ list[2] = d /\ attach[1] = "attach" /\ attach[2] = o /\ attach[3] = d
    OBVIOUS
  <2> HIDE DEF tasks, list, attach, o, d
  <2>4. /\ Claims(list) = Under(d) /\ Shade(list) = Under(d)
        /\ Claims(attach) = {d} /\ Shade(attach) = Sub(d) /\ Wants(attach) = {o, d}
    BY <2>3, ClaimsAre DEF Wants
  <2>5. Within(list, Head(todo)) /\ Within(attach, Head(todo))
    BY <1>5, <2>3, <2>4 DEF Within, Early
  <2>6. \A i \in 1 .. Len(tasks) : tasks[i] = list \/ tasks[i] = attach
    BY <2>2
  <2>7. ASSUME NEW j \in 1 .. Len(tasks), NEW i \in 1 .. j - 1
        PROVE  Wants(tasks[j]) \cap Shade(tasks[i]) = {}
    <3>1. j = 2 /\ i = 1
      BY <2>2
    <3> QED BY <1>5, <2>2, <2>4, <3>1
  <2>8. Splits(tasks) /\ \A i \in 1 .. Len(tasks) : tasks[i][1] \notin {"stat", "create"}
    BY <2>3, <2>5, <2>6, <2>7 DEF Splits, Separate
  <2> QED BY <2>1, <2>2, <2>8, DividesSome
<1>7. CASE d \notin Expanders
  <2>1. Push(<<end>>)
    BY <1>7 DEF DiscoverPort, Continue, Push
  <2>2. end[1] = "end" /\ end[2] = o /\ end[3] = d
    OBVIOUS
  <2> HIDE DEF end, o, d
  <2>3. Within(end, Head(todo))
    BY <1>5, <2>2, ClaimsAre DEF Within, Early
  <2> QED BY <1>1, <2>1, <2>2, <2>3, DividesOne
<1> QED BY <1>6, <1>7

LEMMA DividesReadDir ==
  ASSUME Types, Types', Doing("readdir"), ReadDir(Owner, Device)
  PROVE  Divides
<1> DEFINE listing == IF Owner \in Vmd THEN Among(Plugged(Owner), There) ELSE Targets(Device)
           stat == <<"stat", Owner, Device, listing>>
<1>1. todo # <<>> /\ Head(todo)[1] = "readdir" /\ Head(todo) \in VmdTask \cup AhciTask
  BY HeadFacts, TaskKinds DEF Types, Doing
<1>2. Push(<<stat>>)
  BY DEF ReadDir, Continue, Push
<1>3. stat[1] = "stat" /\ stat[2] = Owner /\ stat[3] = Device /\ stat[4] = listing
  OBVIOUS
<1>4. IsInjective(listing)
  <2>1. Owner \notin Vmd => Device \in Devices
    BY <1>1, KindFacts DEF VmdTask, AhciTask, Owner, Device
  <2> QED BY <2>1, PluggedOnce, TargetsOnce
<1> HIDE DEF stat
<1>5. Within(stat, Head(todo))
  BY <1>1, <1>3, ClaimsAre DEF Within, Early, Owner, Device, Wants
<1> QED BY <1>1, <1>2, <1>3, <1>4, <1>5, DividesOne

(* The entries of a directory                                               *)
LEMMA EachApart ==
  ASSUME NEW s \in Seq(Disks), IsInjective(s), NEW o, o \notin ToSet(s), NEW what \in {"nvme", "member"}
  PROVE  Separate(Each(what, o, s))
<1> DEFINE q == Each(what, o, s)
<1>1. Len(q) = Len(s) /\ \A i \in 1 .. Len(s) : q[i] = <<what, o, s[i]>>
  BY EachEntries
<1>2. \A i \in 1 .. Len(s) : q[i][1] = what /\ q[i][2] = o /\ q[i][3] = s[i]
  <2> HIDE DEF q
  <2> QED BY <1>1
<1> HIDE DEF q
<1>3. \A i \in 1 .. Len(s) : Shade(q[i]) = {s[i]} /\ Wants(q[i]) = {o, s[i]}
  BY <1>2, ClaimsAre DEF Wants
<1>4. ASSUME NEW j \in 1 .. Len(s), NEW i \in 1 .. j - 1 PROVE Wants(q[j]) \cap Shade(q[i]) = {}
  <2>1. i \in 1 .. Len(s) /\ i # j /\ Len(s) \in Nat
    OBVIOUS
  <2>2. s[i] # s[j] /\ s[i] # o
    BY <2>1, OnceIn, Elements
  <2> QED BY <1>3, <2>1, <2>2
<1> QED BY <1>1, <1>4 DEF Separate, q

LEMMA DividesStatNvme ==
  ASSUME Types, Types', Listed, Doing("stat"), Owner \in Vmd, StatNvme(Owner, Argument)
  PROVE  Divides
<1> DEFINE s == Found(Argument)
           q == Each("nvme", Owner, s)
<1>1. Head(todo) \in VmdStat /\ todo # <<>> /\ Head(todo)[1] = "stat"
  BY HeadFacts, TaskKinds, KindFacts DEF Types, Doing, AhciStat, Owner
<1>2. /\ Argument \in Seq(Disks) /\ \A x \in ToSet(Argument) : At[x] = Owner
      /\ IsInjective(Argument)
  <2>1. 1 \in 1 .. Len(todo) /\ todo[1] = Head(todo)
    BY <1>1, HeadOfTodo
  <2> QED BY <1>1, <2>1 DEF VmdStat, Owner, Argument, Listed
<1>3. s \in Seq(Disks) /\ IsInjective(s) /\ \A x \in ToSet(s) : x \in Disks /\ At[x] = Owner
  <2>1. s \in Seq(Disks) /\ ToSet(s) \subseteq ToSet(Argument)
    BY <1>2, FoundFacts
  <2> HIDE DEF s
  <2>2. IsInjective(s)
    BY <1>2, FoundOnce DEF s
  <2> QED BY <1>2, <2>1, <2>2, Elements
<1>4. Push(q)
  BY DEF StatNvme, Continue, Push
<1> HIDE DEF s
<1>5. Separate(q) /\ q \in Seq(Task) /\ Len(q) = Len(s) /\ \A i \in 1 .. Len(s) : q[i] = <<"nvme", Owner, s[i]>>
  <2>1. Owner \notin ToSet(s)
    BY <1>3, KindFacts
  <2>2. \A x \in ToSet(s) : <<"nvme", Owner, x>> \in Task
    BY <1>3, TaskSets DEF NvmeTask
  <2>3. q \in Seq(Task) /\ Len(q) = Len(s) /\ \A i \in 1 .. Len(s) : q[i] = <<"nvme", Owner, s[i]>>
    BY <1>3, <2>2, EachFacts
  <2> QED BY <1>3, <2>1, <2>3, EachApart
<1> HIDE DEF q
<1>6. Claims(Head(todo)) = Under(Owner) /\ Shade(Head(todo)) = Under(Owner)
  BY <1>1, ClaimsAre DEF Owner
<1>7. ASSUME NEW i \in 1 .. Len(q) PROVE Within(q[i], Head(todo)) /\ q[i][1] = "nvme"
  <2>1. q[i][1] = "nvme" /\ q[i][2] = Owner /\ q[i][3] = s[i] /\ s[i] \in ToSet(s)
    BY <1>3, <1>5, Elements
  <2>2. s[i] \in Devices /\ At[s[i]] = Owner
    BY <1>3, <2>1, KindFacts
  <2>3. s[i] \in Under(Owner)
    BY <2>2, UnderRule
  <2>4. Claims(q[i]) = {s[i]} /\ Shade(q[i]) = {s[i]}
    BY <2>1, ClaimsAre
  <2>5. q[i][2] \in Wants(Head(todo))
    BY <2>1 DEF Wants, Owner
  <2> QED BY <1>1, <1>6, <2>1, <2>3, <2>4, <2>5 DEF Within, Early
<1>8. Splits(q)
  BY <1>5, <1>7 DEF Splits
<1> QED BY <1>4, <1>5, <1>7, <1>8, DividesSome

LEMMA DividesNvme ==
  ASSUME Types, Types', Doing("nvme"), ReadNvmeDriver(Owner, Device)
  PROVE  Divides
<1> DEFINE disk == <<"disk", Owner, Device, Device>>
<1>1. todo # <<>> /\ Head(todo)[1] = "nvme"
  BY DEF Doing
<1>2. Push(<<>>) \/ Push(<<disk>>)
  BY DEF ReadNvmeDriver, Continue, Push
<1>3. disk[1] = "disk" /\ disk[2] = Owner /\ disk[3] = Device /\ disk[4] = Device
  OBVIOUS
<1> HIDE DEF disk
<1>4. Within(disk, Head(todo))
  BY <1>1, <1>3, ClaimsAre DEF Within, Early, Owner, Device, Wants
<1> QED BY <1>1, <1>2, <1>3, <1>4, DividesNone, DividesOne

LEMMA DividesStatTargets ==
  ASSUME Types, Types', Listed, Doing("stat"), Owner \in Ahci, StatTargets(Owner, Device, Argument)
  PROVE  Divides
<1> DEFINE c == Owner
           h == Device
           s == Found(Argument)
           each == Each("member", h, s)
           multiplier == <<"multiplier", c, h>>
           disk == <<"disk", c, s[1], h>>
<1>1. todo # <<>> /\ Head(todo) \in AhciStat /\ Head(todo)[1] = "stat"
  BY HeadFacts, TaskKinds, KindFacts DEF Types, Doing, VmdStat, Owner
<1>2. /\ s \in Seq(Disks) /\ At[h] = c /\ h \in Devices /\ (Len(s) > 1 => h \in Multipliers) /\ c \in Ahci
      /\ Len(s) > 1 => each \in Seq(Task) /\ <<multiplier>> \in Seq(Task)
  BY <1>1, TargetTasks, KindFacts DEF Owner, Device, Argument
<1>3. Argument \in Seq(Disks) /\ (\A x \in ToSet(Argument) : x = h \/ At[x] = h) /\ IsInjective(Argument)
  <2>1. 1 \in 1 .. Len(todo) /\ todo[1] = Head(todo)
    BY <1>1, HeadOfTodo
  <2> QED BY <1>1, <2>1 DEF AhciStat, Device, Argument, Listed
<1>4. \/ Push(<<>>)
      \/ Push(<<disk>>) /\ Len(s) = 1
      \/ Len(s) > 1 /\ Push(each \o <<multiplier>>)
  BY DEF StatTargets, Continue, Push
<1>5. IsInjective(s) /\ \A x \in ToSet(s) : x \in Disks /\ x \in Devices /\ (x = h \/ At[x] = h)
  <2>1. ToSet(s) \subseteq ToSet(Argument) /\ ToSet(s) \subseteq Disks
    BY <1>2, <1>3, FoundFacts, Elements
  <2>2. IsInjective(s)
    BY <1>3, FoundOnce
  <2> QED BY <1>3, <2>1, <2>2, KindFacts
<1>6. /\ disk[1] = "disk" /\ disk[2] = c /\ disk[3] = s[1] /\ disk[4] = h
      /\ multiplier[1] = "multiplier" /\ multiplier[2] = c /\ multiplier[3] = h
  OBVIOUS
<1>7. /\ Claims(Head(todo)) = Sub(h) /\ Shade(Head(todo)) = Sub(h) /\ c \in Wants(Head(todo)) /\ h \in Wants(Head(todo))
      /\ c \notin Sub(h) /\ Head(todo)[1] \in Early
  <2>1. c \notin Vmd
    BY <1>2, KindFacts
  <2>2. Head(todo)[2] = c /\ Head(todo)[3] = h
    BY DEF Owner, Device
  <2>3. Claims(Head(todo)) = Sub(h) /\ Shade(Head(todo)) = Sub(h)
    BY <1>1, <2>1, <2>2, ClaimsAre
  <2> QED BY <1>1, <1>2, <2>2, <2>3, SubUnder DEF Wants, Sub, Early
<1>8. \A x \in ToSet(s) : x \in Sub(h) /\ (x # h => x \in Under(h))
  BY <1>5, UnderRule DEF Sub
<1> HIDE DEF c, h, s, disk, multiplier
<1>9. CASE Push(<<disk>>) /\ Len(s) = 1
  <2>1. s[1] \in ToSet(s)
    BY <1>2, <1>9, Elements
  <2>2. Claims(disk) = {s[1], h} /\ Shade(disk) = {s[1], h}
    BY <1>6, ClaimsAre
  <2>3. Within(disk, Head(todo))
    BY <1>6, <1>7, <1>8, <2>1, <2>2 DEF Within, Early, Sub
  <2> QED BY <1>1, <1>6, <1>9, <2>3, DividesOne
<1>10. CASE Len(s) > 1 /\ Push(each \o <<multiplier>>)
  <2>1. h \in Multipliers /\ h \notin ToSet(s) /\ each \in Seq(Task) /\ <<multiplier>> \in Seq(Task)
    BY <1>2, <1>5, <1>10, KindFacts
  <2>2. Separate(each) /\ Len(each) = Len(s) /\ \A i \in 1 .. Len(s) : each[i] = <<"member", h, s[i]>>
    BY <1>2, <1>5, <2>1, EachApart, EachEntries
  <2> DEFINE q == each \o <<multiplier>>
  <2>3. multiplier \in Task /\ Push(q)
    <3>1. 1 \in 1 .. Len(<<multiplier>>) /\ <<multiplier>>[1] = multiplier
      OBVIOUS
    <3> QED BY <1>10, <2>1, <3>1, ElementOfSeq
  <2> HIDE DEF each
  <2>4. /\ q \in Seq(Task) /\ Len(each) \in Nat /\ Len(q) = Len(each) + 1
        /\ \A i \in 1 .. Len(each) : q[i] = each[i]
        /\ q[Len(each) + 1] = multiplier
    BY <2>1, <2>3, JoinedLast
  <2> HIDE DEF q
  <2>5. ASSUME NEW i \in 1 .. Len(each)
        PROVE  q[i] = each[i] /\ q[i][1] = "member" /\ Within(q[i], Head(todo)) /\ Shade(q[i]) = {s[i]} /\ s[i] \in Under(h)
    <3>1. q[i] = <<"member", h, s[i]>> /\ s[i] \in ToSet(s)
      BY <1>2, <2>2, <2>4, Elements
    <3>2. q[i][1] = "member" /\ q[i][2] = h /\ q[i][3] = s[i]
      BY <3>1
    <3>3. s[i] \in Under(h) /\ s[i] \in Sub(h)
      BY <1>8, <2>1, <3>1
    <3>4. Claims(q[i]) = {s[i]} /\ Shade(q[i]) = {s[i]}
      BY <3>2, ClaimsAre
    <3> QED BY <1>7, <2>4, <3>2, <3>3, <3>4 DEF Within
  <2>6. Within(multiplier, Head(todo)) /\ Wants(multiplier) = {c, h}
    <3>1. Claims(multiplier) = {h} /\ Shade(multiplier) = Sub(h)
      BY <1>6, ClaimsAre
    <3> QED BY <1>6, <1>7, <3>1 DEF Within, Sub, Early, Wants
  <2>7. ASSUME NEW i \in 1 .. Len(q) PROVE Within(q[i], Head(todo)) /\ q[i][1] \notin {"stat", "create"}
    <3>1. CASE i \in 1 .. Len(each)
      BY <2>5, <3>1
    <3>2. CASE i \notin 1 .. Len(each)
      <4>1. i = Len(each) + 1
        BY <2>4, <3>2
      <4> QED BY <1>6, <2>4, <2>6, <4>1
    <3> QED BY <3>1, <3>2
  <2>8. ASSUME NEW j \in 1 .. Len(q), NEW i \in 1 .. j - 1 PROVE Wants(q[j]) \cap Shade(q[i]) = {}
    <3>0. i \in 1 .. Len(each)
      BY <2>4
    <3>1. CASE j \in 1 .. Len(each)
      BY <2>2, <2>4, <3>0, <3>1 DEF Separate
    <3>2. CASE j \notin 1 .. Len(each)
      <4>1. j = Len(each) + 1
        BY <2>4, <3>2
      <4>2. h \notin Under(h)
        BY NotBelowItself
      <4>3. Wants(q[j]) = {c, h} /\ Shade(q[i]) = {s[i]} /\ s[i] \in Under(h)
        BY <2>4, <2>5, <2>6, <3>0, <4>1
      <4> QED BY <1>7, <4>2, <4>3 DEF Sub
    <3> QED BY <3>1, <3>2
  <2>9. Splits(q)
    BY <2>7, <2>8 DEF Splits, Separate
  <2> QED BY <2>3, <2>4, <2>7, <2>9, DividesSome
<1> QED BY <1>4, <1>9, <1>10, DividesNone

-----------------------------------------------------------------------------
(* At the start                                                             *)

LEMMA SeparateJoined ==
  ASSUME NEW X, NEW s \in Seq(X), NEW t \in Seq(X), Separate(s), Separate(t),
         \A i \in 1 .. Len(s), j \in 1 .. Len(t) : Wants(t[j]) \cap Shade(s[i]) = {}
  PROVE  Separate(s \o t)
<1> DEFINE u == s \o t
           n == Len(s)
           m == Len(t)
<1>1. /\ n \in Nat /\ m \in Nat /\ Len(u) = n + m
      /\ \A i \in 1 .. n : u[i] = s[i]
      /\ \A i \in 1 .. m : u[n + i] = t[i]
      /\ \A k \in 1 .. Len(u) : k \in 1 .. n \/ \E i \in 1 .. m : k = n + i
  BY Concatenated
<1> HIDE DEF u
<1> SUFFICES ASSUME NEW j \in 1 .. Len(u), NEW i \in 1 .. j - 1
             PROVE  Wants(u[j]) \cap Shade(u[i]) = {}
  BY DEF Separate, u
<1>2. i \in 1 .. Len(u)
  BY <1>1
<1>3. CASE j \in 1 .. n
  <2>1. i \in 1 .. n
    BY <1>1, <1>3
  <2> QED BY <1>1, <1>3, <2>1 DEF Separate, n
<1>4. ASSUME NEW b \in 1 .. m, j = n + b PROVE Wants(u[j]) \cap Shade(u[i]) = {}
  <2>1. u[j] = t[b]
    BY <1>1, <1>4
  <2>2. CASE i \in 1 .. n
    BY <1>1, <2>1, <2>2 DEF n, m
  <2>3. ASSUME NEW a \in 1 .. m, i = n + a PROVE Wants(u[j]) \cap Shade(u[i]) = {}
    <3>1. u[i] = t[a] /\ a \in 1 .. b - 1
      BY <1>1, <1>4, <2>3
    <3> QED BY <2>1, <3>1 DEF Separate, m
  <2> QED BY <1>1, <1>2, <2>2, <2>3
<1> QED BY <1>1, <1>3, <1>4

LEMMA SeparateOne ==
  ASSUME NEW t
  PROVE  Separate(<<t>>) /\ Len(<<t>>) = 1 /\ <<t>>[1] = t
<1> DEFINE q == <<t>>
<1>1. Len(q) = 1 /\ q[1] = t
  OBVIOUS
<1> HIDE DEF q
<1>2. \A j \in 1 .. 1 : 1 .. j - 1 = {}
  OBVIOUS
<1>3. Separate(q)
  BY <1>1, <1>2 DEF Separate
<1> QED BY <1>1, <1>3 DEF q

(* What the tasks of a controller are about                                 *)
Realm(c) == {c} \cup Under(c)
InRealm(q, c) == \A i \in 1 .. Len(q) : Wants(q[i]) \subseteq Realm(c) /\ Shade(q[i]) \subseteq Realm(c)

LEMMA TasksApart ==
  ASSUME NEW c \in Controllers
  PROVE  Separate(Tasks(c)) /\ InRealm(Tasks(c), c)
<1> DEFINE first == IF c \in Isci THEN << <<"list", c>> >>
                    ELSE IF c \in Vmd THEN << <<"readdir", c, c>> >> ELSE Each("readdir", c, Plugged(c))
           add == Add(c)
<1>1. Tasks(c) = first \o <<add>>
  BY DEF Tasks, Add
<1>2. c \notin Under(c) /\ c \in Realm(c) /\ Under(c) \subseteq Realm(c)
  BY NotBelowItself DEF Realm
<1>3. \E V : /\ first \in Seq(V) /\ Separate(first)
             /\ \A i \in 1 .. Len(first) :
                  Wants(first[i]) \subseteq Realm(c) /\ Shade(first[i]) \subseteq Under(c)
  <2>1. CASE c \in Isci
    <3>1. PICK t : t = <<"list", c>>
      OBVIOUS
    <3>2. first = <<t>> /\ t[1] = "list" /\ t[2] = c
      BY <2>1, <3>1
    <3> HIDE DEF first
    <3>3. Claims(t) = Under(c) /\ Shade(t) = Under(c) /\ Wants(t) = Realm(c)
      BY <3>2, ClaimsAre DEF Wants, Realm
    <3>4. first \in Seq({t}) /\ Separate(first) /\ \A i \in 1 .. Len(first) : first[i] = t
      BY <3>2, SeparateOne
    <3> QED BY <3>3, <3>4
  <2>2. CASE c \notin Isci /\ c \in Vmd
    <3>1. PICK t : t = <<"readdir", c, c>>
      OBVIOUS
    <3>2. first = <<t>> /\ t[1] = "readdir" /\ t[2] = c
      BY <2>2, <3>1
    <3> HIDE DEF first
    <3>3. Claims(t) = Under(c) /\ Shade(t) = Under(c) /\ Wants(t) = Realm(c)
      BY <2>2, <3>2, ClaimsAre DEF Wants, Realm
    <3>4. first \in Seq({t}) /\ Separate(first) /\ \A i \in 1 .. Len(first) : first[i] = t
      BY <3>2, SeparateOne
    <3> QED BY <3>3, <3>4
  <2>3. CASE c \notin Isci /\ c \notin Vmd
    <3> DEFINE p == Plugged(c)
               D == {d \in Devices : At[d] = c}
               V == {<<"readdir", c, d>> : d \in D}
    <3>1. p \in Seq(D) /\ IsInjective(p) /\ \A d \in ToSet(p) : <<"readdir", c, d>> \in V
      BY PluggedFacts, PluggedOnce
    <3>2. first = Each("readdir", c, p)
      BY <2>3
    <3> HIDE DEF p, first, V
    <3>3. first \in Seq(V) /\ Len(first) = Len(p) /\ \A i \in 1 .. Len(p) : first[i] = <<"readdir", c, p[i]>>
      <4> HIDE DEF D
      <4>1. Each("readdir", c, p) \in Seq(V)
        BY <3>1, EachFacts
      <4>2. /\ Len(Each("readdir", c, p)) = Len(p)
            /\ \A i \in 1 .. Len(p) : Each("readdir", c, p)[i] = <<"readdir", c, p[i]>>
        BY <3>1, EachEntries
      <4> QED BY <3>2, <4>1, <4>2
    <3>4. ASSUME NEW i \in 1 .. Len(p)
          PROVE  /\ p[i] \in Devices /\ At[p[i]] = c
                 /\ Shade(first[i]) = Sub(p[i]) /\ Wants(first[i]) = {c} \cup Sub(p[i])
                 /\ c \notin Sub(p[i]) /\ Sub(p[i]) \subseteq Under(c)
      <4>1. p[i] \in Devices /\ At[p[i]] = c
        BY <3>1
      <4>2. first[i][1] = "readdir" /\ first[i][2] = c /\ first[i][3] = p[i]
        BY <3>3
      <4>3. Claims(first[i]) = Sub(p[i]) /\ Shade(first[i]) = Sub(p[i])
        BY <2>3, <4>2, ClaimsAre
      <4> QED BY <4>1, <4>2, <4>3, SubUnder DEF Wants
    <3>5. ASSUME NEW j \in 1 .. Len(p), NEW i \in 1 .. j - 1 PROVE Wants(first[j]) \cap Shade(first[i]) = {}
      <4>1. i \in 1 .. Len(p) /\ i # j /\ Len(p) \in Nat
        BY <3>1
      <4>2. p[i] # p[j]
        BY <3>1, <4>1, OnceIn
      <4>3. Sub(p[i]) \cap Sub(p[j]) = {}
        BY <3>4, <4>1, <4>2, Siblings
      <4> QED BY <3>4, <4>1, <4>3
    <3>6. Separate(first)
      BY <3>3, <3>5 DEF Separate
    <3> QED BY <1>2, <3>3, <3>4, <3>6
  <2> QED BY <2>1, <2>2, <2>3
<1> HIDE DEF first
<1>4. PICK V : /\ first \in Seq(V) /\ Separate(first)
               /\ \A i \in 1 .. Len(first) :
                    Wants(first[i]) \subseteq Realm(c) /\ Shade(first[i]) \subseteq Under(c)
  BY <1>3
<1>5. add[1] = "add" /\ add[2] = c
  BY DEF Add
<1> DEFINE W == V \cup {add}
           last == <<add>>
<1>6. first \in Seq(W) /\ add \in W /\ last \in Seq(W) /\ Separate(last) /\ Len(last) = 1 /\ last[1] = add
  BY <1>4, SeqMonotonic, SeparateOne
<1>7. Wants(add) = {c} /\ Shade(add) = {c}
  BY <1>5, ClaimsAre DEF Wants
<1> HIDE DEF add, last, W
<1>8. /\ Len(first) \in Nat /\ Len(first \o last) = Len(first) + 1
      /\ \A i \in 1 .. Len(first) : (first \o last)[i] = first[i]
      /\ (first \o last)[Len(first) + 1] = add
  BY <1>6, JoinedLast DEF last
<1>9. Separate(first \o last)
  <2>1. ASSUME NEW i \in 1 .. Len(first), NEW j \in 1 .. Len(last) PROVE Wants(last[j]) \cap Shade(first[i]) = {}
    BY <1>2, <1>4, <1>6, <1>7
  <2> QED BY <1>4, <1>6, <2>1, SeparateJoined
<1>10. InRealm(first \o last, c)
  <2> SUFFICES ASSUME NEW i \in 1 .. Len(first \o last)
               PROVE  Wants((first \o last)[i]) \subseteq Realm(c) /\ Shade((first \o last)[i]) \subseteq Realm(c)
    BY DEF InRealm
  <2>1. CASE i \in 1 .. Len(first)
    BY <1>2, <1>4, <1>8, <2>1
  <2>2. CASE i \notin 1 .. Len(first)
    <3>1. i = Len(first) + 1
      BY <1>8, <2>2
    <3> QED BY <1>2, <1>7, <1>8, <3>1
  <2> QED BY <2>1, <2>2
<1> QED BY <1>1, <1>9, <1>10 DEF last

LEMMA OrderOnce ==
  LET cs == AllOf(Ahci) \o AllOf(Isci) \o AllOf(Vmd)
  IN  cs \in Seq(Controllers) /\ IsInjective(cs)
<1> DEFINE a == AllOf(Ahci)
           i == AllOf(Isci)
           v == AllOf(Vmd)
<1>1. ASSUME NEW S \in SUBSET Controllers
      PROVE  AllOf(S) \in Seq(Controllers) /\ ToSet(AllOf(S)) = S /\ IsInjective(AllOf(S))
  <2>1. Order \in Seq(Controllers \cup Devices) /\ IsInjective(Order)
    BY OrderAssumption
  <2>2. IsInjective(Among(Order, S))
    BY <2>1, AmongFacts
  <2> QED BY <2>2, AllOfFacts DEF AllOf
<1>2. /\ a \in Seq(Controllers) /\ ToSet(a) = Ahci /\ IsInjective(a)
      /\ i \in Seq(Controllers) /\ ToSet(i) = Isci /\ IsInjective(i)
      /\ v \in Seq(Controllers) /\ ToSet(v) = Vmd /\ IsInjective(v)
  BY <1>1, KindFacts
<1> HIDE DEF a, i, v
<1> DEFINE ai == a \o i
<1>3. ai \in Seq(Controllers) /\ ToSet(ai) = Ahci \cup Isci /\ IsInjective(ai)
  BY <1>2, JoinedOnce, Joined, KindFacts
<1> HIDE DEF ai
<1>4. ai \o v \in Seq(Controllers) /\ IsInjective(ai \o v)
  BY <1>2, <1>3, JoinedOnce, Joined, KindFacts
<1> QED BY <1>4 DEF ai, a, i, v

LEMMA RealmsApart ==
  ASSUME NEW c \in Controllers, NEW k \in Controllers, c # k
  PROVE  Realm(c) \cap Realm(k) = {}
BY UnderOne, SubOfController DEF Realm

LEMMA ApartInit == Init => Apart
<1> SUFFICES ASSUME Init PROVE Apart
  OBVIOUS
<1> DEFINE cs == AllOf(Ahci) \o AllOf(Isci) \o AllOf(Vmd)
           each == [i \in DOMAIN cs |-> Tasks(cs[i])]
           N == Len(cs)
<1>1. cs \in Seq(Controllers) /\ IsInjective(cs)
  BY OrderOnce
<1>2. todo = FlattenSeq(each)
  BY DEF Init, Concat
<1> HIDE DEF cs
<1>3. DOMAIN cs = 1 .. N /\ N \in Nat /\ \A i \in 1 .. N : cs[i] \in Controllers
  BY <1>1
<1>4. ASSUME NEW c \in Controllers PROVE Tasks(c) \in Seq(Task)
  BY TasksFacts, SeqMonotonic DEF StartTask
<1>5. each \in Seq(Seq(Task)) /\ Len(each) = N /\ \A i \in 1 .. N : each[i] = Tasks(cs[i])
  BY <1>3, <1>4
<1> HIDE DEF each, N
<1>6. PICK f \in [0 .. N -> Seq(Task)] :
         f[0] = <<>> /\ (\A n \in 1 .. N : f[n] = f[n - 1] \o each[n]) /\ todo = f[N]
  BY <1>2, <1>5, FlattenBuilt
<1> DEFINE Fine(q, n) ==
             /\ Separate(q)
             /\ \A k \in 1 .. Len(q) : \E i \in 1 .. n :
                  Wants(q[k]) \subseteq Realm(cs[i]) /\ Shade(q[k]) \subseteq Realm(cs[i])
           P == {n \in Nat : n <= N => Fine(f[n], n)}
<1> HIDE DEF Fine
<1>7. 0 \in P
  <2>1. f[0] = <<>> /\ 1 .. Len(<<>>) = {}
    BY <1>6
  <2> QED BY <2>1 DEF Separate, Fine
<1>8. ASSUME NEW n \in Nat, n \in P PROVE n + 1 \in P
  <2> SUFFICES ASSUME n + 1 <= N PROVE Fine(f[n + 1], n + 1)
    OBVIOUS
  <2>1. n \in 0 .. N /\ n + 1 \in 1 .. N /\ (n + 1) - 1 = n /\ n <= N
    BY <1>3
  <2> DEFINE q == f[n]
             t == Tasks(cs[n + 1])
             c == cs[n + 1]
  <2>2. q \in Seq(Task) /\ t \in Seq(Task) /\ f[n + 1] = q \o t /\ c \in Controllers
    BY <1>3, <1>4, <1>5, <1>6, <2>1
  <2>3. Fine(q, n)
    BY <1>8, <2>1
  <2>4. Separate(t) /\ InRealm(t, c)
    BY <2>2, TasksApart
  <2>5. \A i \in 1 .. n : i \in 1 .. N /\ cs[i] \in Controllers /\ Realm(c) \cap Realm(cs[i]) = {}
    <3> TAKE i \in 1 .. n
    <3>1. i \in 1 .. N /\ i # n + 1
      BY <1>3, <2>1
    <3>2. cs[i] # cs[n + 1] /\ cs[i] \in Controllers
      BY <1>1, <1>3, <2>1, <3>1, OnceIn DEF N
    <3> QED BY <2>2, <3>1, <3>2, RealmsApart
  <2> HIDE DEF q, t, c
  <2>6. Separate(q \o t)
    <3>1. ASSUME NEW i \in 1 .. Len(q), NEW j \in 1 .. Len(t) PROVE Wants(t[j]) \cap Shade(q[i]) = {}
      <4>1. PICK a \in 1 .. n : Shade(q[i]) \subseteq Realm(cs[a])
        BY <2>3 DEF Fine
      <4>2. Wants(t[j]) \subseteq Realm(c)
        BY <2>4 DEF InRealm
      <4> QED BY <2>5, <4>1, <4>2
    <3> QED BY <2>2, <2>3, <2>4, <3>1, SeparateJoined DEF Fine
  <2>7. ASSUME NEW k \in 1 .. Len(q \o t)
        PROVE  \E i \in 1 .. n + 1 :
                 Wants((q \o t)[k]) \subseteq Realm(cs[i]) /\ Shade((q \o t)[k]) \subseteq Realm(cs[i])
    <3>1. /\ \A i \in 1 .. Len(q) : (q \o t)[i] = q[i]
          /\ \A i \in 1 .. Len(t) : (q \o t)[Len(q) + i] = t[i]
          /\ k \in 1 .. Len(q) \/ \E i \in 1 .. Len(t) : k = Len(q) + i
      BY <2>2, Concatenated
    <3>2. CASE k \in 1 .. Len(q)
      <4>1. PICK i \in 1 .. n : Wants(q[k]) \subseteq Realm(cs[i]) /\ Shade(q[k]) \subseteq Realm(cs[i])
        BY <2>3, <3>2 DEF Fine
      <4>2. i \in 1 .. n + 1
        OBVIOUS
      <4> QED BY <3>1, <3>2, <4>1, <4>2
    <3>3. ASSUME NEW i \in 1 .. Len(t), k = Len(q) + i
          PROVE  Wants((q \o t)[k]) \subseteq Realm(c) /\ Shade((q \o t)[k]) \subseteq Realm(c)
      BY <2>4, <3>1, <3>3 DEF InRealm
    <3>4. n + 1 \in 1 .. n + 1
      OBVIOUS
    <3> QED BY <3>1, <3>2, <3>3, <3>4 DEF c
  <2> QED BY <2>2, <2>6, <2>7 DEF Fine
<1>9. N \in P
  <2> HIDE DEF P
  <2>1. Nat \subseteq P
    BY <1>7, <1>8, Counting
  <2> QED BY <1>3, <2>1
<1> QED BY <1>3, <1>6, <1>9 DEF Apart, Fine

-----------------------------------------------------------------------------
(* ... and after every step                                                 *)
Divided == Apart /\ Creates /\ Listed /\ PortsOnce

(* What a step does of the ports of the hosts                               *)
PortsStep ==
  \/ \A h \in Hosts : ports'[h] = ports[h]
  \/ \E o \in Hosts : \E x \in OwnPort(o) :
       x \notin ToSet(ports[o]) /\ ports' = [ports EXCEPT ![o] = Append(@, x)]

LEMMA PortsStayOnce ==
  ASSUME Types, PortsOnce, PortsStep
  PROVE  PortsOnce'
<1>1. CASE \A h \in Hosts : ports'[h] = ports[h]
  BY <1>1 DEF PortsOnce
<1>2. ASSUME NEW o \in Hosts, NEW x \in OwnPort(o), x \notin ToSet(ports[o]),
             ports' = [ports EXCEPT ![o] = Append(@, x)]
      PROVE  PortsOnce'
  <2>1. \A h \in Hosts : ports'[h] = IF h = o THEN Append(ports[o], x) ELSE ports[h]
    BY <1>2, KindFacts DEF Types, WiringType
  <2>2. ports[o] \in Seq(OwnPort(o)) /\ IsInjective(ports[o])
    BY DEF Types, WiringType, PortsOnce
  <2>3. IsInjective(Append(ports[o], x))
    BY <1>2, <2>2, AppendedOnce
  <2> QED BY <2>1, <2>3 DEF PortsOnce
<1> QED BY <1>1, <1>2 DEF PortsStep

LEMMA PortsStepPhy ==
  ASSUME Types, Doing("phy"), ReadPhy(Owner, Device, Argument)
  PROVE  PortsStep
<1>1. Head(todo) \in PhyTask
  BY HeadFacts, TaskKinds DEF Types, Doing
<1>2. Owner \in Hosts /\ Port(Owner, Device) \in OwnPort(Owner)
  BY <1>1, PhyTaskFacts DEF Owner, Device
<1>3. \/ ports' = ports
      \/ ~KnownPort(Owner, Device) /\ ports' = [ports EXCEPT ![Owner] = Append(@, Port(Owner, Device))]
  BY DEF ReadPhy
<1>4. ~KnownPort(Owner, Device) => Port(Owner, Device) \notin ToSet(ports[Owner])
  BY DEF KnownPort
<1> QED BY <1>2, <1>3, <1>4 DEF PortsStep

LEMMA PortsStepCreate ==
  ASSUME Types, Creates, Doing("create"), CreatePort(Owner, Device, Argument)
  PROVE  PortsStep
<1>1. Head(todo) \in PhyTask /\ todo # <<>> /\ Head(todo)[1] = "create"
  BY HeadFacts, TaskKinds DEF Types, Doing
<1>2. /\ Owner \in Hosts /\ Device \in Devices /\ Port(Owner, Device) \in OwnPort(Owner)
      /\ Head(todo)[2] = Owner /\ Head(todo)[3] = Device
  BY <1>1, PhyTaskFacts DEF Owner, Device
<1>3. ports' = ports \/ ports' = [ports EXCEPT ![Owner] = Append(@, Port(Owner, Device))]
  BY DEF CreatePort
<1>4. Unknown(Head(todo))
  BY <1>1, HeadOfTodo DEF Creates
<1>5. Port(Owner, Device) \notin ToSet(ports[Owner])
  BY <1>2, <1>4 DEF Unknown, KnownPort
<1> QED BY <1>2, <1>3, <1>5 DEF PortsStep

LEMMA PortsStepElse ==
  ASSUME Types, NEW o \in Owners \ Hosts, NEW x, ports' = ports \/ ports' = [ports EXCEPT ![o] = Append(@, x)]
  PROVE  PortsStep
BY PortsElsewhere DEF PortsStep

LEMMA DividedSame ==
  ASSUME Divided, UNCHANGED <<todo, ports, subtractive>>
  PROVE  Divided' /\ Settles
<1>1. Apart' /\ Settles
  BY ApartStays DEF Divided
<1>2. Creates' /\ Listed' /\ PortsOnce'
  BY DEF Divided, Creates, Unknown, KnownPort, Listed, PortsOnce
<1> QED BY <1>1, <1>2 DEF Divided

LEMMA DividedStops ==
  ASSUME Types, Divided, NEW how, Stop(how)
  PROVE  Divided' /\ Settles
<1>1. todo' = <<>> /\ Len(<<>>) = 0 /\ 1 .. 0 = {} /\ ports' = ports
  BY DEF Stop, wiring
<1>2. 1 .. Len(todo') = {}
  BY <1>1
<1>3. Creates' /\ Listed' /\ PortsOnce'
  BY <1>1, <1>2 DEF Divided, Creates, Listed, PortsOnce
<1> QED BY <1>3, ApartStopped DEF Divided

LEMMA DividedBy ==
  ASSUME Types, Divided, todo # <<>>, Divides, PortsStep
  PROVE  Divided' /\ Settles
BY DividesMeans, PortsStayOnce DEF Divided

LEMMA PushNone ==
  ASSUME Continue(<<>>)
  PROVE  Push(<<>>) /\ Divides
BY DividesNone DEF Continue, Push

LEMMA DividedNext ==
  ASSUME Types, Types', Seen, Up, Divided, [Next]_vars
  PROVE  Divided' /\ Settles
<1>0. (\A h \in Hosts : ports'[h] = ports[h]) => PortsStep
  BY DEF PortsStep
<1>1. CASE UNCHANGED vars \/ Opened \/ \E d \in Devices : Change(d)
  BY <1>1, DividedSame DEF vars, Opened, Change, wiring
<1>2. CASE Doing("list") /\ ListPhys(Owner)
  BY <1>0, <1>2, DividesList, DividedBy DEF Doing, ListPhys
<1>3. CASE Doing("phy") /\ ReadPhy(Owner, Device, Argument)
  BY <1>3, DividesPhy, PortsStepPhy, DividedBy DEF Doing
<1>4. CASE Doing("create") /\ CreatePort(Owner, Device, Argument)
  <2>1. Divides
    BY <1>4, PushNone DEF CreatePort
  <2> QED BY <1>4, <2>1, PortsStepCreate, DividedBy DEF Doing, Divided
<1>5. CASE Doing("ports") /\ ListPorts(Owner)
  BY <1>0, <1>5, DividesPorts, DividedBy DEF Doing, ListPorts, wiring, Divided
<1>6. CASE Doing("port") /\ DiscoverPort(Owner, Device)
  <2>1. CASE Present(Device)
    BY <1>0, <1>6, <2>1, DividesPort, DividedBy DEF Doing, DiscoverPort, wiring
  <2>2. CASE ~Present(Device)
    BY <1>6, <2>2, DividedStops DEF DiscoverPort
  <2> QED BY <2>1, <2>2
<1>7. CASE Doing("attach") /\ AttachExpander(Owner, Device)
  <2>1. CASE Device \in subtractive
    <3>1. Divides /\ ports' = ports
      BY <1>7, <2>1, PushNone DEF AttachExpander
    <3> QED BY <1>0, <1>7, <3>1, DividedBy DEF Doing
  <2>2. CASE Device \notin subtractive
    BY <1>7, <2>2, DividedStops DEF AttachExpander
  <2> QED BY <2>1, <2>2
<1>8. CASE Doing("end") /\ OpenEndDevice(Owner, Device)
  <2>1. Divides /\ ports' = ports
    BY <1>8, PushNone DEF OpenEndDevice
  <2> QED BY <1>0, <1>8, <2>1, DividedBy DEF Doing
<1>9. CASE Doing("readdir") /\ ReadDir(Owner, Device)
  BY <1>0, <1>9, DividesReadDir, DividedBy DEF Doing, ReadDir, wiring
<1>10. CASE Doing("stat") /\ Owner \in Vmd /\ StatNvme(Owner, Argument)
  BY <1>0, <1>10, DividesStatNvme, DividedBy DEF Doing, StatNvme, wiring, Divided
<1>11. CASE Doing("stat") /\ Owner \in Ahci /\ StatTargets(Owner, Device, Argument)
  BY <1>0, <1>11, DividesStatTargets, DividedBy DEF Doing, StatTargets, Divided
<1>12. CASE Doing("nvme") /\ ReadNvmeDriver(Owner, Device)
  BY <1>0, <1>12, DividesNvme, DividedBy DEF Doing, ReadNvmeDriver
<1>13. CASE Doing("disk") /\ AttachSingle(Owner, Device, Argument)
  <2>1. Divides /\ ports' = [ports EXCEPT ![Owner] = Append(@, Port(Owner, Argument))]
    BY <1>13, PushNone DEF AttachSingle
  <2>2. Owner \in Owners \ Hosts
    BY <1>13, HeadFacts, TaskKinds, KindFacts DEF Types, Doing, DiskTask, Owner, Hosts
  <2>3. PortsStep
    BY <2>1, <2>2, PortsStepElse
  <2> QED BY <1>13, <2>1, <2>3, DividedBy DEF Doing
<1>14. CASE Doing("member") /\ AttachMember(Owner, Device)
  <2>1. Divides /\ (ports' = ports \/ ports' = [ports EXCEPT ![Owner] = Append(@, Port(Owner, Device))])
    BY <1>14, PushNone DEF AttachMember
  <2>2. Owner \in Owners \ Hosts
    BY <1>14, HeadFacts, TaskKinds, KindFacts DEF Types, Doing, MemberTask, Owner, Hosts
  <2>3. PortsStep
    BY <2>1, <2>2, PortsStepElse
  <2> QED BY <1>14, <2>1, <2>3, DividedBy DEF Doing
<1>15. CASE Doing("multiplier") /\ AttachMultiplier(Owner, Device)
  <2>1. Divides /\ ports' = [ports EXCEPT ![Owner] = Append(@, Port(Owner, Device))]
    BY <1>15, PushNone DEF AttachMultiplier
  <2>2. Owner \in Owners \ Hosts
    BY <1>15, HeadFacts, TaskKinds, KindFacts DEF Types, Doing, MultiplierTask, Owner, Hosts
  <2>3. PortsStep
    BY <2>1, <2>2, PortsStepElse
  <2> QED BY <1>15, <2>1, <2>3, DividedBy DEF Doing
<1>16. CASE Doing("add") /\ AddToSession(Owner)
  <2>1. Push(<<>>) /\ ports' = ports
    BY <1>16, AddsPush DEF Adds, AddToSession, wiring
  <2> QED BY <1>0, <1>16, <2>1, DividesNone, DividedBy DEF Doing
<1> QED
  BY <1>1, <1>2, <1>3, <1>4, <1>5, <1>6, <1>7, <1>8, <1>9, <1>10, <1>11, <1>12, <1>13, <1>14, <1>15,
     <1>16 DEF Next

LEMMA DividedInit == Init => Divided
<1> SUFFICES ASSUME Init PROVE Divided
  OBVIOUS
<1>1. todo \in Seq(StartTask)
  BY TodoInit
<1>2. \A i \in 1 .. Len(todo) : todo[i][1] \notin {"create", "stat"}
  BY <1>1 DEF StartTask
<1>3. Creates /\ Listed
  BY <1>2 DEF Creates, Listed
<1>4. PortsOnce
  BY OnceNone, KindFacts DEF Init, PortsOnce
<1> QED BY <1>3, <1>4, ApartInit DEF Divided

-----------------------------------------------------------------------------
(* The lists of the scopes                                                  *)

LEMMA JoinedParts ==
  ASSUME NEW X, NEW s \in Seq(X), NEW t \in Seq(X)
  PROVE  IsInjective(s \o t) <=> IsInjective(s) /\ IsInjective(t) /\ ToSet(s) \cap ToSet(t) = {}
<1>1. ASSUME IsInjective(s), IsInjective(t), ToSet(s) \cap ToSet(t) = {} PROVE IsInjective(s \o t)
  BY <1>1, JoinedOnce
<1>2. ASSUME IsInjective(s \o t) PROVE IsInjective(s) /\ IsInjective(t) /\ ToSet(s) \cap ToSet(t) = {}
  <2> DEFINE u == s \o t
             n == Len(s)
             m == Len(t)
  <2>1. /\ n \in Nat /\ m \in Nat /\ Len(u) = n + m
        /\ \A i \in 1 .. n : i \in 1 .. Len(u) /\ u[i] = s[i]
        /\ \A i \in 1 .. m : n + i \in 1 .. Len(u) /\ u[n + i] = t[i]
    BY Concatenated
  <2>0. u \in Seq(X) /\ IsInjective(u)
    BY <1>2
  <2> HIDE DEF u
  <2>2. \A i, j \in 1 .. Len(u) : u[i] = u[j] => i = j
    BY <2>0, OnceIn
  <2>3. \A i, j \in 1 .. n : s[i] = s[j] => i = j
    BY <2>1, <2>2
  <2>4. \A i, j \in 1 .. m : t[i] = t[j] => i = j
    <3> TAKE i, j \in 1 .. m
    <3> HAVE t[i] = t[j]
    <3>1. u[n + i] = u[n + j] /\ n + i \in 1 .. Len(u) /\ n + j \in 1 .. Len(u)
      BY <2>1
    <3>2. n + i = n + j
      BY <2>2, <3>1
    <3> QED BY <2>1, <3>2
  <2>5. ToSet(s) \cap ToSet(t) = {}
    <3> SUFFICES ASSUME NEW x, x \in ToSet(s), x \in ToSet(t) PROVE FALSE
      OBVIOUS
    <3>1. PICK i \in 1 .. n : s[i] = x
      BY Elements
    <3>2. PICK j \in 1 .. m : t[j] = x
      BY Elements
    <3>3. u[i] = u[n + j] /\ i \in 1 .. Len(u) /\ n + j \in 1 .. Len(u)
      BY <2>1, <3>1, <3>2
    <3>4. i = n + j
      BY <2>2, <3>3
    <3> QED BY <2>1, <3>4
  <2> QED BY <2>3, <2>4, <2>5, OnceIn
<1> QED BY <1>1, <1>2

LEMMA EndsUnder ==
  ASSUME Types, Up, NEW o \in Owners, NEW d \in ToSet(scope[o].ends)
  PROVE  /\ d \in Disks /\ d \in Devices /\ d \in Under(o)
         /\ At[d] = o \/ (o \in Controllers /\ At[d] \in Multipliers /\ At[At[d]] = o)
<1>1. d \in Disks /\ d \in Devices /\ o # None
  BY ScopeFacts, KindFacts DEF Types
<1>2. CASE o \in Multipliers
  <2>1. At[d] = o
    BY <1>2 DEF Up, EndsUp, EndUp
  <2> QED BY <1>1, <2>1, UnderRule
<1>3. CASE o \notin Multipliers
  <2>1. parent[d] = o
    BY <1>3 DEF Up, EndsUp, EndUp
  <2>2. Above(d) = o
    BY <1>1, <2>1 DEF Up, ParentsUp
  <2>3. CASE At[d] \notin Multipliers
    BY <1>1, <2>2, <2>3, UnderRule DEF Above
  <2>4. CASE At[d] \in Multipliers
    <3>1. At[At[d]] = o /\ At[d] \in Devices /\ o \in Ahci
      BY <2>2, <2>4, CablingAssumption, KindFacts DEF Above
    <3>2. At[d] \in Under(o)
      BY <3>1, UnderRule
    <3> QED BY <1>1, <2>4, <3>1, <3>2, UnderRule, KindFacts
  <2> QED BY <2>3, <2>4
<1> QED BY <1>2, <1>3

LEMMA BelowUnder ==
  ASSUME Types, Up, NEW o \in Owners
  PROVE  Below(o) \subseteq Under(o)
<1> DEFINE S == Below(o) \ Under(o)
<1> SUFFICES ASSUME S # {} PROVE FALSE
  OBVIOUS
<1>1. S \in SUBSET Devices
  BY ScopeFacts, KindFacts DEF Types
<1>2. PICK r \in S : At[r] \notin S
  BY <1>1, TreeAssumption
<1>3. r \in Devices /\ r \in Below(o) /\ r \notin Under(o)
  BY <1>1, <1>2
<1>4. At[r] = o \/ At[r] \in Below(o)
  BY <1>3 DEF Up, RoutersUp, Below
<1> QED BY <1>2, <1>3, <1>4, UnderRule

LEMMA AllUnder ==
  ASSUME Types, Up, NEW o \in Owners
  PROVE  /\ ToSet(scope[o].ends) \subseteq Under(o) /\ ToSet(scope[o].allEnds) \subseteq Under(o)
         /\ ToSet(scope[o].routers) \subseteq Under(o) /\ ToSet(scope[o].allRouters) \subseteq Under(o)
         /\ \A r \in ToSet(scope[o].routers) : r \in Routers /\ r \in Devices /\ r \in Owners /\ At[r] = o
<1>1. ToSet(scope[o].ends) \subseteq Under(o)
  BY EndsUnder
<1>2. Below(o) \subseteq Under(o) /\ Below(o) \subseteq Routers /\ Routers \subseteq Owners /\ Routers \subseteq Devices
  BY BelowUnder, ScopeFacts, KindFacts DEF Types
<1>3. ASSUME NEW d \in ToSet(scope[o].allEnds) PROVE d \in Under(o)
  <2>1. PICK r \in Below(o) : d \in ToSet(scope[r].ends)
    BY DEF Up, RoutersUp
  <2>2. d \in Under(r)
    BY <1>2, <2>1, EndsUnder
  <2> QED BY <1>2, <2>1, <2>2, UnderDeep
<1>4. \A r \in ToSet(scope[o].routers) : At[r] = o
  BY DEF Up, RoutersUp
<1> QED BY <1>1, <1>2, <1>3, <1>4 DEF Below

Claimed(x) == \E i \in 1 .. Len(todo) : x \in Claims(todo[i])
Avoided(S) == \A i \in 1 .. Len(todo) : Wants(todo[i]) \cap S = {}

(* What is left to do is not below a routing device that is attached.       *)
Quiet == \A o \in Owners : \A r \in ToSet(scope[o].routers) : Avoided(Sub(r))

(* A disk is attached once; one behind a multiplier is attached to its      *)
(* controller only if the multiplier is not.                                *)
Leaves ==
  \A o \in Owners : \A d \in ToSet(scope[o].ends) :
    ~Claimed(d) /\ (o \in Controllers /\ At[d] \in Multipliers => ~Claimed(At[d]))
Routed == \A o \in Owners : \A r \in ToSet(scope[o].routers) : ToSet(scope[o].ends) \cap Under(r) = {}

(* The lists of a scope have what those of its routing devices have.        *)
Copied ==
  \A o \in Owners :
    /\ ToSet(scope[o].allEnds) =
         UNION {ToSet(scope[r].ends) \cup ToSet(scope[r].allEnds) : r \in ToSet(scope[o].routers)}
    /\ ToSet(scope[o].allRouters) =
         UNION {ToSet(scope[r].routers) \cup ToSet(scope[r].allRouters) : r \in ToSet(scope[o].routers)}
AllOnce ==
  \A o \in Owners :
    IsInjective(scope[o].ends \o scope[o].allEnds) /\ IsInjective(scope[o].routers \o scope[o].allRouters)
Scoped == Quiet /\ Leaves /\ Routed /\ Copied /\ AllOnce

LEMMA SettlesMeans ==
  ASSUME Settles
  PROVE  /\ \A x : Claimed(x)' => Claimed(x)
         /\ \A S : Avoided(S) => Avoided(S)'
<1>1. ASSUME NEW x, Claimed(x)' PROVE Claimed(x)
  BY <1>1 DEF Claimed, Settles
<1>2. ASSUME NEW S, Avoided(S) PROVE Avoided(S)'
  <2> SUFFICES ASSUME NEW k \in 1 .. Len(todo') PROVE Wants(todo'[k]) \cap S = {}
    BY DEF Avoided
  <2>1. PICK i \in 1 .. Len(todo) : Wants(todo'[k]) \subseteq Wants(todo[i])
    BY DEF Settles
  <2> QED BY <1>2, <2>1 DEF Avoided
<1> QED BY <1>1, <1>2

LEMMA ScopedSame ==
  ASSUME Scoped, Settles, scope' = scope
  PROVE  Scoped'
<1>1. Quiet'
  <2> SUFFICES ASSUME NEW o \in Owners, NEW r \in ToSet(scope[o].routers) PROVE Avoided(Sub(r))'
    BY DEF Quiet
  <2>1. Avoided(Sub(r))
    BY DEF Scoped, Quiet
  <2> QED BY <2>1, SettlesMeans
<1>2. Leaves'
  BY SettlesMeans DEF Scoped, Leaves
<1>3. Routed' /\ Copied' /\ AllOnce'
  BY DEF Scoped, Routed, Copied, AllOnce
<1> QED BY <1>1, <1>2, <1>3 DEF Scoped

LEMMA FourOnce ==
  ASSUME NEW X, NEW e \in Seq(X), NEW a \in Seq(X), NEW b \in Seq(X), NEW c \in Seq(X),
         IsInjective(e \o a), IsInjective(b \o c),
         (ToSet(e) \cup ToSet(a)) \cap (ToSet(b) \cup ToSet(c)) = {}
  PROVE  IsInjective(e \o (a \o b \o c))
<1>1. /\ IsInjective(e) /\ IsInjective(a) /\ ToSet(e) \cap ToSet(a) = {}
      /\ IsInjective(b) /\ IsInjective(c) /\ ToSet(b) \cap ToSet(c) = {}
  BY JoinedParts
<1> DEFINE ab == a \o b
           abc == ab \o c
<1>2. ab \in Seq(X) /\ ToSet(ab) = ToSet(a) \cup ToSet(b) /\ IsInjective(ab)
  BY <1>1, Joined, JoinedOnce
<1> HIDE DEF ab
<1>3. abc \in Seq(X) /\ ToSet(abc) = ToSet(ab) \cup ToSet(c) /\ IsInjective(abc)
  BY <1>1, <1>2, Joined, JoinedOnce
<1> HIDE DEF abc
<1>4. IsInjective(e \o abc)
  BY <1>1, <1>2, <1>3, JoinedOnce
<1> QED BY <1>4 DEF ab, abc

LEMMA EndScoped ==
  ASSUME Types, Up, Scoped, Settles, todo # <<>>, NEW o \in Owners, NEW d \in Disks, AttachEndDevice(o, d),
         o \in Wants(Head(todo)), d \in Claims(Head(todo)), ~Claimed(d)',
         o \in Controllers /\ At[d] \in Multipliers => ~Claimed(At[d])'
  PROVE  Scoped'
<1>1. /\ scope' = [scope EXCEPT ![o].ends = Append(@, d)]
      /\ scope'[o].ends = Append(scope[o].ends, d)
      /\ \A x \in Owners : /\ scope'[x].allEnds = scope[x].allEnds /\ scope'[x].routers = scope[x].routers
                           /\ scope'[x].allRouters = scope[x].allRouters
                           /\ x # o => scope'[x].ends = scope[x].ends
  <2>1. scope \in [Owners -> Scopes]
    BY DEF Types, TreeType
  <2> QED BY <2>1 DEF AttachEndDevice, Scopes
<1>2. Claimed(d) /\ d \in Wants(Head(todo)) /\ 1 \in 1 .. Len(todo) /\ todo[1] = Head(todo)
  BY HeadOfTodo DEF Claimed, Wants
<1>3. \A x \in Owners : d \notin ToSet(scope[x].ends)
  BY <1>2 DEF Scoped, Leaves
<1>4. \A x \in Owners : d \notin ToSet(scope[x].allEnds)
  <2>1. \A x \in Owners : Below(x) \subseteq Owners
    BY ScopeFacts, KindFacts DEF Types
  <2> QED BY <1>3, <2>1 DEF Up, RoutersUp
<1>5. \A x \in Owners : \A r \in ToSet(scope[x].routers) : d \notin Sub(r) /\ o \notin Sub(r) /\ r # o
  <2>1. \A x \in Owners : \A r \in ToSet(scope[x].routers) : Wants(Head(todo)) \cap Sub(r) = {}
    BY <1>2 DEF Scoped, Quiet, Avoided
  <2> QED BY <1>2, <2>1 DEF Sub
<1>6. scope[o].ends \in Seq(Disks) /\ scope[o].allEnds \in Seq(Disks) /\ ToSet(scope'[o].ends) = ToSet(scope[o].ends) \cup {d}
      /\ scope'[o].ends \in Seq(Disks)
  BY <1>1, ScopeFacts, Appended DEF Types
<1>7. Quiet'
  <2> SUFFICES ASSUME NEW x \in Owners, NEW r \in ToSet(scope[x].routers) PROVE Avoided(Sub(r))'
    BY <1>1 DEF Quiet
  <2> QED BY SettlesMeans DEF Scoped, Quiet
<1>8. Leaves'
  <2> SUFFICES ASSUME NEW x \in Owners, NEW y \in ToSet(scope'[x].ends)
               PROVE  ~Claimed(y)' /\ (x \in Controllers /\ At[y] \in Multipliers => ~Claimed(At[y])')
    BY DEF Leaves
  <2>1. y \in ToSet(scope[x].ends) \/ (x = o /\ y = d)
    BY <1>1, <1>6
  <2>2. CASE y \in ToSet(scope[x].ends)
    BY <2>2, SettlesMeans DEF Scoped, Leaves
  <2> QED BY <2>1, <2>2
<1>9. Routed'
  <2> SUFFICES ASSUME NEW x \in Owners, NEW r \in ToSet(scope[x].routers) PROVE ToSet(scope'[x].ends) \cap Under(r) = {}
    BY <1>1 DEF Routed
  <2>1. ToSet(scope[x].ends) \cap Under(r) = {} /\ d \notin Under(r)
    BY <1>5 DEF Scoped, Routed, Sub
  <2> QED BY <1>1, <1>6, <2>1
<1>10. Copied'
  <2>1. \A x \in Owners : \A r \in ToSet(scope[x].routers) : r \in Owners /\ scope'[r].ends = scope[r].ends
    BY <1>1, <1>5, AllUnder
  <2> SUFFICES ASSUME NEW x \in Owners
               PROVE  /\ ToSet(scope'[x].allEnds) =
                           UNION {ToSet(scope'[y].ends) \cup ToSet(scope'[y].allEnds) : y \in ToSet(scope'[x].routers)}
                      /\ ToSet(scope'[x].allRouters) =
                           UNION {ToSet(scope'[y].routers) \cup ToSet(scope'[y].allRouters) : y \in ToSet(scope'[x].routers)}
    BY DEF Copied
  <2>2. \A y \in ToSet(scope[x].routers) :
          /\ scope'[y].ends = scope[y].ends /\ scope'[y].allEnds = scope[y].allEnds
          /\ scope'[y].routers = scope[y].routers /\ scope'[y].allRouters = scope[y].allRouters
    BY <1>1, <2>1
  <2>3. /\ ToSet(scope[x].allEnds) =
             UNION {ToSet(scope[y].ends) \cup ToSet(scope[y].allEnds) : y \in ToSet(scope[x].routers)}
        /\ ToSet(scope[x].allRouters) =
             UNION {ToSet(scope[y].routers) \cup ToSet(scope[y].allRouters) : y \in ToSet(scope[x].routers)}
    BY DEF Scoped, Copied
  <2>4. /\ scope'[x].allEnds = scope[x].allEnds /\ scope'[x].routers = scope[x].routers
        /\ scope'[x].allRouters = scope[x].allRouters
    BY <1>1
  <2>5. ToSet(scope'[x].allEnds) =
          UNION {ToSet(scope'[y].ends) \cup ToSet(scope'[y].allEnds) : y \in ToSet(scope'[x].routers)}
    BY <2>2, <2>3, <2>4
  <2>6. ToSet(scope'[x].allRouters) =
          UNION {ToSet(scope'[y].routers) \cup ToSet(scope'[y].allRouters) : y \in ToSet(scope'[x].routers)}
    BY <2>2, <2>3, <2>4
  <2> QED BY <2>5, <2>6
<1>11. AllOnce'
  <2>1. ASSUME NEW x \in Owners PROVE IsInjective(scope'[x].ends \o scope'[x].allEnds)
    <3>1. CASE x # o
      BY <1>1, <3>1 DEF Scoped, AllOnce
    <3>2. CASE x = o
      <4>1. IsInjective(scope[o].ends \o scope[o].allEnds)
        BY DEF Scoped, AllOnce
      <4>2. IsInjective(scope[o].ends) /\ IsInjective(scope[o].allEnds) /\ ToSet(scope[o].ends) \cap ToSet(scope[o].allEnds) = {}
        BY <1>6, <4>1, JoinedParts
      <4>3. IsInjective(scope'[o].ends)
        BY <1>1, <1>3, <1>6, <4>2, AppendedOnce
      <4>4. ToSet(scope'[o].ends) \cap ToSet(scope[o].allEnds) = {}
        BY <1>4, <1>6, <4>2
      <4>5. IsInjective(scope'[o].ends \o scope[o].allEnds)
        BY <1>6, <4>2, <4>3, <4>4, JoinedOnce
      <4> QED BY <1>1, <3>2, <4>5
    <3> QED BY <3>1, <3>2
  <2> QED BY <1>1, <2>1 DEF Scoped, AllOnce
<1> QED BY <1>7, <1>8, <1>9, <1>10, <1>11 DEF Scoped

LEMMA RouterScoped ==
  ASSUME Types, Up, Scoped, Settles, todo # <<>>, NEW o \in Owners, NEW r \in Routers, At[r] = o,
         AttachRoutingDevice(o, r), o \in Wants(Head(todo)), r \in Claims(Head(todo)), Avoided(Sub(r))'
  PROVE  Scoped'
<1>0. r \in Devices /\ r \in Owners /\ o \notin Sub(r) /\ r \notin Under(r) /\ r # o
  BY KindFacts, AboveItself, NotBelowItself DEF Sub
<1>1. /\ scope'[o].ends = scope[o].ends
      /\ scope'[o].routers = Append(scope[o].routers, r)
      /\ scope'[o].allEnds = scope[o].allEnds \o scope[r].ends \o scope[r].allEnds
      /\ scope'[o].allRouters = scope[o].allRouters \o scope[r].routers \o scope[r].allRouters
      /\ \A x \in Owners \ {o} : scope'[x] = scope[x]
  BY RouterAdded DEF Types
<1>2. Claimed(r) /\ r \in Wants(Head(todo)) /\ 1 \in 1 .. Len(todo) /\ todo[1] = Head(todo)
  BY HeadOfTodo DEF Claimed, Wants
<1>3. \A x \in Owners : \A y \in ToSet(scope[x].routers) : r \notin Sub(y) /\ o \notin Sub(y) /\ y # o /\ y # r
  <2>1. \A x \in Owners : \A y \in ToSet(scope[x].routers) : Wants(Head(todo)) \cap Sub(y) = {}
    BY <1>2 DEF Scoped, Quiet, Avoided
  <2> QED BY <1>2, <2>1 DEF Sub
<1>4. /\ \A x \in Owners : ToSet(scope[x].ends) \subseteq Under(x) /\ ToSet(scope[x].allEnds) \subseteq Under(x)
      /\ \A x \in Owners : ToSet(scope[x].routers) \subseteq Under(x) /\ ToSet(scope[x].allRouters) \subseteq Under(x)
      /\ \A x \in Owners : \A y \in ToSet(scope[x].routers) : y \in Routers /\ y \in Devices /\ y \in Owners /\ At[y] = x
  BY AllUnder
<1>5. /\ scope[o].ends \in Seq(Disks) /\ scope[o].allEnds \in Seq(Disks)
      /\ scope[r].ends \in Seq(Disks) /\ scope[r].allEnds \in Seq(Disks)
      /\ scope[o].routers \in Seq(Routers) /\ scope[o].allRouters \in Seq(Routers)
      /\ scope[r].routers \in Seq(Routers) /\ scope[r].allRouters \in Seq(Routers)
  BY <1>0, ScopeFacts DEF Types
<1>6. /\ ToSet(scope'[o].routers) = ToSet(scope[o].routers) \cup {r} /\ scope'[o].routers \in Seq(Routers)
      /\ ToSet(scope'[o].allEnds) = ToSet(scope[o].allEnds) \cup ToSet(scope[r].ends) \cup ToSet(scope[r].allEnds)
      /\ ToSet(scope'[o].allRouters) = ToSet(scope[o].allRouters) \cup ToSet(scope[r].routers) \cup ToSet(scope[r].allRouters)
  <2>1. ToSet(scope'[o].routers) = ToSet(scope[o].routers) \cup {r} /\ scope'[o].routers \in Seq(Routers)
    BY <1>1, <1>5, Appended
  <2>2. ToSet(scope[o].allEnds \o scope[r].ends \o scope[r].allEnds)
          = ToSet(scope[o].allEnds) \cup ToSet(scope[r].ends) \cup ToSet(scope[r].allEnds)
    BY <1>5, ThreeJoined
  <2>3. ToSet(scope[o].allRouters \o scope[r].routers \o scope[r].allRouters)
          = ToSet(scope[o].allRouters) \cup ToSet(scope[r].routers) \cup ToSet(scope[r].allRouters)
    BY <1>5, ThreeJoined
  <2> QED BY <1>1, <2>1, <2>2, <2>3
<1>7. ToSet(scope[o].ends) \cap Under(r) = {}
  <2> SUFFICES ASSUME NEW d \in ToSet(scope[o].ends), d \in Under(r) PROVE FALSE
    OBVIOUS
  <2>1. d \in Devices /\ (At[d] = o \/ (o \in Controllers /\ At[d] \in Multipliers /\ At[At[d]] = o))
    BY EndsUnder
  <2>2. At[d] \in Sub(r)
    BY <2>1, UnderRule DEF Sub
  <2>3. At[d] # o
    BY <1>0, <2>2
  <2>4. At[d] \in Devices /\ At[d] # r => At[At[d]] \in Sub(r)
    BY <2>2, SubRule
  <2>5. At[d] = r
    BY <1>0, <2>1, <2>3, <2>4, KindFacts
  <2> QED BY <1>2, <2>1, <2>3, <2>5 DEF Scoped, Leaves
<1>8. /\ \A y \in ToSet(scope[o].routers) : Sub(y) \cap Sub(r) = {}
      /\ \A y \in ToSet(scope[o].routers) : y \notin Under(r)
  <2>1. ASSUME NEW y \in ToSet(scope[o].routers) PROVE Sub(y) \cap Sub(r) = {}
    BY <1>0, <1>3, <1>4, Siblings
  <2> QED BY <2>1 DEF Sub
<1>9. ToSet(scope[o].allEnds) \cap Sub(r) = {} /\ ToSet(scope[o].allRouters) \cap Sub(r) = {}
  <2>1. \A y \in ToSet(scope[o].routers) :
          /\ ToSet(scope[y].ends) \cup ToSet(scope[y].allEnds) \subseteq Sub(y)
          /\ ToSet(scope[y].routers) \cup ToSet(scope[y].allRouters) \subseteq Sub(y)
    BY <1>4 DEF Sub
  <2> QED BY <1>8, <2>1 DEF Scoped, Copied
<1>10. /\ ToSet(scope[r].ends) \cup ToSet(scope[r].allEnds) \subseteq Under(r)
       /\ ToSet(scope[r].routers) \cup ToSet(scope[r].allRouters) \subseteq Under(r)
       /\ Under(r) \subseteq Sub(r) /\ r \in Sub(r)
  BY <1>0, <1>4 DEF Sub
<1>11. Quiet'
  <2> SUFFICES ASSUME NEW x \in Owners, NEW y \in ToSet(scope'[x].routers) PROVE Avoided(Sub(y))'
    BY DEF Quiet
  <2>1. y \in ToSet(scope[x].routers) \/ (x = o /\ y = r)
    BY <1>1, <1>6
  <2>2. CASE y \in ToSet(scope[x].routers)
    BY <2>2, SettlesMeans DEF Scoped, Quiet
  <2> QED BY <2>1, <2>2
<1>12. Leaves'
  <2>1. \A x \in Owners : scope'[x].ends = scope[x].ends
    BY <1>1
  <2> QED BY <2>1, SettlesMeans DEF Scoped, Leaves
<1>13. Routed'
  <2> SUFFICES ASSUME NEW x \in Owners, NEW y \in ToSet(scope'[x].routers) PROVE ToSet(scope'[x].ends) \cap Under(y) = {}
    BY DEF Routed
  <2>1. scope'[x].ends = scope[x].ends /\ (y \in ToSet(scope[x].routers) \/ (x = o /\ y = r))
    BY <1>1, <1>6
  <2> QED BY <1>7, <2>1 DEF Scoped, Routed
<1>14. Copied'
  <2>1. \A x \in Owners : \A y \in ToSet(scope[x].routers) : scope'[y] = scope[y]
    BY <1>1, <1>3, <1>4
  <2>2. scope'[r] = scope[r]
    BY <1>0, <1>1
  <2> SUFFICES ASSUME NEW x \in Owners
               PROVE  /\ ToSet(scope'[x].allEnds) =
                           UNION {ToSet(scope'[y].ends) \cup ToSet(scope'[y].allEnds) : y \in ToSet(scope'[x].routers)}
                      /\ ToSet(scope'[x].allRouters) =
                           UNION {ToSet(scope'[y].routers) \cup ToSet(scope'[y].allRouters) : y \in ToSet(scope'[x].routers)}
    BY DEF Copied
  <2>3. /\ ToSet(scope[x].allEnds) =
             UNION {ToSet(scope[y].ends) \cup ToSet(scope[y].allEnds) : y \in ToSet(scope[x].routers)}
        /\ ToSet(scope[x].allRouters) =
             UNION {ToSet(scope[y].routers) \cup ToSet(scope[y].allRouters) : y \in ToSet(scope[x].routers)}
    BY DEF Scoped, Copied
  <2>4. CASE x # o
    <3>1. scope'[x] = scope[x] /\ \A y \in ToSet(scope[x].routers) : scope'[y] = scope[y]
      BY <1>1, <2>1, <2>4
    <3>2. ToSet(scope'[x].allEnds) =
            UNION {ToSet(scope'[y].ends) \cup ToSet(scope'[y].allEnds) : y \in ToSet(scope'[x].routers)}
      BY <2>3, <3>1
    <3>3. ToSet(scope'[x].allRouters) =
            UNION {ToSet(scope'[y].routers) \cup ToSet(scope'[y].allRouters) : y \in ToSet(scope'[x].routers)}
      BY <2>3, <3>1
    <3> QED BY <3>2, <3>3
  <2>5. CASE x = o
    <3>1. ToSet(scope'[x].allEnds) =
            UNION {ToSet(scope'[y].ends) \cup ToSet(scope'[y].allEnds) : y \in ToSet(scope'[x].routers)}
      BY <1>6, <2>1, <2>2, <2>3, <2>5
    <3>2. ToSet(scope'[x].allRouters) =
            UNION {ToSet(scope'[y].routers) \cup ToSet(scope'[y].allRouters) : y \in ToSet(scope'[x].routers)}
      BY <1>6, <2>1, <2>2, <2>3, <2>5
    <3> QED BY <3>1, <3>2
  <2> QED BY <2>4, <2>5
<1>15. AllOnce'
  <2>1. CASE TRUE
    <3>1. IsInjective(scope[o].ends \o scope[o].allEnds) /\ IsInjective(scope[r].ends \o scope[r].allEnds)
      BY <1>0 DEF Scoped, AllOnce
    <3>2. (ToSet(scope[o].ends) \cup ToSet(scope[o].allEnds)) \cap (ToSet(scope[r].ends) \cup ToSet(scope[r].allEnds)) = {}
      BY <1>7, <1>9, <1>10
    <3>3. IsInjective(scope[o].ends \o (scope[o].allEnds \o scope[r].ends \o scope[r].allEnds))
      BY <1>5, <3>1, <3>2, FourOnce
    <3>4. IsInjective(scope'[o].ends \o scope'[o].allEnds)
      BY <1>1, <3>3
    <3>5. IsInjective(scope[o].routers \o scope[o].allRouters) /\ IsInjective(scope[r].routers \o scope[r].allRouters)
      BY <1>0 DEF Scoped, AllOnce
    <3>6. /\ IsInjective(scope[o].routers) /\ IsInjective(scope[o].allRouters)
          /\ ToSet(scope[o].routers) \cap ToSet(scope[o].allRouters) = {}
      BY <1>5, <3>5, JoinedParts
    <3>7. IsInjective(scope'[o].routers) /\ ToSet(scope'[o].routers) \cap ToSet(scope[o].allRouters) = {}
      <4>1. r \notin ToSet(scope[o].routers)
        BY <1>3
      <4>2. IsInjective(Append(scope[o].routers, r))
        BY <1>5, <3>6, <4>1, AppendedOnce
      <4> QED BY <1>1, <1>6, <1>9, <1>10, <3>6, <4>2
    <3>8. IsInjective(scope'[o].routers \o scope[o].allRouters)
      BY <1>5, <1>6, <3>6, <3>7, JoinedOnce
    <3>9. (ToSet(scope'[o].routers) \cup ToSet(scope[o].allRouters)) \cap (ToSet(scope[r].routers) \cup ToSet(scope[r].allRouters)) = {}
      BY <1>0, <1>6, <1>8, <1>9, <1>10
    <3>10. IsInjective(scope'[o].routers \o (scope[o].allRouters \o scope[r].routers \o scope[r].allRouters))
      BY <1>5, <1>6, <3>5, <3>8, <3>9, FourOnce
    <3>11. IsInjective(scope'[o].routers \o scope'[o].allRouters)
      BY <1>1, <3>10
    <3> QED BY <1>1, <3>4, <3>11 DEF Scoped, AllOnce
  <2> QED BY <2>1
<1> QED BY <1>11, <1>12, <1>13, <1>14, <1>15 DEF Scoped

LEMMA DoneAvoided ==
  ASSUME Types, Divided, todo # <<>>, Push(<<>>)
  PROVE  /\ Settles
         /\ \A S : S = Shade(Head(todo)) => Avoided(S)' /\ \A x \in S : ~Claimed(x)'
<1>1. Settles /\ \A k \in 1 .. Len(todo') : Wants(todo'[k]) \cap Shade(Head(todo)) = {}
  BY ApartDone DEF Divided
<1>2. ASSUME NEW S, S = Shade(Head(todo)) PROVE Avoided(S)' /\ \A x \in S : ~Claimed(x)'
  <2>1. Avoided(S)'
    BY <1>1, <1>2 DEF Avoided
  <2>2. \A x \in S : ~Claimed(x)'
    BY <1>1, <1>2 DEF Claimed, Wants
  <2> QED BY <2>1, <2>2
<1> QED BY <1>1, <1>2

LEMMA ScopedAttach ==
  ASSUME Types, Seen, Up, Divided, Scoped, Settles, Doing("attach"), AttachExpander(Owner, Device)
  PROVE  Scoped'
<1>1. CASE Device \notin subtractive
  BY <1>1, ScopedSame DEF AttachExpander, Stop, tree
<1>2. CASE Device \in subtractive
  <2>1. PICK o, e : o = Owner /\ e = Device
    OBVIOUS
  <2>2. Head(todo) \in AttachTask /\ todo # <<>> /\ Head(todo)[1] = "attach"
    BY HeadFacts, TaskKinds DEF Types, Doing
  <2>3. /\ o \in Hosts /\ e \in Expanders /\ e \in Far(o) /\ Head(todo)[2] = o /\ Head(todo)[3] = e
        /\ o \in Owners /\ e \in Routers
    BY <2>1, <2>2, KindFacts DEF AttachTask, Owner, Device
  <2>4. At[e] = o
    BY <2>2, <2>3, SeenHead DEF TaskSeen, Far
  <2>5. AttachRoutingDevice(o, e) /\ Push(<<>>)
    BY <1>2, <2>1, PushNone DEF AttachExpander
  <2>6. Shade(Head(todo)) = Sub(e) /\ e \in Claims(Head(todo)) /\ o \in Wants(Head(todo))
    BY <2>2, <2>3, ClaimsAre DEF Wants
  <2>7. Avoided(Sub(e))'
    <3>1. PICK S : S = Sub(e)
      OBVIOUS
    <3>2. Avoided(S)'
      BY <2>2, <2>5, <2>6, <3>1, DoneAvoided
    <3> QED BY <3>1, <3>2 DEF Avoided, Sub
  <2> QED BY <2>2, <2>3, <2>4, <2>5, <2>6, <2>7, RouterScoped
<1> QED BY <1>1, <1>2

LEMMA ScopedMultiplier ==
  ASSUME Types, Up, Divided, Scoped, Settles, Doing("multiplier"), AttachMultiplier(Owner, Device)
  PROVE  Scoped'
<1>1. PICK c, m : c = Owner /\ m = Device
  OBVIOUS
<1>2. Head(todo) \in MultiplierTask /\ todo # <<>> /\ Head(todo)[1] = "multiplier"
  BY HeadFacts, TaskKinds DEF Types, Doing
<1>3. /\ c \in Owners /\ m \in Routers /\ At[m] = c /\ Head(todo)[2] = c /\ Head(todo)[3] = m
  BY <1>1, <1>2, KindFacts DEF MultiplierTask, Owner, Device
<1>4. AttachRoutingDevice(c, m) /\ Push(<<>>)
  BY <1>1, PushNone DEF AttachMultiplier
<1>5. Shade(Head(todo)) = Sub(m) /\ m \in Claims(Head(todo)) /\ c \in Wants(Head(todo))
  BY <1>2, <1>3, ClaimsAre DEF Wants
<1>6. Avoided(Sub(m))'
  <2>1. PICK S : S = Sub(m)
    OBVIOUS
  <2>2. Avoided(S)'
    BY <1>2, <1>4, <1>5, <2>1, DoneAvoided
  <2> QED BY <2>1, <2>2 DEF Avoided, Sub
<1> QED BY <1>2, <1>3, <1>4, <1>5, <1>6, RouterScoped

(* The disk of a task that ends with it                                     *)
LEMMA ScopedDisk ==
  ASSUME Types, Up, Divided, Scoped, Settles, todo # <<>>, Push(<<>>), NEW o \in Owners, NEW d \in Disks,
         AttachEndDevice(o, d), o = Head(todo)[2], d \in Claims(Head(todo)),
         o \in Controllers /\ At[d] \in Multipliers => At[d] \in Claims(Head(todo))
  PROVE  Scoped'
<1>1. Claims(Head(todo)) \subseteq Shade(Head(todo)) /\ o \in Wants(Head(todo))
  BY ClaimsAre DEF Wants
<1>2. \A x \in Shade(Head(todo)) : ~Claimed(x)'
  BY DoneAvoided
<1>3. ~Claimed(d)' /\ (o \in Controllers /\ At[d] \in Multipliers => ~Claimed(At[d])')
  BY <1>1, <1>2
<1> QED BY <1>1, <1>3, EndScoped

LEMMA ScopedEnd ==
  ASSUME Types, Up, Divided, Scoped, Settles, Doing("end"), OpenEndDevice(Owner, Device)
  PROVE  Scoped'
<1>1. PICK o, d : o = Owner /\ d = Device
  OBVIOUS
<1>2. Head(todo) \in EndTask /\ todo # <<>> /\ Head(todo)[1] = "end"
  BY HeadFacts, TaskKinds DEF Types, Doing
<1>3. o \in Owners /\ o \notin Multipliers /\ At[d] = o /\ Head(todo)[2] = o /\ Head(todo)[3] = d
  BY <1>1, <1>2, KindFacts DEF EndTask, Owner, Device, Hosts
<1>4. Push(<<>>) /\ (scope' = scope \/ (d \in Disks /\ AttachEndDevice(o, d)))
  BY <1>1, PushNone DEF OpenEndDevice, AttachEnd, tree
<1>5. d \in Claims(Head(todo))
  BY <1>2, <1>3, ClaimsAre
<1> QED BY <1>2, <1>3, <1>4, <1>5, ScopedSame, ScopedDisk

LEMMA ScopedSingle ==
  ASSUME Types, Up, Divided, Scoped, Settles, Doing("disk"), AttachSingle(Owner, Device, Argument)
  PROVE  Scoped'
<1>1. PICK c, d, h : c = Owner /\ d = Device /\ h = Argument
  OBVIOUS
<1>2. Head(todo) \in DiskTask /\ todo # <<>> /\ Head(todo)[1] = "disk"
  BY HeadFacts, TaskKinds DEF Types, Doing
<1>3. /\ c \in Controllers /\ c \in Owners /\ d \in Disks /\ At[h] = c /\ (d = h \/ At[d] = h)
      /\ Head(todo)[2] = c /\ Head(todo)[3] = d /\ Head(todo)[4] = h
  BY <1>1, <1>2, KindFacts DEF DiskTask, Owner, Device, Argument
<1>4. Push(<<>>) /\ (scope' = scope \/ AttachEndDevice(c, d))
  BY <1>1, PushNone DEF AttachSingle, AttachEnd, tree
<1>5. d \in Claims(Head(todo)) /\ h \in Claims(Head(todo))
  BY <1>2, <1>3, ClaimsAre
<1>6. At[d] \in Multipliers => At[d] \in Claims(Head(todo))
  BY <1>3, <1>5, KindFacts
<1> QED BY <1>2, <1>3, <1>4, <1>5, <1>6, ScopedSame, ScopedDisk

LEMMA ScopedMember ==
  ASSUME Types, Up, Divided, Scoped, Settles, Doing("member"), AttachMember(Owner, Device)
  PROVE  Scoped'
<1>1. PICK m, d : m = Owner /\ d = Device
  OBVIOUS
<1>2. Head(todo) \in MemberTask /\ todo # <<>> /\ Head(todo)[1] = "member"
  BY HeadFacts, TaskKinds DEF Types, Doing
<1>3. m \in Owners /\ m \notin Controllers /\ d \in Disks /\ At[d] = m /\ Head(todo)[2] = m /\ Head(todo)[3] = d
  BY <1>1, <1>2, KindFacts DEF MemberTask, Owner, Device
<1>4. Push(<<>>) /\ (scope' = scope \/ AttachEndDevice(m, d))
  BY <1>1, PushNone DEF AttachMember
<1>5. d \in Claims(Head(todo))
  BY <1>2, <1>3, ClaimsAre
<1> QED BY <1>2, <1>3, <1>4, <1>5, ScopedSame, ScopedDisk

LEMMA ScopedNext ==
  ASSUME Types, Types', Seen, Up, Divided, Scoped, [Next]_vars
  PROVE  Scoped'
<1>0. Settles
  BY DividedNext
<1>1. CASE UNCHANGED vars \/ Opened \/ \E d \in Devices : Change(d)
  BY <1>0, <1>1, ScopedSame DEF vars, Opened, Change, tree
<1>2. CASE Doing("list") /\ ListPhys(Owner)
  BY <1>0, <1>2, ScopedSame DEF ListPhys, tree
<1>3. CASE Doing("phy") /\ ReadPhy(Owner, Device, Argument)
  BY <1>0, <1>3, ScopedSame DEF ReadPhy, tree
<1>4. CASE Doing("create") /\ CreatePort(Owner, Device, Argument)
  BY <1>0, <1>4, ScopedSame DEF CreatePort, tree
<1>5. CASE Doing("ports") /\ ListPorts(Owner)
  BY <1>0, <1>5, ScopedSame DEF ListPorts, tree
<1>6. CASE Doing("port") /\ DiscoverPort(Owner, Device)
  BY <1>0, <1>6, ScopedSame DEF DiscoverPort, Stop, tree
<1>7. CASE Doing("attach") /\ AttachExpander(Owner, Device)
  BY <1>0, <1>7, ScopedAttach
<1>8. CASE Doing("end") /\ OpenEndDevice(Owner, Device)
  BY <1>0, <1>8, ScopedEnd
<1>9. CASE Doing("readdir") /\ ReadDir(Owner, Device)
  BY <1>0, <1>9, ScopedSame DEF ReadDir, tree
<1>10. CASE Doing("stat") /\ Owner \in Vmd /\ StatNvme(Owner, Argument)
  BY <1>0, <1>10, ScopedSame DEF StatNvme, tree
<1>11. CASE Doing("stat") /\ Owner \in Ahci /\ StatTargets(Owner, Device, Argument)
  BY <1>0, <1>11, ScopedSame DEF StatTargets, tree
<1>12. CASE Doing("nvme") /\ ReadNvmeDriver(Owner, Device)
  BY <1>0, <1>12, ScopedSame DEF ReadNvmeDriver, tree
<1>13. CASE Doing("disk") /\ AttachSingle(Owner, Device, Argument)
  BY <1>0, <1>13, ScopedSingle
<1>14. CASE Doing("member") /\ AttachMember(Owner, Device)
  BY <1>0, <1>14, ScopedMember
<1>15. CASE Doing("multiplier") /\ AttachMultiplier(Owner, Device)
  BY <1>0, <1>15, ScopedMultiplier
<1>16. CASE Doing("add") /\ AddToSession(Owner)
  BY <1>0, <1>16, ScopedSame DEF AddToSession, tree
<1> QED
  BY <1>1, <1>2, <1>3, <1>4, <1>5, <1>6, <1>7, <1>8, <1>9, <1>10, <1>11, <1>12, <1>13, <1>14, <1>15,
     <1>16 DEF Next

LEMMA ScopedInit == Init => Scoped
<1> SUFFICES ASSUME Init PROVE Scoped
  OBVIOUS
<1>1. \A o \in Owners : scope[o] = [ends |-> <<>>, allEnds |-> <<>>, routers |-> <<>>, allRouters |-> <<>>]
  BY DEF Init
<1>2. \A o \in Owners : /\ ToSet(scope[o].ends) = {} /\ ToSet(scope[o].allEnds) = {}
                        /\ ToSet(scope[o].routers) = {} /\ ToSet(scope[o].allRouters) = {}
  BY <1>1, Empty
<1>3. Quiet /\ Leaves /\ Routed /\ Copied
  BY <1>2 DEF Quiet, Leaves, Routed, Copied
<1>4. IsInjective(<<>> \o <<>>)
  BY OnceNone
<1>5. AllOnce
  <2>1. \A o \in Owners : /\ scope[o].ends = <<>> /\ scope[o].allEnds = <<>>
                          /\ scope[o].routers = <<>> /\ scope[o].allRouters = <<>>
    BY <1>1
  <2> QED BY <1>4, <2>1 DEF AllOnce
<1> QED BY <1>3, <1>5 DEF Scoped

-----------------------------------------------------------------------------
(* The lists of a scope are what is below it                                *)

Descends(f) == f = [o \in Owners |-> UNION {{r} \cup f[r] : r \in ToSet(scope[o].routers)}]

LEMMA BelowDescends ==
  ASSUME Types, Up, Scoped
  PROVE  Descends([o \in Owners |-> Below(o)])
<1> DEFINE g == [o \in Owners |-> Below(o)]
<1>1. ASSUME NEW o \in Owners PROVE Below(o) = UNION {{r} \cup g[r] : r \in ToSet(scope[o].routers)}
  <2>1. \A r \in ToSet(scope[o].routers) : g[r] = ToSet(scope[r].routers) \cup ToSet(scope[r].allRouters)
    BY AllUnder DEF Below
  <2>2. ToSet(scope[o].allRouters) =
          UNION {ToSet(scope[r].routers) \cup ToSet(scope[r].allRouters) : r \in ToSet(scope[o].routers)}
    BY DEF Scoped, Copied
  <2> HIDE DEF g
  <2> QED BY <2>1, <2>2 DEF Below
<1>2. g = [o \in Owners |-> UNION {{r} \cup g[r] : r \in ToSet(scope[o].routers)}]
  <2>1. g = [o \in Owners |-> g[o]] /\ \A o \in Owners : g[o] = Below(o)
    OBVIOUS
  <2> HIDE DEF g
  <2> QED BY <1>1, <2>1
<1> HIDE DEF g
<1>3. Descends(g)
  BY <1>2 DEF Descends
<1> QED BY <1>3 DEF g

LEMMA DescendsOnce ==
  ASSUME Types, Up, NEW f, NEW g, Descends(f), Descends(g)
  PROVE  \A o \in Owners : f[o] = g[o]
<1> DEFINE Bad == {o \in Owners : f[o] # g[o]}
<1>1. \A o \in Owners : /\ f[o] = UNION {{r} \cup f[r] : r \in ToSet(scope[o].routers)}
                        /\ g[o] = UNION {{r} \cup g[r] : r \in ToSet(scope[o].routers)}
  BY DEF Descends
<1>2. ASSUME NEW o \in Bad PROVE \E r \in Bad \cap Devices : At[r] = o
  <2>1. o \in Owners
    OBVIOUS
  <2>2. \A r \in ToSet(scope[o].routers) : r \in Owners /\ r \in Devices /\ At[r] = o
    BY <2>1, AllUnder
  <2>3. ASSUME \A r \in ToSet(scope[o].routers) : f[r] = g[r] PROVE FALSE
    <3>1. UNION {{r} \cup f[r] : r \in ToSet(scope[o].routers)} = UNION {{r} \cup g[r] : r \in ToSet(scope[o].routers)}
      BY <2>3
    <3> QED BY <1>1, <2>1, <3>1
  <2> QED BY <2>2, <2>3
<1>3. Bad \cap Devices = {}
  <2> SUFFICES ASSUME Bad \cap Devices # {} PROVE FALSE
    OBVIOUS
  <2>1. PICK d \in Bad \cap Devices : \A x \in Bad \cap Devices : At[x] # d
    BY TreeAssumption
  <2> QED BY <1>2, <2>1
<1> QED BY <1>2, <1>3

(* What the list of all ends, or of all routing devices, of o holds         *)
LEMMA AllBelow ==
  ASSUME Types, Up, Scoped, NEW o \in Owners
  PROVE  /\ ToSet(scope[o].allEnds) = UNION {ToSet(scope[r].ends) : r \in Below(o)}
         /\ ToSet(scope[o].allRouters) = UNION {ToSet(scope[r].routers) : r \in Below(o)}
<1> DEFINE Short == {x \in Owners : \E r \in Below(x) : \/ ~(ToSet(scope[r].ends) \subseteq ToSet(scope[x].allEnds))
                                                        \/ ~(ToSet(scope[r].routers) \subseteq ToSet(scope[x].allRouters))}
<1>1. ASSUME NEW x \in Short PROVE \E y \in Short \cap Devices : At[y] = x
  <2>1. PICK r \in Below(x) : \/ ~(ToSet(scope[r].ends) \subseteq ToSet(scope[x].allEnds))
                              \/ ~(ToSet(scope[r].routers) \subseteq ToSet(scope[x].allRouters))
    OBVIOUS
  <2>2. /\ ToSet(scope[x].allEnds) =
             UNION {ToSet(scope[y].ends) \cup ToSet(scope[y].allEnds) : y \in ToSet(scope[x].routers)}
        /\ ToSet(scope[x].allRouters) =
             UNION {ToSet(scope[y].routers) \cup ToSet(scope[y].allRouters) : y \in ToSet(scope[x].routers)}
    BY DEF Scoped, Copied
  <2>3. r \notin ToSet(scope[x].routers)
    BY <2>1, <2>2
  <2>4. PICK y \in ToSet(scope[x].routers) : r \in Below(y)
    BY <2>2, <2>3 DEF Below
  <2>5. y \in Devices /\ y \in Owners /\ At[y] = x
    BY AllUnder
  <2>6. y \in Short
    <3>1. /\ ToSet(scope[y].allEnds) \subseteq ToSet(scope[x].allEnds)
          /\ ToSet(scope[y].allRouters) \subseteq ToSet(scope[x].allRouters)
      BY <2>2
    <3> QED BY <2>1, <2>4, <2>5, <3>1
  <2> QED BY <2>5, <2>6
<1>2. Short \cap Devices = {}
  <2> SUFFICES ASSUME Short \cap Devices # {} PROVE FALSE
    OBVIOUS
  <2>1. PICK d \in Short \cap Devices : \A x \in Short \cap Devices : At[x] # d
    BY TreeAssumption
  <2> QED BY <1>1, <2>1
<1>3. o \notin Short
  BY <1>1, <1>2
<1>4. \A d \in ToSet(scope[o].allEnds) : \E r \in Below(o) : d \in ToSet(scope[r].ends)
  BY DEF Up, RoutersUp
<1>5. \A r \in ToSet(scope[o].allRouters) : \E y \in Below(o) : r \in ToSet(scope[y].routers)
  <2> DEFINE Bad == {x \in Owners : \E r \in ToSet(scope[x].allRouters) : \A y \in Below(x) : r \notin ToSet(scope[y].routers)}
  <2>1. ASSUME NEW x \in Bad PROVE \E y \in Bad \cap Devices : At[y] = x
    <3>1. PICK r \in ToSet(scope[x].allRouters) : \A y \in Below(x) : r \notin ToSet(scope[y].routers)
      OBVIOUS
    <3>2. ToSet(scope[x].allRouters) =
             UNION {ToSet(scope[y].routers) \cup ToSet(scope[y].allRouters) : y \in ToSet(scope[x].routers)}
      BY DEF Scoped, Copied
    <3>3. PICK y \in ToSet(scope[x].routers) : r \in ToSet(scope[y].routers) \cup ToSet(scope[y].allRouters)
      BY <3>2
    <3>4. y \in Below(x) /\ r \in ToSet(scope[y].allRouters)
      BY <3>1, <3>3 DEF Below
    <3>5. Below(y) \subseteq Below(x)
      BY <3>2 DEF Below
    <3>6. y \in Devices /\ y \in Owners /\ At[y] = x
      BY AllUnder
    <3> QED BY <3>1, <3>4, <3>5, <3>6
  <2>2. Bad \cap Devices = {}
    <3> SUFFICES ASSUME Bad \cap Devices # {} PROVE FALSE
      OBVIOUS
    <3>1. PICK d \in Bad \cap Devices : \A x \in Bad \cap Devices : At[x] # d
      BY TreeAssumption
    <3> QED BY <2>1, <3>1
  <2> QED BY <2>1, <2>2
<1>6. \A r \in Below(o) : /\ ToSet(scope[r].ends) \subseteq ToSet(scope[o].allEnds)
                          /\ ToSet(scope[r].routers) \subseteq ToSet(scope[o].allRouters)
  BY <1>3
<1> QED BY <1>4, <1>5, <1>6

LEMMA ScopesMean == Types /\ SessionType /\ Up /\ Scoped => ScopesAgree
<1> SUFFICES ASSUME Types, SessionType, Up, Scoped PROVE ScopesAgree
  OBVIOUS
<1> DEFINE below == CHOOSE f : Descends(f)
<1>1. Descends(below) /\ Descends([o \in Owners |-> Below(o)])
  BY BelowDescends
<1>2. \A o \in Owners : below[o] = [x \in Owners |-> Below(x)][o]
  <2> HIDE DEF below
  <2> QED BY <1>1, DescendsOnce
<1>3. \A o \in Owners : below[o] = Below(o)
  BY <1>2
<1> DEFINE Held(o) ==
             /\ IsInjective(scope[o].ends \o scope[o].allEnds)
             /\ ToSet(scope[o].allEnds) = UNION {ToSet(scope[r].ends) : r \in below[o]}
             /\ IsInjective(scope[o].routers \o scope[o].allRouters)
             /\ ToSet(scope[o].allRouters) = UNION {ToSet(scope[r].routers) : r \in below[o]}
<1>4. (\A o \in Registered \cap Owners : Held(o)) => ScopesAgree
  BY DEF ScopesAgree, Descends
<1>5. ASSUME NEW o \in Owners PROVE Held(o)
  <2> HIDE DEF below
  <2> QED BY <1>3, AllBelow DEF Scoped, AllOnce
<1> QED BY <1>4, <1>5

LEMMA DividedHolds == Spec => [](Divided /\ Scoped)
<1>1. Init => Divided /\ Scoped
  BY DividedInit, ScopedInit
<1>2. Types /\ Types' /\ Seen /\ Up /\ (Divided /\ Scoped) /\ [Next]_vars => (Divided /\ Scoped)'
  BY DividedNext, ScopedNext
<1> QED BY <1>1, <1>2, TypesHold, SeenHolds, UpHolds, PTL DEF Spec

(* The lists of all end devices and of all routing devices of a registered  *)
(* controller or routing device, which are copied when a routing device is  *)
(* attached and never brought up to date afterwards, are what is in the     *)
(* lists of the routing devices below it, and no object is in them twice:   *)
(* for every tree of devices, whatever is plugged or unplugged meanwhile.   *)
THEOREM ScopesFollow == Spec => []ScopesAgree
BY TypesHold, SessionHolds, UpHolds, DividedHolds, ScopesMean, PTL
=============================================================================
