------------------------ MODULE EthDatagrams_proofs -------------------------
(***************************************************************************)
(* Theorems about EthUdp and EthDns, for any memory, datagrams, names,     *)
(* ports, ids and bounds.  EthernetUDP counts what is free as the chip     *)
(* does, and delivers whole datagrams in their order; a lookup that        *)
(* nothing answers waits three times, and connect dials no other host than *)
(* the one it was asked for.                                               *)
(***************************************************************************)
EXTENDS EthUdp, EthDns, WellFoundedInduction, SequenceTheorems, TLAPS

(* Every set of numbers that is not empty has a least one: a proof by      *)
(* induction looks at the least counterexample.                            *)
LEMMA LeastNumber ==
  ASSUME NEW S \in SUBSET Nat, S # {}
  PROVE  \E m \in S : \A k \in S : m <= k
<1> DEFINE R == OpToRel(<, Nat)
<1>1. IsWellFoundedOn(R, Nat) BY NatLessThanWellFounded
<1>2. \A x, y \in Nat : x < y => <<x, y>> \in R BY DEF OpToRel
<1> HIDE DEF R
<1>3. PICK m \in S : \A k \in S : ~(<<k, m>> \in R) BY <1>1, WFMin
<1>4. ASSUME NEW k \in S PROVE m <= k
  <2>1. m \in Nat /\ k \in Nat OBVIOUS
  <2>2. ~(k < m) BY <1>2, <1>3, <2>1, Zenon
  <2>3. QED BY <2>1, <2>2
<1>5. QED BY <1>4

LEMMA NumberInduction ==
  ASSUME NEW S \in SUBSET Nat, 0 \in S, \A n \in S : n + 1 \in S
  PROVE  S = Nat
<1>1. SUFFICES ASSUME Nat \ S # {} PROVE FALSE OBVIOUS
<1>2. PICK m \in Nat \ S : \A k \in Nat \ S : m <= k BY <1>1, LeastNumber
<1>3. m # 0 /\ m - 1 \in Nat /\ m - 1 \in S BY <1>2
<1>4. m - 1 + 1 \in S BY <1>3
<1>5. QED BY <1>4

(* A function that is defined by recursion exists, and has its type.       *)
LEMMA RecursionIsFunction ==
  ASSUME NEW V, NEW b \in V, NEW N \in Nat, NEW G \in [1..N -> [V -> V]]
  PROVE  \E f \in [0..N -> V] : f[0] = b /\ \A n \in 1..N : f[n] = G[n][f[n - 1]]
<1> DEFINE S == {k \in Nat : k <= N =>
                  \E f \in [0..k -> V] : f[0] = b /\ \A n \in 1..k : f[n] = G[n][f[n - 1]]}
<1>1. 0 \in S
  <2> DEFINE f == [i \in 0..0 |-> b]
  <2>1. f \in [0..0 -> V] /\ f[0] = b OBVIOUS
  <2> HIDE DEF f
  <2>2. \A n \in 1..0 : f[n] = G[n][f[n - 1]] OBVIOUS
  <2>3. \E h \in [0..0 -> V] : h[0] = b /\ \A n \in 1..0 : h[n] = G[n][h[n - 1]]
    BY <2>1, <2>2
  <2>4. QED BY <2>3
<1>2. ASSUME NEW k \in S PROVE k + 1 \in S
  <2>1. SUFFICES ASSUME k + 1 <= N
                 PROVE  \E f \in [0..(k + 1) -> V] :
                          f[0] = b /\ \A n \in 1..(k + 1) : f[n] = G[n][f[n - 1]]
    OBVIOUS
  <2>2. PICK g \in [0..k -> V] : g[0] = b /\ \A n \in 1..k : g[n] = G[n][g[n - 1]]
    BY <2>1
  <2> DEFINE f == [n \in 0..(k + 1) |-> IF n = k + 1 THEN G[k + 1][g[k]] ELSE g[n]]
  <2>3. f \in [0..(k + 1) -> V] BY <2>1
  <2>4. f[0] = b BY <2>2
  <2>5. \A n \in 1..(k + 1) : f[n] = G[n][f[n - 1]] BY <2>2
  <2>6. QED BY <2>3, <2>4, <2>5
<1>3. S = Nat
  <2> HIDE DEF S
  <2>1. S \in SUBSET Nat BY DEF S
  <2>2. QED BY <1>1, <1>2, <2>1, NumberInduction
<1>4. QED BY <1>3

(* What holds of the empty sequence, and of s with e appended if it holds  *)
(* of s, holds of every sequence.                                          *)
LEMMA SequenceInduction ==
  ASSUME NEW V, NEW T \in SUBSET Seq(V), <<>> \in T,
         \A s \in T, e \in V : Append(s, e) \in T
  PROVE  T = Seq(V)
<1> DEFINE S == {n \in Nat : \A s \in Seq(V) : Len(s) = n => s \in T}
<1>1. 0 \in S
  <2>1. \A s \in Seq(V) : Len(s) = 0 => s = <<>> OBVIOUS
  <2>2. QED BY <2>1
<1>2. ASSUME NEW n \in S PROVE n + 1 \in S
  <2>1. SUFFICES ASSUME NEW s \in Seq(V), Len(s) = n + 1 PROVE s \in T OBVIOUS
  <2>2. s # <<>> BY <2>1
  <2>3. PICK t \in Seq(V), e \in V : s = Append(t, e) BY <2>2, SequenceEmptyOrAppend
  <2>4. Len(t) = n BY <2>1, <2>3
  <2>5. QED BY <2>3, <2>4
<1>3. S = Nat
  <2> HIDE DEF S
  <2>1. S \in SUBSET Nat BY DEF S
  <2>2. QED BY <1>1, <1>2, <2>1, NumberInduction
<1>4. ASSUME NEW s \in Seq(V) PROVE s \in T
  <2>1. Len(s) \in S BY <1>3
  <2>2. QED BY <2>1
<1>5. QED BY <1>4

------------------------------------------------------------------------------
(* Heads: the recursion along a sequence, and what it gives.               *)
AreHeads(g, u) ==
  /\ g \in [0..Len(u) -> Seq(Datagram)]
  /\ g[0] = <<>>
  /\ \A n \in 1..Len(u) : g[n] = IF IsHeader(u[n]) THEN Append(g[n - 1], u[n][1]) ELSE g[n - 1]

LEMMA CellsAre ==
  ASSUME NEW c \in Cells
  PROVE  /\ c[1] \in Datagram /\ c[2] \in 0..MaxPayload /\ c = <<c[1], c[2]>>
         /\ c[1].size \in 0..MaxPayload /\ c[1].size \in Nat /\ c[2] \in Nat
BY UdpConstantsOK DEF Cells, Datagram

LEMMA HeadsExist ==
  ASSUME NEW u \in Seq(Cells)
  PROVE  \E g : AreHeads(g, u) /\ Heads(u) = g[Len(u)]
<1> DEFINE step(n, s) == IF IsHeader(u[n]) THEN Append(s, u[n][1]) ELSE s
           G == [n \in 1..Len(u) |-> [s \in Seq(Datagram) |-> step(n, s)]]
           body(h) == [n \in 0..Len(u) |->
                         IF n = 0 THEN <<>>
                         ELSE IF IsHeader(u[n]) THEN Append(h[n - 1], u[n][1]) ELSE h[n - 1]]
           g == CHOOSE heads : heads = body(heads)
<1>1. Heads(u) = g[Len(u)] BY DEF Heads
<1>2. G \in [1..Len(u) -> [Seq(Datagram) -> Seq(Datagram)]]
  <2>1. ASSUME NEW n \in 1..Len(u), NEW s \in Seq(Datagram) PROVE step(n, s) \in Seq(Datagram)
    <3>1. u[n][1] \in Datagram BY CellsAre
    <3>2. QED BY <3>1
  <2>2. QED BY <2>1
<1>3. Len(u) \in Nat /\ <<>> \in Seq(Datagram) OBVIOUS
<1>4. PICK f \in [0..Len(u) -> Seq(Datagram)] :
        f[0] = <<>> /\ \A n \in 1..Len(u) : f[n] = G[n][f[n - 1]]
  <2> DEFINE V == Seq(Datagram)
             N == Len(u)
             b == <<>>
  <2>1. G \in [1..N -> [V -> V]] /\ N \in Nat /\ b \in V BY <1>2, <1>3
  <2> HIDE DEF G, V, N, b
  <2>2. \E f \in [0..N -> V] : f[0] = b /\ \A n \in 1..N : f[n] = G[n][f[n - 1]]
    BY <2>1, RecursionIsFunction
  <2>3. QED BY <2>2 DEF V, N, b
<1>5. ASSUME NEW n \in 1..Len(u) PROVE f[n] = step(n, f[n - 1])
  <2>1. f[n - 1] \in Seq(Datagram) BY <1>3
  <2>2. QED BY <1>4, <2>1
<1>6. f = body(f)
  <2>1. ASSUME NEW n \in 0..Len(u)
        PROVE  f[n] = IF n = 0 THEN <<>>
                      ELSE IF IsHeader(u[n]) THEN Append(f[n - 1], u[n][1]) ELSE f[n - 1]
    <3>1. CASE n = 0 BY <1>4, <3>1
    <3>2. CASE n # 0
      <4>1. n \in 1..Len(u) BY <1>3, <3>2
      <4>2. QED BY <1>5, <3>2, <4>1
    <3>3. QED BY <3>1, <3>2
  <2>2. f = [n \in 0..Len(u) |-> f[n]] BY <1>4
  <2>3. QED BY <2>1, <2>2, Zenon
<1>7. g = body(g) BY <1>6, Zenon
<1>8. ASSUME NEW n \in 0..Len(u)
      PROVE  g[n] = IF n = 0 THEN <<>>
                    ELSE IF IsHeader(u[n]) THEN Append(g[n - 1], u[n][1]) ELSE g[n - 1]
  <2> HIDE DEF g
  <2>1. QED BY <1>7, Zenon
<1> HIDE DEF g, G
<1>9. ASSUME NEW n \in 0..Len(u) PROVE g[n] \in Seq(Datagram)
  <2> DEFINE S == {k \in Nat : k <= Len(u) => g[k] = f[k]}
  <2>1. 0 \in S BY <1>3, <1>4, <1>8
  <2>2. ASSUME NEW k \in S PROVE k + 1 \in S
    <3>1. SUFFICES ASSUME k + 1 <= Len(u) PROVE g[k + 1] = f[k + 1] OBVIOUS
    <3>2. k + 1 \in 0..Len(u) /\ k + 1 \in 1..Len(u) /\ k + 1 # 0 /\ k + 1 - 1 = k /\ g[k] = f[k]
      BY <1>3, <3>1
    <3>3. f[k + 1] = step(k + 1, f[k]) BY <1>5, <3>2
    <3>4. g[k + 1] = step(k + 1, g[k]) BY <1>8, <3>2
    <3>5. QED BY <3>2, <3>3, <3>4
  <2>3. S = Nat
    <3> HIDE DEF S
    <3>1. S \in SUBSET Nat BY DEF S
    <3>2. QED BY <2>1, <2>2, <3>1, NumberInduction
  <2>4. g[n] = f[n] BY <1>3, <2>3
  <2>5. QED BY <2>4
<1>10. AreHeads(g, u)
  <2>1. g = [n \in 0..Len(u) |-> g[n]] BY <1>7, Zenon
  <2>2. g \in [0..Len(u) -> Seq(Datagram)] BY <1>9, <2>1
  <2>3. g[0] = <<>> BY <1>3, <1>8
  <2>4. ASSUME NEW n \in 1..Len(u)
        PROVE  g[n] = IF IsHeader(u[n]) THEN Append(g[n - 1], u[n][1]) ELSE g[n - 1]
    <3>1. n \in 0..Len(u) /\ n # 0 BY <1>3
    <3>2. QED BY <1>8, <3>1
  <2>5. QED BY <2>2, <2>3, <2>4 DEF AreHeads
<1>11. QED BY <1>1, <1>10

(* Heads of a prefix do not depend on what comes after it.                 *)
LEMMA HeadsOfPrefix ==
  ASSUME NEW u \in Seq(Cells), NEW v \in Seq(Cells), NEW g, NEW h,
         AreHeads(g, u), AreHeads(h, v), Len(u) <= Len(v),
         \A i \in 1..Len(u) : u[i] = v[i]
  PROVE  g[Len(u)] = h[Len(u)]
<1> DEFINE S == {k \in Nat : k <= Len(u) => g[k] = h[k]}
<1>1. Len(u) \in Nat /\ Len(v) \in Nat OBVIOUS
<1>2. 0 \in S BY DEF AreHeads
<1>3. ASSUME NEW k \in S PROVE k + 1 \in S
  <2>1. SUFFICES ASSUME k + 1 <= Len(u) PROVE g[k + 1] = h[k + 1] OBVIOUS
  <2>2. k + 1 \in 1..Len(u) /\ k + 1 \in 1..Len(v) /\ k + 1 - 1 = k /\ g[k] = h[k]
    BY <1>1, <2>1
  <2>3. u[k + 1] = v[k + 1] BY <2>2
  <2>4. g[k + 1] = IF IsHeader(u[k + 1]) THEN Append(g[k], u[k + 1][1]) ELSE g[k]
    BY <2>2 DEF AreHeads
  <2>5. h[k + 1] = IF IsHeader(v[k + 1]) THEN Append(h[k], v[k + 1][1]) ELSE h[k]
    BY <2>2 DEF AreHeads
  <2>6. QED BY <2>2, <2>3, <2>4, <2>5
<1>4. S = Nat
  <2> HIDE DEF S
  <2>1. S \in SUBSET Nat BY DEF S
  <2>2. QED BY <1>2, <1>3, <2>1, NumberInduction
<1>5. QED BY <1>1, <1>4

LEMMA HeadsOfEmpty == Heads(<<>>) = <<>>
<1>1. <<>> \in Seq(Cells) OBVIOUS
<1>2. PICK g : AreHeads(g, <<>>) /\ Heads(<<>>) = g[Len(<<>>)] BY <1>1, HeadsExist
<1>3. QED BY <1>2 DEF AreHeads

LEMMA HeadsOfAppend ==
  ASSUME NEW u \in Seq(Cells), NEW c \in Cells
  PROVE  /\ Heads(u) \in Seq(Datagram)
         /\ Heads(Append(u, c)) = IF IsHeader(c) THEN Append(Heads(u), c[1]) ELSE Heads(u)
<1> DEFINE v == Append(u, c)
<1>1. /\ v \in Seq(Cells) /\ Len(u) \in Nat /\ Len(v) = Len(u) + 1
      /\ \A i \in 1..Len(u) : u[i] = v[i]
      /\ v[Len(u) + 1] = c
  OBVIOUS
<1> HIDE DEF v
<1>2. PICK g : AreHeads(g, u) /\ Heads(u) = g[Len(u)] BY HeadsExist
<1>3. PICK h : AreHeads(h, v) /\ Heads(v) = h[Len(v)] BY <1>1, HeadsExist
<1>4. g[Len(u)] = h[Len(u)]
  <2>1. Len(u) <= Len(v) BY <1>1
  <2>2. QED BY <1>1, <1>2, <1>3, <2>1, HeadsOfPrefix
<1>5. Len(v) \in 1..Len(v) /\ Len(v) - 1 = Len(u) /\ v[Len(v)] = c BY <1>1
<1>6. h[Len(v)] = IF IsHeader(c) THEN Append(h[Len(u)], c[1]) ELSE h[Len(u)]
  BY <1>3, <1>5 DEF AreHeads
<1>7. Heads(u) \in Seq(Datagram) BY <1>1, <1>2 DEF AreHeads
<1>8. QED BY <1>2, <1>3, <1>4, <1>6, <1>7 DEF v

LEMMA HeadsOfConcat ==
  ASSUME NEW u \in Seq(Cells), NEW v \in Seq(Cells)
  PROVE  /\ Heads(u) \in Seq(Datagram) /\ Heads(v) \in Seq(Datagram)
         /\ Heads(u \o v) = Heads(u) \o Heads(v)
<1> DEFINE T == {w \in Seq(Cells) :
                  Heads(w) \in Seq(Datagram) /\ Heads(u \o w) = Heads(u) \o Heads(w)}
<1>1. Heads(u) \in Seq(Datagram)
  <2>1. PICK g : AreHeads(g, u) /\ Heads(u) = g[Len(u)] BY HeadsExist
  <2>2. QED BY <2>1 DEF AreHeads
<1>2. <<>> \in T
  <2>1. Heads(u) \o <<>> = Heads(u) /\ u \o <<>> = u BY <1>1
  <2>2. <<>> \in Seq(Cells) /\ <<>> \in Seq(Datagram) OBVIOUS
  <2>3. Heads(u \o <<>>) = Heads(u) \o Heads(<<>>) BY <2>1, HeadsOfEmpty
  <2>4. QED BY <2>2, <2>3, HeadsOfEmpty
<1>3. ASSUME NEW w \in T, NEW c \in Cells PROVE Append(w, c) \in T
  <2>1. w \in Seq(Cells) /\ u \o w \in Seq(Cells) /\ Append(w, c) \in Seq(Cells) OBVIOUS
  <2>2. u \o Append(w, c) = Append(u \o w, c) BY <2>1
  <2>3. /\ Heads(Append(w, c)) = IF IsHeader(c) THEN Append(Heads(w), c[1]) ELSE Heads(w)
        /\ Heads(Append(u \o w, c)) =
             IF IsHeader(c) THEN Append(Heads(u \o w), c[1]) ELSE Heads(u \o w)
        /\ Heads(w) \in Seq(Datagram) /\ Heads(u \o w) = Heads(u) \o Heads(w)
    BY <2>1, HeadsOfAppend
  <2>4. c[1] \in Datagram BY CellsAre
  <2>5. CASE IsHeader(c)
    <3>1. Append(Heads(u) \o Heads(w), c[1]) = Heads(u) \o Append(Heads(w), c[1])
      BY <1>1, <2>3, <2>4
    <3>2. Append(Heads(w), c[1]) \in Seq(Datagram) BY <2>3, <2>4
    <3>3. QED BY <2>1, <2>2, <2>3, <2>5, <3>1, <3>2
  <2>6. CASE ~IsHeader(c) BY <2>1, <2>2, <2>3, <2>6
  <2>7. QED BY <2>5, <2>6
<1>4. T = Seq(Cells)
  <2> HIDE DEF T
  <2>1. T \in SUBSET Seq(Cells) BY DEF T
  <2>2. QED BY <1>2, <1>3, <2>1, SequenceInduction
<1>5. QED BY <1>1, <1>4

LEMMA NoHeads ==
  ASSUME NEW u \in Seq(Cells), \A i \in 1..Len(u) : ~IsHeader(u[i])
  PROVE  Heads(u) = <<>>
<1> DEFINE T == {w \in Seq(Cells) : (\A i \in 1..Len(w) : ~IsHeader(w[i])) => Heads(w) = <<>>}
<1>1. <<>> \in T BY HeadsOfEmpty
<1>2. ASSUME NEW w \in T, NEW c \in Cells PROVE Append(w, c) \in T
  <2> DEFINE v == Append(w, c)
  <2>1. /\ v \in Seq(Cells) /\ Len(v) = Len(w) + 1 /\ Len(w) \in Nat /\ w \in Seq(Cells)
        /\ \A i \in 1..Len(w) : v[i] = w[i]
        /\ v[Len(w) + 1] = c
    OBVIOUS
  <2>2. Heads(v) = IF IsHeader(c) THEN Append(Heads(w), c[1]) ELSE Heads(w)
    BY <2>1, HeadsOfAppend
  <2> HIDE DEF v
  <2>3. SUFFICES ASSUME \A i \in 1..Len(v) : ~IsHeader(v[i]) PROVE Heads(v) = <<>>
    BY <2>1 DEF v
  <2>4. \A i \in 1..Len(w) : ~IsHeader(w[i])
    <3>1. ASSUME NEW i \in 1..Len(w) PROVE ~IsHeader(w[i])
      <4>1. i \in 1..Len(v) /\ v[i] = w[i] BY <2>1
      <4>2. QED BY <2>3, <4>1
    <3>2. QED BY <3>1
  <2>5. Len(v) \in 1..Len(v) /\ v[Len(v)] = c BY <2>1
  <2>6. ~IsHeader(c) BY <2>3, <2>5
  <2>7. QED BY <2>2, <2>4, <2>6
<1>3. T = Seq(Cells)
  <2> HIDE DEF T
  <2>1. T \in SUBSET Seq(Cells) BY DEF T
  <2>2. QED BY <1>1, <1>2, <2>1, SequenceInduction
<1>4. QED BY <1>3

(* What is stored of a datagram: one header, and cells that follow.        *)
LEMMA StoredCells ==
  ASSUME NEW d \in Datagram
  PROVE  /\ Stored(d) \in Seq(Cells) /\ Len(Stored(d)) = d.size + 1 /\ d.size \in Nat
         /\ \A i \in 1..(d.size + 1) : Stored(d)[i] = <<d, i - 1>>
         /\ Heads(Stored(d)) = <<d>>
<1> DEFINE header == <<d, 0>>
           payload == [i \in 1..d.size |-> <<d, i>>]
<1>1. d.size \in 0..MaxPayload /\ d.size \in Nat BY UdpConstantsOK DEF Datagram
<1>2. ASSUME NEW i \in 0..d.size PROVE <<d, i>> \in Cells
  BY <1>1, UdpConstantsOK DEF Cells
<1>3. /\ header \in Cells /\ payload \in Seq(Cells) /\ Len(payload) = d.size
      /\ \A i \in 1..d.size : payload[i] = <<d, i>>
  <2>1. \A i \in 1..d.size : <<d, i>> \in Cells BY <1>1, <1>2
  <2>2. QED BY <1>1, <1>2, <2>1
<1>4. /\ Stored(d) \in Seq(Cells) /\ Len(Stored(d)) = d.size + 1
      /\ \A i \in 1..(d.size + 1) : Stored(d)[i] = <<d, i - 1>>
  <2>1. \A i \in 1..(d.size + 1) : <<d, i - 1>> \in Cells BY <1>1, <1>2
  <2>2. QED BY <1>1, <2>1 DEF Stored
<1> HIDE DEF payload
<1>5. <<header>> \o payload = Stored(d)
  <2>1. <<header>> \in Seq(Cells) BY <1>3
  <2>2. <<header>> \o payload \in Seq(Cells) /\ Len(<<header>> \o payload) = d.size + 1
    BY <1>3, <2>1
  <2>3. ASSUME NEW i \in 1..(d.size + 1) PROVE (<<header>> \o payload)[i] = Stored(d)[i]
    <3>1. CASE i = 1 BY <1>1, <1>3, <1>4, <3>1
    <3>2. CASE i # 1
      <4>1. i - 1 \in 1..d.size BY <1>1, <3>2
      <4>2. (<<header>> \o payload)[i] = payload[i - 1] BY <1>3, <2>1, <4>1
      <4>3. QED BY <1>3, <1>4, <4>1, <4>2
    <3>3. QED BY <3>1, <3>2
  <2>4. QED BY <1>4, <2>2, <2>3, SeqEqual
<1>6. Heads(<<header>>) = <<d>>
  <2>1. <<header>> = Append(<<>>, header) /\ <<>> \in Seq(Cells) OBVIOUS
  <2>2. Heads(Append(<<>>, header)) = Append(<<>>, d)
    <3>1. IsHeader(header) /\ header[1] = d BY DEF IsHeader
    <3>2. QED BY <1>3, <2>1, <3>1, HeadsOfAppend, HeadsOfEmpty
  <2>3. QED BY <2>1, <2>2
<1>7. Heads(payload) = <<>>
  <2>1. \A i \in 1..Len(payload) : ~IsHeader(payload[i]) BY <1>1, <1>3 DEF IsHeader
  <2>2. QED BY <1>3, <2>1, NoHeads
<1>8. Heads(Stored(d)) = <<d>>
  <2>1. <<header>> \in Seq(Cells) BY <1>3
  <2>2. Heads(<<header>> \o payload) = Heads(<<header>>) \o Heads(payload)
    BY <1>3, <2>1, HeadsOfConcat
  <2>3. <<d>> \in Seq(Datagram) /\ <<d>> \o <<>> = <<d>> OBVIOUS
  <2>4. QED BY <1>5, <1>6, <1>7, <2>2, <2>3
<1>9. QED BY <1>1, <1>4, <1>8

(* The rest of a sequence, after the first k.                              *)
LEMMA Rest ==
  ASSUME NEW u \in Seq(Cells), NEW k \in 0..Len(u)
  PROVE  LET v == SubSeq(u, k + 1, Len(u)) IN
           /\ v \in Seq(Cells) /\ Len(v) = Len(u) - k /\ Len(v) \in Nat
           /\ \A i \in 1..Len(v) : v[i] = u[k + i] /\ k + i \in 1..Len(u)
           /\ SubSeq(u, 1, k) \in Seq(Cells) /\ Len(SubSeq(u, 1, k)) = k
           /\ \A i \in 1..k : SubSeq(u, 1, k)[i] = u[i]
           /\ SubSeq(u, 1, k) \o v = u
<1>1. Len(u) \in Nat /\ k \in Nat OBVIOUS
<1>2. \A i \in 1..Len(u) : u[i] \in Cells OBVIOUS
<1> DEFINE v == SubSeq(u, k + 1, Len(u))
           w == SubSeq(u, 1, k)
<1>3. /\ v \in Seq(Cells) /\ Len(v) = Len(u) - k
      /\ \A i \in 1..(Len(u) - k) : v[i] = u[k + i]
  <2>1. \A i \in (k + 1)..Len(u) : u[i] \in Cells BY <1>1, <1>2
  <2>2. QED BY <1>1, <2>1, SubSeqProperties
<1>4. w \in Seq(Cells) /\ Len(w) = k /\ \A i \in 1..k : w[i] = u[i]
  <2>1. \A i \in 1..k : u[i] \in Cells BY <1>1, <1>2
  <2>2. QED BY <1>1, <2>1, SubSeqProperties
<1>5. w \o v = u
  <2>1. /\ 1 \in 1..(Len(u) + 1) /\ k \in (1 - 1)..Len(u) /\ Len(u) \in k..Len(u)
        /\ SubSeq(u, 1, Len(u)) = u
    BY <1>1, SubSeqFull
  <2>2. QED BY <2>1, ConcatAdjacentSubSeq
<1> HIDE DEF v, w
<1>6. Len(v) \in Nat /\ \A i \in 1..Len(v) : v[i] = u[k + i] /\ k + i \in 1..Len(u)
  BY <1>1, <1>3
<1>7. QED BY <1>3, <1>4, <1>5, <1>6 DEF v, w

LEMMA HeadsOfRest ==
  ASSUME NEW u \in Seq(Cells), NEW k \in 0..Len(u), \A i \in 1..k : ~IsHeader(u[i])
  PROVE  Heads(SubSeq(u, k + 1, Len(u))) = Heads(u)
<1> DEFINE v == SubSeq(u, k + 1, Len(u))
           w == SubSeq(u, 1, k)
<1>1. /\ v \in Seq(Cells) /\ w \in Seq(Cells) /\ Len(w) = k
      /\ \A i \in 1..k : w[i] = u[i]
      /\ w \o v = u
  BY Rest
<1> HIDE DEF v, w
<1>2. Heads(w) = <<>> BY <1>1, NoHeads
<1>3. Heads(u) = Heads(w) \o Heads(v) /\ Heads(v) \in Seq(Datagram) BY <1>1, HeadsOfConcat
<1>4. QED BY <1>2, <1>3 DEF v

LEMMA HeadsOfPacket ==
  ASSUME NEW u \in Seq(Cells), u # <<>>, IsHeader(u[1])
  PROVE  /\ Heads(u) # <<>> /\ Head(Heads(u)) = u[1][1]
         /\ Tail(Heads(u)) = Heads(SubSeq(u, 2, Len(u)))
<1> DEFINE v == SubSeq(u, 2, Len(u))
           w == SubSeq(u, 1, 1)
<1>1. 1 \in 0..Len(u) /\ 1 \in 1..Len(u) OBVIOUS
<1>2. v \in Seq(Cells) /\ w \in Seq(Cells) /\ Len(w) = 1 /\ w[1] = u[1] /\ w \o v = u
  <2>1. SubSeq(u, 1 + 1, Len(u)) = v OBVIOUS
  <2>2. QED BY <1>1, <2>1, Rest
<1> HIDE DEF v, w
<1>3. w = Append(<<>>, u[1]) /\ <<>> \in Seq(Cells) /\ u[1] \in Cells BY <1>1, <1>2
<1>4. u[1][1] \in Datagram BY <1>3, CellsAre
<1>5. Heads(w) = <<u[1][1]>>
  <2>1. Heads(w) = Append(Heads(<<>>), u[1][1]) BY <1>3, HeadsOfAppend
  <2>2. Append(<<>>, u[1][1]) = <<u[1][1]>> OBVIOUS
  <2>3. QED BY <2>1, <2>2, HeadsOfEmpty
<1>6. Heads(u) = Heads(w) \o Heads(v) /\ Heads(v) \in Seq(Datagram) BY <1>2, HeadsOfConcat
<1>7. QED BY <1>4, <1>5, <1>6 DEF v

(* How the unread part of the memory is laid out: after every cell comes   *)
(* the rest of its datagram, then nothing or the header of another.        *)
LaidAt(u, i) ==
  LET d   == u[i][1]
      k   == u[i][2]
      end == i + (d.size - k)
  IN  /\ k <= d.size /\ end <= Len(u)
      /\ \A j \in i..end : u[j] = <<d, k + (j - i)>>
      /\ end < Len(u) => IsHeader(u[end + 1])
Laid(u) == \A i \in 1..Len(u) : LaidAt(u, i)

(* What a memory that is laid out so still holds of an open datagram.      *)
LeftOpen(u) == IF u = <<>> \/ IsHeader(u[1]) THEN 0 ELSE u[1][1].size - u[1][2] + 1

LEMMA LaidRest ==
  ASSUME NEW u \in Seq(Cells), Laid(u), NEW k \in 0..Len(u)
  PROVE  Laid(SubSeq(u, k + 1, Len(u)))
<1> DEFINE v == SubSeq(u, k + 1, Len(u))
<1>1. /\ v \in Seq(Cells) /\ Len(v) = Len(u) - k /\ Len(v) \in Nat
      /\ \A i \in 1..Len(v) : v[i] = u[k + i] /\ k + i \in 1..Len(u)
  BY Rest
<1> HIDE DEF v
<1>2. ASSUME NEW i \in 1..Len(v) PROVE LaidAt(v, i)
  <2> DEFINE d == u[k + i][1]
             c == u[k + i][2]
             end == (k + i) + (d.size - c)
  <2>1. v[i] = u[k + i] /\ k + i \in 1..Len(u) /\ k \in Nat /\ Len(u) \in Nat BY <1>1
  <2>2. d.size \in Nat /\ c \in Nat
    <3>1. u[k + i] \in Cells BY <2>1
    <3>2. QED BY <3>1, CellsAre
  <2>3. /\ c <= d.size /\ end <= Len(u)
        /\ \A j \in (k + i)..end : u[j] = <<d, c + (j - (k + i))>>
        /\ end < Len(u) => IsHeader(u[end + 1])
    BY <2>1 DEF Laid, LaidAt
  <2> DEFINE m == d.size - c
  <2> HIDE DEF d, c
  <2>a. m \in Nat /\ end = (k + i) + m /\ i \in Nat BY <1>1, <2>2, <2>3
  <2> HIDE DEF m, end
  <2>4. end - k = i + (d.size - c) /\ end - k \in Nat /\ end - k >= i
    BY <2>1, <2>a DEF m
  <2>5. end - k <= Len(v) BY <1>1, <2>1, <2>3, <2>a
  <2>6. ASSUME NEW j \in i..(end - k) PROVE v[j] = <<d, c + (j - i)>>
    <3>1. j \in 1..Len(v) /\ k + j \in (k + i)..end BY <2>1, <2>4, <2>5, <2>a
    <3>2. v[j] = u[k + j] BY <1>1, <3>1
    <3>3. u[k + j] = <<d, c + ((k + j) - (k + i))>> BY <2>3, <3>1
    <3>4. (k + j) - (k + i) = j - i BY <2>1
    <3>5. QED BY <3>2, <3>3, <3>4
  <2>7. ASSUME end - k < Len(v) PROVE IsHeader(v[end - k + 1])
    <3>1. end - k + 1 \in 1..Len(v) /\ k + (end - k + 1) = end + 1 /\ end < Len(u)
      BY <1>1, <2>1, <2>4, <2>7, <2>a
    <3>2. v[end - k + 1] = u[end + 1] BY <1>1, <3>1
    <3>3. QED BY <2>3, <3>1, <3>2
  <2>8. v[i][1] = d /\ v[i][2] = c BY <2>1 DEF d, c
  <2>9. LaidAt(v, i)
    <3>1. QED BY <2>3, <2>4, <2>5, <2>6, <2>7, <2>8 DEF LaidAt
  <2>10. QED BY <2>9
<1>3. QED BY <1>2 DEF Laid, v

LEMMA LaidStored ==
  ASSUME NEW u \in Seq(Cells), Laid(u), NEW e \in Datagram
  PROVE  Laid(u \o Stored(e)) /\ LeftOpen(u \o Stored(e)) = LeftOpen(u)
<1> DEFINE s == Stored(e)
           v == u \o s
           n == Len(u)
<1>1. /\ s \in Seq(Cells) /\ Len(s) = e.size + 1 /\ e.size \in Nat
      /\ \A i \in 1..(e.size + 1) : s[i] = <<e, i - 1>>
  BY StoredCells
<1> HIDE DEF s
<1>2. /\ v \in Seq(Cells) /\ n \in Nat /\ Len(v) = n + e.size + 1
      /\ \A i \in 1..n : v[i] = u[i]
      /\ \A i \in 1..(e.size + 1) : v[n + i] = <<e, i - 1>>
  BY <1>1
<1> HIDE DEF v, n
<1>3. IsHeader(v[n + 1])
  <2>1. 1 \in 1..(e.size + 1) BY <1>1
  <2>2. v[n + 1] = <<e, 1 - 1>> BY <1>2, <2>1
  <2>3. QED BY <2>2 DEF IsHeader
<1>4. ASSUME NEW i \in 1..Len(v), i <= n PROVE LaidAt(v, i)
  <2> DEFINE d == u[i][1]
             c == u[i][2]
             end == i + (d.size - c)
  <2>1. i \in 1..n /\ v[i] = u[i] BY <1>2, <1>4
  <2>2. /\ c <= d.size /\ end <= n
        /\ \A j \in i..end : u[j] = <<d, c + (j - i)>>
        /\ end < n => IsHeader(u[end + 1])
    BY <2>1 DEF Laid, LaidAt, n
  <2>3. d.size \in Nat /\ c \in Nat
    <3>1. u[i] \in Cells BY <2>1 DEF n
    <3>2. QED BY <3>1, CellsAre
  <2>4. end \in Nat /\ end >= i
    <3>1. d.size - c \in Nat BY <2>2, <2>3
    <3>2. QED BY <3>1
  <2> HIDE DEF end
  <2>5. end <= Len(v) BY <1>1, <1>2, <2>2, <2>4
  <2>6. ASSUME NEW j \in i..end PROVE v[j] = <<d, c + (j - i)>>
    <3>1. j \in 1..n BY <1>2, <2>1, <2>2, <2>4
    <3>2. QED BY <1>2, <2>2, <3>1
  <2>7. IsHeader(v[end + 1])
    <3>1. CASE end = n BY <1>3, <3>1
    <3>2. CASE end < n
      <4>1. end + 1 \in 1..n BY <1>2, <2>4, <3>2
      <4>2. QED BY <1>2, <2>2, <3>2, <4>1
    <3>3. QED BY <1>2, <2>2, <2>4, <3>1, <3>2
  <2>8. QED BY <2>1, <2>2, <2>5, <2>6, <2>7 DEF LaidAt, end
<1>5. ASSUME NEW i \in 1..Len(v), i > n PROVE LaidAt(v, i)
  <2>1. i - n \in 1..(e.size + 1) /\ n + (i - n) = i BY <1>1, <1>2, <1>5
  <2>2. v[i] = <<e, i - n - 1>> BY <1>2, <2>1
  <2>3. i + (e.size - (i - n - 1)) = Len(v) /\ i - n - 1 <= e.size BY <1>1, <1>2, <2>1
  <2>4. ASSUME NEW j \in i..Len(v) PROVE v[j] = <<e, (i - n - 1) + (j - i)>>
    <3>1. j \in Int /\ j - n \in 1..(e.size + 1) /\ n + (j - n) = j
      <4>1. j \in Int /\ j > n /\ j <= n + e.size + 1 BY <1>1, <1>2, <1>5
      <4>2. n \in Int /\ e.size \in Int BY <1>1, <1>2
      <4> DEFINE z == e.size
      <4>3. z \in Int /\ j <= n + z + 1 BY <4>1, <4>2
      <4> HIDE DEF z
      <4>4. j - n \in 1..(z + 1) /\ n + (j - n) = j BY <4>1, <4>2, <4>3
      <4>5. QED BY <4>1, <4>4 DEF z
    <3>2. v[j] = <<e, j - n - 1>> BY <1>2, <3>1
    <3>3. j - n - 1 = (i - n - 1) + (j - i) BY <1>2
    <3>4. QED BY <3>2, <3>3
  <2>5. v[i][1] = e /\ v[i][2] = i - n - 1 BY <2>2
  <2>6. ~(Len(v) < Len(v)) /\ Len(v) <= Len(v) BY <1>1, <1>2
  <2>7. QED BY <2>3, <2>4, <2>5, <2>6 DEF LaidAt
<1>6. Laid(v)
  <2>1. \A i \in 1..Len(v) : i <= n \/ i > n BY <1>2
  <2>2. QED BY <1>4, <1>5, <2>1 DEF Laid
<1>7. LeftOpen(v) = LeftOpen(u)
  <2>1. CASE u = <<>> 
    <3>1. n = 0 BY <2>1 DEF n
    <3>2. IsHeader(v[1]) BY <1>3, <3>1
    <3>3. QED BY <2>1, <3>2 DEF LeftOpen
  <2>2. CASE u # <<>>
    <3>1. 1 \in 1..n BY <1>2, <2>2 DEF n
    <3>2. v[1] = u[1] BY <1>2, <3>1
    <3>3. v # <<>> BY <1>1, <1>2
    <3>4. QED BY <2>2, <3>2, <3>3 DEF LeftOpen
  <2>3. QED BY <2>1, <2>2
<1>8. QED BY <1>6, <1>7 DEF v, s

(* The open datagram lies before the next header, as far as it is left.    *)
LEMMA LeftOpenLies ==
  ASSUME NEW u \in Seq(Cells), Laid(u)
  PROVE  LET r == LeftOpen(u) IN
           /\ r \in 0..MaxPayload /\ r \in Nat /\ r <= Len(u)
           /\ \A j \in 1..r : ~IsHeader(u[j]) /\ u[j] = <<u[1][1], u[1][2] + (j - 1)>>
           /\ r < Len(u) => IsHeader(u[r + 1])
<1>1. CASE u = <<>> \/ IsHeader(u[1])
  <2>1. LeftOpen(u) = 0 BY <1>1 DEF LeftOpen
  <2>2. u # <<>> => IsHeader(u[0 + 1]) BY <1>1
  <2>3. Len(u) \in Nat /\ (u = <<>> => ~(0 < Len(u))) OBVIOUS
  <2>4. QED BY <2>1, <2>2, <2>3, UdpConstantsOK
<1>2. CASE u # <<>> /\ ~IsHeader(u[1])
  <2> DEFINE d == u[1][1]
             c == u[1][2]
             r == d.size - c + 1
  <2>1. 1 \in 1..Len(u) /\ Len(u) \in Nat BY <1>2
  <2>2. d.size \in 0..MaxPayload /\ c \in Nat /\ c # 0 /\ d.size \in Nat
    <3>1. u[1] \in Cells BY <2>1
    <3>2. QED BY <1>2, <3>1, CellsAre DEF IsHeader
  <2>3. /\ c <= d.size /\ 1 + (d.size - c) <= Len(u)
        /\ \A j \in 1..(1 + (d.size - c)) : u[j] = <<d, c + (j - 1)>>
        /\ 1 + (d.size - c) < Len(u) => IsHeader(u[1 + (d.size - c) + 1])
    BY <2>1 DEF Laid, LaidAt
  <2>4. LeftOpen(u) = r BY <1>2 DEF LeftOpen
  <2>5. r = 1 + (d.size - c) /\ r \in 0..MaxPayload /\ r \in Nat
    <3>1. d.size - c \in 0..(d.size - 1) /\ c \in Int BY <2>2, <2>3
    <3>2. MaxPayload \in Nat BY UdpConstantsOK
    <3> HIDE DEF d, c
    <3>3. QED BY <2>2, <3>1, <3>2
  <2> HIDE DEF d, c, r
  <2>6. ASSUME NEW j \in 1..r PROVE ~IsHeader(u[j]) /\ u[j] = <<d, c + (j - 1)>>
    <3>1. u[j] = <<d, c + (j - 1)>> BY <2>3, <2>5
    <3>2. c + (j - 1) # 0 BY <2>2
    <3>3. QED BY <3>1, <3>2 DEF IsHeader
  <2>7. r <= Len(u) /\ (r < Len(u) => IsHeader(u[r + 1])) BY <2>3, <2>5
  <2>8. QED BY <2>4, <2>5, <2>6, <2>7 DEF d, c
<1>3. QED BY <1>1, <1>2

LEMMA LeftOpenRest ==
  ASSUME NEW u \in Seq(Cells), Laid(u), NEW k \in 0..LeftOpen(u)
  PROVE  LeftOpen(SubSeq(u, k + 1, Len(u))) = LeftOpen(u) - k
<1> DEFINE v == SubSeq(u, k + 1, Len(u))
           r == LeftOpen(u)
<1>1. /\ r \in Nat /\ r <= Len(u) /\ Len(u) \in Nat /\ k \in Nat /\ k <= r
      /\ \A j \in 1..r : ~IsHeader(u[j]) /\ u[j] = <<u[1][1], u[1][2] + (j - 1)>>
      /\ r < Len(u) => IsHeader(u[r + 1])
  <2>1. /\ r \in Nat /\ r <= Len(u)
        /\ \A j \in 1..r : ~IsHeader(u[j]) /\ u[j] = <<u[1][1], u[1][2] + (j - 1)>>
        /\ r < Len(u) => IsHeader(u[r + 1])
    BY LeftOpenLies
  <2>2. k \in 0..r OBVIOUS
  <2> HIDE DEF r
  <2>3. QED BY <2>1, <2>2
<1>2. /\ v \in Seq(Cells) /\ Len(v) = Len(u) - k /\ Len(v) \in Nat
      /\ \A i \in 1..Len(v) : v[i] = u[k + i]
  <2>1. k \in 0..Len(u)
    <3> HIDE DEF r
    <3>1. QED BY <1>1
  <2>2. QED BY <2>1, Rest
<1> HIDE DEF v
<1>3. CASE k = r
  <2> HIDE DEF r
  <2>1. v = <<>> \/ IsHeader(v[1])
    <3>1. CASE r < Len(u)
      <4>1. 1 \in 1..Len(v) BY <1>1, <1>2, <1>3, <3>1
      <4>2. v[1] = u[k + 1] BY <1>2, <4>1
      <4>3. QED BY <1>1, <1>3, <3>1, <4>2
    <3>2. CASE ~(r < Len(u))
      <4>1. Len(v) = 0 BY <1>1, <1>2, <1>3, <3>2
      <4>2. QED BY <1>2, <4>1
    <3>3. QED BY <3>1, <3>2
  <2>2. LeftOpen(v) = 0 BY <2>1 DEF LeftOpen
  <2>3. QED BY <1>1, <1>3, <2>2 DEF r, v
<1>4. CASE k # r
  <2>1. u # <<>> /\ ~IsHeader(u[1]) /\ r = u[1][1].size - u[1][2] + 1
    <3>1. r # 0
      <4> HIDE DEF r
      <4>1. QED BY <1>1, <1>4
    <3>2. QED BY <3>1 DEF LeftOpen
  <2> HIDE DEF r
  <2>2. k + 1 \in 1..r /\ 1 \in 1..Len(v) /\ (k + 1) - 1 = k BY <1>1, <1>2, <1>4
  <2>3. ~IsHeader(u[k + 1]) /\ u[k + 1] = <<u[1][1], u[1][2] + ((k + 1) - 1)>> BY <1>1, <2>2
  <2>4. v[1] = <<u[1][1], u[1][2] + k>> /\ ~IsHeader(v[1]) BY <1>2, <2>2, <2>3
  <2>5. v # <<>> BY <1>2, <2>2
  <2>6. LeftOpen(v) = u[1][1].size - (u[1][2] + k) + 1 BY <2>4, <2>5 DEF LeftOpen
  <2>7. u[1][1].size \in Int /\ u[1][2] \in Int
    <3>1. 1 \in 1..Len(u) BY <2>1
    <3>2. u[1] \in Cells BY <3>1
    <3>3. QED BY <3>2, CellsAre
  <2>8. QED BY <1>1, <2>1, <2>6, <2>7 DEF r, v
<1>5. QED BY <1>3, <1>4

LEMMA LeftOpenOfPacket ==
  ASSUME NEW u \in Seq(Cells), Laid(u), u # <<>>, IsHeader(u[1])
  PROVE  LET v == SubSeq(u, 2, Len(u))
             d == u[1][1]
         IN  /\ LeftOpen(v) = d.size /\ d.size \in Nat /\ d.size <= Len(v)
             /\ \A j \in 1..d.size : v[j] = <<d, j>>
<1> DEFINE v == SubSeq(u, 2, Len(u))
           d == u[1][1]
           n == d.size
<1>1. 1 \in 1..Len(u) /\ 1 \in 0..Len(u) /\ Len(u) \in Nat OBVIOUS
<1>2. n \in Nat /\ u[1][2] = 0
  <2>1. u[1] \in Cells BY <1>1
  <2>2. QED BY <2>1, CellsAre DEF IsHeader
<1>3. /\ v \in Seq(Cells) /\ Len(v) = Len(u) - 1 /\ Len(v) \in Nat
      /\ \A i \in 1..Len(v) : v[i] = u[1 + i]
  <2> DEFINE w == SubSeq(u, 1 + 1, Len(u))
  <2>1. /\ w \in Seq(Cells) /\ Len(w) = Len(u) - 1 /\ Len(w) \in Nat
        /\ \A i \in 1..Len(w) : w[i] = u[1 + i]
    BY <1>1, Rest
  <2>2. w = v OBVIOUS
  <2> HIDE DEF w, v
  <2>3. QED BY <2>1, <2>2
<1>4. /\ 1 + (n - 0) <= Len(u)
      /\ \A j \in 1..(1 + (n - 0)) : u[j] = <<d, 0 + (j - 1)>>
      /\ 1 + (n - 0) < Len(u) => IsHeader(u[1 + (n - 0) + 1])
  BY <1>1, <1>2 DEF Laid, LaidAt
<1>5. /\ n + 1 <= Len(u)
      /\ \A j \in 1..(n + 1) : u[j] = <<d, j - 1>>
      /\ n + 1 < Len(u) => IsHeader(u[n + 2])
  <2> HIDE DEF n, d
  <2>1. 1 + (n - 0) = n + 1 /\ (n + 1) + 1 = n + 2 BY <1>2
  <2>2. \A j \in 1..(n + 1) : 0 + (j - 1) = j - 1 BY <1>2
  <2>3. QED BY <1>4, <2>1, <2>2
<1> HIDE DEF v, n, d
<1>6. n <= Len(v) BY <1>2, <1>3, <1>5
<1>7. ASSUME NEW j \in 1..n PROVE v[j] = <<d, j>>
  <2>1. j \in 1..Len(v) /\ 1 + j \in 1..(n + 1) /\ (1 + j) - 1 = j BY <1>2, <1>3, <1>6
  <2>2. v[j] = u[1 + j] BY <1>3, <2>1
  <2>3. u[1 + j] = <<d, (1 + j) - 1>> BY <1>5, <2>1
  <2>4. QED BY <2>1, <2>2, <2>3
<1>8. LeftOpen(v) = n
  <2>1. CASE n = 0
    <3>1. v = <<>> \/ IsHeader(v[1])
      <4>1. CASE Len(v) = 0 BY <1>3, <4>1
      <4>2. CASE Len(v) # 0
        <5>1. 1 \in 1..Len(v) /\ n + 1 < Len(u) /\ n + 2 = 1 + 1 BY <1>1, <1>3, <2>1, <4>2
        <5>2. QED BY <1>3, <1>5, <5>1
      <4>3. QED BY <4>1, <4>2
    <3>2. QED BY <2>1, <3>1 DEF LeftOpen
  <2>2. CASE n # 0
    <3>1. 1 \in 1..n /\ 1 \in 1..Len(v) BY <1>2, <1>3, <1>6, <2>2
    <3>2. v[1] = <<d, 1>> /\ v # <<>> BY <1>3, <1>7, <3>1
    <3>3. ~IsHeader(v[1]) BY <3>2 DEF IsHeader
    <3>4. LeftOpen(v) = n - 1 + 1 BY <3>2, <3>3 DEF LeftOpen, n
    <3>5. QED BY <1>2, <3>4
  <2>3. QED BY <2>1, <2>2
<1>9. QED BY <1>2, <1>6, <1>7, <1>8 DEF v, d, n

LEMMA RestOfRest ==
  ASSUME NEW u \in Seq(Cells), NEW a \in Nat, NEW b \in Nat, a + b <= Len(u)
  PROVE  LET v == SubSeq(u, a + 1, Len(u)) IN
           SubSeq(v, b + 1, Len(v)) = SubSeq(u, (a + b) + 1, Len(u))
<1> DEFINE v == SubSeq(u, a + 1, Len(u))
           w == SubSeq(v, b + 1, Len(v))
           x == SubSeq(u, (a + b) + 1, Len(u))
<1>1. a \in 0..Len(u) /\ a + b \in 0..Len(u) /\ Len(u) \in Nat OBVIOUS
<1>2. v \in Seq(Cells) /\ Len(v) = Len(u) - a /\ \A i \in 1..Len(v) : v[i] = u[a + i]
  BY <1>1, Rest
<1>3. x \in Seq(Cells) /\ Len(x) = Len(u) - (a + b) /\ \A i \in 1..Len(x) : x[i] = u[(a + b) + i]
  BY <1>1, Rest
<1> HIDE DEF x
<1>4. w \in Seq(Cells) /\ Len(w) = Len(v) - b /\ \A i \in 1..Len(w) : w[i] = v[b + i]
  <2> HIDE DEF v
  <2>1. b \in 0..Len(v) BY <1>1, <1>2
  <2>2. QED BY <1>2, <2>1, Rest
<1> HIDE DEF v, w
<1>5. Len(w) = Len(x) /\ Len(w) \in Nat BY <1>1, <1>2, <1>3, <1>4
<1>6. ASSUME NEW i \in 1..Len(w) PROVE w[i] = x[i]
  <2>1. b + i \in 1..Len(v) /\ a + (b + i) = (a + b) + i BY <1>1, <1>2, <1>4, <1>5
  <2>2. w[i] = v[b + i] /\ v[b + i] = u[a + (b + i)] BY <1>2, <1>4, <2>1
  <2>3. x[i] = u[(a + b) + i] BY <1>3, <1>5
  <2>4. QED BY <2>1, <2>2, <2>3
<1>7. w = x BY <1>3, <1>4, <1>5, <1>6, SeqEqual
<1>8. QED BY <1>7 DEF v, w, x

(* The pointers are counted around Pointers.                               *)
LEMMA PointerAhead ==
  ASSUME NEW a \in 0..(Pointers - 1), NEW k \in 0..(Pointers - 1)
  PROVE  ((((a + k) % Pointers) - a) % Pointers) = k
<1>1. Pointers \in Nat \ {0} BY UdpConstantsOK
<1>2. ((a + k) % Pointers) = IF a + k < Pointers THEN a + k ELSE a + k - Pointers BY <1>1
<1>3. CASE a + k < Pointers
  <2>1. ((a + k) % Pointers) - a = k BY <1>1, <1>2, <1>3
  <2>2. QED BY <1>1, <2>1
<1>4. CASE ~(a + k < Pointers)
  <2>1. ((a + k) % Pointers) - a = k - Pointers BY <1>1, <1>2, <1>4
  <2>2. ((k - Pointers) % Pointers) = k BY <1>1
  <2>3. QED BY <2>1, <2>2
<1>5. QED BY <1>3, <1>4

LEMMA PointerAdds ==
  ASSUME NEW a \in 0..(Pointers - 1), NEW j \in Nat, NEW k \in Nat, j + k < Pointers
  PROVE  ((((a + j) % Pointers) + k) % Pointers) = ((a + (j + k)) % Pointers)
<1>1. Pointers \in Nat \ {0} BY UdpConstantsOK
<1>2. ((a + j) % Pointers) = IF a + j < Pointers THEN a + j ELSE a + j - Pointers BY <1>1
<1>3. CASE a + j < Pointers BY <1>1, <1>2, <1>3
<1>4. CASE ~(a + j < Pointers)
  <2>1. ((a + j) % Pointers) + k = (a + (j + k)) - Pointers BY <1>1, <1>2, <1>4
  <2>2. (a + (j + k)) \in Pointers..(2 * Pointers - 1) BY <1>1, <1>4
  <2>3. ((a + (j + k)) % Pointers) = (a + (j + k)) - Pointers BY <1>1, <2>2
  <2>4. (((a + (j + k)) - Pointers) % Pointers) = (a + (j + k)) - Pointers BY <1>1, <2>2
  <2>5. QED BY <2>1, <2>3, <2>4
<1>5. QED BY <1>3, <1>4

------------------------------------------------------------------------------
(* The strengthening: what is unread is laid out, and remaining is what it *)
(* holds of the open datagram.                                             *)
UdpInv ==
  /\ UdpTypeOK /\ MemoryAgrees
  /\ udpOp # "closed" => Laid(Unread) /\ remaining = LeftOpen(Unread)

LEMMA UnreadIsRest ==
  ASSUME UdpTypeOK, MemoryAgrees, udpOp # "closed"
  PROVE  /\ RX_inc \in 0..Len(memory) /\ RX_inc \in 0..(Pointers - 1)
         /\ ((RX_RD - rd) % Pointers) = RX_inc
         /\ Unread = SubSeq(memory, RX_inc + 1, Len(memory))
         /\ Unread \in Seq(Cells) /\ Len(Unread) = Len(memory) - RX_inc
         /\ Len(Unread) \in Nat /\ RX_RSR <= Len(Unread)
<1>1. /\ memory \in Seq(Cells) /\ Len(memory) \in Nat /\ Len(memory) <= Size
      /\ Size < Pointers /\ Size \in Nat /\ Pointers \in Nat
      /\ RX_inc \in Nat /\ RX_RSR \in Nat /\ RX_RSR + RX_inc <= Len(memory)
      /\ rd \in 0..(Pointers - 1) /\ RX_RD = ((rd + RX_inc) % Pointers)
  BY UdpConstantsOK DEF UdpTypeOK, MemoryAgrees
<1>2. RX_inc \in 0..Len(memory) /\ RX_inc \in 0..(Pointers - 1) BY <1>1
<1>3. ((RX_RD - rd) % Pointers) = RX_inc BY <1>1, <1>2, PointerAhead
<1>4. Unread = SubSeq(memory, RX_inc + 1, Len(memory)) BY <1>3 DEF Unread
<1>5. Unread \in Seq(Cells) /\ Len(Unread) = Len(memory) - RX_inc BY <1>1, <1>2, <1>4, Rest
<1>6. QED BY <1>1, <1>2, <1>3, <1>4, <1>5

(* socketRecv takes what it says from what is unread, wherever the memory  *)
(* wraps around and whether or not the chip is told.                       *)
LEMMA ReceivesUnread ==
  ASSUME UdpTypeOK, MemoryAgrees, udpOp # "closed", NEW len \in Nat \ {0},
         Available(len) # 0, socketRecv(len)
  PROVE  /\ Received(len) \in 1..len /\ Received(len) <= Len(Unread)
         /\ len <= Len(Unread) => Received(len) = len
         /\ Unread' = SubSeq(Unread, Received(len) + 1, Len(Unread))
         /\ RX_RD' = ((rd' + RX_inc') % Pointers) /\ RX_RSR' + RX_inc' <= Len(memory')
         /\ RX_inc' = Len(memory') => memory' = <<>>
         /\ memory' \in Seq(Cells) /\ Len(memory') <= Size
         /\ rd' \in 0..(Pointers - 1) /\ RX_RSR' \in 0..Size /\ RX_RD' \in 0..(Pointers - 1)
         /\ RX_inc' \in 0..(Threshold - 1)
<1> DEFINE got  == Received(len)
           rest == Available(len) - got
           ptr  == ((RX_RD + got) % Pointers)
<1>1. /\ RX_inc \in 0..Len(memory) /\ RX_inc \in 0..(Pointers - 1)
      /\ Unread = SubSeq(memory, RX_inc + 1, Len(memory))
      /\ Unread \in Seq(Cells) /\ Len(Unread) = Len(memory) - RX_inc
      /\ Len(Unread) \in Nat /\ RX_RSR <= Len(Unread)
  BY UnreadIsRest
<1>2. /\ memory \in Seq(Cells) /\ Len(memory) \in Nat /\ Len(memory) <= Size
      /\ Size < Pointers /\ Size \in Nat /\ Pointers \in Nat \ {0}
      /\ RX_inc \in Nat /\ RX_RSR \in Nat /\ Threshold \in Nat /\ Threshold <= Size
      /\ Threshold # 0
      /\ rd \in 0..(Pointers - 1) /\ RX_RD = ((rd + RX_inc) % Pointers)
  BY UdpConstantsOK DEF UdpTypeOK, MemoryAgrees
<1>3. Available(len) \in Nat /\ Available(len) <= Len(Unread)
  BY <1>1, <1>2 DEF Available
<1>4. /\ got \in 1..len /\ got <= Available(len) /\ got \in Nat /\ got # 0
      /\ rest \in Nat /\ rest + got = Available(len)
  BY <1>3 DEF Received
<1>5. len <= Len(Unread) => got = len BY <1>1, <1>2 DEF Received, Available
<1>6. /\ RX_RD' = ptr /\ RX_RSR' = rest
      /\ IF TellChip(RX_inc + got, rest)
         THEN RX_inc' = 0 /\ ChipFrees(ptr)
         ELSE RX_inc' = RX_inc + got /\ UNCHANGED <<rd, memory>>
  BY DEF socketRecv
<1>a. Received(len) = got OBVIOUS
<1> HIDE DEF got, rest
<1>7. /\ RX_inc + got \in 0..(Pointers - 1) /\ RX_inc + got \in 0..Len(memory)
      /\ rest <= Len(memory) - (RX_inc + got)
  BY <1>1, <1>2, <1>3, <1>4
<1>8. ptr = ((rd + (RX_inc + got)) % Pointers) /\ ptr \in 0..(Pointers - 1)
  <2>1. (((rd + RX_inc) % Pointers) + got) % Pointers = ((rd + (RX_inc + got)) % Pointers)
    <3>1. RX_inc + got < Pointers BY <1>2, <1>7
    <3>2. QED BY <1>2, <1>4, <3>1, PointerAdds
  <2>2. ((rd + (RX_inc + got)) % Pointers) \in 0..(Pointers - 1) BY <1>2, <1>4
  <2>3. QED BY <1>2, <2>1, <2>2
<1>9. ((ptr - rd) % Pointers) = RX_inc + got BY <1>2, <1>7, <1>8, PointerAhead
<1> DEFINE left == SubSeq(memory, (RX_inc + got) + 1, Len(memory))
<1>10. /\ left \in Seq(Cells) /\ Len(left) = Len(memory) - (RX_inc + got) /\ Len(left) \in Nat
  BY <1>2, <1>7, Rest
<1>11. SubSeq(Unread, got + 1, Len(Unread)) = left
  <2>1. RX_inc + got <= Len(memory) BY <1>2, <1>7
  <2>2. QED BY <1>1, <1>2, <1>4, <2>1, RestOfRest
<1> HIDE DEF ptr
<1>12. CASE TellChip(RX_inc + got, rest)
  <2>1. RX_inc' = 0 /\ rd' = ptr /\ memory' = left
    BY <1>6, <1>9, <1>12 DEF ChipFrees
  <2> HIDE DEF left
  <2>2. ((ptr - ptr) % Pointers) = 0 /\ ((ptr + 0) % Pointers) = ptr BY <1>2, <1>8
  <2>3. Unread' = SubSeq(left, 0 + 1, Len(left)) BY <1>6, <2>1, <2>2 DEF Unread
  <2>4. SubSeq(left, 0 + 1, Len(left)) = left BY <1>10, SubSeqFull
  <2>5. /\ RX_RSR' + RX_inc' <= Len(memory') /\ Len(memory') <= Size
        /\ (RX_inc' = Len(memory') => memory' = <<>>) /\ RX_RSR' \in 0..Size
    BY <1>2, <1>4, <1>6, <1>7, <1>10, <2>1
  <2>6. /\ RX_inc' \in 0..(Threshold - 1) /\ rd' \in 0..(Pointers - 1)
        /\ RX_RD' \in 0..(Pointers - 1) /\ RX_RD' = ((rd' + RX_inc') % Pointers)
    BY <1>2, <1>6, <1>8, <2>1, <2>2
  <2>7. memory' \in Seq(Cells) /\ Unread' = SubSeq(Unread, got + 1, Len(Unread))
    BY <1>10, <1>11, <2>1, <2>3, <2>4
  <2>8. got \in 1..len /\ got <= Len(Unread) BY <1>1, <1>3, <1>4
  <2>9. QED BY <1>a, <1>5, <2>5, <2>6, <2>7, <2>8
<1>13. CASE ~TellChip(RX_inc + got, rest)
  <2>1. RX_inc' = RX_inc + got /\ rd' = rd /\ memory' = memory BY <1>6, <1>13
  <2>2. RX_inc + got < Threshold /\ rest # 0 BY <1>2, <1>4, <1>13 DEF TellChip
  <2>3. Unread' = left BY <1>6, <1>9, <2>1 DEF Unread
  <2> HIDE DEF left
  <2>4. /\ RX_RSR' + RX_inc' <= Len(memory') /\ Len(memory') <= Size
        /\ (RX_inc' = Len(memory') => memory' = <<>>) /\ RX_RSR' \in 0..Size
    BY <1>2, <1>4, <1>6, <1>7, <2>1, <2>2
  <2>5. /\ RX_inc' \in 0..(Threshold - 1) /\ rd' \in 0..(Pointers - 1)
        /\ RX_RD' \in 0..(Pointers - 1) /\ RX_RD' = ((rd' + RX_inc') % Pointers)
    BY <1>2, <1>4, <1>6, <1>8, <2>1, <2>2
  <2>6. memory' \in Seq(Cells) /\ Unread' = SubSeq(Unread, got + 1, Len(Unread))
    BY <1>2, <1>11, <2>1, <2>3
  <2>7. got \in 1..len /\ got <= Len(Unread) BY <1>1, <1>3, <1>4
  <2>8. QED BY <1>a, <1>5, <2>4, <2>5, <2>6, <2>7
<1>14. QED BY <1>12, <1>13

LEMMA InitUdpInv == UdpInit => UdpInv
<1>1. SUFFICES ASSUME UdpInit PROVE UdpInv OBVIOUS
<1>2. <<>> \in Seq(Cells) /\ Len(<<>>) = 0 OBVIOUS
<1>3. UdpTypeOK BY <1>1, <1>2, UdpConstantsOK DEF UdpInit, UdpTypeOK
<1>4. QED BY <1>1, <1>3 DEF UdpInit, UdpInv, MemoryAgrees

LEMMA ArrivalStores ==
  ASSUME UdpInv, NEW d \in Datagram, Arrives(d)
  PROVE  UdpInv' /\ Unread' = Unread \o Stored(d)
<1>1. /\ udpOp # "closed" /\ memory' = memory \o Stored(d) /\ Len(memory) + d.size + 1 <= Size
      /\ UNCHANGED <<rd, RX_RSR, RX_RD, RX_inc, remaining, udpOp>>
  BY DEF Arrives, socketstate
<1>2. UdpTypeOK /\ MemoryAgrees /\ Laid(Unread) /\ remaining = LeftOpen(Unread)
  BY <1>1 DEF UdpInv
<1>3. memory \in Seq(Cells) /\ Len(memory) \in Nat BY <1>2 DEF UdpTypeOK
<1>4. Stored(d) \in Seq(Cells) /\ Len(Stored(d)) = d.size + 1 /\ d.size \in Nat
  BY StoredCells
<1>5. memory' \in Seq(Cells) /\ Len(memory') = Len(memory) + (d.size + 1)
  BY <1>1, <1>3, <1>4, ConcatProperties
<1>6. Len(memory') <= Size /\ Len(memory') > Len(memory) /\ Len(memory') \in Nat
  <2>1. Size \in Nat BY UdpConstantsOK
  <2>2. QED BY <1>1, <1>3, <1>4, <1>5, <2>1
<1>7. UdpTypeOK' BY <1>1, <1>2, <1>5, <1>6 DEF UdpTypeOK
<1>8. MemoryAgrees'
  <2>1. RX_RD = ((rd + RX_inc) % Pointers) /\ RX_RSR + RX_inc <= Len(memory)
    BY <1>1, <1>2 DEF MemoryAgrees
  <2>2. RX_inc \in Nat /\ RX_RSR \in Nat BY <1>2, UdpConstantsOK DEF UdpTypeOK
  <2>3. RX_RSR + RX_inc <= Len(memory') /\ RX_inc # Len(memory') BY <1>3, <1>6, <2>1, <2>2
  <2>4. QED BY <1>1, <2>1, <2>3 DEF MemoryAgrees
<1>9. Unread' = Unread \o Stored(d)
  <2> DEFINE u == SubSeq(memory, RX_inc + 1, Len(memory))
             v == SubSeq(memory', RX_inc + 1, Len(memory'))
             s == Stored(d)
  <2>1. RX_inc \in 0..Len(memory) /\ Unread = u BY <1>1, <1>2, UnreadIsRest
  <2>2. Unread' = v
    <3>1. udpOp' # "closed" BY <1>1
    <3>2. (Unread = SubSeq(memory, RX_inc + 1, Len(memory)))'
      <4>1. ((RX_RD - rd) % Pointers) = RX_inc BY <1>1, <1>2, UnreadIsRest
      <4>2. QED BY <1>1, <4>1 DEF Unread
    <3>3. QED BY <1>1, <3>2
  <2>3. /\ u \in Seq(Cells) /\ Len(u) = Len(memory) - RX_inc
        /\ \A i \in 1..Len(u) : u[i] = memory[RX_inc + i]
    BY <1>3, <2>1, Rest
  <2>4. /\ v \in Seq(Cells) /\ Len(v) = Len(memory') - RX_inc
        /\ \A i \in 1..Len(v) : v[i] = memory'[RX_inc + i]
    <3>1. RX_inc \in 0..Len(memory') BY <1>3, <1>6, <2>1
    <3>2. QED BY <1>5, <3>1, Rest
  <2> HIDE DEF u, v
  <2>5. u \o s \in Seq(Cells) /\ Len(u \o s) = Len(v) /\ Len(v) = Len(u) + Len(s)
    <3>1. u \o s \in Seq(Cells) /\ Len(u \o s) = Len(u) + Len(s)
      BY <1>4, <2>3, ConcatProperties
    <3> HIDE DEF s
    <3>2. Len(s) = d.size + 1 BY <1>4 DEF s
    <3>3. RX_inc \in Nat BY <2>1
    <3>4. d.size \in Nat /\ Len(memory) \in Nat BY <1>3, <1>4
    <3>5. /\ Len(u) = Len(memory) - RX_inc /\ Len(v) = Len(memory') - RX_inc
          /\ Len(memory') = Len(memory) + (d.size + 1)
      BY <1>5, <2>3, <2>4
    <3>6. Len(u) + Len(s) = Len(v) BY <3>2, <3>3, <3>4, <3>5
    <3>7. QED BY <3>1, <3>6
  <2>6. ASSUME NEW i \in 1..Len(v) PROVE (u \o s)[i] = v[i]
    <3> DEFINE j == RX_inc + i
    <3>1. Len(v) = Len(u) + Len(s) /\ Len(u) \in Nat /\ Len(s) \in Nat
      BY <1>4, <2>3, <2>5, LenProperties
    <3>2. v[i] = memory'[j] BY <2>4
    <3>3. CASE i <= Len(u)
      <4>1. i \in 1..Len(u) /\ j \in 1..Len(memory) BY <1>3, <2>1, <2>3, <3>1, <3>3
      <4>2. (u \o s)[i] = u[i] BY <1>4, <2>3, <3>1, <4>1
      <4>3. memory'[j] = memory[j]
        <5> HIDE DEF j
        <5>1. QED BY <1>1, <1>3, <1>4, <4>1
      <4>4. QED BY <2>3, <3>2, <4>1, <4>2, <4>3
    <3>4. CASE i > Len(u)
      <4>1. (u \o s)[i] = s[i - Len(u)] BY <1>4, <2>3, <3>1, <3>4
      <4>2. /\ j - Len(memory) = i - Len(u) /\ j > Len(memory)
            /\ j <= Len(memory) + Len(s) /\ j \in Int
        BY <1>3, <2>1, <2>3, <3>1, <3>4
      <4>3. memory'[j] = s[j - Len(memory)]
        <5> HIDE DEF j
        <5>1. j \in 1..(Len(memory) + Len(s)) /\ ~(j <= Len(memory)) BY <1>3, <3>1, <4>2
        <5>2. QED BY <1>1, <1>3, <1>4, <5>1, ConcatProperties
      <4>4. QED BY <3>2, <4>1, <4>2, <4>3
    <3>5. QED BY <3>1, <3>3, <3>4
  <2>7. u \o s = v BY <2>4, <2>5, <2>6, SeqEqual
  <2>8. QED BY <2>1, <2>2, <2>7
<1>10. Laid(Unread') /\ LeftOpen(Unread') = LeftOpen(Unread)
  <2>1. Unread \in Seq(Cells) BY <1>1, <1>2, UnreadIsRest
  <2>2. QED BY <1>2, <1>9, <2>1, LaidStored
<1>11. QED BY <1>1, <1>2, <1>7, <1>8, <1>9, <1>10 DEF UdpInv

(* read and parsePacket take no more than is left of the open datagram.    *)
LEMMA TakeReads ==
  ASSUME UdpInv, udpOp # "closed", udpOp' \in {"idle", "parse"}, NEW len \in Nat \ {0}, Take(len)
  PROVE  \E got \in 1..remaining :
           UdpInv' /\ Unread' = SubSeq(Unread, got + 1, Len(Unread)) /\ remaining' = remaining - got
<1> DEFINE most == IF remaining <= len THEN remaining ELSE len
           u == Unread
<1>1. UdpTypeOK /\ MemoryAgrees /\ Laid(u) /\ remaining = LeftOpen(u) BY DEF UdpInv
<1>2. u \in Seq(Cells) /\ Len(u) \in Nat BY <1>1, UnreadIsRest
<1>3. remaining \in Nat /\ remaining <= Len(u) /\ remaining \in 0..MaxPayload
  BY <1>1, <1>2, LeftOpenLies
<1>4. /\ remaining > 0 /\ socketRecv(most) /\ remaining' = remaining - Received(most)
  BY DEF Take
<1>5. most \in Nat \ {0} /\ most <= remaining BY <1>3, <1>4
<1> HIDE DEF most
<1>6. Available(most) # 0
  <2>1. RX_RSR \in Nat /\ Len(u) = Len(memory) - RX_inc
    BY <1>1, UnreadIsRest, UdpConstantsOK DEF UdpTypeOK
  <2>2. CASE RX_RSR < most BY <1>3, <1>5, <2>1, <2>2 DEF Available
  <2>3. CASE ~(RX_RSR < most) BY <1>5, <2>1, <2>3 DEF Available
  <2>4. QED BY <2>2, <2>3
<1>7. /\ Received(most) = most /\ u' = SubSeq(u, Received(most) + 1, Len(u))
      /\ RX_RD' = ((rd' + RX_inc') % Pointers) /\ RX_RSR' + RX_inc' <= Len(memory')
      /\ RX_inc' = Len(memory') => memory' = <<>>
      /\ memory' \in Seq(Cells) /\ Len(memory') <= Size
      /\ rd' \in 0..(Pointers - 1) /\ RX_RSR' \in 0..Size /\ RX_RD' \in 0..(Pointers - 1)
      /\ RX_inc' \in 0..(Threshold - 1)
  <2>1. most <= Len(u) BY <1>2, <1>3, <1>5
  <2>2. QED BY <1>1, <1>4, <1>5, <1>6, <2>1, ReceivesUnread
<1>8. u' = SubSeq(u, most + 1, Len(u)) /\ remaining' = remaining - most BY <1>4, <1>7
<1> HIDE DEF u
<1>9. Laid(u') /\ LeftOpen(u') = remaining - most
  <2>1. most \in 0..Len(u) /\ most \in 0..LeftOpen(u) BY <1>1, <1>2, <1>3, <1>5
  <2>2. QED BY <1>1, <1>2, <1>8, <2>1, LaidRest, LeftOpenRest
<1>10. remaining' \in 0..MaxPayload BY <1>3, <1>5, <1>8, UdpConstantsOK
<1>11. UdpTypeOK' BY <1>7, <1>10 DEF UdpTypeOK
<1>12. MemoryAgrees' BY <1>7 DEF MemoryAgrees
<1>13. UdpInv' BY <1>8, <1>9, <1>11, <1>12 DEF UdpInv, u
<1>14. most \in 1..remaining BY <1>3, <1>5
<1>15. QED BY <1>8, <1>13, <1>14 DEF u

LEMMA OpensTakesHeader ==
  ASSUME UdpInv, OpensPacket
  PROVE  /\ UdpInv' /\ udpOp = "parse" /\ udpOp' = "idle" /\ remaining = 0
         /\ Unread \in Seq(Cells) /\ Unread # <<>> /\ IsHeader(Unread[1])
         /\ Unread' = SubSeq(Unread, 2, Len(Unread)) /\ remaining' = Unread[1][1].size
<1> DEFINE u == Unread
<1>1. /\ udpOp = "parse" /\ udpOp' = "idle" /\ remaining = 0
      /\ Available(1) > 0 /\ socketRecv(1) /\ remaining' = Head(u)[1].size
  BY DEF OpensPacket
<1>2. UdpTypeOK /\ MemoryAgrees /\ Laid(u) /\ remaining = LeftOpen(u) /\ udpOp # "closed"
  BY <1>1 DEF UdpInv
<1>3. u \in Seq(Cells) /\ Len(u) \in Nat BY <1>2, UnreadIsRest
<1>4. /\ Received(1) \in 1..1 /\ Received(1) <= Len(u) /\ u' = SubSeq(u, Received(1) + 1, Len(u))
      /\ RX_RD' = ((rd' + RX_inc') % Pointers) /\ RX_RSR' + RX_inc' <= Len(memory')
      /\ RX_inc' = Len(memory') => memory' = <<>>
      /\ memory' \in Seq(Cells) /\ Len(memory') <= Size
      /\ rd' \in 0..(Pointers - 1) /\ RX_RSR' \in 0..Size /\ RX_RD' \in 0..(Pointers - 1)
      /\ RX_inc' \in 0..(Threshold - 1)
  <2>1. Available(1) # 0 /\ 1 \in Nat \ {0} BY <1>1
  <2>2. QED BY <1>1, <1>2, <2>1, ReceivesUnread
<1>5. Received(1) = 1 BY <1>4
<1>6. u # <<>> /\ u' = SubSeq(u, 2, Len(u))
  <2>1. Received(1) + 1 = 2 /\ 1 <= Len(u) BY <1>4, <1>5
  <2>2. u' = SubSeq(u, 2, Len(u)) BY <1>4, <2>1
  <2> HIDE DEF u
  <2>3. u # <<>> BY <1>3, <2>1
  <2>4. QED BY <2>2, <2>3
<1> HIDE DEF u
<1>7. IsHeader(u[1])
  <2>1. LeftOpen(u) = 0 BY <1>1, <1>2
  <2>2. 0 < Len(u) BY <1>3, <1>6
  <2>3. LeftOpen(u) < Len(u) => IsHeader(u[LeftOpen(u) + 1]) BY <1>2, <1>3, LeftOpenLies
  <2>4. QED BY <2>1, <2>2, <2>3
<1>8. Head(u) = u[1] BY <1>3, <1>6
<1>9. Laid(u') /\ LeftOpen(u') = u[1][1].size
  <2>1. 1 \in 0..Len(u) BY <1>3, <1>6
  <2> DEFINE w == SubSeq(u, 1 + 1, Len(u))
  <2>2. Laid(w) BY <1>2, <1>3, <2>1, LaidRest
  <2>3. w = u' BY <1>6
  <2> HIDE DEF w
  <2>4. LeftOpen(SubSeq(u, 2, Len(u))) = u[1][1].size
    BY <1>2, <1>3, <1>6, <1>7, LeftOpenOfPacket
  <2>5. QED BY <1>6, <2>2, <2>3, <2>4
<1>10. u[1][1].size \in 0..MaxPayload
  <2>1. u[1] \in Cells
    <3>1. 1 \in 1..Len(u) BY <1>3, <1>6
    <3>2. QED BY <1>3, <3>1, ElementOfSeq
  <2>2. QED BY <2>1, CellsAre
<1>11. UdpTypeOK' BY <1>1, <1>4, <1>8, <1>10 DEF UdpTypeOK
<1>12. MemoryAgrees' BY <1>4 DEF MemoryAgrees
<1>13. UdpInv' BY <1>1, <1>8, <1>9, <1>11, <1>12 DEF UdpInv, u
<1>14. QED BY <1>1, <1>3, <1>6, <1>7, <1>8, <1>13 DEF u

LEMMA ResetEmpties ==
  ASSUME UdpInv, begin \/ stop
  PROVE  UdpInv' /\ (udpOp' = "closed" \/ (Unread' = <<>> /\ remaining' = 0))
<1>1. UdpTypeOK BY DEF UdpInv
<1>2. <<>> \in Seq(Cells) /\ Len(<<>>) = 0 OBVIOUS
<1>3. Size \in Nat /\ Threshold \in Nat \ {0} /\ MaxPayload \in Nat /\ Pointers \in Nat \ {0}
  BY UdpConstantsOK
<1>4. CASE begin
  <2>1. /\ memory' = <<>> /\ rd' = rd /\ RX_RSR' = 0 /\ RX_RD' = rd /\ RX_inc' = 0
        /\ remaining' = 0 /\ udpOp' = "idle"
    BY <1>4 DEF begin, ChipEmpties, StateResets, RemainingResets
  <2>2. UdpTypeOK' BY <1>1, <1>2, <1>3, <2>1 DEF UdpTypeOK
  <2>3. rd \in 0..(Pointers - 1) /\ ((rd + 0) % Pointers) = rd /\ ((rd - rd) % Pointers) = 0
    BY <1>1, <1>3 DEF UdpTypeOK
  <2>4. MemoryAgrees' BY <1>2, <2>1, <2>3 DEF MemoryAgrees
  <2>5. Unread' = <<>>
    <3>1. Unread' = SubSeq(<<>>, 0 + 1, 0) BY <1>2, <2>1, <2>3 DEF Unread
    <3>2. QED BY <3>1
  <2>6. Laid(<<>>) /\ LeftOpen(<<>>) = 0 BY <1>2 DEF Laid, LeftOpen
  <2>7. QED BY <2>1, <2>2, <2>4, <2>5, <2>6 DEF UdpInv
<1>5. CASE stop
  <2>1. /\ memory' = <<>> /\ udpOp' = "closed" /\ UNCHANGED <<rd, RX_RSR, RX_RD, RX_inc, remaining>>
    BY <1>5 DEF stop, ChipEmpties, socketstate
  <2>2. UdpTypeOK' BY <1>1, <1>2, <1>3, <2>1 DEF UdpTypeOK
  <2>3. MemoryAgrees' BY <2>1 DEF MemoryAgrees
  <2>4. QED BY <2>1, <2>2, <2>3 DEF UdpInv
<1>6. QED BY <1>4, <1>5

LEMMA QuietUdpStep ==
  ASSUME UdpInv, parsePacket \/ NoPacket \/ UNCHANGED udpVars
  PROVE  /\ UdpInv' /\ Unread' = Unread /\ remaining' = remaining
         /\ udpOp' = "closed" <=> udpOp = "closed"
<1>1. UdpTypeOK /\ MemoryAgrees BY DEF UdpInv
<1>2. /\ UNCHANGED <<rd, memory, RX_RD, RX_inc, remaining>> /\ RX_RSR' \in {0, RX_RSR}
      /\ udpOp' \in {"idle", "parse", "closed"} /\ (udpOp' = "closed" <=> udpOp = "closed")
  BY <1>1 DEF parsePacket, NoPacket, udpVars, socketstate, UdpTypeOK
<1>3. UdpTypeOK' BY <1>1, <1>2, UdpConstantsOK DEF UdpTypeOK
<1>4. Unread' = Unread BY <1>2 DEF Unread
<1>5. MemoryAgrees'
  <2>1. RX_inc \in Nat /\ RX_RSR \in Nat /\ Len(memory) \in Nat
    BY <1>1, UdpConstantsOK DEF UdpTypeOK
  <2>2. QED BY <1>1, <1>2, <2>1 DEF MemoryAgrees
<1>6. QED BY <1>2, <1>3, <1>4, <1>5 DEF UdpInv

------------------------------------------------------------------------------
(* What the user sees of the open datagram.                                *)
Shown(u, r) == [i \in 1..r |-> <<u[i][1].id, u[i][2]>>]
Units == Ids \X (0..MaxPayload)

(* What the mapping of RefinesDatagrams puts for its two variables.        *)
Waiting == IF udpOp = "closed" THEN <<>> ELSE Queue
Held == IF udpOp = "closed" THEN <<>>
        ELSE [i \in 1..Len(InHand) |-> <<InHand[i][1].id, InHand[i][2]>>]

LEMMA HeldIsShown ==
  ASSUME UdpInv, udpOp # "closed"
  PROVE  /\ Waiting = Heads(Unread) /\ Held = Shown(Unread, remaining)
         /\ Held \in Seq(Units) /\ Len(Held) = remaining /\ remaining \in Nat
         /\ Unread \in Seq(Cells) /\ remaining <= Len(Unread) /\ Heads(Unread) \in Seq(Datagram)
<1> DEFINE u == Unread
           v == SubSeq(u, 1, remaining)
<1>1. UdpTypeOK /\ MemoryAgrees /\ Laid(u) /\ remaining = LeftOpen(u) BY DEF UdpInv
<1>2. u \in Seq(Cells) /\ Len(u) \in Nat BY <1>1, UnreadIsRest
<1>3. remaining \in Nat /\ remaining <= Len(u) BY <1>1, <1>2, LeftOpenLies
<1>4. remaining \in 0..Len(u) BY <1>2, <1>3
<1>5. Waiting = Heads(u) BY DEF Waiting, Queue
<1>6. Held = [i \in 1..Len(v) |-> <<v[i][1].id, v[i][2]>>] BY DEF Held, InHand
<1>7. Heads(u) \in Seq(Datagram)
  <2>1. PICK g : AreHeads(g, u) /\ Heads(u) = g[Len(u)] BY <1>2, HeadsExist
  <2>2. QED BY <1>2, <2>1 DEF AreHeads
<1> HIDE DEF u
<1>8. v \in Seq(Cells) /\ Len(v) = remaining /\ \A i \in 1..remaining : v[i] = u[i]
  BY <1>2, <1>4, Rest
<1> HIDE DEF v
<1>9. ASSUME NEW i \in 1..remaining
      PROVE  v[i] = u[i] /\ <<u[i][1].id, u[i][2]>> \in Units
  <2>1. i \in 1..Len(u) /\ v[i] = u[i] BY <1>2, <1>3, <1>8
  <2>2. u[i] \in Cells BY <1>2, <2>1
  <2>3. u[i][1] \in Datagram /\ u[i][2] \in 0..MaxPayload BY <2>2, CellsAre
  <2>4. u[i][1].id \in Ids BY <2>3 DEF Datagram
  <2>5. QED BY <2>1, <2>3, <2>4 DEF Units
<1>10. Held = Shown(u, remaining)
  BY <1>6, <1>8 DEF Shown
<1>11. Held \in Seq(Units) /\ Len(Held) = remaining
  <2>1. \A i \in 1..remaining : <<u[i][1].id, u[i][2]>> \in Units BY <1>9
  <2>2. QED BY <1>3, <1>10, <2>1 DEF Shown
<1>12. QED BY <1>2, <1>3, <1>5, <1>7, <1>10, <1>11 DEF u

LEMMA HeldIsShownNext ==
  ASSUME UdpInv', udpOp' # "closed"
  PROVE  Waiting' = Heads(Unread') /\ Held' = Shown(Unread', remaining')
<1>1. (UdpInv /\ udpOp # "closed" => Waiting = Heads(Unread) /\ Held = Shown(Unread, remaining))'
  BY HeldIsShown, PTL
<1>2. QED BY <1>1

(* Every step keeps the strengthening, and maps to a step of Datagrams.    *)
LEMMA ArrivalRefines ==
  ASSUME UdpInv, NEW d \in Datagram, Arrives(d)
  PROVE  UdpInv' /\ Waiting' = Append(Waiting, d) /\ Held' = Held
<1>1. UdpInv' /\ Unread' = Unread \o Stored(d) BY ArrivalStores
<1>2. udpOp # "closed" /\ udpOp' # "closed" /\ remaining' = remaining BY DEF Arrives
<1>3. /\ Waiting = Heads(Unread) /\ Held = Shown(Unread, remaining)
      /\ Unread \in Seq(Cells) /\ remaining \in Nat /\ remaining <= Len(Unread)
      /\ Heads(Unread) \in Seq(Datagram)
  BY <1>2, HeldIsShown
<1>4. Waiting' = Heads(Unread') /\ Held' = Shown(Unread', remaining) BY <1>1, <1>2, HeldIsShownNext
<1>5. Stored(d) \in Seq(Cells) /\ Heads(Stored(d)) = <<d>> BY StoredCells
<1>6. Waiting' = Append(Waiting, d)
  <2>1. Heads(Unread \o Stored(d)) = Heads(Unread) \o <<d>> BY <1>3, <1>5, HeadsOfConcat
  <2>2. Heads(Unread) \o <<d>> = Append(Heads(Unread), d) BY <1>3, AppendIsConcat
  <2>3. QED BY <1>1, <1>3, <1>4, <2>1, <2>2
<1>7. Shown(Unread \o Stored(d), remaining) = Shown(Unread, remaining)
  <2> DEFINE u == Unread
             s == Stored(d)
  <2>1. u \in Seq(Cells) /\ s \in Seq(Cells) /\ remaining \in Nat /\ remaining <= Len(u)
    BY <1>3, <1>5
  <2> HIDE DEF u, s
  <2>2. \A i \in 1..remaining : (u \o s)[i] = u[i] BY <2>1
  <2>3. Shown(u \o s, remaining) = Shown(u, remaining) BY <2>2 DEF Shown
  <2>4. QED BY <2>3 DEF u, s
<1>8. QED BY <1>1, <1>3, <1>4, <1>6, <1>7

LEMMA TakeRefines ==
  ASSUME UdpInv, udpOp # "closed", udpOp' \in {"idle", "parse"}, NEW len \in Nat \ {0}, Take(len)
  PROVE  /\ UdpInv' /\ Waiting' = Waiting /\ Held # <<>>
         /\ \E n \in 1..Len(Held) : Held' = SubSeq(Held, n + 1, Len(Held))
<1> DEFINE u == Unread
<1>1. PICK n \in 1..remaining :
        UdpInv' /\ u' = SubSeq(u, n + 1, Len(u)) /\ remaining' = remaining - n
  BY TakeReads
<1>2. /\ Waiting = Heads(u) /\ Held = Shown(u, remaining) /\ Held \in Seq(Units)
      /\ Len(Held) = remaining /\ remaining \in Nat /\ u \in Seq(Cells) /\ remaining <= Len(u)
  BY HeldIsShown
<1>3. Waiting' = Heads(u') /\ Held' = Shown(u', remaining') BY <1>1, HeldIsShownNext
<1>4. Laid(u) /\ remaining = LeftOpen(u) BY DEF UdpInv
<1> HIDE DEF u
<1>5. n \in 0..Len(u) /\ n \in Nat /\ Len(u) \in Nat BY <1>2
<1>6. Waiting' = Waiting
  <2>1. ASSUME NEW i \in 1..n PROVE ~IsHeader(u[i])
    <3>1. i \in 1..LeftOpen(u) BY <1>2, <1>4
    <3>2. QED BY <1>2, <1>4, <3>1, LeftOpenLies
  <2>2. Heads(SubSeq(u, n + 1, Len(u))) = Heads(u) BY <1>2, <1>5, <2>1, HeadsOfRest
  <2>3. QED BY <1>1, <1>2, <1>3, <2>2
<1>7. Held' = SubSeq(Held, n + 1, Len(Held))
  <2> DEFINE v == SubSeq(u, n + 1, Len(u))
             m == remaining - n
  <2>1. Len(v) = Len(u) - n /\ \A i \in 1..Len(v) : v[i] = u[n + i] BY <1>2, <1>5, Rest
  <2> HIDE DEF v
  <2>2. m \in Nat /\ m <= Len(v) BY <1>2, <1>5, <2>1
  <2>3. ASSUME NEW i \in 1..m PROVE Shown(v, m)[i] = Held[n + i]
    <3>1. i \in 1..Len(v) /\ n + i \in 1..remaining BY <1>2, <1>5, <2>1, <2>2
    <3>2. v[i] = u[n + i] BY <2>1, <3>1
    <3>3. QED BY <1>2, <3>1, <3>2 DEF Shown
  <2>4. SubSeq(Held, n + 1, Len(Held)) = [i \in 1..m |-> Held[n + i]]
    BY <1>2, <1>5
  <2>5. Shown(v, m) = [i \in 1..m |-> Shown(v, m)[i]] BY DEF Shown
  <2>6. Shown(v, m) = SubSeq(Held, n + 1, Len(Held)) BY <2>3, <2>4, <2>5
  <2>7. QED BY <1>1, <1>3, <2>6 DEF v
<1>8. Held # <<>> /\ n \in 1..Len(Held) BY <1>2
<1>9. QED BY <1>1, <1>6, <1>7, <1>8

LEMMA OpensRefines ==
  ASSUME UdpInv, OpensPacket
  PROVE  /\ UdpInv' /\ Held = <<>> /\ Waiting # <<>> /\ Waiting' = Tail(Waiting)
         /\ Held' = [i \in 1..Head(Waiting).size |-> <<Head(Waiting).id, i>>]
<1> DEFINE u == Unread
           d == u[1][1]
<1>1. /\ UdpInv' /\ udpOp = "parse" /\ udpOp' = "idle" /\ remaining = 0
      /\ u \in Seq(Cells) /\ u # <<>> /\ IsHeader(u[1])
      /\ u' = SubSeq(u, 2, Len(u)) /\ remaining' = d.size
  BY OpensTakesHeader
<1>2. Waiting = Heads(u) /\ Held = Shown(u, 0) BY <1>1, HeldIsShown
<1>3. Waiting' = Heads(u') /\ Held' = Shown(u', remaining') BY <1>1, HeldIsShownNext
<1>4. Laid(u) BY <1>1 DEF UdpInv
<1> HIDE DEF u
<1>5. Waiting # <<>> /\ Head(Waiting) = d /\ Waiting' = Tail(Waiting)
  BY <1>1, <1>2, <1>3, HeadsOfPacket
<1>6. Held = <<>> BY <1>2 DEF Shown
<1>7. Held' = [i \in 1..d.size |-> <<d.id, i>>]
  <2> DEFINE v == SubSeq(u, 2, Len(u))
  <2>1. \A j \in 1..d.size : v[j] = <<d, j>> BY <1>1, <1>4, LeftOpenOfPacket
  <2> HIDE DEF v
  <2>2. Shown(v, d.size) = [i \in 1..d.size |-> <<d.id, i>>] BY <2>1 DEF Shown
  <2>3. QED BY <1>1, <1>3, <2>2 DEF v
<1>8. QED BY <1>1, <1>5, <1>6, <1>7

LEMMA ResetRefines ==
  ASSUME UdpInv, begin \/ stop
  PROVE  UdpInv' /\ Waiting' = <<>> /\ Held' = <<>>
<1>1. UdpInv' /\ (udpOp' = "closed" \/ (Unread' = <<>> /\ remaining' = 0)) BY ResetEmpties
<1>2. CASE udpOp' = "closed" BY <1>1, <1>2 DEF Waiting, Held
<1>3. CASE udpOp' # "closed"
  <2>1. Waiting' = Heads(<<>>) /\ Held' = Shown(<<>>, 0) BY <1>1, <1>3, HeldIsShownNext
  <2>2. QED BY <1>1, <2>1, HeadsOfEmpty DEF Shown
<1>4. QED BY <1>2, <1>3

LEMMA QuietRefines ==
  ASSUME UdpInv, parsePacket \/ NoPacket \/ UNCHANGED udpVars
  PROVE  UdpInv' /\ Waiting' = Waiting /\ Held' = Held
<1>1. /\ UdpInv' /\ Unread' = Unread /\ remaining' = remaining
      /\ udpOp' = "closed" <=> udpOp = "closed"
  BY QuietUdpStep
<1>2. QED BY <1>1 DEF Waiting, Held, Queue, InHand

LEMMA UdpStepRefines ==
  ASSUME UdpInv, [UdpNext]_udpVars
  PROVE  UdpInv' /\ [Promised!Next]_<<Waiting, Held>>
<1>1. CASE \E d \in Datagram : Arrives(d)
  <2>1. PICK d \in Datagram : Arrives(d) BY <1>1
  <2>2. UdpInv' /\ Waiting' = Append(Waiting, d) /\ Held' = Held BY <2>1, ArrivalRefines
  <2>3. Promised!Arrive(d) BY <2>2 DEF Promised!Arrive, Waiting, Held
  <2>4. QED BY <2>2, <2>3 DEF Promised!Next
<1>2. CASE begin \/ stop
  <2>1. UdpInv' /\ Waiting' = <<>> /\ Held' = <<>> BY <1>2, ResetRefines
  <2>2. Promised!Close BY <2>1 DEF Promised!Close, Waiting, Held
  <2>3. QED BY <2>1, <2>2 DEF Promised!Next
<1>3. CASE parsePacket \/ NoPacket \/ UNCHANGED udpVars
  <2>1. UdpInv' /\ Waiting' = Waiting /\ Held' = Held BY <1>3, QuietRefines
  <2>2. QED BY <2>1
<1>4. CASE Discards \/ \E len \in 1..(MaxPayload + 1) : read(len)
  <2>1. PICK len \in Nat \ {0} : Take(len) /\ udpOp # "closed" /\ udpOp' \in {"idle", "parse"}
    <3>1. CASE Discards
      <4>1. Take(remaining) /\ remaining > 0 /\ udpOp = "parse" /\ udpOp' = "parse"
        BY <3>1 DEF Discards, Take
      <4>2. remaining \in Nat \ {0} BY <4>1, UdpConstantsOK DEF UdpInv, UdpTypeOK
      <4>3. QED BY <4>1, <4>2
    <3>2. CASE \E len \in 1..(MaxPayload + 1) : read(len)
      BY <3>2, UdpConstantsOK DEF read
    <3>3. QED BY <1>4, <3>1, <3>2
  <2>2. /\ UdpInv' /\ Waiting' = Waiting /\ Held # <<>>
        /\ \E n \in 1..Len(Held) : Held' = SubSeq(Held, n + 1, Len(Held))
    BY <2>1, TakeRefines
  <2>3. PICK n \in 1..Len(Held) : Held' = SubSeq(Held, n + 1, Len(Held)) BY <2>2
  <2>4. Promised!Read(n) BY <2>2, <2>3 DEF Promised!Read, Waiting, Held
  <2>5. \E m \in 1..Len(Held) : Promised!Read(m) BY <2>4
  <2>6. QED BY <2>2, <2>5 DEF Promised!Next, Held
<1>5. CASE OpensPacket
  <2>1. /\ UdpInv' /\ Held = <<>> /\ Waiting # <<>> /\ Waiting' = Tail(Waiting)
        /\ Held' = [i \in 1..Head(Waiting).size |-> <<Head(Waiting).id, i>>]
    BY <1>5, OpensRefines
  <2>2. Promised!Open BY <2>1 DEF Promised!Open, Promised!Payload, Waiting, Held
  <2>3. QED BY <2>1, <2>2 DEF Promised!Next
<1>6. QED BY <1>1, <1>2, <1>3, <1>4, <1>5 DEF UdpNext, ParseStep

------------------------------------------------------------------------------
(* What the chip has stored, and what the library has read of it and       *)
(* copied, agree as the strengthening says, in every reachable state.      *)
THEOREM UdpInvariance == UdpSpec => []UdpInv
<1>1. UdpInv /\ [UdpNext]_udpVars => UdpInv' BY UdpStepRefines
<1>2. QED BY <1>1, InitUdpInv, PTL DEF UdpSpec

(* For any sizes of the memory, of its pointers and of the datagrams, and  *)
(* any threshold: the library and the chip never disagree on what is free  *)
(* (socketRecv and its copy of the pointer).                               *)
THEOREM MemoryIsAgreedOn == UdpSpec => []MemoryAgrees
<1>1. UdpInv => MemoryAgrees BY DEF UdpInv
<1>2. QED BY <1>1, UdpInvariance, PTL

(* ... and EthernetUDP delivers the datagrams of the network, each whole   *)
(* and in its order, whatever its user leaves unread and whenever others   *)
(* arrive.                                                                 *)
THEOREM DeliversDatagrams == UdpSpec => RefinesDatagrams
<1>1. UdpInit => Promised!Init
  BY DEF UdpInit, Promised!Init
<1>2. UdpInv /\ [UdpNext]_udpVars => [Promised!Next]_<<Waiting, Held>>
  BY UdpStepRefines
<1>3. UdpInv /\ [UdpNext]_udpVars => UdpInv' BY UdpStepRefines
<1>4. QED
  BY <1>1, <1>2, <1>3, InitUdpInv, PTL
  DEF UdpSpec, RefinesDatagrams, Promised!Spec, Waiting, Held

------------------------------------------------------------------------------
(* The names of a lookup, and who may answer it.                           *)
Requests == [id : RequestIds, port : Ports, name : Names]

DnsTypeOK ==
  /\ dnsOp \in {"idle", "lookup", "send", "wait", "reading", "dial"}
  /\ host \in Names /\ iDNSServer \in {Server, NoServer} /\ iRequestId \in RequestIds
  /\ port \in Ports /\ inbox \in Seq(Reply)
  /\ aResult \in Names \cup {NoAddress, PartAddress}
  /\ asked \subseteq Requests

(* The strengthening: while a lookup waits, whoever could still answer it  *)
(* under its id, and whatever has been answered under it, is about its     *)
(* host; so what it leaves is the address of that host, or none, or a part *)
(* where the name or a response that was cut off is to blame.              *)
AskedForHost ==
  dnsOp = "wait" => \A q \in asked : q.id = iRequestId => q.name = host

AnsweredForHost ==
  dnsOp = "wait" =>
    \A i \in DOMAIN inbox :
      inbox[i].from = Server /\ inbox[i].id = iRequestId => inbox[i].name = host

Untouched == dnsOp \in {"lookup", "send", "wait"} => came = "nothing"

LeavesHost ==
  \/ aResult \in {host, NoAddress}
  \/ aResult = PartAddress /\ (host \in Leading \/ came = "part")

DnsInv ==
  /\ DnsTypeOK /\ AskedForHost /\ AnsweredForHost
  /\ Untouched /\ LeavesHost /\ RightAddress

------------------------------------------------------------------------------
(* A datagram that is taken for a response is the server's, and answers    *)
(* the request that is open.                                               *)
LEMMA ProcessedIsAnswer ==
  ASSUME DnsTypeOK, NEW r \in Reply, Processed(r) = SUCCESS
  PROVE  r.from = Server /\ r.id = iRequestId
<1>1. r.from = iDNSServer BY DEF Processed, SUCCESS, INVALID_SERVER
<1>2. r.from \in {Server, Stranger} BY DEF Reply
<1>3. r.from = Server BY <1>1, <1>2, DnsConstantsOK DEF DnsTypeOK
<1>4. r.id = iRequestId
  BY <1>1 DEF Processed, SUCCESS, INVALID_SERVER, TRUNCATED, INVALID_RESPONSE
<1>5. QED BY <1>3, <1>4

LEMMA InitDnsInv == DnsInit => DnsInv
<1>1. SUFFICES ASSUME DnsInit PROVE DnsInv OBVIOUS
<1>2. DnsTypeOK BY <1>1 DEF DnsInit, DnsTypeOK
<1>3. QED
  BY <1>1, <1>2 DEF DnsInit, DnsInv, AskedForHost, AnsweredForHost, Untouched, LeavesHost,
                    RightAddress

(* Nothing but a request that is sent begins a wait.                       *)
LEMMA QuietStepKeepsDnsInv ==
  ASSUME DnsInv,
         (\E h \in Names : connect(h)) \/ ResolvesNumber \/ HasNoServer \/ HasNoSocket
           \/ OpensSocket \/ SendTimesOut \/ Polls \/ ReadsOn \/ WaitIsOver \/ Dials
           \/ (\E q \in asked : Forgotten(q)) \/ UNCHANGED dnsVars
  PROVE  DnsInv'
<1>1. DnsTypeOK BY DEF DnsInv
<1>2. <<>> \in Seq(Reply) OBVIOUS
<1> USE DEF AskedForHost, AnsweredForHost, Untouched, LeavesHost, RightAddress
<1>3. CASE \E h \in Names : connect(h)
  BY <1>1, <1>3 DEF connect, udp, DnsInv, DnsTypeOK
<1>4. CASE ResolvesNumber \/ HasNoServer \/ HasNoSocket \/ Dials
  <2>1. DnsTypeOK'
    BY <1>1, <1>4 DEF ResolvesNumber, HasNoServer, HasNoSocket, Dials, Converted, udp,
                      DnsTypeOK
  <2>2. (AskedForHost /\ AnsweredForHost /\ Untouched)'
    BY <1>4 DEF ResolvesNumber, HasNoServer, HasNoSocket, Dials
  <2>3. (LeavesHost /\ RightAddress)'
    BY <1>4 DEF ResolvesNumber, HasNoServer, HasNoSocket, Dials, Converted, turn, DnsInv
  <2>4. QED BY <2>1, <2>2, <2>3 DEF DnsInv
<1>5. CASE OpensSocket \/ SendTimesOut
  <2>1. DnsTypeOK'
    BY <1>1, <1>2, <1>5 DEF OpensSocket, SendTimesOut, Stopped, Converted, DnsTypeOK
  <2>2. (AskedForHost /\ AnsweredForHost)' BY <1>5 DEF OpensSocket, SendTimesOut
  <2>3. (Untouched /\ LeavesHost /\ RightAddress)'
    BY <1>5 DEF OpensSocket, SendTimesOut, Converted, turn, DnsInv
  <2>4. QED BY <2>1, <2>2, <2>3 DEF DnsInv
<1>6. CASE Polls \/ ReadsOn \/ UNCHANGED dnsVars
  BY <1>1, <1>6 DEF Polls, ReadsOn, dnsVars, turn, udp, DnsInv, DnsTypeOK
<1>7. CASE WaitIsOver
  <2>1. DnsTypeOK' BY <1>1, <1>2, <1>7 DEF WaitIsOver, Stopped, udp, DnsTypeOK
  <2>2. UNCHANGED <<came, host, aResult, dialled>> BY <1>7 DEF WaitIsOver
  <2>3. \/ dnsOp' = dnsOp /\ UNCHANGED <<asked, inbox, iRequestId>>
        \/ dnsOp' = "dial"
    BY <1>7 DEF WaitIsOver, udp
  <2>4. QED BY <2>1, <2>2, <2>3 DEF DnsInv
<1>8. CASE \E q \in asked : Forgotten(q)
  BY <1>1, <1>8 DEF Forgotten, turn, udp, DnsInv, DnsTypeOK
<1>9. QED BY <1>3, <1>4, <1>5, <1>6, <1>7, <1>8

(* The id of a request is no other's whose answer may still come.          *)
LEMMA SendKeepsDnsInv ==
  ASSUME DnsInv, SendsRequest
  PROVE  DnsInv'
<1> DEFINE new == [id |-> iRequestId', port |-> port, name |-> host]
<1>1. DnsTypeOK BY DEF DnsInv
<1>2. /\ iRequestId' \in RequestIds /\ iRequestId' \notin Outstanding
      /\ asked' = asked \cup {new} /\ dnsOp' = "wait"
      /\ UNCHANGED <<host, iDNSServer, port, inbox, aResult, came, dialled>>
      /\ dnsOp = "send"
  BY DEF SendsRequest, udp
<1>3. new \in Requests BY <1>1, <1>2 DEF DnsTypeOK, Requests
<1>4. DnsTypeOK' BY <1>1, <1>2, <1>3 DEF DnsTypeOK
<1>5. AskedForHost' BY <1>2 DEF AskedForHost, Outstanding
<1>6. ASSUME NEW i \in DOMAIN inbox PROVE inbox[i].id # iRequestId'
  <2>1. inbox[i] \in Range(inbox) BY DEF Range
  <2>2. QED BY <1>2, <2>1 DEF Outstanding
<1>7. AnsweredForHost' BY <1>2, <1>6 DEF AnsweredForHost
<1>8. QED BY <1>2, <1>4, <1>5, <1>7 DEF DnsInv, Untouched, LeavesHost, RightAddress

(* A datagram that comes from the server answers a request.                *)
LEMMA ArrivalKeepsDnsInv ==
  ASSUME DnsInv, NEW r \in Reply, NEW p, Reaches(p, r),
         r.from = Server => \E q \in asked : r.id = q.id /\ r.name = q.name,
         UNCHANGED <<dnsOp, host, iDNSServer, iRequestId, port, aResult, came, asked, dialled>>
  PROVE  DnsInv'
<1>1. DnsTypeOK BY DEF DnsInv
<1>2. inbox \in Seq(Reply) /\ inbox' = Append(inbox, r) BY <1>1 DEF Reaches, DnsTypeOK
<1>3. /\ inbox' \in Seq(Reply) /\ DOMAIN inbox' = 1..(Len(inbox) + 1)
      /\ DOMAIN inbox = 1..Len(inbox) /\ Len(inbox) \in Nat
      /\ \A i \in 1..Len(inbox) : inbox'[i] = inbox[i]
      /\ inbox'[Len(inbox) + 1] = r
  BY <1>2, AppendProperties
<1>4. DnsTypeOK' BY <1>1, <1>3 DEF DnsTypeOK
<1>5. AnsweredForHost'
  <2>1. SUFFICES ASSUME dnsOp = "wait", NEW i \in DOMAIN inbox',
                        inbox'[i].from = Server, inbox'[i].id = iRequestId
                 PROVE  inbox'[i].name = host
    BY DEF AnsweredForHost
  <2>2. CASE i = Len(inbox) + 1 BY <1>3, <2>1, <2>2 DEF DnsInv, AskedForHost
  <2>3. CASE i # Len(inbox) + 1
    <3>1. i \in 1..Len(inbox) BY <1>3, <2>1, <2>3
    <3>2. inbox'[i] = inbox[i] BY <1>3, <3>1
    <3>3. QED BY <1>3, <2>1, <3>1, <3>2 DEF DnsInv, AnsweredForHost
  <2>4. QED BY <2>2, <2>3
<1>6. QED BY <1>4, <1>5 DEF DnsInv, AskedForHost, Untouched, LeavesHost, RightAddress

LEMMA NetworkKeepsDnsInv ==
  ASSUME DnsInv, (\E q \in asked : ServerAnswers(q)) \/ StrangerSends
  PROVE  DnsInv'
<1>1. CASE \E q \in asked : ServerAnswers(q)
  <2>1. PICK q \in asked : ServerAnswers(q) BY <1>1
  <2>2. PICK r \in Reply : r.from = Server /\ r.id = q.id /\ r.name = q.name /\ Reaches(q.port, r)
    BY <2>1 DEF ServerAnswers
  <2>3. UNCHANGED <<dnsOp, host, iDNSServer, iRequestId, port, aResult, came, asked, dialled>>
    BY <2>1 DEF ServerAnswers, turn
  <2>4. QED BY <2>2, <2>3, ArrivalKeepsDnsInv
<1>2. CASE StrangerSends
  <2>1. PICK r \in Reply : r.from = Stranger /\ Reaches(port, r) BY <1>2 DEF StrangerSends
  <2>2. UNCHANGED <<dnsOp, host, iDNSServer, iRequestId, port, aResult, came, asked, dialled>>
    BY <1>2 DEF StrangerSends, turn
  <2>3. r.from # Server BY <2>1, DnsConstantsOK
  <2>4. QED BY <2>1, <2>2, <2>3, ArrivalKeepsDnsInv
<1>3. QED BY <1>1, <1>2

(* The first datagram that is read decides.                                *)
LEMMA ResponseKeepsDnsInv ==
  ASSUME DnsInv, ProcessResponse
  PROVE  DnsInv'
<1> DEFINE r == Head(inbox)
<1>1. DnsTypeOK BY DEF DnsInv
<1>2. /\ dnsOp = "wait" /\ inbox # <<>> /\ dnsOp' = "dial" /\ inbox' = <<>>
      /\ aResult' = IF Processed(r) = SUCCESS THEN r.name ELSE aResult
      /\ UNCHANGED <<port, host, iDNSServer, iRequestId, asked, dialled>>
  BY DEF ProcessResponse, Takes, Stopped
<1>3. inbox \in Seq(Reply) /\ 1 \in DOMAIN inbox /\ r = inbox[1] /\ r \in Reply
  BY <1>1, <1>2 DEF DnsTypeOK
<1> HIDE DEF r
<1>4. Processed(r) = SUCCESS => r.name = host
  <2>1. SUFFICES ASSUME Processed(r) = SUCCESS PROVE r.name = host OBVIOUS
  <2>2. r.from = Server /\ r.id = iRequestId BY <1>1, <1>3, <2>1, ProcessedIsAnswer
  <2>3. QED BY <1>2, <1>3, <2>2 DEF DnsInv, AnsweredForHost
<1>5. came = "nothing" BY <1>2 DEF DnsInv, Untouched
<1>6. LeavesHost' /\ RightAddress'
  BY <1>2, <1>4, <1>5 DEF DnsInv, LeavesHost, RightAddress
<1>7. DnsTypeOK'
  <2>1. aResult' \in {host, NoAddress, PartAddress} BY <1>2, <1>4 DEF DnsInv, LeavesHost
  <2>2. QED BY <1>1, <1>2, <2>1 DEF DnsTypeOK
<1>8. QED BY <1>2, <1>6, <1>7 DEF DnsInv, AskedForHost, AnsweredForHost, Untouched

(* A response that was cut off leaves no more than a part of an address.   *)
LEMMA PartKeepsDnsInv ==
  ASSUME DnsInv, ReadsForEver \/ ProcessPart
  PROVE  DnsInv'
<1>1. DnsTypeOK BY DEF DnsInv
<1>2. /\ inbox # <<>> /\ came' = "part" /\ dnsOp' \in {"reading", "dial"}
      /\ inbox' \in {Tail(inbox), <<>>} /\ aResult' \in {aResult, PartAddress}
      /\ UNCHANGED <<port, host, iDNSServer, iRequestId, asked, dialled>>
  BY DEF ReadsForEver, ProcessPart, Takes, Stopped
<1>3. inbox' \in Seq(Reply)
  <2>1. inbox \in Seq(Reply) BY <1>1 DEF DnsTypeOK
  <2>2. Tail(inbox) \in Seq(Reply) BY <1>2, <2>1
  <2>3. inbox' = Tail(inbox) \/ inbox' = <<>> BY <1>2
  <2>4. CASE inbox' = Tail(inbox) BY <2>2, <2>4
  <2>5. CASE inbox' = <<>> BY <2>5
  <2>6. QED BY <2>3, <2>4, <2>5
<1>4. DnsTypeOK' BY <1>1, <1>2, <1>3 DEF DnsTypeOK
<1>5. LeavesHost' /\ RightAddress' BY <1>2 DEF DnsInv, LeavesHost, RightAddress
<1>6. QED BY <1>2, <1>4, <1>5 DEF DnsInv, AskedForHost, AnsweredForHost, Untouched

------------------------------------------------------------------------------
(* The strengthening is an invariant.                                      *)
THEOREM DnsInvariance == DnsSpec => []DnsInv
<1>1. DnsInit => DnsInv BY InitDnsInv
<1>2. DnsInv /\ [DnsNext]_dnsVars => DnsInv'
  BY QuietStepKeepsDnsInv, SendKeepsDnsInv, NetworkKeepsDnsInv, ResponseKeepsDnsInv,
     PartKeepsDnsInv
     DEF DnsNext, ClientStep
<1>3. QED BY <1>1, <1>2, PTL DEF DnsSpec

(* Whatever names, ports and ids there are, and however many answers come  *)
(* late, twice, cut off or from elsewhere: connect dials the address of    *)
(* the host it was asked for, or none; or a part of one, if the name       *)
(* begins like an address or the response to its own request was cut off   *)
(* (inet_aton, ProcessResponse, EthernetClient::connect).                  *)
THEOREM DialsTheHost == DnsSpec => []RightAddress
<1>1. DnsInv => RightAddress BY DEF DnsInv
<1>2. QED BY <1>1, DnsInvariance, PTL

------------------------------------------------------------------------------
(* A wait that goes on is one of the first three.                          *)
WaitIsCounted == dnsOp = "wait" => waits \in 0..2

LEMMA WaitKeepsCounted ==
  ASSUME WaitIsCounted, [DnsNext]_dnsVars
  PROVE  WaitIsCounted'
<1>1. CASE WaitIsOver
  BY <1>1 DEF WaitIsOver, WaitsOn, Counted, WaitIsCounted
<1>2. CASE SendsRequest BY <1>2 DEF SendsRequest, WaitIsCounted
<1>3. CASE Polls \/ ReadsOn \/ UNCHANGED dnsVars
  BY <1>3 DEF Polls, ReadsOn, dnsVars, turn, WaitIsCounted
<1>4. CASE (\E h \in Names : connect(h)) \/ ResolvesNumber \/ HasNoServer \/ HasNoSocket
             \/ OpensSocket \/ SendTimesOut \/ ProcessResponse \/ ReadsForEver
             \/ ProcessPart \/ Dials
  BY <1>4 DEF connect, ResolvesNumber, HasNoServer, HasNoSocket, OpensSocket, SendTimesOut,
              ProcessResponse, ReadsForEver, ProcessPart, Dials, WaitIsCounted
<1>5. CASE (\E q \in asked : ServerAnswers(q) \/ Forgotten(q)) \/ StrangerSends
  BY <1>5 DEF ServerAnswers, Forgotten, StrangerSends, turn, WaitIsCounted
<1>6. QED BY <1>1, <1>2, <1>3, <1>4, <1>5 DEF DnsNext, ClientStep

(* Where int has 16 bits, TIMED_OUT comes back from the unsigned result.    *)
LEMMA TimeOutSurvives ==
  ASSUME IntMax = 32767
  PROVE  Returned(TIMED_OUT) = TIMED_OUT
BY DEF Returned, TIMED_OUT

(* On a processor whose int has 16 bits (an AVR, which the library is      *)
(* written for), a lookup that nothing answers waits three times, for any  *)
(* timeouts, names and servers (getHostByName, Dns.cpp).                   *)
THEOREM LookupsWaitThreeTimes ==
  ASSUME IntMax = 32767
  PROVE  DnsSpec => WaitsThreeTimes
<1>1. DnsInit => WaitIsCounted BY DEF DnsInit, WaitIsCounted
<1>2. ASSUME WaitIsCounted, [DnsNext]_dnsVars
      PROVE  [dnsOp = "wait" /\ dnsOp' = "dial" /\ came' = "nothing" => waits' = 3]_dnsVars
  <2>1. SUFFICES ASSUME dnsOp = "wait", dnsOp' = "dial", came' = "nothing"
               PROVE  waits' = 3
    OBVIOUS
  <2>2. WaitIsOver
    BY <1>2, <2>1 DEF DnsNext, ClientStep, connect, ResolvesNumber, HasNoServer,
       HasNoSocket, OpensSocket, SendsRequest, SendTimesOut, Polls, ProcessResponse,
       ReadsForEver, ReadsOn, ProcessPart, Takes, Dials, ServerAnswers, Forgotten, StrangerSends, dnsVars
  <2>3. ret' = TIMED_OUT BY <2>2, TimeOutSurvives DEF WaitIsOver
  <2>4. ~(Counted < 3) /\ waits' = Counted
    BY <2>1, <2>2, <2>3 DEF WaitIsOver, WaitsOn
  <2>5. QED BY <1>2, <2>1, <2>4 DEF WaitIsCounted, Counted
<1>3. QED BY <1>1, <1>2, WaitKeepsCounted, PTL DEF DnsSpec, WaitsThreeTimes
==============================================================================
