---------------------------- MODULE Classes_proofs ----------------------------
(* The classes that nothing connects yet, for every value of their         *)
(* constants: the ring buffer implements a bounded FIFO; the array of      *)
(* retained messages keeps the promise of a map from topics to messages,   *)
(* and its saved copy restores it; the names of topics are well formed and *)
(* filters find the topics they match; packets begin where their lengths   *)
(* say, and their parsers read back what was created; the callbacks of the *)
(* links that the server did not refuse find their sessions.               *)
EXTENDS RingBuf, RetainedList, MqttTopic, MqttMessage, MqttServer, WellFoundedInduction,
        FunctionTheorems, FiniteSetTheorems, SequenceTheorems, TLAPS

------------------------------------------------------------------------------
(* RingBuf                                                                 *)
RingInv == TypeOK /\ PointersAgree

LEMMA SlotOfSlot ==
  ASSUME TypeOK, NEW n \in 1 .. Size + 1
  PROVE  SlotOf(n) \in Slot
BY RingConstantsOK DEF TypeOK, Slot, SlotOf

(* Two of the Size slots from the read pointer on are different.            *)
LEMMA SlotOfInjective ==
  ASSUME TypeOK, NEW m \in 1 .. Size, NEW n \in 1 .. Size, SlotOf(m) = SlotOf(n)
  PROVE  m = n
BY RingConstantsOK DEF TypeOK, Slot, SlotOf

LEMMA RollBackSlot ==
  ASSUME NEW s \in Slot
  PROVE  RollBack(s) \in Slot
BY RingConstantsOK DEF RollBack, Slot

(* A stored byte moves the write pointer one slot further.                  *)
LEMMA StoreMoves ==
  ASSUME TypeOK, fill_cnt < Size
  PROVE  RollBack(SlotOf(fill_cnt + 1)) = SlotOf(fill_cnt + 2)
BY RingConstantsOK DEF TypeOK, Slot, SlotOf, RollBack

(* After a byte was got, the n-th oldest one is the one that was n+1-th.    *)
LEMMA FetchShifts ==
  ASSUME TypeOK, p_r' = RollBack(p_r), NEW n \in 1 .. Size
  PROVE  SlotOf(n)' = SlotOf(n + 1)
BY RingConstantsOK DEF TypeOK, Slot, SlotOf, RollBack

LEMMA RingInvInit == Init => RingInv
BY RingConstantsOK DEF Init, RingInv, TypeOK, PointersAgree, SlotOf, Slot

LEMMA RingInvNext == ASSUME RingInv, [Next]_vars PROVE RingInv'
<1>1. ASSUME NEW c \in Byte, RingPut(c) PROVE RingInv'
  <2>1. CASE fill_cnt < Size
    <3>1. TypeOK'
      BY <1>1, <2>1, RollBackSlot, RingConstantsOK DEF RingInv, RingPut, TypeOK
    <3>0. fill_cnt \in Nat /\ fill_cnt' = fill_cnt + 1 /\ p_r' = p_r /\ p_w' = RollBack(p_w)
      BY <1>1, <2>1, RingConstantsOK DEF RingInv, RingPut, TypeOK
    <3>2. p_w' = SlotOf(fill_cnt + 2)
      BY <2>1, <3>0, StoreMoves DEF RingInv, PointersAgree
    <3>3. SlotOf(fill_cnt + 1)' = SlotOf(fill_cnt + 2)
      BY <3>0, RingConstantsOK DEF RingInv, SlotOf, TypeOK, Slot
    <3>. QED  BY <3>1, <3>2, <3>3 DEF RingInv, PointersAgree
  <2>2. CASE ~(fill_cnt < Size)
    BY <1>1, <2>2 DEF RingInv, RingPut, TypeOK, PointersAgree, SlotOf
  <2>. QED  BY <2>1, <2>2
<1>2. ASSUME RingGet PROVE RingInv'
  <2>1. CASE fill_cnt > 0
    <3>1. TypeOK'
      BY <1>2, <2>1, RollBackSlot, RingConstantsOK DEF RingInv, RingGet, TypeOK
    <3>2. /\ fill_cnt \in 1 .. Size /\ fill_cnt' = fill_cnt - 1
          /\ p_r' = RollBack(p_r) /\ p_w' = p_w
      BY <1>2, <2>1, RingConstantsOK DEF RingInv, RingGet, TypeOK
    <3>4. SlotOf(fill_cnt + 1)' = SlotOf(fill_cnt + 1)
      BY <3>2, RingConstantsOK DEF RingInv, TypeOK, Slot, SlotOf, RollBack
    <3>. QED  BY <3>1, <3>2, <3>4 DEF RingInv, PointersAgree
  <2>2. CASE ~(fill_cnt > 0)
    BY <1>2, <2>2 DEF RingInv, RingGet, TypeOK, PointersAgree, SlotOf
  <2>. QED  BY <2>1, <2>2
<1>3. CASE UNCHANGED vars
  BY <1>3 DEF vars, RingInv, TypeOK, PointersAgree, SlotOf
<1>. QED  BY <1>1, <1>2, <1>3 DEF Next

LEMMA RingInvAlways == Spec => []RingInv
BY RingInvInit, RingInvNext, PTL DEF Spec

(* The two pointers and the count, each stepped and rolled back on its own, *)
(* agree in every reachable state.                                          *)
THEOREM PointersAgreeAlways == Spec => []PointersAgree
<1>1. RingInv => PointersAgree
  BY DEF RingInv
<1>. QED  BY <1>1, RingInvAlways, PTL

------------------------------------------------------------------------------
(* The content as a sequence.                                               *)

LEMMA ContentType ==
  ASSUME TypeOK
  PROVE  content \in Seq(Byte) /\ Len(content) = fill_cnt
<1>1. \A n \in 1 .. fill_cnt : mem[SlotOf(n)] \in Byte
  BY SlotOfSlot, RingConstantsOK DEF TypeOK
<1>2. fill_cnt \in Nat
  BY RingConstantsOK DEF TypeOK
<1>. QED  BY <1>1, <1>2 DEF content

LEMMA FifoInitMaps == Init => Fifo!FifoInit
BY DEF Init, Fifo!FifoInit, content

LEMMA PutMaps ==
  ASSUME RingInv, NEW c \in Byte, RingPut(c)
  PROVE  Fifo!Put(c)
<1>. USE DEF RingInv
<1>0. content \in Seq(Byte) /\ Len(content) = fill_cnt /\ fill_cnt \in 0 .. Size /\ Size \in Nat
  BY ContentType, RingConstantsOK DEF TypeOK
<1>1. CASE fill_cnt < Size
  <2>1. /\ mem' = [mem EXCEPT ![p_w] = c] /\ fill_cnt' = fill_cnt + 1 /\ p_r' = p_r
        /\ rc' = 0 /\ out' = out
    BY <1>0, <1>1 DEF RingPut
  <2>2. \A n \in 1 .. fill_cnt + 1 : SlotOf(n)' = SlotOf(n)
    BY <2>1 DEF SlotOf
  <2>3. p_w = SlotOf(fill_cnt + 1)
    BY DEF PointersAgree
  <2>4. ASSUME NEW n \in 1 .. fill_cnt PROVE mem'[SlotOf(n)] = mem[SlotOf(n)]
    <3>1. SlotOf(n) \in Slot
      BY <1>0, <2>4, SlotOfSlot
    <3>2. SlotOf(n) # p_w
      BY <1>0, <1>1, <2>3, <2>4, SlotOfInjective
    <3>. QED  BY <2>1, <3>1, <3>2 DEF TypeOK
  <2>5. mem'[SlotOf(fill_cnt + 1)] = c
    BY <2>1, <2>3 DEF TypeOK
  <2>6. content' = [n \in 1 .. fill_cnt + 1 |-> IF n = fill_cnt + 1 THEN c ELSE content[n]]
    <3>1. content' = [n \in 1 .. fill_cnt + 1 |-> mem'[SlotOf(n)]]
      BY <2>1, <2>2 DEF content
    <3>2. \A n \in 1 .. fill_cnt + 1 :
             mem'[SlotOf(n)] = IF n = fill_cnt + 1 THEN c ELSE content[n]
      BY <1>0, <2>4, <2>5 DEF content
    <3>. QED  BY <3>1, <3>2
  <2>7. content' = Append(content, c)
    <3>1. /\ Append(content, c) \in Seq(Byte) /\ Len(Append(content, c)) = fill_cnt + 1
          /\ \A n \in 1 .. fill_cnt + 1 :
               Append(content, c)[n] = IF n = fill_cnt + 1 THEN c ELSE content[n]
      BY <1>0
    <3>2. \A n \in 1 .. fill_cnt + 1 : (IF n = fill_cnt + 1 THEN c ELSE content[n]) \in Byte
      BY <1>0, ElementOfSeq
    <3>3. content' \in Seq(Byte) /\ Len(content') = fill_cnt + 1
      BY <1>0, <2>6, <3>2
    <3>. QED  BY <2>6, <3>1, <3>3, SeqEqual
  <2>. QED  BY <1>0, <1>1, <2>1, <2>7 DEF Fifo!Put
<1>2. CASE ~(fill_cnt < Size)
  <2>1. UNCHANGED <<mem, p_r, p_w, fill_cnt, out>> /\ rc' = -1
    BY <1>0, <1>2 DEF RingPut
  <2>2. content' = content
    BY <2>1 DEF content, SlotOf
  <2>. QED  BY <1>0, <1>2, <2>1, <2>2 DEF Fifo!Put
<1>. QED  BY <1>1, <1>2

LEMMA GetMaps ==
  ASSUME RingInv, RingGet
  PROVE  Fifo!Get
<1>. USE DEF RingInv
<1>0. content \in Seq(Byte) /\ Len(content) = fill_cnt /\ fill_cnt \in 0 .. Size /\ Size \in Nat
  BY ContentType, RingConstantsOK DEF TypeOK
<1>1. CASE fill_cnt > 0
  <2>1. /\ fill_cnt' = fill_cnt - 1 /\ p_r' = RollBack(p_r) /\ mem' = mem
        /\ out' = mem[p_r] /\ rc' = 0
    BY <1>0, <1>1 DEF RingGet
  <2>2. SlotOf(1) = p_r
    BY RingConstantsOK DEF SlotOf, TypeOK, Slot
  <2>3. content # <<>> /\ Head(content) = mem[p_r]
    BY <1>0, <1>1, <2>2 DEF content
  <2>4. \A n \in 1 .. fill_cnt - 1 : SlotOf(n)' = SlotOf(n + 1)
    BY <1>0, <2>1, FetchShifts
  <2>5. content' = [n \in 1 .. fill_cnt - 1 |-> content[n + 1]]
    <3>1. content' = [n \in 1 .. fill_cnt - 1 |-> mem[SlotOf(n + 1)]]
      BY <2>1, <2>4 DEF content
    <3>2. \A n \in 1 .. fill_cnt - 1 : content[n + 1] = mem[SlotOf(n + 1)]
      BY <1>0 DEF content
    <3>. QED  BY <3>1, <3>2
  <2>6. content' = Tail(content)
    <3>1. /\ Tail(content) \in Seq(Byte) /\ Len(Tail(content)) = fill_cnt - 1
          /\ \A n \in 1 .. fill_cnt - 1 : Tail(content)[n] = content[n + 1]
      BY <1>0, <1>1, <2>3, HeadTailProperties
    <3>2. \A n \in 1 .. fill_cnt - 1 : content[n + 1] \in Byte
      BY <1>0, ElementOfSeq
    <3>3. content' \in Seq(Byte) /\ Len(content') = fill_cnt - 1
      BY <1>0, <1>1, <2>5, <3>2
    <3>. QED  BY <2>5, <3>1, <3>3, SeqEqual
  <2>. QED  BY <2>1, <2>3, <2>6 DEF Fifo!Get
<1>2. CASE ~(fill_cnt > 0)
  <2>1. UNCHANGED <<mem, p_r, p_w, fill_cnt, out>> /\ rc' = -1
    BY <1>0, <1>2 DEF RingGet
  <2>2. content' = content /\ content = <<>>
    BY <1>0, <1>2, <2>1 DEF content, SlotOf
  <2>. QED  BY <2>1, <2>2 DEF Fifo!Get
<1>. QED  BY <1>1, <1>2

LEMMA StepMaps == ASSUME RingInv, [Next]_vars PROVE [Fifo!FifoNext]_(Fifo!fifoVars)
<1>1. CASE Next
  BY <1>1, PutMaps, GetMaps DEF Next, Fifo!FifoNext
<1>2. CASE UNCHANGED vars
  BY <1>2 DEF vars, Fifo!fifoVars, content, SlotOf
<1>. QED  BY <1>1, <1>2

(* The ring buffer implements the bounded FIFO: it refuses a byte exactly   *)
(* when Size bytes are in it, and hands the bytes out in order.             *)
THEOREM RingImplementsFifo == Spec => RefinesFifo
BY FifoInitMaps, StepMaps, RingInvAlways, PTL DEF Spec, RefinesFifo, Fifo!FifoSpec
------------------------------------------------------------------------------
(* Every set of numbers that is not empty has a least one: a proof by      *)
(* induction looks at the least counterexample.                            *)
LEMMA LeastNumber ==
  ASSUME NEW S \in SUBSET Nat, S # {}
  PROVE  \E m \in S : \A k \in S : m <= k
<1> DEFINE R == OpToRel(<, Nat)
<1>1. IsWellFoundedOn(R, Nat) BY NatLessThanWellFounded
<1>2. \A x, y \in Nat : x < y => <<x, y>> \in R BY DEF OpToRel
<1> HIDE DEF R
<1>3. PICK m \in S : \A k \in S : ~(<<k, m>> \in R) BY <1>1, WFMin
<1>4. ASSUME NEW k \in S PROVE m <= k
  <2>1. m \in Nat /\ k \in Nat OBVIOUS
  <2>2. ~(k < m) BY <1>2, <1>3, <2>1, Zenon
  <2>3. QED BY <2>1, <2>2
<1>5. QED BY <1>4

LEMMA NumberInduction ==
  ASSUME NEW S \in SUBSET Nat, 0 \in S, \A n \in S : n + 1 \in S
  PROVE  S = Nat
<1>1. SUFFICES ASSUME Nat \ S # {} PROVE FALSE OBVIOUS
<1>2. PICK m \in Nat \ S : \A k \in Nat \ S : m <= k BY <1>1, LeastNumber
<1>3. m # 0 /\ m - 1 \in Nat /\ m - 1 \in S BY <1>2
<1>4. m - 1 + 1 \in S BY <1>3
<1>5. QED BY <1>4

(* A function that is defined by recursion exists, and has its type.       *)
LEMMA RecursionIsFunction ==
  ASSUME NEW V, NEW b \in V, NEW N \in Nat, NEW G \in [1..N -> [V -> V]]
  PROVE  \E f \in [0..N -> V] : f[0] = b /\ \A n \in 1..N : f[n] = G[n][f[n - 1]]
<1> DEFINE S == {k \in Nat : k <= N =>
                  \E f \in [0..k -> V] : f[0] = b /\ \A n \in 1..k : f[n] = G[n][f[n - 1]]}
<1>1. 0 \in S
  <2> DEFINE f == [i \in 0..0 |-> b]
  <2>1. f \in [0..0 -> V] /\ f[0] = b OBVIOUS
  <2> HIDE DEF f
  <2>2. \A n \in 1..0 : f[n] = G[n][f[n - 1]] OBVIOUS
  <2>3. \E h \in [0..0 -> V] : h[0] = b /\ \A n \in 1..0 : h[n] = G[n][h[n - 1]]
    BY <2>1, <2>2
  <2>4. QED BY <2>3
<1>2. ASSUME NEW k \in S PROVE k + 1 \in S
  <2>1. SUFFICES ASSUME k + 1 <= N
                 PROVE  \E f \in [0..(k + 1) -> V] :
                          f[0] = b /\ \A n \in 1..(k + 1) : f[n] = G[n][f[n - 1]]
    OBVIOUS
  <2>2. PICK g \in [0..k -> V] : g[0] = b /\ \A n \in 1..k : g[n] = G[n][g[n - 1]]
    BY <2>1
  <2> DEFINE f == [n \in 0..(k + 1) |-> IF n = k + 1 THEN G[k + 1][g[k]] ELSE g[n]]
  <2>3. f \in [0..(k + 1) -> V] BY <2>1
  <2>4. f[0] = b BY <2>2
  <2>5. \A n \in 1..(k + 1) : f[n] = G[n][f[n - 1]] BY <2>2
  <2>6. QED BY <2>3, <2>4, <2>5
<1>3. S = Nat
  <2> HIDE DEF S
  <2>1. S \in SUBSET Nat BY DEF S
  <2>2. QED BY <1>1, <1>2, <2>1, NumberInduction
<1>4. QED BY <1>3

(* What holds of the empty sequence, and of s with e appended if it holds  *)
(* of s, holds of every sequence.                                          *)
LEMMA SequenceInduction ==
  ASSUME NEW V, NEW T \in SUBSET Seq(V), <<>> \in T,
         \A s \in T, e \in V : Append(s, e) \in T
  PROVE  T = Seq(V)
<1> DEFINE S == {n \in Nat : \A s \in Seq(V) : Len(s) = n => s \in T}
<1>1. 0 \in S
  <2>1. \A s \in Seq(V) : Len(s) = 0 => s = <<>> OBVIOUS
  <2>2. QED BY <2>1
<1>2. ASSUME NEW n \in S PROVE n + 1 \in S
  <2>1. SUFFICES ASSUME NEW s \in Seq(V), Len(s) = n + 1 PROVE s \in T OBVIOUS
  <2>2. s # <<>> BY <2>1
  <2>3. PICK t \in Seq(V), e \in V : s = Append(t, e) BY <2>2, SequenceEmptyOrAppend
  <2>4. Len(t) = n BY <2>1, <2>3
  <2>5. QED BY <2>3, <2>4
<1>3. S = Nat
  <2> HIDE DEF S
  <2>1. S \in SUBSET Nat BY DEF S
  <2>2. QED BY <1>1, <1>2, <2>1, NumberInduction
<1>4. ASSUME NEW s \in Seq(V) PROVE s \in T
  <2>1. Len(s) \in S BY <1>3
  <2>2. QED BY <2>1
<1>5. QED BY <1>4

------------------------------------------------------------------------------
(* MqttServer: an open link has its session in the table.                  *)
LinksHaveSessions ==
  /\ link \in [Peers -> {"open", "aborted", "closed"}] /\ "open" \notin nullSession
  /\ \A p \in Peers : link[p] = "open" => IdOf[p] \in tcpSessions_

LEMMA ServerStepKeepsSessions ==
  ASSUME LinksHaveSessions, [MqttServerNext]_serverVars
  PROVE  LinksHaveSessions'
<1>1. CASE \E s \in Servers : ServesAsServer(s) \/ \E p \in Peers : ServesAsClient(s, p)
  BY <1>1 DEF ServesAsServer, ServesAsClient, LinksHaveSessions
<1>2. CASE \E p \in Peers : SessionConnected(p)
  <2>1. PICK p \in Peers : SessionConnected(p) BY <1>2
  <2>2. CASE Accepted(p)
    BY <2>1, <2>2 DEF SessionConnected, Accepted, LinksHaveSessions
  <2>3. CASE Refused(p)
    BY <2>1, <2>3 DEF SessionConnected, Refused, LinksHaveSessions
  <2>4. QED BY <2>1, <2>2, <2>3 DEF SessionConnected
<1>3. CASE \E p \in Peers : DialEnds(p)
  BY <1>3 DEF DialEnds, LinksHaveSessions
<1>4. CASE \E p \in Peers : LinkCallback(p)
  BY <1>4 DEF LinkCallback, FindsSession, LinksHaveSessions
<1>5. CASE \E p \in Peers : LinkEnds(p)
  BY <1>5 DEF LinkEnds, FindsSession, LinksHaveSessions
<1>6. CASE UNCHANGED serverVars BY <1>6 DEF serverVars, LinksHaveSessions
<1>7. QED BY <1>1, <1>2, <1>3, <1>4, <1>5, <1>6 DEF MqttServerNext

(* However many peers there are, whatever ids their endpoints share, and   *)
(* however large the table is: no callback of a link that was given a      *)
(* place finds nullptr (getSession, sessionConnected in tcp_server.cpp).   *)
(* Of a refused link, whose callbacks are registered too, nothing is said. *)
THEOREM CallbacksAlwaysFindSessions ==
  MqttServerInit /\ [][MqttServerNext]_serverVars => []CallbacksFindSessions
<1>1. MqttServerInit => LinksHaveSessions BY DEF MqttServerInit, LinksHaveSessions
<1>2. LinksHaveSessions => CallbacksFindSessions
  BY DEF LinksHaveSessions, CallbacksFindSessions
<1>3. QED BY <1>1, <1>2, ServerStepKeepsSessions, PTL

------------------------------------------------------------------------------
(* RetainedList: what its array holds.                                     *)
Full(list, k) == {i \in 1..k : list[i] # Free}
Entries(list, k) == {list[i] : i \in Full(list, k)}

OneForTopic(list) ==
  \A i, j \in Full(list, MaxEntry) :
    list[i].data # <<>> /\ (list[i].topic = list[j].topic => i = j)

ListOK ==
  /\ retained_list \in Lists \cup {NoList}
  /\ retained_list # NoList => OneForTopic(retained_list)
  /\ retained_cb \in BOOLEAN

BufferOK ==
  /\ buf \in Seq(Uint8) /\ Len(buf) = BufferLength
  /\ loading = Idle \/ loading \in [pos : Nat, order : {"left", "right"}]
  /\ loading # Idle => retained_list # NoList /\ loaded = "no"

LEMMA HeldIsFull ==
  ASSUME retained_list # NoList
  PROVE  Held = Full(retained_list, MaxEntry) /\ Kept = Entries(retained_list, MaxEntry)
BY DEF Held, Kept, Full, Entries

LEMMA FullEntries ==
  ASSUME NEW list \in Lists, NEW i \in Full(list, MaxEntry)
  PROVE  i \in 1..MaxEntry /\ list[i] \in Entry
BY DEF Full, Lists

LEMMA KeptFits ==
  ASSUME NEW list \in Lists
  PROVE  Cardinality(Entries(list, MaxEntry)) <= MaxEntry
<1> DEFINE S == Full(list, MaxEntry)
           T == Entries(list, MaxEntry)
           f == [i \in S |-> list[i]]
<1>1. MaxEntry \in Nat BY RetainedConstantsOK
<1>2. IsFiniteSet(1..MaxEntry) /\ Cardinality(1..MaxEntry) = MaxEntry
  BY <1>1, FS_Interval
<1>3. S \subseteq 1..MaxEntry BY DEF Full
<1>4. IsFiniteSet(S) /\ Cardinality(S) <= MaxEntry BY <1>2, <1>3, FS_Subset
<1>5. f \in Surjection(S, T) BY DEF Surjection, Entries
<1>6. IsFiniteSet(T) /\ Cardinality(T) <= Cardinality(S)
  BY <1>4, <1>5, FS_Surjection DEF ExistsSurjection
<1>7. Cardinality(S) \in Nat /\ Cardinality(T) \in Nat BY <1>4, <1>6, FS_CardinalityType
<1>8. QED BY <1>1, <1>4, <1>6, <1>7

(* The entry that an update uses: the one of its topic, or a free one.     *)
LEMMA UsedPlace ==
  ASSUME NEW list \in Lists, retained_list = list, OneForTopic(list),
         NEW e \in Entry, NEW i \in 1..MaxEntry, Uses(e.topic, i)
  PROVE  /\ \A j \in Full(list, MaxEntry) : list[j].topic = e.topic <=> j = i /\ list[i] # Free
         /\ list[i] # Free => list[i].topic = e.topic
         /\ Place(e.topic) = {} <=> list[i] = Free
<1>1. list # NoList BY NothingIsNoEntry
<1>2. Held = Full(list, MaxEntry) BY <1>1, HeldIsFull
<1>3. CASE Place(e.topic) # {}
  <2>1. i \in Place(e.topic) BY <1>3 DEF Uses
  <2>2. QED BY <1>2, <1>3, <2>1 DEF Place, OneForTopic, Full
<1>4. CASE Place(e.topic) = {}
  <2>1. i \in FreePlaces BY <1>4 DEF Uses
  <2>2. QED BY <1>2, <1>4, <2>1 DEF Place, FreePlaces, Full
<1>5. QED BY <1>3, <1>4

LEMMA FilledEntry ==
  ASSUME NEW list \in Lists, retained_list = list, OneForTopic(list),
         NEW e \in Entry, e.data # <<>>, NEW i \in 1..MaxEntry, Uses(e.topic, i)
  PROVE  LET next == [list EXCEPT ![i] = e] IN
           /\ next \in Lists /\ OneForTopic(next)
           /\ Entries(next, MaxEntry) = {f \in Entries(list, MaxEntry) : f.topic # e.topic} \cup {e}
<1> DEFINE next == [list EXCEPT ![i] = e]
<1>1. next \in Lists BY DEF Lists
<1>2. e # Free BY NothingIsNoEntry
<1>3. /\ next[i] = e /\ \A j \in 1..MaxEntry : j # i => next[j] = list[j]
  BY DEF Lists
<1>4. Full(next, MaxEntry) = Full(list, MaxEntry) \cup {i} BY <1>2, <1>3 DEF Full
<1>5. \A j \in Full(list, MaxEntry) : list[j].topic = e.topic <=> j = i /\ list[i] # Free
  BY UsedPlace
<1>6. Full(list, MaxEntry) \subseteq 1..MaxEntry BY DEF Full
<1> HIDE DEF next
<1>7. OneForTopic(next) BY <1>3, <1>4, <1>5, <1>6 DEF OneForTopic
<1>8. Entries(next, MaxEntry) = {f \in Entries(list, MaxEntry) : f.topic # e.topic} \cup {e}
  <2>1. ASSUME NEW j \in Full(next, MaxEntry)
        PROVE  next[j] \in {f \in Entries(list, MaxEntry) : f.topic # e.topic} \cup {e}
    <3>1. CASE j = i BY <1>3, <3>1
    <3>2. CASE j # i
      <4>1. j \in Full(list, MaxEntry) /\ next[j] = list[j] BY <1>3, <1>4, <1>6, <3>2
      <4>2. list[j].topic # e.topic BY <1>5, <3>2, <4>1
      <4>3. QED BY <4>1, <4>2 DEF Entries
    <3>3. QED BY <3>1, <3>2
  <2>2. ASSUME NEW f \in Entries(list, MaxEntry), f.topic # e.topic
        PROVE  f \in Entries(next, MaxEntry)
    <3>1. PICK j \in Full(list, MaxEntry) : f = list[j] BY DEF Entries
    <3>2. j # i
      <4>1. SUFFICES ASSUME j = i PROVE FALSE OBVIOUS
      <4>2. list[i] # Free BY <4>1 DEF Full
      <4>3. list[j].topic = e.topic BY <1>5, <4>1, <4>2
      <4>4. QED BY <2>2, <3>1, <4>3
    <3>3. j \in Full(next, MaxEntry) /\ next[j] = f BY <1>3, <1>4, <1>6, <3>1, <3>2
    <3>4. QED BY <3>3 DEF Entries
  <2>3. e \in Entries(next, MaxEntry) BY <1>3, <1>4 DEF Entries
  <2>4. QED BY <2>1, <2>2, <2>3 DEF Entries
<1>9. QED BY <1>1, <1>7, <1>8 DEF next

LEMMA FreedEntry ==
  ASSUME NEW list \in Lists, retained_list = list, OneForTopic(list),
         NEW e \in Entry, NEW i \in 1..MaxEntry, Uses(e.topic, i)
  PROVE  LET next == [list EXCEPT ![i] = Free] IN
           /\ next \in Lists /\ OneForTopic(next)
           /\ Entries(next, MaxEntry) = {f \in Entries(list, MaxEntry) : f.topic # e.topic}
<1> DEFINE next == [list EXCEPT ![i] = Free]
<1>1. next \in Lists BY DEF Lists
<1>2. /\ next[i] = Free /\ \A j \in 1..MaxEntry : j # i => next[j] = list[j]
  BY DEF Lists
<1>3. Full(next, MaxEntry) = Full(list, MaxEntry) \ {i} BY <1>2 DEF Full
<1>4. \A j \in Full(list, MaxEntry) : list[j].topic = e.topic <=> j = i /\ list[i] # Free
  BY UsedPlace
<1>5. Full(list, MaxEntry) \subseteq 1..MaxEntry BY DEF Full
<1> HIDE DEF next
<1>6. \A j \in Full(next, MaxEntry) : j \in Full(list, MaxEntry) /\ next[j] = list[j] /\ j # i
  BY <1>2, <1>3, <1>5
<1>7. OneForTopic(next) BY <1>6 DEF OneForTopic
<1>8. Entries(next, MaxEntry) = {f \in Entries(list, MaxEntry) : f.topic # e.topic}
  <2>1. ASSUME NEW j \in Full(next, MaxEntry)
        PROVE  next[j] \in {f \in Entries(list, MaxEntry) : f.topic # e.topic}
    <3>1. j \in Full(list, MaxEntry) /\ next[j] = list[j] /\ j # i BY <1>6
    <3>2. list[j].topic # e.topic BY <1>4, <3>1
    <3>3. QED BY <3>1, <3>2 DEF Entries
  <2>2. ASSUME NEW f \in Entries(list, MaxEntry), f.topic # e.topic
        PROVE  f \in Entries(next, MaxEntry)
    <3>1. PICK j \in Full(list, MaxEntry) : f = list[j] BY DEF Entries
    <3>2. j # i
      <4>1. SUFFICES ASSUME j = i PROVE FALSE OBVIOUS
      <4>2. list[i] # Free BY <4>1 DEF Full
      <4>3. list[j].topic = e.topic BY <1>4, <4>1, <4>2
      <4>4. QED BY <2>2, <3>1, <4>3
    <3>3. j \in Full(next, MaxEntry) /\ next[j] = f BY <1>2, <1>3, <1>5, <3>1, <3>2
    <3>4. QED BY <3>3 DEF Entries
  <2>3. QED BY <2>1, <2>2 DEF Entries
<1>9. QED BY <1>1, <1>7, <1>8 DEF next

(* An entry that is read from the copy is one, whatever the copy holds.    *)
LEMMA BytesAre ==
  ASSUME BufferOK, NEW pos \in Nat
  PROVE  Byte0(pos) \in Uint8 /\ Byte0(pos) \in Nat /\ (Byte0(pos) # 0 => pos < BufferLength)
<1>1. BufferLength \in Nat BY RetainedConstantsOK
<1>2. 0 \in Uint8 /\ Uint8 \subseteq Nat BY DEF Uint8
<1>3. CASE pos < BufferLength
  <2>1. pos + 1 \in 1..Len(buf) BY <1>1, <1>3 DEF BufferOK
  <2>2. buf[pos + 1] \in Uint8 BY <2>1, ElementOfSeq DEF BufferOK
  <2>3. QED BY <1>2, <1>3, <2>2 DEF Byte0
<1>4. CASE ~(pos < BufferLength) BY <1>2, <1>4 DEF Byte0
<1>5. QED BY <1>3, <1>4

LEMMA StringEnds ==
  ASSUME BufferOK, NEW pos \in Nat, Byte0(pos) # 0
  PROVE  /\ EndOfString(pos) \in Nat /\ pos < EndOfString(pos) /\ EndOfString(pos) <= BufferLength
         /\ Byte0(EndOfString(pos)) = 0
         /\ \A q \in Nat : pos <= q /\ q < EndOfString(pos) => Byte0(q) # 0
<1> DEFINE S == {p \in Nat : pos <= p /\ Byte0(p) = 0}
           Ends(p) == Byte0(p) = 0 /\ \A q \in pos..p - 1 : Byte0(q) # 0
<1>1. BufferLength \in Nat /\ pos < BufferLength BY BytesAre, RetainedConstantsOK
<1>2. BufferLength \in S BY <1>1 DEF Byte0
<1>3. PICK p \in S : \A k \in S : p <= k
  <2>1. S \in SUBSET Nat /\ S # {} BY <1>2
  <2> HIDE DEF S
  <2>2. QED BY <2>1, LeastNumber
<1>4. p \in pos..BufferLength /\ Ends(p) BY <1>1, <1>2, <1>3
<1>5. EndOfString(pos) = CHOOSE r \in pos..BufferLength : Ends(r) BY DEF EndOfString
<1> DEFINE r == EndOfString(pos)
<1>6. r \in pos..BufferLength /\ Ends(r)
  <2> HIDE DEF Ends, r
  <2>1. QED BY <1>4, <1>5, Zenon DEF r
<1> HIDE DEF r
<1>7. r \in Nat /\ pos <= r /\ r <= BufferLength BY <1>1, <1>6
<1>8. pos # r BY <1>6
<1>9. \A q \in Nat : pos <= q /\ q < r => Byte0(q) # 0 BY <1>6, <1>7
<1>10. QED BY <1>6, <1>7, <1>8, <1>9 DEF r

(* What LoadsEntry reads from the copy.                                    *)
EntryRead ==
  [topic |-> SubSeq(buf, loading.pos + 1, DataAt - 3),
   data  |-> SubSeq(buf, DataAt + 1, AfterData),
   qos   |-> Byte0(AfterData)]

LEMMA EntryReadIsEntry ==
  ASSUME BufferOK, LoadsEntry
  PROVE  EntryRead \in Entry /\ AfterData \in Nat
<1> DEFINE pos == loading.pos
           end == EndOfString(pos)
<1>1. /\ loading # Idle /\ Byte0(pos) # 0 /\ DataAt - 2 < BufferLength /\ AfterData < BufferLength
  BY DEF LoadsEntry
<1>2. pos \in Nat BY <1>1 DEF BufferOK
<1>3. /\ end \in Nat /\ pos < end /\ end <= BufferLength
      /\ \A q \in Nat : pos <= q /\ q < end => Byte0(q) # 0
  BY <1>1, <1>2, StringEnds
<1>4. BufferLength \in Nat /\ buf \in Seq(Uint8) /\ Len(buf) = BufferLength
  BY RetainedConstantsOK DEF BufferOK
<1>5. DataAt = end + 3 BY DEF DataAt
<1>6. AfterData \in Nat
  <2>1. Byte0(DataAt - 2) \in Nat /\ Byte0(DataAt - 2 + 1) \in Nat
    <3>1. DataAt - 2 \in Nat /\ DataAt - 2 + 1 \in Nat BY <1>3, <1>5
    <3>2. QED BY <3>1, BytesAre
  <2>2. ReadLength(DataAt - 2) \in Nat BY <2>1 DEF ReadLength
  <2>3. DataAt \in Nat BY <1>3, <1>5
  <2>4. QED BY <2>2, <2>3 DEF AfterData
<1> HIDE DEF pos, end
<1>7. SubSeq(buf, pos + 1, end) \in Seq(Uint8 \ {0})
  <2>1. ASSUME NEW i \in (pos + 1)..end PROVE buf[i] \in Uint8 \ {0}
    <3>1. i - 1 \in Nat /\ pos <= i - 1 /\ i - 1 < end /\ i - 1 < BufferLength /\ i - 1 + 1 = i
      BY <1>2, <1>3, <1>4 
    <3>2. Byte0(i - 1) = buf[i] BY <3>1 DEF Byte0
    <3>3. QED BY <1>3, <3>1, <3>2, BytesAre
  <2>2. QED BY <1>2, <1>3, <2>1, SubSeqProperties
<1>8. SubSeq(buf, DataAt + 1, AfterData) \in Seq(Uint8)
  <2>1. DataAt + 1 \in Int /\ AfterData \in Int BY <1>3, <1>5, <1>6
  <2>2. ASSUME NEW i \in (DataAt + 1)..AfterData PROVE buf[i] \in Uint8
    <3>1. i \in 1..Len(buf) BY <1>1, <1>3, <1>4, <1>5, <1>6
    <3>2. QED BY <1>4, <3>1, ElementOfSeq
  <2>3. QED BY <2>1, <2>2, SubSeqProperties
<1>9. Byte0(AfterData) \in Uint8 BY <1>6, BytesAre
<1>10. DataAt - 3 = end BY <1>3, <1>5
<1>11. QED BY <1>6, <1>7, <1>8, <1>9, <1>10 DEF EntryRead, Entry, pos

------------------------------------------------------------------------------
(* An update, its answer and what it leaves.                               *)
Without(S, t) == {e \in S : e.topic # t}

LEMMA UpdateLeaves ==
  ASSUME ListOK, NEW e \in Entry, update_retainedtopic(e)
  PROVE  /\ retained_list' \in Lists \cup {NoList}
         /\ retained_list' # NoList => OneForTopic(retained_list')
         /\ retained_list' = NoList <=> retained_list = NoList
         /\ \/ /\ e.data = <<>> /\ updated' = [update |-> e, done |-> TRUE]
               /\ Kept' = Without(Kept, e.topic)
               /\ IF Kept' = Kept THEN cbCalled' = Silent ELSE Call(Nobody)
            \/ /\ e.data # <<>> /\ updated' = [update |-> e, done |-> TRUE]
               /\ Kept' = Without(Kept, e.topic) \cup {e}
               /\ Cardinality(Kept') <= MaxEntry /\ Call(e)
            \/ /\ updated' = [update |-> e, done |-> FALSE] /\ cbCalled' = Silent
               /\ Kept' \in {Kept, Without(Kept, e.topic)}
<1>1. CASE retained_list = NoList
  BY <1>1 DEF update_retainedtopic, UpdateRefused, Answers, ListOK, Kept, Held
<1>2. CASE retained_list # NoList
  <2> DEFINE list == retained_list
  <2>1. list \in Lists /\ OneForTopic(list) /\ Kept = Entries(list, MaxEntry)
        /\ Held = Full(list, MaxEntry)
    BY <1>2, HeldIsFull DEF ListOK
  <2>2. ASSUME NEW next \in Lists, retained_list' = next
        PROVE  retained_list' # NoList /\ Kept' = Entries(next, MaxEntry)
    <3>1. next # NoList BY NothingIsNoEntry
    <3>2. QED BY <2>2, <3>1 DEF Kept, Held, Full, Entries
  <2>3. CASE Deletes(e)
    <3>1. CASE Place(e.topic) = {}
      <4>1. retained_list' = list /\ cbCalled' = Silent /\ e.data = <<>> 
        BY <2>3, <3>1 DEF Deletes
      <4>2. Kept' = Kept BY <2>1, <2>2, <4>1
      <4>3. Kept = Without(Kept, e.topic)
        BY <2>1, <3>1 DEF Without, Place, Entries
      <4>4. QED BY <1>2, <2>1, <2>3, <4>1, <4>2, <4>3 DEF Deletes, Answers
    <3>2. CASE Place(e.topic) # {}
      <4>1. PICK i \in Place(e.topic) :
              /\ Uses(e.topic, i) /\ retained_list' = [list EXCEPT ![i] = Free] /\ Call(Nobody)
        BY <2>3, <3>2 DEF Deletes
      <4>2. i \in Full(list, MaxEntry) /\ i \in 1..MaxEntry /\ list[i].topic = e.topic
        BY <2>1, <4>1 DEF Place, Full
      <4> DEFINE next == [list EXCEPT ![i] = Free]
      <4>3. /\ next \in Lists /\ OneForTopic(next)
            /\ Entries(next, MaxEntry) = {f \in Entries(list, MaxEntry) : f.topic # e.topic}
        BY <2>1, <4>1, <4>2, FreedEntry
      <4> HIDE DEF next
      <4>4. retained_list' = next BY <4>1 DEF next
      <4>5. Kept' = Without(Kept, e.topic) /\ retained_list' # NoList
        BY <2>1, <2>2, <4>3, <4>4 DEF Without
      <4>6. list[i] \in Kept /\ list[i] \notin Kept'
        BY <2>1, <4>2, <4>5 DEF Without, Entries
      <4>7. QED BY <1>2, <2>3, <4>1, <4>3, <4>4, <4>5, <4>6 DEF Deletes, Answers
    <3>3. QED BY <3>1, <3>2
  <2>4. CASE Stores(e)
    <3>1. PICK i \in 1..MaxEntry : Uses(e.topic, i) /\ retained_list' = [list EXCEPT ![i] = e]
      BY <2>4 DEF Stores
    <3> DEFINE next == [list EXCEPT ![i] = e]
    <3>2. /\ next \in Lists /\ OneForTopic(next)
          /\ Entries(next, MaxEntry) = {f \in Entries(list, MaxEntry) : f.topic # e.topic} \cup {e}
      BY <2>1, <2>4, <3>1, FilledEntry DEF Stores
    <3> HIDE DEF next
    <3>3. retained_list' = next BY <3>1 DEF next
    <3>4. Kept' = Without(Kept, e.topic) \cup {e} /\ retained_list' # NoList
      BY <2>1, <2>2, <3>2, <3>3 DEF Without
    <3>5. Cardinality(Kept') <= MaxEntry BY <2>2, <3>2, <3>3, KeptFits
    <3>6. QED BY <1>2, <2>4, <3>2, <3>3, <3>4, <3>5 DEF Stores, Answers
  <2>5. CASE OutOfMemory(e)
    <3>1. PICK i \in 1..MaxEntry :
            /\ Uses(e.topic, i)
            /\ retained_list' = list \/ retained_list' = [list EXCEPT ![i] = Free]
      BY <2>5 DEF OutOfMemory
    <3>2. updated' = [update |-> e, done |-> FALSE] /\ cbCalled' = Silent
      BY <2>5 DEF OutOfMemory, Answers
    <3>3. CASE retained_list' = list
      <4>1. Kept' = Kept BY <2>1, <2>2, <3>3
      <4>2. QED BY <1>2, <2>1, <3>2, <3>3, <4>1
    <3>4. CASE retained_list' = [list EXCEPT ![i] = Free]
      <4> DEFINE next == [list EXCEPT ![i] = Free]
      <4>1. /\ next \in Lists /\ OneForTopic(next)
            /\ Entries(next, MaxEntry) = {f \in Entries(list, MaxEntry) : f.topic # e.topic}
        BY <2>1, <3>1, FreedEntry
      <4> HIDE DEF next
      <4>2. retained_list' = next BY <3>4 DEF next
      <4>3. Kept' = Without(Kept, e.topic) /\ retained_list' # NoList
        BY <2>1, <2>2, <4>1, <4>2 DEF Without
      <4>4. QED BY <1>2, <3>2, <4>1, <4>2, <4>3
    <3>5. QED BY <3>1, <3>3, <3>4
  <2>6. CASE UpdateRefused(e)
    <3>1. retained_list' = list /\ updated' = [update |-> e, done |-> FALSE] /\ cbCalled' = Silent
      BY <2>6 DEF UpdateRefused, Answers
    <3>2. Kept' = Kept BY <2>1, <2>2, <3>1
    <3>3. QED BY <1>2, <2>1, <3>1, <3>2
  <2>7. QED BY <1>2, <2>3, <2>4, <2>5, <2>6 DEF update_retainedtopic
<1>3. QED BY <1>1, <1>2

------------------------------------------------------------------------------
(* The copy: the recursion along the array, and what it gives.             *)
AreCopied(c, list) ==
  /\ c \in [0..MaxEntry -> Seq(Nat)]
  /\ c[0] = <<>>
  /\ \A n \in 1..MaxEntry :
       c[n] = IF list[n] = Free THEN c[n - 1] ELSE c[n - 1] \o Written(list[n])

LEMMA WrittenBytes ==
  ASSUME NEW e \in Entry
  PROVE  LET t == Len(e.topic)
             n == Len(e.data)
         IN  /\ t \in Nat /\ n \in Nat
             /\ Written(e) \in Seq(Nat) /\ Len(Written(e)) = t + n + 4
             /\ \A i \in 1..t : Written(e)[i] = e.topic[i]
             /\ Written(e)[t + 1] = 0
             /\ Written(e)[t + 2] = (n % 256) /\ Written(e)[t + 3] = n \div 256
             /\ \A i \in 1..n : Written(e)[t + 3 + i] = e.data[i]
             /\ Written(e)[t + n + 4] = e.qos
<1> DEFINE a == e.topic
           d == e.data
           t == Len(a)
           n == Len(d)
           b == <<0, (n % 256), n \div 256>>
           q == <<e.qos>>
<1>1. a \in Seq(Uint8) /\ d \in Seq(Uint8) /\ e.qos \in Uint8 /\ Uint8 \subseteq Nat
  BY DEF Entry, Uint8
<1>2. a \in Seq(Nat) /\ d \in Seq(Nat) /\ e.qos \in Nat
  <2>1. a \in Seq(Nat) BY <1>1, SeqMonotonic
  <2>2. d \in Seq(Nat) BY <1>1, SeqMonotonic
  <2>3. QED BY <1>1, <2>1, <2>2
<1>3. t \in Nat /\ n \in Nat BY <1>2
<1>4. b \in Seq(Nat) /\ Len(b) = 3 /\ b[1] = 0 /\ b[2] = (n % 256) /\ b[3] = n \div 256
  <2> HIDE DEF n
  <2>1. (n % 256) \in Nat /\ n \div 256 \in Nat BY <1>3
  <2>2. QED BY <2>1
<1>5. q \in Seq(Nat) /\ Len(q) = 1 /\ q[1] = e.qos BY <1>2
<1>6. Len(a) = t /\ Len(d) = n OBVIOUS
<1> HIDE DEF a, d, b, q, t, n
<1> DEFINE ab == a \o b
           abd == ab \o d
           w == abd \o q
<1>7. /\ ab \in Seq(Nat) /\ Len(ab) = t + 3 
      /\ \A i \in 1..(t + 3) : ab[i] = IF i <= t THEN a[i] ELSE b[i - t]
  <2> DEFINE u == Len(b)
  <2>1. a \in Seq(Nat) /\ b \in Seq(Nat) /\ Len(a) = t /\ Len(b) = u /\ u \in Nat
    BY <1>2, <1>4, <1>6
  <2>2. u = 3 BY <1>4
  <2> HIDE DEF u
  <2>3. /\ ab \in Seq(Nat) /\ Len(ab) = t + u
        /\ \A i \in 1..(t + u) : ab[i] = IF i <= t THEN a[i] ELSE b[i - t]
    BY <1>3, <2>1
  <2>4. QED BY <2>2, <2>3
<1> HIDE DEF ab
<1>8. /\ abd \in Seq(Nat) /\ Len(abd) = (t + 3) + n
      /\ \A i \in 1..((t + 3) + n) : abd[i] = IF i <= t + 3 THEN ab[i] ELSE d[i - (t + 3)]
  <2> DEFINE l == t + 3
  <2>1. ab \in Seq(Nat) /\ Len(ab) = l BY <1>7
  <2>2. d \in Seq(Nat) /\ Len(d) = n BY <1>2, <1>6
  <2>3. l \in Nat /\ n \in Nat BY <1>3
  <2> HIDE DEF l
  <2>4. /\ abd \in Seq(Nat) /\ Len(abd) = l + n
        /\ \A i \in 1..(l + n) : abd[i] = IF i <= l THEN ab[i] ELSE d[i - l]
    BY <2>1, <2>2, <2>3
  <2>5. QED BY <2>4 DEF l
<1> HIDE DEF abd
<1>9. /\ w \in Seq(Nat) /\ Len(w) = ((t + 3) + n) + 1
      /\ \A i \in 1..(((t + 3) + n) + 1) :
           w[i] = IF i <= (t + 3) + n THEN abd[i] ELSE q[i - ((t + 3) + n)]
  <2> DEFINE u == Len(q)
             l == (t + 3) + n
  <2>1. abd \in Seq(Nat) /\ Len(abd) = l BY <1>8
  <2>2. q \in Seq(Nat) /\ Len(q) = u /\ u \in Nat BY <1>5
  <2>3. l \in Nat BY <1>3
  <2>4. u = 1 BY <1>5
  <2> HIDE DEF u, l
  <2>5. /\ w \in Seq(Nat) /\ Len(w) = l + u
        /\ \A i \in 1..(l + u) : w[i] = IF i <= l THEN abd[i] ELSE q[i - l]
    BY <2>1, <2>2, <2>3
  <2>6. QED BY <2>4, <2>5 DEF l
<1>10. Written(e) = w BY DEF Written, w, abd, ab, a, b, d, q, n
<1> HIDE DEF w
<1>11. Len(w) = t + n + 4 BY <1>3, <1>9
<1>12. ASSUME NEW i \in 1..t PROVE w[i] = a[i]
  <2>1. i \in Nat /\ i <= t + 3 /\ i <= (t + 3) + n /\ 1 <= i /\ i <= t BY <1>3
  <2>2. i \in 1..(t + 3) /\ i \in 1..((t + 3) + n) /\ i \in 1..(((t + 3) + n) + 1) BY <1>3, <2>1
  <2>3. w[i] = abd[i] /\ abd[i] = ab[i] /\ ab[i] = a[i] BY <1>7, <1>8, <1>9, <2>1, <2>2
  <2>4. QED BY <2>3
<1>13. ASSUME NEW j \in 1..3 PROVE w[t + j] = b[j]
  <2> DEFINE i == t + j
  <2>1. i \in Nat /\ i <= t + 3 /\ i <= (t + 3) + n /\ 1 <= i /\ ~(i <= t) /\ i - t = j BY <1>3
  <2> HIDE DEF i
  <2>2. i \in 1..(t + 3) /\ i \in 1..((t + 3) + n) /\ i \in 1..(((t + 3) + n) + 1) BY <1>3, <2>1
  <2>3. w[i] = abd[i] /\ abd[i] = ab[i] /\ ab[i] = b[j] BY <1>7, <1>8, <1>9, <2>1, <2>2
  <2>4. QED BY <2>3 DEF i
<1>14. ASSUME NEW j \in 1..n PROVE w[t + 3 + j] = d[j]
  <2> DEFINE i == t + 3 + j
  <2>1. i \in Nat /\ i <= (t + 3) + n /\ 1 <= i /\ ~(i <= t + 3) /\ i - (t + 3) = j BY <1>3
  <2> HIDE DEF i
  <2>2. i \in 1..((t + 3) + n) /\ i \in 1..(((t + 3) + n) + 1) BY <1>3, <2>1
  <2>3. w[i] = abd[i] /\ abd[i] = d[j] BY <1>8, <1>9, <2>1, <2>2
  <2>4. QED BY <2>3 DEF i
<1>15. w[t + n + 4] = e.qos
  <2> DEFINE i == t + n + 4
  <2>1. i \in Nat /\ 1 <= i /\ ~(i <= (t + 3) + n) /\ i - ((t + 3) + n) = 1 /\ i = ((t + 3) + n) + 1
    BY <1>3
  <2> HIDE DEF i
  <2>2. i \in 1..(((t + 3) + n) + 1) BY <1>3, <2>1
  <2>3. w[i] = q[1] BY <1>9, <2>1, <2>2
  <2>4. QED BY <1>5, <2>3 DEF i
<1>16. /\ w[t + 1] = 0 /\ w[t + 2] = (n % 256) /\ w[t + 3] = n \div 256
  BY <1>4, <1>13
<1>17. QED BY <1>3, <1>9, <1>10, <1>11, <1>12, <1>14, <1>15, <1>16 DEF a, d, t, n

(* The same as a predicate of the bytes.                                   *)
IsWritten(w, e) ==
  LET t == Len(e.topic)
      n == Len(e.data)
  IN  /\ t \in Nat /\ n \in Nat
      /\ w \in Seq(Nat) /\ Len(w) = t + n + 4
      /\ \A i \in 1..t : w[i] = e.topic[i]
      /\ w[t + 1] = 0
      /\ w[t + 2] = (n % 256) /\ w[t + 3] = n \div 256
      /\ \A i \in 1..n : w[t + 3 + i] = e.data[i]
      /\ w[t + n + 4] = e.qos

LEMMA WrittenIs ==
  ASSUME NEW e \in Entry
  PROVE  IsWritten(Written(e), e)
BY WrittenBytes, Zenon DEF IsWritten

LEMMA CopiedIs ==
  ASSUME NEW list \in Lists
  PROVE  AreCopied(Copied(list), list)
<1> DEFINE step(n, s) == IF list[n] = Free THEN s ELSE s \o Written(list[n])
           G == [n \in 1..MaxEntry |-> [s \in Seq(Nat) |-> step(n, s)]]
           body(h) == [n \in 0..MaxEntry |->
                         IF n = 0 THEN <<>>
                         ELSE IF list[n] = Free THEN h[n - 1] ELSE h[n - 1] \o Written(list[n])]
           c == CHOOSE copied : copied = body(copied)
<1>1. Copied(list) = c BY DEF Copied
<1>2. MaxEntry \in Nat BY RetainedConstantsOK
<1>3. ASSUME NEW n \in 1..MaxEntry, NEW s \in Seq(Nat) PROVE step(n, s) \in Seq(Nat)
  <2>1. CASE list[n] = Free BY <2>1
  <2>2. CASE list[n] # Free
    <3>1. list[n] \in Entry BY <2>2 DEF Lists
    <3>2. Written(list[n]) \in Seq(Nat) BY <3>1, WrittenBytes
    <3>3. QED BY <3>2
  <2>3. QED BY <2>1, <2>2
<1>4. PICK f \in [0..MaxEntry -> Seq(Nat)] :
        f[0] = <<>> /\ \A n \in 1..MaxEntry : f[n] = G[n][f[n - 1]]
  <2> DEFINE V == Seq(Nat)
             b == <<>>
  <2>1. G \in [1..MaxEntry -> [V -> V]] BY <1>3
  <2>2. b \in V OBVIOUS
  <2> HIDE DEF G, V, b
  <2>3. \E f \in [0..MaxEntry -> V] : f[0] = b /\ \A n \in 1..MaxEntry : f[n] = G[n][f[n - 1]]
    BY <1>2, <2>1, <2>2, RecursionIsFunction
  <2>4. QED BY <2>3 DEF V, b
<1>5. ASSUME NEW n \in 1..MaxEntry PROVE f[n] = step(n, f[n - 1])
  <2>1. f[n - 1] \in Seq(Nat) BY <1>2
  <2>2. QED BY <1>4, <2>1
<1>6. f = body(f)
  <2>1. ASSUME NEW n \in 0..MaxEntry
        PROVE  f[n] = IF n = 0 THEN <<>>
                      ELSE IF list[n] = Free THEN f[n - 1] ELSE f[n - 1] \o Written(list[n])
    <3>1. CASE n = 0 BY <1>4, <3>1
    <3>2. CASE n # 0
      <4>1. n \in 1..MaxEntry BY <1>2, <3>2
      <4>2. QED BY <1>5, <3>2, <4>1
    <3>3. QED BY <3>1, <3>2
  <2>2. f = [n \in 0..MaxEntry |-> f[n]] BY <1>4
  <2>3. QED BY <2>1, <2>2, Zenon
<1>7. c = body(c) BY <1>6, Zenon
<1>8. ASSUME NEW n \in 0..MaxEntry
      PROVE  c[n] = IF n = 0 THEN <<>>
                    ELSE IF list[n] = Free THEN c[n - 1] ELSE c[n - 1] \o Written(list[n])
  <2> HIDE DEF c
  <2>1. QED BY <1>7, Zenon
<1> HIDE DEF c, G
<1>9. ASSUME NEW n \in 0..MaxEntry PROVE c[n] \in Seq(Nat)
  <2> DEFINE S == {k \in Nat : k <= MaxEntry => c[k] = f[k]}
  <2>1. 0 \in S BY <1>2, <1>4, <1>8
  <2>2. ASSUME NEW k \in S PROVE k + 1 \in S
    <3>1. SUFFICES ASSUME k + 1 <= MaxEntry PROVE c[k + 1] = f[k + 1] OBVIOUS
    <3>2. /\ k + 1 \in 0..MaxEntry /\ k + 1 \in 1..MaxEntry
          /\ k + 1 # 0 /\ k + 1 - 1 = k /\ c[k] = f[k]
      BY <1>2, <3>1
    <3>3. f[k + 1] = step(k + 1, f[k]) BY <1>5, <3>2
    <3>4. c[k + 1] = step(k + 1, c[k]) BY <1>8, <3>2
    <3>5. QED BY <3>2, <3>3, <3>4
  <2>3. S = Nat
    <3> HIDE DEF S
    <3>1. S \in SUBSET Nat BY DEF S
    <3>2. QED BY <2>1, <2>2, <3>1, NumberInduction
  <2> HIDE DEF S
  <2>4. n \in S /\ n <= MaxEntry BY <1>2, <2>3
  <2>5. c[n] = f[n] BY <2>4 DEF S
  <2>6. f[n] \in Seq(Nat) BY <1>4
  <2>7. QED BY <2>5, <2>6
<1>10. AreCopied(c, list)
  <2>1. c = [n \in 0..MaxEntry |-> c[n]] BY <1>7, Zenon
  <2>2. c \in [0..MaxEntry -> Seq(Nat)] BY <1>9, <2>1
  <2>3. c[0] = <<>>
    <3>1. 0 \in 0..MaxEntry BY <1>2
    <3>2. QED BY <1>8, <3>1
  <2>4. ASSUME NEW n \in 1..MaxEntry
        PROVE  c[n] = IF list[n] = Free THEN c[n - 1] ELSE c[n - 1] \o Written(list[n])
    <3>1. n \in 0..MaxEntry /\ n # 0 BY <1>2
    <3>2. QED BY <1>8, <3>1
  <2>5. QED BY <2>2, <2>3, <2>4 DEF AreCopied
<1>11. QED BY <1>1, <1>10

(* A copy begins with what was written of the first entries.               *)
LEMMA CopiedGrows ==
  ASSUME NEW list \in Lists, NEW k \in 0..MaxEntry, NEW m \in k..MaxEntry
  PROVE  LET c == Copied(list) IN
           /\ c[k] \in Seq(Nat) /\ c[m] \in Seq(Nat) /\ Len(c[k]) \in Nat /\ Len(c[m]) \in Nat
           /\ Len(c[k]) <= Len(c[m])
           /\ \A n \in 1..Len(c[k]) : c[m][n] = c[k][n]
           /\ (\A n \in (k + 1)..m : list[n] = Free) => c[m] = c[k]
<1> DEFINE c == Copied(list)
           Grown(j) ==
             /\ Len(c[k]) <= Len(c[j])
             /\ \A n \in 1..Len(c[k]) : c[j][n] = c[k][n]
             /\ (\A n \in (k + 1)..j : list[n] = Free) => c[j] = c[k]
           S == {i \in Nat : k + i <= MaxEntry => Grown(k + i)}
<1>1. AreCopied(c, list) /\ MaxEntry \in Nat BY CopiedIs, RetainedConstantsOK
<1> HIDE DEF c
<1>2. \A j \in 0..MaxEntry : c[j] \in Seq(Nat) /\ Len(c[j]) \in Nat BY <1>1 DEF AreCopied
<1>3. 0 \in S BY <1>1, <1>2
<1>4. ASSUME NEW i \in S PROVE i + 1 \in S
  <2> DEFINE j == k + i
  <2>a. k + (i + 1) = j + 1 OBVIOUS
  <2> SUFFICES k + (i + 1) <= MaxEntry => Grown(k + (i + 1))
    <3> HIDE DEF Grown
    <3> QED OBVIOUS
  <2>b. SUFFICES ASSUME k + (i + 1) <= MaxEntry PROVE Grown(j + 1)
    <3> HIDE DEF Grown, j
    <3> QED BY <2>a
  <2>1. j + 1 <= MaxEntry BY <2>a, <2>b
  <2>2. /\ j \in 0..MaxEntry /\ j + 1 \in 1..MaxEntry /\ j + 1 - 1 = j
        /\ Grown(j) /\ j + 1 \in 0..MaxEntry
        /\ j + 1 \in (k + 1)..(j + 1) /\ (k + 1)..j \subseteq (k + 1)..(j + 1)
    BY <1>1, <2>1
  <2> HIDE DEF j
  <2>3. c[j + 1] = IF list[j + 1] = Free THEN c[j] ELSE c[j] \o Written(list[j + 1])
    BY <1>1, <2>2 DEF AreCopied
  <2>4. CASE list[j + 1] = Free BY <2>2, <2>3, <2>4
  <2>5. CASE list[j + 1] # Free
    <3> DEFINE w == Written(list[j + 1])
    <3>1. w \in Seq(Nat)
      <4>1. list[j + 1] \in Entry BY <2>2, <2>5 DEF Lists
      <4>2. QED BY <4>1, WrittenBytes
    <3> HIDE DEF w
    <3>2. c[j + 1] = c[j] \o w BY <2>3, <2>5 DEF w
    <3>3. c[j] \in Seq(Nat) /\ c[k] \in Seq(Nat) /\ Len(c[j]) \in Nat /\ Len(c[k]) \in Nat
      BY <1>2, <2>2
    <3>4. /\ Len(c[j + 1]) = Len(c[j]) + Len(w) /\ Len(w) \in Nat
          /\ \A n \in 1..Len(c[j]) : c[j + 1][n] = c[j][n]
      BY <3>1, <3>2, <3>3, ConcatProperties
    <3>5. Len(c[k]) <= Len(c[j + 1]) BY <2>2, <3>3, <3>4
    <3>6. \A n \in 1..Len(c[k]) : c[j + 1][n] = c[k][n]
      <4>1. 1..Len(c[k]) \subseteq 1..Len(c[j]) BY <2>2, <3>3
      <4>2. QED BY <2>2, <3>4, <4>1
    <3>7. ~ \A n \in (k + 1)..(j + 1) : list[n] = Free BY <2>2, <2>5
    <3>8. QED BY <3>5, <3>6, <3>7
  <2>6. QED BY <2>4, <2>5
<1>5. S = Nat
  <2> HIDE DEF S
  <2>1. S \in SUBSET Nat BY DEF S
  <2>2. QED BY <1>3, <1>4, <2>1, NumberInduction
<1>6. m - k \in Nat /\ k + (m - k) = m /\ m \in 0..MaxEntry /\ m <= MaxEntry BY <1>1
<1>7. Grown(m)
  <2>1. m - k \in S BY <1>5, <1>6
  <2> HIDE DEF Grown
  <2>2. QED BY <1>6, <2>1
<1>8. QED BY <1>2, <1>6, <1>7 DEF c

(* The checks that are made before an entry is written suffice.            *)
LEMMA CopyFits ==
  ASSUME NEW list \in Lists, retained_list = list, Fits
  PROVE  /\ Copied(list)[MaxEntry] \in Seq(Uint8)
         /\ Len(Copied(list)[MaxEntry]) \in Nat /\ Len(Copied(list)[MaxEntry]) + 1 <= BufferLength
<1> DEFINE c == Copied(list)
           S == {k \in Nat : k <= MaxEntry => c[k] \in Seq(Uint8) /\ Len(c[k]) + 1 <= BufferLength}
<1>1. AreCopied(c, list) /\ MaxEntry \in Nat /\ BufferLength \in Nat \ {0} /\ BufferLength < 65536
  BY CopiedIs, RetainedConstantsOK
<1>2. list # NoList /\ Held = Full(list, MaxEntry)
  <2>1. list # NoList BY NothingIsNoEntry
  <2>2. QED BY <2>1, HeldIsFull
<1>3. \A i \in Full(list, MaxEntry) : ~NoRoom(Len(c[i - 1]), list[i]) BY <1>2 DEF Fits
<1> HIDE DEF c
<1>4. 0 \in S
  <2>1. c[0] = <<>> BY <1>1 DEF AreCopied
  <2>2. <<>> \in Seq(Uint8) /\ Len(<<>>) = 0 OBVIOUS
  <2>3. c[0] \in Seq(Uint8) /\ Len(c[0]) = 0 BY <2>1, <2>2, Zenon
  <2>4. QED BY <1>1, <2>3
<1>5. ASSUME NEW k \in S PROVE k + 1 \in S
  <2>1. SUFFICES ASSUME k + 1 <= MaxEntry
                 PROVE  c[k + 1] \in Seq(Uint8) /\ Len(c[k + 1]) + 1 <= BufferLength
    OBVIOUS
  <2>2. /\ k + 1 \in 1..MaxEntry /\ k + 1 - 1 = k
        /\ c[k] \in Seq(Uint8) /\ Len(c[k]) + 1 <= BufferLength
    BY <1>1, <2>1
  <2>3. c[k + 1] = IF list[k + 1] = Free THEN c[k] ELSE c[k] \o Written(list[k + 1])
    BY <1>1, <2>2 DEF AreCopied
  <2>4. CASE list[k + 1] = Free BY <2>2, <2>3, <2>4
  <2>5. CASE list[k + 1] # Free
    <3> DEFINE e == list[k + 1]
               w == Written(e)
               t == Len(e.topic)
               n == Len(e.data)
    <3>1. e \in Entry /\ k + 1 \in Full(list, MaxEntry) BY <2>2, <2>5 DEF Lists, Full
    <3>2. /\ t \in Nat /\ n \in Nat
          /\ w \in Seq(Nat) /\ Len(w) = t + n + 4
          /\ \A i \in 1..t : w[i] = e.topic[i]
          /\ w[t + 1] = 0 /\ w[t + 2] = (n % 256) /\ w[t + 3] = n \div 256
          /\ \A i \in 1..n : w[t + 3 + i] = e.data[i]
          /\ w[t + n + 4] = e.qos
      <4>1. e \in Entry BY <3>1
      <4> HIDE DEF e
      <4>2. IsWritten(Written(e), e) BY <4>1, WrittenIs
      <4>3. IsWritten(w, e) BY <4>2
      <4> HIDE DEF w
      <4>4. QED BY <4>3 DEF IsWritten
    <3>3. ~(Len(c[k]) + t + 4 + n + 1 >= BufferLength - 1)
      <4>1. ~NoRoom(Len(c[k + 1 - 1]), e) BY <1>3, <3>1
      <4>2. k + 1 - 1 = k BY <2>2
      <4>3. ~NoRoom(Len(c[k]), e) BY <4>1, <4>2
      <4>4. QED BY <4>3 DEF NoRoom
    <3>4. c[k + 1] = c[k] \o w BY <2>3, <2>5
    <3>5. e.topic \in Seq(Uint8) /\ e.data \in Seq(Uint8) /\ e.qos \in Uint8
      BY <3>1 DEF Entry
    <3> HIDE DEF e, w, t, n
    <3>6. Len(c[k]) \in Nat BY <2>2
    <3>7. n < 65536
      <4> DEFINE m == Len(c[k])
      <4>1. m \in Nat /\ t \in Nat /\ n \in Nat /\ ~(m + t + 4 + n + 1 >= BufferLength - 1)
        BY <3>2, <3>3, <3>6
      <4>2. BufferLength \in Nat /\ BufferLength < 65536 BY <1>1
      <4> HIDE DEF m
      <4>3. QED BY <4>1, <4>2
    <3>8. 0 \in Uint8 /\ (n % 256) \in Uint8 /\ n \div 256 \in Uint8
      <4>1. n \in Nat BY <3>2
      <4>2. (n % 256) \in 0..255 BY <4>1
      <4>3. n \div 256 \in 0..255 BY <4>1, <3>7
      <4>4. QED BY <4>2, <4>3 DEF Uint8
    <3>9. ASSUME NEW i \in 1..Len(w) PROVE w[i] \in Uint8
      <4>1. CASE i <= t
        <5>1. i \in 1..t BY <3>2, <4>1
        <5>2. w[i] = e.topic[i] BY <3>2, <5>1
        <5>3. e.topic[i] \in Uint8 BY <3>5, <5>1, ElementOfSeq DEF t
        <5>4. QED BY <5>2, <5>3
      <4>2. CASE i > t /\ i <= t + 3
        <5>1. i \in {t + 1, t + 2, t + 3} BY <3>2, <4>2
        <5>2. QED BY <3>2, <3>8, <5>1
      <4>3. CASE i > t + 3 /\ i <= t + 3 + n
        <5>1. i - t - 3 \in 1..n /\ t + 3 + (i - t - 3) = i BY <3>2, <4>3
        <5>2. w[i] = e.data[i - t - 3] BY <3>2, <5>1
        <5>3. e.data[i - t - 3] \in Uint8 BY <3>5, <5>1, ElementOfSeq DEF n
        <5>4. QED BY <5>2, <5>3
      <4>4. CASE i > t + 3 + n
        <5>1. i = t + n + 4 BY <3>2, <4>4
        <5>2. QED BY <3>2, <3>5, <5>1
      <4>5. QED BY <3>2, <4>1, <4>2, <4>3, <4>4
    <3>10. w \in Seq(Uint8) BY <3>2, <3>9
    <3>11. c[k + 1] \in Seq(Uint8) /\ Len(c[k + 1]) = Len(c[k]) + Len(w)
      BY <2>2, <3>4, <3>10, ConcatProperties
    <3>12. Len(c[k + 1]) + 1 <= BufferLength
      <4> DEFINE m == Len(c[k])
                 lw == Len(w)
                 l == Len(c[k + 1])
      <4>1. m \in Nat /\ l = m + lw /\ lw = t + n + 4 /\ ~(m + t + 4 + n + 1 >= BufferLength - 1)
        BY <3>2, <3>3, <3>6, <3>11
      <4> HIDE DEF m, lw, l
      <4>2. l + 1 <= BufferLength BY <1>1, <3>2, <4>1
      <4>3. QED BY <4>2 DEF l
    <3>13. QED BY <3>11, <3>12
  <2>6. QED BY <2>4, <2>5
<1>6. S = Nat
  <2> HIDE DEF S
  <2>1. S \in SUBSET Nat BY DEF S
  <2>2. QED BY <1>4, <1>5, <2>1, NumberInduction
<1>7. QED BY <1>1, <1>6 DEF c

------------------------------------------------------------------------------
(* Every step of the array is one of the promise.                          *)
LEMMA UpdateIsAnswered ==
  ASSUME ListOK, NEW e \in Entry, update_retainedtopic(e), found' = {}, UNCHANGED retained_cb
  PROVE  Promise!RetainedNext
<1> DEFINE done  == [update |-> e, done |-> TRUE]
           fails == [update |-> e, done |-> FALSE]
<1>1. done # Silent /\ fails # Silent /\ done.update = e /\ fails.update = e BY DEF Silent
<1> HIDE DEF done, fails
<1>2. \/ /\ e.data = <<>> /\ updated' = done
         /\ Kept' = Without(Kept, e.topic)
         /\ IF Kept' = Kept THEN cbCalled' = Silent ELSE Call(Nobody)
      \/ /\ e.data # <<>> /\ updated' = done
         /\ Kept' = Without(Kept, e.topic) \cup {e}
         /\ Cardinality(Kept') <= MaxEntry /\ Call(e)
      \/ /\ updated' = fails /\ cbCalled' = Silent
         /\ Kept' \in {Kept, Without(Kept, e.topic)}
  BY UpdateLeaves DEF done, fails
<1>3. Promise!Others(e.topic) = Without(Kept, e.topic) BY DEF Promise!Others, Without
<1>4. \A what : Promise!Tell(what) <=> Call(what) BY DEF Promise!Tell, Call
<1>5. Promise!Cardinality(Kept') = Cardinality(Kept') BY Zenon DEF Promise!Cardinality, Cardinality
<1>6. updated' # Silent /\ updated'.update = e BY <1>1, <1>2
<1>7. Promise!Answered(e)
  <2>1. CASE /\ e.data = <<>> /\ updated' = done
             /\ Kept' = Without(Kept, e.topic)
             /\ IF Kept' = Kept THEN cbCalled' = Silent ELSE Call(Nobody)
    BY <1>3, <1>4, <2>1 DEF Promise!Answered, Promise!Forget, done
  <2>2. CASE /\ e.data # <<>> /\ updated' = done
             /\ Kept' = Without(Kept, e.topic) \cup {e}
             /\ Cardinality(Kept') <= MaxEntry /\ Call(e)
    BY <1>3, <1>4, <1>5, <2>2 DEF Promise!Answered, Promise!Keep, done
  <2>3. CASE /\ updated' = fails /\ cbCalled' = Silent
             /\ Kept' \in {Kept, Without(Kept, e.topic)}
    BY <1>3, <2>3 DEF Promise!Answered, Promise!Refuse, fails
  <2>4. QED BY <1>2, <2>1, <2>2, <2>3
<1>8. QED BY <1>6, <1>7 DEF Promise!RetainedNext

LEMMA PublishedIsEntry ==
  ASSUME NEW e \in RetainedMessages
  PROVE  e \in Entry
BY RetainedConstantsOK

LEMMA FreshList ==
  LET list == [i \in 1..MaxEntry |-> Free]
  IN  list \in Lists /\ OneForTopic(list) /\ Entries(list, MaxEntry) = {}
BY DEF Lists, OneForTopic, Full, Entries

LEMMA FoundByTopic ==
  ASSUME find_retainedtopic
  PROVE  Promise!Find
BY DEF find_retainedtopic, Promise!Find, Kept, Held

LEMMA SerializesInBuffer ==
  ASSUME ListOK, BufferOK, serialize_retainedtopics
  PROVE  LET c == Copied(retained_list)[MaxEntry] IN
           /\ c \in Seq(Uint8) /\ Len(c) \in Nat /\ Len(c) + 1 <= BufferLength
           /\ buf' \in Seq(Uint8) /\ Len(buf') = BufferLength
           /\ \A n \in 1..Len(c) : buf'[n] = c[n]
           /\ buf'[Len(c) + 1] = 0
<1> DEFINE c == Copied(retained_list)[MaxEntry]
           l == Len(c)
           z == <<0>>
           bytes == c \o z
           rest == SubSeq(buf, Len(bytes) + 1, BufferLength)
<1>1. retained_list \in Lists /\ Fits BY DEF serialize_retainedtopics, ListOK
<1>2. c \in Seq(Uint8) /\ l \in Nat /\ l + 1 <= BufferLength BY <1>1, CopyFits
<1>3. buf' = bytes \o rest BY DEF serialize_retainedtopics, Terminated
<1>4. BufferLength \in Nat /\ buf \in Seq(Uint8) /\ Len(buf) = BufferLength
  BY RetainedConstantsOK DEF BufferOK
<1>5. z \in Seq(Uint8) /\ z[1] = 0 BY DEF Uint8
<1>6. Len(z) = 1 OBVIOUS
<1> HIDE DEF c, z
<1>7. bytes \in Seq(Uint8) /\ Len(bytes) = l + 1
  <2>1. bytes \in Seq(Uint8) /\ Len(bytes) = l + Len(z) BY <1>2, <1>5, ConcatProperties
  <2>2. QED BY <1>6, <2>1
<1>8. \A n \in 1..l : bytes[n] = c[n]
  BY <1>2, <1>5, <1>6, ConcatProperties
<1>9. bytes[l + 1] = 0 
  BY <1>2, <1>5, <1>6, ConcatProperties
<1> HIDE DEF l, bytes
<1>10. rest \in Seq(Uint8) /\ Len(rest) = BufferLength - (l + 1)
  <2> DEFINE m == l + 2
  <2>1. m \in Int /\ BufferLength \in Int /\ m >= 1 /\ BufferLength + 1 >= m BY <1>2, <1>4
  <2>2. rest = SubSeq(buf, m, BufferLength) 
    <3>1. Len(bytes) + 1 = l + 2 BY <1>2, <1>7
    <3>2. QED BY <3>1
  <2> HIDE DEF m
  <2>3. \A i \in m..BufferLength : buf[i] \in Uint8 BY <1>4, <2>1, ElementOfSeq
  <2>4. SubSeq(buf, m, BufferLength) \in Seq(Uint8)
        /\ Len(SubSeq(buf, m, BufferLength)) = IF m <= BufferLength THEN BufferLength - m + 1 ELSE 0
    BY <2>1, <2>3, SubSeqProperties
  <2> HIDE DEF rest
  <2>5. QED BY <1>2, <1>4, <2>1, <2>2, <2>4 DEF m
<1> HIDE DEF rest
<1>11. buf' \in Seq(Uint8) /\ Len(buf') = Len(bytes) + Len(rest) 
  BY <1>3, <1>7, <1>10, ConcatProperties
<1>12. Len(buf') = BufferLength BY <1>2, <1>4, <1>7, <1>10, <1>11
<1>13. \A n \in 1..(l + 1) : buf'[n] = bytes[n]
  BY <1>2, <1>3, <1>7, <1>10, ConcatProperties
<1>14. /\ \A n \in 1..l : buf'[n] = c[n]
       /\ buf'[l + 1] = 0
  BY <1>2, <1>8, <1>9, <1>13
<1>15. QED BY <1>2, <1>11, <1>12, <1>14 DEF c, l

LEMMA LoadsAnEntry ==
  ASSUME ListOK, BufferOK, LoadsEntry
  PROVE  /\ EntryRead \in Entry /\ update_retainedtopic(EntryRead)
         /\ found' = {} /\ UNCHANGED <<retained_cb, buf, saved>>
         /\ IF updated'.done
            THEN loading' = [loading EXCEPT !.pos = AfterData + 1] /\ UNCHANGED loaded
            ELSE LoadReturns("failed")
<1>1. EntryRead \in Entry BY EntryReadIsEntry
<1>2. update_retainedtopic(EntryRead) BY DEF LoadsEntry, EntryRead
<1>3. QED BY <1>1, <1>2 DEF LoadsEntry, copy

LEMMA RetainedStep ==
  ASSUME ListOK, BufferOK, RetainedListNext
  PROVE  ListOK' /\ BufferOK' /\ Promise!RetainedNext
<1> USE DEF copy, load
<1>1. ASSUME NoResult, cbCalled' = Silent, UNCHANGED <<Kept, retained_cb>>
      PROVE  Promise!RetainedNext
  BY <1>1 DEF NoResult, Promise!RetainedNext, Promise!Quiet, Promise!NoAnswer
<1>2. ASSUME UNCHANGED retained_list PROVE Kept' = Kept
  BY <1>2 DEF Kept, Held
<1>3. ASSUME UNCHANGED <<retained_list, retained_cb>> PROVE ListOK'
  BY <1>3 DEF ListOK, OneForTopic, Full
<1>4. ASSUME retained_list' = NoList \/ retained_list' = [i \in 1..MaxEntry |-> Free]
      PROVE  /\ retained_list' \in Lists \cup {NoList}
             /\ retained_list' # NoList => OneForTopic(retained_list')
             /\ Kept' = {}
  <2> DEFINE list == [i \in 1..MaxEntry |-> Free]
  <2>1. list \in Lists /\ OneForTopic(list) /\ Entries(list, MaxEntry) = {} BY FreshList
  <2> HIDE DEF list
  <2>2. CASE retained_list' = NoList BY <2>2 DEF Kept, Held
  <2>3. CASE retained_list' = list
    <3>1. retained_list' # NoList BY <2>1, <2>3, NothingIsNoEntry
    <3>2. Kept' = Entries(list, MaxEntry) BY <2>3, <3>1 DEF Kept, Held, Entries, Full
    <3>3. QED BY <2>1, <2>3, <3>2
  <2>4. QED BY <1>4, <2>2, <2>3 DEF list
<1>5. CASE create_retainedlist
  <2>1. retained_list' = NoList \/ retained_list' = [i \in 1..MaxEntry |-> Free]
    BY <1>5 DEF create_retainedlist
  <2>2. /\ retained_cb' = FALSE /\ Unseen /\ loading = Idle
        /\ UNCHANGED <<buf, saved, loading, loaded>>
    BY <1>5 DEF create_retainedlist
  <2>3. ListOK' BY <1>4, <2>1, <2>2 DEF ListOK
  <2>4. BufferOK' BY <2>2 DEF BufferOK, Idle
  <2>5. Promise!RetainedNext
    BY <1>4, <2>1, <2>2
    DEF Unseen, NoResult, Promise!RetainedNext, Promise!Restart, Promise!NoAnswer
  <2>6. QED BY <2>3, <2>4, <2>5
<1>6. CASE set_on_retainedtopic_cb
  <2>1. /\ retained_cb' = TRUE /\ Unseen /\ UNCHANGED <<retained_list, buf, saved, loading, loaded>>
    BY <1>6 DEF set_on_retainedtopic_cb
  <2>2. ListOK' BY <2>1 DEF ListOK, OneForTopic, Full
  <2>3. BufferOK' BY <2>1 DEF BufferOK, Idle
  <2>4. Promise!RetainedNext
    BY <1>2, <2>1 DEF Unseen, NoResult, Promise!RetainedNext, Promise!Listen, Promise!NoAnswer
  <2>5. QED BY <2>2, <2>3, <2>4
<1>7. CASE Restarts
  <2>1. /\ retained_list' = NoList /\ retained_cb' = FALSE /\ Unseen
        /\ loading' = Idle /\ UNCHANGED <<buf, saved>>
    BY <1>7 DEF Restarts
  <2>2. ListOK' BY <1>4, <2>1 DEF ListOK
  <2>3. BufferOK' BY <2>1 DEF BufferOK, Idle
  <2>4. Promise!RetainedNext
    BY <1>4, <2>1 DEF Unseen, NoResult, Promise!RetainedNext, Promise!Restart, Promise!NoAnswer
  <2>5. QED BY <2>2, <2>3, <2>4
<1>8. CASE Update
  <2>1. PICK e \in RetainedMessages :
          /\ loading = Idle /\ update_retainedtopic(e) /\ found' = {}
          /\ UNCHANGED <<retained_cb, buf, saved, loading, loaded>>
    BY <1>8 DEF Update
  <2>2. e \in Entry BY PublishedIsEntry
  <2>3. ListOK' BY <2>1, <2>2, UpdateLeaves DEF ListOK
  <2>4. BufferOK' BY <2>1 DEF BufferOK, Idle
  <2>5. Promise!RetainedNext BY <2>1, <2>2, UpdateIsAnswered
  <2>6. QED BY <2>3, <2>4, <2>5
<1>9. CASE find_retainedtopic
  <2>1. UNCHANGED <<retained_list, retained_cb, buf, saved, loading, loaded>>
    BY <1>9 DEF find_retainedtopic
  <2>2. BufferOK' BY <2>1 DEF BufferOK, Idle
  <2>3. Promise!RetainedNext BY <1>9, FoundByTopic DEF Promise!RetainedNext
  <2>4. QED BY <1>3, <2>1, <2>2, <2>3
<1>10. CASE clear_retainedtopics
  <2>1. /\ retained_list' = [i \in 1..MaxEntry |-> Free] /\ NoResult
        /\ IF Held = {} THEN cbCalled' = Silent ELSE Call(Nobody)
        /\ UNCHANGED <<retained_cb, buf, saved, loading, loaded>> /\ loading = Idle
    BY <1>10 DEF clear_retainedtopics
  <2>2. ListOK' BY <1>4, <2>1 DEF ListOK
  <2>3. BufferOK' BY <2>1 DEF BufferOK, Idle
  <2>4. Held = {} <=> Kept = {} BY DEF Kept
  <2>5. Promise!RetainedNext
    BY <1>4, <2>1, <2>4
    DEF NoResult, Call, Promise!RetainedNext, Promise!Clear, Promise!Tell, Promise!NoAnswer
  <2>6. QED BY <2>2, <2>3, <2>5
<1>11. CASE serialize_retainedtopics
  <2>1. Unseen /\ loading = Idle /\ UNCHANGED <<retained_list, retained_cb, loading, loaded>>
    BY <1>11 DEF serialize_retainedtopics
  <2>2. buf' \in Seq(Uint8) /\ Len(buf') = BufferLength BY <1>11, SerializesInBuffer
  <2>3. BufferOK' BY <2>1, <2>2 DEF BufferOK, Idle
  <2>4. QED BY <1>1, <1>2, <1>3, <2>1, <2>3 DEF Unseen
<1>12. CASE deserialize_retainedtopics
  <2>1. /\ Unseen /\ UNCHANGED <<retained_list, retained_cb, buf, saved>> /\ loaded' = "no"
        /\ retained_list # NoList
        /\ \E order \in {"left", "right"} : loading' = [pos |-> 0, order |-> order]
    BY <1>12 DEF deserialize_retainedtopics
  <2>2. loading' \in [pos : Nat, order : {"left", "right"}] BY <2>1
  <2>3. BufferOK' BY <2>1, <2>2 DEF BufferOK
  <2>4. QED BY <1>1, <1>2, <1>3, <2>1, <2>3 DEF Unseen
<1>13. CASE LoadEnds \/ LoadFails
  <2>1. /\ Unseen /\ UNCHANGED <<retained_list, retained_cb, buf, saved>> /\ loading' = Idle
    BY <1>13 DEF LoadEnds, LoadFails, LoadReturns
  <2>2. BufferOK' BY <2>1 DEF BufferOK, Idle
  <2>3. QED BY <1>1, <1>2, <1>3, <2>1, <2>2 DEF Unseen
<1>14. CASE LoadsEntry
  <2>1. /\ EntryRead \in Entry /\ update_retainedtopic(EntryRead)
        /\ found' = {} /\ UNCHANGED <<retained_cb, buf, saved>>
        /\ IF updated'.done
           THEN loading' = [loading EXCEPT !.pos = AfterData + 1] /\ UNCHANGED loaded
           ELSE LoadReturns("failed")
    BY <1>14, LoadsAnEntry
  <2>2. AfterData \in Nat /\ loading # Idle BY <1>14, EntryReadIsEntry DEF LoadsEntry
  <2>3. ListOK' /\ (retained_list' = NoList <=> retained_list = NoList)
    BY <2>1, UpdateLeaves DEF ListOK
  <2>4. loading' = Idle \/ (loading' \in [pos : Nat, order : {"left", "right"}] /\ loaded' = loaded)
    <3>1. CASE ~updated'.done BY <2>1, <3>1 DEF LoadReturns
    <3>2. CASE updated'.done
      <4>1. loading \in [pos : Nat, order : {"left", "right"}] BY <2>2 DEF BufferOK
      <4>2. AfterData + 1 \in Nat BY <2>2
      <4>3. loading' = [loading EXCEPT !.pos = AfterData + 1] /\ loaded' = loaded BY <2>1, <3>2
      <4>4. QED BY <4>1, <4>2, <4>3
    <3>3. QED BY <3>1, <3>2
  <2>5. BufferOK' BY <2>1, <2>2, <2>3, <2>4 DEF BufferOK, Idle
  <2>6. Promise!RetainedNext BY <2>1, UpdateIsAnswered
  <2>7. QED BY <2>3, <2>5, <2>6
<1>15. QED
  BY <1>5, <1>6, <1>7, <1>8, <1>9, <1>10, <1>11, <1>12, <1>13, <1>14 DEF RetainedListNext

LEMMA RetainedStart ==
  ASSUME RetainedInit
  PROVE  ListOK /\ BufferOK /\ Promise!RetainedStart
<1>1. ListOK BY DEF RetainedInit, ListOK
<1>2. BufferOK
  <2>1. buf = [i \in 1..BufferLength |-> 0] /\ loading = Idle BY DEF RetainedInit
  <2>2. BufferLength \in Nat BY RetainedConstantsOK
  <2>3. 0 \in Uint8 BY DEF Uint8
  <2>4. QED BY <2>1, <2>2, <2>3 DEF BufferOK, Idle
<1>3. Promise!RetainedStart
  BY DEF RetainedInit, Promise!RetainedStart, Kept, Held
<1>4. QED BY <1>1, <1>2, <1>3

LEMMA RetainedIdles ==
  ASSUME ListOK, BufferOK, UNCHANGED retainedVars
  PROVE  ListOK' /\ BufferOK' /\ UNCHANGED Promise!retainedPromise
BY DEF ListOK, OneForTopic, Full, BufferOK, Idle, Kept, Held, retainedVars,
       Promise!retainedPromise

(* No topic ever has two entries in the array, no entry is without data,   *)
(* and a copy never grows beyond its buffer, also when a load finds        *)
(* something else than a copy there.                                       *)
THEOREM RetainedInvariance ==
  RetainedInit /\ [][RetainedListNext]_retainedVars => [](ListOK /\ BufferOK)
<1>1. RetainedInit => ListOK /\ BufferOK BY RetainedStart
<1>2. ListOK /\ BufferOK /\ [RetainedListNext]_retainedVars => (ListOK /\ BufferOK)'
  BY RetainedStep, RetainedIdles
<1>3. QED BY <1>1, <1>2, PTL

(* The array with holes of mqtt_broker_retained_list.cpp keeps what the    *)
(* map from topics to messages promises, whatever is published, whichever  *)
(* allocation fails and whatever a load finds in the copy.                 *)
THEOREM KeepsThePromise ==
  RetainedInit /\ [][RetainedListNext]_retainedVars => RefinesRetained
<1>1. RetainedInit => Promise!RetainedStart BY RetainedStart
<1>2. ListOK /\ BufferOK /\ [RetainedListNext]_retainedVars
      => [Promise!RetainedNext]_(Promise!retainedPromise)
  BY RetainedStep, RetainedIdles
<1>3. QED
  BY <1>1, <1>2, RetainedInvariance, PTL DEF RefinesRetained, Promise!RetainedSpec

------------------------------------------------------------------------------
(* The copy holds what was written of an array arr; a load has read its    *)
(* first k entries.                                                        *)
IsCopy(arr) ==
  LET c == Copied(arr)[MaxEntry] IN
    /\ arr \in Lists /\ OneForTopic(arr) /\ saved = Entries(arr, MaxEntry)
    /\ c \in Seq(Uint8) /\ Len(c) + 1 <= BufferLength
    /\ \A n \in 1..Len(c) : buf[n] = c[n]
    /\ buf[Len(c) + 1] = 0

HasRead(arr, k) ==
  IsCopy(arr) /\ loading.pos = Len(Copied(arr)[k]) /\ Kept = Entries(arr, k)

Readable == loading # Idle /\ loading.order = "left" /\ \A e \in saved : e.topic # <<>>

CopyOK ==
  /\ \E arr \in Lists : IsCopy(arr)
  /\ Readable => \E arr \in Lists, k \in 0..MaxEntry : HasRead(arr, k)

LEMMA NoneWritten ==
  ASSUME NEW arr \in Lists, NEW k \in 0..MaxEntry, \A i \in (k + 1)..MaxEntry : arr[i] = Free
  PROVE  Copied(arr)[MaxEntry] = Copied(arr)[k] /\ Entries(arr, MaxEntry) = Entries(arr, k)
<1>1. MaxEntry \in Nat BY RetainedConstantsOK
<1>2. MaxEntry \in k..MaxEntry BY <1>1
<1>3. Copied(arr)[MaxEntry] = Copied(arr)[k] BY <1>2, CopiedGrows
<1>4. Full(arr, MaxEntry) = Full(arr, k)
  <2>1. ASSUME NEW i \in 1..MaxEntry, arr[i] # Free PROVE i \in 1..k BY <1>1, <2>1
  <2>2. 1..k \subseteq 1..MaxEntry BY <1>1
  <2>3. QED BY <2>1, <2>2 DEF Full
<1>5. QED BY <1>3, <1>4 DEF Entries

LEMMA NextWritten ==
  ASSUME BufferOK, NEW arr \in Lists, IsCopy(arr), NEW k \in 0..MaxEntry,
         ~ \A i \in (k + 1)..MaxEntry : arr[i] = Free
  PROVE  LET c == Copied(arr) IN
         \E j \in 1..MaxEntry :
           /\ arr[j] \in Entry /\ arr[j] # Free
           /\ \A i \in Full(arr, k) : i # j /\ i \in Full(arr, MaxEntry)
           /\ Full(arr, j) = Full(arr, k) \cup {j}
           /\ Len(c[k]) \in Nat /\ Len(c[j]) = Len(c[k]) + Len(Written(arr[j]))
           /\ Len(c[j]) + 1 <= BufferLength
           /\ \A i \in 1..Len(Written(arr[j])) : buf[Len(c[k]) + i] = Written(arr[j])[i]
<1> DEFINE c == Copied(arr)
           S == {i \in Nat : k < i /\ i <= MaxEntry /\ arr[i] # Free}
<1>1. MaxEntry \in Nat /\ BufferLength \in Nat /\ AreCopied(c, arr)
  BY RetainedConstantsOK, CopiedIs
<1>2. PICK j \in S : \A i \in S : j <= i
  <2>1. S \in SUBSET Nat OBVIOUS
  <2>2. S # {}
    <3>1. PICK i \in (k + 1)..MaxEntry : arr[i] # Free OBVIOUS
    <3>2. i \in S BY <1>1, <3>1
    <3>3. QED BY <3>2
  <2> HIDE DEF S
  <2>3. QED BY <2>1, <2>2, LeastNumber
<1>3. j \in Nat /\ k < j /\ j <= MaxEntry /\ arr[j] # Free BY <1>2
<1>4. j \in 1..MaxEntry /\ j - 1 \in k..MaxEntry /\ MaxEntry \in j..MaxEntry /\ j \in 0..MaxEntry
  BY <1>1, <1>3
<1>5. \A i \in (k + 1)..(j - 1) : arr[i] = Free
  <2>1. SUFFICES ASSUME NEW i \in (k + 1)..(j - 1), arr[i] # Free PROVE FALSE OBVIOUS
  <2>2. i \in Nat /\ k < i /\ i <= MaxEntry /\ ~(j <= i) BY <1>1, <1>3, <2>1
  <2>3. i \in S BY <2>1, <2>2
  <2>4. QED BY <1>2, <2>2, <2>3
<1>6. arr[j] \in Entry BY <1>3, <1>4 DEF Lists
<1>7. \A i \in Full(arr, k) : i # j /\ i \in Full(arr, MaxEntry) BY <1>1, <1>3 DEF Full
<1>8. Full(arr, j) = Full(arr, k) \cup {j}
  <2>1. ASSUME NEW i \in 1..j, arr[i] # Free, i # j PROVE i \in 1..k
    <3>1. i \in Nat /\ 1 <= i /\ i <= j - 1 BY <1>3, <2>1
    <3>2. ~(i \in (k + 1)..(j - 1)) BY <1>5, <2>1
    <3>3. QED BY <1>1, <1>3, <3>1, <3>2
  <2>2. 1..k \subseteq 1..j /\ j \in 1..j BY <1>3
  <2>3. QED BY <1>3, <2>1, <2>2 DEF Full
<1> DEFINE w == Written(arr[j])
<1>9. /\ c[j - 1] = c[k] /\ c[k] \in Seq(Nat) /\ Len(c[k]) \in Nat
  BY <1>4, <1>5, CopiedGrows
<1>10. w \in Seq(Nat) /\ Len(w) \in Nat
  <2>1. w \in Seq(Nat) BY <1>6, WrittenBytes
  <2> HIDE DEF w
  <2>2. QED BY <2>1
<1>11. c[j] = c[k] \o w
  <2> HIDE DEF c
  <2>1. QED BY <1>1, <1>3, <1>4, <1>9 DEF AreCopied
<1>12. /\ c[MaxEntry] \in Seq(Nat) /\ Len(c[MaxEntry]) \in Nat /\ Len(c[j]) <= Len(c[MaxEntry])
       /\ Len(c[j]) \in Nat
       /\ \A n \in 1..Len(c[j]) : c[MaxEntry][n] = c[j][n]
  BY <1>4, CopiedGrows
<1>13. /\ Len(c[MaxEntry]) + 1 <= BufferLength
       /\ \A n \in 1..Len(c[MaxEntry]) : buf[n] = c[MaxEntry][n]
  BY DEF IsCopy
<1> HIDE DEF c, w
<1>14. /\ Len(c[j]) = Len(c[k]) + Len(w)
       /\ \A i \in 1..Len(w) : c[j][Len(c[k]) + i] = w[i]
  BY <1>9, <1>10, <1>11, ConcatProperties
<1>15. Len(c[j]) + 1 <= BufferLength BY <1>1, <1>12, <1>13
<1>16. ASSUME NEW i \in 1..Len(w) PROVE buf[Len(c[k]) + i] = w[i]
  <2> DEFINE n == Len(c[k]) + i
  <2>1. n \in 1..Len(c[j]) /\ n \in 1..Len(c[MaxEntry])
    <3> DEFINE lk == Len(c[k])
               lj == Len(c[j])
               lm == Len(c[MaxEntry])
               lw == Len(w)
    <3>1. /\ lk \in Nat /\ lj \in Nat /\ lm \in Nat /\ lw \in Nat
          /\ lj = lk + lw /\ lj <= lm /\ i \in 1..lw
      BY <1>9, <1>10, <1>12, <1>14
    <3> HIDE DEF lk, lj, lm, lw
    <3>2. lk + i \in 1..lj /\ lk + i \in 1..lm BY <3>1
    <3>3. QED BY <3>2 DEF lk, lj, lm
  <2> HIDE DEF n
  <2>2. buf[n] = c[MaxEntry][n] /\ c[MaxEntry][n] = c[j][n] BY <1>12, <1>13, <2>1
  <2>3. c[j][n] = w[i] BY <1>14 DEF n
  <2>4. QED BY <2>2, <2>3 DEF n
<1>17. QED BY <1>3, <1>4, <1>6, <1>7, <1>8, <1>9, <1>14, <1>15, <1>16 DEF c, w

(* An entry that the copy holds at the position of a load is read as it    *)
(* was written.                                                            *)
LEMMA ReadsBack ==
  ASSUME BufferOK, loading # Idle, loading.order = "left",
         NEW e \in Entry, e.topic # <<>>,
         loading.pos + Len(Written(e)) + 1 <= BufferLength,
         \A i \in 1..Len(Written(e)) : buf[loading.pos + i] = Written(e)[i]
  PROVE  /\ Byte0(loading.pos) # 0 /\ EntryRead = e
         /\ AfterData \in Nat /\ AfterData + 1 = loading.pos + Len(Written(e))
         /\ AfterData < BufferLength
<1> DEFINE pos == loading.pos
           t == Len(e.topic)
           n == Len(e.data)
           w == Written(e)
           end == EndOfString(pos)
<1>1. pos \in Nat /\ BufferLength \in Nat /\ BufferLength < 65536
      /\ buf \in Seq(Uint8) /\ Len(buf) = BufferLength
  BY RetainedConstantsOK DEF BufferOK
<1>2. /\ t \in Nat /\ n \in Nat /\ Len(w) = t + n + 4
      /\ \A i \in 1..t : w[i] = e.topic[i]
      /\ w[t + 1] = 0 /\ w[t + 2] = (n % 256) /\ w[t + 3] = n \div 256
      /\ \A i \in 1..n : w[t + 3 + i] = e.data[i]
      /\ w[t + n + 4] = e.qos
  BY WrittenBytes, Zenon
<1>3. e.topic \in Seq(Uint8 \ {0}) /\ e.data \in Seq(Uint8) /\ e.qos \in Uint8
      /\ e = [topic |-> e.topic, data |-> e.data, qos |-> e.qos]
  BY DEF Entry
<1>4. t > 0 BY <1>3
<1> HIDE DEF pos, t, n, w, end
<1>5. pos \in Nat /\ t \in Nat /\ n \in Nat BY <1>1, <1>2
<1>6. pos + (t + n + 4) + 1 <= BufferLength
  <2>1. pos + Len(w) + 1 <= BufferLength BY DEF pos, w
  <2>2. QED BY <1>2, <2>1
<1>7. ASSUME NEW i \in 1..(t + n + 4) PROVE Byte0(pos + i - 1) = w[i] /\ buf[pos + i] = w[i]
  <2>1. buf[pos + i] = w[i]
    <3>1. \A x \in 1..Len(w) : buf[pos + x] = w[x] BY DEF pos, w
    <3>2. i \in 1..Len(w) BY <1>2
    <3>3. QED BY <3>1, <3>2
  <2>2. pos + i - 1 < BufferLength /\ pos + i - 1 + 1 = pos + i BY <1>1, <1>2, <1>6
  <2>3. QED BY <2>1, <2>2 DEF Byte0
<1>8. ASSUME NEW i \in 0..(t - 1) PROVE Byte0(pos + i) # 0
  <2>1. i + 1 \in 1..t /\ i + 1 \in 1..(t + n + 4) /\ pos + (i + 1) - 1 = pos + i BY <1>1, <1>2
  <2>2. Byte0(pos + i) = e.topic[i + 1] BY <1>2, <1>7, <2>1
  <2>3. e.topic[i + 1] \in Uint8 \ {0} BY <1>3, <2>1, ElementOfSeq DEF t
  <2>4. QED BY <2>2, <2>3
<1>9. Byte0(pos) # 0
  <2>1. 0 \in 0..(t - 1) /\ pos + 0 = pos BY <1>1, <1>2, <1>4
  <2>2. QED BY <1>8, <2>1
<1>10. Byte0(pos + t) = 0
  <2>1. t + 1 \in 1..(t + n + 4)
    BY <1>5
  <2>2. pos + (t + 1) - 1 = pos + t
    BY <1>5
  <2>3. Byte0(pos + (t + 1) - 1) = w[t + 1]
    BY <1>7, <2>1
  <2>4. Byte0(pos + t) = w[t + 1]
    BY <2>2, <2>3
  <2>5. QED BY <1>2, <2>4
<1>11. end = pos + t
  <2>1. /\ end \in Nat /\ pos < end /\ Byte0(end) = 0
        /\ \A q \in Nat : pos <= q /\ q < end => Byte0(q) # 0
    BY <1>1, <1>9, StringEnds DEF end
  <2>2. ~(pos + t < end) BY <1>1, <1>2, <1>10, <2>1
  <2>3. ~(end < pos + t)
    <3>1. SUFFICES ASSUME end < pos + t PROVE FALSE OBVIOUS
    <3>2. end - pos \in 0..(t - 1) /\ pos + (end - pos) = end BY <1>1, <1>2, <2>1, <3>1
    <3>3. Byte0(end) # 0 BY <1>8, <3>2
    <3>4. QED BY <2>1, <3>3
  <2>4. QED BY <1>1, <1>2, <2>1, <2>2, <2>3
<1>12. DataAt = pos + t + 3 BY <1>11 DEF DataAt, end, pos
<1>13. ReadLength(DataAt - 2) = n
  <2>1. DataAt - 2 = pos + t + 1 /\ DataAt - 2 + 1 = pos + t + 2 BY <1>1, <1>2, <1>12
  <2>2. Byte0(pos + t + 1) = (n % 256)
    <3>1. t + 2 \in 1..(t + n + 4) /\ pos + (t + 2) - 1 = pos + t + 1 BY <1>5
    <3>2. QED BY <1>2, <1>7, <3>1
  <2>3. Byte0(pos + t + 2) = n \div 256
    <3>1. t + 3 \in 1..(t + n + 4) /\ pos + (t + 3) - 1 = pos + t + 2 BY <1>5
    <3>2. QED BY <1>2, <1>7, <3>1
  <2>4. ReadLength(DataAt - 2) = (n % 256) + 256 * (n \div 256)
    BY <2>1, <2>2, <2>3 DEF ReadLength
  <2>5. (n % 256) + 256 * (n \div 256) = n BY <1>2
  <2>6. QED BY <2>4, <2>5
<1>14. AfterData = pos + t + 3 + n
  <2>1. DataAt + ReadLength(DataAt - 2) = pos + t + 3 + n BY <1>12, <1>13
  <2>2. pos + t + 3 + n \in Nat /\ pos + t + 3 + n < 65536
    <3>1. BufferLength \in Nat /\ BufferLength < 65536 BY <1>1
    <3>2. QED BY <1>5, <1>6, <3>1
  <2>3. \A x \in Nat : x < 65536 => (x % 65536) = x OBVIOUS
  <2>4. QED BY <2>1, <2>2, <2>3 DEF AfterData
<1>15. SubSeq(buf, pos + 1, DataAt - 3) = e.topic
  <2> DEFINE s == SubSeq(buf, pos + 1, pos + t)
  <2>1. DataAt - 3 = pos + t BY <1>1, <1>2, <1>12
  <2>2. ASSUME NEW i \in 1..t PROVE buf[pos + i] = e.topic[i]
    <3>1. i \in 1..(t + n + 4) BY <1>2
    <3>2. QED BY <1>2, <1>7, <3>1
  <2>3. \A i \in (pos + 1)..(pos + t) : buf[i] \in Uint8
    <3>1. (pos + 1)..(pos + t) \subseteq 1..Len(buf) BY <1>1, <1>2, <1>6
    <3>2. QED BY <1>1, <3>1, ElementOfSeq
  <2>4. /\ s \in Seq(Uint8) /\ Len(s) = t
        /\ \A i \in 1..t : s[i] = buf[pos + i]
    <3> DEFINE a == pos + 1
               b == pos + t
    <3>1. a \in Int /\ b \in Int /\ (a <= b) /\ b - a + 1 = t /\ \A i \in 1..t : a + i - 1 = pos + i
      BY <1>1, <1>2, <1>4
    <3>2. \A i \in a..b : buf[i] \in Uint8 BY <2>3
    <3> HIDE DEF a, b
    <3>3. /\ SubSeq(buf, a, b) \in Seq(Uint8)
          /\ Len(SubSeq(buf, a, b)) = IF a <= b THEN b - a + 1 ELSE 0
          /\ \A i \in 1..(b - a + 1) : SubSeq(buf, a, b)[i] = buf[a + i - 1]
      BY <3>1, <3>2, SubSeqProperties
    <3>4. /\ SubSeq(buf, a, b) \in Seq(Uint8) /\ Len(SubSeq(buf, a, b)) = t
          /\ \A i \in 1..t : SubSeq(buf, a, b)[i] = buf[pos + i]
      BY <3>1, <3>3
    <3>5. QED BY <3>4 DEF a, b
  <2> HIDE DEF s
  <2>5. e.topic \in Seq(Uint8 \ {0}) /\ Len(e.topic) = t BY <1>3 DEF t
  <2>6. s = e.topic
    <3>1. \A i \in 1..t : s[i] = e.topic[i] BY <2>2, <2>4
    <3>2. Len(s) = Len(e.topic) BY <2>4, <2>5
    <3>3. QED BY <2>4, <2>5, <3>1, <3>2
  <2>7. QED BY <2>1, <2>6 DEF s
<1>16. SubSeq(buf, DataAt + 1, AfterData) = e.data
  <2> DEFINE p == pos + t + 3
             s == SubSeq(buf, p + 1, p + n)
  <2>1. p \in Nat /\ p + n < BufferLength /\ DataAt + 1 = p + 1 /\ AfterData = p + n
    <3>1. p \in Nat BY <1>5
    <3>2. p + n < BufferLength
      <4>1. pos + (t + n + 4) + 1 = (p + n) + 2 /\ p + n \in Nat BY <1>5
      <4>2. (p + n) + 2 <= BufferLength BY <1>6, <4>1
      <4>3. BufferLength \in Nat BY <1>1
      <4> HIDE DEF p
      <4>4. QED BY <4>1, <4>2, <4>3
    <3>3. DataAt = p BY <1>12
    <3>4. AfterData = p + n BY <1>14
    <3> HIDE DEF p
    <3>5. QED BY <3>1, <3>2, <3>3, <3>4
  <2>2. ASSUME NEW i \in 1..n PROVE buf[p + i] = e.data[i]
    <3>1. t + 3 + i \in 1..(t + n + 4) /\ pos + (t + 3 + i) = p + i BY <1>5 DEF p
    <3>2. QED BY <1>2, <1>7, <3>1
  <2> HIDE DEF p
  <2>3. \A i \in (p + 1)..(p + n) : buf[i] \in Uint8
    <3>1. (p + 1)..(p + n) \subseteq 1..Len(buf) BY <1>1, <1>2, <2>1
    <3>2. QED BY <1>1, <3>1, ElementOfSeq
  <2>4. /\ s \in Seq(Uint8) /\ Len(s) = n
        /\ \A i \in 1..n : s[i] = buf[p + i]
    <3> DEFINE a == p + 1
               b == p + n
    <3>1. a \in Int /\ b \in Int /\ b - a + 1 = n /\ \A i \in 1..n : a + i - 1 = p + i
      <4>1. p \in Nat /\ n \in Nat BY <1>5, <2>1
      <4>2. QED BY <4>1
    <3>2. \A i \in a..b : buf[i] \in Uint8 BY <2>3
    <3> HIDE DEF a, b
    <3>3. /\ SubSeq(buf, a, b) \in Seq(Uint8)
          /\ Len(SubSeq(buf, a, b)) = IF a <= b THEN b - a + 1 ELSE 0
          /\ \A i \in 1..(b - a + 1) : SubSeq(buf, a, b)[i] = buf[a + i - 1]
      BY <3>1, <3>2, SubSeqProperties
    <3>4. /\ SubSeq(buf, a, b) \in Seq(Uint8) /\ Len(SubSeq(buf, a, b)) = n
          /\ \A i \in 1..n : SubSeq(buf, a, b)[i] = buf[p + i]
      BY <1>2, <3>1, <3>3
    <3>5. QED BY <3>4 DEF a, b
  <2> HIDE DEF s
  <2>5. e.data \in Seq(Uint8) /\ Len(e.data) = n BY <1>3 DEF n
  <2>6. s = e.data
    <3>1. \A i \in 1..n : s[i] = e.data[i] BY <2>2, <2>4
    <3>2. Len(s) = Len(e.data) BY <2>4, <2>5
    <3>3. QED BY <2>4, <2>5, <3>1, <3>2
  <2>7. QED BY <2>1, <2>6 DEF s
<1>17. Byte0(AfterData) = e.qos
  <2>1. t + n + 4 \in 1..(t + n + 4) /\ pos + (t + n + 4) - 1 = AfterData BY <1>14, <1>5
  <2>2. QED BY <1>2, <1>7, <2>1
<1>18. EntryRead = e BY <1>3, <1>15, <1>16, <1>17 DEF EntryRead, pos
<1>19. AfterData \in Nat /\ AfterData + 1 = pos + Len(w) /\ AfterData < BufferLength
  <2> DEFINE lw == Len(w)
             after == AfterData
  <2>1. /\ pos \in Nat /\ t \in Nat /\ n \in Nat /\ BufferLength \in Nat
        /\ lw = t + n + 4 /\ after = pos + t + 3 + n /\ pos + (t + n + 4) + 1 <= BufferLength
    BY <1>1, <1>2, <1>5, <1>6, <1>14
  <2> HIDE DEF lw, after
  <2>2. after \in Nat /\ after + 1 = pos + lw /\ after < BufferLength BY <2>1
  <2>3. QED BY <2>2 DEF lw, after
<1>20. QED BY <1>9, <1>18, <1>19 DEF pos, w

LEMMA ReadableReads ==
  ASSUME BufferOK, Readable, NEW arr \in Lists, NEW k \in 0..MaxEntry, HasRead(arr, k),
         ~ \A i \in (k + 1)..MaxEntry : arr[i] = Free
  PROVE  \E j \in 1..MaxEntry :
           /\ arr[j] \in Entry /\ arr[j].data # <<>>
           /\ \A e \in Kept : e.topic # arr[j].topic
           /\ Entries(arr, j) = Kept \cup {arr[j]}
           /\ Byte0(loading.pos) # 0 /\ EntryRead = arr[j]
           /\ AfterData \in Nat /\ AfterData + 1 = Len(Copied(arr)[j])
<1> DEFINE c == Copied(arr)
<1>1. IsCopy(arr) /\ loading.pos = Len(c[k]) /\ Kept = Entries(arr, k) BY DEF HasRead
<1>2. PICK j \in 1..MaxEntry :
        /\ arr[j] \in Entry /\ arr[j] # Free
        /\ \A i \in Full(arr, k) : i # j /\ i \in Full(arr, MaxEntry)
        /\ Full(arr, j) = Full(arr, k) \cup {j}
        /\ Len(c[k]) \in Nat /\ Len(c[j]) = Len(c[k]) + Len(Written(arr[j]))
        /\ Len(c[j]) + 1 <= BufferLength
        /\ \A i \in 1..Len(Written(arr[j])) : buf[Len(c[k]) + i] = Written(arr[j])[i]
  BY <1>1, NextWritten
<1> DEFINE e == arr[j]
<1> HIDE DEF c
<1>3. j \in Full(arr, MaxEntry) BY <1>2 DEF Full
<1>4. e.data # <<>> /\ \A f \in Kept : f.topic # e.topic
  <2>1. OneForTopic(arr) BY <1>1 DEF IsCopy
  <2>2. e.data # <<>> BY <1>3, <2>1 DEF OneForTopic
  <2>3. ASSUME NEW f \in Kept PROVE f.topic # e.topic
    <3>1. PICK i \in Full(arr, k) : f = arr[i] BY <1>1 DEF Entries
    <3>2. i # j /\ i \in Full(arr, MaxEntry) BY <1>2
    <3>3. QED BY <1>3, <2>1, <3>1, <3>2 DEF OneForTopic
  <2>4. QED BY <2>2, <2>3
<1>5. Entries(arr, j) = Kept \cup {e}
  <2>1. Full(arr, j) = Full(arr, k) \cup {j} BY <1>2
  <2>2. QED BY <1>1, <2>1, Zenon DEF Entries
<1>6. e.topic # <<>>
  <2>1. e \in saved BY <1>1, <1>3 DEF IsCopy, Entries
  <2>2. QED BY <2>1 DEF Readable
<1>7. loading # Idle /\ loading.order = "left" BY DEF Readable
<1>8. e \in Entry /\ loading.pos + Len(Written(e)) = Len(c[j])
      /\ loading.pos + Len(Written(e)) + 1 <= BufferLength
      /\ \A i \in 1..Len(Written(e)) : buf[loading.pos + i] = Written(e)[i]
  BY <1>1, <1>2
<1> HIDE DEF e
<1>9. /\ Byte0(loading.pos) # 0 /\ EntryRead = e
      /\ AfterData \in Nat /\ AfterData + 1 = loading.pos + Len(Written(e))
  BY <1>6, <1>7, <1>8, ReadsBack
<1>10. AfterData + 1 = Len(c[j]) BY <1>8, <1>9
<1>11. QED BY <1>4, <1>5, <1>8, <1>9, <1>10 DEF e, c

LEMMA ReadEverything ==
  ASSUME ListOK, BufferOK, CopyOK, Readable, Byte0(loading.pos) = 0
  PROVE  Kept = saved
<1>1. PICK arr \in Lists, k \in 0..MaxEntry : HasRead(arr, k) BY DEF CopyOK
<1>2. \A i \in (k + 1)..MaxEntry : arr[i] = Free BY <1>1, ReadableReads
<1>3. Entries(arr, MaxEntry) = Entries(arr, k) BY <1>2, NoneWritten
<1>4. QED BY <1>1, <1>3 DEF HasRead, IsCopy

LEMMA ReadsOn ==
  ASSUME ListOK, BufferOK, CopyOK, LoadsEntry, Readable
  PROVE  Readable' => \E arr \in Lists, k \in 0..MaxEntry : HasRead(arr, k)'
<1> SUFFICES ASSUME Readable' PROVE \E arr \in Lists, k \in 0..MaxEntry : HasRead(arr, k)'
  OBVIOUS
<1>1. PICK arr \in Lists, k \in 0..MaxEntry : HasRead(arr, k) BY DEF CopyOK
<1>2. /\ EntryRead \in Entry /\ update_retainedtopic(EntryRead)
      /\ UNCHANGED <<buf, saved>>
      /\ IF updated'.done
         THEN loading' = [loading EXCEPT !.pos = AfterData + 1] /\ UNCHANGED loaded
         ELSE LoadReturns("failed")
  BY LoadsAnEntry
<1>3. updated'.done BY <1>2 DEF LoadReturns, Readable
<1>4. IsCopy(arr)' BY <1>1, <1>2 DEF HasRead, IsCopy
<1>5. ~ \A i \in (k + 1)..MaxEntry : arr[i] = Free
  <2>1. SUFFICES ASSUME \A i \in (k + 1)..MaxEntry : arr[i] = Free PROVE FALSE OBVIOUS
  <2>2. Copied(arr)[MaxEntry] = Copied(arr)[k] BY <2>1, NoneWritten
  <2> DEFINE n == Len(Copied(arr)[MaxEntry])
  <2>3. loading.pos = n /\ buf[n + 1] = 0 /\ n + 1 <= BufferLength
    BY <1>1, <2>2 DEF HasRead, IsCopy
  <2>4. n \in Nat BY <1>1 DEF HasRead, IsCopy
  <2>5. BufferLength \in Nat BY RetainedConstantsOK
  <2> HIDE DEF n
  <2>6. Byte0(n) = 0 BY <2>3, <2>4, <2>5 DEF Byte0
  <2>7. QED BY <2>3, <2>6 DEF LoadsEntry
<1>6. PICK j \in 1..MaxEntry :
        /\ arr[j] \in Entry /\ arr[j].data # <<>>
        /\ \A e \in Kept : e.topic # arr[j].topic
        /\ Entries(arr, j) = Kept \cup {arr[j]}
        /\ EntryRead = arr[j]
        /\ AfterData \in Nat /\ AfterData + 1 = Len(Copied(arr)[j])
  BY <1>1, <1>5, ReadableReads
<1> DEFINE e == arr[j]
<1>7. Kept' = Without(Kept, e.topic) \cup {e}
  <2>1. e \in Entry /\ update_retainedtopic(e) /\ e.data # <<>> BY <1>2, <1>6
  <2> HIDE DEF e
  <2>2. \/ /\ e.data = <<>>
        \/ Kept' = Without(Kept, e.topic) \cup {e}
        \/ updated' = [update |-> e, done |-> FALSE]
    BY <2>1, UpdateLeaves
  <2>3. QED BY <1>3, <2>1, <2>2
<1>8. Without(Kept, e.topic) = Kept BY <1>6 DEF Without
<1>9. Kept' = Entries(arr, j) BY <1>6, <1>7, <1>8
<1>10. loading'.pos = Len(Copied(arr)[j])
  <2>1. loading' = [loading EXCEPT !.pos = AfterData + 1] BY <1>2, <1>3
  <2>2. loading \in [pos : Nat, order : {"left", "right"}] BY DEF Readable, BufferOK
  <2>3. loading'.pos = AfterData + 1 BY <2>1, <2>2
  <2>4. QED BY <1>6, <2>3
<1>11. HasRead(arr, j)' BY <1>4, <1>9, <1>10 DEF HasRead
<1>12. j \in 0..MaxEntry BY RetainedConstantsOK
<1>13. QED BY <1>11, <1>12

LEMMA CopyKept ==
  ASSUME ListOK, BufferOK, CopyOK, [RetainedListNext]_retainedVars
  PROVE  CopyOK'
<1> USE DEF copy, load
<1>1. ASSUME UNCHANGED <<buf, saved>> PROVE \E arr \in Lists : IsCopy(arr)'
  <2>1. PICK arr \in Lists : IsCopy(arr) BY DEF CopyOK
  <2>2. IsCopy(arr)' BY <1>1, <2>1 DEF IsCopy
  <2>3. QED BY <2>2
<1>2. ASSUME loading' = Idle, UNCHANGED <<buf, saved>> PROVE CopyOK'
  BY <1>1, <1>2 DEF CopyOK, Readable, Idle
<1>3. CASE create_retainedlist \/ set_on_retainedtopic_cb \/ Restarts \/ Update
           \/ find_retainedtopic \/ clear_retainedtopics
  BY <1>2, <1>3 DEF create_retainedlist, set_on_retainedtopic_cb, Restarts, Update,
       find_retainedtopic, clear_retainedtopics
<1>4. CASE serialize_retainedtopics
  <2> DEFINE arr == retained_list
  <2>1. loading' = Idle /\ arr # NoList /\ saved' = Kept
    BY <1>4 DEF serialize_retainedtopics
  <2>2. arr \in Lists /\ OneForTopic(arr) /\ Kept = Entries(arr, MaxEntry)
    BY <2>1, HeldIsFull DEF ListOK
  <2> DEFINE c == Copied(arr)[MaxEntry]
  <2>3. /\ c \in Seq(Uint8) /\ Len(c) + 1 <= BufferLength
        /\ \A n \in 1..Len(c) : buf'[n] = c[n]
        /\ buf'[Len(c) + 1] = 0
    BY <1>4, SerializesInBuffer
  <2> HIDE DEF arr
  <2>4. PICK list : list = arr OBVIOUS
  <2>5. IsCopy(list)' BY <2>1, <2>2, <2>3, <2>4 DEF IsCopy
  <2>6. QED BY <2>1, <2>2, <2>4, <2>5 DEF CopyOK, Readable, Idle
<1>5. CASE deserialize_retainedtopics
  <2>1. /\ UNCHANGED <<retained_list, buf, saved>> /\ Held = {} /\ retained_list # NoList
        /\ \E order \in {"left", "right"} : loading' = [pos |-> 0, order |-> order]
    BY <1>5 DEF deserialize_retainedtopics
  <2>2. PICK arr \in Lists : IsCopy(arr) BY DEF CopyOK
  <2>3. IsCopy(arr)' BY <2>1, <2>2 DEF IsCopy
  <2>4. loading'.pos = 0 BY <2>1
  <2>5. MaxEntry \in Nat /\ AreCopied(Copied(arr), arr) BY RetainedConstantsOK, CopiedIs
  <2>6. Copied(arr)[0] = <<>> BY <2>5 DEF AreCopied
  <2>7. Len(Copied(arr)[0]) = 0 BY <2>6
  <2>8. Entries(arr, 0) = {} BY DEF Entries, Full
  <2>9. Kept' = {} BY <2>1 DEF Kept, Held
  <2>10. HasRead(arr, 0)' BY <2>3, <2>4, <2>7, <2>8, <2>9 DEF HasRead
  <2>11. 0 \in 0..MaxEntry BY <2>5
  <2>12. QED BY <2>3, <2>10, <2>11 DEF CopyOK
<1>6. CASE LoadEnds \/ LoadFails
  BY <1>2, <1>6 DEF LoadEnds, LoadFails, LoadReturns
<1>7. CASE LoadsEntry
  <2>1. UNCHANGED <<buf, saved>> BY <1>7, LoadsAnEntry
  <2>2. CASE Readable BY <1>1, <1>7, <2>1, <2>2, ReadsOn DEF CopyOK
  <2>3. CASE ~Readable
    <3>1. loading # Idle /\ loading' \in {Idle, [loading EXCEPT !.pos = AfterData + 1]}
      BY <1>7 DEF LoadsEntry, LoadReturns
    <3>2. CASE loading' = Idle BY <1>2, <2>1, <3>2
    <3>3. CASE loading' = [loading EXCEPT !.pos = AfterData + 1]
      <4>1. loading \in [pos : Nat, order : {"left", "right"}] BY <3>1 DEF BufferOK
      <4>2. loading'.order = loading.order BY <3>3, <4>1
      <4>3. ~Readable' BY <2>1, <2>3, <3>1, <4>2 DEF Readable
      <4>4. QED BY <1>1, <2>1, <4>3 DEF CopyOK
    <3>4. QED BY <3>1, <3>2, <3>3
  <2>4. QED BY <2>2, <2>3
<1>8. CASE UNCHANGED retainedVars
  <2>1. UNCHANGED <<retained_list, buf, saved, loading>> BY <1>8 DEF retainedVars
  <2>2. CASE ~Readable'  BY <1>1, <2>1, <2>2 DEF CopyOK
  <2>3. CASE Readable'
    <3>1. Readable BY <2>1, <2>3 DEF Readable, Idle
    <3>2. PICK arr \in Lists, k \in 0..MaxEntry : HasRead(arr, k) BY <3>1 DEF CopyOK
    <3>3. HasRead(arr, k)' BY <2>1, <3>2 DEF HasRead, IsCopy, Kept, Held
    <3>4. QED BY <1>1, <2>1, <3>3 DEF CopyOK
  <2>4. QED BY <2>2, <2>3
<1>9. QED BY <1>3, <1>4, <1>5, <1>6, <1>7, <1>8 DEF RetainedListNext

LEMMA CopyStart ==
  ASSUME RetainedInit
  PROVE  CopyOK
<1> DEFINE arr == [i \in 1..MaxEntry |-> Free]
<1>1. arr \in Lists /\ OneForTopic(arr) /\ Entries(arr, MaxEntry) = {} BY FreshList
<1>2. MaxEntry \in Nat /\ BufferLength \in Nat \ {0} /\ AreCopied(Copied(arr), arr)
  BY <1>1, RetainedConstantsOK, CopiedIs
<1>3. \A i \in (0 + 1)..MaxEntry : arr[i] = Free BY <1>2
<1> HIDE DEF arr
<1>4. Copied(arr)[MaxEntry] = Copied(arr)[0]
  <2>1. 0 \in 0..MaxEntry BY <1>2
  <2>2. QED BY <1>1, <1>3, <2>1, NoneWritten
<1>5. Copied(arr)[0] = <<>> BY <1>2 DEF AreCopied
<1>6. buf[1] = 0 /\ saved = {} /\ loading = Idle BY <1>2 DEF RetainedInit
<1>7. IsCopy(arr)
  <2> DEFINE c == Copied(arr)[MaxEntry]
  <2>1. c = <<>> BY <1>4, <1>5
  <2> HIDE DEF c
  <2>2. c \in Seq(Uint8) /\ Len(c) = 0 BY <2>1
  <2>3. QED BY <1>1, <1>2, <1>6, <2>2 DEF IsCopy, c
<1>8. QED BY <1>1, <1>6, <1>7 DEF CopyOK, Readable, Idle

(* A saved copy that loads without a complaint restores the list that was  *)
(* saved, also when it was written over a longer one, for every length of  *)
(* list, buffer and message (serialize_retainedtopics and                  *)
(* deserialize_retainedtopics of mqtt_broker_retained_list.cpp).           *)
THEOREM CopiesRestoreTheList ==
  RetainedInit /\ [][RetainedListNext]_retainedVars => LoadRestores
<1> DEFINE Restores ==
      /\ loading # Idle /\ loaded' = "yes" /\ loading.order = "left"
      /\ \A e \in saved : e.topic # <<>>
      => Kept' = saved
<1>1. ASSUME ListOK, BufferOK, CopyOK, RetainedListNext PROVE Restores
  <2> SUFFICES ASSUME Readable, loaded' = "yes" PROVE Kept' = saved
    BY DEF Readable
  <2> USE DEF copy, load
  <2>1. loading # Idle /\ loaded = "no" BY <1>1 DEF Readable, BufferOK
  <2>2. CASE create_retainedlist \/ set_on_retainedtopic_cb \/ Update \/ find_retainedtopic
             \/ clear_retainedtopics \/ serialize_retainedtopics \/ deserialize_retainedtopics
    BY <2>1, <2>2 DEF create_retainedlist, set_on_retainedtopic_cb, Update, find_retainedtopic,
         clear_retainedtopics, serialize_retainedtopics, deserialize_retainedtopics
  <2>3. CASE Restarts \/ LoadFails BY <2>3 DEF Restarts, LoadFails, LoadReturns
  <2>4. CASE LoadEnds
    <3>1. Byte0(loading.pos) = 0 /\ UNCHANGED retained_list BY <2>4 DEF LoadEnds
    <3>2. Kept = saved BY <1>1, <3>1, ReadEverything
    <3>3. QED BY <3>1, <3>2 DEF Kept, Held
  <2>5. CASE LoadsEntry BY <2>1, <2>5 DEF LoadsEntry, LoadReturns
  <2>6. QED BY <1>1, <2>2, <2>3, <2>4, <2>5 DEF RetainedListNext
<1>2. ListOK /\ BufferOK /\ CopyOK /\ [RetainedListNext]_retainedVars => [Restores]_retainedVars
  BY <1>1
<1>3. RetainedInit => CopyOK BY CopyStart
<1>4. ListOK /\ BufferOK /\ CopyOK /\ [RetainedListNext]_retainedVars => CopyOK'
  BY CopyKept
<1>5. QED BY <1>2, <1>3, <1>4, RetainedInvariance, PTL DEF LoadRestores

------------------------------------------------------------------------------
(* MqttTopic: the names that are valid, by the places of their characters. *)
LEMMA OneOccurence ==
  ASSUME NEW t \in Seq(STRING), NEW c, numberOfOccurences(t, c) <= 1,
         NEW i \in DOMAIN t, NEW j \in DOMAIN t, t[i] = c, t[j] = c
  PROVE  i = j
<1> DEFINE S == {k \in DOMAIN t : t[k] = c}
<1>1. SUFFICES ASSUME i # j PROVE FALSE OBVIOUS
<1>2. DOMAIN t = 1..Len(t) /\ Len(t) \in Nat OBVIOUS
<1>3. IsFiniteSet(1..Len(t)) BY <1>2, FS_Interval
<1>4. IsFiniteSet(S) BY <1>2, <1>3, FS_Subset
<1>5. {i, j} \subseteq S OBVIOUS
<1>6. IsFiniteSet({i}) /\ Cardinality({i}) = 1 BY FS_Singleton
<1>7. Cardinality({i} \cup {j}) = 2
  <2>1. j \notin {i} BY <1>1
  <2>2. Cardinality({i} \cup {j}) = Cardinality({i}) + 1 BY <1>6, <2>1, FS_AddElement
  <2> DEFINE one == Cardinality({i})
             two == Cardinality({i} \cup {j})
  <2>3. one = 1 /\ two = one + 1 BY <1>6, <2>2
  <2> HIDE DEF one, two
  <2>4. two = 2 BY <2>3
  <2>5. QED BY <2>4 DEF two
<1>8. {i} \cup {j} = {i, j} OBVIOUS
<1>9. Cardinality({i, j}) <= Cardinality(S) BY <1>4, <1>5, FS_Subset
<1>10. Cardinality(S) <= 1 BY DEF numberOfOccurences
<1>11. Cardinality(S) \in Nat BY <1>4, FS_CardinalityType
<1> HIDE DEF S
<1>12. Cardinality({i, j}) = 2 BY <1>7, <1>8, Zenon
<1>13. QED
  <2> DEFINE z == Cardinality(S)
  <2>1. 2 <= z /\ z <= 1 /\ z \in Nat BY <1>9, <1>10, <1>11, <1>12
  <2> HIDE DEF z
  <2>2. QED BY <2>1

(* What isValidName checks, of a name that is not free text.               *)
WellPlaced(t) ==
  /\ Len(t) \in Nat \ {0} /\ t[1] # "/"
  /\ \A i \in 1..Len(t) - 1 : ~(t[i] = "/" /\ t[i + 1] = "/")
  /\ \A i \in 1..Len(t) : t[i] = "#" => i = Len(t) /\ (i > 1 => t[i - 1] = "/")
  /\ \A i \in 1..Len(t) : t[i] = "+" => (i > 1 => t[i - 1] = "/") /\ i < Len(t) /\ t[i + 1] = "/"

(* A name cannot have both wildcards, nor either of them twice.            *)
LEMMA OneWildcard ==
  ASSUME NEW t \in Seq(STRING), NEW before, isValidName(t, before), t[1] # "$"
  PROVE  \A i, j \in Wildcards(t) : i = j
<1>1. SUFFICES ASSUME NEW i \in Wildcards(t), NEW j \in Wildcards(t) PROVE i = j OBVIOUS
<1>2. i \in DOMAIN t /\ j \in DOMAIN t /\ t[i] \in {"#", "+"} /\ t[j] \in {"#", "+"}
  BY DEF Wildcards
<1>3. t[i] = t[j]
  <2>1. ~(Contains(t, "#") /\ Contains(t, "+")) BY DEF isValidName
  <2>2. \A k \in DOMAIN t : Contains(t, t[k]) BY DEF Contains
  <2>3. QED BY <1>2, <2>1, <2>2
<1>4. numberOfOccurences(t, t[i]) <= 1 BY <1>2 DEF isValidName
<1>5. QED BY <1>2, <1>3, <1>4, OneOccurence

LEMMA ValidIsWellPlaced ==
  ASSUME NEW t \in Seq(STRING), NEW before, isValidName(t, before), t[1] # "$"
  PROVE  WellPlaced(t)
<1>1. DOMAIN t = 1..Len(t) /\ Len(t) \in Nat \ {0}
  <2>1. t # <<>> BY DEF isValidName
  <2>2. QED BY <2>1
<1>2. /\ t[1] # "/" /\ \A i \in 1..Len(t) - 1 : ~(t[i] = "/" /\ t[i + 1] = "/")
      /\ numberOfOccurences(t, "#") <= 1 /\ HashIsLast(t) /\ PlusIsBetween(t, before)
  BY DEF isValidName
<1>3. ASSUME NEW i \in 1..Len(t), t[i] = "#" PROVE i = Len(t) /\ (i > 1 => t[i - 1] = "/")
  <2>1. Contains(t, "#") BY <1>3 DEF Contains
  <2>2. CASE t[1] = "#"
    <3>1. Len(t) = 1 BY <1>2, <2>1, <2>2 DEF HashIsLast
    <3>2. QED BY <3>1
  <2>3. CASE t[1] # "#"
    <3>1. t[Len(t)] = "#" /\ t[Len(t) - 1] = "/" BY <1>2, <2>1, <2>3 DEF HashIsLast, Last
    <3>2. i \in DOMAIN t /\ Len(t) \in DOMAIN t BY <1>1
    <3>3. i = Len(t) BY <1>2, <1>3, <3>1, <3>2, OneOccurence
    <3>4. QED BY <3>1, <3>3
  <2>4. QED BY <2>2, <2>3
<1>4. ASSUME NEW i \in 1..Len(t), t[i] = "+"
      PROVE  (i > 1 => t[i - 1] = "/") /\ i < Len(t) /\ t[i + 1] = "/"
  BY <1>1, <1>2, <1>4 DEF PlusIsBetween
<1>5. QED BY <1>1, <1>2, <1>3, <1>4 DEF WellPlaced

------------------------------------------------------------------------------
(* The levels of a name.                                                   *)
Words == Seq(STRING)
LevelLists == Seq(Words) \ {<<>>}

LEMMA ExtendedIs ==
  ASSUME NEW l \in LevelLists, NEW c \in STRING
  PROVE  LET x == Extended(l, c)
             k == Len(l)
         IN  /\ x \in LevelLists /\ k \in Nat \ {0} /\ l[k] \in Words
             /\ c = "/" => Len(x) = k + 1 /\ x[k + 1] = <<>> /\ \A i \in 1..k : x[i] = l[i]
             /\ c # "/" => /\ Len(x) = k /\ x[k] = Append(l[k], c)
                           /\ \A i \in 1..(k - 1) : x[i] = l[i]
<1> DEFINE k == Len(l)
           x == Extended(l, c)
<1>1. l \in Seq(Words) /\ k \in Nat \ {0} BY DEF LevelLists
<1>2. l[k] \in Words BY <1>1
<1>3. CASE c = "/"
  <2>1. <<>> \in Words BY DEF Words
  <2>2. x = Append(l, <<>>) BY <1>3 DEF Extended
  <2>3. x \in Seq(Words) /\ x # <<>> /\ Len(x) = k + 1 /\ x[k + 1] = <<>>
        /\ \A i \in 1..k : x[i] = l[i]
    BY <1>1, <2>1, <2>2, AppendProperties
  <2>4. QED BY <1>1, <1>2, <1>3, <2>3 DEF LevelLists
<1>4. CASE c # "/"
  <2> DEFINE w == Append(l[k], c)
  <2>1. w \in Words
    <3> DEFINE u == l[k]
    <3>1. u \in Seq(STRING) BY <1>2 DEF Words
    <3> HIDE DEF u
    <3>2. Append(u, c) \in Seq(STRING) BY <3>1, AppendProperties
    <3>3. QED BY <3>2 DEF Words, u
  <2>2. x = [l EXCEPT ![k] = w] BY <1>4 DEF Extended
  <2> HIDE DEF w, x
  <2>3. k \in DOMAIN l BY <1>1
  <2>4. x \in Seq(Words) /\ Len(x) = k /\ x[k] = w /\ \A i \in 1..(k - 1) : x[i] = l[i]
    BY <1>1, <2>1, <2>2, <2>3
  <2>5. x # <<>> BY <1>1, <2>4
  <2>6. QED BY <1>1, <1>2, <1>4, <2>4, <2>5 DEF LevelLists, w, x
<1>5. QED BY <1>3, <1>4

AreCut(d, t) ==
  /\ d \in [0..Len(t) -> LevelLists]
  /\ d[0] = << <<>> >>
  /\ \A n \in 1..Len(t) : d[n] = Extended(d[n - 1], t[n])

LEMMA CuttingIs ==
  ASSUME NEW t \in Seq(STRING)
  PROVE  AreCut(Cutting(t), t)
<1> DEFINE N == Len(t)
           V == LevelLists
           z == << <<>> >>
           G == [n \in 1..N |-> [s \in V |-> Extended(s, t[n])]]
           body(h) == [n \in 0..N |-> IF n = 0 THEN z ELSE Extended(h[n - 1], t[n])]
           d == CHOOSE cutting : cutting = body(cutting)
<1>1. Cutting(t) = d BY DEF Cutting
<1>2. N \in Nat OBVIOUS
<1>3. \A n \in 1..N : t[n] \in STRING BY ElementOfSeq
<1>4. z \in V
  <2>1. <<>> \in Words BY DEF Words
  <2>2. z \in Seq(Words) /\ z # <<>> BY <2>1
  <2>3. QED BY <2>2 DEF LevelLists
<1> HIDE DEF z, N, V
<1>5. PICK f \in [0..N -> V] : f[0] = z /\ \A n \in 1..N : f[n] = G[n][f[n - 1]]
  <2>1. G \in [1..N -> [V -> V]] BY <1>3, ExtendedIs DEF V
  <2> HIDE DEF G
  <2>2. \E f \in [0..N -> V] : f[0] = z /\ \A n \in 1..N : f[n] = G[n][f[n - 1]]
    BY <1>2, <1>4, <2>1, RecursionIsFunction
  <2>3. QED BY <2>2
<1>6. ASSUME NEW n \in 1..N PROVE f[n] = Extended(f[n - 1], t[n])
  <2>1. f[n - 1] \in V BY <1>2
  <2>2. QED BY <1>5, <2>1
<1>7. f = body(f)
  <2>1. ASSUME NEW n \in 0..N
        PROVE  f[n] = IF n = 0 THEN z ELSE Extended(f[n - 1], t[n])
    <3>1. CASE n = 0 BY <1>5, <3>1
    <3>2. CASE n # 0
      <4>1. n \in 1..N BY <1>2, <3>2
      <4>2. QED BY <1>6, <3>2, <4>1
    <3>3. QED BY <3>1, <3>2
  <2>2. f = [n \in 0..N |-> f[n]] BY <1>5
  <2>3. QED BY <2>1, <2>2, Zenon
<1>8. d = body(d) BY <1>7, Zenon
<1>9. ASSUME NEW n \in 0..N
      PROVE  d[n] = IF n = 0 THEN z ELSE Extended(d[n - 1], t[n])
  <2> HIDE DEF d
  <2>1. QED BY <1>8, Zenon
<1> HIDE DEF d, G
<1>10. ASSUME NEW n \in 0..N PROVE d[n] \in V
  <2> DEFINE S == {k \in Nat : k <= N => d[k] \in V}
  <2>1. 0 \in S
    <3>1. 0 \in 0..N BY <1>2
    <3>2. d[0] = z BY <1>9, <3>1
    <3>3. QED BY <1>4, <3>2
  <2>2. ASSUME NEW k \in S PROVE k + 1 \in S
    <3>1. SUFFICES ASSUME k + 1 <= N PROVE d[k + 1] \in V OBVIOUS
    <3>2. k + 1 \in 0..N /\ k + 1 \in 1..N /\ k + 1 # 0 /\ k + 1 - 1 = k /\ d[k] \in V
      BY <1>2, <3>1
    <3>3. d[k + 1] = Extended(d[k], t[k + 1]) BY <1>9, <3>2
    <3>4. t[k + 1] \in STRING BY <1>3, <3>2
    <3>5. QED BY <3>2, <3>3, <3>4, ExtendedIs DEF V
  <2>3. S = Nat
    <3> HIDE DEF S
    <3>1. S \in SUBSET Nat BY DEF S
    <3>2. QED BY <2>1, <2>2, <3>1, NumberInduction
  <2> HIDE DEF S
  <2>4. n \in S /\ n <= N BY <1>2, <2>3
  <2>5. QED BY <2>4 DEF S
<1>11. AreCut(d, t)
  <2>1. d = [n \in 0..N |-> d[n]] BY <1>8, Zenon
  <2>2. d \in [0..N -> V] BY <1>10, <2>1
  <2>3. d[0] = z
    <3>1. 0 \in 0..N BY <1>2
    <3>2. QED BY <1>9, <3>1
  <2>4. ASSUME NEW n \in 1..N PROVE d[n] = Extended(d[n - 1], t[n])
    <3>1. n \in 0..N /\ n # 0 BY <1>2
    <3>2. QED BY <1>9, <3>1
  <2>5. QED BY <2>2, <2>3, <2>4 DEF AreCut, z, N, V
<1>12. QED BY <1>1, <1>11

LEMMA ContainsAppend ==
  ASSUME NEW w \in Words, NEW c \in STRING, NEW x
  PROVE  /\ Append(w, c) \in Words /\ Append(w, c) # <<>>
         /\ Contains(Append(w, c), x) <=> Contains(w, x) \/ c = x
<1> DEFINE v == Append(w, c)
<1>1. /\ w \in Seq(STRING) /\ v \in Seq(STRING) /\ v # <<>> /\ Len(v) = Len(w) + 1 /\ Len(w) \in Nat
      /\ v[Len(w) + 1] = c /\ \A i \in 1..Len(w) : v[i] = w[i]
  <2>1. w \in Seq(STRING) BY DEF Words
  <2>2. /\ v \in Seq(STRING) /\ v # <<>> /\ Len(v) = Len(w) + 1
        /\ v[Len(w) + 1] = c /\ \A i \in 1..Len(w) : v[i] = w[i]
    <3> DEFINE V == STRING
    <3>1. w \in Seq(V) /\ c \in V BY <2>1
    <3> HIDE DEF V
    <3>2. /\ v \in Seq(V) /\ v # <<>> /\ Len(v) = Len(w) + 1
          /\ v[Len(w) + 1] = c /\ \A i \in 1..Len(w) : v[i] = w[i]
      <4>1. v \in Seq(V) /\ Len(v) = Len(w) + 1 /\ v # <<>> BY <3>1, AppendProperties
      <4>2. v[Len(w) + 1] = c BY <3>1, AppendProperties
      <4>3. \A i \in 1..Len(w) : v[i] = w[i] BY <3>1, AppendProperties
      <4>4. QED BY <4>1, <4>2, <4>3
    <3>3. QED BY <3>2 DEF V
  <2>3. Len(w) \in Nat BY <2>1
  <2> HIDE DEF v
  <2>4. QED BY <2>1, <2>2, <2>3
<1> HIDE DEF v
<1>2. ASSUME Contains(v, x) PROVE Contains(w, x) \/ c = x
  <2>1. PICK i \in 1..Len(v) : v[i] = x BY <1>2 DEF Contains
  <2>2. CASE i = Len(w) + 1 BY <1>1, <2>1, <2>2
  <2>3. CASE i # Len(w) + 1
    <3>1. i \in 1..Len(w) BY <1>1, <2>3
    <3>2. QED BY <1>1, <2>1, <3>1 DEF Contains
  <2>4. QED BY <2>2, <2>3
<1>3. ASSUME Contains(w, x) PROVE Contains(v, x)
  <2>1. PICK i \in 1..Len(w) : w[i] = x BY <1>3 DEF Contains
  <2>2. i \in 1..Len(v) /\ v[i] = x BY <1>1, <2>1
  <2>3. QED BY <2>2 DEF Contains
<1>4. ASSUME c = x PROVE Contains(v, x)
  <2>1. Len(w) + 1 \in 1..Len(v) /\ v[Len(w) + 1] = x BY <1>1, <1>4
  <2>2. QED BY <2>1 DEF Contains
<1>5. QED BY <1>1, <1>2, <1>3, <1>4 DEF v, Words

LEMMA ContainsNothing == \A x : ~Contains(<<>>, x)
BY DEF Contains

LEMMA ContainsOne ==
  ASSUME NEW c, NEW x
  PROVE  Contains(<<c>>, x) <=> c = x
<1> DEFINE u == <<c>>
<1>1. Len(u) = 1 /\ u[1] = c OBVIOUS
<1> HIDE DEF u
<1>2. 1..Len(u) = {1} BY <1>1
<1>3. Contains(u, x) <=> c = x BY <1>1, <1>2 DEF Contains
<1>4. QED BY <1>3 DEF u

LEMMA OneCharacter ==
  ASSUME NEW c \in STRING
  PROVE  Append(<<>>, c) = <<c>>
OBVIOUS

(* The levels of the first n characters of a well placed name.             *)
LevelsOK(l, t, n) ==
  LET k == Len(l)
      w == l[k]
  IN  /\ \A i \in 1..(k - 1) :
           l[i] # <<>> /\ ~Contains(l[i], "#") /\ (Contains(l[i], "+") => l[i] = <<"+">>)
      /\ w = <<>> <=> n = 0 \/ t[n] = "/"
      /\ n > 0 /\ w = <<>> => k > 1
      /\ Contains(w, "#") => w = <<"#">> /\ t[n] = "#"
      /\ Contains(w, "+") => w = <<"+">> /\ t[n] = "+"

LEMMA LevelsStayOK ==
  ASSUME NEW t \in Seq(STRING), WellPlaced(t), NEW n \in Nat, n + 1 <= Len(t),
         NEW l \in LevelLists, LevelsOK(l, t, n)
  PROVE  LevelsOK(Extended(l, t[n + 1]), t, n + 1)
<1> DEFINE c == t[n + 1]
           x == Extended(l, c)
           k == Len(l)
           w == l[k]
<1>1. n + 1 \in 1..Len(t) /\ Len(t) \in Nat /\ (n > 0 => n \in 1..Len(t) /\ n \in 1..(Len(t) - 1))
  OBVIOUS
<1>2. c \in STRING BY <1>1, ElementOfSeq
<1>3. /\ k \in Nat \ {0} /\ w \in Words
      /\ c = "/" => Len(x) = k + 1 /\ x[k + 1] = <<>> /\ \A i \in 1..k : x[i] = l[i]
      /\ c # "/" => /\ Len(x) = k /\ x[k] = Append(w, c)
                    /\ \A i \in 1..(k - 1) : x[i] = l[i]
  BY <1>2, ExtendedIs
<1> HIDE DEF x, k, w
<1>4. /\ \A i \in 1..(k - 1) :
           l[i] # <<>> /\ ~Contains(l[i], "#") /\ (Contains(l[i], "+") => l[i] = <<"+">>)
      /\ w = <<>> <=> n = 0 \/ t[n] = "/"
      /\ Contains(w, "#") => w = <<"#">> /\ t[n] = "#"
      /\ Contains(w, "+") => w = <<"+">> /\ t[n] = "+"
      /\ n > 0 /\ w = <<>> => k > 1
  BY DEF LevelsOK, k, w
<1>5. ~Contains(w, "#")
  <2>1. SUFFICES ASSUME Contains(w, "#") PROVE FALSE OBVIOUS
  <2>2. t[n] = "#" /\ n > 0 BY <1>4, <2>1, ContainsNothing
  <2>3. n = Len(t) BY <1>1, <2>2 DEF WellPlaced
  <2>4. QED BY <1>1, <2>3
<1>6. Contains(w, "+") => c = "/"
  <2>1. SUFFICES ASSUME Contains(w, "+") PROVE c = "/" OBVIOUS
  <2>2. t[n] = "+" /\ n > 0 BY <1>4, <2>1, ContainsNothing
  <2>3. QED BY <1>1, <2>2 DEF WellPlaced
<1>7. CASE c = "/"
  <2>1. n > 0 /\ w # <<>>
    <3>1. n # 0 BY <1>7 DEF WellPlaced
    <3>2. t[n] # "/" BY <1>1, <1>7, <3>1 DEF WellPlaced
    <3>3. QED BY <1>4, <3>1, <3>2
  <2>2. ASSUME NEW i \in 1..k
        PROVE  x[i] # <<>> /\ ~Contains(x[i], "#") /\ (Contains(x[i], "+") => x[i] = <<"+">>)
    <3>1. CASE i = k BY <1>3, <1>4, <1>5, <1>7, <2>1, <3>1 DEF w
    <3>2. CASE i # k
      <4>1. i \in 1..(k - 1) BY <1>3, <3>2
      <4>2. QED BY <1>3, <1>4, <1>7, <4>1
    <3>3. QED BY <3>1, <3>2
  <2>3. Len(x) = k + 1 /\ x[k + 1] = <<>> /\ k + 1 - 1 = k /\ k + 1 > 1 BY <1>3, <1>7
  <2>4. \A i \in 1..(k + 1 - 1) :
          x[i] # <<>> /\ ~Contains(x[i], "#") /\ (Contains(x[i], "+") => x[i] = <<"+">>)
    BY <2>2, <2>3
  <2>5. x[Len(x)] = <<>> /\ Len(x) > 1 /\ Len(x) - 1 = k + 1 - 1
    <3>1. Len(x) = k + 1 /\ x[k + 1] = <<>> BY <2>3
    <3>2. x[Len(x)] = <<>> BY <3>1
    <3>3. Len(x) > 1 /\ Len(x) - 1 = k + 1 - 1 BY <1>3, <3>1
    <3>4. QED BY <3>2, <3>3
  <2>6. LevelsOK(x, t, n + 1) BY <1>7, <2>4, <2>5, ContainsNothing DEF LevelsOK
  <2>7. QED BY <2>6 DEF x
<1>8. CASE c # "/"
  <2> DEFINE v == Append(w, c)
  <2>1. /\ v # <<>>
        /\ Contains(v, "#") <=> Contains(w, "#") \/ c = "#"
        /\ Contains(v, "+") <=> Contains(w, "+") \/ c = "+"
    BY <1>2, <1>3, ContainsAppend
  <2>2. ASSUME c \in {"#", "+"} PROVE v = <<c>>
    <3>1. n > 0 => t[n] = "/" BY <1>1, <2>2 DEF WellPlaced
    <3>2. w = <<>> BY <1>4, <3>1
    <3>3. QED BY <1>2, <3>2, OneCharacter
  <2>3. Len(x) = k /\ x[k] = v /\ \A i \in 1..(k - 1) : x[i] = l[i] BY <1>3, <1>8
  <2> HIDE DEF v
  <2>4. ASSUME Contains(v, "#") PROVE v = <<"#">> /\ c = "#"
    <3>1. c = "#" BY <1>5, <2>1, <2>4
    <3>2. QED BY <2>2, <3>1
  <2>5. ASSUME Contains(v, "+") PROVE v = <<"+">> /\ c = "+"
    <3>1. c = "+" BY <1>6, <1>8, <2>1, <2>5
    <3>2. QED BY <2>2, <3>1
  <2>6. LevelsOK(x, t, n + 1) BY <1>4, <1>8, <2>1, <2>3, <2>4, <2>5 DEF LevelsOK
  <2>7. QED BY <2>6 DEF x
<1>9. QED BY <1>7, <1>8 DEF x

LEMMA CutIs ==
  ASSUME NEW t \in Seq(STRING)
  PROVE  /\ Cut(t) \in LevelLists /\ Cut(t) \in Seq(Words) /\ Len(Cut(t)) \in Nat \ {0}
         /\ WellPlaced(t) => LevelsOK(Cut(t), t, Len(t))
         /\ \A i \in 1..Len(Cut(t)) : \A c : Contains(Cut(t)[i], c) => Contains(t, c)
<1> DEFINE N == Len(t)
           d == Cutting(t)
           C(l) == \A i \in 1..Len(l) : \A c : Contains(l[i], c) => Contains(t, c)
           S == {n \in Nat : n <= N => C(d[n]) /\ (WellPlaced(t) => LevelsOK(d[n], t, n))}
<1>1. /\ N \in Nat /\ \A n \in 0..N : d[n] \in LevelLists
      /\ d[0] = << <<>> >> /\ \A n \in 1..N : d[n] = Extended(d[n - 1], t[n])
  BY CuttingIs DEF AreCut
<1> HIDE DEF d
<1>2. 0 \in S
  <2>1. Len(d[0]) = 1 /\ d[0][1] = <<>> BY <1>1
  <2>2. C(d[0]) BY <2>1, ContainsNothing
  <2>3. LevelsOK(d[0], t, 0) BY <2>1, ContainsNothing DEF LevelsOK
  <2>4. QED BY <2>2, <2>3
<1>3. ASSUME NEW n \in S PROVE n + 1 \in S
  <2>1. SUFFICES ASSUME n + 1 <= N
                 PROVE  C(d[n + 1]) /\ (WellPlaced(t) => LevelsOK(d[n + 1], t, n + 1))
    OBVIOUS
  <2>2. n + 1 \in 1..N /\ n + 1 - 1 = n /\ n \in 0..N /\ n \in Nat BY <1>1, <2>1
  <2>3. d[n + 1] = Extended(d[n], t[n + 1]) /\ d[n] \in LevelLists /\ t[n + 1] \in STRING
    BY <1>1, <2>2, ElementOfSeq
  <2>4. C(d[n]) /\ (WellPlaced(t) => LevelsOK(d[n], t, n)) BY <2>1, <2>2
  <2>5. WellPlaced(t) => LevelsOK(d[n + 1], t, n + 1)
    BY <2>1, <2>2, <2>3, <2>4, LevelsStayOK
  <2>6. C(d[n + 1])
    <3> DEFINE l == d[n]
               e == t[n + 1]
               x == Extended(l, e)
               k == Len(l)
    <3>1. /\ k \in Nat \ {0} /\ l[k] \in Words /\ e \in STRING
          /\ e = "/" => Len(x) = k + 1 /\ x[k + 1] = <<>> /\ \A i \in 1..k : x[i] = l[i]
          /\ e # "/" => /\ Len(x) = k /\ x[k] = Append(l[k], e)
                        /\ \A i \in 1..(k - 1) : x[i] = l[i]
      BY <2>3, ExtendedIs
    <3>2. \A i \in 1..k : \A c : Contains(l[i], c) => Contains(t, c) BY <2>4
    <3>3. Contains(t, e) BY <2>2 DEF Contains
    <3> HIDE DEF l, e, x, k
    <3>4. CASE e = "/"
      <4>1. ASSUME NEW i \in 1..Len(x), NEW c, Contains(x[i], c) PROVE Contains(t, c)
        <5>1. CASE i = k + 1 BY <3>1, <3>4, <4>1, <5>1, ContainsNothing
        <5>2. CASE i # k + 1
          <6>1. i \in 1..k BY <3>1, <3>4, <5>2
          <6>2. QED BY <3>1, <3>2, <3>4, <4>1, <6>1
        <5>3. QED BY <5>1, <5>2
      <4>2. QED BY <2>3, <4>1 DEF x, l, e
    <3>5. CASE e # "/"
      <4>1. ASSUME NEW i \in 1..Len(x), NEW c, Contains(x[i], c) PROVE Contains(t, c)
        <5>1. CASE i = k
          <6>1. Contains(Append(l[k], e), c) BY <3>1, <3>5, <4>1, <5>1
          <6>2. Contains(l[k], c) \/ e = c BY <3>1, <6>1, ContainsAppend
          <6>3. k \in 1..k BY <3>1
          <6>4. QED BY <3>2, <3>3, <6>2, <6>3
        <5>2. CASE i # k
          <6>1. i \in 1..k /\ i \in 1..(k - 1) BY <3>1, <3>5, <5>2
          <6>2. QED BY <3>1, <3>2, <3>5, <4>1, <6>1
        <5>3. QED BY <5>1, <5>2
      <4>2. QED BY <2>3, <4>1 DEF x, l, e
    <3>6. QED BY <3>4, <3>5
  <2>7. QED BY <2>5, <2>6
<1>4. S = Nat
  <2> HIDE DEF S
  <2>1. S \in SUBSET Nat BY DEF S
  <2>2. QED BY <1>2, <1>3, <2>1, NumberInduction
<1>5. C(d[N]) /\ (WellPlaced(t) => LevelsOK(d[N], t, N))
  <2> HIDE DEF S, C
  <2>1. N \in S /\ N <= N BY <1>1, <1>4
  <2>2. QED BY <2>1 DEF S
<1>6. d[N] \in LevelLists
  <2>1. N \in 0..N BY <1>1
  <2>2. QED BY <1>1, <2>1
<1>7. d[N] \in Seq(Words) /\ Len(d[N]) \in Nat \ {0} BY <1>6 DEF LevelLists
<1>8. QED BY <1>5, <1>6, <1>7 DEF Cut, d, N

(* What a name that isValidName accepts looks like, level by level.        *)
LEMMA ValidLevels ==
  ASSUME NEW t \in Seq(STRING), NEW before, isValidName(t, before), t[1] # "$",
         NEW i \in 1..Len(Cut(t))
  PROVE  LET l == Cut(t)
             k == Len(l)
         IN  /\ l[i] # <<>> \/ (i > 1 /\ i = k)
             /\ Contains(l[i], "#") => l[i] = <<"#">> /\ i = k
             /\ Contains(l[i], "+") => l[i] = <<"+">> /\ i < k
<1> DEFINE l == Cut(t)
           k == Len(l)
<1>1. WellPlaced(t) BY ValidIsWellPlaced
<1>2. LevelsOK(l, t, Len(t)) /\ k \in Nat \ {0} BY <1>1, CutIs
<1>3. Len(t) \in Nat \ {0} /\ Len(t) \in 1..Len(t) BY <1>1 DEF WellPlaced
<1> HIDE DEF l
<1>4. /\ \A j \in 1..(k - 1) :
           l[j] # <<>> /\ ~Contains(l[j], "#") /\ (Contains(l[j], "+") => l[j] = <<"+">>)
      /\ l[k] = <<>> => k > 1
      /\ Contains(l[k], "#") => l[k] = <<"#">>
      /\ Contains(l[k], "+") => t[Len(t)] = "+"
  BY <1>2, <1>3 DEF LevelsOK
<1>5. ~Contains(l[k], "+") BY <1>1, <1>3, <1>4 DEF WellPlaced
<1> DEFINE Good == /\ l[i] # <<>> \/ (i > 1 /\ i = k)
                   /\ Contains(l[i], "#") => l[i] = <<"#">> /\ i = k
                   /\ Contains(l[i], "+") => l[i] = <<"+">> /\ i < k
<1>6. CASE i = k
  <2>1. Good BY <1>4, <1>5, <1>6
  <2>2. QED BY <2>1 DEF l
<1>7. CASE i # k
  <2>1. i \in 1..(k - 1) /\ i < k BY <1>2, <1>7 DEF l
  <2>2. Good BY <1>4, <2>1
  <2>3. QED BY <2>2 DEF l
<1>8. QED BY <1>6, <1>7

------------------------------------------------------------------------------
(* The tokens of a name.                                                   *)
AreFound(d, l) ==
  /\ d \in [0..Len(l) -> Seq(Words)]
  /\ d[0] = <<>>
  /\ \A n \in 1..Len(l) : d[n] = IF l[n] = <<>> THEN d[n - 1] ELSE Append(d[n - 1], l[n])

LEMMA FindingIs ==
  ASSUME NEW l \in Seq(Words)
  PROVE  AreFound(Finding(l), l)
<1> DEFINE N == Len(l)
           V == Seq(Words)
           z == <<>>
           step(s, n) == IF l[n] = <<>> THEN s ELSE Append(s, l[n])
           G == [n \in 1..N |-> [s \in V |-> step(s, n)]]
           body(h) == [n \in 0..N |-> IF n = 0 THEN z
                                      ELSE IF l[n] = <<>> THEN h[n - 1]
                                      ELSE Append(h[n - 1], l[n])]
           d == CHOOSE finding : finding = body(finding)
<1>1. Finding(l) = d BY DEF Finding
<1>2. N \in Nat OBVIOUS
<1>3. ASSUME NEW s \in V, NEW n \in 1..N PROVE step(s, n) \in V
  <2>1. l[n] \in Words BY ElementOfSeq
  <2>2. Append(s, l[n]) \in V BY <2>1, AppendProperties
  <2>3. QED BY <2>2
<1>4. z \in V OBVIOUS
<1> HIDE DEF z, N, V
<1>5. PICK f \in [0..N -> V] : f[0] = z /\ \A n \in 1..N : f[n] = G[n][f[n - 1]]
  <2>1. G \in [1..N -> [V -> V]] BY <1>3
  <2> HIDE DEF G
  <2>2. \E f \in [0..N -> V] : f[0] = z /\ \A n \in 1..N : f[n] = G[n][f[n - 1]]
    BY <1>2, <1>4, <2>1, RecursionIsFunction
  <2>3. QED BY <2>2
<1>6. ASSUME NEW n \in 1..N PROVE f[n] = step(f[n - 1], n)
  <2>1. f[n - 1] \in V BY <1>2
  <2>2. QED BY <1>5, <2>1
<1>7. f = body(f)
  <2>1. ASSUME NEW n \in 0..N
        PROVE  f[n] = IF n = 0 THEN z
                      ELSE IF l[n] = <<>> THEN f[n - 1] ELSE Append(f[n - 1], l[n])
    <3>1. CASE n = 0 BY <1>5, <3>1
    <3>2. CASE n # 0
      <4>1. n \in 1..N BY <1>2, <3>2
      <4>2. QED BY <1>6, <3>2, <4>1
    <3>3. QED BY <3>1, <3>2
  <2>2. f = [n \in 0..N |-> f[n]] BY <1>5
  <2>3. QED BY <2>1, <2>2, Zenon
<1>8. d = body(d) BY <1>7, Zenon
<1>9. ASSUME NEW n \in 0..N
      PROVE  d[n] = IF n = 0 THEN z
                    ELSE IF l[n] = <<>> THEN d[n - 1] ELSE Append(d[n - 1], l[n])
  <2> HIDE DEF d
  <2>1. QED BY <1>8, Zenon
<1> HIDE DEF d, G
<1>10. ASSUME NEW n \in 0..N PROVE d[n] \in V
  <2> DEFINE S == {k \in Nat : k <= N => d[k] \in V}
  <2>1. 0 \in S
    <3>1. 0 \in 0..N BY <1>2
    <3>2. d[0] = z BY <1>9, <3>1
    <3>3. QED BY <1>4, <3>2
  <2>2. ASSUME NEW k \in S PROVE k + 1 \in S
    <3>1. SUFFICES ASSUME k + 1 <= N PROVE d[k + 1] \in V OBVIOUS
    <3>2. k + 1 \in 0..N /\ k + 1 \in 1..N /\ k + 1 # 0 /\ k + 1 - 1 = k /\ d[k] \in V
      BY <1>2, <3>1
    <3>3. d[k + 1] = step(d[k], k + 1) BY <1>9, <3>2
    <3> HIDE DEF step
    <3>4. step(d[k], k + 1) \in V BY <1>3, <3>2
    <3>5. QED BY <3>3, <3>4
  <2>3. S = Nat
    <3> HIDE DEF S
    <3>1. S \in SUBSET Nat BY DEF S
    <3>2. QED BY <2>1, <2>2, <3>1, NumberInduction
  <2> HIDE DEF S
  <2>4. n \in S /\ n <= N BY <1>2, <2>3
  <2>5. QED BY <2>4 DEF S
<1>11. AreFound(d, l)
  <2>1. d = [n \in 0..N |-> d[n]] BY <1>8, Zenon
  <2>2. d \in [0..N -> V] BY <1>10, <2>1
  <2>3. d[0] = z
    <3>1. 0 \in 0..N BY <1>2
    <3>2. QED BY <1>9, <3>1
  <2>4. ASSUME NEW n \in 1..N
        PROVE  d[n] = IF l[n] = <<>> THEN d[n - 1] ELSE Append(d[n - 1], l[n])
    <3>1. n \in 0..N /\ n # 0 BY <1>2
    <3>2. QED BY <1>9, <3>1
  <2>5. QED BY <2>2, <2>3, <2>4 DEF AreFound, z, N, V
<1>12. QED BY <1>1, <1>11

(* Every token is a level, and the last level is the last token.           *)
LEMMA TokensAreLevels ==
  ASSUME NEW t \in Seq(STRING)
  PROVE  /\ Tokens(t) \in Seq(Words)
         /\ \A j \in 1..Len(Tokens(t)) : \E i \in 1..Len(Cut(t)) :
              Tokens(t)[j] = Cut(t)[i] /\ (i = Len(Cut(t)) => j = Len(Tokens(t)))
<1> DEFINE l == Cut(t)
           N == Len(l)
           d == Finding(l)
           A(n) == \A j \in 1..Len(d[n]) : \E i \in 1..n :
                     d[n][j] = l[i] /\ (i = n => j = Len(d[n]))
           S == {n \in Nat : n <= N => A(n)}
<1>1. l \in Seq(Words) /\ N \in Nat BY CutIs
<1>2. AreFound(d, l) BY <1>1, FindingIs
<1> HIDE DEF d, l
<1>3. /\ \A n \in 0..N : d[n] \in Seq(Words)
      /\ d[0] = <<>>
      /\ \A n \in 1..N : d[n] = IF l[n] = <<>> THEN d[n - 1] ELSE Append(d[n - 1], l[n])
  BY <1>1, <1>2 DEF AreFound
<1>4. \A n \in 1..N : l[n] \in Words BY <1>1, ElementOfSeq
<1> HIDE DEF N
<1>5. 0 \in S
  <2>1. Len(d[0]) = 0 BY <1>3
  <2>2. QED BY <2>1
<1>6. ASSUME NEW n \in S PROVE n + 1 \in S
  <2>1. SUFFICES ASSUME n + 1 <= N PROVE A(n + 1) OBVIOUS
  <2>2. n + 1 \in 1..N /\ n + 1 - 1 = n /\ n \in 0..N /\ n \in Nat BY <1>1, <2>1
  <2> DEFINE u == d[n]
             v == d[n + 1]
             w == l[n + 1]
  <2>3. u \in Seq(Words) /\ w \in Words /\ v = IF w = <<>> THEN u ELSE Append(u, w)
    BY <1>3, <1>4, <2>2
  <2>4. \A j \in 1..Len(u) : \E i \in 1..n : u[j] = l[i] BY <2>1, <2>2
  <2>5. n + 1 \in Nat /\ \A i \in 1..n : i \in 1..(n + 1) /\ i # n + 1 BY <2>2
  <2> DEFINE B == \A j \in 1..Len(v) : \E i \in 1..(n + 1) :
                    v[j] = l[i] /\ (i = n + 1 => j = Len(v))
  <2> HIDE DEF u, v, w
  <2>6. CASE w = <<>>
    <3>1. v = u BY <2>3, <2>6
    <3>2. ASSUME NEW j \in 1..Len(v)
          PROVE  \E i \in 1..(n + 1) : v[j] = l[i] /\ (i = n + 1 => j = Len(v))
      <4>1. PICK i \in 1..n : u[j] = l[i] BY <2>4, <3>1
      <4>2. QED BY <2>5, <3>1, <4>1
    <3>3. QED BY <3>2 DEF v
  <2>7. CASE w # <<>>
    <3>1. /\ Len(v) = Len(u) + 1 /\ Len(u) \in Nat /\ v[Len(u) + 1] = w
          /\ \A j \in 1..Len(u) : v[j] = u[j]
      BY <2>3, <2>7, AppendProperties
    <3>2. ASSUME NEW j \in 1..Len(v)
          PROVE  \E i \in 1..(n + 1) : v[j] = l[i] /\ (i = n + 1 => j = Len(v))
      <4>1. CASE j = Len(u) + 1
        <5>1. v[j] = l[n + 1] /\ j = Len(v) BY <3>1, <4>1 DEF w
        <5>2. n + 1 \in 1..(n + 1) BY <2>2
        <5>3. QED BY <5>1, <5>2
      <4>2. CASE j # Len(u) + 1
        <5>1. j \in 1..Len(u) BY <3>1, <4>2
        <5>2. PICK i \in 1..n : u[j] = l[i] BY <2>4, <5>1
        <5>3. v[j] = l[i] /\ i \in 1..(n + 1) /\ i # n + 1 BY <2>5, <3>1, <5>1, <5>2
        <5>4. QED BY <5>3
      <4>3. QED BY <4>1, <4>2
    <3>3. QED BY <3>2 DEF v
  <2>8. QED BY <2>6, <2>7
<1>7. S = Nat
  <2> HIDE DEF S
  <2>1. S \in SUBSET Nat BY DEF S
  <2>2. QED BY <1>5, <1>6, <2>1, NumberInduction
<1>8. A(N)
  <2> HIDE DEF S, A
  <2>1. N \in S /\ N <= N BY <1>1, <1>7 DEF N
  <2>2. QED BY <2>1 DEF S
<1>9. N \in 0..N BY <1>1 DEF N
<1>10. d[N] \in Seq(Words) BY <1>3, <1>9
<1>11. QED BY <1>8, <1>10 DEF Tokens, d, l, N

(* A # is the whole last token of a filter, and a + a whole token.         *)
LEMMA FilterTokens ==
  ASSUME NEW f \in Seq(STRING), NEW before, isValidName(f, before), f[1] # "$",
         NEW j \in 1..Len(Tokens(f))
  PROVE  /\ Contains(Tokens(f)[j], "#") => Tokens(f)[j] = <<"#">> /\ j = Len(Tokens(f))
         /\ Contains(Tokens(f)[j], "+") => Tokens(f)[j] = <<"+">>
<1>1. PICK i \in 1..Len(Cut(f)) :
        Tokens(f)[j] = Cut(f)[i] /\ (i = Len(Cut(f)) => j = Len(Tokens(f)))
  BY TokensAreLevels
<1>2. /\ Contains(Cut(f)[i], "#") => Cut(f)[i] = <<"#">> /\ i = Len(Cut(f))
      /\ Contains(Cut(f)[i], "+") => Cut(f)[i] = <<"+">>
  BY ValidLevels
<1>3. QED BY <1>1, <1>2

LEMMA PlainTokens ==
  ASSUME NEW t \in Seq(STRING), ~hasWildcards(t), NEW j \in 1..Len(Tokens(t))
  PROVE  ~Contains(Tokens(t)[j], "#") /\ ~Contains(Tokens(t)[j], "+")
<1>1. PICK i \in 1..Len(Cut(t)) : Tokens(t)[j] = Cut(t)[i] BY TokensAreLevels
<1>2. \A c : Contains(Cut(t)[i], c) => Contains(t, c) BY CutIs
<1>3. QED BY <1>1, <1>2 DEF hasWildcards

LEMMA FirstIsContained ==
  ASSUME NEW w \in Words, NEW c \in {"#", "+"}, First(w) = c
  PROVE  Contains(w, c)
<1>1. w # <<>> BY DEF First
<1>2. w[1] = c BY <1>1 DEF First
<1>3. w \in Seq(STRING) BY DEF Words
<1>4. 1 \in 1..Len(w) BY <1>1, <1>3
<1>5. QED BY <1>2, <1>4 DEF Contains

LEMMA OneCharacterFirst == First(<<"#">>) = "#" /\ First(<<"+">>) = "+"
BY DEF First

LEMMA AgreeingIsSymmetric == \A u, v : TokensAgree(u, v) <=> TokensAgree(v, u)
BY DEF TokensAgree, Agree

(* A valid filter and a topic.                                             *)
LEMMA FilterFinds ==
  ASSUME NEW f \in Seq(STRING), NEW before, isValidName(f, before), Filter(f), f[1] # "$",
         NEW t \in Seq(STRING), Plain(t)
  PROVE  /\ Matches(f, t) => Equals(f, t) /\ Equals(t, f)
         /\ Equals(f, t) \/ Equals(t, f) => Matches(f, t) \/ Levels(f) # Levels(t)
<1> DEFINE F == Tokens(f)
           T == Tokens(t)
<1>1. hasWildcards(f) /\ First(f) # "$" /\ ~hasWildcards(t) BY DEF Filter, Plain
<1>2. First(t) # "#"
  <2>1. t \in Words BY DEF Words
  <2>2. ~Contains(t, "#") BY <1>1 DEF hasWildcards
  <2>3. QED BY <2>1, <2>2, FirstIsContained
<1>3. First(f) = "#" <=> f = <<"#">>
  <2>1. ASSUME First(f) = "#" PROVE f = <<"#">>
    <3>1. f # <<>> /\ f[1] = "#" BY <2>1 DEF First
    <3>2. WellPlaced(f) BY ValidIsWellPlaced
    <3>3. Len(f) \in Nat \ {0} /\ 1 \in 1..Len(f) BY <3>2 DEF WellPlaced
    <3>4. Len(f) = 1 BY <3>1, <3>2, <3>3 DEF WellPlaced
    <3>5. QED BY <3>1, <3>4
  <2>2. QED BY <2>1, OneCharacterFirst
<1>4. CASE f = <<"#">>
  <2>1. Matches(f, t) <=> First(t) # "$" BY <1>4 DEF Matches
  <2>2. Equals(f, t) <=> First(t) # "$" BY <1>1, <1>3, <1>4 DEF Equals
  <2>3. Equals(t, f) <=> First(t) # "$" BY <1>1, <1>3, <1>4 DEF Equals
  <2>4. QED BY <2>1, <2>2, <2>3
<1>5. CASE f # <<"#">>
  <2>1. First(f) # "#" BY <1>3, <1>5
  <2>2. Equals(f, t) <=> TokensAgree(F, T) BY <1>1, <1>2, <2>1 DEF Equals
  <2>3. Equals(t, f) <=> TokensAgree(F, T)
    <3>1. Equals(t, f) <=> TokensAgree(T, F) BY <1>1, <1>2, <2>1 DEF Equals
    <3>2. QED BY <3>1, AgreeingIsSymmetric
  <2>4. F \in Seq(Words) /\ T \in Seq(Words) BY TokensAreLevels
  <2>5. \A j \in 1..Len(F) :
          /\ Contains(F[j], "#") => F[j] = <<"#">> /\ j = Len(F)
          /\ Contains(F[j], "+") => F[j] = <<"+">>
    BY FilterTokens
  <2>6. \A j \in 1..Len(T) : ~Contains(T[j], "#") /\ ~Contains(T[j], "+")
    BY <1>1, PlainTokens
  <2>7. Matches(f, t) <=>
          IF Last(F) = <<"#">>
          THEN Len(T) >= Len(F) - 1 /\ \A i \in 1..(Len(F) - 1) : F[i] = T[i] \/ F[i] = <<"+">>
          ELSE Len(T) = Len(F) /\ \A i \in 1..Len(F) : F[i] = T[i] \/ F[i] = <<"+">>
    BY <1>5, <2>4 DEF Matches
  <2>8. Levels(f) = Len(F) /\ Levels(t) = Len(T) BY DEF Levels
  <2> HIDE DEF F, T
  <2>9. Last(F) = F[Len(F)] BY DEF Last
  <2>10. \A j \in 1..Len(F) :
           /\ First(F[j]) = "#" => F[j] = <<"#">> /\ j = Len(F)
           /\ First(F[j]) = "+" <=> F[j] = <<"+">>
           /\ First(F[j]) = "#" <=> F[j] = <<"#">>
    <3>1. \A j \in 1..Len(F) : F[j] \in Words BY <2>4, ElementOfSeq
    <3>2. QED BY <2>5, <3>1, FirstIsContained, OneCharacterFirst
  <2>11. \A j \in 1..Len(T) : First(T[j]) # "#" /\ First(T[j]) # "+"
    <3>1. \A j \in 1..Len(T) : T[j] \in Words BY <2>4, ElementOfSeq
    <3>2. QED BY <2>6, <3>1, FirstIsContained
  <2>12. DOMAIN F = 1..Len(F) /\ DOMAIN T = 1..Len(T) /\ Len(F) \in Nat /\ Len(T) \in Nat
    BY <2>4
  <2>13. ASSUME NEW i \in DOMAIN F \cap DOMAIN T
         PROVE  /\ Agree(F[i], T[i]) <=> F[i] = T[i] \/ F[i] = <<"+">>
                /\ (\A j \in 1..i : First(F[j]) # "#" /\ First(T[j]) # "#") <=> F[i] # <<"#">>
    <3>1. i \in 1..Len(F) /\ i \in 1..Len(T) BY <2>12
    <3>2. Agree(F[i], T[i]) <=> F[i] = T[i] \/ F[i] = <<"+">>
      BY <2>10, <2>11, <3>1 DEF Agree
    <3>3. i \in 1..i BY <3>1
    <3>4. ASSUME F[i] # <<"#">>, NEW j \in 1..i PROVE First(F[j]) # "#" /\ First(T[j]) # "#"
      <4>1. j \in 1..Len(F) /\ j \in 1..Len(T) BY <2>12, <3>1
      <4>2. First(F[j]) = "#" => j = Len(F) /\ F[j] = <<"#">> BY <2>10, <4>1
      <4>3. j = Len(F) => j = i BY <2>12, <3>1
      <4>4. QED BY <2>11, <3>4, <4>1, <4>2, <4>3
    <3>5. QED BY <2>10, <3>1, <3>2, <3>3, <3>4
  <2>14. TokensAgree(F, T) <=>
           \A i \in DOMAIN F \cap DOMAIN T : F[i] # <<"#">> => F[i] = T[i] \/ F[i] = <<"+">>
    BY <2>13 DEF TokensAgree
  <2>15. ASSUME Matches(f, t) PROVE TokensAgree(F, T)
    <3>1. SUFFICES ASSUME NEW i \in DOMAIN F \cap DOMAIN T, F[i] # <<"#">>
                   PROVE  F[i] = T[i] \/ F[i] = <<"+">>
      BY <2>14
    <3>2. CASE Last(F) = <<"#">>
      <4>1. i # Len(F) BY <2>9, <3>1, <3>2
      <4>2. i \in 1..(Len(F) - 1) BY <2>12, <4>1
      <4>3. QED BY <2>7, <2>15, <3>2, <4>2
    <3>3. CASE Last(F) # <<"#">> BY <2>7, <2>12, <2>15, <3>3
    <3>4. QED BY <3>2, <3>3
  <2>16. ASSUME TokensAgree(F, T), Len(F) = Len(T) PROVE Matches(f, t)
    <3>1. ASSUME NEW i \in 1..Len(F), F[i] # <<"#">> PROVE F[i] = T[i] \/ F[i] = <<"+">>
      BY <2>12, <2>14, <2>16, <3>1
    <3>2. \A i \in 1..Len(F) : F[i] = <<"#">> => i = Len(F) BY <2>10, OneCharacterFirst
    <3>3. CASE Last(F) = <<"#">>
      <4>1. ASSUME NEW i \in 1..(Len(F) - 1) PROVE F[i] = T[i] \/ F[i] = <<"+">>
        <5>1. Len(F) \in Nat BY <2>12
        <5>2. i \in 1..Len(F) /\ i # Len(F) BY <5>1
        <5>3. QED BY <3>1, <3>2, <5>2
      <4>2. Len(T) >= Len(F) - 1 BY <2>12, <2>16
      <4>3. QED BY <2>7, <3>3, <4>1, <4>2
    <3>4. CASE Last(F) # <<"#">>
      <4>1. ASSUME NEW i \in 1..Len(F) PROVE F[i] = T[i] \/ F[i] = <<"+">>
        <5>1. F[i] # <<"#">> BY <2>9, <3>2, <3>4
        <5>2. QED BY <3>1, <5>1
      <4>2. QED BY <2>7, <2>16, <3>4, <4>1
    <3>5. QED BY <3>3, <3>4
  <2>17. QED BY <2>2, <2>3, <2>8, <2>15, <2>16 DEF F, T
<1>6. QED BY <1>4, <1>5

------------------------------------------------------------------------------
(* The names that an object can hold.                                      *)
Holdable == {Unborn, <<>>}
          \cup {t \in Names : /\ Len(t) < MaxTopicLength
                              /\ \E before \in Before : isValidName(t, before)}

NamesHeld == topic \in [Objects -> Holdable]

LEMMA NamesHeldNext == NamesHeld /\ [TopicNext]_topicVars => NamesHeld'
<1>1. SUFFICES ASSUME NamesHeld, [TopicNext]_topicVars PROVE NamesHeld' OBVIOUS
<1>2. ASSUME NEW t \in Names, NEW before \in Before PROVE Taken(t, before) \in Holdable
  BY DEF Taken, Holdable
<1>3. <<>> \in Holdable BY DEF Holdable
<1>4. ASSUME NEW o \in Objects, Construct(o) PROVE NamesHeld'
  BY <1>1, <1>2, <1>3, <1>4 DEF Construct, NamesHeld
<1>5. ASSUME NEW o \in Objects, setTopic(o) PROVE NamesHeld'
  BY <1>1, <1>2, <1>5 DEF setTopic, NamesHeld
<1>6. ASSUME NEW o \in Objects, resetTopic(o) PROVE NamesHeld'
  BY <1>1, <1>3, <1>6 DEF resetTopic, NamesHeld
<1>7. CASE UNCHANGED topicVars BY <1>1, <1>7 DEF topicVars, NamesHeld
<1>8. QED BY <1>1, <1>4, <1>5, <1>6, <1>7 DEF TopicNext

LEMMA NamesHeldInit == TopicInit => NamesHeld
BY DEF TopicInit, NamesHeld, Holdable

LEMMA HeldNames ==
  ASSUME NEW t \in Holdable, t \notin {<<>>, Unborn}
  PROVE  /\ t \in Seq(STRING) /\ Len(t) < MaxTopicLength
         /\ \E before \in Before : isValidName(t, before)
BY NamesAreNames DEF Holdable

(* Whatever name a constructor or setTopic is given, and whatever byte lies *)
(* in front of the array: a name that an object holds has no space, not      *)
(* more than one wildcard and levels that are well formed, for any          *)
(* MAX_TOPIC_LENGTH.                                                        *)
THEOREM NamesAlwaysWellFormed ==
  TopicInit /\ [][TopicNext]_topicVars => []NamesAreWellFormed
<1>1. ASSUME NamesHeld PROVE NamesAreWellFormed
  <2>1. SUFFICES ASSUME NEW o \in Objects, topic[o] \notin {<<>>, Unborn}, topic[o][1] # "$"
                 PROVE  LET t == topic[o]
                            l == Cut(t)
                        IN  /\ Len(t) < MaxTopicLength
                            /\ ~Contains(t, " ")
                            /\ \A i, j \in Wildcards(t) : i = j
                            /\ \A i \in 1..Len(l) :
                                 /\ l[i] # <<>> \/ (i > 1 /\ i = Len(l))
                                 /\ Contains(l[i], "#") => l[i] = <<"#">> /\ i = Len(l)
                                 /\ Contains(l[i], "+") => l[i] = <<"+">> /\ i < Len(l)
    BY Zenon DEF NamesAreWellFormed
  <2> DEFINE t == topic[o]
  <2>2. t \in Holdable BY <1>1 DEF NamesHeld
  <2> HIDE DEF t
  <2>3. t \in Seq(STRING) /\ Len(t) < MaxTopicLength /\ t[1] # "$" BY <2>1, <2>2, HeldNames DEF t
  <2>4. PICK before \in Before : isValidName(t, before) BY <2>1, <2>2, HeldNames DEF t
  <2>5. ~Contains(t, " ") BY <2>3, <2>4 DEF isValidName
  <2>6. \A i, j \in Wildcards(t) : i = j BY <2>3, <2>4, OneWildcard
  <2>7. QED BY <2>3, <2>4, <2>5, <2>6, ValidLevels DEF t
<1>2. QED BY <1>1, NamesHeldInit, NamesHeldNext, PTL

(* Whatever two names are held: a filter equals, from either side, every    *)
(* topic that it matches under the rules of the comment above operator==,   *)
(* and no other of as many levels.                                          *)
THEOREM FiltersAlwaysFindTopics ==
  TopicInit /\ [][TopicNext]_topicVars => []FiltersFindTopics
<1>1. ASSUME NamesHeld PROVE FiltersFindTopics
  <2>1. SUFFICES ASSUME NEW o \in Objects, NEW p \in Objects, Filter(topic[o]), Plain(topic[p])
                 PROVE  LET f == topic[o]
                            t == topic[p]
                        IN  /\ Matches(f, t) => Equals(f, t) /\ Equals(t, f)
                            /\ Equals(f, t) \/ Equals(t, f)
                                 => Matches(f, t) \/ Levels(f) # Levels(t)
    BY Zenon DEF FiltersFindTopics
  <2> DEFINE f == topic[o]
             t == topic[p]
  <2>2. f \in Holdable /\ t \in Holdable BY <1>1 DEF NamesHeld
  <2> HIDE DEF f, t
  <2>3. Filter(f) /\ Plain(t) BY <2>1 DEF f, t
  <2>4. f \notin {<<>>, Unborn} /\ First(f) # "$"
    <3>1. (Contains(f, "+") \/ Contains(f, "#")) /\ First(f) # "$"
      BY <2>3 DEF Filter, hasWildcards
    <3>2. f # <<>> BY <3>1, ContainsNothing
    <3>3. \A x : Contains(Unborn, x) <=> "unborn" = x
      BY ContainsOne DEF Unborn
    <3>4. f # Unborn BY <3>1, <3>3
    <3>5. QED BY <3>1, <3>2, <3>4
  <2>5. f \in Seq(STRING) BY <2>2, <2>4, HeldNames
  <2>6. PICK before \in Before : isValidName(f, before) BY <2>2, <2>4, HeldNames
  <2>7. f[1] # "$" BY <2>4 DEF First
  <2>8. t \notin {<<>>, Unborn} BY <2>3 DEF Plain
  <2>9. t \in Seq(STRING) BY <2>2, <2>8, HeldNames
  <2>10. QED BY <2>3, <2>5, <2>6, <2>7, <2>9, FilterFinds DEF f, t
<1>2. QED BY <1>1, NamesHeldInit, NamesHeldNext, PTL

------------------------------------------------------------------------------
(* MqttMessage: sequences that are put together from the end, an element   *)
(* before what r leads to, up to a stop.                                   *)
Linked(V, N, Stop, base, x, r) ==
  /\ N \in Nat /\ base \in [0..N -> Seq(V)] /\ x \in [0..N -> V]
  /\ \A n \in (0..N) \ Stop : r[n] \in Nat /\ r[n] < n

IsChain(f, N, Stop, base, x, r) ==
  \A n \in 0..N : f[n] = IF n \in Stop THEN base[n] ELSE <<x[n]>> \o f[r[n]]

LEMMA ChainIsFunction ==
  ASSUME NEW V, NEW N, NEW Stop, NEW base, NEW x, NEW r, Linked(V, N, Stop, base, x, r)
  PROVE  \E f \in [0..N -> Seq(V)] : IsChain(f, N, Stop, base, x, r)
<1> /\ N \in Nat /\ base \in [0..N -> Seq(V)] /\ x \in [0..N -> V]
    /\ \A n \in (0..N) \ Stop : r[n] \in Nat /\ r[n] < n
  BY DEF Linked
<1> DEFINE Chain(f, k) ==
             /\ f \in [0..k -> Seq(V)]
             /\ \A n \in 0..k : f[n] = IF n \in Stop THEN base[n] ELSE <<x[n]>> \o f[r[n]]
           Has(k) == \E f : Chain(f, k)
           S == {k \in Nat : k <= N => Has(k)}
<1>1. 0 \in S
  <2> DEFINE f == [n \in 0..0 |-> base[0]]
  <2>1. 0 \in 0..N /\ 0..0 = {0} OBVIOUS
  <2>2. 0 \in Stop
    <3>1. SUFFICES ASSUME 0 \notin Stop PROVE FALSE OBVIOUS
    <3>2. 0 \in (0..N) \ Stop BY <2>1, <3>1
    <3>3. r[0] \in Nat /\ r[0] < 0 BY <3>2
    <3>4. QED BY <3>3
  <2>3. Chain(f, 0) BY <2>1, <2>2
  <2>4. Has(0) BY <2>3
  <2> HIDE DEF Has
  <2>5. QED BY <2>4
<1>2. ASSUME NEW k \in S PROVE k + 1 \in S
  <2>1. SUFFICES ASSUME k + 1 <= N PROVE Has(k + 1)
    <3> HIDE DEF Has
    <3> QED OBVIOUS
  <2>a. Has(k)
    <3> HIDE DEF Has
    <3> QED BY <2>1
  <2>2. PICK g : Chain(g, k) BY <2>a
  <2> DEFINE j == k + 1
             e == IF j \in Stop THEN base[j] ELSE <<x[j]>> \o g[r[j]]
             f == [n \in 0..j |-> IF n = j THEN e ELSE g[n]]
  <2>3. j \in 0..N /\ j \in Nat /\ k \in Nat /\ 0..j = (0..k) \cup {j} /\ j \notin 0..k BY <2>1
  <2>4. j \notin Stop => r[j] \in 0..k /\ g[r[j]] \in Seq(V) BY <2>1, <2>2, <2>3
  <2>5. e \in Seq(V)
    <3>1. CASE j \in Stop BY <2>3, <3>1
    <3>2. CASE j \notin Stop
      <4>1. <<x[j]>> \in Seq(V) BY <2>3
      <4>2. <<x[j]>> \o g[r[j]] \in Seq(V) BY <2>4, <3>2, <4>1, ConcatProperties
      <4>3. QED BY <3>2, <4>2
    <3>3. QED BY <3>1, <3>2
  <2> HIDE DEF e, j
  <2>6. f \in [0..j -> Seq(V)] BY <2>2, <2>3, <2>5
  <2>7. f[j] = e /\ \A n \in 0..k : f[n] = g[n] BY <2>3
  <2>8. ASSUME NEW n \in 0..j
        PROVE  f[n] = IF n \in Stop THEN base[n] ELSE <<x[n]>> \o f[r[n]]
    <3> HIDE DEF f
    <3>1. CASE n = j
      <4>1. j \notin Stop => f[r[j]] = g[r[j]] BY <2>4, <2>7
      <4>2. QED BY <2>7, <3>1, <4>1 DEF e
    <3>2. CASE n # j
      <4>1. n \in 0..k BY <2>3, <3>2
      <4>2. n \notin Stop => r[n] \in 0..k BY <2>1, <4>1
      <4>3. n \notin Stop => f[r[n]] = g[r[n]] BY <2>7, <4>2
      <4>4. f[n] = g[n] BY <2>7, <4>1
      <4>5. g[n] = IF n \in Stop THEN base[n] ELSE <<x[n]>> \o g[r[n]] BY <2>2, <4>1
      <4>6. QED BY <4>3, <4>4, <4>5
    <3>3. QED BY <3>1, <3>2
  <2> HIDE DEF f
  <2>9. Chain(f, j) BY <2>6, <2>8
  <2> HIDE DEF Chain
  <2>10. QED BY <2>9 DEF j
<1>3. S = Nat
  <2> HIDE DEF S
  <2>1. S \in SUBSET Nat BY DEF S
  <2>2. QED BY <1>1, <1>2, <2>1, NumberInduction
<1>4. Has(N)
  <2> HIDE DEF Has
  <2>1. N \in S BY <1>3
  <2>2. QED BY <2>1
<1>5. QED BY <1>4 DEF IsChain

LEMMA ChainIsTyped ==
  ASSUME NEW V, NEW N, NEW Stop, NEW base, NEW x, NEW r, Linked(V, N, Stop, base, x, r),
         NEW f, IsChain(f, N, Stop, base, x, r)
  PROVE  \A n \in 0..N : f[n] \in Seq(V)
<1> /\ N \in Nat /\ base \in [0..N -> Seq(V)] /\ x \in [0..N -> V]
    /\ \A n \in (0..N) \ Stop : r[n] \in Nat /\ r[n] < n
  BY DEF Linked
<1> \A n \in 0..N : f[n] = IF n \in Stop THEN base[n] ELSE <<x[n]>> \o f[r[n]] BY DEF IsChain
<1> DEFINE T == {n \in 0..N : f[n] \notin Seq(V)}
<1>1. SUFFICES ASSUME T # {} PROVE FALSE OBVIOUS
<1>2. PICK n \in T : \A k \in T : n <= k
  <2>1. T \in SUBSET Nat OBVIOUS
  <2>2. QED BY <1>1, <2>1, LeastNumber
<1>3. CASE n \in Stop BY <1>3
<1>4. CASE n \notin Stop
  <2>1. r[n] \in 0..N /\ r[n] < n BY <1>4
  <2>2. f[r[n]] \in Seq(V) BY <1>2, <2>1
  <2>3. <<x[n]>> \in Seq(V) OBVIOUS
  <2>4. <<x[n]>> \o f[r[n]] \in Seq(V) BY <2>2, <2>3, ConcatProperties
  <2>5. QED BY <1>4, <2>4
<1>5. QED BY <1>3, <1>4

------------------------------------------------------------------------------
(* The remaining length.                                                   *)

(* d are the digits of n: all but the last one have the continuation bit,  *)
(* and v is the value of the digits from each one on.                      *)
AreDigits(d, n, v) ==
  LET l == Len(d)
  IN  /\ d \in Seq(Octet) /\ l \in Nat \ {0} /\ v \in [1..l -> Nat]
      /\ v[1] = n /\ d[l] < 128 /\ v[l] = (d[l] % 128)
      /\ \A j \in 1..(l - 1) : d[j] >= 128 /\ v[j] = (d[j] % 128) + 128 * v[j + 1]

IsLength(d, n) == \E v : AreDigits(d, n, v)

LEMMA OneDigit ==
  ASSUME NEW n \in 0..127
  PROVE  IsLength(<<n>>, n)
<1> DEFINE v == [j \in 1..1 |-> n]
           d == <<n>>
<1>1. d \in Seq(Octet) /\ Len(d) = 1 /\ d[1] = n /\ (n % 128) = n BY DEF Octet
<1>2. v \in [1..1 -> Nat] /\ v[1] = n OBVIOUS
<1> HIDE DEF d, v
<1>3. AreDigits(d, n, v) BY <1>1, <1>2 DEF AreDigits
<1>4. IsLength(d, n) BY <1>3 DEF IsLength
<1>5. QED BY <1>4 DEF d

LEMMA OneMoreDigit ==
  ASSUME NEW n \in Nat, n >= 128, NEW d, IsLength(d, n \div 128)
  PROVE  IsLength(<<(n % 128) + 128>> \o d, n)
<1> DEFINE q == n \div 128
           h == (n % 128) + 128
           l == Len(d)
           e == <<h>> \o d
<1>1. PICK v : AreDigits(d, q, v) BY DEF IsLength
<1>2. h \in Octet /\ h >= 128 /\ (h % 128) + 128 * q = n BY DEF Octet
<1>3. q \in Nat OBVIOUS
<1> HIDE DEF h, q
<1>4. d \in Seq(Octet) /\ l \in Nat \ {0} BY <1>1 DEF AreDigits
<1>5. /\ e \in Seq(Octet) /\ Len(e) = l + 1 /\ e[1] = h
      /\ \A j \in 1..l : e[j + 1] = d[j]
  <2> DEFINE o == <<h>>
  <2>1. o \in Seq(Octet) /\ Len(o) = 1 /\ o[1] = h BY <1>2
  <2> HIDE DEF o
  <2>2. /\ o \o d \in Seq(Octet) /\ Len(o \o d) = 1 + l
        /\ \A i \in 1..(1 + l) : (o \o d)[i] = IF i <= 1 THEN o[i] ELSE d[i - 1]
    <3>1. o \o d \in Seq(Octet) BY <1>4, <2>1, ConcatProperties
    <3>2. Len(o \o d) = Len(o) + Len(d) BY <1>4, <2>1, ConcatProperties
    <3>3. \A i \in 1..(Len(o) + Len(d)) : (o \o d)[i] = IF i <= Len(o) THEN o[i] ELSE d[i - Len(o)]
      BY <1>4, <2>1, ConcatProperties
    <3>4. QED BY <2>1, <3>1, <3>2, <3>3
  <2>3. e = o \o d BY DEF o
  <2> HIDE DEF e
  <2>4. QED BY <1>4, <2>1, <2>2, <2>3
<1> HIDE DEF e, l
<1> DEFINE w == [j \in 1..(l + 1) |-> IF j = 1 THEN n ELSE v[j - 1]]
<1>6. v \in [1..l -> Nat] /\ v[1] = q /\ d[l] < 128 /\ v[l] = (d[l] % 128)
  BY <1>1 DEF AreDigits, l
<1>7. w \in [1..(l + 1) -> Nat] /\ w[1] = n /\ \A j \in 1..l : w[j + 1] = v[j]
  BY <1>4, <1>6
<1> HIDE DEF w
<1>8. ASSUME NEW j \in 1..l PROVE e[j] >= 128 /\ w[j] = (e[j] % 128) + 128 * w[j + 1]
  <2>1. CASE j = 1
    <3>1. 1 \in 1..l /\ w[1 + 1] = v[1] BY <1>4, <1>7
    <3>2. QED BY <1>2, <1>5, <1>6, <1>7, <2>1, <3>1
  <2>2. CASE j # 1
    <3> DEFINE i == j - 1
    <3>1. i \in 1..l /\ i \in 1..(l - 1) /\ i + 1 = j BY <1>4, <2>2
    <3>2. d[i] >= 128 /\ v[i] = (d[i] % 128) + 128 * v[i + 1] BY <1>1, <3>1 DEF AreDigits, l
    <3>3. e[j] = d[i] /\ w[j] = v[i] BY <1>5, <1>7, <3>1
    <3>4. w[j + 1] = v[i + 1] BY <1>7, <3>1
    <3>5. QED BY <3>2, <3>3, <3>4
  <2>3. QED BY <2>1, <2>2
<1>9. e[l + 1] = d[l] /\ w[l + 1] = v[l] BY <1>4, <1>5, <1>7
<1>10. AreDigits(e, n, w)
  <2> DEFINE m == Len(e)
  <2>1. m \in Nat \ {0} /\ m = l + 1 /\ m - 1 = l BY <1>4, <1>5
  <2> HIDE DEF m
  <2>2. e \in Seq(Octet) /\ w \in [1..m -> Nat] /\ w[1] = n BY <1>5, <1>7, <2>1
  <2>3. e[m] < 128 /\ w[m] = (e[m] % 128) BY <1>6, <1>9, <2>1
  <2>4. \A j \in 1..(m - 1) : e[j] >= 128 /\ w[j] = (e[j] % 128) + 128 * w[j + 1]
    BY <1>8, <2>1
  <2>5. QED BY <2>1, <2>2, <2>3, <2>4 DEF AreDigits, m
<1>11. IsLength(e, n) BY <1>10 DEF IsLength
<1>12. QED BY <1>11 DEF e, h

(* The digits that a creation writes are those of the number.              *)
LEMMA LengthIsWritten ==
  ASSUME NEW n \in Nat
  PROVE  IsLength(RemainingLength(n), n)
<1> DEFINE body(h) == [k \in 0..n |-> IF k < 128 THEN <<k>> ELSE <<(k % 128) + 128>> \o h[k \div 128]]
           d == CHOOSE digits : digits = body(digits)
           Stop == 0..127
           base == [k \in 0..n |-> IF k < 128 THEN <<k>> ELSE <<>>]
           x == [k \in 0..n |-> (k % 128) + 128]
           r == [k \in 0..n |-> k \div 128]
<1>1. RemainingLength(n) = d[n] BY DEF RemainingLength
<1>2. PICK f \in [0..n -> Seq(Octet)] :
        \A k \in 0..n : f[k] = IF k \in Stop THEN base[k] ELSE <<x[k]>> \o f[r[k]]
  <2>1. base \in [0..n -> Seq(Octet)]
    <3>1. ASSUME NEW k \in 0..n, k < 128 PROVE <<k>> \in Seq(Octet) BY <3>1 DEF Octet
    <3>2. QED BY <3>1
  <2>2. x \in [0..n -> Octet] BY DEF Octet
  <2>3. \A k \in (0..n) \ Stop : r[k] \in Nat /\ r[k] < k OBVIOUS
  <2>4. Linked(Octet, n, Stop, base, x, r)
    <3> HIDE DEF base, x, r, Stop
    <3>1. QED BY <2>1, <2>2, <2>3 DEF Linked
  <2> HIDE DEF base, x, r, Stop
  <2>5. \E f \in [0..n -> Seq(Octet)] : IsChain(f, n, Stop, base, x, r)
    BY <2>4, ChainIsFunction, Zenon
  <2>6. QED BY <2>5 DEF IsChain
<1>3. f = body(f)
  <2>1. ASSUME NEW k \in 0..n
        PROVE  f[k] = IF k < 128 THEN <<k>> ELSE <<(k % 128) + 128>> \o f[k \div 128]
    <3>1. CASE k < 128
      <4>1. k \in Stop /\ base[k] = <<k>> BY <3>1
      <4>2. QED BY <1>2, <3>1, <4>1
    <3>2. CASE ~(k < 128)
      <4>1. k \notin Stop /\ x[k] = (k % 128) + 128 /\ r[k] = k \div 128 BY <3>2
      <4> HIDE DEF Stop, x, r
      <4>2. QED BY <1>2, <3>2, <4>1
    <3>3. QED BY <3>1, <3>2
  <2>2. f = [k \in 0..n |-> f[k]] BY <1>2
  <2>3. QED BY <2>1, <2>2, Zenon
<1>4. d = body(d) BY <1>3, Zenon
<1>5. ASSUME NEW k \in 0..n
      PROVE  d[k] = IF k < 128 THEN <<k>> ELSE <<(k % 128) + 128>> \o d[k \div 128]
  <2> HIDE DEF d
  <2>1. QED BY <1>4, Zenon
<1> HIDE DEF d
<1> DEFINE T == {k \in 0..n : ~IsLength(d[k], k)}
<1>6. T = {}
  <2>1. SUFFICES ASSUME T # {} PROVE FALSE OBVIOUS
  <2>2. PICK k \in T : \A j \in T : k <= j
    <3>1. T \in SUBSET Nat OBVIOUS
    <3>2. QED BY <2>1, <3>1, LeastNumber
  <2>3. CASE k < 128
    <3>1. k \in 0..n BY DEF T
    <3>2. d[k] = <<k>> BY <1>5, <2>3, <3>1
    <3>3. k \in 0..127 BY <2>3, <3>1
    <3>4. IsLength(<<k>>, k) BY <3>3, OneDigit
    <3>5. QED BY <3>2, <3>4
  <2>4. CASE ~(k < 128)
    <3>1. k \div 128 \in 0..n /\ k \div 128 < k /\ k \in Nat /\ k >= 128 BY <2>4
    <3>2. IsLength(d[k \div 128], k \div 128) BY <2>2, <3>1
    <3>3. IsLength(<<(k % 128) + 128>> \o d[k \div 128], k) BY <3>1, <3>2, OneMoreDigit
    <3>4. QED BY <1>5, <2>4, <3>3
  <2>5. QED BY <2>3, <2>4
<1>7. n \in 0..n OBVIOUS
<1>8. QED BY <1>1, <1>6, <1>7

(* The digits lie in m from i on.                                          *)
Lies(d, m, i) ==
  /\ i \in Nat \ {0} /\ m \in Seq(Nat) /\ i + Len(d) - 1 <= Len(m)
  /\ \A j \in 1..Len(d) : m[i + j - 1] = d[j]

(* A parser and a receiver read the number that was written.               *)
LEMMA LengthIsRead ==
  ASSUME NEW m, NEW i, NEW d, NEW n, IsLength(d, n), Lies(d, m, i)
  PROVE  AfterLength(m, i) = i + Len(d) /\ LengthFrom(m, i) = n
<1> DEFINE l == Len(d)
           last == i + l - 1
<1>1. PICK v : AreDigits(d, n, v) BY DEF IsLength
<1>2. /\ d \in Seq(Octet) /\ l \in Nat \ {0} /\ v \in [1..l -> Nat]
      /\ v[1] = n /\ d[l] < 128 /\ v[l] = (d[l] % 128)
      /\ \A j \in 1..(l - 1) : d[j] >= 128 /\ v[j] = (d[j] % 128) + 128 * v[j + 1]
  BY <1>1 DEF AreDigits
<1>3. /\ i \in Nat \ {0} /\ m \in Seq(Nat) /\ last <= Len(m)
      /\ \A j \in 1..l : m[i + j - 1] = d[j]
  BY DEF Lies
<1> HIDE DEF l
<1>4. last \in i..Len(m) /\ last - i = l - 1 /\ last \in Nat /\ Len(m) \in Nat BY <1>2, <1>3
<1>5. m[last] = d[l] BY <1>2, <1>3
<1>6. ASSUME NEW k \in i..(last - 1) PROVE m[k] >= 128
  <2> DEFINE j == k - i + 1
  <2>1. j \in 1..(l - 1) /\ j \in 1..l /\ i + j - 1 = k BY <1>2, <1>3
  <2>2. d[j] >= 128 /\ m[k] = d[j] BY <1>2, <1>3, <2>1
  <2>3. QED BY <2>2
<1>7. AfterLength(m, i) = 1 + last
  <2> DEFINE Ends(j) == m[j] < 128 /\ \A k \in i..j - 1 : m[k] >= 128
  <2>1. Ends(last) BY <1>2, <1>5, <1>6
  <2>2. ASSUME NEW j \in i..Len(m), Ends(j) PROVE j = last
    <3>1. SUFFICES ASSUME j # last PROVE FALSE OBVIOUS
    <3>2. j \in Nat /\ m[j] \in Nat /\ m[last] \in Nat BY <1>3, <1>4
    <3>3. CASE j < last
      <4>1. j \in i..(last - 1) BY <1>4, <3>2, <3>3
      <4>2. m[j] >= 128 BY <1>6, <4>1
      <4>3. QED BY <2>2, <3>2, <4>2
    <3>4. CASE last < j
      <4>1. last \in i..(j - 1) BY <1>4, <3>2, <3>4
      <4>2. m[last] >= 128 BY <2>2, <4>1
      <4>3. QED BY <1>2, <1>5, <3>2, <4>2
    <3>5. QED BY <1>4, <3>1, <3>2, <3>3, <3>4
  <2> DEFINE c == CHOOSE j \in i..Len(m) : Ends(j)
  <2>3. c \in i..Len(m) /\ Ends(c)
    <3> HIDE DEF Ends
    <3>1. QED BY <1>4, <2>1
  <2>4. AfterLength(m, i) = 1 + c BY DEF AfterLength
  <2> HIDE DEF c, Ends
  <2>5. c = last BY <2>2, <2>3
  <2>6. QED BY <2>4, <2>5
<1>8. LengthFrom(m, i) = n
  <2> DEFINE body(h) == [k \in 0..last - i |->
                           (m[last - k] % 128) + (IF k = 0 THEN 0 ELSE 128 * h[k - 1])]
             f == [k \in 0..(l - 1) |-> v[l - k]]
             g == CHOOSE value : value = body(value)
  <2>1. ASSUME NEW k \in 0..(l - 1)
        PROVE  v[l - k] = (m[last - k] % 128) + (IF k = 0 THEN 0 ELSE 128 * v[l - (k - 1)])
    <3> DEFINE j == l - k
    <3>1. j \in 1..l /\ i + j - 1 = last - k /\ j + 1 = l - (k - 1) /\ (k # 0 => j \in 1..(l - 1))
          /\ (k = 0 => j = l)
      BY <1>2, <1>3
    <3>2. m[last - k] = d[j] BY <1>3, <3>1
    <3> HIDE DEF j, last
    <3>3. CASE k = 0 BY <1>2, <3>1, <3>2, <3>3 DEF j
    <3>4. CASE k # 0
      <4>1. v[j] = (d[j] % 128) + 128 * v[j + 1] BY <1>2, <3>1, <3>4
      <4>2. QED BY <3>1, <3>2, <3>4, <4>1 DEF j
    <3>5. QED BY <3>3, <3>4
  <2>2. f = body(f)
    <3>1. ASSUME NEW k \in 0..(l - 1)
          PROVE  f[k] = (m[last - k] % 128) + (IF k = 0 THEN 0 ELSE 128 * f[k - 1])
      <4>1. f[k] = v[l - k] OBVIOUS
      <4>2. k # 0 => k - 1 \in 0..(l - 1) BY <1>2
      <4>3. k # 0 => f[k - 1] = v[l - (k - 1)] BY <4>2
      <4> HIDE DEF f, last
      <4>4. QED BY <2>1, <4>1, <4>3
    <3>2. f = [k \in 0..(l - 1) |-> f[k]] OBVIOUS
    <3> HIDE DEF f, last
    <3>3. [k \in 0..(l - 1) |-> f[k]]
            = [k \in 0..(l - 1) |-> (m[last - k] % 128) + (IF k = 0 THEN 0 ELSE 128 * f[k - 1])]
      BY <3>1, Zenon
    <3>4. QED BY <1>4, <3>2, <3>3
  <2> HIDE DEF f, last
  <2>3. g = body(g) BY <2>2, Zenon
  <2>4. ASSUME NEW k \in 0..(l - 1)
        PROVE  g[k] = (m[last - k] % 128) + (IF k = 0 THEN 0 ELSE 128 * g[k - 1])
    <3>1. k \in 0..last - i BY <1>4
    <3> HIDE DEF g
    <3>2. QED BY <2>3, <3>1, Zenon
  <2>5. LengthFrom(m, i) = g[l - 1]
    <3> DEFINE a == AfterLength(m, i) - 1
               bodyA(h) == [k \in 0..a - i |->
                           (m[a - k] % 128) + (IF k = 0 THEN 0 ELSE 128 * h[k - 1])]
    <3>1. a = last BY <1>4, <1>7
    <3>2. LengthFrom(m, i) = (CHOOSE value : value = bodyA(value))[a - i] BY DEF LengthFrom
    <3> HIDE DEF a
    <3>3. QED BY <1>4, <3>1, <3>2
  <2> HIDE DEF g
  <2> DEFINE S == {k \in Nat : k <= l - 1 => g[k] = v[l - k]}
  <2>6. 0 \in S
    <3>1. 0 \in 0..(l - 1) BY <1>2
    <3>2. QED BY <2>1, <2>4, <3>1
  <2>7. ASSUME NEW k \in S PROVE k + 1 \in S
    <3>1. SUFFICES ASSUME k + 1 <= l - 1 PROVE g[k + 1] = v[l - (k + 1)] OBVIOUS
    <3>2. k + 1 \in 0..(l - 1) /\ k + 1 # 0 /\ k + 1 - 1 = k BY <1>2, <3>1
    <3>3. g[k] = v[l - k]
      <4>1. k <= l - 1 BY <1>2, <3>1
      <4>2. QED BY <4>1
    <3>4. g[k + 1] = (m[last - (k + 1)] % 128) + 128 * g[k] BY <2>4, <3>2
    <3>5. v[l - (k + 1)] = (m[last - (k + 1)] % 128) + 128 * v[l - (k + 1 - 1)] BY <2>1, <3>2
    <3>6. QED BY <3>2, <3>3, <3>4, <3>5
  <2>8. S = Nat
    <3> HIDE DEF S
    <3>1. S \in SUBSET Nat BY DEF S
    <3>2. QED BY <2>6, <2>7, <3>1, NumberInduction
  <2>9. l - 1 \in S BY <1>2, <2>8
  <2>10. g[l - 1] = v[l - (l - 1)] BY <1>2, <2>9
  <2>11. l - (l - 1) = 1 BY <1>2
  <2>12. QED BY <1>2, <2>5, <2>10, <2>11
<1>9. QED BY <1>2, <1>3, <1>7, <1>8 DEF l

------------------------------------------------------------------------------
(* The packets.                                                            *)
LEMMA OctetsAreNat ==
  ASSUME NEW d \in Seq(Octet)
  PROVE  d \in Seq(Nat) /\ Len(d) \in Nat
<1>1. ASSUME NEW i \in 1..Len(d) PROVE d[i] \in Nat
  <2>1. d[i] \in Octet BY ElementOfSeq
  <2>2. \A x \in Octet : x \in Nat BY DEF Octet
  <2>3. QED BY <2>1, <2>2
<1>2. d = [i \in 1..Len(d) |-> d[i]] /\ Len(d) \in Nat OBVIOUS
<1>3. QED BY <1>1, <1>2

LEMMA Joined ==
  ASSUME NEW V, NEW a \in Seq(V), NEW b \in Seq(V)
  PROVE  LET c == a \o b IN
           /\ c \in Seq(V) /\ Len(a) \in Nat /\ Len(b) \in Nat /\ Len(c) = Len(a) + Len(b)
           /\ \A j \in 1..Len(a) : c[j] = a[j]
           /\ \A j \in 1..Len(b) : c[Len(a) + j] = b[j]
<1> DEFINE c == a \o b
           k == Len(a)
           l == Len(b)
<1>1. c \in Seq(V) BY ConcatProperties
<1>2. Len(c) = k + l BY ConcatProperties
<1>3. \A j \in 1..(k + l) : c[j] = IF j <= k THEN a[j] ELSE b[j - k] BY ConcatProperties
<1>4. k \in Nat /\ l \in Nat OBVIOUS
<1> HIDE DEF c, k, l
<1>5. \A j \in 1..k : c[j] = a[j] BY <1>3, <1>4
<1>6. ASSUME NEW j \in 1..l PROVE c[k + j] = b[j]
  <2> DEFINE i == k + j
  <2>1. i \in 1..(k + l) /\ ~(i <= k) /\ i - k = j BY <1>4
  <2> HIDE DEF i
  <2>2. c[i] = b[j] BY <1>3, <2>1
  <2>3. QED BY <2>2 DEF i
<1>7. QED BY <1>1, <1>2, <1>4, <1>5, <1>6 DEF c, k, l

HasLength(m, a, d, n, kind) ==
  /\ d \in Seq(Octet) /\ IsLength(d, n) /\ Lies(d, m, a + 1)
  /\ m[a] - (m[a] % 16) = MqttMessageType[kind]

(* A packet with its first byte at a, and the next one at b.               *)
PacketAt(m, a, b, kind) ==
  /\ a \in Nat \ {0} /\ b \in Nat /\ b <= Len(m) + 1
  /\ \E d, n : n \in Nat /\ HasLength(m, a, d, n, kind) /\ b = a + 1 + Len(d) + n

(* A packet whose remaining length leaves out that many bytes.             *)
IsPacket(bytes, kind, missing) ==
  /\ bytes \in Seq(Nat) /\ missing \in Nat
  /\ PacketAt(bytes, 1, Len(bytes) + 1 - missing, kind)

LEMMA WrittenPacket ==
  ASSUME NEW fixed \in Nat, NEW n \in Nat, NEW rest \in Seq(Nat), Len(rest) = n,
         NEW kind, fixed - (fixed % 16) = MqttMessageType[kind]
  PROVE  IsPacket(<<fixed>> \o RemainingLength(n) \o rest, kind, 0)
<1> DEFINE o == <<fixed>>
           d == RemainingLength(n)
           h == o \o d
           b == h \o rest
           l == Len(d)
<1>1. IsLength(d, n) BY LengthIsWritten
<1> HIDE DEF d, l
<1>2. d \in Seq(Octet) /\ d \in Seq(Nat) /\ l \in Nat
  <2>1. d \in Seq(Octet) BY <1>1 DEF IsLength, AreDigits
  <2>2. QED BY <2>1, OctetsAreNat DEF l
<1>3. o \in Seq(Nat) /\ Len(o) = 1 /\ o[1] = fixed OBVIOUS
<1> HIDE DEF o
<1>4. h \in Seq(Nat) /\ Len(h) = 1 + l /\ h[1] = fixed /\ \A j \in 1..l : h[1 + j] = d[j]
  <2>1. /\ h \in Seq(Nat) /\ Len(h) = Len(o) + Len(d)
        /\ \A j \in 1..Len(o) : h[j] = o[j]
        /\ \A j \in 1..Len(d) : h[Len(o) + j] = d[j]
    <3>1. o \in Seq(Nat) /\ d \in Seq(Nat) BY <1>2, <1>3
    <3>2. QED BY <3>1, Joined
  <2> HIDE DEF h
  <2>2. 1 \in 1..1 /\ h[1] = fixed BY <1>3, <2>1
  <2>3. QED BY <1>3, <2>1, <2>2 DEF l
<1> HIDE DEF h
<1>5. b \in Seq(Nat) /\ Len(b) = 1 + l + n /\ b[1] = fixed /\ \A j \in 1..l : b[1 + j] = d[j]
  <2>1. b \in Seq(Nat) /\ Len(b) = Len(h) + Len(rest) /\ \A j \in 1..Len(h) : b[j] = h[j]
    <3>1. h \in Seq(Nat) /\ rest \in Seq(Nat) BY <1>4
    <3>2. QED BY <3>1, Joined
  <2> HIDE DEF b
  <2>2. \A j \in 1..(1 + l) : b[j] = h[j] BY <1>4, <2>1
  <2>3. 1 \in 1..(1 + l) /\ \A j \in 1..l : 1 + j \in 1..(1 + l) BY <1>2
  <2>4. QED BY <1>4, <2>1, <2>2, <2>3
<1> HIDE DEF b
<1>6. Lies(d, b, 1 + 1)
  <2>1. 1 + 1 \in Nat \ {0} /\ 2 + l - 1 <= Len(b) BY <1>2, <1>5
  <2>2. ASSUME NEW j \in 1..l PROVE b[2 + j - 1] = d[j]
    <3>1. 2 + j - 1 = 1 + j BY <1>2
    <3>2. QED BY <1>5, <3>1
  <2>3. QED BY <1>5, <2>1, <2>2 DEF Lies, l
<1>7. HasLength(b, 1, d, n, kind) BY <1>1, <1>2, <1>5, <1>6 DEF HasLength
<1>8. Len(b) + 1 = 1 + 1 + Len(d) + n /\ Len(b) + 1 \in Nat BY <1>2, <1>5 DEF l
<1>9. PacketAt(b, 1, Len(b) + 1, kind) BY <1>7, <1>8 DEF PacketAt
<1>10. Len(b) + 1 - 0 = Len(b) + 1 BY <1>5
<1>11. IsPacket(b, kind, 0) BY <1>5, <1>9, <1>10 DEF IsPacket
<1>12. QED BY <1>11 DEF b, h, o, d

LEMMA ShortPacket ==
  ASSUME NEW bytes \in Seq(Nat), NEW missing \in Nat, Len(bytes) >= 2, bytes[2] < 128,
         Len(bytes) = 2 + bytes[2] + missing, NEW kind, bytes[1] - (bytes[1] % 16) = MqttMessageType[kind]
  PROVE  IsPacket(bytes, kind, missing)
<1> DEFINE n == bytes[2]
           d == <<n>>
<1>1. n \in 0..127 /\ n \in Nat
  <2>1. 2 \in 1..Len(bytes) OBVIOUS
  <2>2. n \in Nat BY <2>1, ElementOfSeq
  <2>3. n < 128 OBVIOUS
  <2> HIDE DEF n
  <2>4. QED BY <2>2, <2>3
<1>2. IsLength(d, n) BY <1>1, OneDigit
<1>3. d \in Seq(Octet) /\ Len(d) = 1 /\ d[1] = n BY <1>1 DEF Octet
<1> HIDE DEF d
<1>4. Lies(d, bytes, 1 + 1) BY <1>1, <1>3 DEF Lies
<1>5. HasLength(bytes, 1, d, n, kind) BY <1>2, <1>3, <1>4 DEF HasLength
<1> DEFINE lb == Len(bytes)
<1>6. lb \in Nat /\ lb = 2 + n + missing /\ Len(d) = 1 BY <1>3
<1> HIDE DEF n, lb
<1> DEFINE z == lb + 1 - missing
<1>a. z \in Nat /\ z <= lb + 1 /\ 1 \in Nat \ {0} BY <1>1, <1>6
<1>b. z = 1 + 1 + Len(d) + n BY <1>1, <1>6
<1> HIDE DEF z
<1>c. PacketAt(bytes, 1, z, kind) BY <1>1, <1>5, <1>a, <1>b DEF PacketAt, lb
<1>7. PacketAt(bytes, 1, Len(bytes) + 1 - missing, kind) BY <1>c DEF z, lb
<1>8. QED BY <1>7 DEF IsPacket

(* The packets p begin in the bytes m where b says.                        *)
NextIn(m, b, k, i) == IF i < k THEN b[i + 1] ELSE Len(m) + 1

FramedIn(m, b, k, i, packet) ==
  /\ Uncounted(packet) \in Nat
  /\ PacketAt(m, b[i], NextIn(m, b, k, i) - Uncounted(packet), packet.kind)

Framed(m, p, b) ==
  /\ b \in Seq(Nat) /\ Len(b) = Len(p)
  /\ \A i \in 1..Len(p) : Counted(p[i]) => FramedIn(m, b, Len(p), i, p[i])

(* A packet stays where it is when more is appended.                       *)
LEMMA PacketStays ==
  ASSUME NEW m \in Seq(Nat), NEW x \in Seq(Nat), NEW a, NEW b, NEW kind, PacketAt(m, a, b, kind)
  PROVE  PacketAt(m \o x, a, b, kind)
<1> DEFINE y == m \o x
<1>1. PICK d, n : n \in Nat /\ HasLength(m, a, d, n, kind) /\ b = a + 1 + Len(d) + n BY DEF PacketAt
<1>2. a \in Nat \ {0} /\ b \in Nat /\ b <= Len(m) + 1 BY DEF PacketAt
<1>3. d \in Seq(Octet) /\ IsLength(d, n) /\ Lies(d, m, a + 1) /\ m[a] - (m[a] % 16) = MqttMessageType[kind]
  BY <1>1 DEF HasLength
<1>4. Len(d) \in Nat /\ Len(m) \in Nat /\ Len(x) \in Nat BY <1>3
<1>5. y \in Seq(Nat) /\ Len(y) = Len(m) + Len(x) /\ \A j \in 1..Len(m) : y[j] = m[j]
  <2>1. y \in Seq(Nat) /\ Len(y) = Len(m) + Len(x) /\ \A j \in 1..Len(m) : y[j] = m[j]
    BY Joined
  <2> HIDE DEF y
  <2>2. QED BY <2>1
<1> HIDE DEF y
<1>6. /\ a + 1 + Len(d) - 1 <= Len(m)
      /\ \A j \in 1..Len(d) : m[a + 1 + j - 1] = d[j]
  BY <1>3 DEF Lies
<1>7. a \in 1..Len(m) BY <1>2, <1>4, <1>6
<1>8. Lies(d, y, a + 1)
  <2>1. ASSUME NEW j \in 1..Len(d) PROVE y[a + 1 + j - 1] = d[j]
    <3>1. a + 1 + j - 1 \in 1..Len(m) BY <1>2, <1>4, <1>6
    <3>2. QED BY <1>5, <1>6, <3>1
  <2>2. a + 1 \in Nat \ {0} /\ a + 1 + Len(d) - 1 <= Len(y)
    <3> DEFINE ld == Len(d)
               lm == Len(m)
               lx == Len(x)
               ly == Len(y)
    <3>1. a \in Nat /\ ld \in Nat /\ lm \in Nat /\ lx \in Nat /\ ly = lm + lx
          /\ a + 1 + ld - 1 <= lm
      BY <1>2, <1>4, <1>5, <1>6
    <3> HIDE DEF ld, lm, lx, ly
    <3>2. a + 1 \in Nat \ {0} /\ a + 1 + ld - 1 <= ly BY <3>1
    <3>3. QED BY <3>2 DEF ld, ly
  <2>3. QED BY <1>5, <2>1, <2>2 DEF Lies
<1>9. y[a] = m[a] BY <1>5, <1>7
<1>10. HasLength(y, a, d, n, kind) BY <1>3, <1>8, <1>9 DEF HasLength
<1>11. b <= Len(y) + 1 BY <1>2, <1>4, <1>5
<1>12. PacketAt(y, a, b, kind) BY <1>1, <1>2, <1>10, <1>11 DEF PacketAt
<1>13. QED BY <1>12 DEF y

(* A packet that is appended lies where the bytes ended.                   *)
LEMMA PacketMoves ==
  ASSUME NEW m \in Seq(Nat), NEW x, NEW kind, NEW missing, IsPacket(x, kind, missing)
  PROVE  PacketAt(m \o x, Len(m) + 1, Len(m \o x) + 1 - missing, kind)
<1> DEFINE y == m \o x
           k == Len(m)
           lx == Len(x)
<1>1. x \in Seq(Nat) /\ missing \in Nat /\ PacketAt(x, 1, lx + 1 - missing, kind) BY DEF IsPacket
<1>2. PICK d, n : n \in Nat /\ HasLength(x, 1, d, n, kind)
                  /\ lx + 1 - missing = 1 + 1 + Len(d) + n
  BY <1>1 DEF PacketAt
<1>3. d \in Seq(Octet) /\ IsLength(d, n) /\ Lies(d, x, 1 + 1) /\ x[1] - (x[1] % 16) = MqttMessageType[kind]
  BY <1>2 DEF HasLength
<1>4. Len(d) \in Nat /\ k \in Nat /\ lx \in Nat BY <1>1, <1>3
<1>5. y \in Seq(Nat) /\ Len(y) = k + lx /\ \A j \in 1..lx : y[k + j] = x[j]
  <2>1. /\ y \in Seq(Nat) /\ Len(y) = Len(m) + Len(x)
        /\ \A j \in 1..Len(x) : y[Len(m) + j] = x[j]
    BY <1>1, Joined
  <2> HIDE DEF y
  <2>2. QED BY <2>1
<1> HIDE DEF y
<1>6. /\ 2 + Len(d) - 1 <= lx
      /\ \A j \in 1..Len(d) : x[2 + j - 1] = d[j]
  BY <1>3 DEF Lies
<1> HIDE DEF k, lx
<1>7. Lies(d, y, k + 1 + 1)
  <2>1. ASSUME NEW j \in 1..Len(d) PROVE y[k + 1 + 1 + j - 1] = d[j]
    <3>1. 2 + j - 1 \in 1..lx /\ k + (2 + j - 1) = k + 1 + 1 + j - 1 BY <1>4, <1>6
    <3>2. QED BY <1>5, <1>6, <3>1
  <2>2. k + 1 + 1 \in Nat \ {0} /\ k + 1 + 1 + Len(d) - 1 <= Len(y)
    <3> DEFINE ld == Len(d)
               ly == Len(y)
    <3>1. ld \in Nat /\ k \in Nat /\ lx \in Nat /\ ly = k + lx /\ 2 + ld - 1 <= lx BY <1>4, <1>5, <1>6
    <3> HIDE DEF ld, ly
    <3>2. k + 1 + 1 \in Nat \ {0} /\ k + 1 + 1 + ld - 1 <= ly BY <3>1
    <3>3. QED BY <3>2 DEF ld, ly
  <2>3. QED BY <1>5, <2>1, <2>2 DEF Lies
<1>8. y[k + 1] = x[1]
  <2>1. 1 \in 1..lx BY <1>4, <1>6
  <2>2. QED BY <1>5, <2>1
<1>9. HasLength(y, k + 1, d, n, kind) BY <1>3, <1>7, <1>8 DEF HasLength
<1> DEFINE z == Len(y) + 1 - missing
<1>10. /\ k + 1 \in Nat \ {0} /\ z \in Nat /\ z <= Len(y) + 1
       /\ z = (k + 1) + 1 + Len(d) + n
  <2> DEFINE ld == Len(d)
             ly == Len(y)
  <2>1. ld \in Nat /\ ly = k + lx /\ lx + 1 - missing = 1 + 1 + ld + n BY <1>2, <1>4, <1>5 DEF lx
  <2>2. z = ly + 1 - missing OBVIOUS
  <2> HIDE DEF ld, ly, z
  <2>3. n \in Nat /\ k \in Nat /\ lx \in Nat /\ missing \in Nat BY <1>1, <1>2, <1>4
  <2>4. /\ k + 1 \in Nat \ {0} /\ z \in Nat /\ z <= ly + 1
        /\ z = (k + 1) + 1 + ld + n
    BY <2>1, <2>2, <2>3
  <2>5. QED BY <2>4 DEF ld, ly
<1> HIDE DEF z
<1>11. PacketAt(y, k + 1, z, kind) BY <1>2, <1>9, <1>10 DEF PacketAt
<1>12. QED BY <1>11 DEF y, k, z

LEMMA FramedGrows ==
  ASSUME NEW m \in Seq(Nat), NEW V, NEW p \in Seq(V), NEW b, Framed(m, p, b),
         NEW x \in Seq(Nat), NEW e \in V, Counted(e) => IsPacket(x, e.kind, Uncounted(e))
  PROVE  Framed(m \o x, Append(p, e), Append(b, Len(m) + 1))
<1> DEFINE q == Append(p, e)
           y == m \o x
           k == Len(p)
           lm == Len(m) + 1
           c == Append(b, lm)
<1>1. k \in Nat /\ Len(q) = k + 1 /\ q[k + 1] = e /\ (\A i \in 1..k : q[i] = p[i])
  <2>1. q \in Seq(V) /\ Len(q) = k + 1 /\ k \in Nat BY AppendProperties
  <2>2. q[k + 1] = e BY AppendProperties
  <2>3. \A i \in 1..k : q[i] = p[i] BY AppendProperties
  <2> HIDE DEF q, k
  <2>4. QED BY <2>1, <2>2, <2>3
<1>2. b \in Seq(Nat) /\ Len(b) = k /\ lm \in Nat BY DEF Framed
<1>3. c \in Seq(Nat) /\ Len(c) = k + 1 /\ c[k + 1] = lm /\ (\A i \in 1..k : c[i] = b[i])
  <2> HIDE DEF lm
  <2>1. c \in Seq(Nat) /\ Len(c) = Len(b) + 1 BY <1>2, AppendProperties
  <2>2. c[Len(b) + 1] = lm BY <1>2, AppendProperties
  <2>3. \A i \in 1..Len(b) : c[i] = b[i] BY <1>2, AppendProperties
  <2> HIDE DEF c, k
  <2>4. QED BY <1>2, <2>1, <2>2, <2>3
<1> HIDE DEF q, k, c, y
<1>4. ASSUME NEW i \in 1..k, Counted(q[i]) PROVE FramedIn(y, c, k + 1, i, q[i])
  <2>1. q[i] = p[i] /\ c[i] = b[i] BY <1>1, <1>3
  <2>2. FramedIn(m, b, k, i, p[i]) BY <1>4, <2>1 DEF Framed, k
  <2>3. NextIn(y, c, k + 1, i) = NextIn(m, b, k, i)
    <3>1. i < k + 1 BY <1>1
    <3>2. NextIn(y, c, k + 1, i) = c[i + 1] BY <3>1 DEF NextIn
    <3>3. CASE i < k
      <4>1. i + 1 \in 1..k BY <1>1, <3>3
      <4>2. c[i + 1] = b[i + 1] BY <1>3, <4>1
      <4>3. QED BY <3>2, <3>3, <4>2 DEF NextIn
    <3>4. CASE ~(i < k)
      <4>1. i = k BY <1>1, <3>4
      <4>2. QED BY <1>3, <3>2, <3>4, <4>1 DEF NextIn
    <3>5. QED BY <3>3, <3>4
  <2>4. Uncounted(p[i]) \in Nat
        /\ PacketAt(m, b[i], NextIn(m, b, k, i) - Uncounted(p[i]), p[i].kind)
    BY <2>2 DEF FramedIn
  <2>5. PacketAt(y, b[i], NextIn(m, b, k, i) - Uncounted(p[i]), p[i].kind)
    BY <2>4, PacketStays DEF y
  <2>6. QED BY <2>1, <2>3, <2>4, <2>5 DEF FramedIn
<1>5. ASSUME Counted(e) PROVE FramedIn(y, c, k + 1, k + 1, e)
  <2>1. IsPacket(x, e.kind, Uncounted(e)) BY <1>5
  <2>2. Uncounted(e) \in Nat BY <2>1 DEF IsPacket
  <2>3. PacketAt(y, lm, Len(y) + 1 - Uncounted(e), e.kind) BY <2>1, PacketMoves DEF y
  <2>4. NextIn(y, c, k + 1, k + 1) = Len(y) + 1
    <3>1. ~(k + 1 < k + 1) BY <1>1
    <3>2. QED BY <3>1 DEF NextIn
  <2>5. QED BY <1>3, <2>2, <2>3, <2>4 DEF FramedIn
<1>6. ASSUME NEW i \in 1..k + 1, Counted(q[i]) PROVE FramedIn(y, c, k + 1, i, q[i])
  <2>1. CASE i = k + 1 BY <1>1, <1>5, <1>6, <2>1
  <2>2. CASE i # k + 1
    <3>1. i \in 1..k BY <1>1, <2>2
    <3>2. QED BY <1>4, <1>6, <3>1
  <2>3. QED BY <2>1, <2>2
<1>7. Framed(y, q, c) BY <1>1, <1>3, <1>6 DEF Framed
<1>8. QED BY <1>7 DEF y, q, c

------------------------------------------------------------------------------
(* The lists of topics.                                                    *)
LEMMA JoinedOctets ==
  ASSUME NEW a \in Seq(Octet), NEW b \in Seq(Octet)
  PROVE  LET c == a \o b IN
           /\ c \in Seq(Octet) /\ Len(a) \in Nat /\ Len(b) \in Nat /\ Len(c) = Len(a) + Len(b)
           /\ \A j \in 1..Len(a) : c[j] = a[j]
           /\ \A j \in 1..Len(b) : c[Len(a) + j] = b[j]
<1> DEFINE V == Octet
<1>1. a \in Seq(V) /\ b \in Seq(V) OBVIOUS
<1>2. Len(a) \in Nat /\ Len(b) \in Nat OBVIOUS
<1> HIDE DEF V
<1>3. a \o b \in Seq(V) /\ Len(a \o b) = Len(a) + Len(b) BY <1>1, Joined
<1>4. \A j \in 1..Len(a) : (a \o b)[j] = a[j] BY <1>1, Joined
<1>5. \A j \in 1..Len(b) : (a \o b)[Len(a) + j] = b[j] BY <1>1, Joined
<1>6. QED BY <1>2, <1>3, <1>4, <1>5 DEF V

Stepwise(V, b, N, G) == N \in Nat /\ b \in V /\ G \in [1..N -> [V -> V]]

LEMMA StepsAreFunction ==
  ASSUME NEW V, NEW b, NEW N, NEW G, Stepwise(V, b, N, G)
  PROVE  \E f \in [0..N -> V] : f[0] = b /\ \A n \in 1..N : f[n] = G[n][f[n - 1]]
<1> N \in Nat /\ b \in V /\ G \in [1..N -> [V -> V]] BY DEF Stepwise
<1> QED BY RecursionIsFunction

TopicSeqs == Seq(Seq(Octet))

LEMMA ToAdd ==
  ASSUME NEW topics \in TopicSeqs
  PROVE  TopicsToAdd(topics) \in Nat /\ TopicsToAdd(topics) <= Len(topics)
<1> DEFINE S == {Len(topics), MaxTopicsInSubscribe}
<1>1. Len(topics) \in Nat /\ MaxTopicsInSubscribe \in Nat
  <2> DEFINE V == Seq(Octet)
  <2>1. topics \in Seq(V) BY DEF TopicSeqs
  <2> HIDE DEF V
  <2>2. Len(topics) \in Nat BY <2>1
  <2>3. MaxTopicsInSubscribe \in Nat BY MessageInputsOK
  <2>4. QED BY <2>2, <2>3
<1>2. \E x \in S : \A y \in S : x <= y BY <1>1
<1>3. Min(S) \in S /\ \A y \in S : Min(S) <= y
  <2> HIDE DEF S
  <2>1. QED BY <1>2 DEF Min
<1>4. Min(S) \in Nat /\ Min(S) <= Len(topics) BY <1>1, <1>3
<1>5. QED BY <1>4 DEF TopicsToAdd

LEMMA TopicIsBytes ==
  ASSUME NEW topics \in TopicSeqs, NEW n \in 1..TopicsToAdd(topics)
  PROVE  topics[n] \in Seq(Octet) /\ topics[n] \in Seq(Nat) /\ Len(topics[n]) \in Nat
<1> DEFINE V == Seq(Octet)
<1>1. topics \in Seq(V) BY DEF TopicSeqs
<1> HIDE DEF V
<1>2. n \in 1..Len(topics) BY <1>1, ToAdd
<1>3. topics[n] \in V BY <1>1, <1>2, ElementOfSeq
<1>4. topics[n] \in Seq(Octet) BY <1>3 DEF V
<1>5. QED BY <1>4, OctetsAreNat

Piece(t, extra) == <<0, Len(t) % 256>> \o t \o extra

LEMMA PieceIs ==
  ASSUME NEW t \in Seq(Octet), NEW extra \in Seq(Octet)
  PROVE  /\ Piece(t, extra) \in Seq(Octet) /\ Len(t) \in Nat /\ Len(extra) \in Nat
         /\ Len(Piece(t, extra)) = 2 + Len(t) + Len(extra)
         /\ Piece(t, extra)[1] = 0
         /\ ~Skipped(t) => Piece(t, extra)[2] = Len(t)
         /\ \A j \in 1..Len(t) : Piece(t, extra)[2 + j] = t[j]
<1> DEFINE o == <<0, Len(t) % 256>>
           h == o \o t
           p == h \o extra
<1>1. Len(t) \in Nat OBVIOUS
<1>2. o \in Seq(Octet) /\ Len(o) = 2 /\ o[1] = 0 /\ o[2] = (Len(t) % 256)
  <2> DEFINE x == Len(t) % 256
  <2>0. 0 \in Octet /\ \A l \in Nat : (l % 256) \in Octet BY DEF Octet
  <2>1. 0 \in Octet /\ x \in Octet BY <1>1, <2>0
  <2> HIDE DEF x
  <2>2. <<0, x>> \in Seq(Octet) /\ Len(<<0, x>>) = 2 /\ <<0, x>>[1] = 0 /\ <<0, x>>[2] = x BY <2>1
  <2>3. QED BY <2>2 DEF x
<1>3. ~Skipped(t) => (Len(t) % 256) = Len(t)
  <2>1. \A x \in Nat : x <= 255 => (x % 256) = x OBVIOUS
  <2>2. ~Skipped(t) => Len(t) <= 255
    <3>1. MaxStringLength \in 0..255 BY MessageInputsOK
    <3> DEFINE l == Len(t)
    <3>2. l \in Nat BY <1>1
    <3>3. ~Skipped(t) <=> ~(l > MaxStringLength) BY DEF Skipped
    <3> HIDE DEF l
    <3>4. ~Skipped(t) => l <= 255 BY <3>1, <3>2, <3>3
    <3>5. QED BY <3>4 DEF l
  <2>3. QED BY <1>1, <2>1, <2>2
<1> HIDE DEF o
<1>4. /\ h \in Seq(Octet) /\ Len(h) = Len(o) + Len(t)
      /\ \A j \in 1..Len(o) : h[j] = o[j]
      /\ \A j \in 1..Len(t) : h[Len(o) + j] = t[j]
  <2>1. o \in Seq(Octet) /\ t \in Seq(Octet) BY <1>2
  <2>2. QED BY <2>1, JoinedOctets
<1> HIDE DEF h
<1>5. /\ p \in Seq(Octet) /\ Len(p) = Len(h) + Len(extra) /\ Len(extra) \in Nat
      /\ \A j \in 1..Len(h) : p[j] = h[j]
  BY <1>4, JoinedOctets
<1> HIDE DEF p
<1>6. 1 \in 1..Len(h) /\ 2 \in 1..Len(h) /\ (\A j \in 1..Len(t) : 2 + j \in 1..Len(h))
  BY <1>1, <1>2, <1>4
<1>7. p[1] = 0 /\ p[2] = (Len(t) % 256) BY <1>2, <1>4, <1>5, <1>6
<1>8. ASSUME NEW j \in 1..Len(t) PROVE p[2 + j] = t[j]
  <2>1. p[2 + j] = h[2 + j] BY <1>5, <1>6
  <2>2. h[2 + j] = t[j] BY <1>2, <1>4
  <2>3. QED BY <2>1, <2>2
<1>9. p = Piece(t, extra) BY DEF p, h, o, Piece
<1>10. QED BY <1>1, <1>2, <1>3, <1>4, <1>5, <1>7, <1>8, <1>9

AreAdded(w, topics, extra) ==
  LET N == TopicsToAdd(topics)
  IN  /\ w \in [0..N -> Seq(Octet)] /\ w[0] = <<>>
      /\ \A n \in 1..N :
           w[n] = IF Skipped(topics[n]) THEN w[n - 1] ELSE w[n - 1] \o Piece(topics[n], extra)

AreCounted(c, topics, extra) ==
  LET N == TopicsToAdd(topics)
  IN  /\ c \in [0..N -> Nat] /\ c[0] = 2
      /\ \A n \in 1..N :
           c[n] = IF Skipped(topics[n]) THEN c[n - 1] ELSE c[n - 1] + 2 + Len(topics[n]) + Len(extra)

AreSent(s, topics) ==
  LET N == TopicsToAdd(topics)
  IN  /\ s \in [0..N -> Seq(Seq(Octet))] /\ s[0] = <<>>
      /\ \A n \in 1..N :
           s[n] = IF Skipped(topics[n]) THEN s[n - 1] ELSE Append(s[n - 1], topics[n])

LEMMA AddingIs ==
  ASSUME NEW topics \in TopicSeqs, NEW extra \in Seq(Octet)
  PROVE  AreAdded(Adding(topics, extra), topics, extra)
<1> DEFINE N == TopicsToAdd(topics)
           V == Seq(Octet)
           z == <<>>
           step(n, s) == IF Skipped(topics[n]) THEN s ELSE s \o (<<0, Len(topics[n]) % 256>> \o topics[n] \o extra)
           G == [n \in 1..N |-> [s \in V |-> step(n, s)]]
           body(h) == [n \in 0..N |-> IF n = 0 THEN z ELSE IF Skipped(topics[n]) THEN h[n - 1] ELSE h[n - 1] \o (<<0, Len(topics[n]) % 256>> \o topics[n] \o extra)]
           d == CHOOSE g : g = body(g)
<1>1. Adding(topics, extra) = d BY DEF Adding
<1>2. N \in Nat BY ToAdd
<1>3. ASSUME NEW n \in 1..N, NEW s \in V PROVE step(n, s) \in V
  <2>1. topics[n] \in Seq(Octet) BY TopicIsBytes
  <2>2. Piece(topics[n], extra) \in Seq(Octet) BY <2>1, PieceIs
  <2>3. s \o Piece(topics[n], extra) \in Seq(Octet) BY <2>2, ConcatProperties
  <2>4. QED BY <2>3 DEF Piece
<1>4. z \in V OBVIOUS
<1> HIDE DEF z, N, V
<1>5. PICK f \in [0..N -> V] : f[0] = z /\ \A n \in 1..N : f[n] = G[n][f[n - 1]]
  <2>1. G \in [1..N -> [V -> V]]
    <3> HIDE DEF step
    <3>1. QED BY <1>3
  <2> HIDE DEF G
  <2>a. Stepwise(V, z, N, G) BY <1>2, <1>4, <2>1 DEF Stepwise
  <2>2. \E f \in [0..N -> V] : f[0] = z /\ \A n \in 1..N : f[n] = G[n][f[n - 1]]
    BY <2>a, StepsAreFunction
  <2>3. QED BY <2>2
<1>6. ASSUME NEW n \in 1..N PROVE f[n] = step(n, f[n - 1])
  <2>1. f[n - 1] \in V BY <1>2
  <2> HIDE DEF step
  <2>2. QED BY <1>5, <2>1
<1>7. f = body(f)
  <2>1. ASSUME NEW n \in 0..N PROVE f[n] = IF n = 0 THEN z ELSE step(n, f[n - 1])
    <3> HIDE DEF step
    <3>1. CASE n = 0 BY <1>5, <3>1
    <3>2. CASE n # 0
      <4>1. n \in 1..N BY <1>2, <3>2
      <4>2. QED BY <1>6, <3>2, <4>1
    <3>3. QED BY <3>1, <3>2
  <2>2. f = [n \in 0..N |-> f[n]] BY <1>5
  <2>3. QED BY <2>1, <2>2, Zenon
<1>8. d = body(d) BY <1>7, Zenon
<1>9. ASSUME NEW n \in 0..N PROVE d[n] = IF n = 0 THEN z ELSE step(n, d[n - 1])
  <2> HIDE DEF d
  <2>1. QED BY <1>8, Zenon
<1> HIDE DEF d, G
<1>10. ASSUME NEW n \in 0..N PROVE d[n] \in V
  <2> DEFINE S == {k \in Nat : k <= N => d[k] \in V}
  <2>1. 0 \in S
    <3>1. 0 \in 0..N BY <1>2
    <3>2. d[0] = z BY <1>9, <3>1
    <3>3. QED BY <1>4, <3>2
  <2>2. ASSUME NEW k \in S PROVE k + 1 \in S
    <3>1. SUFFICES ASSUME k + 1 <= N PROVE d[k + 1] \in V OBVIOUS
    <3>2. k + 1 \in 0..N /\ k + 1 \in 1..N /\ k + 1 # 0 /\ k + 1 - 1 = k /\ d[k] \in V
      BY <1>2, <3>1
    <3> HIDE DEF step
    <3>3. d[k + 1] = step(k + 1, d[k]) BY <1>9, <3>2
    <3>4. step(k + 1, d[k]) \in V BY <1>3, <3>2
    <3>5. QED BY <3>3, <3>4
  <2>3. S = Nat
    <3> HIDE DEF S
    <3>1. S \in SUBSET Nat BY DEF S
    <3>2. QED BY <2>1, <2>2, <3>1, NumberInduction
  <2> HIDE DEF S
  <2>4. n \in S /\ n <= N BY <1>2, <2>3
  <2>5. QED BY <2>4 DEF S
<1>11. AreAdded(d, topics, extra)
  <2>1. d = [n \in 0..N |-> d[n]] BY <1>8, Zenon
  <2>2. d \in [0..N -> V] BY <1>10, <2>1
  <2>3. d[0] = z
    <3>1. 0 \in 0..N BY <1>2
    <3>2. QED BY <1>9, <3>1
  <2>4. ASSUME NEW n \in 1..N PROVE d[n] = step(n, d[n - 1])
    <3>1. n \in 0..N /\ n # 0 BY <1>2
    <3> HIDE DEF step
    <3>2. QED BY <1>9, <3>1
  <2>5. QED BY <2>2, <2>3, <2>4 DEF AreAdded, z, N, V, Piece
<1>12. QED BY <1>1, <1>11

LEMMA CountingIs ==
  ASSUME NEW topics \in TopicSeqs, NEW extra \in Seq(Octet)
  PROVE  AreCounted(Counting(topics, extra), topics, extra)
<1> DEFINE N == TopicsToAdd(topics)
           V == Nat
           z == 2
           step(n, s) == IF Skipped(topics[n]) THEN s ELSE s + 2 + Len(topics[n]) + Len(extra)
           G == [n \in 1..N |-> [s \in V |-> step(n, s)]]
           body(h) == [n \in 0..N |-> IF n = 0 THEN z ELSE IF Skipped(topics[n]) THEN h[n - 1] ELSE h[n - 1] + 2 + Len(topics[n]) + Len(extra)]
           d == CHOOSE g : g = body(g)
<1>1. Counting(topics, extra) = d BY DEF Counting
<1>2. N \in Nat BY ToAdd
<1>3. ASSUME NEW n \in 1..N, NEW s \in V PROVE step(n, s) \in V
  <2>1. Len(topics[n]) \in Nat BY TopicIsBytes
  <2>2. Len(extra) \in Nat OBVIOUS
  <2>3. s \in Nat BY DEF V
  <2> DEFINE lt == Len(topics[n])
             le == Len(extra)
  <2>4. lt \in Nat /\ le \in Nat BY <2>1, <2>2
  <2> HIDE DEF lt, le
  <2>5. s + 2 + lt + le \in Nat BY <2>3, <2>4
  <2>6. QED BY <2>3, <2>5 DEF lt, le
<1>4. z \in V OBVIOUS
<1> HIDE DEF z, N, V
<1>5. PICK f \in [0..N -> V] : f[0] = z /\ \A n \in 1..N : f[n] = G[n][f[n - 1]]
  <2>1. G \in [1..N -> [V -> V]]
    <3> HIDE DEF step
    <3>1. QED BY <1>3
  <2> HIDE DEF G
  <2>a. Stepwise(V, z, N, G) BY <1>2, <1>4, <2>1 DEF Stepwise
  <2>2. \E f \in [0..N -> V] : f[0] = z /\ \A n \in 1..N : f[n] = G[n][f[n - 1]]
    BY <2>a, StepsAreFunction
  <2>3. QED BY <2>2
<1>6. ASSUME NEW n \in 1..N PROVE f[n] = step(n, f[n - 1])
  <2>1. f[n - 1] \in V BY <1>2
  <2> HIDE DEF step
  <2>2. QED BY <1>5, <2>1
<1>7. f = body(f)
  <2>1. ASSUME NEW n \in 0..N PROVE f[n] = IF n = 0 THEN z ELSE step(n, f[n - 1])
    <3> HIDE DEF step
    <3>1. CASE n = 0 BY <1>5, <3>1
    <3>2. CASE n # 0
      <4>1. n \in 1..N BY <1>2, <3>2
      <4>2. QED BY <1>6, <3>2, <4>1
    <3>3. QED BY <3>1, <3>2
  <2>2. f = [n \in 0..N |-> f[n]] BY <1>5
  <2>3. QED BY <2>1, <2>2, Zenon
<1>8. d = body(d) BY <1>7, Zenon
<1>9. ASSUME NEW n \in 0..N PROVE d[n] = IF n = 0 THEN z ELSE step(n, d[n - 1])
  <2> HIDE DEF d
  <2>1. QED BY <1>8, Zenon
<1> HIDE DEF d, G
<1>10. ASSUME NEW n \in 0..N PROVE d[n] \in V
  <2> DEFINE S == {k \in Nat : k <= N => d[k] \in V}
  <2>1. 0 \in S
    <3>1. 0 \in 0..N BY <1>2
    <3>2. d[0] = z BY <1>9, <3>1
    <3>3. QED BY <1>4, <3>2
  <2>2. ASSUME NEW k \in S PROVE k + 1 \in S
    <3>1. SUFFICES ASSUME k + 1 <= N PROVE d[k + 1] \in V OBVIOUS
    <3>2. k + 1 \in 0..N /\ k + 1 \in 1..N /\ k + 1 # 0 /\ k + 1 - 1 = k /\ d[k] \in V
      BY <1>2, <3>1
    <3> HIDE DEF step
    <3>3. d[k + 1] = step(k + 1, d[k]) BY <1>9, <3>2
    <3>4. step(k + 1, d[k]) \in V BY <1>3, <3>2
    <3>5. QED BY <3>3, <3>4
  <2>3. S = Nat
    <3> HIDE DEF S
    <3>1. S \in SUBSET Nat BY DEF S
    <3>2. QED BY <2>1, <2>2, <3>1, NumberInduction
  <2> HIDE DEF S
  <2>4. n \in S /\ n <= N BY <1>2, <2>3
  <2>5. QED BY <2>4 DEF S
<1>11. AreCounted(d, topics, extra)
  <2>1. d = [n \in 0..N |-> d[n]] BY <1>8, Zenon
  <2>2. d \in [0..N -> V] BY <1>10, <2>1
  <2>3. d[0] = z
    <3>1. 0 \in 0..N BY <1>2
    <3>2. QED BY <1>9, <3>1
  <2>4. ASSUME NEW n \in 1..N PROVE d[n] = step(n, d[n - 1])
    <3>1. n \in 0..N /\ n # 0 BY <1>2
    <3> HIDE DEF step
    <3>2. QED BY <1>9, <3>1
  <2>5. QED BY <2>2, <2>3, <2>4 DEF AreCounted, z, N, V
<1>12. QED BY <1>1, <1>11

LEMMA SentIs ==
  ASSUME NEW topics \in TopicSeqs
  PROVE  AreSent(Sending(topics), topics)
<1> DEFINE N == TopicsToAdd(topics)
           V == Seq(Seq(Octet))
           z == <<>>
           step(n, s) == IF Skipped(topics[n]) THEN s ELSE Append(s, topics[n])
           G == [n \in 1..N |-> [s \in V |-> step(n, s)]]
           body(h) == [n \in 0..N |-> IF n = 0 THEN z ELSE IF Skipped(topics[n]) THEN h[n - 1] ELSE Append(h[n - 1], topics[n])]
           d == CHOOSE g : g = body(g)
<1>1. Sending(topics) = d BY DEF Sending
<1>2. N \in Nat BY ToAdd
<1>3. ASSUME NEW n \in 1..N, NEW s \in V PROVE step(n, s) \in V
  <2> DEFINE W == Seq(Octet)
  <2>1. topics[n] \in W /\ s \in Seq(W) BY TopicIsBytes
  <2> HIDE DEF W
  <2>2. Append(s, topics[n]) \in Seq(W) BY <2>1, AppendProperties
  <2>3. Append(s, topics[n]) \in V BY <2>2 DEF W
  <2>4. QED BY <2>3
<1>4. z \in V OBVIOUS
<1> HIDE DEF z, N, V
<1>5. PICK f \in [0..N -> V] : f[0] = z /\ \A n \in 1..N : f[n] = G[n][f[n - 1]]
  <2>1. G \in [1..N -> [V -> V]]
    <3> HIDE DEF step
    <3>1. QED BY <1>3
  <2> HIDE DEF G
  <2>a. Stepwise(V, z, N, G) BY <1>2, <1>4, <2>1 DEF Stepwise
  <2>2. \E f \in [0..N -> V] : f[0] = z /\ \A n \in 1..N : f[n] = G[n][f[n - 1]]
    BY <2>a, StepsAreFunction
  <2>3. QED BY <2>2
<1>6. ASSUME NEW n \in 1..N PROVE f[n] = step(n, f[n - 1])
  <2>1. f[n - 1] \in V BY <1>2
  <2> HIDE DEF step
  <2>2. QED BY <1>5, <2>1
<1>7. f = body(f)
  <2>1. ASSUME NEW n \in 0..N PROVE f[n] = IF n = 0 THEN z ELSE step(n, f[n - 1])
    <3> HIDE DEF step
    <3>1. CASE n = 0 BY <1>5, <3>1
    <3>2. CASE n # 0
      <4>1. n \in 1..N BY <1>2, <3>2
      <4>2. QED BY <1>6, <3>2, <4>1
    <3>3. QED BY <3>1, <3>2
  <2>2. f = [n \in 0..N |-> f[n]] BY <1>5
  <2>3. QED BY <2>1, <2>2, Zenon
<1>8. d = body(d) BY <1>7, Zenon
<1>9. ASSUME NEW n \in 0..N PROVE d[n] = IF n = 0 THEN z ELSE step(n, d[n - 1])
  <2> HIDE DEF d
  <2>1. QED BY <1>8, Zenon
<1> HIDE DEF d, G
<1>10. ASSUME NEW n \in 0..N PROVE d[n] \in V
  <2> DEFINE S == {k \in Nat : k <= N => d[k] \in V}
  <2>1. 0 \in S
    <3>1. 0 \in 0..N BY <1>2
    <3>2. d[0] = z BY <1>9, <3>1
    <3>3. QED BY <1>4, <3>2
  <2>2. ASSUME NEW k \in S PROVE k + 1 \in S
    <3>1. SUFFICES ASSUME k + 1 <= N PROVE d[k + 1] \in V OBVIOUS
    <3>2. k + 1 \in 0..N /\ k + 1 \in 1..N /\ k + 1 # 0 /\ k + 1 - 1 = k /\ d[k] \in V
      BY <1>2, <3>1
    <3> HIDE DEF step
    <3>3. d[k + 1] = step(k + 1, d[k]) BY <1>9, <3>2
    <3>4. step(k + 1, d[k]) \in V BY <1>3, <3>2
    <3>5. QED BY <3>3, <3>4
  <2>3. S = Nat
    <3> HIDE DEF S
    <3>1. S \in SUBSET Nat BY DEF S
    <3>2. QED BY <2>1, <2>2, <3>1, NumberInduction
  <2> HIDE DEF S
  <2>4. n \in S /\ n <= N BY <1>2, <2>3
  <2>5. QED BY <2>4 DEF S
<1>11. AreSent(d, topics)
  <2>1. d = [n \in 0..N |-> d[n]] BY <1>8, Zenon
  <2>2. d \in [0..N -> V] BY <1>10, <2>1
  <2>3. d[0] = z
    <3>1. 0 \in 0..N BY <1>2
    <3>2. QED BY <1>9, <3>1
  <2>4. ASSUME NEW n \in 1..N PROVE d[n] = step(n, d[n - 1])
    <3>1. n \in 0..N /\ n # 0 BY <1>2
    <3> HIDE DEF step
    <3>2. QED BY <1>9, <3>1
  <2>5. QED BY <2>2, <2>3, <2>4 DEF AreSent, z, N, V
<1>12. QED BY <1>1, <1>11

(* The remaining length of a list counts the bytes that are added.         *)
LEMMA CountsBytes ==
  ASSUME NEW topics \in TopicSeqs, NEW extra \in Seq(Octet)
  PROVE  LET n == TopicsToAdd(topics)
         IN  /\ Adding(topics, extra)[n] \in Seq(Octet) /\ Counting(topics, extra)[n] \in Nat
             /\ Counting(topics, extra)[n] = 2 + Len(Adding(topics, extra)[n])
<1> DEFINE N == TopicsToAdd(topics)
           w == Adding(topics, extra)
           c == Counting(topics, extra)
           S == {k \in Nat : k <= N => c[k] = 2 + Len(w[k])}
<1>1. AreAdded(w, topics, extra) /\ AreCounted(c, topics, extra) /\ N \in Nat
  BY AddingIs, CountingIs, ToAdd
<1> HIDE DEF w, c
<1>2. 0 \in S
  <2>1. c[0] = 2 /\ w[0] = <<>> BY <1>1 DEF AreAdded, AreCounted
  <2>2. QED BY <2>1
<1>3. ASSUME NEW k \in S PROVE k + 1 \in S
  <2>1. SUFFICES ASSUME k + 1 <= N PROVE c[k + 1] = 2 + Len(w[k + 1]) OBVIOUS
  <2>2. k + 1 \in 1..N /\ k \in 0..N /\ k + 1 - 1 = k BY <1>1, <2>1
  <2>3. c[k] = 2 + Len(w[k]) BY <2>2
  <2> DEFINE t == topics[k + 1]
             p == Piece(t, extra)
  <2>4. /\ w[k] \in Seq(Octet) /\ c[k] \in Nat
        /\ w[k + 1] = IF Skipped(t) THEN w[k] ELSE w[k] \o p
        /\ c[k + 1] = IF Skipped(t) THEN c[k] ELSE c[k] + 2 + Len(t) + Len(extra)
    <3> DEFINE j == k + 1
    <3>1. j \in 1..N /\ j - 1 = k BY <2>2
    <3> HIDE DEF j
    <3>2. w[k] \in Seq(Octet) BY <1>1, <2>2 DEF AreAdded
    <3>3. c[k] \in Nat BY <1>1, <2>2 DEF AreCounted
    <3>4. w[j] = IF Skipped(topics[j]) THEN w[k] ELSE w[k] \o Piece(topics[j], extra)
      BY <1>1, <3>1 DEF AreAdded
    <3>5. c[j] = IF Skipped(topics[j]) THEN c[k] ELSE c[k] + 2 + Len(topics[j]) + Len(extra)
      BY <1>1, <3>1 DEF AreCounted
    <3>6. QED BY <3>2, <3>3, <3>4, <3>5 DEF j
  <2>5. t \in Seq(Octet) BY <2>2, TopicIsBytes
  <2>6. p \in Seq(Octet) /\ Len(p) = 2 + Len(t) + Len(extra) /\ Len(t) \in Nat /\ Len(extra) \in Nat
    BY <2>5, PieceIs
  <2> HIDE DEF p, t
  <2>7. Len(w[k] \o p) = Len(w[k]) + Len(p) /\ Len(w[k]) \in Nat BY <2>4, <2>6, JoinedOctets
  <2>8. CASE Skipped(t) BY <2>3, <2>4, <2>8
  <2>9. CASE ~Skipped(t)
    <3> DEFINE lw == Len(w[k])
               lv == Len(w[k + 1])
               lt == Len(t)
               le == Len(extra)
    <3>1. lw \in Nat /\ lt \in Nat /\ le \in Nat /\ lv = lw + (2 + lt + le)
          /\ c[k] = 2 + lw /\ c[k + 1] = c[k] + 2 + lt + le
      BY <2>3, <2>4, <2>6, <2>7, <2>9
    <3> HIDE DEF lw, lv, lt, le
    <3>2. c[k + 1] = 2 + lv BY <3>1
    <3>3. QED BY <3>2 DEF lv
  <2>10. QED BY <2>8, <2>9
<1>4. S = Nat
  <2> HIDE DEF S
  <2>1. S \in SUBSET Nat BY DEF S
  <2>2. QED BY <1>2, <1>3, <2>1, NumberInduction
<1>5. c[N] = 2 + Len(w[N]) BY <1>1, <1>4
<1>6. w[N] \in Seq(Octet) /\ c[N] \in Nat
  <2>1. N \in 0..N BY <1>1
  <2>2. QED BY <1>1, <2>1 DEF AreAdded, AreCounted
<1>7. QED BY <1>5, <1>6 DEF w, c

LEMMA ListIsPacket ==
  ASSUME NEW topics \in TopicSeqs, NEW extra \in Seq(Octet), NEW fixed \in Nat,
         NEW kind, fixed - (fixed % 16) = MqttMessageType[kind]
  PROVE  IsPacket(ListPacket(fixed, topics, extra), kind, 0)
<1> DEFINE N == TopicsToAdd(topics)
           a == Adding(topics, extra)[N]
           n == Counting(topics, extra)[N]
           o == <<0, 1>>
           rest == o \o a
<1>1. a \in Seq(Octet) /\ n \in Nat /\ n = 2 + Len(a) BY CountsBytes
<1>2. ListPacket(fixed, topics, extra) = <<fixed>> \o RemainingLength(n) \o rest BY DEF ListPacket
<1> HIDE DEF a, n
<1>3. a \in Seq(Nat) BY <1>1, OctetsAreNat
<1>4. o \in Seq(Nat) /\ Len(o) = 2 OBVIOUS
<1> HIDE DEF o
<1>5. rest \in Seq(Nat) /\ Len(rest) = Len(o) + Len(a) BY <1>3, <1>4, Joined
<1> HIDE DEF rest
<1>6. Len(rest) = n BY <1>1, <1>4, <1>5
<1>7. QED BY <1>1, <1>2, <1>5, <1>6, WrittenPacket

(* What the first topics add is where it was.                              *)
LEMMA AddingGrows ==
  ASSUME NEW topics \in TopicSeqs, NEW extra \in Seq(Octet), NEW k \in 0..TopicsToAdd(topics)
  PROVE  LET w == Adding(topics, extra)
             N == TopicsToAdd(topics)
         IN  /\ w[k] \in Seq(Octet) /\ w[N] \in Seq(Octet) /\ Len(w[k]) \in Nat /\ Len(w[N]) \in Nat
             /\ Len(w[k]) <= Len(w[N])
             /\ \A j \in 1..Len(w[k]) : w[N][j] = w[k][j]
<1> DEFINE w == Adding(topics, extra)
           N == TopicsToAdd(topics)
           Grown(j) == /\ Len(w[k]) <= Len(w[j])
                       /\ \A i \in 1..Len(w[k]) : w[j][i] = w[k][i]
           S == {i \in Nat : k + i <= N => Grown(k + i)}
<1>1. AreAdded(w, topics, extra) /\ N \in Nat BY AddingIs, ToAdd
<1> HIDE DEF w, N
<1>2. k \in 0..N BY DEF N
<1>3. \A j \in 0..N : w[j] \in Seq(Octet) /\ Len(w[j]) \in Nat
  <2>1. \A j \in 0..N : w[j] \in Seq(Octet) BY <1>1 DEF AreAdded, N
  <2>2. QED BY <2>1, OctetsAreNat
<1>4. 0 \in S
  <2>1. k + 0 = k /\ Len(w[k]) <= Len(w[k]) BY <1>2, <1>3
  <2>2. Grown(k) BY <2>1
  <2> HIDE DEF Grown
  <2>3. QED BY <2>1, <2>2
<1>5. ASSUME NEW i \in S PROVE i + 1 \in S
  <2> DEFINE j == k + i
  <2>a. k + (i + 1) = j + 1 BY <1>2
  <2> SUFFICES k + (i + 1) <= N => Grown(k + (i + 1))
    <3> HIDE DEF Grown
    <3> QED OBVIOUS
  <2>b. SUFFICES ASSUME k + (i + 1) <= N PROVE Grown(j + 1)
    <3> HIDE DEF Grown, j
    <3> QED BY <2>a
  <2>1. j + 1 \in 1..N /\ j \in 0..N /\ j + 1 - 1 = j /\ k + i <= N BY <1>1, <1>2, <2>a, <2>b
  <2>2. Grown(j)
    <3> HIDE DEF Grown
    <3> QED BY <2>1
  <2> HIDE DEF j
  <2> DEFINE t == topics[j + 1]
             p == Piece(t, extra)
  <2>3. w[j + 1] = IF Skipped(t) THEN w[j] ELSE w[j] \o p
    BY <1>1, <2>1 DEF AreAdded, N
  <2>4. t \in Seq(Octet)
    <3>1. j + 1 \in 1..TopicsToAdd(topics) BY <2>1 DEF N
    <3>2. QED BY <3>1, TopicIsBytes
  <2>5. p \in Seq(Octet) BY <2>4, PieceIs
  <2> HIDE DEF p, t
  <2>6. CASE Skipped(t) BY <2>2, <2>3, <2>6
  <2>7. CASE ~Skipped(t)
    <3> DEFINE x == w[j] \o p
    <3>1. /\ Len(x) = Len(w[j]) + Len(p) /\ Len(w[j]) \in Nat /\ Len(p) \in Nat
          /\ \A n \in 1..Len(w[j]) : x[n] = w[j][n]
      BY <1>3, <2>1, <2>5, JoinedOctets
    <3>2. w[j + 1] = x BY <2>3, <2>7
    <3> HIDE DEF x
    <3>3. Len(w[k]) \in Nat BY <1>2, <1>3
    <3>4. Len(w[k]) <= Len(x) BY <2>2, <3>1, <3>3
    <3>5. ASSUME NEW n \in 1..Len(w[k]) PROVE x[n] = w[k][n]
      <4>1. n \in 1..Len(w[j]) BY <2>2, <3>1, <3>3
      <4>2. QED BY <2>2, <3>1, <4>1
    <3>6. QED BY <3>2, <3>4, <3>5
  <2>8. QED BY <2>6, <2>7
<1>6. S = Nat
  <2> HIDE DEF S
  <2>1. S \in SUBSET Nat BY DEF S
  <2>2. QED BY <1>4, <1>5, <2>1, NumberInduction
<1>7. Grown(N)
  <2>1. N - k \in Nat /\ k + (N - k) = N /\ N <= N BY <1>1, <1>2
  <2> DEFINE i == N - k
  <2>2. i \in S BY <1>6, <2>1
  <2> HIDE DEF Grown, i
  <2>3. k + i <= N => Grown(k + i) BY <2>2
  <2>4. k + i = N BY <2>1 DEF i
  <2>5. QED BY <2>1, <2>3, <2>4
<1>8. N \in 0..N BY <1>1
<1>9. QED BY <1>2, <1>3, <1>7, <1>8 DEF w, N

(* A list of strings as it is read.                                        *)
AreRead(g, order, extra) ==
  LET end == Len(message_)
  IN  /\ \A n \in 0..end : g[n] \in Seq(Seq(Nat))
      /\ \A n \in 0..end :
           LET i    == end + 1 - n
               next == StringEnd(i, order) + extra + 1
           IN  g[n] = IF n = 0 THEN <<>>
                      ELSE IF Pair(i, order) = Overrun \/ next > end + 1 THEN << <<Overrun>> >>
                      ELSE <<SubSeq(message_, i + 2, StringEnd(i, order))>> \o g[end + 1 - next]

LEMMA ReadingIs ==
  ASSUME message_ \in Seq(Nat), NEW order \in Orders, NEW extra \in Nat
  PROVE  AreRead(Reading(order, extra), order, extra)
<1> DEFINE end == Len(message_)
           At1(n) == end + 1 - n
           After(n) == StringEnd(At1(n), order) + extra + 1
           Bad(n) == Pair(At1(n), order) = Overrun \/ After(n) > end + 1
           Text(n) == SubSeq(message_, At1(n) + 2, StringEnd(At1(n), order))
           body(h) == [n \in 0..end |->
                         IF n = 0 THEN <<>>
                         ELSE IF Bad(n) THEN << <<Overrun>> >>
                         ELSE <<Text(n)>> \o h[end + 1 - After(n)]]
           g == CHOOSE reading : reading = body(reading)
           V == Seq(Nat)
           Stop == {n \in 0..end : n = 0 \/ Bad(n)}
           base == [n \in 0..end |-> IF n = 0 THEN <<>> ELSE << <<Overrun>> >>]
           x == [n \in 0..end |-> IF n \in Stop THEN <<>> ELSE Text(n)]
           r == [n \in 0..end |-> end + 1 - After(n)]
<1>1. Reading(order, extra) = g BY DEF Reading
<1>2. end \in Nat /\ \A i \in 1..end : message_[i] \in Nat
  <2>1. \A i \in 1..end : message_[i] \in Nat BY ElementOfSeq
  <2>2. QED BY <2>1
<1>3. ASSUME NEW n \in 0..end, n \notin Stop
      PROVE  /\ Text(n) \in V
             /\ end + 1 - After(n) \in Nat /\ end + 1 - After(n) < n
  <2> DEFINE i == At1(n)
             q == Pair(i, order)
  <2>1. n # 0 /\ q # Overrun /\ ~(After(n) > end + 1) BY <1>3
  <2>2. i \in 1..end /\ n = end + 1 - i BY <1>2, <2>1
  <2>3. i + 1 <= end
    <3>1. SUFFICES ASSUME i + 1 > end PROVE q = Overrun BY <1>2, <2>1, <2>2
    <3>2. QED BY <3>1 DEF Pair
  <2>4. q \in Nat
    <3>1. i + 1 \in 1..end BY <1>2, <2>2, <2>3
    <3>2. message_[i] \in Nat /\ message_[i + 1] \in Nat BY <1>2, <2>2, <3>1
    <3>3. ~(i + 1 > end) BY <1>2, <2>2, <2>3
    <3> DEFINE a == message_[i]
               b == message_[i + 1]
    <3> HIDE DEF i
    <3>4. q = IF order = "left" THEN 256 * a + b ELSE 256 * b + a BY <3>3 DEF Pair
    <3>5. a \in Nat /\ b \in Nat BY <3>2
    <3> HIDE DEF a, b, q
    <3>6. 256 * a + b \in Nat /\ 256 * b + a \in Nat BY <3>5
    <3>7. QED BY <3>4, <3>6
  <2>5. After(n) = i + 1 + q + extra + 1 /\ StringEnd(i, order) = i + 1 + q BY DEF StringEnd
  <2> DEFINE e == i + 1 + q
  <2> HIDE DEF q
  <2>6. e \in Nat /\ e <= end /\ After(n) = e + extra + 1 BY <1>2, <2>1, <2>2, <2>4, <2>5
  <2>7. \A j \in (i + 2)..e : message_[j] \in Nat BY <1>2, <2>2, <2>6
  <2>8. Text(n) \in V
    <3> DEFINE b == i + 2
    <3>1. b \in Int /\ e \in Int BY <2>2, <2>6
    <3>2. \A j \in b..e : message_[j] \in Nat BY <2>7
    <3>3. Text(n) = SubSeq(message_, b, e) BY <2>5
    <3> HIDE DEF b, e, Text
    <3>4. SubSeq(message_, b, e) \in Seq(Nat) BY <3>1, <3>2, SubSeqProperties
    <3>5. QED BY <3>3, <3>4
  <2>9. end + 1 - After(n) \in Nat /\ end + 1 - After(n) < n
    <3> DEFINE a == After(n)
    <3>1. a \in Nat /\ a <= end + 1 /\ a = e + extra + 1 /\ a > i
      BY <1>2, <2>1, <2>2, <2>4, <2>6
    <3>2. i \in Nat /\ n = end + 1 - i BY <2>2
    <3> HIDE DEF a, i, e
    <3>3. end + 1 - a \in Nat /\ end + 1 - a < n BY <1>2, <3>1, <3>2
    <3>4. QED BY <3>3 DEF a
  <2>10. QED BY <2>8, <2>9
<1>4. Linked(V, end, Stop, base, x, r)
  <2>1. base \in [0..end -> Seq(V)]
    <3>1. <<>> \in Seq(V) OBVIOUS
    <3>2. <<Overrun>> \in V BY DEF Overrun
    <3> HIDE DEF V
    <3>3. << <<Overrun>> >> \in Seq(V) BY <3>2
    <3>4. QED BY <3>1, <3>3
  <2>2. x \in [0..end -> V]
    <3>1. <<>> \in V OBVIOUS
    <3> HIDE DEF V, Stop, Text
    <3>2. QED BY <1>3, <3>1
  <2>3. \A n \in (0..end) \ Stop : r[n] \in Nat /\ r[n] < n
    <3> HIDE DEF Stop, After
    <3>1. QED BY <1>3
  <2> HIDE DEF base, x, r, Stop, V
  <2>4. QED BY <1>2, <2>1, <2>2, <2>3 DEF Linked
<1>5. ASSUME NEW f
      PROVE  IsChain(f, end, Stop, base, x, r)
               <=> \A n \in 0..end : f[n] = IF n = 0 THEN <<>>
                                            ELSE IF Bad(n) THEN << <<Overrun>> >>
                                            ELSE <<Text(n)>> \o f[end + 1 - After(n)]
  <2>1. \A n \in 0..end : /\ n \in Stop <=> (n = 0 \/ Bad(n))
                          /\ base[n] = IF n = 0 THEN <<>> ELSE << <<Overrun>> >>
                          /\ n \notin Stop => x[n] = Text(n)
                          /\ r[n] = end + 1 - After(n)
    <3> HIDE DEF Bad, Text, After
    <3>1. QED OBVIOUS
  <2> HIDE DEF base, x, r, Stop, Bad, Text, After
  <2>2. ASSUME NEW n \in 0..end
        PROVE  (IF n \in Stop THEN base[n] ELSE <<x[n]>> \o f[r[n]])
                 = (IF n = 0 THEN <<>>
                    ELSE IF Bad(n) THEN << <<Overrun>> >>
                    ELSE <<Text(n)>> \o f[end + 1 - After(n)])
    BY <2>1
  <2>3. QED BY <2>2 DEF IsChain
<1> HIDE DEF base, x, r, Stop
<1>6. PICK f \in [0..end -> Seq(V)] : IsChain(f, end, Stop, base, x, r)
  <2> HIDE DEF V
  <2>1. QED BY <1>4, ChainIsFunction, Zenon
<1>7. f = body(f)
  <2> HIDE DEF Bad, Text, After
  <2>1. f = [n \in 0..end |-> f[n]] BY <1>6
  <2>2. \A n \in 0..end : f[n] = IF n = 0 THEN <<>>
                                 ELSE IF Bad(n) THEN << <<Overrun>> >>
                                 ELSE <<Text(n)>> \o f[end + 1 - After(n)]
    BY <1>5, <1>6
  <2>3. QED BY <2>1, <2>2, Zenon
<1>8. g = body(g)
  <2> HIDE DEF Bad, Text, After
  <2>1. QED BY <1>7, Zenon
<1>9. ASSUME NEW n \in 0..end
      PROVE  g[n] = IF n = 0 THEN <<>>
                    ELSE IF Bad(n) THEN << <<Overrun>> >>
                    ELSE <<Text(n)>> \o g[end + 1 - After(n)]
  <2> HIDE DEF g, Bad, Text, After
  <2>1. QED BY <1>8, Zenon
<1> HIDE DEF g
<1>10. IsChain(g, end, Stop, base, x, r)
  <2> HIDE DEF Bad, Text, After
  <2>1. QED BY <1>5, <1>9
<1>11. \A n \in 0..end : g[n] \in Seq(V)
  <2> HIDE DEF V
  <2>1. QED BY <1>4, <1>10, ChainIsTyped
<1>12. AreRead(g, order, extra) BY <1>9, <1>11 DEF AreRead
<1>13. QED BY <1>1, <1>12

------------------------------------------------------------------------------
(* Packets that are created are framed.                                    *)
Arguments == ClientIds \cup (BOOLEAN \X (0..5)) \cup Publications \cup Identifiers
               \cup TopicLists \cup (Identifiers \X GrantLists) \cup {<<>>}

Packets == [kind : DOMAIN MqttMessageType, arguments : Arguments]

IsCreation(bytes, packet) ==
  /\ packet \in Packets /\ bytes \in Seq(Nat)
  /\ Counted(packet) => IsPacket(bytes, packet.kind, Uncounted(packet))

(* Every creation appends a packet, of the length it says if it counts.    *)
MessageInv ==
  message_ \in Seq(Nat) /\ made \in Seq(Packets) /\ Framed(message_, made, begins)

LEMMA PacketKinds ==
  /\ MqttMessageType["CONNECT"] = 16 /\ MqttMessageType["CONNACK"] = 32
  /\ MqttMessageType["PUBLISH"] = 48 /\ MqttMessageType["PUBACK"] = 64
  /\ MqttMessageType["PUBREC"] = 80 /\ MqttMessageType["PUBREL"] = 96
  /\ MqttMessageType["PUBCOMP"] = 112 /\ MqttMessageType["SUBSCRIBE"] = 128
  /\ MqttMessageType["SUBACK"] = 144 /\ MqttMessageType["UNSUBSCRIBE"] = 160
  /\ MqttMessageType["UNSUBACK"] = 176 /\ MqttMessageType["PINGREQ"] = 192
  /\ MqttMessageType["PINGRESP"] = 208 /\ MqttMessageType["DISCONNECT"] = 224
  /\ DOMAIN MqttMessageType =
       {"CONNECT", "CONNACK", "PUBLISH", "PUBACK", "PUBREC", "PUBREL", "PUBCOMP", "SUBSCRIBE",
        "SUBACK", "UNSUBSCRIBE", "UNSUBACK", "PINGREQ", "PINGRESP", "DISCONNECT"}
BY DEF MqttMessageType

LEMMA PacketIs ==
  ASSUME NEW kind \in DOMAIN MqttMessageType, NEW arguments \in Arguments
  PROVE  LET e == [kind |-> kind, arguments |-> arguments]
         IN  e \in Packets /\ e.kind = kind /\ e.arguments = arguments
BY DEF Packets

LEMMA CreatedKeeps ==
  ASSUME MessageInv, NEW kind, NEW bytes, NEW arguments,
         Create(kind, bytes, arguments),
         IsCreation(bytes, [kind |-> kind, arguments |-> arguments])
  PROVE  MessageInv'
<1> DEFINE e == [kind |-> kind, arguments |-> arguments]
<1>1. /\ message_' = message_ \o bytes /\ made' = Append(made, e)
      /\ begins' = Append(begins, Len(message_) + 1)
  BY DEF Create
<1>2. /\ e \in Packets /\ bytes \in Seq(Nat)
      /\ Counted(e) => IsPacket(bytes, e.kind, Uncounted(e))
  BY DEF IsCreation
<1> HIDE DEF e
<1>3. message_ \in Seq(Nat) /\ made \in Seq(Packets) /\ Framed(message_, made, begins)
  BY DEF MessageInv
<1>4. message_ \o bytes \in Seq(Nat) BY <1>2, <1>3, Joined
<1>5. Append(made, e) \in Seq(Packets) BY <1>2, <1>3, AppendProperties
<1>6. Framed(message_ \o bytes, Append(made, e), Append(begins, Len(message_) + 1))
  BY <1>2, <1>3, FramedGrows
<1>7. QED BY <1>1, <1>4, <1>5, <1>6 DEF MessageInv

LEMMA WordIs ==
  ASSUME NEW id \in Identifiers
  PROVE  LET w == Word(id)
         IN  /\ id \in Nat /\ w \in Seq(Nat) /\ Len(w) = 2
             /\ w[1] = id \div 256 /\ w[2] = id % 256
             /\ (id \div 256) \in Octet /\ (id % 256) \in Octet
             /\ 256 * (id \div 256) + (id % 256) = id
<1>1. \A n \in Nat : n < 65536 => /\ (n \div 256) \in Nat /\ n \div 256 < 256
                                   /\ (n % 256) \in Nat /\ n % 256 < 256
                                   /\ 256 * (n \div 256) + (n % 256) = n
  OBVIOUS
<1>2. id \in Nat /\ id < 65536 BY MessageInputsOK
<1> DEFINE x == id \div 256
           y == id % 256
<1>3. /\ id \in Nat /\ x \in Nat /\ x < 256 /\ y \in Nat /\ y < 256
      /\ 256 * x + y = id
  BY <1>1, <1>2
<1>4. Word(id) = <<x, y>> BY DEF Word
<1> HIDE DEF x, y
<1>5. <<x, y>> \in Seq(Nat) /\ Len(<<x, y>>) = 2 /\ <<x, y>>[1] = x /\ <<x, y>>[2] = y BY <1>3
<1>6. x \in Octet /\ y \in Octet BY <1>3 DEF Octet
<1>7. QED BY <1>3, <1>4, <1>5, <1>6 DEF x, y

(* Two bytes and an identifier.                                            *)
AcknowledgeBytes(fixed, length, id) == <<fixed, length>> \o Word(id)

IsAcknowledge(b, fixed, length, id) ==
  /\ b \in Seq(Nat) /\ Len(b) = 4 /\ b[1] = fixed /\ b[2] = length
  /\ b[3] = id \div 256 /\ b[4] = id % 256

LEMMA AcknowledgeIs ==
  ASSUME NEW fixed \in Nat, NEW length \in Nat, NEW id \in Identifiers
  PROVE  IsAcknowledge(AcknowledgeBytes(fixed, length, id), fixed, length, id)
<1> DEFINE o == <<fixed, length>>
           w == Word(id)
           b == o \o w
<1>1. w \in Seq(Nat) /\ Len(w) = 2 /\ w[1] = id \div 256 /\ w[2] = id % 256 BY WordIs
<1>2. o \in Seq(Nat) /\ Len(o) = 2 /\ o[1] = fixed /\ o[2] = length OBVIOUS
<1> HIDE DEF o, w
<1>3. /\ b \in Seq(Nat) /\ Len(b) = Len(o) + Len(w)
      /\ \A j \in 1..Len(o) : b[j] = o[j]
      /\ \A j \in 1..Len(w) : b[Len(o) + j] = w[j]
  <2>1. o \in Seq(Nat) /\ w \in Seq(Nat) BY <1>1, <1>2
  <2>2. QED BY <2>1, Joined
<1> HIDE DEF b
<1>4. b[1] = o[1] /\ b[2] = o[2] /\ b[2 + 1] = w[1] /\ b[2 + 2] = w[2]
  <2>1. 1 \in 1..2 /\ 2 \in 1..2 OBVIOUS
  <2>2. QED BY <1>1, <1>2, <1>3, <2>1
<1>5. Len(b) = 4 BY <1>1, <1>2, <1>3
<1>6. b[3] = w[1] /\ b[4] = w[2] BY <1>4
<1>7. b = AcknowledgeBytes(fixed, length, id) BY DEF b, o, w, AcknowledgeBytes
<1>8. IsAcknowledge(b, fixed, length, id) BY <1>1, <1>2, <1>3, <1>4, <1>5, <1>6 DEF IsAcknowledge
<1>9. QED BY <1>7, <1>8

(* A packet whose second byte is its remaining length.                     *)
LEMMA ShortCreates ==
  ASSUME NEW kind \in DOMAIN MqttMessageType, kind # "CONNECT", NEW arguments \in Arguments,
         NEW bytes \in Seq(Nat), bytes[1] - (bytes[1] % 16) = MqttMessageType[kind],
         Counted([kind |-> kind, arguments |-> arguments])
           => Len(bytes) >= 2 /\ bytes[2] < 128 /\ Len(bytes) = 2 + bytes[2]
  PROVE  IsCreation(bytes, [kind |-> kind, arguments |-> arguments])
<1> DEFINE e == [kind |-> kind, arguments |-> arguments]
<1>1. e \in Packets /\ e.kind = kind BY PacketIs
<1> HIDE DEF e
<1>2. Uncounted(e) = 0 BY <1>1 DEF Uncounted
<1>3. ASSUME Counted(e) PROVE IsPacket(bytes, kind, 0)
  <2>1. Len(bytes) >= 2 /\ bytes[2] < 128 /\ Len(bytes) = 2 + bytes[2] BY <1>3 DEF e
  <2>2. bytes[2] \in Nat
    <3>1. 2 \in 1..Len(bytes) BY <2>1
    <3>2. QED BY <3>1, ElementOfSeq
  <2>3. Len(bytes) = 2 + bytes[2] + 0 BY <2>1, <2>2
  <2>4. QED BY <2>1, <2>3, ShortPacket
<1>4. IsCreation(bytes, e) BY <1>1, <1>2, <1>3 DEF IsCreation
<1>5. QED BY <1>4 DEF e

LEMMA AcknowledgeCreates ==
  ASSUME NEW kind \in {"PUBACK", "PUBREC", "PUBCOMP", "UNSUBACK"},
         NEW id \in Identifiers, NEW fixed \in Nat, fixed = MqttMessageType[kind]
  PROVE  IsCreation(<<fixed, 2>> \o Word(id), [kind |-> kind, arguments |-> id])
<1> DEFINE two == 2
           b == AcknowledgeBytes(fixed, two, id)
<1>1. two \in Nat /\ two < 128 /\ 2 + two = 4 OBVIOUS
<1> HIDE DEF two
<1>a. IsAcknowledge(b, fixed, two, id) BY <1>1, AcknowledgeIs
<1>2. b \in Seq(Nat) /\ Len(b) = 4 /\ b[1] = fixed /\ b[2] = two BY <1>a DEF IsAcknowledge
<1>3. fixed - (fixed % 16) = MqttMessageType[kind]
  <2>1. fixed \in {64, 80, 112, 176} BY PacketKinds
  <2>2. QED BY <2>1
<1>4. kind \in DOMAIN MqttMessageType /\ kind # "CONNECT" /\ id \in Arguments
  BY PacketKinds DEF Arguments
<1>5. b = <<fixed, 2>> \o Word(id) BY DEF two, AcknowledgeBytes
<1> HIDE DEF b
<1>6. b[1] - (b[1] % 16) = MqttMessageType[kind] BY <1>2, <1>3
<1>7. Len(b) >= 2 /\ b[2] < 128 /\ Len(b) = 2 + b[2] BY <1>1, <1>2
<1>8. IsCreation(b, [kind |-> kind, arguments |-> id]) BY <1>2, <1>4, <1>6, <1>7, ShortCreates
<1>9. QED BY <1>5, <1>8

ConnectHead == <<MqttMessageType.CONNECT, 12, 0, 4, 77, 81, 84, 84, 4, 0, 0, 30>>

LEMMA ConnectCreates ==
  ASSUME NEW id \in ClientIds
  PROVE  IsCreation(ConnectHead \o <<0, Len(id) % 256>> \o id, [kind |-> "CONNECT", arguments |-> id])
<1> DEFINE o == ConnectHead
           l == <<0, Len(id) % 256>>
           h == o \o l
           b == h \o id
<1>1. id \in Seq(Nat) /\ Len(id) \in Nat
  <2>1. id \in Seq(Octet) BY MessageInputsOK
  <2>2. QED BY <2>1, OctetsAreNat
<1>2. o \in Seq(Nat) /\ Len(o) = 12 /\ o[1] = 16 /\ o[2] = 12
  <2>1. o = <<16, 12, 0, 4, 77, 81, 84, 84, 4, 0, 0, 30>> BY PacketKinds DEF ConnectHead
  <2>2. QED BY <2>1
<1>3. l \in Seq(Nat) /\ Len(l) = 2
  <2> DEFINE x == Len(id) % 256
  <2>1. x \in Nat BY <1>1
  <2> HIDE DEF x
  <2>2. QED BY <2>1
<1> HIDE DEF o, l
<1>4. h \in Seq(Nat) /\ Len(h) = 14 /\ h[1] = 16 /\ h[2] = 12
  <2>1. h \in Seq(Nat) /\ Len(h) = Len(o) + Len(l) /\ \A j \in 1..Len(o) : h[j] = o[j]
    <3>1. o \in Seq(Nat) /\ l \in Seq(Nat) BY <1>2, <1>3
    <3>2. QED BY <3>1, Joined
  <2> HIDE DEF h
  <2>2. 1 \in 1..12 /\ 2 \in 1..12 OBVIOUS
  <2>3. QED BY <1>2, <1>3, <2>1, <2>2
<1> HIDE DEF h
<1>5. b \in Seq(Nat) /\ Len(b) = 14 + Len(id) /\ b[1] = 16 /\ b[2] = 12
  <2>1. b \in Seq(Nat) /\ Len(b) = Len(h) + Len(id) /\ \A j \in 1..Len(h) : b[j] = h[j]
    <3>1. h \in Seq(Nat) /\ id \in Seq(Nat) BY <1>1, <1>4
    <3>2. QED BY <3>1, Joined
  <2> HIDE DEF b
  <2>2. 1 \in 1..14 /\ 2 \in 1..14 OBVIOUS
  <2>3. QED BY <1>4, <2>1, <2>2
<1> HIDE DEF b
<1> DEFINE kind == "CONNECT"
<1>6. kind \in DOMAIN MqttMessageType /\ id \in Arguments /\ MqttMessageType[kind] = 16
  BY PacketKinds DEF Arguments
<1>7. b[1] - (b[1] % 16) = MqttMessageType[kind] BY <1>5, <1>6
<1> DEFINE e == [kind |-> kind, arguments |-> id]
<1>8. e \in Packets /\ e.kind = kind /\ Uncounted(e) = Len(id)
  <2>1. e \in Packets /\ e.kind = kind /\ e.arguments = id BY <1>6, PacketIs
  <2> HIDE DEF e
  <2>2. QED BY <2>1 DEF Uncounted
<1> HIDE DEF kind, e
<1>9. Len(b) >= 2 /\ b[2] < 128 /\ Len(b) = 2 + b[2] + Len(id) BY <1>1, <1>5
<1>10. IsPacket(b, kind, Len(id)) BY <1>1, <1>5, <1>7, <1>9, ShortPacket
<1>11. IsCreation(b, e) BY <1>5, <1>8, <1>10 DEF IsCreation
<1>12. QED BY <1>11 DEF b, h, o, l, kind, e

LEMMA ConnackCreates ==
  ASSUME NEW present \in BOOLEAN, NEW code \in 0..5
  PROVE  IsCreation(<<MqttMessageType.CONNACK, 2, IF present THEN 1 ELSE 0, code>>,
                    [kind |-> "CONNACK", arguments |-> <<present, code>>])
<1> DEFINE x == IF present THEN 1 ELSE 0
           a == <<present, code>>
           kind == "CONNACK"
           f == MqttMessageType.CONNACK
           b == <<f, 2, x, code>>
<1>1. f \in Nat /\ f = 32 /\ x \in Nat BY PacketKinds
<1> HIDE DEF x, f
<1>2. b \in Seq(Nat) /\ Len(b) = 4 /\ b[1] = f /\ b[2] = 2 BY <1>1
<1> HIDE DEF b
<1>3. /\ kind \in DOMAIN MqttMessageType /\ kind # "CONNECT" /\ a \in Arguments
      /\ MqttMessageType[kind] = 32
  BY PacketKinds DEF Arguments
<1> HIDE DEF a, kind
<1>4. b[1] - (b[1] % 16) = MqttMessageType[kind] BY <1>1, <1>2, <1>3
<1>5. Len(b) >= 2 /\ b[2] < 128 /\ Len(b) = 2 + b[2] BY <1>2
<1>6. IsCreation(b, [kind |-> kind, arguments |-> a]) BY <1>2, <1>3, <1>4, <1>5, ShortCreates
<1>7. QED BY <1>6 DEF b, x, f, kind, a

LEMMA PlainCreates ==
  ASSUME NEW kind \in {"PINGREQ", "PINGRESP", "DISCONNECT"},
         NEW fixed, fixed = MqttMessageType[kind]
  PROVE  IsCreation(<<fixed, 0>>, [kind |-> kind, arguments |-> <<>>])
<1> DEFINE a == <<>>
           b == <<fixed, 0>>
<1>1. kind \in DOMAIN MqttMessageType /\ kind # "CONNECT" /\ a \in Arguments
  BY PacketKinds DEF Arguments
<1>2. fixed \in {192, 208, 224} BY PacketKinds
<1>3. b \in Seq(Nat) /\ Len(b) = 2 /\ b[1] = fixed /\ b[2] = 0 BY <1>2
<1> HIDE DEF a, b
<1>4. b[1] - (b[1] % 16) = MqttMessageType[kind]
  <2>1. fixed - (fixed % 16) = fixed BY <1>2
  <2>2. QED BY <1>3, <2>1
<1>5. Len(b) >= 2 /\ b[2] < 128 /\ Len(b) = 2 + b[2] BY <1>3
<1>6. IsCreation(b, [kind |-> kind, arguments |-> a]) BY <1>1, <1>3, <1>4, <1>5, ShortCreates
<1>7. QED BY <1>6 DEF a, b

(* ... and what follows the identifier.                                    *)
IsAcknowledgeAnd(b, fixed, length, id, t) ==
  /\ b \in Seq(Nat) /\ Len(b) = 4 + Len(t) /\ b[1] = fixed /\ b[2] = length
  /\ b[3] = id \div 256 /\ b[4] = id % 256
  /\ \A j \in 1..Len(t) : b[4 + j] = t[j]

LEMMA AcknowledgeAndIs ==
  ASSUME NEW fixed \in Nat, NEW length \in Nat, NEW id \in Identifiers, NEW t \in Seq(Nat)
  PROVE  IsAcknowledgeAnd(AcknowledgeBytes(fixed, length, id) \o t, fixed, length, id, t)
<1> DEFINE a == AcknowledgeBytes(fixed, length, id)
           b == a \o t
<1>1. IsAcknowledge(a, fixed, length, id) BY AcknowledgeIs
<1>2. /\ a \in Seq(Nat) /\ Len(a) = 4 /\ a[1] = fixed /\ a[2] = length
      /\ a[3] = id \div 256 /\ a[4] = id % 256
  BY <1>1 DEF IsAcknowledge
<1> HIDE DEF a
<1>3. /\ b \in Seq(Nat) /\ Len(b) = Len(a) + Len(t)
      /\ \A j \in 1..Len(a) : b[j] = a[j]
      /\ \A j \in 1..Len(t) : b[Len(a) + j] = t[j]
  <2>1. a \in Seq(Nat) BY <1>2
  <2>2. QED BY <2>1, Joined
<1> HIDE DEF b
<1>4. 1 \in 1..4 /\ 2 \in 1..4 /\ 3 \in 1..4 /\ 4 \in 1..4 OBVIOUS
<1>5. b[1] = a[1] /\ b[2] = a[2] /\ b[3] = a[3] /\ b[4] = a[4] BY <1>2, <1>3, <1>4
<1>6. IsAcknowledgeAnd(b, fixed, length, id, t) BY <1>2, <1>3, <1>5 DEF IsAcknowledgeAnd
<1>7. QED BY <1>6 DEF b, a

LEMMA PubrelCreates ==
  ASSUME NEW id \in Identifiers
  PROVE  IsCreation(<<MqttMessageType.PUBREL + 2, 4>> \o Word(id) \o <<0, 0>>,
                    [kind |-> "PUBREL", arguments |-> id])
<1> DEFINE f == MqttMessageType.PUBREL + 2
           four == 4
           t == <<0, 0>>
           b == AcknowledgeBytes(f, four, id) \o t
           kind == "PUBREL"
<1>1. f \in Nat /\ f = 98 /\ four \in Nat /\ four = 4 BY PacketKinds
<1>2. t \in Seq(Nat) /\ Len(t) = 2 OBVIOUS
<1>3. /\ kind \in DOMAIN MqttMessageType /\ kind # "CONNECT" /\ id \in Arguments
      /\ MqttMessageType[kind] = 96
  BY PacketKinds DEF Arguments
<1> HIDE DEF f, four, t, kind
<1>4. IsAcknowledgeAnd(b, f, four, id, t) BY <1>1, <1>2, AcknowledgeAndIs
<1> HIDE DEF b
<1>5. b \in Seq(Nat) /\ Len(b) = 6 /\ b[1] = 98 /\ b[2] = 4 BY <1>1, <1>2, <1>4 DEF IsAcknowledgeAnd
<1>6. b[1] - (b[1] % 16) = MqttMessageType[kind] BY <1>3, <1>5
<1>7. Len(b) >= 2 /\ b[2] < 128 /\ Len(b) = 2 + b[2] BY <1>5
<1>8. IsCreation(b, [kind |-> kind, arguments |-> id]) BY <1>3, <1>5, <1>6, <1>7, ShortCreates
<1>9. QED BY <1>8 DEF b, f, four, t, kind, AcknowledgeBytes

LEMMA SubackCreates ==
  ASSUME NEW id \in Identifiers, NEW granted \in GrantLists
  PROVE  IsCreation(<<MqttMessageType.SUBACK, (2 + Len(granted)) % 256>> \o Word(id) \o granted,
                    [kind |-> "SUBACK", arguments |-> <<id, granted>>])
<1> DEFINE f == MqttMessageType.SUBACK
           k == Len(granted)
           l == (2 + k) % 256
           b == AcknowledgeBytes(f, l, id) \o granted
           kind == "SUBACK"
           a == <<id, granted>>
<1>1. f \in Nat /\ f = 144 BY PacketKinds
<1>2. granted \in Seq(Nat) /\ k \in Nat
  <2>1. granted \in Seq(Octet) BY MessageInputsOK
  <2>2. QED BY <2>1, OctetsAreNat
<1>3. /\ kind \in DOMAIN MqttMessageType /\ kind # "CONNECT" /\ a \in Arguments
      /\ MqttMessageType[kind] = 144
  BY PacketKinds DEF Arguments
<1>4. Counted([kind |-> kind, arguments |-> a]) => k < 126
  <2>1. a[2] = granted OBVIOUS
  <2> HIDE DEF a
  <2>2. QED BY <2>1 DEF Counted
<1> HIDE DEF f, k, kind, a
<1>5. l \in Nat /\ (k < 126 => l = 2 + k) BY <1>2
<1> HIDE DEF l
<1>6. IsAcknowledgeAnd(b, f, l, id, granted) BY <1>1, <1>2, <1>5, AcknowledgeAndIs
<1> HIDE DEF b
<1>7. b \in Seq(Nat) /\ Len(b) = 4 + k /\ b[1] = 144 /\ b[2] = l
  BY <1>1, <1>6 DEF IsAcknowledgeAnd, k
<1>8. b[1] - (b[1] % 16) = MqttMessageType[kind] BY <1>3, <1>7
<1>9. k < 126 => Len(b) >= 2 /\ b[2] < 128 /\ Len(b) = 2 + b[2] BY <1>2, <1>5, <1>7
<1>10. IsCreation(b, [kind |-> kind, arguments |-> a])
  BY <1>3, <1>4, <1>7, <1>8, <1>9, ShortCreates
<1>11. QED BY <1>10 DEF b, f, l, k, kind, a, AcknowledgeBytes

LEMMA PublishCreates ==
  ASSUME NEW p \in Publications, NEW retain \in BOOLEAN, NEW qos \in 0..2
  PROVE  LET fixed == MqttMessageType.PUBLISH + (IF retain THEN 1 ELSE 0) + 2 * qos
             id    == IF qos > 0 THEN <<0, 1>> ELSE <<>>
         IN  IsCreation(<<fixed>> \o RemainingLength(Len(p.topic) + Len(p.payload) + Len(id))
                          \o (p.topic \o id \o p.payload),
                        [kind |-> "PUBLISH", arguments |-> p])
<1> DEFINE fixed == MqttMessageType.PUBLISH + (IF retain THEN 1 ELSE 0) + 2 * qos
           id == IF qos > 0 THEN <<0, 1>> ELSE <<>>
           t == p.topic
           c == p.payload
           n == Len(t) + Len(c) + Len(id)
           h == t \o id
           rest == h \o c
           b == <<fixed>> \o RemainingLength(n) \o rest
           kind == "PUBLISH"
<1>1. kind \in DOMAIN MqttMessageType /\ p \in Arguments /\ MqttMessageType[kind] = 48
  BY PacketKinds DEF Arguments
<1>2. fixed \in Nat /\ fixed - (fixed % 16) = 48
  <2>1. fixed \in 48..53 BY PacketKinds
  <2> HIDE DEF fixed
  <2>2. QED BY <2>1
<1>3. t \in Seq(Nat) /\ c \in Seq(Nat) /\ Len(t) \in Nat /\ Len(c) \in Nat
  <2>1. t \in Seq(Octet) /\ c \in Seq(Octet) BY MessageInputsOK
  <2>2. QED BY <2>1, OctetsAreNat
<1>4. id \in Seq(Nat) /\ Len(id) \in Nat OBVIOUS
<1> HIDE DEF id, t, c, fixed, kind
<1>5. h \in Seq(Nat) /\ Len(h) = Len(t) + Len(id) BY <1>3, <1>4, Joined
<1> HIDE DEF h
<1>6. rest \in Seq(Nat) /\ Len(rest) = Len(h) + Len(c) BY <1>3, <1>5, Joined
<1> HIDE DEF rest
<1>7. n \in Nat /\ Len(rest) = n BY <1>3, <1>4, <1>5, <1>6
<1> HIDE DEF n
<1>8. fixed - (fixed % 16) = MqttMessageType[kind] BY <1>1, <1>2
<1>9. IsPacket(b, kind, 0) BY <1>2, <1>6, <1>7, <1>8, WrittenPacket
<1>a. kind # "CONNECT" BY DEF kind
<1> HIDE DEF b
<1> DEFINE e == [kind |-> kind, arguments |-> p]
<1>10. e \in Packets /\ e.kind = kind BY <1>1, PacketIs
<1> HIDE DEF e
<1>11. b \in Seq(Nat) BY <1>9 DEF IsPacket
<1>b. Uncounted(e) = 0 BY <1>a, <1>10 DEF Uncounted
<1>12. IsCreation(b, e) BY <1>9, <1>10, <1>11, <1>b DEF IsCreation
<1>13. QED BY <1>12 DEF b, fixed, id, t, c, n, h, rest, kind, e

LEMMA ListCreates ==
  ASSUME NEW topics \in TopicLists, NEW extra \in Seq(Octet), NEW fixed \in Nat,
         NEW kind \in {"SUBSCRIBE", "UNSUBSCRIBE"}, fixed = MqttMessageType[kind] + 2
  PROVE  IsCreation(ListPacket(fixed, topics, extra), [kind |-> kind, arguments |-> topics])
<1> DEFINE b == ListPacket(fixed, topics, extra)
           e == [kind |-> kind, arguments |-> topics]
<1>1. kind \in DOMAIN MqttMessageType /\ topics \in Arguments BY PacketKinds DEF Arguments
<1>2. e \in Packets /\ e.kind = kind BY <1>1, PacketIs
<1>3. topics \in TopicSeqs BY MessageInputsOK DEF TopicSeqs
<1>4. fixed - (fixed % 16) = MqttMessageType[kind]
  <2>1. MqttMessageType[kind] \in {128, 160} BY PacketKinds
  <2>2. QED BY <2>1
<1>5. IsPacket(b, kind, 0) BY <1>3, <1>4, ListIsPacket
<1> HIDE DEF b, e
<1>6. b \in Seq(Nat) BY <1>5 DEF IsPacket
<1>7. Uncounted(e) = 0 BY <1>2 DEF Uncounted
<1>8. IsCreation(b, e) BY <1>2, <1>5, <1>6, <1>7 DEF IsCreation
<1>9. QED BY <1>8 DEF b, e

LEMMA MessageInvInit == MessageInit => MessageInv
<1>1. SUFFICES ASSUME MessageInit PROVE MessageInv OBVIOUS
<1>2. message_ = <<>> /\ made = <<>> /\ begins = <<>> BY <1>1 DEF MessageInit
<1>3. message_ \in Seq(Nat) /\ made \in Seq(Packets) BY <1>2
<1>4. Framed(message_, made, begins) BY <1>2 DEF Framed
<1>5. QED BY <1>3, <1>4 DEF MessageInv

LEMMA MessageInvNext == MessageInv /\ [MessageNext]_messageVars => MessageInv'
<1>1. SUFFICES ASSUME MessageInv, [MessageNext]_messageVars PROVE MessageInv' OBVIOUS
<1>2. ASSUME NEW kind, NEW bytes, NEW arguments, CreatePlain(kind, bytes, arguments),
             IsCreation(bytes, [kind |-> kind, arguments |-> arguments])
      PROVE  MessageInv'
  BY <1>1, <1>2, CreatedKeeps DEF CreatePlain
<1>3. CASE createConnect BY <1>2, <1>3, ConnectCreates DEF createConnect, ConnectHead
<1>4. CASE createMqttConnackMessage BY <1>2, <1>4, ConnackCreates DEF createMqttConnackMessage
<1>5. CASE createMqttPublishMessage
  <2>1. PICK p \in Publications, retain \in BOOLEAN, qos \in 0..2 :
          LET fixed == MqttMessageType.PUBLISH + (IF retain THEN 1 ELSE 0) + 2 * qos
              id    == IF qos > 0 THEN <<0, 1>> ELSE <<>>
          IN  Create("PUBLISH",
                <<fixed>> \o RemainingLength(Len(p.topic) + Len(p.payload) + Len(id))
                  \o (p.topic \o id \o p.payload), p)
    BY <1>5 DEF createMqttPublishMessage
  <2>2. QED BY <1>1, <2>1, PublishCreates, CreatedKeeps, Zenon
<1>6. ASSUME NEW kind \in {"PUBACK", "PUBREC", "PUBCOMP", "UNSUBACK"},
             Acknowledge(kind, MqttMessageType[kind])
      PROVE  MessageInv'
  <2>1. PICK id \in Identifiers : CreatePlain(kind, <<MqttMessageType[kind], 2>> \o Word(id), id)
    BY <1>6 DEF Acknowledge
  <2>2. MqttMessageType[kind] \in Nat BY PacketKinds
  <2>3. QED BY <1>2, <2>1, <2>2, AcknowledgeCreates
<1>7. CASE createMqttPubackMessage BY <1>6, <1>7 DEF createMqttPubackMessage
<1>8. CASE createMqttPubrecMessage BY <1>6, <1>8 DEF createMqttPubrecMessage
<1>9. CASE createMqttPubcompMessage BY <1>6, <1>9 DEF createMqttPubcompMessage
<1>10. CASE createMqttUnsubackMessage BY <1>6, <1>10 DEF createMqttUnsubackMessage
<1>11. CASE createMqttPubrelMessage BY <1>2, <1>11, PubrelCreates DEF createMqttPubrelMessage
<1>12. CASE createMqttSubackMessage BY <1>2, <1>12, SubackCreates DEF createMqttSubackMessage
<1>13. ASSUME NEW kind \in {"SUBSCRIBE", "UNSUBSCRIBE"}, NEW topics \in TopicLists,
              NEW extra \in Seq(Octet),
              CreatePlain(kind, ListPacket(MqttMessageType[kind] + 2, topics, extra), topics)
       PROVE  MessageInv'
  <2>1. MqttMessageType[kind] + 2 \in Nat BY PacketKinds
  <2>2. QED BY <1>2, <1>13, <2>1, ListCreates
<1>14. <<0>> \in Seq(Octet) /\ <<>> \in Seq(Octet)
  <2>1. 0 \in Octet BY DEF Octet
  <2>2. QED BY <2>1
<1>15. CASE createMqttSubscribeMessage BY <1>13, <1>14, <1>15 DEF createMqttSubscribeMessage
<1>16. CASE createMqttUnsubscribeMessage BY <1>13, <1>14, <1>16 DEF createMqttUnsubscribeMessage
<1>17. ASSUME NEW kind \in {"PINGREQ", "PINGRESP", "DISCONNECT"},
              CreatePlain(kind, <<MqttMessageType[kind], 0>>, <<>>)
       PROVE  MessageInv'
  BY <1>2, <1>17, PlainCreates
<1>18. CASE createMqttPingreqMessage BY <1>17, <1>18 DEF createMqttPingreqMessage
<1>19. CASE createMqttPingrespMessage BY <1>17, <1>19 DEF createMqttPingrespMessage
<1>20. CASE createMqttDisconnectMessage BY <1>17, <1>20 DEF createMqttDisconnectMessage
<1>21. ASSUME UNCHANGED <<message_, made, begins>> PROVE MessageInv'
  BY <1>1, <1>21 DEF MessageInv
<1>22. ASSUME NEW kind, NEW order, NEW result, Parse(kind, order, result) PROVE MessageInv'
  BY <1>21, <1>22 DEF Parse
<1>23. ASSUME NEW kind, ParseIdentifier(kind) PROVE MessageInv' BY <1>22, <1>23 DEF ParseIdentifier
<1>24. CASE ParseConnect BY <1>22, <1>24 DEF ParseConnect
<1>25. CASE ParseConnack BY <1>22, <1>25 DEF ParseConnack
<1>26. CASE ParsePublish BY <1>22, <1>26 DEF ParsePublish
<1>27. CASE ParsePuback \/ ParsePubrec \/ ParsePubrel \/ ParsePubcomp \/ ParseUnsuback
  BY <1>23, <1>27 DEF ParsePuback, ParsePubrec, ParsePubrel, ParsePubcomp, ParseUnsuback
<1>28. CASE ParseSubscribe \/ ParseUnsubscribe BY <1>22, <1>28 DEF ParseSubscribe, ParseUnsubscribe
<1>29. CASE ParseSuback BY <1>22, <1>29 DEF ParseSuback
<1>30. CASE ParsePingreq \/ ParsePingresp \/ ParseDisconnect
  BY <1>22, <1>30 DEF ParsePingreq, ParsePingresp, ParseDisconnect
<1>31. CASE UNCHANGED messageVars BY <1>21, <1>31 DEF messageVars
<1>32. QED
  BY <1>1, <1>3, <1>4, <1>5, <1>7, <1>8, <1>9, <1>10, <1>11, <1>12, <1>15, <1>16, <1>18, <1>19,
     <1>20, <1>24, <1>25, <1>26, <1>27, <1>28, <1>29, <1>30, <1>31 DEF MessageNext

(* What a receiver finds are the places where the packets begin.           *)
LEMMA PacketFollows ==
  ASSUME NEW m, NEW a, NEW b, NEW kind, PacketAt(m, a, b, kind)
  PROVE  /\ AfterLength(m, a + 1) + LengthFrom(m, a + 1) = b
         /\ a \in 1..Len(m) /\ m[a] - (m[a] % 16) = MqttMessageType[kind]
<1>1. PICK d, n : n \in Nat /\ HasLength(m, a, d, n, kind) /\ b = a + 1 + Len(d) + n BY DEF PacketAt
<1>2. a \in Nat \ {0} BY DEF PacketAt
<1>3. d \in Seq(Octet) /\ IsLength(d, n) /\ Lies(d, m, a + 1) /\ m[a] - (m[a] % 16) = MqttMessageType[kind]
  BY <1>1 DEF HasLength
<1> DEFINE i == a + 1
<1>4. Lies(d, m, i) BY <1>3
<1> HIDE DEF i
<1>5. AfterLength(m, i) = i + Len(d) /\ LengthFrom(m, i) = n BY <1>3, <1>4, LengthIsRead
<1>6. Len(d) \in Nat BY <1>3
<1> DEFINE l == Len(d)
           x == AfterLength(m, i)
           y == LengthFrom(m, i)
<1>7. x = i + l /\ y = n /\ l \in Nat /\ n \in Nat /\ i = a + 1 /\ b = a + 1 + l + n
  BY <1>1, <1>5, <1>6 DEF i
<1> HIDE DEF l, x, y
<1>8. x + y = b BY <1>2, <1>7
<1>9. AfterLength(m, a + 1) + LengthFrom(m, a + 1) = b BY <1>8 DEF x, y, i
<1>10. a + 1 + Len(d) - 1 <= Len(m) /\ m \in Seq(Nat) BY <1>3 DEF Lies
<1>11. a \in 1..Len(m) BY <1>2, <1>6, <1>10
<1>12. QED BY <1>3, <1>9, <1>11

(* Whatever is created on one object, in whatever order, for any           *)
(* identifiers, client ids, topics and payloads: every packet but a SUBACK *)
(* of 126 grants or more begins with its type, and its remaining length    *)
(* leads to the next one or to the end, short by the client id of a        *)
(* CONNECT and by nothing else.                                            *)
THEOREM PacketsAreAlwaysFramed ==
  MessageInit /\ [][MessageNext]_messageVars => []PacketsAreFramed
<1>1. ASSUME MessageInv PROVE PacketsAreFramed
  <2>1. /\ message_ \in Seq(Nat) /\ made \in Seq(Packets) /\ begins \in Seq(Nat)
        /\ \A i \in 1..Len(made) :
             Counted(made[i]) => FramedIn(message_, begins, Len(made), i, made[i])
    BY <1>1 DEF MessageInv, Framed
  <2>2. DOMAIN made = 1..Len(made) BY <2>1
  <2>3. SUFFICES ASSUME NEW i \in DOMAIN made, Counted(made[i])
                 PROVE  LET at == begins[i]
                        IN  /\ message_[at] - (message_[at] % 16) = MqttMessageType[made[i].kind]
                            /\ LedTo(at) + Uncounted(made[i]) = NextBegin(i)
    BY Zenon DEF PacketsAreFramed
  <2> DEFINE at == begins[i]
             z == NextIn(message_, begins, Len(made), i)
             u == Uncounted(made[i])
  <2>4. u \in Nat /\ PacketAt(message_, at, z - u, made[i].kind) BY <2>1, <2>2, <2>3 DEF FramedIn
  <2>5. /\ AfterLength(message_, at + 1) + LengthFrom(message_, at + 1) = z - u
        /\ message_[at] - (message_[at] % 16) = MqttMessageType[made[i].kind]
    BY <2>4, PacketFollows
  <2>6. z = NextBegin(i) BY DEF NextIn, NextBegin
  <2>7. z \in Nat
    <3>1. Len(message_) + 1 \in Nat BY <2>1
    <3>2. i < Len(made) => i + 1 \in 1..Len(begins)
      <4>1. Len(begins) = Len(made) BY <1>1 DEF MessageInv, Framed
      <4>2. QED BY <2>1, <2>2, <4>1
    <3>3. i < Len(made) => begins[i + 1] \in Nat BY <2>1, <3>2, ElementOfSeq
    <3>4. QED BY <3>1, <3>3 DEF NextIn
  <2>8. LedTo(at) = z - u BY <2>5 DEF LedTo
  <2> HIDE DEF z, u
  <2>9. LedTo(at) + u = z BY <2>4, <2>7, <2>8
  <2>10. QED BY <2>5, <2>6, <2>9 DEF u
<1>2. QED BY <1>1, MessageInvInit, MessageInvNext, PTL

------------------------------------------------------------------------------
(* Lists of topics, read back.                                             *)
LEMMA AppendJoin ==
  ASSUME NEW V, NEW s \in Seq(V), NEW t \in V, NEW z \in Seq(V)
  PROVE  Append(s, t) \o z = s \o (<<t>> \o z)
<1> DEFINE o == <<t>>
           k == Len(s)
           l == Len(z)
           p == Append(s, t)
           q == o \o z
           x == p \o z
           y == s \o q
<1>1. o \in Seq(V) /\ Len(o) = 1 /\ o[1] = t OBVIOUS
<1>2. k \in Nat /\ l \in Nat OBVIOUS
<1>3. p \in Seq(V) /\ Len(p) = k + 1 /\ p[k + 1] = t /\ \A j \in 1..k : p[j] = s[j]
  <2>1. p \in Seq(V) BY AppendProperties
  <2>2. Len(p) = k + 1 BY AppendProperties
  <2>3. p[k + 1] = t BY AppendProperties
  <2>4. \A j \in 1..k : p[j] = s[j] BY AppendProperties
  <2>5. QED BY <2>1, <2>2, <2>3, <2>4
<1> HIDE DEF o, p
<1>4. q \in Seq(V) /\ Len(q) = 1 + l /\ q[1] = t /\ \A j \in 1..l : q[1 + j] = z[j]
  <2>1. /\ q \in Seq(V) /\ Len(q) = Len(o) + Len(z)
        /\ \A j \in 1..Len(o) : q[j] = o[j]
        /\ \A j \in 1..Len(z) : q[Len(o) + j] = z[j]
    <3>1. o \in Seq(V) BY <1>1
    <3>2. QED BY <3>1, Joined
  <2> HIDE DEF q
  <2>2. QED BY <1>1, <2>1
<1> HIDE DEF q
<1>5. /\ x \in Seq(V) /\ Len(x) = k + 1 + l
      /\ \A j \in 1..(k + 1) : x[j] = p[j]
      /\ \A j \in 1..l : x[k + 1 + j] = z[j]
  <2>1. /\ x \in Seq(V) /\ Len(x) = Len(p) + Len(z)
        /\ \A j \in 1..Len(p) : x[j] = p[j]
        /\ \A j \in 1..Len(z) : x[Len(p) + j] = z[j]
    <3>1. p \in Seq(V) BY <1>3
    <3>2. QED BY <3>1, Joined
  <2> HIDE DEF x
  <2>2. QED BY <1>3, <2>1
<1>6. /\ y \in Seq(V) /\ Len(y) = k + (1 + l)
      /\ \A j \in 1..k : y[j] = s[j]
      /\ \A j \in 1..(1 + l) : y[k + j] = q[j]
  <2>1. /\ y \in Seq(V) /\ Len(y) = Len(s) + Len(q)
        /\ \A j \in 1..Len(s) : y[j] = s[j]
        /\ \A j \in 1..Len(q) : y[Len(s) + j] = q[j]
    <3>1. q \in Seq(V) BY <1>4
    <3>2. QED BY <3>1, Joined
  <2> HIDE DEF y
  <2>2. QED BY <1>4, <2>1
<1> HIDE DEF x, y, k, l
<1>7. ASSUME NEW i \in 1..(k + 1 + l) PROVE x[i] = y[i]
  <2>1. CASE i <= k
    <3>1. i \in 1..k /\ i \in 1..(k + 1) BY <1>2, <2>1
    <3>2. QED BY <1>3, <1>5, <1>6, <3>1
  <2>2. CASE i = k + 1
    <3>1. k + 1 \in 1..(k + 1) /\ 1 \in 1..(1 + l) BY <1>2
    <3>2. x[k + 1] = t BY <1>3, <1>5, <3>1
    <3>3. y[k + 1] = t BY <1>4, <1>6, <3>1
    <3>4. QED BY <2>2, <3>2, <3>3
  <2>3. CASE i > k + 1
    <3> DEFINE j == i - (k + 1)
    <3>1. j \in 1..l /\ k + 1 + j = i /\ 1 + j \in 1..(1 + l) /\ k + (1 + j) = i BY <1>2, <2>3
    <3> HIDE DEF j
    <3>2. x[i] = z[j] BY <1>5, <3>1
    <3>3. y[i] = q[1 + j] BY <1>6, <3>1
    <3>4. QED BY <1>4, <3>1, <3>2, <3>3
  <2>4. QED BY <1>2, <2>1, <2>2, <2>3
<1>8. Len(x) = Len(y) BY <1>2, <1>5, <1>6
<1>9. x = y
  <2>1. \A i \in 1..Len(x) : x[i] = y[i] BY <1>5, <1>7
  <2>2. QED BY <1>5, <1>6, <1>8, <2>1, SeqEqual
<1>10. QED BY <1>9 DEF x, y, p, q, o

LEMMA ListsAreNat ==
  ASSUME NEW s \in Seq(Seq(Octet))
  PROVE  s \in Seq(Seq(Nat))
<1> DEFINE V == Seq(Octet)
           W == Seq(Nat)
<1>1. \A t \in V : t \in W BY OctetsAreNat
<1>2. s \in Seq(V) OBVIOUS
<1> HIDE DEF V, W
<1>3. ASSUME NEW i \in 1..Len(s) PROVE s[i] \in W
  <2>1. s[i] \in V BY <1>2, ElementOfSeq
  <2>2. QED BY <1>1, <2>1
<1>4. s = [i \in 1..Len(s) |-> s[i]] /\ Len(s) \in Nat BY <1>2
<1>5. s \in Seq(W) BY <1>3, <1>4
<1>6. QED BY <1>5 DEF W

(* A list of topics whose bytes end the message.                           *)
Placed(b, topics, extra) ==
  LET a == Adding(topics, extra)[TopicsToAdd(topics)]
  IN  /\ message_ \in Seq(Nat) /\ b \in Nat /\ b = Body
      /\ Len(message_) = b + 1 + Len(a) /\ message_[b] = 0 /\ message_[b + 1] = 1
      /\ \A j \in 1..Len(a) : message_[b + 1 + j] = a[j]

LEMMA ListIsPlaced ==
  ASSUME NEW topics \in TopicSeqs, NEW extra \in Seq(Octet), NEW fixed \in Nat,
         message_ = ListPacket(fixed, topics, extra)
  PROVE  \E b : Placed(b, topics, extra)
<1> DEFINE N == TopicsToAdd(topics)
           a == Adding(topics, extra)[N]
           n == Counting(topics, extra)[N]
           f == <<fixed>>
           d == RemainingLength(n)
           h == f \o d
           o == <<0, 1>>
           rest == o \o a
           m == h \o rest
           l == Len(d)
           k == Len(a)
           b == 2 + l
<1>1. a \in Seq(Octet) /\ n \in Nat /\ n = 2 + Len(a) BY CountsBytes
<1>2. message_ = m BY DEF ListPacket
<1> HIDE DEF a, n
<1>3. IsLength(d, n) BY <1>1, LengthIsWritten
<1> HIDE DEF d
<1>4. d \in Seq(Nat) /\ l \in Nat
  <2>1. d \in Seq(Octet) BY <1>3 DEF IsLength, AreDigits
  <2>2. QED BY <2>1, OctetsAreNat
<1>5. a \in Seq(Nat) /\ k \in Nat BY <1>1, OctetsAreNat
<1>6. f \in Seq(Nat) /\ Len(f) = 1 OBVIOUS
<1>7. o \in Seq(Nat) /\ Len(o) = 2 /\ o[1] = 0 /\ o[2] = 1 OBVIOUS
<1> HIDE DEF f, o
<1>8. h \in Seq(Nat) /\ Len(h) = 1 + l /\ \A j \in 1..l : h[1 + j] = d[j]
  <2>1. /\ h \in Seq(Nat) /\ Len(h) = Len(f) + Len(d)
        /\ \A j \in 1..Len(d) : h[Len(f) + j] = d[j]
    <3>1. f \in Seq(Nat) /\ d \in Seq(Nat) BY <1>4, <1>6
    <3>2. QED BY <3>1, Joined
  <2> HIDE DEF h
  <2>2. QED BY <1>6, <2>1
<1> HIDE DEF h
<1>9. /\ rest \in Seq(Nat) /\ Len(rest) = 2 + k /\ rest[1] = 0 /\ rest[2] = 1
      /\ \A j \in 1..k : rest[2 + j] = a[j]
  <2>1. /\ rest \in Seq(Nat) /\ Len(rest) = Len(o) + Len(a)
        /\ \A j \in 1..Len(o) : rest[j] = o[j]
        /\ \A j \in 1..Len(a) : rest[Len(o) + j] = a[j]
    <3>1. o \in Seq(Nat) /\ a \in Seq(Nat) BY <1>5, <1>7
    <3>2. QED BY <3>1, Joined
  <2> HIDE DEF rest
  <2>2. 1 \in 1..2 /\ 2 \in 1..2 OBVIOUS
  <2>3. QED BY <1>7, <2>1, <2>2
<1> HIDE DEF rest
<1>10. /\ m \in Seq(Nat) /\ Len(m) = 1 + l + (2 + k)
       /\ \A j \in 1..(1 + l) : m[j] = h[j]
       /\ \A j \in 1..(2 + k) : m[1 + l + j] = rest[j]
  <2>1. /\ m \in Seq(Nat) /\ Len(m) = Len(h) + Len(rest)
        /\ \A j \in 1..Len(h) : m[j] = h[j]
        /\ \A j \in 1..Len(rest) : m[Len(h) + j] = rest[j]
    <3>1. h \in Seq(Nat) /\ rest \in Seq(Nat) BY <1>8, <1>9
    <3>2. QED BY <3>1, Joined
  <2> HIDE DEF m
  <2>2. QED BY <1>8, <1>9, <2>1
<1> HIDE DEF m
<1> DEFINE two == 2
<1>11. Lies(d, m, two)
  <2>1. ASSUME NEW j \in 1..l PROVE m[2 + j - 1] = d[j]
    <3>1. 1 + j \in 1..(1 + l) /\ 2 + j - 1 = 1 + j BY <1>4
    <3>2. m[1 + j] = h[1 + j] BY <1>10, <3>1
    <3>3. QED BY <1>8, <3>1, <3>2
  <2>2. 2 \in Nat \ {0} /\ 2 + l - 1 <= Len(m) BY <1>4, <1>5, <1>10
  <2>3. QED BY <1>10, <2>1, <2>2 DEF Lies
<1> HIDE DEF two
<1>12. AfterLength(m, two) = two + Len(d) BY <1>3, <1>11, LengthIsRead
<1>13. b = Body BY <1>2, <1>12 DEF two, Body
<1> HIDE DEF l, k
<1>14. b \in Nat /\ Len(m) = b + 1 + k BY <1>4, <1>5, <1>10
<1>15. m[b] = 0 /\ m[b + 1] = 1
  <2>1. 1 \in 1..(2 + k) /\ 2 \in 1..(2 + k) /\ 1 + l + 1 = b /\ 1 + l + 2 = b + 1 BY <1>4, <1>5
  <2>2. m[1 + l + 1] = rest[1] /\ m[1 + l + 2] = rest[2] BY <1>10, <2>1
  <2> HIDE DEF b
  <2>3. QED BY <1>9, <2>1, <2>2
<1>16. ASSUME NEW j \in 1..k PROVE m[b + 1 + j] = a[j]
  <2>1. 2 + j \in 1..(2 + k) /\ 1 + l + (2 + j) = b + 1 + j BY <1>4, <1>5
  <2>2. m[1 + l + (2 + j)] = rest[2 + j] BY <1>10, <2>1
  <2> HIDE DEF b
  <2>3. QED BY <1>9, <2>1, <2>2
<1> HIDE DEF b
<1>17. Placed(b, topics, extra)
  <2>1. m \in Seq(Nat) /\ b \in Nat /\ b = Body BY <1>10, <1>13, <1>14
  <2>2. Len(m) = b + 1 + Len(a) BY <1>14 DEF k
  <2>3. \A j \in 1..Len(a) : m[b + 1 + j] = a[j] BY <1>16 DEF k
  <2>4. m = message_ BY <1>2
  <2>5. QED BY <1>15, <2>1, <2>2, <2>3, <2>4 DEF Placed, a, N
<1>18. QED BY <1>17

(* The string at the place where a piece of the list lies.                 *)
LEMMA PieceIsRead ==
  ASSUME NEW i \in Nat \ {0}, NEW extra \in Seq(Octet), NEW t \in Seq(Octet), ~Skipped(t),
         message_ \in Seq(Nat), i + Len(Piece(t, extra)) <= Len(message_) + 1,
         \A j \in 1..Len(Piece(t, extra)) : message_[i - 1 + j] = Piece(t, extra)[j]
  PROVE  /\ Pair(i, "left") # Overrun
         /\ StringEnd(i, "left") + Len(extra) + 1 = i + Len(Piece(t, extra))
         /\ SubSeq(message_, i + 2, StringEnd(i, "left")) = t
<1> DEFINE p == Piece(t, extra)
           lt == Len(t)
           le == Len(extra)
           lp == Len(p)
           lm == Len(message_)
<1>1. /\ p \in Seq(Octet) /\ lt \in Nat /\ le \in Nat /\ lp = 2 + lt + le
      /\ p[1] = 0 /\ p[2] = lt /\ \A j \in 1..lt : p[2 + j] = t[j]
  BY PieceIs
<1>2. lt <= 255
  <2>1. MaxStringLength \in Nat /\ MaxStringLength <= 255 BY MessageInputsOK
  <2>2. ~(lt > MaxStringLength) BY DEF Skipped
  <2> HIDE DEF lt
  <2>3. QED BY <1>1, <2>1, <2>2
<1>3. i + lp <= lm + 1 /\ \A j \in 1..lp : message_[i - 1 + j] = p[j] OBVIOUS
<1>4. lm \in Nat OBVIOUS
<1> HIDE DEF p, lp
<1>5. message_[i] = 0 /\ message_[i + 1] = lt /\ i + 1 <= lm
  <2>1. 1 \in 1..lp /\ 2 \in 1..lp /\ i - 1 + 1 = i /\ i - 1 + 2 = i + 1 BY <1>1
  <2>2. message_[i - 1 + 1] = p[1] /\ message_[i - 1 + 2] = p[2] BY <1>3, <2>1
  <2> HIDE DEF lt, le, lm
  <2>3. i + 1 <= lm BY <1>1, <1>3, <1>4
  <2>4. QED BY <1>1, <2>1, <2>2, <2>3
<1> HIDE DEF lm
<1>6. Pair(i, "left") = lt
  <2>1. ~(i + 1 > lm) BY <1>4, <1>5
  <2>2. Pair(i, "left") = 256 * message_[i] + message_[i + 1] BY <2>1 DEF Pair, lm
  <2> HIDE DEF lt
  <2>3. 256 * 0 + lt = lt BY <1>1
  <2>4. QED BY <1>5, <2>2, <2>3
<1> HIDE DEF lt, le
<1>7. Pair(i, "left") # Overrun BY <1>1, <1>2, <1>6 DEF Overrun
<1>8. StringEnd(i, "left") = i + 1 + lt BY <1>6 DEF StringEnd
<1>9. StringEnd(i, "left") + le + 1 = i + lp BY <1>1, <1>8
<1> DEFINE e == i + 1 + lt
           x == SubSeq(message_, i + 2, e)
<1>10. \A j \in (i + 2)..e : message_[j] \in Nat
  <2>1. \A j \in 1..lm : message_[j] \in Nat BY ElementOfSeq DEF lm
  <2>2. ASSUME NEW j \in (i + 2)..e PROVE j \in 1..lm BY <1>1, <1>3, <1>4
  <2>3. QED BY <2>1, <2>2
<1>11. x \in Seq(Nat) /\ Len(x) = lt /\ \A j \in 1..lt : x[j] = message_[i + 1 + j]
  <2> DEFINE a == i + 2
  <2>1. a \in Int /\ e \in Int /\ a <= e + 1 /\ e - a + 1 = lt /\ \A j \in a..e : message_[j] \in Nat BY <1>1, <1>10
  <2>2. x = SubSeq(message_, a, e) OBVIOUS
  <2> HIDE DEF a, e, x
  <2>3. SubSeq(message_, a, e) \in Seq(Nat) BY <2>1, SubSeqProperties
  <2>4. Len(SubSeq(message_, a, e)) = IF a <= e THEN e - a + 1 ELSE 0 BY <2>1, SubSeqProperties
  <2>5. Len(x) = lt BY <1>1, <2>1, <2>2, <2>4
  <2>6. \A j \in 1..(e - a + 1) : SubSeq(message_, a, e)[j] = message_[a + j - 1]
    BY <2>1, SubSeqProperties
  <2>7. ASSUME NEW j \in 1..lt PROVE x[j] = message_[i + 1 + j]
    <3>1. x[j] = message_[a + j - 1] BY <2>1, <2>2, <2>6
    <3>2. a + j - 1 = i + 1 + j BY <1>1 DEF a
    <3>3. QED BY <3>1, <3>2
  <2>8. QED BY <2>2, <2>3, <2>5, <2>7
<1> HIDE DEF x
<1>12. ASSUME NEW j \in 1..lt PROVE x[j] = t[j]
  <2>1. 2 + j \in 1..lp /\ i - 1 + (2 + j) = i + 1 + j BY <1>1
  <2>2. message_[i - 1 + (2 + j)] = p[2 + j] BY <1>3, <2>1
  <2>3. QED BY <1>1, <1>11, <2>1, <2>2
<1>13. x = t
  <2>1. t \in Seq(Nat) BY OctetsAreNat
  <2>2. Len(t) = lt BY DEF lt
  <2>3. \A j \in 1..Len(x) : x[j] = t[j] BY <1>11, <1>12
  <2>4. QED BY <1>11, <2>1, <2>2, <2>3, SeqEqual
<1>14. QED BY <1>7, <1>8, <1>9, <1>13 DEF x, e, le, lp, p

(* The parsers of lists find the topics that were sent.                    *)
LEMMA StringsAreSent ==
  ASSUME NEW topics \in TopicSeqs, NEW extra \in Seq(Octet), NEW b, Placed(b, topics, extra)
  PROVE  Pair(Body, "left") = 1 /\ Strings("left", Len(extra)) = Sent(topics)
<1> DEFINE N == TopicsToAdd(topics)
           w == Adding(topics, extra)
           s == Sending(topics)
           a == w[N]
           la == Len(a)
           le == Len(extra)
           lm == Len(message_)
           g == Reading("left", le)
           V == Seq(Nat)
           n(k) == la - Len(w[k])
           Good(k) == s[k] \o g[n(k)] = g[la]
           S == {k \in Nat : k <= N => Good(k)}
<1>1. AreAdded(w, topics, extra) /\ AreSent(s, topics) /\ N \in Nat BY AddingIs, SentIs, ToAdd
<1>2. /\ message_ \in Seq(Nat) /\ b \in Nat /\ b = Body
      /\ lm = b + 1 + la /\ message_[b] = 0 /\ message_[b + 1] = 1
      /\ \A j \in 1..la : message_[b + 1 + j] = a[j]
  BY DEF Placed
<1>3. le \in Nat BY OctetsAreNat
<1>4. AreRead(g, "left", le)
  <2>1. "left" \in Orders BY DEF Orders
  <2> HIDE DEF g, le
  <2>2. QED BY <1>2, <1>3, <2>1, ReadingIs DEF g
<1> HIDE DEF w, s, g, N, V
<1>5. ASSUME NEW k \in 0..N
      PROVE  /\ w[k] \in Seq(Octet) /\ Len(w[k]) \in Nat /\ la \in Nat /\ Len(w[k]) <= la
             /\ \A j \in 1..Len(w[k]) : a[j] = w[k][j]
  BY AddingGrows DEF w, N
<1> HIDE DEF la, lm, le
<1>6. la \in Nat /\ lm \in Nat
  <2>1. 0 \in 0..N BY <1>1
  <2>2. QED BY <1>2, <1>5, <2>1
<1>a. 0 \in 0..lm /\ la \in 0..lm BY <1>2, <1>6
<1>7. \A k \in 0..N : n(k) \in 0..lm /\ n(k) \in 0..la BY <1>2, <1>5, <1>6
<1>8. \A k \in 0..lm : g[k] \in Seq(V) BY <1>4 DEF AreRead, lm, V
<1> HIDE DEF Good
<1>9. ASSUME NEW k \in 0..N PROVE s[k] \in Seq(V)
  <2>1. s[k] \in Seq(Seq(Octet)) BY <1>1 DEF AreSent, N
  <2>2. QED BY <2>1, ListsAreNat DEF V
<1>10. 0 \in S
  <2>1. 0 \in 0..N /\ s[0] = <<>> /\ w[0] = <<>> BY <1>1 DEF AreSent, AreAdded
  <2>2. Len(w[0]) = 0 BY <2>1
  <2>3. n(0) = la BY <1>6, <2>2
  <2>5. g[la] \in Seq(V) BY <1>8, <1>a
  <2>6. <<>> \o g[la] = g[la] BY <2>5, ConcatEmptySeq
  <2>7. Good(0) BY <2>1, <2>3, <2>6 DEF Good
  <2>8. QED BY <2>7
<1>11. ASSUME NEW k \in S PROVE k + 1 \in S
  <2>1. SUFFICES ASSUME k + 1 <= N PROVE Good(k + 1) OBVIOUS
  <2> DEFINE q == k + 1
             t == topics[q]
             p == Piece(t, extra)
             i == b + 2 + Len(w[k])
  <2>2. k \in 0..N /\ q \in 1..N /\ q \in 0..N /\ q - 1 = k BY <1>1, <2>1
  <2>a. Good(k) BY <1>1, <2>2
  <2>3. s[k] \o g[n(k)] = g[la] BY <2>a DEF Good
  <2> HIDE DEF q, S
  <2>4. t \in Seq(Octet) /\ t \in V BY <2>2, TopicIsBytes DEF N, V
  <2>5. w[q] = IF Skipped(t) THEN w[k] ELSE w[k] \o p BY <1>1, <2>2 DEF AreAdded, N
  <2>6. s[q] = IF Skipped(t) THEN s[k] ELSE Append(s[k], t) BY <1>1, <2>2 DEF AreSent, N
  <2>7. CASE Skipped(t) BY <2>3, <2>5, <2>6, <2>7 DEF Good, q, n
  <2>8. CASE ~Skipped(t)
    <3> HIDE DEF t, n
    <3> DEFINE lp == Len(p)
               lk == Len(w[k])
               lq == Len(w[q])
    <3>1. p \in Seq(Octet) /\ lp \in Nat /\ lp >= 2
      <4>1. p \in Seq(Octet) /\ lp = 2 + Len(t) + le /\ Len(t) \in Nat BY <2>4, PieceIs DEF le
      <4> HIDE DEF p
      <4>2. QED BY <1>3, <4>1
    <3> HIDE DEF p
    <3>2. /\ lq = lk + lp /\ lk \in Nat
          /\ \A j \in 1..lp : w[q][lk + j] = p[j]
      <4> DEFINE x == w[k] \o p
      <4>1. w[q] = x BY <2>5, <2>8
      <4>2. Len(x) = Len(w[k]) + Len(p) /\ \A j \in 1..Len(p) : x[Len(w[k]) + j] = p[j]
        BY <1>5, <2>2, <3>1, JoinedOctets
      <4> HIDE DEF x
      <4>3. lk \in Nat BY <1>5, <2>2
      <4>4. QED BY <4>1, <4>2, <4>3
    <3>3. lq <= la /\ \A j \in 1..lq : a[j] = w[q][j] BY <1>5, <2>2
    <3>4. n(k) = la - lk /\ n(q) = la - lq BY DEF n
    <3> HIDE DEF lp, lk, lq
    <3>5. i \in Nat \ {0} /\ i + lp <= lm + 1 /\ i = b + 2 + lk
      <4>1. i = b + 2 + lk BY DEF lk
      <4> HIDE DEF i
      <4>2. QED BY <1>2, <1>6, <3>1, <3>2, <3>3, <4>1
    <3> HIDE DEF i
    <3>6. ASSUME NEW j \in 1..lp PROVE message_[i - 1 + j] = p[j]
      <4>1. lk + j \in 1..lq /\ lk + j \in 1..la /\ b + 1 + (lk + j) = i - 1 + j
        BY <1>2, <1>6, <3>1, <3>2, <3>3, <3>5
      <4>2. message_[b + 1 + (lk + j)] = a[lk + j] BY <1>2, <4>1
      <4>3. QED BY <3>2, <3>3, <4>1, <4>2
    <3>7. /\ Pair(i, "left") # Overrun
          /\ StringEnd(i, "left") + le + 1 = i + lp
          /\ SubSeq(message_, i + 2, StringEnd(i, "left")) = t
      <4>1. i + Len(Piece(t, extra)) <= Len(message_) + 1
            /\ \A j \in 1..Len(Piece(t, extra)) : message_[i - 1 + j] = Piece(t, extra)[j]
        BY <3>5, <3>6 DEF p, lp, lm
      <4>2. QED BY <1>2, <2>4, <2>8, <3>5, <4>1, PieceIsRead DEF p, lp, le
    <3> DEFINE y == n(k)
               z == n(q)
    <3>a. y = la - lk /\ z = la - lq BY <3>4
    <3> HIDE DEF y, z
    <3>8. y \in 0..lm /\ y # 0 /\ lm + 1 - y = i /\ lm + 1 - (i + lp) = z /\ z \in 0..lm
      <4>1. lm = b + 1 + la /\ b \in Nat /\ la \in Nat /\ lm \in Nat BY <1>2, <1>6
      <4>2. lp \in Nat /\ lp >= 2 /\ lq = lk + lp /\ lk \in Nat /\ lq <= la BY <3>1, <3>2, <3>3
      <4>3. i = b + 2 + lk BY <3>5
      <4> HIDE DEF i
      <4>4. y \in 0..lm /\ y # 0 BY <4>1, <4>2, <3>a
      <4>5. lm + 1 - y = i BY <4>1, <4>2, <4>3, <3>a
      <4>6. z \in 0..lm BY <4>1, <4>2, <3>a
      <4>7. lm + 1 - (i + lp) = z BY <4>1, <4>2, <4>3, <3>a
      <4>8. QED BY <4>4, <4>5, <4>6, <4>7
    <3>9. g[y] = IF y = 0 THEN <<>>
                 ELSE IF Pair(lm + 1 - y, "left") = Overrun
                         \/ StringEnd(lm + 1 - y, "left") + le + 1 > lm + 1 THEN << <<Overrun>> >>
                 ELSE <<SubSeq(message_, lm + 1 - y + 2, StringEnd(lm + 1 - y, "left"))>>
                        \o g[lm + 1 - (StringEnd(lm + 1 - y, "left") + le + 1)]
      BY <1>4, <3>8 DEF AreRead, lm
    <3>10. ~(i + lp > lm + 1)
      <4>1. i + lp \in Nat /\ lm + 1 \in Nat BY <1>6, <3>1, <3>5
      <4>2. QED BY <3>5, <4>1
    <3>11. g[y] = <<t>> \o g[z] BY <3>7, <3>8, <3>9, <3>10
    <3>12. s[q] \o g[z] = s[k] \o g[y]
      <4>1. s[k] \in Seq(V) /\ g[z] \in Seq(V) BY <1>8, <1>9, <2>2, <3>8
      <4> DEFINE c == s[k]
                 h == g[z]
      <4>2. c \in Seq(V) /\ h \in Seq(V) BY <4>1
      <4> HIDE DEF c, h
      <4>3. Append(c, t) \o h = c \o (<<t>> \o h) BY <2>4, <4>2, AppendJoin
      <4>4. QED BY <2>6, <2>8, <3>11, <4>3 DEF c, h
    <3>13. s[q] \o g[n(q)] = g[la] BY <2>3, <3>12 DEF y, z
    <3>14. QED BY <3>13 DEF Good, q
  <2>9. QED BY <2>7, <2>8
<1>12. S = Nat
  <2> HIDE DEF S
  <2>1. S \in SUBSET Nat BY DEF S
  <2>2. QED BY <1>10, <1>11, <2>1, NumberInduction
<1>13. s[N] = g[la]
  <2>1. N \in 0..N /\ Good(N) BY <1>1, <1>12
  <2>2. s[N] \o g[n(N)] = g[la] BY <2>1 DEF Good
  <2>3. n(N) = 0
    <3>1. n(N) = la - la BY DEF la
    <3> HIDE DEF n
    <3>2. QED BY <1>6, <3>1
  <2>5. g[0] = <<>> BY <1>4, <1>a DEF AreRead, lm
  <2>6. s[N] \o <<>> = s[N] BY <1>9, <2>1, ConcatEmptySeq
  <2>7. QED BY <2>2, <2>3, <2>5, <2>6
<1>14. Pair(Body, "left") = 1
  <2>1. ~(b + 1 > lm) BY <1>2, <1>6
  <2>2. Pair(b, "left") = 256 * message_[b] + message_[b + 1] BY <2>1 DEF Pair, lm
  <2>3. QED BY <1>2, <2>2
<1>15. Len(message_) - Body - 1 = la
  <2>1. lm - b - 1 = la BY <1>2, <1>6
  <2>2. QED BY <1>2, <2>1 DEF lm
<1>16. Strings("left", le) = g[la] BY <1>15 DEF Strings, g
<1>17. Sent(topics) = s[N] BY DEF Sent, s, N
<1>18. QED BY <1>13, <1>14, <1>16, <1>17 DEF le

------------------------------------------------------------------------------
(* Packets that are alone are read back.                                   *)
Acknowledgements == {"PUBACK", "PUBREC", "PUBREL", "PUBCOMP", "UNSUBACK"}

HasIdentifier(bytes, packet) ==
  /\ packet.arguments \in Identifiers
  /\ \E fixed, length, t : length \in 0..127 /\ t \in Seq(Nat)
                           /\ IsAcknowledgeAnd(bytes, fixed, length, packet.arguments, t)

HasGrants(bytes, packet) ==
  \E id, granted : /\ id \in Identifiers /\ granted \in Seq(Nat)
                   /\ packet.arguments = <<id, granted>>
                   /\ Len(granted) < 126
                        => IsAcknowledgeAnd(bytes, 144, 2 + Len(granted), id, granted)

HasFlags(bytes, packet) ==
  \E present \in BOOLEAN, code \in 0..5 :
    /\ packet.arguments = <<present, code>>
    /\ bytes = <<32, 2, IF present THEN 1 ELSE 0, code>>

HasTopics(bytes, packet, extra) ==
  /\ packet.arguments \in TopicSeqs
  /\ \E fixed \in Nat : bytes = ListPacket(fixed, packet.arguments, extra)

(* The bytes of a packet that the parsers read.                            *)
HoldsPacket(bytes, packet) ==
  /\ packet.kind \in DOMAIN MqttMessageType
  /\ packet.kind \in Acknowledgements => HasIdentifier(bytes, packet)
  /\ packet.kind = "SUBACK" => HasGrants(bytes, packet)
  /\ packet.kind = "CONNACK" => HasFlags(bytes, packet)
  /\ packet.kind = "SUBSCRIBE" => HasTopics(bytes, packet, <<0>>)
  /\ packet.kind = "UNSUBSCRIBE" => HasTopics(bytes, packet, <<>>)
  /\ packet.kind \in {"PINGREQ", "PINGRESP", "DISCONNECT"} => packet.arguments = <<>>

LEMMA BodyIsThird ==
  ASSUME message_ \in Seq(Nat), Len(message_) >= 2, NEW length \in 0..127, message_[2] = length
  PROVE  Body = 3
<1> DEFINE d == <<length>>
           two == 2
<1>1. length < 128 /\ length \in Nat OBVIOUS
<1>2. IsLength(d, length) BY <1>1, OneDigit
<1>3. Len(d) = 1 /\ d[1] = length OBVIOUS
<1> HIDE DEF d
<1>4. Lies(d, message_, two) BY <1>3 DEF Lies
<1>5. two + 1 = 3 OBVIOUS
<1> HIDE DEF two
<1>6. AfterLength(message_, two) = two + Len(d) BY <1>2, <1>4, LengthIsRead
<1>7. AfterLength(message_, two) = 3 BY <1>3, <1>5, <1>6
<1>8. QED BY <1>7 DEF Body, two

LEMMA IdentifierIsRead ==
  ASSUME NEW id \in Identifiers, NEW length \in 0..127, NEW fixed, NEW t \in Seq(Nat),
         IsAcknowledgeAnd(message_, fixed, length, id, t), NEW order \in Orders
  PROVE  Body = 3 /\ Pair(Body, order) = Swapped(id, order)
<1> DEFINE x == id \div 256
           y == id % 256
           lm == Len(message_)
<1>1. /\ message_ \in Seq(Nat) /\ lm = 4 + Len(t) /\ message_[2] = length
      /\ message_[3] = x /\ message_[4] = y
  BY DEF IsAcknowledgeAnd
<1>2. id \in Nat /\ x \in Nat /\ y \in Nat /\ 256 * x + y = id
  <2>1. id \in Nat /\ x \in Octet /\ y \in Octet /\ 256 * x + y = id BY WordIs
  <2>2. \A n \in Octet : n \in Nat BY DEF Octet
  <2>3. QED BY <2>1, <2>2
<1>3. Len(t) \in Nat OBVIOUS
<1> HIDE DEF x, y
<1>4. lm >= 2 /\ ~(3 + 1 > lm) BY <1>1, <1>3
<1>5. Body = 3 BY <1>1, <1>4, BodyIsThird
<1>6. Pair(3, order) = IF order = "left" THEN 256 * x + y ELSE 256 * y + x
  BY <1>1, <1>4 DEF Pair
<1>7. Swapped(id, order) = IF order = "left" THEN id ELSE 256 * y + x BY DEF Swapped, x, y
<1>8. QED BY <1>2, <1>5, <1>6, <1>7

LEMMA GrantsAreRead ==
  ASSUME NEW id \in Identifiers, NEW granted \in Seq(Nat), Len(granted) < 126,
         IsAcknowledgeAnd(message_, 144, 2 + Len(granted), id, granted), NEW order \in Orders
  PROVE  /\ Pair(Body, order) = Swapped(id, order)
         /\ SubSeq(message_, Body + 2, Len(message_)) = granted
<1> DEFINE k == Len(granted)
           l == 2 + k
           f == 144
           e == Len(message_)
<1>1. k \in Nat /\ l \in 0..127
  <2>1. k \in Nat /\ k < 126 OBVIOUS
  <2> HIDE DEF k
  <2>2. l \in 0..127 BY <2>1
  <2>3. QED BY <2>1, <2>2
<1>2. IsAcknowledgeAnd(message_, f, l, id, granted) OBVIOUS
<1>3. /\ message_ \in Seq(Nat) /\ e = 4 + k /\ \A j \in 1..k : message_[4 + j] = granted[j]
  BY <1>2 DEF IsAcknowledgeAnd
<1> HIDE DEF l, f
<1>4. Body = 3 /\ Pair(Body, order) = Swapped(id, order) BY <1>1, <1>2, IdentifierIsRead
<1> HIDE DEF k
<1> DEFINE x == SubSeq(message_, 5, e)
           a == 5
<1>5. x \in Seq(Nat) /\ Len(x) = k /\ \A j \in 1..k : x[j] = message_[4 + j]
  <2>1. \A j \in 1..e : message_[j] \in Nat BY <1>3, ElementOfSeq
  <2>2. a \in Int /\ e \in Int /\ a <= e + 1 /\ e - a + 1 = k /\ \A j \in a..e : message_[j] \in Nat
    BY <1>1, <1>3, <2>1
  <2>3. x = SubSeq(message_, a, e) OBVIOUS
  <2>4. \A j \in 1..k : a + j - 1 = 4 + j BY <1>1
  <2> HIDE DEF a, e, x
  <2>5. SubSeq(message_, a, e) \in Seq(Nat) BY <2>2, SubSeqProperties
  <2>6. Len(SubSeq(message_, a, e)) = IF a <= e THEN e - a + 1 ELSE 0 BY <2>2, SubSeqProperties
  <2>7. \A j \in 1..(e - a + 1) : SubSeq(message_, a, e)[j] = message_[a + j - 1]
    BY <2>2, SubSeqProperties
  <2>8. Len(x) = k BY <1>1, <2>2, <2>3, <2>6
  <2>9. QED BY <2>2, <2>3, <2>4, <2>5, <2>7, <2>8
<1> HIDE DEF x, a
<1>6. x = granted
  <2>1. Len(x) = Len(granted) BY <1>5 DEF k
  <2>2. \A j \in 1..Len(x) : x[j] = granted[j] BY <1>3, <1>5
  <2>3. QED BY <1>5, <2>1, <2>2, SeqEqual
<1>7. Body + 2 = 5 BY <1>4
<1>8. QED BY <1>4, <1>6, <1>7 DEF x, e

LEMMA FlagsAreRead ==
  ASSUME NEW present \in BOOLEAN, NEW code \in 0..5,
         message_ = <<32, 2, IF present THEN 1 ELSE 0, code>>
  PROVE  <<At(Body) % 2 = 1, At(Body + 1)>> = <<present, code>>
<1> DEFINE x == IF present THEN 1 ELSE 0
           two == 2
<1>1. x \in Nat /\ ((x % 2 = 1) <=> present) OBVIOUS
<1> HIDE DEF x
<1>2. message_ = <<32, 2, x, code>> BY DEF x
<1>3. message_ \in Seq(Nat) /\ Len(message_) = 4 /\ message_[2] = 2 /\ message_[3] = x /\ message_[4] = code
  BY <1>1, <1>2
<1>4. two \in 0..127 /\ message_[2] = two /\ Len(message_) >= 2 BY <1>3
<1> HIDE DEF two
<1>5. Body = 3 BY <1>3, <1>4, BodyIsThird
<1>6. At(3) = x /\ At(4) = code BY <1>3 DEF At
<1>7. Body + 1 = 4 BY <1>5
<1>8. (At(Body) % 2 = 1) = present BY <1>1, <1>5, <1>6
<1>9. QED BY <1>6, <1>7, <1>8

(* What PacketsReadBack says of a packet and of what was found in it.      *)
IsReadBack(kind, order, packet, result) ==
  /\ kind \in Acknowledgements => result = Swapped(packet.arguments, order)
  /\ kind = "SUBACK" /\ Counted(packet)
       => result = <<Swapped(packet.arguments[1], order), packet.arguments[2]>>
  /\ kind \in {"SUBSCRIBE", "UNSUBSCRIBE"} /\ order = "left"
       => result = <<1, Sent(packet.arguments)>>
  /\ kind \in {"CONNACK", "PINGREQ", "PINGRESP", "DISCONNECT"} => result = packet.arguments

(* A message with one packet holds the bytes of its creation.              *)
AloneInv ==
  /\ made = <<>> => message_ = <<>>
  /\ Len(made) = 1 => HoldsPacket(message_, made[1])
  /\ PacketsReadBack

LEMMA CreatedAlone ==
  ASSUME MessageInv, AloneInv, NEW kind, NEW bytes, NEW arguments,
         Create(kind, bytes, arguments),
         IsCreation(bytes, [kind |-> kind, arguments |-> arguments]),
         HoldsPacket(bytes, [kind |-> kind, arguments |-> arguments])
  PROVE  AloneInv'
<1> DEFINE e == [kind |-> kind, arguments |-> arguments]
<1>1. message_' = message_ \o bytes /\ made' = Append(made, e) /\ read' = Nothing BY DEF Create
<1>2. e \in Packets /\ bytes \in Seq(Nat) BY DEF IsCreation
<1>3. HoldsPacket(bytes, e) OBVIOUS
<1> HIDE DEF e
<1>4. made \in Seq(Packets) BY DEF MessageInv
<1>5. Len(made') = Len(made) + 1 /\ Len(made) \in Nat
  <2>1. Len(Append(made, e)) = Len(made) + 1 BY <1>2, <1>4, AppendProperties
  <2>2. QED BY <1>1, <1>4, <2>1
<1>6. ASSUME Len(made') = 1 PROVE HoldsPacket(message_', made'[1])
  <2>1. Len(made) = 0 BY <1>5, <1>6
  <2>2. made = <<>> BY <1>4, <2>1, EmptySeq
  <2>3. message_ = <<>> BY <2>2 DEF AloneInv
  <2>4. message_' = bytes BY <1>1, <1>2, <2>3, ConcatEmptySeq
  <2>5. made'[1] = e
    <3>1. Append(made, e)[Len(made) + 1] = e BY <1>2, <1>4, AppendProperties
    <3>2. QED BY <1>1, <2>1, <3>1
  <2>6. QED BY <1>3, <2>4, <2>5
<1>7. made' # <<>> BY <1>5
<1>8. PacketsReadBack' BY <1>1 DEF PacketsReadBack, Nothing
<1>9. QED BY <1>6, <1>7, <1>8 DEF AloneInv

LEMMA ParsedAlone ==
  ASSUME MessageInv, AloneInv, NEW kind \in DOMAIN MqttMessageType, NEW order, NEW result,
         Parse(kind, order, result),
         made[1].kind = kind /\ Len(made) = 1 => IsReadBack(kind, order, made[1], result)
  PROVE  AloneInv'
<1>1. /\ message_' = message_ /\ made' = made /\ made[1].kind = kind
      /\ read' = [kind |-> kind, order |-> order, fixedHeader |-> message_[1], found |-> result]
  BY DEF Parse
<1> DEFINE packet == made[1]
<1>2. read'.kind = kind /\ read'.order = order /\ read'.found = result BY <1>1
<1>3. Len(made) = 1 => IsReadBack(kind, order, packet, result) BY <1>1
<1> HIDE DEF packet
<1>4. kind \in Acknowledgements \cup {"SUBACK", "SUBSCRIBE", "UNSUBSCRIBE", "CONNACK", "PINGREQ",
                                      "PINGRESP", "DISCONNECT", "CONNECT", "PUBLISH"}
  BY PacketKinds DEF Acknowledgements
<1>5. ASSUME Len(made) = 1
      PROVE  CASE kind \in {"CONNECT", "PUBLISH"} -> TRUE
               [] kind = "SUBACK" ->
                    Counted(packet) => result = <<Swapped(packet.arguments[1], order), packet.arguments[2]>>
               [] kind \in {"SUBSCRIBE", "UNSUBSCRIBE"} ->
                    order = "left" => result = <<1, Sent(packet.arguments)>>
               [] kind \in {"CONNACK", "PINGREQ", "PINGRESP", "DISCONNECT"} ->
                    result = packet.arguments
               [] OTHER -> result = Swapped(packet.arguments, order)
  BY <1>3, <1>4, <1>5 DEF IsReadBack, Acknowledgements
<1>6. PacketsReadBack'
  <2>1. SUFFICES ASSUME Len(made) = 1
                 PROVE  LET given == made[1].arguments
                        IN  CASE kind \in {"CONNECT", "PUBLISH"} -> TRUE
                              [] kind = "SUBACK" ->
                                   Counted(made[1]) => result = <<Swapped(given[1], order), given[2]>>
                              [] kind \in {"SUBSCRIBE", "UNSUBSCRIBE"} ->
                                   order = "left" => result = <<1, Sent(given)>>
                              [] kind \in {"CONNACK", "PINGREQ", "PINGRESP", "DISCONNECT"} ->
                                   result = given
                              [] OTHER -> result = Swapped(given, order)
    BY <1>1, <1>2 DEF PacketsReadBack
  <2>2. QED BY <1>5, <2>1 DEF packet
<1>7. QED BY <1>1, <1>6 DEF AloneInv

LEMMA OtherKinds ==
  ASSUME NEW kind \in {"CONNECT", "PUBLISH"}, NEW bytes, NEW arguments
  PROVE  HoldsPacket(bytes, [kind |-> kind, arguments |-> arguments])
<1> DEFINE e == [kind |-> kind, arguments |-> arguments]
<1>1. e.kind = kind OBVIOUS
<1> HIDE DEF e
<1>2. kind \in DOMAIN MqttMessageType BY PacketKinds
<1>3. HoldsPacket(bytes, e) BY <1>1, <1>2 DEF HoldsPacket, Acknowledgements
<1>4. QED BY <1>3 DEF e

LEMMA AcknowledgeWritten ==
  ASSUME NEW kind \in {"PUBACK", "PUBREC", "PUBCOMP", "UNSUBACK"},
         NEW id \in Identifiers, NEW fixed \in Nat
  PROVE  HoldsPacket(<<fixed, 2>> \o Word(id), [kind |-> kind, arguments |-> id])
<1> DEFINE e == [kind |-> kind, arguments |-> id]
           two == 2
           b == AcknowledgeBytes(fixed, two, id)
           t == <<>>
<1>1. e.kind = kind /\ e.arguments = id OBVIOUS
<1>2. two \in 0..127 /\ two \in Nat /\ t \in Seq(Nat) /\ Len(t) = 0 OBVIOUS
<1> HIDE DEF e, two, t
<1>3. IsAcknowledge(b, fixed, two, id) BY <1>2, AcknowledgeIs
<1>4. b = <<fixed, 2>> \o Word(id) BY DEF AcknowledgeBytes, two
<1> HIDE DEF b
<1>5. IsAcknowledgeAnd(b, fixed, two, id, t)
  <2>1. 4 + Len(t) = 4 /\ \A j \in 1..Len(t) : b[4 + j] = t[j] BY <1>2
  <2>2. QED BY <1>3, <2>1 DEF IsAcknowledge, IsAcknowledgeAnd
<1>6. HasIdentifier(b, e) BY <1>1, <1>2, <1>5 DEF HasIdentifier
<1>7. kind \in DOMAIN MqttMessageType /\ kind \in Acknowledgements BY PacketKinds DEF Acknowledgements
<1>8. HoldsPacket(b, e) BY <1>1, <1>6, <1>7 DEF HoldsPacket
<1>9. QED BY <1>4, <1>8 DEF e

LEMMA PubrelWritten ==
  ASSUME NEW id \in Identifiers
  PROVE  HoldsPacket(<<MqttMessageType.PUBREL + 2, 4>> \o Word(id) \o <<0, 0>>,
                   [kind |-> "PUBREL", arguments |-> id])
<1> DEFINE f == MqttMessageType.PUBREL + 2
           four == 4
           t == <<0, 0>>
           b == AcknowledgeBytes(f, four, id) \o t
           kind == "PUBREL"
           e == [kind |-> kind, arguments |-> id]
<1>1. f \in Nat /\ four \in 0..127 /\ four \in Nat /\ t \in Seq(Nat) BY PacketKinds
<1>2. kind \in DOMAIN MqttMessageType /\ kind \in Acknowledgements BY PacketKinds DEF Acknowledgements
<1>3. e.kind = kind /\ e.arguments = id OBVIOUS
<1>4. ~(kind \in {"SUBACK", "CONNACK", "SUBSCRIBE", "UNSUBSCRIBE", "PINGREQ", "PINGRESP", "DISCONNECT"})
  OBVIOUS
<1> HIDE DEF f, four, t, kind, e
<1>5. IsAcknowledgeAnd(b, f, four, id, t) BY <1>1, AcknowledgeAndIs
<1> HIDE DEF b
<1>6. HasIdentifier(b, e) BY <1>1, <1>3, <1>5 DEF HasIdentifier
<1>7. HoldsPacket(b, e) BY <1>2, <1>3, <1>4, <1>6 DEF HoldsPacket
<1>8. QED BY <1>7 DEF b, f, four, t, kind, e, AcknowledgeBytes

LEMMA SubackWritten ==
  ASSUME NEW id \in Identifiers, NEW granted \in GrantLists
  PROVE  HoldsPacket(<<MqttMessageType.SUBACK, (2 + Len(granted)) % 256>> \o Word(id) \o granted,
                   [kind |-> "SUBACK", arguments |-> <<id, granted>>])
<1> DEFINE f == MqttMessageType.SUBACK
           k == Len(granted)
           l == (2 + k) % 256
           m == 2 + k
           b == AcknowledgeBytes(f, l, id) \o granted
           kind == "SUBACK"
           a == <<id, granted>>
           e == [kind |-> kind, arguments |-> a]
<1>1. f \in Nat /\ f = 144 BY PacketKinds
<1>2. granted \in Seq(Nat) /\ k \in Nat
  <2>1. granted \in Seq(Octet) BY MessageInputsOK
  <2>2. QED BY <2>1, OctetsAreNat
<1>3. kind \in DOMAIN MqttMessageType /\ kind \notin Acknowledgements
      /\ ~(kind \in {"CONNACK", "SUBSCRIBE", "UNSUBSCRIBE", "PINGREQ", "PINGRESP", "DISCONNECT"})
  BY PacketKinds DEF Acknowledgements
<1>4. e.kind = kind /\ e.arguments = a OBVIOUS
<1> HIDE DEF k
<1>5. l \in Nat /\ (k < 126 => l = m) BY <1>2
<1> HIDE DEF f, kind, e, l, m
<1>6. IsAcknowledgeAnd(b, f, l, id, granted) BY <1>1, <1>2, <1>5, AcknowledgeAndIs
<1> HIDE DEF b
<1>7. k < 126 => IsAcknowledgeAnd(b, 144, m, id, granted) BY <1>1, <1>5, <1>6
<1>8. HasGrants(b, e)
  <2>1. e.arguments = <<id, granted>> BY <1>4
  <2>2. Len(granted) < 126 => IsAcknowledgeAnd(b, 144, 2 + Len(granted), id, granted)
    BY <1>7 DEF k, m
  <2>3. QED BY <1>2, <2>1, <2>2 DEF HasGrants
<1>9. HoldsPacket(b, e) BY <1>3, <1>4, <1>8 DEF HoldsPacket
<1>10. QED BY <1>9 DEF b, f, l, k, kind, e, AcknowledgeBytes

LEMMA ConnackWritten ==
  ASSUME NEW present \in BOOLEAN, NEW code \in 0..5
  PROVE  HoldsPacket(<<MqttMessageType.CONNACK, 2, IF present THEN 1 ELSE 0, code>>,
                   [kind |-> "CONNACK", arguments |-> <<present, code>>])
<1> DEFINE kind == "CONNACK"
           a == <<present, code>>
           e == [kind |-> kind, arguments |-> a]
           f == MqttMessageType.CONNACK
           b == <<f, 2, IF present THEN 1 ELSE 0, code>>
<1>1. kind \in DOMAIN MqttMessageType /\ kind \notin Acknowledgements
      /\ ~(kind \in {"SUBACK", "SUBSCRIBE", "UNSUBSCRIBE", "PINGREQ", "PINGRESP", "DISCONNECT"})
  BY PacketKinds DEF Acknowledgements
<1>2. e.kind = kind /\ e.arguments = a OBVIOUS
<1>3. f = 32 BY PacketKinds
<1> HIDE DEF f
<1>4. b = <<32, 2, IF present THEN 1 ELSE 0, code>> BY <1>3
<1> HIDE DEF kind, e, b
<1>5. HasFlags(b, e) BY <1>2, <1>4 DEF HasFlags
<1>6. HoldsPacket(b, e) BY <1>1, <1>2, <1>5 DEF HoldsPacket
<1>7. QED BY <1>6 DEF b, f, kind, e

LEMMA ListWritten ==
  ASSUME NEW topics \in TopicLists, NEW fixed \in Nat, NEW kind, NEW extra,
         (kind = "SUBSCRIBE" /\ extra = << 0 >>) \/ (kind = "UNSUBSCRIBE" /\ extra = <<>>)
  PROVE  HoldsPacket(ListPacket(fixed, topics, extra), [kind |-> kind, arguments |-> topics])
<1> DEFINE b == ListPacket(fixed, topics, extra)
           e == [kind |-> kind, arguments |-> topics]
<1>1. e.kind = kind /\ e.arguments = topics OBVIOUS
<1>2. topics \in TopicSeqs BY MessageInputsOK DEF TopicSeqs
<1> HIDE DEF e
<1>3. HasTopics(b, e, extra) BY <1>1, <1>2 DEF HasTopics
<1> HIDE DEF b
<1>4. kind \in DOMAIN MqttMessageType /\ kind \notin Acknowledgements
      /\ ~(kind \in {"SUBACK", "CONNACK", "PINGREQ", "PINGRESP", "DISCONNECT"})
  BY PacketKinds DEF Acknowledgements
<1>5. CASE kind = "SUBSCRIBE" /\ extra = <<0>>
  BY <1>1, <1>3, <1>4, <1>5 DEF HoldsPacket, b, e
<1>6. CASE kind = "UNSUBSCRIBE" /\ extra = <<>>
  BY <1>1, <1>3, <1>4, <1>6 DEF HoldsPacket, b, e
<1>7. QED BY <1>5, <1>6

LEMMA PlainWritten ==
  ASSUME NEW kind \in {"PINGREQ", "PINGRESP", "DISCONNECT"}, NEW bytes
  PROVE  HoldsPacket(bytes, [kind |-> kind, arguments |-> <<>>])
<1> DEFINE e == [kind |-> kind, arguments |-> <<>>]
<1>1. e.kind = kind /\ e.arguments = <<>> OBVIOUS
<1> HIDE DEF e
<1>2. kind \in DOMAIN MqttMessageType BY PacketKinds
<1>3. HoldsPacket(bytes, e) BY <1>1, <1>2 DEF HoldsPacket, Acknowledgements
<1>4. QED BY <1>3 DEF e

(* Each parser reads back what HoldsPacket says the bytes are.               *)
LEMMA IdentifierReadBack ==
  ASSUME NEW kind \in Acknowledgements, NEW order \in Orders, NEW packet,
         packet.kind = kind, HoldsPacket(message_, packet)
  PROVE  IsReadBack(kind, order, packet, Pair(Body, order))
<1>1. HasIdentifier(message_, packet) BY DEF HoldsPacket
<1> DEFINE id == packet.arguments
<1>2. PICK fixed, length, t : length \in 0..127 /\ t \in Seq(Nat)
                              /\ IsAcknowledgeAnd(message_, fixed, length, id, t)
  BY <1>1 DEF HasIdentifier
<1>3. id \in Identifiers BY <1>1 DEF HasIdentifier
<1> HIDE DEF id
<1>4. Pair(Body, order) = Swapped(id, order) BY <1>2, <1>3, IdentifierIsRead
<1>5. QED BY <1>4 DEF IsReadBack, Acknowledgements, id

LEMMA GrantsReadBack ==
  ASSUME NEW order \in Orders, NEW packet, packet.kind = "SUBACK", HoldsPacket(message_, packet)
  PROVE  IsReadBack("SUBACK", order, packet,
                    <<Pair(Body, order), SubSeq(message_, Body + 2, Len(message_))>>)
<1>1. HasGrants(message_, packet) BY DEF HoldsPacket
<1>2. PICK id, granted : /\ id \in Identifiers /\ granted \in Seq(Nat)
                         /\ packet.arguments = <<id, granted>>
                         /\ Len(granted) < 126
                              => IsAcknowledgeAnd(message_, 144, 2 + Len(granted), id, granted)
  BY <1>1 DEF HasGrants
<1>3. packet.arguments[1] = id /\ packet.arguments[2] = granted BY <1>2
<1>4. Counted(packet)
        => <<Pair(Body, order), SubSeq(message_, Body + 2, Len(message_))>> = <<Swapped(id, order), granted>>
  <2>1. SUFFICES ASSUME Len(granted) < 126
                 PROVE  /\ Pair(Body, order) = Swapped(id, order)
                        /\ SubSeq(message_, Body + 2, Len(message_)) = granted
    BY <1>3 DEF Counted
  <2>2. QED BY <1>2, <2>1, GrantsAreRead
<1>5. QED BY <1>3, <1>4 DEF IsReadBack, Acknowledgements

LEMMA TopicsReadBack ==
  ASSUME NEW kind \in {"SUBSCRIBE", "UNSUBSCRIBE"}, NEW order \in Orders, NEW packet,
         packet.kind = kind, HoldsPacket(message_, packet), NEW n,
         n = IF kind = "SUBSCRIBE" THEN 1 ELSE 0
  PROVE  IsReadBack(kind, order, packet, <<Pair(Body, order), Strings(order, n)>>)
<1> DEFINE topics == packet.arguments
           extra == IF kind = "SUBSCRIBE" THEN <<0>> ELSE <<>>
<1>1. HasTopics(message_, packet, extra) BY DEF HoldsPacket
<1>2. extra \in Seq(Octet) /\ Len(extra) = n
  <2>1. 0 \in Octet BY DEF Octet
  <2>2. <<0>> \in Seq(Octet) /\ <<>> \in Seq(Octet) /\ Len(<<0>>) = 1 /\ Len(<<>>) = 0 BY <2>1
  <2>3. QED BY <2>2
<1> HIDE DEF extra
<1>3. topics \in TopicSeqs BY <1>1 DEF HasTopics
<1>4. PICK fixed \in Nat : message_ = ListPacket(fixed, topics, extra) BY <1>1 DEF HasTopics
<1> HIDE DEF topics
<1>5. PICK b : Placed(b, topics, extra) BY <1>2, <1>3, <1>4, ListIsPlaced
<1>6. Pair(Body, "left") = 1 /\ Strings("left", Len(extra)) = Sent(topics)
  BY <1>2, <1>3, <1>5, StringsAreSent
<1>7. order = "left" => <<Pair(Body, order), Strings(order, n)>> = <<1, Sent(topics)>>
  BY <1>2, <1>6
<1>8. QED BY <1>7 DEF IsReadBack, Acknowledgements, topics

LEMMA FlagsReadBack ==
  ASSUME NEW order, NEW packet, packet.kind = "CONNACK", HoldsPacket(message_, packet)
  PROVE  IsReadBack("CONNACK", order, packet, <<At(Body) % 2 = 1, At(Body + 1)>>)
<1>1. HasFlags(message_, packet) BY DEF HoldsPacket
<1>2. PICK present \in BOOLEAN, code \in 0..5 :
        /\ packet.arguments = <<present, code>>
        /\ message_ = <<32, 2, IF present THEN 1 ELSE 0, code>>
  BY <1>1 DEF HasFlags
<1>3. <<At(Body) % 2 = 1, At(Body + 1)>> = <<present, code>> BY <1>2, FlagsAreRead
<1>4. QED BY <1>2, <1>3 DEF IsReadBack, Acknowledgements

LEMMA PlainReadBack ==
  ASSUME NEW kind \in {"PINGREQ", "PINGRESP", "DISCONNECT"}, NEW order, NEW packet,
         packet.kind = kind, HoldsPacket(message_, packet)
  PROVE  IsReadBack(kind, order, packet, <<>>)
<1>1. packet.arguments = <<>> BY DEF HoldsPacket
<1>2. QED BY <1>1 DEF IsReadBack, Acknowledgements

LEMMA AloneInvInit == MessageInit => AloneInv
<1>1. SUFFICES ASSUME MessageInit PROVE AloneInv OBVIOUS
<1>2. message_ = <<>> /\ made = <<>> /\ read = Nothing BY <1>1 DEF MessageInit
<1>3. ~(Len(made) = 1) BY <1>2
<1>4. PacketsReadBack BY <1>2 DEF PacketsReadBack
<1>5. QED BY <1>2, <1>3, <1>4 DEF AloneInv

LEMMA AloneInvNext == MessageInv /\ AloneInv /\ [MessageNext]_messageVars => AloneInv'
<1>1. SUFFICES ASSUME MessageInv, AloneInv, [MessageNext]_messageVars PROVE AloneInv' OBVIOUS
<1>2. ASSUME NEW kind, NEW bytes, NEW arguments, CreatePlain(kind, bytes, arguments),
             IsCreation(bytes, [kind |-> kind, arguments |-> arguments]),
             HoldsPacket(bytes, [kind |-> kind, arguments |-> arguments])
      PROVE  AloneInv'
  BY <1>1, <1>2, CreatedAlone DEF CreatePlain
<1>3. CASE createConnect
  BY <1>2, <1>3, ConnectCreates, OtherKinds DEF createConnect, ConnectHead
<1>4. CASE createMqttConnackMessage
  BY <1>2, <1>4, ConnackCreates, ConnackWritten DEF createMqttConnackMessage
<1>5. CASE createMqttPublishMessage
  <2>1. PICK p \in Publications, retain \in BOOLEAN, qos \in 0..2 :
          LET fixed == MqttMessageType.PUBLISH + (IF retain THEN 1 ELSE 0) + 2 * qos
              id    == IF qos > 0 THEN <<0, 1>> ELSE <<>>
          IN  Create("PUBLISH",
                <<fixed>> \o RemainingLength(Len(p.topic) + Len(p.payload) + Len(id))
                  \o (p.topic \o id \o p.payload), p)
    BY <1>5 DEF createMqttPublishMessage
  <2> DEFINE fixed == MqttMessageType.PUBLISH + (IF retain THEN 1 ELSE 0) + 2 * qos
             id    == IF qos > 0 THEN <<0, 1>> ELSE <<>>
             bytes == <<fixed>> \o RemainingLength(Len(p.topic) + Len(p.payload) + Len(id))
                        \o (p.topic \o id \o p.payload)
             kind == "PUBLISH"
  <2>2. Create(kind, bytes, p) BY <2>1
  <2>3. IsCreation(bytes, [kind |-> kind, arguments |-> p]) BY PublishCreates
  <2>4. kind \in {"CONNECT", "PUBLISH"} OBVIOUS
  <2> HIDE DEF bytes, kind
  <2>5. HoldsPacket(bytes, [kind |-> kind, arguments |-> p]) BY <2>4, OtherKinds
  <2>6. QED BY <1>1, <2>2, <2>3, <2>5, CreatedAlone
<1>6. ASSUME NEW kind \in {"PUBACK", "PUBREC", "PUBCOMP", "UNSUBACK"},
             Acknowledge(kind, MqttMessageType[kind])
      PROVE  AloneInv'
  <2>1. PICK id \in Identifiers : CreatePlain(kind, <<MqttMessageType[kind], 2>> \o Word(id), id)
    BY <1>6 DEF Acknowledge
  <2>2. MqttMessageType[kind] \in Nat BY PacketKinds
  <2>3. QED BY <1>2, <2>1, <2>2, AcknowledgeCreates, AcknowledgeWritten
<1>7. CASE createMqttPubackMessage BY <1>6, <1>7 DEF createMqttPubackMessage
<1>8. CASE createMqttPubrecMessage BY <1>6, <1>8 DEF createMqttPubrecMessage
<1>9. CASE createMqttPubcompMessage BY <1>6, <1>9 DEF createMqttPubcompMessage
<1>10. CASE createMqttUnsubackMessage BY <1>6, <1>10 DEF createMqttUnsubackMessage
<1>11. CASE createMqttPubrelMessage
  BY <1>2, <1>11, PubrelCreates, PubrelWritten DEF createMqttPubrelMessage
<1>12. CASE createMqttSubackMessage
  BY <1>2, <1>12, SubackCreates, SubackWritten DEF createMqttSubackMessage
<1>13. ASSUME NEW kind, NEW topics \in TopicLists, NEW extra,
              (kind = "SUBSCRIBE" /\ extra = << 0 >>) \/ (kind = "UNSUBSCRIBE" /\ extra = <<>>),
              CreatePlain(kind, ListPacket(MqttMessageType[kind] + 2, topics, extra), topics)
       PROVE  AloneInv'
  <2>1. kind \in {"SUBSCRIBE", "UNSUBSCRIBE"} /\ MqttMessageType[kind] + 2 \in Nat
    BY <1>13, PacketKinds
  <2>2. extra \in Seq(Octet)
    <3>1. 0 \in Octet BY DEF Octet
    <3>2. <<0>> \in Seq(Octet) /\ <<>> \in Seq(Octet) BY <3>1
    <3>3. QED BY <1>13, <3>2
  <2>3. IsCreation(ListPacket(MqttMessageType[kind] + 2, topics, extra),
                   [kind |-> kind, arguments |-> topics])
    BY <2>1, <2>2, ListCreates
  <2>4. HoldsPacket(ListPacket(MqttMessageType[kind] + 2, topics, extra),
                  [kind |-> kind, arguments |-> topics])
    BY <1>13, <2>1, ListWritten
  <2>5. QED BY <1>2, <1>13, <2>3, <2>4
<1>14. CASE createMqttSubscribeMessage BY <1>13, <1>14 DEF createMqttSubscribeMessage
<1>15. CASE createMqttUnsubscribeMessage BY <1>13, <1>15 DEF createMqttUnsubscribeMessage
<1>16. ASSUME NEW kind \in {"PINGREQ", "PINGRESP", "DISCONNECT"},
              CreatePlain(kind, <<MqttMessageType[kind], 0>>, <<>>)
       PROVE  AloneInv'
  BY <1>2, <1>16, PlainCreates, PlainWritten
<1>17. CASE createMqttPingreqMessage BY <1>16, <1>17 DEF createMqttPingreqMessage
<1>18. CASE createMqttPingrespMessage BY <1>16, <1>18 DEF createMqttPingrespMessage
<1>19. CASE createMqttDisconnectMessage BY <1>16, <1>19 DEF createMqttDisconnectMessage
<1>20. ASSUME NEW kind \in DOMAIN MqttMessageType, NEW order, NEW result, Parse(kind, order, result),
              ASSUME HoldsPacket(message_, made[1]), made[1].kind = kind
              PROVE  IsReadBack(kind, order, made[1], result)
       PROVE  AloneInv'
  <2>1. Len(made) = 1 => HoldsPacket(message_, made[1]) BY <1>1 DEF AloneInv
  <2>2. made[1].kind = kind /\ Len(made) = 1 => IsReadBack(kind, order, made[1], result)
    BY <1>20, <2>1
  <2>3. QED BY <1>1, <1>20, <2>2, ParsedAlone
<1>21. ASSUME NEW kind \in {"CONNECT", "PUBLISH"}, NEW order, NEW result, Parse(kind, order, result)
       PROVE  AloneInv'
  <2>1. kind \in DOMAIN MqttMessageType BY PacketKinds
  <2>2. IsReadBack(kind, order, made[1], result) BY DEF IsReadBack, Acknowledgements
  <2>3. QED BY <1>20, <1>21, <2>1, <2>2
<1>22. CASE ParseConnect BY <1>21, <1>22 DEF ParseConnect
<1>23. CASE ParsePublish BY <1>21, <1>23 DEF ParsePublish
<1>24. ASSUME NEW kind \in Acknowledgements, ParseIdentifier(kind) PROVE AloneInv'
  <2>1. PICK order \in Orders : Parse(kind, order, Pair(Body, order))
    BY <1>24 DEF ParseIdentifier
  <2>2. kind \in DOMAIN MqttMessageType BY PacketKinds DEF Acknowledgements
  <2>3. QED BY <1>20, <2>1, <2>2, IdentifierReadBack
<1>25. CASE ParsePuback \/ ParsePubrec \/ ParsePubrel \/ ParsePubcomp \/ ParseUnsuback
  BY <1>24, <1>25
  DEF ParsePuback, ParsePubrec, ParsePubrel, ParsePubcomp, ParseUnsuback, Acknowledgements
<1>26. CASE ParseConnack
  <2>1. Parse("CONNACK", "left", <<At(Body) % 2 = 1, At(Body + 1)>>) BY <1>26 DEF ParseConnack
  <2>2. "CONNACK" \in DOMAIN MqttMessageType BY PacketKinds
  <2>3. QED BY <1>20, <2>1, <2>2, FlagsReadBack
<1>27. CASE ParseSuback
  <2>1. PICK order \in Orders :
          Parse("SUBACK", order,
                <<Pair(Body, order), SubSeq(message_, Body + 2, Len(message_))>>)
    BY <1>27 DEF ParseSuback
  <2>2. "SUBACK" \in DOMAIN MqttMessageType BY PacketKinds
  <2>3. QED BY <1>20, <2>1, <2>2, GrantsReadBack
<1>28. ASSUME NEW kind \in {"SUBSCRIBE", "UNSUBSCRIBE"}, NEW order \in Orders, NEW n,
              n = IF kind = "SUBSCRIBE" THEN 1 ELSE 0,
              Parse(kind, order, <<Pair(Body, order), Strings(order, n)>>)
       PROVE  AloneInv'
  <2>1. kind \in DOMAIN MqttMessageType BY PacketKinds
  <2>2. QED BY <1>20, <1>28, <2>1, TopicsReadBack
<1>29. CASE ParseSubscribe BY <1>28, <1>29 DEF ParseSubscribe
<1>30. CASE ParseUnsubscribe BY <1>28, <1>30 DEF ParseUnsubscribe
<1>31. ASSUME NEW kind \in {"PINGREQ", "PINGRESP", "DISCONNECT"}, Parse(kind, "left", <<>>)
       PROVE  AloneInv'
  <2>1. kind \in DOMAIN MqttMessageType BY PacketKinds
  <2>2. QED BY <1>20, <1>31, <2>1, PlainReadBack
<1>32. CASE ParsePingreq \/ ParsePingresp \/ ParseDisconnect
  BY <1>31, <1>32 DEF ParsePingreq, ParsePingresp, ParseDisconnect
<1>33. CASE UNCHANGED messageVars
  BY <1>1, <1>33 DEF messageVars, AloneInv, PacketsReadBack, Nothing
<1>34. QED
  BY <1>1, <1>3, <1>4, <1>5, <1>7, <1>8, <1>9, <1>10, <1>11, <1>12, <1>14, <1>15, <1>17, <1>18,
     <1>19, <1>22, <1>23, <1>25, <1>26, <1>27, <1>29, <1>30, <1>32, <1>33 DEF MessageNext

(* Whatever packet but CONNECT and PUBLISH is created alone, with any      *)
(* identifier, flags, fewer than 126 granted QoS, and topics of any length *)
(* and number: its parser finds what the creation was given, and of the    *)
(* topics those that it did not skip, in their order.  Under the other     *)
(* order of evaluation the bytes of an identifier are swapped, and nothing *)
(* is said of topics.                                                      *)
THEOREM PacketsAlwaysReadBack ==
  MessageInit /\ [][MessageNext]_messageVars => []PacketsReadBack
<1>1. AloneInv => PacketsReadBack BY DEF AloneInv
<1>2. QED BY <1>1, MessageInvInit, MessageInvNext, AloneInvInit, AloneInvNext, PTL
==============================================================================
