--------------------------- MODULE SegmentsProofs ---------------------------
(***************************************************************************)
(* Proofs about Segments, for every segment length, buffer, capacity,      *)
(* window and set of SDU lengths: its types, that only a torn SDU is       *)
(* handed on damaged, and that each torn SDU costs at most one other.      *)
(* The argument follows the row of segments from the receiver's loop       *)
(* through the link and the wait queue to the SDU in progress.             *)
(***************************************************************************)
EXTENDS Segments, SequenceTheorems, FiniteSetTheorems, TLAPS

-----------------------------------------------------------------------------
(* The row of segments. *)

(* What is under way and what waits, in the order of osdlp_tc_transmit. *)
Row == link \o wait

(* The octets of its SDU before a segment, and those up to its end. *)
Start(fr) == fr.data[1][2] - 1
Stop(fr) == Start(fr) + Len(fr.data)

(* A segment is cut as osdlp_tc_transmit cuts: it is the one at its place. *)
Cut(fr, sz) ==
    /\ Sdu(fr) \in 1 .. Len(sz) /\ Start(fr) \in 0 .. sz[Sdu(fr)] - 1
    /\ fr.code \in {"AD", "BD"}
    /\ fr = SegmentAt(fr.code, Sdu(fr), Start(fr), sz[Sdu(fr)])

AllCut(q, sz) == \A i \in 1 .. Len(q) : Cut(q[i], sz)

(* The first segment of d is still to be heard. *)
Ahead(q, d) == \E i \in 1 .. Len(q) : Sdu(q[i]) = d /\ Start(q[i]) = 0

(* Each first segment is sent once. *)
Once(q) ==
    \A i, j \in 1 .. Len(q) :
        Start(q[i]) = 0 /\ Start(q[j]) = 0 /\ Sdu(q[i]) = Sdu(q[j]) => i = j

(* An SDU that lost nothing goes on from octet o with position i of the row, or is still to. *)
GoesOn(q, sz, sg, d, o, i) ==
    \/ i <= Len(q) /\ Sdu(q[i]) = d /\ Start(q[i]) = o
    \/ i = Len(q) + 1 /\ sg.flag = "IN_PROGRESS" /\ d = Len(sz) /\ sg.octets = o

Unbroken(q, sz, sg, tn) ==
    \A i \in 1 .. Len(q) :
        Sdu(q[i]) \notin tn /\ Stop(q[i]) < sz[Sdu(q[i])] =>
            GoesOn(q, sz, sg, Sdu(q[i]), Stop(q[i]), i + 1)

(* A bypass frame that may overtake another SDU's is of a torn SDU, and so is the other. *)
Ordered(l, tn) ==
    \A i, j \in 1 .. Len(l) :
        i < j /\ IsAd(l[i]) /\ IsBd(l[j]) => Sdu(l[i]) \in tn /\ Sdu(l[j]) \in tn

(* The first o octets of d. *)
Octets(d, o) == [k \in 1 .. o |-> <<d, k>>]

(* The SDU that opened the loop. *)
Opener(a) == a.buf[1][1]

(***************************************************************************)
(* An open loop was opened by a segment that has been heard; unless that   *)
(* SDU is torn, the loop holds all of it so far, and its next segment is   *)
(* the next to be heard.                                                   *)
(***************************************************************************)
Joining(a, q, sz, sg, tn) ==
    a.loop = "OPEN" =>
        /\ a.buf # <<>> /\ Opener(a) \in 1 .. Len(sz) /\ ~ Ahead(q, Opener(a))
        /\ Opener(a) \notin tn =>
              /\ a.buf = Octets(Opener(a), Len(a.buf)) /\ Len(a.buf) < sz[Opener(a)]
              /\ GoesOn(q, sz, sg, Opener(a), Len(a.buf), 1)

(* The SDU has been begun and is not, or no longer, in the loop. *)
Left(a, q, d) == ~ Ahead(q, d) /\ ~ (a.loop = "OPEN" /\ Opener(a) = d)

(* The SDUs that lost nothing and are lost, and the torn ones that may have cost one. *)
Lost(a, q, sz, tn, arr) ==
    {d \in 1 .. Len(sz) : d \notin tn /\ d \notin arr /\ sz[d] <= MaxSdu /\ Left(a, q, d)}
Spent(a, q, tn) == {d \in tn : Left(a, q, d)}

Paid(a, q, sz, tn, arr) ==
    Cardinality(Lost(a, q, sz, tn, arr)) <= Cardinality(Spent(a, q, tn))

(* The inductive invariant. *)
Tracked ==
    /\ SegTypeOK
    /\ AllCut(Row, size) /\ (wait # <<>> => IsAd(wait[1]))
    /\ Once(Row) /\ Unbroken(Row, size, seg, torn) /\ Ordered(link, torn)
    /\ Joining(asm, Row, size, seg, torn)
    /\ WholeOrTorn
    /\ Paid(asm, Row, size, torn, arrived)

-----------------------------------------------------------------------------
(* Cutting. *)

LEMMA MinOfTwo ==
    ASSUME NEW a \in Int, NEW b \in Int
    PROVE  Min({a, b}) = IF a <= b THEN a ELSE b
BY DEF Min

LEMMA MinOfThree ==
    ASSUME NEW a \in Int, NEW b \in Int, NEW c \in Int
    PROVE  LET m == Min({a, b, c})
           IN  m \in {a, b, c} /\ m <= a /\ m <= b /\ m <= c
<1>1. PICK m \in {a, b, c} : \A x \in {a, b, c} : m <= x
  BY SMTT(30)
<1> QED BY <1>1, SMTT(30) DEF Min

(* Where a segment ends. *)
LEMMA SegmentEnd ==
    ASSUME NEW n \in Nat, NEW o \in 0 .. n - 1
    PROVE  /\ SegEnd(o, n) = IF o + MaxData <= n THEN o + MaxData ELSE n
           /\ SegEnd(o, n) \in o + 1 .. n /\ SegEnd(o, n) - o \in 1 .. MaxData
           /\ MaxData \in Nat \ {0}
<1>1. MaxData \in Nat \ {0}
  BY LengthsAssumption
<1>2. SegEnd(o, n) = IF o + MaxData <= n THEN o + MaxData ELSE n
  BY <1>1, MinOfTwo DEF SegEnd
<1> QED BY <1>1, <1>2

(* A segment's octets are those of its SDU between its ends, and its flag tells where it is. *)
LEMMA SegmentFacts ==
    ASSUME NEW n \in Nat, NEW o \in 0 .. n - 1, NEW d, NEW code
    PROVE  LET fr == SegmentAt(code, d, o, n)
           IN  /\ fr.code = code /\ Sdu(fr) = d /\ Start(fr) = o /\ Stop(fr) = SegEnd(o, n)
               /\ DOMAIN fr.data = 1 .. Len(fr.data) /\ Len(fr.data) = SegEnd(o, n) - o
               /\ \A k \in 1 .. Len(fr.data) : fr.data[k] = <<d, o + k>>
               /\ fr.flag = "UNSEG" <=> o = 0 /\ SegEnd(o, n) = n
               /\ fr.flag = "FIRST" <=> o = 0 /\ SegEnd(o, n) < n
               /\ fr.flag = "CONT" <=> o > 0 /\ SegEnd(o, n) < n
               /\ fr.flag = "LAST" <=> o > 0 /\ SegEnd(o, n) = n
               /\ fr.flag \in {"UNSEG", "FIRST", "CONT", "LAST"}
<1> DEFINE fr == SegmentAt(code, d, o, n)
           e == SegEnd(o, n)
<1>1. e \in o + 1 .. n /\ e = (IF o + MaxData <= n THEN o + MaxData ELSE n) /\ MaxData \in Nat \ {0}
  BY SegmentEnd
<1> HIDE DEF e
<1>2. fr.code = code /\ fr.data = [k \in 1 .. e - o |-> <<d, o + k>>] /\ fr.flag = SeqFlag(o, n)
  BY DEF SegmentAt, e
<1> HIDE DEF fr
<1>3. e - o \in Nat /\ e - o >= 1
  BY <1>1
<1>4. Len(fr.data) = e - o /\ DOMAIN fr.data = 1 .. e - o
  BY <1>2, <1>3
<1>5. \A k \in 1 .. e - o : fr.data[k] = <<d, o + k>>
  BY <1>2
<1>6. fr.data[1] = <<d, o + 1>>
  BY <1>3, <1>5
<1>7. Sdu(fr) = d /\ Start(fr) = o /\ Stop(fr) = e
  BY <1>1, <1>4, <1>6 DEF Sdu, Start, Stop
<1>8. /\ fr.flag = "UNSEG" <=> o = 0 /\ e = n
      /\ fr.flag = "FIRST" <=> o = 0 /\ e < n
      /\ fr.flag = "CONT" <=> o > 0 /\ e < n
      /\ fr.flag = "LAST" <=> o > 0 /\ e = n
      /\ fr.flag \in {"UNSEG", "FIRST", "CONT", "LAST"}
  BY <1>1, <1>2 DEF SeqFlag
<1> QED BY <1>2, <1>4, <1>5, <1>7, <1>8 DEF fr, e

(* So is a segment in the row. *)
LEMMA CutFacts ==
    ASSUME NEW sz \in Seq(Sizes), NEW fr, Cut(fr, sz)
    PROVE  /\ Sdu(fr) \in 1 .. Len(sz) /\ sz[Sdu(fr)] \in Nat \ {0} /\ Start(fr) \in 0 .. sz[Sdu(fr)] - 1
           /\ fr.code \in {"AD", "BD"} /\ Stop(fr) = SegEnd(Start(fr), sz[Sdu(fr)])
           /\ Stop(fr) \in Start(fr) + 1 .. sz[Sdu(fr)]
           /\ DOMAIN fr.data = 1 .. Len(fr.data) /\ Len(fr.data) \in 1 .. MaxData
           /\ Stop(fr) = Start(fr) + Len(fr.data)
           /\ \A k \in 1 .. Len(fr.data) : fr.data[k] = <<Sdu(fr), Start(fr) + k>>
           /\ fr.flag = "UNSEG" <=> Start(fr) = 0 /\ Stop(fr) = sz[Sdu(fr)]
           /\ fr.flag = "FIRST" <=> Start(fr) = 0 /\ Stop(fr) < sz[Sdu(fr)]
           /\ fr.flag = "CONT" <=> Start(fr) > 0 /\ Stop(fr) < sz[Sdu(fr)]
           /\ fr.flag = "LAST" <=> Start(fr) > 0 /\ Stop(fr) = sz[Sdu(fr)]
           /\ fr.flag \in {"UNSEG", "FIRST", "CONT", "LAST"}
<1> DEFINE d == Sdu(fr)
           o == Start(fr)
<1>1. d \in 1 .. Len(sz) /\ o \in 0 .. sz[d] - 1 /\ fr.code \in {"AD", "BD"}
      /\ fr = SegmentAt(fr.code, d, o, sz[d])
  BY DEF Cut
<1>2. sz[d] \in Nat \ {0}
  BY <1>1, ElementOfSeq, LengthsAssumption
<1> HIDE DEF d, o
<1> DEFINE n == sz[d]
           g == SegmentAt(fr.code, d, o, n)
<1>3. /\ Stop(g) = SegEnd(o, n)
      /\ DOMAIN g.data = 1 .. Len(g.data) /\ Len(g.data) = SegEnd(o, n) - o
      /\ \A k \in 1 .. Len(g.data) : g.data[k] = <<d, o + k>>
      /\ g.flag = "UNSEG" <=> o = 0 /\ SegEnd(o, n) = n
      /\ g.flag = "FIRST" <=> o = 0 /\ SegEnd(o, n) < n
      /\ g.flag = "CONT" <=> o > 0 /\ SegEnd(o, n) < n
      /\ g.flag = "LAST" <=> o > 0 /\ SegEnd(o, n) = n
      /\ g.flag \in {"UNSEG", "FIRST", "CONT", "LAST"}
  <2>1. n \in Nat /\ o \in 0 .. n - 1
    BY <1>1, <1>2
  <2> HIDE DEF n
  <2> QED BY <2>1, SegmentFacts
<1>4. fr = g
  BY <1>1
<1> HIDE DEF g
<1>5. SegEnd(o, sz[d]) \in o + 1 .. sz[d] /\ SegEnd(o, sz[d]) - o \in 1 .. MaxData
      /\ o + (SegEnd(o, sz[d]) - o) = SegEnd(o, sz[d])
  BY <1>1, <1>2, SegmentEnd
<1> QED BY <1>1, <1>2, <1>3, <1>4, <1>5 DEF d, o

(* What osdlp_tc_transmit cuts is cut. *)
LEMMA SegmentCut ==
    ASSUME NEW sz \in Seq(Sizes), NEW d \in 1 .. Len(sz), NEW o \in 0 .. sz[d] - 1,
           NEW code \in {"AD", "BD"}
    PROVE  LET fr == SegmentAt(code, d, o, sz[d])
           IN  Cut(fr, sz) /\ fr.code = code /\ Sdu(fr) = d /\ Start(fr) = o
               /\ Stop(fr) = SegEnd(o, sz[d])
<1>1. sz[d] \in Nat
  BY ElementOfSeq, LengthsAssumption
<1> QED BY <1>1, SegmentFacts DEF Cut

-----------------------------------------------------------------------------
(* Taking frames out of the row. *)

(* r is q without its i-th element. *)
Without(q, r, i) ==
    /\ i \in 1 .. Len(q) /\ Len(r) = Len(q) - 1
    /\ \A k \in 1 .. Len(r) : r[k] = IF k < i THEN q[k] ELSE q[k + 1]

(* r is q without some frames of torn SDUs. *)
Thinned(q, r, tn) ==
    \E p \in [1 .. Len(r) -> 1 .. Len(q)] :
        /\ \A k, l \in 1 .. Len(r) : k < l => p[k] < p[l]
        /\ \A k \in 1 .. Len(r) : r[k] = q[p[k]]
        /\ \A i \in 1 .. Len(q) : (\E k \in 1 .. Len(r) : p[k] = i) \/ Sdu(q[i]) \in tn

(* How many of K come before i, and i. *)
Rank(K, i) == Cardinality(K \cap (1 .. i))

LEMMA Ranks ==
    ASSUME NEW n \in Nat, NEW K \in SUBSET (1 .. n)
    PROVE  /\ IsFiniteSet(K) /\ Cardinality(K) \in 0 .. n
           /\ \A i \in K : Rank(K, i) \in 1 .. Cardinality(K)
           /\ \A i, j \in K : i < j => Rank(K, i) < Rank(K, j)
           /\ \A k \in 1 .. Cardinality(K) : \E i \in K : Rank(K, i) = k
<1> DEFINE c == Cardinality(K)
           f == [i \in K |-> Rank(K, i)]
<1>1. IsFiniteSet(1 .. n) /\ Cardinality(1 .. n) = n
  BY FS_Interval
<1>2. IsFiniteSet(K) /\ c \in 0 .. n
  <2>1. IsFiniteSet(K) /\ c <= n
    BY <1>1, FS_Subset
  <2>2. c \in Nat
    BY <2>1, FS_CardinalityType
  <2> QED BY <2>1, <2>2
<1>3. ASSUME NEW i \in K PROVE Rank(K, i) \in 1 .. c
  <2>1. K \cap (1 .. i) \in SUBSET K /\ i \in K \cap (1 .. i)
    OBVIOUS
  <2>2. IsFiniteSet(K \cap (1 .. i)) /\ Rank(K, i) <= c /\ Rank(K, i) \in Nat
    BY <1>2, <2>1, FS_Subset, FS_CardinalityType DEF Rank
  <2>3. Rank(K, i) # 0
    BY <2>1, <2>2, FS_EmptySet DEF Rank
  <2> QED BY <1>2, <2>2, <2>3
<1>4. ASSUME NEW i \in K, NEW j \in K, i < j PROVE Rank(K, i) < Rank(K, j)
  <2>1. K \cap (1 .. i) \in SUBSET (K \cap (1 .. j)) /\ j \in K \cap (1 .. j) /\ j \notin K \cap (1 .. i)
    BY <1>4
  <2>2. IsFiniteSet(K \cap (1 .. j))
    BY <1>2, FS_Subset
  <2>3. Rank(K, i) <= Rank(K, j) /\ Rank(K, i) # Rank(K, j)
    BY <2>1, <2>2, FS_Subset DEF Rank
  <2> QED BY <1>3, <2>3
<1>5. f \in Injection(K, 1 .. c)
  <2>1. f \in [K -> 1 .. c]
    BY <1>3
  <2>2. ASSUME NEW i \in K, NEW j \in K, f[i] = f[j] PROVE i = j
    <3>1. ~ (i < j) /\ ~ (j < i)
      BY <1>3, <1>4, <2>2
    <3> QED BY <3>1
  <2> QED BY <2>1, <2>2 DEF Injection, IsInjective
<1>6. IsFiniteSet(1 .. c) /\ Cardinality(1 .. c) = c
  BY <1>2, FS_Interval
<1>7. f \in Surjection(K, 1 .. c)
  BY <1>5, <1>6, FS_Injection
<1>8. \A k \in 1 .. c : \E i \in K : Rank(K, i) = k
  BY <1>7 DEF Surjection
<1> QED BY <1>2, <1>3, <1>4, <1>8

(* What Only keeps, it keeps in order. *)
LEMMA OnlyThins ==
    ASSUME NEW q \in Seq(Segment), NEW K \in SUBSET (1 .. Len(q)), NEW tn,
           \A i \in 1 .. Len(q) : i \in K \/ Sdu(q[i]) \in tn
    PROVE  LET r == Only(q, K)
           IN  r \in Seq(Segment) /\ Len(r) <= Len(q) /\ Thinned(q, r, tn)
<1> DEFINE c == Cardinality(K)
           p == [k \in 1 .. c |-> CHOOSE i \in K : Rank(K, i) = k]
           r == Only(q, K)
<1>1. Len(q) \in Nat /\ \A i \in K : i \in Int
  <2>1. \A i \in K : i \in 1 .. Len(q)
    OBVIOUS
  <2> QED BY <2>1
<1>2. /\ c \in 0 .. Len(q) /\ \A i \in K : Rank(K, i) \in 1 .. c
      /\ \A i, j \in K : i < j => Rank(K, i) < Rank(K, j)
      /\ \A k \in 1 .. c : \E i \in K : Rank(K, i) = k
  BY <1>1, Ranks
<1>3. r = [k \in 1 .. c |-> q[p[k]]]
  BY DEF Only, Rank
<1>4. \A k \in 1 .. c : p[k] \in K /\ Rank(K, p[k]) = k
  BY <1>2
<1>5. p \in [1 .. c -> K]
  BY <1>4
<1> HIDE DEF c, p, r
<1>6. r \in Seq(Segment) /\ Len(r) = c
  <2>1. \A k \in 1 .. c : q[p[k]] \in Segment
    BY <1>4, ElementOfSeq
  <2>2. r \in [1 .. c -> Segment]
    BY <1>3, <2>1
  <2> QED BY <1>2, <2>2
<1>7. ASSUME NEW k \in 1 .. c, NEW l \in 1 .. c, k < l PROVE p[k] < p[l]
  <2> DEFINE i == p[k]
             j == p[l]
  <2>1. i \in K /\ j \in K /\ Rank(K, i) = k /\ Rank(K, j) = l /\ i \in Int /\ j \in Int
    BY <1>1, <1>4
  <2> HIDE DEF i, j
  <2>2. i # j
    BY <1>7, <2>1
  <2>3. j < i => Rank(K, j) < Rank(K, i)
    BY <1>2, <2>1
  <2>4. i < j
    BY <1>7, <2>1, <2>2, <2>3
  <2> QED BY <2>4 DEF i, j
<1>8. ASSUME NEW i \in K PROVE \E k \in 1 .. c : p[k] = i
  <2> DEFINE k == Rank(K, i)
             j == p[k]
  <2>1. k \in 1 .. c /\ j \in K /\ Rank(K, j) = k /\ Rank(K, i) = k /\ i \in Int /\ j \in Int
    BY <1>1, <1>2, <1>4
  <2>2. p[k] = j
    OBVIOUS
  <2> HIDE DEF k, j
  <2>3. i < j => Rank(K, i) < Rank(K, j)
    BY <1>2, <2>1
  <2>4. j < i => Rank(K, j) < Rank(K, i)
    BY <1>2, <2>1
  <2>5. j = i
    BY <2>1, <2>3, <2>4
  <2> QED BY <2>1, <2>2, <2>5
<1>9. p \in [1 .. Len(r) -> 1 .. Len(q)]
  BY <1>5, <1>6
<1>10. Thinned(q, r, tn)
  BY <1>3, <1>6, <1>7, <1>8, <1>9 DEF Thinned
<1> QED BY <1>2, <1>6, <1>10 DEF r

(* Taking out one frame of a torn SDU. *)
LEMMA WithoutThins ==
    ASSUME NEW q \in Seq(Segment), NEW r \in Seq(Segment), NEW i, Without(q, r, i), NEW tn,
           Sdu(q[i]) \in tn
    PROVE  Thinned(q, r, tn)
<1> DEFINE p == [k \in 1 .. Len(r) |-> IF k < i THEN k ELSE k + 1]
<1>1. i \in 1 .. Len(q) /\ Len(r) = Len(q) - 1 /\ Len(q) \in Nat
  BY DEF Without
<1>2. p \in [1 .. Len(r) -> 1 .. Len(q)]
  BY <1>1
<1>3. \A k, l \in 1 .. Len(r) : k < l => p[k] < p[l]
  BY <1>1
<1>4. \A k \in 1 .. Len(r) : r[k] = q[p[k]]
  BY <1>1 DEF Without
<1>5. ASSUME NEW j \in 1 .. Len(q), j # i PROVE \E k \in 1 .. Len(r) : p[k] = j
  <2>1. CASE j < i
    <3>1. j \in 1 .. Len(r) /\ p[j] = j
      BY <1>1, <2>1
    <3> QED BY <3>1
  <2>2. CASE j > i
    <3>1. j - 1 \in 1 .. Len(r) /\ p[j - 1] = j
      BY <1>1, <2>2
    <3> QED BY <3>1
  <2> QED BY <1>1, <1>5, <2>1, <2>2
<1> HIDE DEF p
<1> QED BY <1>2, <1>3, <1>4, <1>5 DEF Thinned

(* RemoveAt takes out one element, and leaves what follows in the wait queue. *)
LEMMA RemovedAt ==
    ASSUME NEW l \in Seq(Segment), NEW w \in Seq(Segment), NEW i \in 1 .. Len(l)
    PROVE  LET r == RemoveAt(l, i)
           IN  /\ r \in Seq(Segment) /\ Without(l, r, i) /\ Without(l \o w, r \o w, i)
               /\ l \o w \in Seq(Segment) /\ r \o w \in Seq(Segment)
<1> DEFINE a == SubSeq(l, 1, i - 1)
           b == SubSeq(l, i + 1, Len(l))
           r == RemoveAt(l, i)
<1>1. Len(l) \in Nat /\ i \in Int /\ \A k \in 1 .. Len(l) : l[k] \in Segment
  OBVIOUS
<1>2. a \in Seq(Segment) /\ Len(a) = i - 1 /\ \A k \in 1 .. i - 1 : a[k] = l[k]
  <2>1. \A k \in 1 .. i - 1 : l[k] \in Segment
    BY <1>1
  <2> QED BY <1>1, <2>1, SubSeqProperties, SMTT(30)
<1>3. b \in Seq(Segment) /\ Len(b) = Len(l) - i /\ \A k \in 1 .. Len(l) - i : b[k] = l[i + k]
  <2>1. \A k \in i + 1 .. Len(l) : l[k] \in Segment
    BY <1>1
  <2> QED BY <1>1, <2>1, SubSeqProperties, SMTT(30)
<1>4. r = a \o b
  BY DEF RemoveAt
<1> HIDE DEF a, b, r
<1>5. r \in Seq(Segment) /\ Len(r) = Len(l) - 1
      /\ \A k \in 1 .. Len(r) : r[k] = IF k < i THEN l[k] ELSE l[k + 1]
  <2>1. r \in Seq(Segment) /\ Len(r) = Len(a) + Len(b)
        /\ \A k \in 1 .. Len(a) + Len(b) : r[k] = IF k <= Len(a) THEN a[k] ELSE b[k - Len(a)]
    BY <1>2, <1>3, <1>4, ConcatProperties
  <2>2. ASSUME NEW k \in 1 .. Len(r) PROVE r[k] = IF k < i THEN l[k] ELSE l[k + 1]
    <3>1. k \in 1 .. Len(l) - 1 /\ i \in 1 .. Len(l)
      BY <1>1, <1>2, <1>3, <2>1
    <3>2. CASE k < i
      <4>1. k \in 1 .. i - 1 /\ k <= Len(a)
        BY <1>1, <1>2, <3>1, <3>2
      <4> QED BY <1>2, <2>1, <2>2, <3>2, <4>1
    <3>3. CASE ~ (k < i)
      <4>1. ~ (k <= Len(a)) /\ k - Len(a) \in 1 .. Len(l) - i /\ i + (k - Len(a)) = k + 1
        BY <1>1, <1>2, <3>1, <3>3
      <4> QED BY <1>3, <2>1, <2>2, <3>3, <4>1
    <3> QED BY <3>2, <3>3
  <2>3. Len(a) + Len(b) = Len(l) - 1
    BY <1>1, <1>2, <1>3
  <2>4. r \in Seq(Segment) /\ Len(r) = Len(l) - 1
    BY <2>1, <2>3
  <2> QED BY <2>2, <2>4
<1>6. /\ l \o w \in Seq(Segment) /\ Len(l \o w) = Len(l) + Len(w)
      /\ \A k \in 1 .. Len(l) + Len(w) : (l \o w)[k] = IF k <= Len(l) THEN l[k] ELSE w[k - Len(l)]
  BY ConcatProperties
<1>7. /\ r \o w \in Seq(Segment) /\ Len(r \o w) = Len(r) + Len(w)
      /\ \A k \in 1 .. Len(r) + Len(w) : (r \o w)[k] = IF k <= Len(r) THEN r[k] ELSE w[k - Len(r)]
  BY <1>5, ConcatProperties
<1>8. Len(w) \in Nat
  OBVIOUS
<1>9. Without(l \o w, r \o w, i)
  BY <1>1, <1>5, <1>6, <1>7, <1>8 DEF Without
<1> QED BY <1>5, <1>6, <1>7, <1>9 DEF Without, r

(* So does Tail with the first. *)
LEMMA TailRemoved ==
    ASSUME NEW l \in Seq(Segment), l # <<>>
    PROVE  1 \in 1 .. Len(l) /\ Tail(l) = RemoveAt(l, 1) /\ Head(l) = l[1]
<1>1. Len(l) \in Nat /\ Len(l) # 0
  BY EmptySeq
<1>2. Tail(l) = SubSeq(l, 2, Len(l)) /\ Tail(l) \in Seq(Segment)
  BY TailIsSubSeq, HeadTailProperties
<1>3. SubSeq(l, 1, 0) = <<>>
  BY SubSeqEmpty
<1>4. <<>> \o Tail(l) = Tail(l)
  BY <1>2, ConcatEmptySeq
<1>5. RemoveAt(l, 1) = SubSeq(l, 1, 0) \o SubSeq(l, 2, Len(l))
  BY DEF RemoveAt
<1> QED BY <1>1, <1>2, <1>3, <1>4, <1>5

(* Nothing need be taken out. *)
LEMMA ThinnedSame ==
    ASSUME NEW q \in Seq(Segment), NEW tn
    PROVE  Thinned(q, q, tn)
<1> DEFINE p == [k \in 1 .. Len(q) |-> k]
<1>1. /\ p \in [1 .. Len(q) -> 1 .. Len(q)]
      /\ \A k, l \in 1 .. Len(q) : k < l => p[k] < p[l]
      /\ \A k \in 1 .. Len(q) : q[k] = q[p[k]]
      /\ \A i \in 1 .. Len(q) : p[i] = i
  OBVIOUS
<1> HIDE DEF p
<1> QED BY <1>1 DEF Thinned

(* The wait queue may go as well. *)
LEMMA ThinnedWait ==
    ASSUME NEW l \in Seq(Segment), NEW w \in Seq(Segment), NEW r \in Seq(Segment), NEW tn,
           Thinned(l, r, tn), SdusOf(w) \subseteq tn
    PROVE  Thinned(l \o w, r, tn)
<1>1. PICK p \in [1 .. Len(r) -> 1 .. Len(l)] :
        /\ \A k, m \in 1 .. Len(r) : k < m => p[k] < p[m]
        /\ \A k \in 1 .. Len(r) : r[k] = l[p[k]]
        /\ \A i \in 1 .. Len(l) : (\E k \in 1 .. Len(r) : p[k] = i) \/ Sdu(l[i]) \in tn
  BY DEF Thinned
<1> DEFINE q == l \o w
<1>2. /\ Len(q) = Len(l) + Len(w) /\ Len(l) \in Nat /\ Len(w) \in Nat
      /\ \A i \in 1 .. Len(q) : q[i] = IF i <= Len(l) THEN l[i] ELSE w[i - Len(l)]
  BY ConcatProperties, LenProperties
<1> HIDE DEF q
<1>3. p \in [1 .. Len(r) -> 1 .. Len(q)]
  BY <1>2
<1>4. \A k \in 1 .. Len(r) : r[k] = q[p[k]]
  <2> TAKE k \in 1 .. Len(r)
  <2>1. p[k] \in 1 .. Len(l) /\ r[k] = l[p[k]]
    BY <1>1
  <2>2. p[k] \in 1 .. Len(q) /\ p[k] <= Len(l)
    BY <1>2, <2>1
  <2> QED BY <1>2, <2>1, <2>2
<1>5. ASSUME NEW i \in 1 .. Len(q) PROVE (\E k \in 1 .. Len(r) : p[k] = i) \/ Sdu(q[i]) \in tn
  <2>1. CASE i <= Len(l)
    <3>1. i \in 1 .. Len(l) /\ q[i] = l[i]
      BY <1>2, <2>1
    <3> QED BY <1>1, <3>1
  <2>2. CASE ~ (i <= Len(l))
    <3>1. i - Len(l) \in DOMAIN w /\ q[i] = w[i - Len(l)]
      BY <1>2, <2>2
    <3>2. Sdu(w[i - Len(l)]) \in SdusOf(w)
      BY <3>1 DEF SdusOf, ToSet
    <3> QED BY <3>1, <3>2
  <2> QED BY <2>1, <2>2
<1>6. Thinned(q, r, tn)
  BY <1>1, <1>3, <1>4, <1>5 DEF Thinned
<1> QED BY <1>6 DEF q

(* What goes on goes on in the thinned row, unless it is torn now. *)
LEMMA ThinnedGoesOn ==
    ASSUME NEW q \in Seq(Segment), NEW r \in Seq(Segment), NEW sz, NEW sg, NEW g, NEW tn,
           NEW p \in [1 .. Len(r) -> 1 .. Len(q)],
           \A k, l \in 1 .. Len(r) : k < l => p[k] < p[l],
           \A k \in 1 .. Len(r) : r[k] = q[p[k]],
           \A i \in 1 .. Len(q) : (\E k \in 1 .. Len(r) : p[k] = i) \/ Sdu(q[i]) \in tn,
           g = sg \/ Len(sz) \in tn,
           NEW d, d \notin tn, NEW o, NEW i \in 0 .. Len(r),
           GoesOn(q, sz, sg, d, o, IF i = 0 THEN 1 ELSE p[i] + 1)
    PROVE  GoesOn(r, sz, g, d, o, i + 1)
<1> DEFINE n == IF i = 0 THEN 1 ELSE p[i] + 1
<1>1. Len(q) \in Nat /\ Len(r) \in Nat /\ n \in Nat \ {0}
  OBVIOUS
<1>2. \A k \in 1 .. Len(r) : k > i => p[k] >= n
  <2> TAKE k \in 1 .. Len(r)
  <2> HAVE k > i
  <2>1. p[k] \in 1 .. Len(q)
    OBVIOUS
  <2>2. CASE i = 0
    BY <2>1, <2>2
  <2>3. CASE i # 0
    <3>1. i \in 1 .. Len(r) /\ i < k /\ p[i] \in 1 .. Len(q)
      BY <2>3
    <3>2. p[i] < p[k]
      BY <3>1
    <3> QED BY <2>1, <2>3, <3>1, <3>2
  <2> QED BY <2>2, <2>3
<1>3. \A k \in 1 .. Len(r) : k <= i => p[k] < n
  <2> TAKE k \in 1 .. Len(r)
  <2> HAVE k <= i
  <2>1. i \in 1 .. Len(r) /\ i # 0 /\ p[k] \in 1 .. Len(q) /\ p[i] \in 1 .. Len(q) /\ k \in Int /\ i \in Int
    OBVIOUS
  <2>2. p[k] = p[i] \/ p[k] < p[i]
    <3>1. k = i \/ k < i
      BY <2>1
    <3> QED BY <2>1, <3>1
  <2> QED BY <2>1, <2>2
<1>4. GoesOn(q, sz, sg, d, o, n)
  OBVIOUS
<1> HIDE DEF n
<1>5. CASE n <= Len(q) /\ Sdu(q[n]) = d /\ Start(q[n]) = o
  <2>1. PICK k \in 1 .. Len(r) : p[k] = n
    BY <1>1, <1>5
  <2>2. k > i
    BY <1>1, <1>3, <2>1
  <2>3. ~ (i + 1 < k)
    <3> SUFFICES ASSUME i + 1 < k PROVE FALSE
      OBVIOUS
    <3>1. i + 1 \in 1 .. Len(r) /\ i + 1 > i
      BY <1>1
    <3>2. p[i + 1] < p[k] /\ p[i + 1] >= n /\ p[i + 1] \in 1 .. Len(q)
      BY <1>2, <3>1
    <3> QED BY <1>1, <2>1, <3>2
  <2>4. k = i + 1
    BY <2>2, <2>3
  <2>5. r[i + 1] = q[n] /\ i + 1 <= Len(r)
    BY <2>1, <2>4
  <2> QED BY <1>5, <2>5 DEF GoesOn
<1>6. CASE n = Len(q) + 1 /\ sg.flag = "IN_PROGRESS" /\ d = Len(sz) /\ sg.octets = o
  <2>1. ~ (i < Len(r))
    <3> SUFFICES ASSUME i < Len(r) PROVE FALSE
      OBVIOUS
    <3>1. i + 1 \in 1 .. Len(r) /\ i + 1 > i
      BY <1>1
    <3>2. p[i + 1] >= n /\ p[i + 1] \in 1 .. Len(q)
      BY <1>2, <3>1
    <3> QED BY <1>1, <1>6, <3>2
  <2>2. i + 1 = Len(r) + 1
    BY <1>1, <2>1
  <2> QED BY <1>6, <2>2 DEF GoesOn
<1> QED BY <1>4, <1>5, <1>6 DEF GoesOn

(* The row keeps its order when frames of torn SDUs are taken out. *)
LEMMA ThinnedRow ==
    ASSUME NEW q \in Seq(Segment), NEW r \in Seq(Segment), NEW sz, NEW sg, NEW g, NEW tn, NEW tm,
           AllCut(q, sz), Once(q), Unbroken(q, sz, sg, tn),
           Thinned(q, r, tm), tn \subseteq tm, g = sg \/ Len(sz) \in tm
    PROVE  /\ AllCut(r, sz) /\ Once(r) /\ Unbroken(r, sz, g, tm)
           /\ \A d : Ahead(r, d) => Ahead(q, d)
           /\ \A d : d \notin tm /\ Ahead(q, d) => Ahead(r, d)
           /\ \A d, o : d \notin tm /\ GoesOn(q, sz, sg, d, o, 1) => GoesOn(r, sz, g, d, o, 1)
<1>1. PICK p \in [1 .. Len(r) -> 1 .. Len(q)] :
        /\ \A k, l \in 1 .. Len(r) : k < l => p[k] < p[l]
        /\ \A k \in 1 .. Len(r) : r[k] = q[p[k]]
        /\ \A i \in 1 .. Len(q) : (\E k \in 1 .. Len(r) : p[k] = i) \/ Sdu(q[i]) \in tm
  BY DEF Thinned
<1>2. AllCut(r, sz)
  BY <1>1 DEF AllCut
<1>3. Once(r)
  <2> SUFFICES ASSUME NEW i \in 1 .. Len(r), NEW j \in 1 .. Len(r), Start(r[i]) = 0, Start(r[j]) = 0,
                      Sdu(r[i]) = Sdu(r[j])
               PROVE  i = j
    BY DEF Once
  <2>1. p[i] = p[j]
    <3>1. p[i] \in 1 .. Len(q) /\ p[j] \in 1 .. Len(q) /\ r[i] = q[p[i]] /\ r[j] = q[p[j]]
      BY <1>1
    <3> QED BY <3>1 DEF Once
  <2>2. i \in Int /\ j \in Int /\ p[i] \in Int
    BY <1>1
  <2>3. ~ (i < j) /\ ~ (j < i)
    BY <1>1, <2>1, <2>2
  <2> QED BY <2>2, <2>3
<1>4. ASSUME NEW i \in 1 .. Len(r), Sdu(r[i]) \notin tm, Stop(r[i]) < sz[Sdu(r[i])]
      PROVE  GoesOn(r, sz, g, Sdu(r[i]), Stop(r[i]), i + 1)
  <2>1. r[i] = q[p[i]] /\ p[i] \in 1 .. Len(q) /\ Sdu(r[i]) \notin tn
    BY <1>1, <1>4
  <2>2. GoesOn(q, sz, sg, Sdu(r[i]), Stop(r[i]), p[i] + 1)
    BY <1>4, <2>1 DEF Unbroken
  <2>3. i \in 0 .. Len(r) /\ i # 0
    OBVIOUS
  <2> QED BY <1>1, <1>4, <2>2, <2>3, ThinnedGoesOn
<1>5. Unbroken(r, sz, g, tm)
  BY <1>4 DEF Unbroken
<1>6. ASSUME NEW d, Ahead(r, d) PROVE Ahead(q, d)
  BY <1>1, <1>6 DEF Ahead
<1>7. ASSUME NEW d, d \notin tm, Ahead(q, d) PROVE Ahead(r, d)
  <2>1. PICK i \in 1 .. Len(q) : Sdu(q[i]) = d /\ Start(q[i]) = 0
    BY <1>7 DEF Ahead
  <2>2. PICK k \in 1 .. Len(r) : p[k] = i
    BY <1>1, <1>7, <2>1
  <2> QED BY <1>1, <2>1, <2>2 DEF Ahead
<1>8. ASSUME NEW d, NEW o, d \notin tm, GoesOn(q, sz, sg, d, o, 1) PROVE GoesOn(r, sz, g, d, o, 1)
  <2>1. GoesOn(r, sz, g, d, o, 0 + 1)
    <3>1. 0 \in 0 .. Len(r)
      OBVIOUS
    <3>2. GoesOn(q, sz, sg, d, o, IF 0 = 0 THEN 1 ELSE p[0] + 1)
      BY <1>8
    <3> QED BY <1>1, <1>8, <3>1, <3>2, ThinnedGoesOn
  <2>2. 0 + 1 = 1
    OBVIOUS
  <2> QED BY <2>1, <2>2
<1> QED BY <1>2, <1>3, <1>5, <1>6, <1>7, <1>8

(* So does the link the order of its bypass frames. *)
LEMMA ThinnedOrdered ==
    ASSUME NEW q \in Seq(Segment), NEW r \in Seq(Segment), NEW tn, NEW tm,
           Ordered(q, tn), Thinned(q, r, tm), tn \subseteq tm
    PROVE  Ordered(r, tm)
<1>1. PICK p \in [1 .. Len(r) -> 1 .. Len(q)] :
        /\ \A k, l \in 1 .. Len(r) : k < l => p[k] < p[l]
        /\ \A k \in 1 .. Len(r) : r[k] = q[p[k]]
  BY DEF Thinned
<1> QED BY <1>1 DEF Ordered

-----------------------------------------------------------------------------
(* Counting the SDUs that are lost and those that are torn. *)

LEMMA CountKept ==
    ASSUME NEW L, NEW S, NEW M, NEW T, IsFiniteSet(L), IsFiniteSet(T),
           Cardinality(L) <= Cardinality(S), M \subseteq L, S \subseteq T
    PROVE  Cardinality(M) <= Cardinality(T)
<1>1. IsFiniteSet(M) /\ Cardinality(M) <= Cardinality(L)
  BY FS_Subset
<1>2. IsFiniteSet(S) /\ Cardinality(S) <= Cardinality(T)
  BY FS_Subset
<1>3. /\ Cardinality(L) \in Nat /\ Cardinality(S) \in Nat
      /\ Cardinality(M) \in Nat /\ Cardinality(T) \in Nat
  BY <1>1, <1>2, FS_CardinalityType
<1> QED BY <1>1, <1>2, <1>3

LEMMA CountOneMore ==
    ASSUME NEW L, NEW S, NEW M, NEW T, NEW m, NEW x, IsFiniteSet(L), IsFiniteSet(T),
           Cardinality(L) <= Cardinality(S), M \subseteq L \cup {m}, S \cup {x} \subseteq T, x \notin S
    PROVE  Cardinality(M) <= Cardinality(T)
<1>1. IsFiniteSet(S)
  BY FS_Subset
<1>2. IsFiniteSet(L \cup {m}) /\ Cardinality(L \cup {m}) <= Cardinality(L) + 1
  <2>1. Cardinality(L) \in Nat
    BY FS_CardinalityType
  <2>2. IsFiniteSet(L \cup {m})
        /\ Cardinality(L \cup {m}) = IF m \in L THEN Cardinality(L) ELSE Cardinality(L) + 1
    BY FS_AddElement
  <2> QED BY <2>1, <2>2
<1>3. IsFiniteSet(S \cup {x}) /\ Cardinality(S \cup {x}) = Cardinality(S) + 1
  BY <1>1, FS_AddElement
<1>4. Cardinality(L \cup {m}) <= Cardinality(S \cup {x})
  <2>1. Cardinality(L) \in Nat /\ Cardinality(S) \in Nat /\ Cardinality(L \cup {m}) \in Nat
    BY <1>1, <1>2, FS_CardinalityType
  <2> QED BY <1>2, <1>3, <2>1
<1> QED BY <1>2, <1>4, CountKept

(***************************************************************************)
(* No SDU is lost without being torn or arriving, as long as one that      *)
(* leaves the loop is torn, arrives or is too long.                        *)
(***************************************************************************)
LEMMA PaidOn ==
    ASSUME NEW a, NEW b, NEW q, NEW r, NEW sz \in Seq(Sizes), NEW tn, NEW tm, NEW arr, NEW brr,
           Paid(a, q, sz, tn, arr), tn \subseteq tm, tm \subseteq 1 .. Len(sz), arr \subseteq brr,
           \A d : Ahead(r, d) => Ahead(q, d),
           \A d : d \notin tm /\ d \notin brr /\ Ahead(q, d) =>
                      Ahead(r, d) \/ (b.loop = "OPEN" /\ Opener(b) = d),
           a.loop = "OPEN" =>
               \/ b.loop = "OPEN" /\ Opener(b) = Opener(a)
               \/ Opener(a) \in tm \cup brr \/ ~ (sz[Opener(a)] <= MaxSdu),
           b.loop = "OPEN" =>
               (a.loop = "OPEN" /\ Opener(b) = Opener(a)) \/ Ahead(q, Opener(b))
    PROVE  Paid(b, r, sz, tm, brr)
<1>1. Lost(b, r, sz, tm, brr) \subseteq Lost(a, q, sz, tn, arr)
  BY DEF Lost, Left
<1>2. Spent(a, q, tn) \subseteq Spent(b, r, tm)
  BY DEF Spent, Left
<1>3. IsFiniteSet(1 .. Len(sz))
  BY FS_Interval
<1>4. IsFiniteSet(Lost(a, q, sz, tn, arr)) /\ IsFiniteSet(Spent(b, r, tm))
  <2>1. Lost(a, q, sz, tn, arr) \in SUBSET (1 .. Len(sz)) /\ Spent(b, r, tm) \in SUBSET (1 .. Len(sz))
    BY DEF Lost, Spent
  <2> QED BY <1>3, <2>1, FS_Subset
<1> QED BY <1>1, <1>2, <1>4, CountKept DEF Paid

(* A first segment that meets the open loop of a torn SDU is lost, and the torn one has paid. *)
LEMMA PaidFor ==
    ASSUME NEW a, NEW b, NEW q, NEW r, NEW sz \in Seq(Sizes), NEW tn, NEW arr, NEW m,
           Paid(a, q, sz, tn, arr), tn \subseteq 1 .. Len(sz),
           a.loop = "OPEN", Opener(a) \in tn, ~ Ahead(q, Opener(a)), b.loop # "OPEN",
           \A d : Ahead(r, d) => Ahead(q, d),
           \A d : d # m /\ Ahead(q, d) => Ahead(r, d)
    PROVE  Paid(b, r, sz, tn, arr)
<1>1. Lost(b, r, sz, tn, arr) \subseteq Lost(a, q, sz, tn, arr) \cup {m}
  BY DEF Lost, Left
<1>2. Spent(a, q, tn) \cup {Opener(a)} \subseteq Spent(b, r, tn) /\ Opener(a) \notin Spent(a, q, tn)
  BY DEF Spent, Left
<1>3. IsFiniteSet(1 .. Len(sz))
  BY FS_Interval
<1>4. IsFiniteSet(Lost(a, q, sz, tn, arr)) /\ IsFiniteSet(Spent(b, r, tn))
  <2>1. Lost(a, q, sz, tn, arr) \in SUBSET (1 .. Len(sz)) /\ Spent(b, r, tn) \in SUBSET (1 .. Len(sz))
    BY DEF Lost, Spent
  <2> QED BY <1>3, <2>1, FS_Subset
<1>5. Cardinality(Lost(a, q, sz, tn, arr)) <= Cardinality(Spent(a, q, tn))
  BY DEF Paid
<1> DEFINE L == Lost(a, q, sz, tn, arr)
           S == Spent(a, q, tn)
           M == Lost(b, r, sz, tn, arr)
           T == Spent(b, r, tn)
           x == Opener(a)
<1>6. Cardinality(M) <= Cardinality(T)
  <2>1. /\ IsFiniteSet(L) /\ IsFiniteSet(T) /\ Cardinality(L) <= Cardinality(S)
        /\ M \subseteq L \cup {m} /\ S \cup {x} \subseteq T /\ x \notin S
    BY <1>1, <1>2, <1>4, <1>5
  <2> HIDE DEF L, S, M, T, x
  <2> QED BY <2>1, CountOneMore
<1> QED BY <1>6 DEF Paid

(* The row and the loop, and that the losses are paid for. *)
Follows(a, q, sz, sg, tn, arr) ==
    /\ AllCut(q, sz) /\ Once(q) /\ Unbroken(q, sz, sg, tn)
    /\ Joining(a, q, sz, sg, tn) /\ Paid(a, q, sz, tn, arr)

(* A loss tears what is lost, and changes nothing in the loop. *)
LEMMA LossKeeps ==
    ASSUME NEW a, NEW q \in Seq(Segment), NEW r \in Seq(Segment), NEW sz \in Seq(Sizes),
           NEW sg, NEW g, NEW tn, NEW tm, NEW arr,
           Follows(a, q, sz, sg, tn, arr), Thinned(q, r, tm), tn \subseteq tm, tm \subseteq 1 .. Len(sz), g = sg \/ Len(sz) \in tm
    PROVE  Follows(a, r, sz, g, tm, arr)
<1>1. /\ AllCut(r, sz) /\ Once(r) /\ Unbroken(r, sz, g, tm)
      /\ \A d : Ahead(r, d) => Ahead(q, d)
      /\ \A d : d \notin tm /\ Ahead(q, d) => Ahead(r, d)
      /\ \A d, o : d \notin tm /\ GoesOn(q, sz, sg, d, o, 1) => GoesOn(r, sz, g, d, o, 1)
  BY ThinnedRow DEF Follows
<1>2. Joining(a, r, sz, g, tm)
  BY <1>1 DEF Joining, Follows
<1>3. Paid(a, r, sz, tm, arr)
  BY <1>1, PaidOn DEF Follows
<1> QED BY <1>1, <1>2, <1>3 DEF Follows

-----------------------------------------------------------------------------
(* Hearing a frame of the row. *)

(* The frame heard is the first, or overtakes others, and then both are torn. *)
MayBeHeard(q, tn, i) == i = 1 \/ (Sdu(q[i]) \in tn /\ Sdu(q[1]) \in tn)

LEMMA HeardRow ==
    ASSUME NEW q \in Seq(Segment), NEW r \in Seq(Segment), NEW sz \in Seq(Sizes), NEW sg, NEW tn,
           AllCut(q, sz), Once(q), Unbroken(q, sz, sg, tn), NEW i, Without(q, r, i), MayBeHeard(q, tn, i)
    PROVE  /\ AllCut(r, sz) /\ Once(r) /\ Unbroken(r, sz, sg, tn)
           /\ \A d : Ahead(r, d) => Ahead(q, d)
           /\ \A d : Ahead(q, d) => Ahead(r, d) \/ (d = Sdu(q[i]) /\ Start(q[i]) = 0)
           /\ Start(q[i]) = 0 => ~ Ahead(r, Sdu(q[i])) /\ Ahead(q, Sdu(q[i]))
           /\ Sdu(q[i]) \notin tn /\ Stop(q[i]) < sz[Sdu(q[i])] =>
                 GoesOn(r, sz, sg, Sdu(q[i]), Stop(q[i]), 1)
<1>1. /\ i \in 1 .. Len(q) /\ Len(r) = Len(q) - 1 /\ Len(q) \in Nat /\ Len(r) \in Nat
      /\ \A k \in 1 .. Len(r) : r[k] = IF k < i THEN q[k] ELSE q[k + 1]
  BY SMTT(30) DEF Without
<1>2. AllCut(r, sz)
  BY <1>1, SMTT(30) DEF AllCut
<1>3. Once(r)
  <2> SUFFICES ASSUME NEW j \in 1 .. Len(r), NEW k \in 1 .. Len(r), Start(r[j]) = 0, Start(r[k]) = 0,
                      Sdu(r[j]) = Sdu(r[k])
               PROVE  j = k
    BY DEF Once
  <2> DEFINE s == IF j < i THEN j ELSE j + 1
             t == IF k < i THEN k ELSE k + 1
  <2>1. s \in 1 .. Len(q) /\ t \in 1 .. Len(q) /\ r[j] = q[s] /\ r[k] = q[t]
    BY <1>1, SMTT(30)
  <2>2. s = t
    BY <2>1 DEF Once
  <2> QED BY <1>1, <2>2
<1>4. ASSUME NEW d, NEW o, NEW k \in 1 .. Len(q), i = 1, GoesOn(q, sz, sg, d, o, k + 1)
      PROVE  GoesOn(r, sz, sg, d, o, k)
  <2>1. CASE k + 1 <= Len(q) /\ Sdu(q[k + 1]) = d /\ Start(q[k + 1]) = o
    <3>1. k \in 1 .. Len(r) /\ r[k] = q[k + 1] /\ k <= Len(r)
      BY <1>1, <1>4, <2>1
    <3> QED BY <2>1, <3>1 DEF GoesOn
  <2>2. CASE k + 1 = Len(q) + 1 /\ sg.flag = "IN_PROGRESS" /\ d = Len(sz) /\ sg.octets = o
    <3>1. k = Len(r) + 1
      BY <1>1, <2>2
    <3> QED BY <2>2, <3>1 DEF GoesOn
  <2> QED BY <1>4, <2>1, <2>2 DEF GoesOn
<1>5. Unbroken(r, sz, sg, tn)
  <2>1. CASE i = 1
    <3> SUFFICES ASSUME NEW k \in 1 .. Len(r), Sdu(r[k]) \notin tn, Stop(r[k]) < sz[Sdu(r[k])]
                 PROVE  GoesOn(r, sz, sg, Sdu(r[k]), Stop(r[k]), k + 1)
      BY DEF Unbroken
    <3>1. r[k] = q[k + 1] /\ k + 1 \in 1 .. Len(q)
      BY <1>1, <2>1, SMTT(30)
    <3>2. GoesOn(q, sz, sg, Sdu(r[k]), Stop(r[k]), (k + 1) + 1)
      BY <3>1 DEF Unbroken
    <3> QED BY <1>4, <2>1, <3>1, <3>2
  <2>2. CASE Sdu(q[i]) \in tn
    <3>1. Thinned(q, r, tn)
      BY <2>2, WithoutThins
    <3> QED BY <3>1, ThinnedRow
  <2> QED BY <2>1, <2>2 DEF MayBeHeard
<1>6. ASSUME NEW d, Ahead(r, d) PROVE Ahead(q, d)
  <2>1. PICK k \in 1 .. Len(r) : Sdu(r[k]) = d /\ Start(r[k]) = 0
    BY <1>6 DEF Ahead
  <2> DEFINE s == IF k < i THEN k ELSE k + 1
  <2>2. s \in 1 .. Len(q) /\ r[k] = q[s]
    BY <1>1
  <2> QED BY <2>1, <2>2 DEF Ahead
<1>7. ASSUME NEW d, Ahead(q, d) PROVE Ahead(r, d) \/ (d = Sdu(q[i]) /\ Start(q[i]) = 0)
  <2>1. PICK s \in 1 .. Len(q) : Sdu(q[s]) = d /\ Start(q[s]) = 0
    BY <1>7 DEF Ahead
  <2> DEFINE k == IF s < i THEN s ELSE s - 1
  <2>2. CASE s # i
    <3>1. k \in 1 .. Len(r) /\ r[k] = q[s]
      BY <1>1, <2>2, SMTT(30)
    <3> QED BY <2>1, <3>1 DEF Ahead
  <2> QED BY <2>1, <2>2
<1>8. ASSUME Start(q[i]) = 0 PROVE ~ Ahead(r, Sdu(q[i])) /\ Ahead(q, Sdu(q[i]))
  <2>1. Ahead(q, Sdu(q[i]))
    BY <1>1, <1>8 DEF Ahead
  <2>2. ASSUME NEW k \in 1 .. Len(r), Sdu(r[k]) = Sdu(q[i]), Start(r[k]) = 0 PROVE FALSE
    <3> DEFINE s == IF k < i THEN k ELSE k + 1
    <3>1. s \in 1 .. Len(q) /\ r[k] = q[s] /\ s # i
      BY <1>1
    <3> QED BY <1>1, <1>8, <2>2, <3>1 DEF Once
  <2> QED BY <2>1, <2>2 DEF Ahead
<1>9. ASSUME Sdu(q[i]) \notin tn, Stop(q[i]) < sz[Sdu(q[i])]
      PROVE  GoesOn(r, sz, sg, Sdu(q[i]), Stop(q[i]), 1)
  <2>1. i = 1
    BY <1>9 DEF MayBeHeard
  <2>2. GoesOn(q, sz, sg, Sdu(q[i]), Stop(q[i]), i + 1)
    BY <1>1, <1>9 DEF Unbroken
  <2> QED BY <1>1, <1>4, <2>1, <2>2
<1> QED BY <1>2, <1>3, <1>5, <1>6, <1>7, <1>8, <1>9

(* The frame heard goes on where the loop of an SDU that lost nothing stands. *)
LEMMA LoopNext ==
    ASSUME NEW a, NEW q \in Seq(Segment), NEW sz, NEW sg, NEW tn, Joining(a, q, sz, sg, tn),
           NEW i \in 1 .. Len(q), MayBeHeard(q, tn, i), a.loop = "OPEN", Opener(a) \notin tn
    PROVE  i = 1 /\ Sdu(q[i]) = Opener(a) /\ Start(q[i]) = Len(a.buf)
<1>1. GoesOn(q, sz, sg, Opener(a), Len(a.buf), 1)
  BY DEF Joining
<1>2. Len(q) \in Nat /\ Len(q) >= 1
  OBVIOUS
<1>3. Sdu(q[1]) = Opener(a) /\ Start(q[1]) = Len(a.buf)
  BY <1>1, <1>2 DEF GoesOn
<1> QED BY <1>3 DEF MayBeHeard

(* The frame i of the row is heard with the loop a, and r is left. *)
Hearing(a, q, r, sz, sg, tn, arr, i) ==
    /\ q \in Seq(Segment) /\ r \in Seq(Segment) /\ sz \in Seq(Sizes) /\ Len(sz) <= MaxSdus
    /\ AllCut(q, sz) /\ Once(q) /\ Unbroken(q, sz, sg, tn) /\ tn \subseteq 1 .. Len(sz)
    /\ Joining(a, q, sz, sg, tn) /\ Paid(a, q, sz, tn, arr)
    /\ a.loop \in {"OPEN", "CLOSED"} /\ a.buf \in Seq(Octet)
    /\ Without(q, r, i) /\ MayBeHeard(q, tn, i)

LEMMA HeardFrame ==
    ASSUME NEW a, NEW q, NEW r, NEW sz, NEW sg, NEW tn, NEW arr, NEW i,
           Hearing(a, q, r, sz, sg, tn, arr, i)
    PROVE  /\ i \in 1 .. Len(q) /\ Cut(q[i], sz) /\ sz[Sdu(q[i])] \in Nat
           /\ q[i].data \in Seq(Octet) /\ q[i].data # <<>>
           /\ AllCut(r, sz) /\ Once(r) /\ Unbroken(r, sz, sg, tn)
           /\ \A d : Ahead(r, d) => Ahead(q, d)
           /\ \A d : Ahead(q, d) => Ahead(r, d) \/ (d = Sdu(q[i]) /\ Start(q[i]) = 0)
           /\ Start(q[i]) = 0 => ~ Ahead(r, Sdu(q[i])) /\ Ahead(q, Sdu(q[i]))
           /\ Sdu(q[i]) \notin tn /\ Stop(q[i]) < sz[Sdu(q[i])] =>
                 GoesOn(r, sz, sg, Sdu(q[i]), Stop(q[i]), 1)
           /\ a.loop = "OPEN" /\ Opener(a) \notin tn =>
                 Sdu(q[i]) = Opener(a) /\ Start(q[i]) = Len(a.buf)
<1>1. i \in 1 .. Len(q) /\ Cut(q[i], sz)
  BY DEF Hearing, Without, AllCut
<1>2. sz[Sdu(q[i])] \in Nat /\ q[i].data \in Seq(Octet) /\ q[i].data # <<>>
  <2> DEFINE fr == q[i]
  <2>1. /\ Sdu(fr) \in 1 .. Len(sz) /\ sz[Sdu(fr)] \in Nat \ {0} /\ Start(fr) \in 0 .. sz[Sdu(fr)] - 1
        /\ DOMAIN fr.data = 1 .. Len(fr.data) /\ Len(fr.data) \in 1 .. MaxData
        /\ \A k \in 1 .. Len(fr.data) : fr.data[k] = <<Sdu(fr), Start(fr) + k>>
    BY <1>1, CutFacts DEF Hearing
  <2>2. MaxData \in Nat /\ MaxSdus \in Nat /\ Len(sz) \in Nat /\ Len(sz) <= MaxSdus
    BY LengthsAssumption, CapsAssumption DEF Hearing
  <2>3. q[i] \in Segment
    BY <1>1, ElementOfSeq DEF Hearing
  <2>4. fr.data \in Seq(Octet)
    BY <2>3 DEF Segment
  <2> QED BY <2>1, <2>4
<1>3. /\ AllCut(r, sz) /\ Once(r) /\ Unbroken(r, sz, sg, tn)
      /\ \A d : Ahead(r, d) => Ahead(q, d)
      /\ \A d : Ahead(q, d) => Ahead(r, d) \/ (d = Sdu(q[i]) /\ Start(q[i]) = 0)
      /\ Start(q[i]) = 0 => ~ Ahead(r, Sdu(q[i])) /\ Ahead(q, Sdu(q[i]))
      /\ Sdu(q[i]) \notin tn /\ Stop(q[i]) < sz[Sdu(q[i])] =>
            GoesOn(r, sz, sg, Sdu(q[i]), Stop(q[i]), 1)
  BY HeardRow DEF Hearing
<1>4. ASSUME a.loop = "OPEN", Opener(a) \notin tn
      PROVE  Sdu(q[i]) = Opener(a) /\ Start(q[i]) = Len(a.buf)
  BY <1>1, <1>4, LoopNext DEF Hearing
<1> QED BY <1>1, <1>2, <1>3, <1>4

(* An open loop is not empty. *)
LEMMA OpenLoop ==
    ASSUME NEW a, NEW q, NEW sz, NEW sg, NEW tn, Joining(a, q, sz, sg, tn),
           a.loop = "OPEN", a.buf \in Seq(Octet)
    PROVE  /\ Len(a.buf) \in Nat \ {0} /\ a.buf[1] = <<Opener(a), a.buf[1][2]>>
           /\ Opener(a) \in 1 .. Len(sz) /\ ~ Ahead(q, Opener(a))
<1>1. a.buf # <<>> /\ Opener(a) \in 1 .. Len(sz) /\ ~ Ahead(q, Opener(a))
  BY DEF Joining
<1>2. Len(a.buf) \in Nat \ {0}
  BY <1>1, EmptySeq
<1>3. a.buf[1] \in Octet
  BY <1>2, ElementOfSeq
<1>4. a.buf[1] = <<Opener(a), a.buf[1][2]>>
  BY <1>3 DEF Octet, Opener
<1> QED BY <1>1, <1>2, <1>4

(* A sequence of the first octets of an SDU. *)
LEMMA OctetsOf ==
    ASSUME NEW S, NEW s \in Seq(S), NEW n, n = Len(s), NEW d, \A k \in 1 .. n : s[k] = <<d, k>>
    PROVE  s = Octets(d, n)
<1>1. s \in [1 .. n -> S]
  BY LenProperties
<1>2. s = [k \in 1 .. n |-> s[k]]
  BY <1>1
<1>3. [k \in 1 .. n |-> s[k]] = [k \in 1 .. n |-> <<d, k>>]
  OBVIOUS
<1> QED BY <1>2, <1>3 DEF Octets

(* A segment that is all of its SDU. *)
LEMMA UnsegWhole ==
    ASSUME NEW sz \in Seq(Sizes), NEW fr, Cut(fr, sz), fr.data \in Seq(Octet), fr.flag = "UNSEG"
    PROVE  fr.data = Octets(Sdu(fr), sz[Sdu(fr)]) /\ Start(fr) = 0
<1> DEFINE d == Sdu(fr)
<1>1. /\ Start(fr) = 0 /\ Stop(fr) = sz[d] /\ Stop(fr) = Start(fr) + Len(fr.data)
      /\ \A k \in 1 .. Len(fr.data) : fr.data[k] = <<d, Start(fr) + k>>
      /\ Len(fr.data) \in 1 .. MaxData
  BY CutFacts
<1>2. MaxData \in Nat
  BY LengthsAssumption
<1>3. Len(fr.data) = sz[d] /\ \A k \in 1 .. sz[d] : fr.data[k] = <<d, k>>
  BY <1>1, <1>2
<1>4. fr.data = Octets(d, sz[d])
  BY <1>3, OctetsOf
<1> QED BY <1>1, <1>4

(* An SDU in one segment arrives; the loop it closes was one of a torn SDU. *)
LEMMA HeardUnseg ==
    ASSUME NEW a, NEW q, NEW r, NEW sz, NEW sg, NEW tn, NEW arr, NEW i,
           Hearing(a, q, r, sz, sg, tn, arr, i), q[i].flag = "UNSEG",
           NEW brr, arr \cup {Sdu(q[i])} \subseteq brr
    PROVE  Paid(Closed, r, sz, tn, brr)
<1> DEFINE fr == q[i]
           d == Sdu(fr)
<1>1. /\ i \in 1 .. Len(q) /\ Cut(fr, sz) /\ sz[d] \in Nat /\ fr.data \in Seq(Octet)
      /\ \A e : Ahead(r, e) => Ahead(q, e)
      /\ \A e : Ahead(q, e) => Ahead(r, e) \/ (e = d /\ Start(fr) = 0)
      /\ a.loop = "OPEN" /\ Opener(a) \notin tn => d = Opener(a) /\ Start(fr) = Len(a.buf)
  BY HeardFrame
<1>2. Start(fr) = 0
  BY <1>1, UnsegWhole DEF Hearing
<1>3. a.loop = "OPEN" => Opener(a) \in tn
  <2>1. a.loop = "OPEN" => Len(a.buf) # 0
    BY OpenLoop DEF Hearing
  <2> QED BY <1>1, <1>2, <2>1
<1> QED BY <1>1, <1>3, PaidOn, ZenonT(60) DEF Hearing, Closed

(* A first segment opens the loop; one that meets an open loop is lost for a torn SDU. *)
LEMMA HeardFirst ==
    ASSUME NEW a, NEW q, NEW r, NEW sz, NEW sg, NEW tn, NEW arr, NEW i,
           Hearing(a, q, r, sz, sg, tn, arr, i), q[i].flag = "FIRST",
           NEW b, b.loop = "OPEN", b.buf = q[i].data
    PROVE  /\ a.loop = "CLOSED" => Joining(b, r, sz, sg, tn) /\ Paid(b, r, sz, tn, arr)
           /\ a.loop = "OPEN" => Paid(Closed, r, sz, tn, arr)
<1> DEFINE fr == q[i]
           d == Sdu(fr)
<1>1. /\ i \in 1 .. Len(q) /\ Cut(fr, sz) /\ sz[d] \in Nat
      /\ fr.data \in Seq(Octet) /\ fr.data # <<>>
      /\ \A e : Ahead(r, e) => Ahead(q, e)
      /\ \A e : Ahead(q, e) => Ahead(r, e) \/ (e = d /\ Start(fr) = 0)
      /\ Start(fr) = 0 => ~ Ahead(r, d) /\ Ahead(q, d)
      /\ d \notin tn /\ Stop(fr) < sz[d] => GoesOn(r, sz, sg, d, Stop(fr), 1)
      /\ a.loop = "OPEN" /\ Opener(a) \notin tn => d = Opener(a) /\ Start(fr) = Len(a.buf)
  BY HeardFrame
<1>2. /\ Start(fr) = 0 /\ Stop(fr) < sz[d] /\ Stop(fr) = Start(fr) + Len(fr.data)
      /\ \A k \in 1 .. Len(fr.data) : fr.data[k] = <<d, Start(fr) + k>>
      /\ Len(fr.data) \in 1 .. MaxData /\ d \in 1 .. Len(sz)
  BY <1>1, CutFacts DEF Hearing
<1>3. MaxData \in Nat
  BY LengthsAssumption
<1>4. Stop(fr) = Len(fr.data) /\ \A k \in 1 .. Len(fr.data) : fr.data[k] = <<d, k>>
  BY <1>2, <1>3, SMTT(30)
<1>5. b.loop = "OPEN" /\ b.buf = fr.data /\ Opener(b) = d
  <2>1. fr.data[1] = <<d, 1>>
    BY <1>2, <1>3, <1>4
  <2> QED BY <2>1 DEF Opener
<1>6. b.buf = Octets(d, Len(b.buf))
  BY <1>1, <1>4, <1>5, OctetsOf
<1>7. CASE a.loop = "CLOSED"
  <2>1. Joining(b, r, sz, sg, tn)
    BY <1>1, <1>2, <1>4, <1>5, <1>6 DEF Joining
  <2>2. Paid(b, r, sz, tn, arr)
    BY <1>1, <1>2, <1>5, <1>7, PaidOn, ZenonT(60) DEF Hearing
  <2> QED BY <1>7, <2>1, <2>2
<1>8. CASE a.loop = "OPEN"
  <2>1. Len(a.buf) # 0 /\ ~ Ahead(q, Opener(a))
    BY <1>8, OpenLoop DEF Hearing
  <2>2. Opener(a) \in tn
    BY <1>1, <1>2, <1>8, <2>1
  <2>3. Paid(Closed, r, sz, tn, arr)
    <3>1. Closed.loop # "OPEN"
      BY DEF Closed
    <3>2. \A e : e # d /\ Ahead(q, e) => Ahead(r, e)
      BY <1>1
    <3>3. sz \in Seq(Sizes) /\ Paid(a, q, sz, tn, arr) /\ tn \subseteq 1 .. Len(sz)
      BY DEF Hearing
    <3> QED BY <1>1, <1>8, <2>1, <2>2, <3>1, <3>2, <3>3, PaidFor
  <2> QED BY <1>8, <2>3
<1>9. a.loop \in {"OPEN", "CLOSED"}
  BY DEF Hearing
<1> QED BY <1>7, <1>8, <1>9

(* A later segment without a loop is dropped. *)
LEMMA HeardDropped ==
    ASSUME NEW a, NEW q, NEW r, NEW sz, NEW sg, NEW tn, NEW arr, NEW i,
           Hearing(a, q, r, sz, sg, tn, arr, i), q[i].flag \in {"CONT", "LAST"},
           a.loop # "OPEN", NEW b, b.loop # "OPEN"
    PROVE  Paid(b, r, sz, tn, arr)
<1>1. /\ Cut(q[i], sz) /\ \A e : Ahead(r, e) => Ahead(q, e)
      /\ \A e : Ahead(q, e) => Ahead(r, e) \/ (e = Sdu(q[i]) /\ Start(q[i]) = 0)
  BY HeardFrame
<1>2. Start(q[i]) # 0
  BY <1>1, CutFacts DEF Hearing
<1> QED BY <1>1, <1>2, PaidOn DEF Hearing

(* What is joined: the octets of an SDU that lost nothing, or some of a torn one. *)
Joins(j, x, fr, tn) ==
    /\ j \in Seq(Octet) /\ j # <<>> /\ 1 \in DOMAIN j /\ j[1][1] = x
    /\ x \notin tn => Sdu(fr) = x /\ j = Octets(x, Stop(fr)) /\ Len(j) = Stop(fr)

LEMMA HeardJoined ==
    ASSUME NEW a, NEW q, NEW r, NEW sz, NEW sg, NEW tn, NEW arr, NEW i,
           Hearing(a, q, r, sz, sg, tn, arr, i), q[i].flag \in {"CONT", "LAST"}, a.loop = "OPEN"
    PROVE  Joins(a.buf \o q[i].data, Opener(a), q[i], tn)
<1> DEFINE fr == q[i]
           x == Opener(a)
           joined == a.buf \o fr.data
<1>1. /\ i \in 1 .. Len(q) /\ Cut(fr, sz) /\ fr.data \in Seq(Octet)
      /\ x \notin tn => Sdu(fr) = x /\ Start(fr) = Len(a.buf)
  BY HeardFrame
<1>2. Len(a.buf) \in Nat \ {0} /\ a.buf \in Seq(Octet)
  BY OpenLoop DEF Hearing
<1>3. /\ joined \in Seq(Octet) /\ Len(joined) = Len(a.buf) + Len(fr.data)
      /\ \A k \in 1 .. Len(a.buf) + Len(fr.data) :
            joined[k] = IF k <= Len(a.buf) THEN a.buf[k] ELSE fr.data[k - Len(a.buf)]
  BY <1>1, <1>2, ConcatProperties, ZenonT(60)
<1>4. Len(fr.data) \in Nat
  BY <1>1, LenProperties
<1> HIDE DEF joined
<1>5. 1 \in 1 .. Len(joined) /\ joined[1] = a.buf[1] /\ joined[1][1] = x
  <2>1. 1 \in 1 .. Len(a.buf) + Len(fr.data) /\ 1 <= Len(a.buf)
    <3>1. \A m \in Nat \ {0}, n \in Nat : 1 \in 1 .. m + n /\ 1 <= m
      OBVIOUS
    <3> QED BY <1>2, <1>4, <3>1
  <2>2. joined[1] = IF 1 <= Len(a.buf) THEN a.buf[1] ELSE fr.data[1 - Len(a.buf)]
    BY <1>3, <2>1, Zenon
  <2>3. 1 \in 1 .. Len(joined)
    BY <1>3, <2>1
  <2> QED BY <2>1, <2>2, <2>3 DEF Opener
<1>6. joined # <<>> /\ DOMAIN joined = 1 .. Len(joined)
  <2>1. DOMAIN joined = 1 .. Len(joined)
    BY <1>3, LenProperties
  <2> QED BY <1>5, <2>1
<1>7. ASSUME x \notin tn
      PROVE  joined = Octets(x, Stop(fr)) /\ Len(joined) = Stop(fr)
  <2>1. a.buf = Octets(x, Len(a.buf))
    BY <1>7 DEF Hearing, Joining
  <2>2. /\ Stop(fr) = Start(fr) + Len(fr.data)
        /\ \A k \in 1 .. Len(fr.data) : fr.data[k] = <<Sdu(fr), Start(fr) + k>>
    BY <1>1, CutFacts DEF Hearing
  <2>3. Sdu(fr) = x /\ Start(fr) = Len(a.buf)
    BY <1>1, <1>7
  <2>4. Len(joined) = Stop(fr)
    BY <1>3, <2>2, <2>3
  <2>5. ASSUME NEW k \in 1 .. Len(joined) PROVE joined[k] = <<x, k>>
    <3>1. CASE k <= Len(a.buf)
      <4>1. a.buf[k] = <<x, k>>
        <5>1. k \in 1 .. Len(a.buf)
          BY <1>2, <3>1
        <5>2. Octets(x, Len(a.buf))[k] = <<x, k>>
          BY <5>1 DEF Octets
        <5> QED BY <2>1, <5>2
      <4> QED BY <1>3, <3>1, <4>1
    <3>2. CASE ~ (k <= Len(a.buf))
      <4>1. k - Len(a.buf) \in 1 .. Len(fr.data) /\ Start(fr) + (k - Len(a.buf)) = k
        <5>1. k \in 1 .. Len(a.buf) + Len(fr.data) /\ Len(a.buf) \in Nat
          BY <1>2, <1>3
        <5>2. \A m, n \in Nat : \A j \in 1 .. m + n :
                 ~ (j <= m) => j - m \in 1 .. n /\ m + (j - m) = j
          OBVIOUS
        <5>3. k - Len(a.buf) \in 1 .. Len(fr.data) /\ Len(a.buf) + (k - Len(a.buf)) = k
          BY <1>4, <3>2, <5>1, <5>2
        <5> QED BY <2>3, <5>3
      <4>2. joined[k] = fr.data[k - Len(a.buf)]
        BY <1>3, <3>2
      <4> QED BY <2>2, <2>3, <4>1, <4>2
    <3> QED BY <3>1, <3>2
  <2>6. joined = Octets(x, Len(joined))
    <3>1. joined \in Seq(Octet)
      BY <1>3
    <3> QED BY <2>5, <3>1, OctetsOf
  <2> QED BY <2>4, <2>6
<1>8. Joins(joined, x, fr, tn)
  BY <1>1, <1>3, <1>5, <1>6, <1>7 DEF Joins
<1> QED BY <1>8 DEF joined

(* A loop that has grown too long is closed: its SDU is torn, or too long itself. *)
LEMMA HeardTooLong ==
    ASSUME NEW a, NEW q, NEW r, NEW sz, NEW sg, NEW tn, NEW arr, NEW i,
           Hearing(a, q, r, sz, sg, tn, arr, i), q[i].flag \in {"CONT", "LAST"}, a.loop = "OPEN",
           Len(a.buf \o q[i].data) > MaxSdu
    PROVE  Paid(Closed, r, sz, tn, arr)
<1> DEFINE x == Opener(a)
<1>1. /\ Cut(q[i], sz) /\ \A e : Ahead(r, e) => Ahead(q, e)
      /\ \A e : Ahead(q, e) => Ahead(r, e) \/ (e = Sdu(q[i]) /\ Start(q[i]) = 0)
  BY HeardFrame
<1>2. Start(q[i]) # 0 /\ Stop(q[i]) \in Nat /\ sz[Sdu(q[i])] \in Nat /\ Stop(q[i]) <= sz[Sdu(q[i])]
  BY <1>1, CutFacts DEF Hearing
<1>3. x \notin tn => ~ (sz[x] <= MaxSdu)
  <2> SUFFICES ASSUME x \notin tn PROVE ~ (sz[x] <= MaxSdu)
    OBVIOUS
  <2> DEFINE joined == a.buf \o q[i].data
  <2>1. Joins(joined, x, q[i], tn)
    BY HeardJoined
  <2>2. MaxSdu \in Nat /\ Len(joined) > MaxSdu
    BY LengthsAssumption
  <2> HIDE DEF joined, x
  <2>3. Sdu(q[i]) = x /\ Len(joined) = Stop(q[i])
    BY <2>1 DEF Joins
  <2> QED BY <1>2, <2>2, <2>3
<1>4. sz \in Seq(Sizes) /\ Paid(a, q, sz, tn, arr) /\ tn \subseteq 1 .. Len(sz)
  BY DEF Hearing
<1>5. Closed.loop # "OPEN"
  BY DEF Closed
<1> QED BY <1>1, <1>2, <1>3, <1>4, <1>5, PaidOn

(* A continuing segment is joined. *)
LEMMA HeardCont ==
    ASSUME NEW a, NEW q, NEW r, NEW sz, NEW sg, NEW tn, NEW arr, NEW i,
           Hearing(a, q, r, sz, sg, tn, arr, i), q[i].flag = "CONT", a.loop = "OPEN",
           NEW b, b.loop = "OPEN", b.buf = a.buf \o q[i].data
    PROVE  Joining(b, r, sz, sg, tn) /\ Paid(b, r, sz, tn, arr)
<1> DEFINE x == Opener(a)
<1>1. /\ Cut(q[i], sz) /\ \A e : Ahead(r, e) => Ahead(q, e)
      /\ \A e : Ahead(q, e) => Ahead(r, e) \/ (e = Sdu(q[i]) /\ Start(q[i]) = 0)
      /\ Sdu(q[i]) \notin tn /\ Stop(q[i]) < sz[Sdu(q[i])] =>
            GoesOn(r, sz, sg, Sdu(q[i]), Stop(q[i]), 1)
  BY HeardFrame
<1>2. Start(q[i]) # 0 /\ Stop(q[i]) < sz[Sdu(q[i])]
  BY <1>1, CutFacts DEF Hearing
<1>3. q[i].flag \in {"CONT", "LAST"}
  OBVIOUS
<1>4. /\ b.buf # <<>> /\ b.buf[1][1] = x
      /\ x \notin tn => /\ Sdu(q[i]) = x /\ b.buf = Octets(x, Stop(q[i])) /\ Len(b.buf) = Stop(q[i])
  <2> DEFINE joined == a.buf \o q[i].data
  <2>1. Joins(joined, x, q[i], tn)
    BY <1>3, HeardJoined
  <2>2. b.buf = joined
    OBVIOUS
  <2> HIDE DEF joined, x
  <2> QED BY <2>1, <2>2 DEF Joins
<1>5. x \in 1 .. Len(sz) /\ ~ Ahead(q, x)
  BY OpenLoop DEF Hearing
<1>6. Opener(b) = x
  BY <1>4 DEF Opener
<1>7. Joining(b, r, sz, sg, tn)
  BY <1>1, <1>2, <1>4, <1>5, <1>6 DEF Joining
<1>8. sz \in Seq(Sizes) /\ Paid(a, q, sz, tn, arr) /\ tn \subseteq 1 .. Len(sz)
  BY DEF Hearing
<1>9. Paid(b, r, sz, tn, arr)
  BY <1>1, <1>2, <1>6, <1>8, PaidOn
<1> QED BY <1>7, <1>9

(* An SDU as it was sent, or with octets of a torn one. *)
Sound(item, sz, tn) ==
    \/ \E d \in 1 .. Len(sz) : item = Octets(d, sz[d])
    \/ \E k \in DOMAIN item : item[k][1] \in tn

(* It is noted in arr if it is one. *)
Noted(item, sz, arr) == \A d \in 1 .. Len(sz) : item = Octets(d, sz[d]) => d \in arr

(* The last segment completes the SDU, or ends a loop with octets of a torn one. *)
LEMMA HeardLast ==
    ASSUME NEW a, NEW q, NEW r, NEW sz, NEW sg, NEW tn, NEW arr, NEW i,
           Hearing(a, q, r, sz, sg, tn, arr, i), q[i].flag = "LAST", a.loop = "OPEN",
           NEW b, b.loop = "CLOSED", NEW brr, arr \subseteq brr,
           Noted(a.buf \o q[i].data, sz, brr)
    PROVE  Sound(a.buf \o q[i].data, sz, tn) /\ Paid(b, r, sz, tn, brr)
<1> DEFINE x == Opener(a)
           joined == a.buf \o q[i].data
<1>1. /\ Cut(q[i], sz) /\ \A e : Ahead(r, e) => Ahead(q, e)
      /\ \A e : Ahead(q, e) => Ahead(r, e) \/ (e = Sdu(q[i]) /\ Start(q[i]) = 0)
  BY HeardFrame
<1>2. Start(q[i]) # 0 /\ Stop(q[i]) = sz[Sdu(q[i])]
  BY <1>1, CutFacts DEF Hearing
<1>3. q[i].flag \in {"CONT", "LAST"}
  OBVIOUS
<1>4. /\ 1 \in DOMAIN joined /\ joined[1][1] = x
      /\ x \notin tn => Sdu(q[i]) = x /\ joined = Octets(x, Stop(q[i]))
  <2>1. Joins(joined, x, q[i], tn)
    BY <1>3, HeardJoined
  <2> HIDE DEF joined, x
  <2> QED BY <2>1 DEF Joins
<1>5. x \in 1 .. Len(sz)
  BY OpenLoop DEF Hearing
<1>6. x \notin tn => joined = Octets(x, sz[x])
  BY <1>2, <1>4
<1>7. Sound(joined, sz, tn)
  <2> HIDE DEF joined, x
  <2> QED BY <1>4, <1>5, <1>6 DEF Sound
<1>8. x \in tn \cup brr
  BY <1>5, <1>6 DEF Noted
<1>9. sz \in Seq(Sizes) /\ Paid(a, q, sz, tn, arr) /\ tn \subseteq 1 .. Len(sz)
  BY DEF Hearing
<1>10. Paid(b, r, sz, tn, brr)
  BY <1>1, <1>2, <1>8, <1>9, PaidOn
<1> QED BY <1>7, <1>10

-----------------------------------------------------------------------------
(* Sending segments. *)

(* How many segments are left: the last begins before the end and reaches it. *)
LEMMA SegmentsLeft ==
    ASSUME NEW n \in Nat, NEW o \in 0 .. n - 1
    PROVE  LET c == Segments(o, n)
           IN  c \in Nat \ {0} /\ o + (c - 1) * MaxData < n /\ n <= o + c * MaxData
<1> DEFINE M == MaxData
           y == n - o + M - 1
           c == y \div M
<1>1. M \in Nat \ {0} /\ y \in Nat /\ y >= M /\ n - o \in Nat /\ n - o > 0
  BY LengthsAssumption
<1>2. Segments(o, n) = c
  BY DEF Segments
<1> HIDE DEF M, y
<1>3. c \in Nat /\ c * M <= y /\ y < c * M + M
  <2>1. \A u \in Nat, v \in Nat \ {0} : u \div v \in Nat /\ (u \div v) * v <= u /\ u < (u \div v) * v + v
    <3> TAKE u \in Nat, v \in Nat \ {0}
    <3>1. u = v * (u \div v) + (u % v) /\ u % v \in 0 .. v - 1 /\ u \div v \in Int
      BY SMTT(30)
    <3> QED BY <3>1, SMTT(30)
  <2> QED BY <1>1, <2>1
<1> HIDE DEF c
<1>4. c # 0
  <2> SUFFICES ASSUME c = 0 PROVE FALSE
    OBVIOUS
  <2>1. c * M = 0
    BY <1>1
  <2> QED BY <1>1, <1>3, <2>1
<1>5. c * M \in Int /\ (c - 1) * M = c * M - M
  BY <1>1, <1>3, SMTT(30)
<1>6. o + (c - 1) * M < n /\ n <= o + c * M
  BY <1>1, <1>3, <1>5 DEF y
<1> QED BY <1>2, <1>3, <1>4, <1>6 DEF M

(* Where the segments begin that osdlp_tc_transmit cuts from octet o on. *)
Place(o, i) == o + (i - 1) * MaxData

Cuts(code, d, o, n, m) == [i \in 1 .. m |-> SegmentAt(code, d, Place(o, i), n)]

(* One begins where the one before ends. *)
LEMMA Places ==
    ASSUME NEW n \in Nat, NEW o \in 0 .. n - 1, NEW m \in Nat \ {0}, Place(o, m) < n
    PROVE  /\ Place(o, 1) = o
           /\ \A i \in 1 .. m : Place(o, i) \in o .. n - 1 /\ (Place(o, i) = 0 => i = 1 /\ o = 0)
           /\ \A i \in 1 .. m : i < m => SegEnd(Place(o, i), n) = Place(o, i + 1)
           /\ SegEnd(Place(o, m), n) = Min({o + m * MaxData, n})
<1> DEFINE M == MaxData
<1>1. M \in Nat \ {0}
  BY LengthsAssumption
<1>2. \A i, j \in Nat : i <= j => i * M \in Nat /\ i * M <= j * M
  <2> HIDE DEF M
  <2>1. \A i, k \in Nat : i * M \in Nat /\ k * M >= 0 /\ (i + k) * M = i * M + k * M
    BY <1>1, SMTT(30)
  <2> SUFFICES ASSUME NEW i \in Nat, NEW j \in Nat, i <= j PROVE i * M \in Nat /\ i * M <= j * M
    OBVIOUS
  <2>2. j - i \in Nat /\ i + (j - i) = j
    OBVIOUS
  <2>3. j * M = i * M + (j - i) * M /\ (j - i) * M >= 0 /\ i * M \in Nat /\ (j - i) * M \in Nat
    BY <2>1, <2>2
  <2> QED BY <2>3
<1>3. \A i \in Nat \ {0} : (i - 1) * M \in Nat /\ i * M = (i - 1) * M + M
  <2> HIDE DEF M
  <2> TAKE i \in Nat \ {0}
  <2>1. i - 1 \in Nat
    OBVIOUS
  <2> QED BY <1>1, <2>1, SMTT(30)
<1>4. Place(o, 1) = o
  <2>1. (1 - 1) * M = 0
    BY <1>1
  <2> QED BY <2>1 DEF Place
<1>5. ASSUME NEW i \in 1 .. m PROVE Place(o, i) \in o .. n - 1 /\ (Place(o, i) = 0 => i = 1 /\ o = 0)
  <2>1. i - 1 \in Nat /\ m - 1 \in Nat /\ i - 1 <= m - 1
    OBVIOUS
  <2>2. (i - 1) * M \in Nat /\ (i - 1) * M <= (m - 1) * M /\ (m - 1) * M \in Nat
    BY <1>2, <2>1
  <2>3. i # 1 => (i - 1) * M >= M
    <3>1. i # 1 => 1 <= i - 1 /\ 1 \in Nat /\ 1 * M = M
      BY <1>1
    <3> QED BY <1>2, <2>1, <3>1
  <2> QED BY <1>1, <2>2, <2>3 DEF Place
<1>6. ASSUME NEW i \in 1 .. m PROVE Place(o, i + 1) = Place(o, i) + M /\ Place(o, i + 1) = o + i * M
  <2>1. i \in Nat \ {0} /\ (i + 1) - 1 = i
    OBVIOUS
  <2>2. (i - 1) * M \in Nat /\ i * M = (i - 1) * M + M
    BY <1>3, <2>1
  <2> QED BY <1>1, <2>1, <2>2 DEF Place
<1>7. ASSUME NEW i \in 1 .. m, i < m PROVE SegEnd(Place(o, i), n) = Place(o, i + 1)
  <2>1. Place(o, i) \in 0 .. n - 1 /\ i + 1 \in 1 .. m
    BY <1>5, <1>7
  <2>2. Place(o, i + 1) < n
    BY <1>5, <2>1
  <2> QED BY <1>6, <2>1, <2>2, SegmentEnd
<1>8. SegEnd(Place(o, m), n) = Min({o + m * M, n})
  <2>1. m \in 1 .. m
    OBVIOUS
  <2>2. Place(o, m) + M = o + m * M
    BY <1>6, <2>1
  <2> QED BY <2>2 DEF SegEnd
<1> QED BY <1>4, <1>5, <1>7, <1>8

(* They are segments, *)
LEMMA CutsSeq ==
    ASSUME NEW sz \in Seq(Sizes), Len(sz) <= MaxSdus, NEW d \in 1 .. Len(sz), NEW o \in 0 .. sz[d] - 1,
           NEW m \in Nat \ {0}, Place(o, m) < sz[d], NEW code \in {"AD", "BD"}
    PROVE  /\ Cuts(code, d, o, sz[d], m) \in Seq(Segment) /\ Len(Cuts(code, d, o, sz[d], m)) = m
           /\ \A i \in 1 .. m : /\ Cuts(code, d, o, sz[d], m)[i].code = code
                               /\ Sdu(Cuts(code, d, o, sz[d], m)[i]) = d
<1> DEFINE n == sz[d]
           s == Cuts(code, d, o, n, m)
<1>1. n \in Nat /\ n \in Nat \ {0}
  BY ElementOfSeq, LengthsAssumption
<1>2. /\ Place(o, 1) = o
      /\ \A i \in 1 .. m : Place(o, i) \in o .. n - 1 /\ (Place(o, i) = 0 => i = 1 /\ o = 0)
      /\ \A i \in 1 .. m : i < m => SegEnd(Place(o, i), n) = Place(o, i + 1)
      /\ SegEnd(Place(o, m), n) = Min({o + m * MaxData, n})
  <2> HIDE DEF n
  <2>1. o \in 0 .. n - 1 /\ Place(o, m) < n
    BY DEF n
  <2> QED BY <1>1, <2>1, Places
<1>3. ASSUME NEW i \in 1 .. m
      PROVE  /\ s[i] = SegmentAt(code, d, Place(o, i), n) /\ Cut(s[i], sz) /\ s[i].code = code
             /\ Sdu(s[i]) = d /\ Start(s[i]) = Place(o, i) /\ Stop(s[i]) = SegEnd(Place(o, i), n)
  <2>1. Place(o, i) \in 0 .. sz[d] - 1
    BY <1>1, <1>2
  <2>2. s[i] = SegmentAt(code, d, Place(o, i), n)
    BY DEF Cuts
  <2> QED BY <2>1, <2>2, SegmentCut
<1>4. ASSUME NEW i \in 1 .. m PROVE s[i] \in Segment
  <2> DEFINE fr == s[i]
             c == Len(fr.data)
             l == Place(o, i)
  <2>1. Cut(fr, sz) /\ fr = SegmentAt(code, d, l, n) /\ l \in 0 .. n - 1
    BY <1>1, <1>2, <1>3
  <2> HIDE DEF s, n, l, fr
  <2>2. /\ Start(fr) \in 0 .. sz[Sdu(fr)] - 1 /\ sz[Sdu(fr)] \in Nat
        /\ fr.code \in {"AD", "BD"} /\ c \in 1 .. MaxData /\ Sdu(fr) \in 1 .. Len(sz)
        /\ \A k \in 1 .. c : fr.data[k] = <<Sdu(fr), Start(fr) + k>>
        /\ fr.flag \in {"UNSEG", "FIRST", "CONT", "LAST"}
    BY <2>1, CutFacts
  <2>3. fr.data = [k \in 1 .. SegEnd(l, n) - l |-> <<d, l + k>>]
        /\ fr = [code |-> fr.code, flag |-> fr.flag, data |-> fr.data]
    BY <2>1 DEF SegmentAt
  <2>4. l \in Nat /\ SegEnd(l, n) - l \in Nat
    BY <1>1, <2>1, SegmentEnd
  <2>5. MaxSdus \in Nat /\ d \in 1 .. MaxSdus
    BY CapsAssumption
  <2>6. \A k \in 1 .. SegEnd(l, n) - l : <<d, l + k>> \in Octet
    BY <2>4, <2>5 DEF Octet
  <2>7. fr.data \in Seq(Octet)
    <3> DEFINE e == SegEnd(l, n) - l
               f == [k \in 1 .. e |-> <<d, l + k>>]
    <3>1. f \in [1 .. e -> Octet]
      BY <2>6
    <3>2. fr.data = f
      BY <2>3
    <3> HIDE DEF e, f
    <3>3. e \in Nat
      BY <2>4 DEF e
    <3> QED BY <3>1, <3>2, <3>3
  <2>8. fr \in Segment
    BY <2>2, <2>3, <2>7 DEF Segment
  <2> QED BY <2>8 DEF fr
<1>5. s \in Seq(Segment) /\ Len(s) = m
  <2>1. s = [i \in 1 .. m |-> s[i]]
    BY DEF Cuts
  <2>2. s \in [1 .. m -> Segment]
    <3>1. DOMAIN s = 1 .. m
      BY DEF Cuts
    <3> HIDE DEF s
    <3> QED BY <1>4, <2>1
  <2> HIDE DEF s
  <2> QED BY <2>2
<1> QED BY <1>3, <1>5 DEF s, n

(* that follow each other. *)
LEMMA CutsFacts ==
    ASSUME NEW sz \in Seq(Sizes), Len(sz) <= MaxSdus, NEW d \in 1 .. Len(sz), NEW o \in 0 .. sz[d] - 1,
           NEW m \in Nat \ {0}, Place(o, m) < sz[d], NEW code \in {"AD", "BD"}
    PROVE  LET s == Cuts(code, d, o, sz[d], m)
           IN  /\ s \in Seq(Segment) /\ Len(s) = m
               /\ \A i \in 1 .. m : /\ Cut(s[i], sz) /\ s[i].code = code /\ Sdu(s[i]) = d
                                    /\ Start(s[i]) = Place(o, i) /\ (Start(s[i]) = 0 => i = 1 /\ o = 0)
                                    /\ Stop(s[i]) = SegEnd(Place(o, i), sz[d])
               /\ Start(s[1]) = o
               /\ \A i \in 1 .. m : i < m => Stop(s[i]) = Start(s[i + 1])
               /\ Stop(s[m]) = Min({o + m * MaxData, sz[d]})
<1> DEFINE n == sz[d]
           s == Cuts(code, d, o, n, m)
<1>1. n \in Nat /\ n \in Nat \ {0}
  BY ElementOfSeq, LengthsAssumption
<1>2. /\ Place(o, 1) = o
      /\ \A i \in 1 .. m : Place(o, i) \in o .. n - 1 /\ (Place(o, i) = 0 => i = 1 /\ o = 0)
      /\ \A i \in 1 .. m : i < m => SegEnd(Place(o, i), n) = Place(o, i + 1)
      /\ SegEnd(Place(o, m), n) = Min({o + m * MaxData, n})
  <2> HIDE DEF n
  <2>1. o \in 0 .. n - 1 /\ Place(o, m) < n
    BY DEF n
  <2> QED BY <1>1, <2>1, Places
<1>3. ASSUME NEW i \in 1 .. m
      PROVE  /\ s[i] = SegmentAt(code, d, Place(o, i), n) /\ Cut(s[i], sz) /\ s[i].code = code
             /\ Sdu(s[i]) = d /\ Start(s[i]) = Place(o, i) /\ Stop(s[i]) = SegEnd(Place(o, i), n)
  <2>1. Place(o, i) \in 0 .. sz[d] - 1
    BY <1>1, <1>2
  <2>2. s[i] = SegmentAt(code, d, Place(o, i), n)
    BY DEF Cuts
  <2> QED BY <2>1, <2>2, SegmentCut
<1>4. s \in Seq(Segment) /\ Len(s) = m
  BY CutsSeq
<1>6. \A i \in 1 .. m : i < m => i + 1 \in 1 .. m
  OBVIOUS
<1> HIDE DEF s, n
<1>7. /\ Start(s[1]) = o /\ Stop(s[m]) = Min({o + m * MaxData, n})
      /\ \A i \in 1 .. m : i < m => Stop(s[i]) = Start(s[i + 1])
  <2>1. 1 \in 1 .. m /\ m \in 1 .. m
    OBVIOUS
  <2> QED BY <1>2, <1>3, <1>6, <2>1
<1>8. \A i \in 1 .. m : Start(s[i]) = 0 => i = 1 /\ o = 0
  BY <1>2, <1>3
<1> QED BY <1>3, <1>4, <1>7, <1>8 DEF s, n

(* The row goes on with them, and the SDU in progress after them. *)
Longer(q, r, sz, sg, g, tn, d, o) ==
    /\ AllCut(r, sz) /\ Once(r) /\ Unbroken(r, sz, g, tn)
    /\ \A x : Ahead(q, x) => Ahead(r, x)
    /\ \A x : Ahead(r, x) => Ahead(q, x) \/ (x = d /\ o = 0)
    /\ o = 0 => Ahead(r, d)
    /\ \A x, p : GoesOn(q, sz, sg, x, p, 1) => GoesOn(r, sz, g, x, p, 1)

LEMMA Appended ==
    ASSUME NEW q \in Seq(Segment), NEW sz \in Seq(Sizes), Len(sz) <= MaxSdus, NEW d \in 1 .. Len(sz),
           d = Len(sz), NEW o \in 0 .. sz[d] - 1, NEW m \in Nat \ {0}, Place(o, m) < sz[d],
           NEW code \in {"AD", "BD"}, NEW sg, NEW tn,
           AllCut(q, sz), Once(q), Unbroken(q, sz, sg, tn),
           o = 0 => ~ Ahead(q, d), sg.flag = "IN_PROGRESS" => sg.octets = o,
           NEW g, g = Status(code, Min({o + m * MaxData, sz[d]}), sz[d])
    PROVE  Longer(q, q \o Cuts(code, d, o, sz[d], m), sz, sg, g, tn, d, o)
<1> DEFINE s == Cuts(code, d, o, sz[d], m)
           r == q \o s
           e == Min({o + m * MaxData, sz[d]})
<1>1. /\ s \in Seq(Segment) /\ Len(s) = m
      /\ \A i \in 1 .. m : /\ Cut(s[i], sz) /\ s[i].code = code /\ Sdu(s[i]) = d
                           /\ Start(s[i]) = Place(o, i) /\ (Start(s[i]) = 0 => i = 1 /\ o = 0)
                           /\ Stop(s[i]) = SegEnd(Place(o, i), sz[d])
      /\ Start(s[1]) = o
      /\ \A i \in 1 .. m : i < m => Stop(s[i]) = Start(s[i + 1])
      /\ Stop(s[m]) = e
  BY CutsFacts
<1>2. /\ e < sz[d] => g.flag = "IN_PROGRESS" /\ g.octets = e
  BY DEF Status
<1> HIDE DEF s, e
<1>3. /\ r \in Seq(Segment) /\ Len(r) = Len(q) + m /\ Len(q) \in Nat
      /\ \A i \in 1 .. Len(q) + m : r[i] = IF i <= Len(q) THEN q[i] ELSE s[i - Len(q)]
  <2>1. /\ r \in Seq(Segment) /\ Len(r) = Len(q) + Len(s)
        /\ \A i \in 1 .. Len(q) + Len(s) : r[i] = IF i <= Len(q) THEN q[i] ELSE s[i - Len(q)]
    BY <1>1, ConcatProperties, ZenonT(60)
  <2>2. Len(s) = m /\ Len(q) \in Nat
    BY <1>1, LenProperties
  <2> HIDE DEF r
  <2> QED BY <2>1, <2>2
<1> HIDE DEF r
<1>4. /\ \A i \in 1 .. Len(q) : i \in 1 .. Len(r) /\ r[i] = q[i]
      /\ \A i \in 1 .. m : Len(q) + i \in 1 .. Len(r) /\ r[Len(q) + i] = s[i]
      /\ \A i \in 1 .. Len(r) : i \in 1 .. Len(q) \/ (i - Len(q) \in 1 .. m /\ r[i] = s[i - Len(q)])
  <2>1. ASSUME NEW i \in 1 .. m PROVE Len(q) + i \in 1 .. Len(r) /\ r[Len(q) + i] = s[i]
    <3>1. Len(q) + i \in 1 .. Len(q) + m /\ ~ (Len(q) + i <= Len(q)) /\ (Len(q) + i) - Len(q) = i
      BY <1>3
    <3> QED BY <1>3, <3>1
  <2> QED BY <1>3, <2>1
<1>5. AllCut(r, sz)
  BY <1>1, <1>4 DEF AllCut
<1>6. Once(r)
  <2> SUFFICES ASSUME NEW i \in 1 .. Len(r), NEW j \in 1 .. Len(r), Start(r[i]) = 0, Start(r[j]) = 0,
                      Sdu(r[i]) = Sdu(r[j])
               PROVE  i = j
    BY DEF Once
  <2>1. CASE i \in 1 .. Len(q) /\ j \in 1 .. Len(q)
    BY <1>4, <2>1 DEF Once
  <2>2. CASE i \in 1 .. Len(q) /\ j - Len(q) \in 1 .. m /\ r[j] = s[j - Len(q)]
    <3>1. o = 0 /\ Sdu(q[i]) = d /\ Start(q[i]) = 0
      BY <1>1, <1>4, <2>2
    <3> QED BY <2>2, <3>1 DEF Ahead
  <2>3. CASE j \in 1 .. Len(q) /\ i - Len(q) \in 1 .. m /\ r[i] = s[i - Len(q)]
    <3>1. o = 0 /\ Sdu(q[j]) = d /\ Start(q[j]) = 0
      BY <1>1, <1>4, <2>3
    <3> QED BY <2>3, <3>1 DEF Ahead
  <2>4. CASE i - Len(q) \in 1 .. m /\ r[i] = s[i - Len(q)] /\ j - Len(q) \in 1 .. m /\ r[j] = s[j - Len(q)]
    <3>1. i - Len(q) = 1 /\ j - Len(q) = 1
      BY <1>1, <2>4
    <3> QED BY <1>3, <3>1
  <2> QED BY <1>4, <2>1, <2>2, <2>3, <2>4
<1>7. ASSUME NEW x, NEW p, NEW i \in 1 .. Len(q) + 1, GoesOn(q, sz, sg, x, p, i)
      PROVE  GoesOn(r, sz, g, x, p, i)
  <2>1. CASE i <= Len(q) /\ Sdu(q[i]) = x /\ Start(q[i]) = p
    <3>1. i <= Len(r) /\ r[i] = q[i]
      BY <1>3, <1>4, <2>1
    <3> QED BY <2>1, <3>1 DEF GoesOn
  <2>2. CASE i = Len(q) + 1 /\ sg.flag = "IN_PROGRESS" /\ x = Len(sz) /\ sg.octets = p
    <3>1. p = o /\ x = d /\ 1 \in 1 .. m
      BY <2>2
    <3>2. i \in 1 .. Len(r) /\ r[i] = s[1]
      BY <1>4, <2>2, <3>1
    <3>3. i <= Len(r)
      BY <3>2
    <3> QED BY <1>1, <3>1, <3>2, <3>3 DEF GoesOn
  <2> QED BY <1>7, <2>1, <2>2 DEF GoesOn
<1>8. Unbroken(r, sz, g, tn)
  <2> SUFFICES ASSUME NEW i \in 1 .. Len(r), Sdu(r[i]) \notin tn, Stop(r[i]) < sz[Sdu(r[i])]
               PROVE  GoesOn(r, sz, g, Sdu(r[i]), Stop(r[i]), i + 1)
    BY DEF Unbroken
  <2>1. CASE i \in 1 .. Len(q)
    <3>1. r[i] = q[i] /\ i + 1 \in 1 .. Len(q) + 1
      BY <1>3, <1>4, <2>1
    <3>2. GoesOn(q, sz, sg, Sdu(r[i]), Stop(r[i]), i + 1)
      BY <2>1, <3>1 DEF Unbroken
    <3> QED BY <1>7, <3>1, <3>2
  <2>2. CASE i - Len(q) \in 1 .. m /\ r[i] = s[i - Len(q)]
    <3> DEFINE k == i - Len(q)
    <3>1. k \in 1 .. m /\ Sdu(r[i]) = d /\ Stop(r[i]) = Stop(s[k]) /\ i + 1 = Len(q) + (k + 1)
      BY <1>1, <1>3, <2>2
    <3> HIDE DEF k
    <3>2. CASE k < m
      <4>1. k + 1 \in 1 .. m /\ Stop(s[k]) = Start(s[k + 1])
        BY <1>1, <3>1, <3>2
      <4>2. i + 1 \in 1 .. Len(r) /\ r[i + 1] = s[k + 1] /\ Sdu(s[k + 1]) = d
        BY <1>1, <1>4, <3>1, <4>1, SMTT(30)
      <4>3. i + 1 <= Len(r)
        BY <4>2
      <4> QED BY <3>1, <4>1, <4>2, <4>3 DEF GoesOn
    <3>3. CASE k = m
      <4>1. Stop(s[k]) = e /\ i + 1 = Len(r) + 1
        BY <1>1, <1>3, <3>1, <3>3
      <4>2. e < sz[d]
        BY <3>1, <4>1
      <4> QED BY <1>2, <3>1, <4>1, <4>2 DEF GoesOn
    <3> QED BY <3>1, <3>2, <3>3
  <2> QED BY <1>4, <2>1, <2>2
<1>9. ASSUME NEW x, Ahead(q, x) PROVE Ahead(r, x)
  BY <1>4, <1>9 DEF Ahead
<1>10. ASSUME NEW x, Ahead(r, x) PROVE Ahead(q, x) \/ (x = d /\ o = 0)
  <2>1. PICK i \in 1 .. Len(r) : Sdu(r[i]) = x /\ Start(r[i]) = 0
    BY <1>10 DEF Ahead
  <2>2. CASE i \in 1 .. Len(q)
    BY <1>4, <2>1, <2>2 DEF Ahead
  <2>3. CASE i - Len(q) \in 1 .. m /\ r[i] = s[i - Len(q)]
    BY <1>1, <2>1, <2>3
  <2> QED BY <1>4, <2>2, <2>3
<1>11. ASSUME o = 0 PROVE Ahead(r, d)
  <2>1. 1 \in 1 .. m
    OBVIOUS
  <2>2. Len(q) + 1 \in 1 .. Len(r) /\ Sdu(r[Len(q) + 1]) = d /\ Start(r[Len(q) + 1]) = 0
    BY <1>1, <1>4, <1>11, <2>1
  <2> QED BY <2>2 DEF Ahead
<1>12. \A x, p : GoesOn(q, sz, sg, x, p, 1) => GoesOn(r, sz, g, x, p, 1)
  <2>1. 1 \in 1 .. Len(q) + 1
    BY <1>3
  <2> QED BY <1>7, <2>1
<1>13. Longer(q, r, sz, sg, g, tn, d, o)
  BY <1>5, <1>6, <1>8, <1>9, <1>10, <1>11, <1>12 DEF Longer
<1> QED BY <1>13 DEF r, s

(* Starting an SDU leaves the ones before as they are. *)
LEMMA Started ==
    ASSUME NEW a, NEW q \in Seq(Segment), NEW sz \in Seq(Sizes), NEW sg, sg.flag # "IN_PROGRESS",
           NEW tn, NEW arr, NEW n \in Sizes,
           AllCut(q, sz), Unbroken(q, sz, sg, tn), Joining(a, q, sz, sg, tn)
    PROVE  LET zz == Append(sz, n)
           IN  /\ zz \in Seq(Sizes) /\ Len(zz) = Len(sz) + 1 /\ zz[Len(sz) + 1] = n
               /\ \A d \in 1 .. Len(sz) : d \in 1 .. Len(zz) /\ zz[d] = sz[d]
               /\ AllCut(q, zz) /\ Unbroken(q, zz, sg, tn) /\ Joining(a, q, zz, sg, tn)
               /\ \A d : Ahead(q, d) => d \in 1 .. Len(sz)
<1> DEFINE zz == Append(sz, n)
<1>1. /\ zz \in Seq(Sizes) /\ Len(zz) = Len(sz) + 1 /\ zz[Len(sz) + 1] = n /\ Len(sz) \in Nat
      /\ \A d \in 1 .. Len(sz) : zz[d] = sz[d]
  BY AppendProperties, LenProperties
<1> HIDE DEF zz
<1>2. \A d \in 1 .. Len(sz) : d \in 1 .. Len(zz) /\ zz[d] = sz[d]
  BY <1>1
<1>3. \A i \in 1 .. Len(q) : Sdu(q[i]) \in 1 .. Len(sz)
  BY DEF AllCut, Cut
<1>4. AllCut(q, zz)
  <2> SUFFICES ASSUME NEW i \in 1 .. Len(q) PROVE Cut(q[i], zz)
    BY DEF AllCut
  <2>1. Cut(q[i], sz)
    BY DEF AllCut
  <2>2. Sdu(q[i]) \in 1 .. Len(zz) /\ zz[Sdu(q[i])] = sz[Sdu(q[i])]
    BY <1>2, <1>3
  <2> QED BY <2>1, <2>2 DEF Cut
<1>5. \A d, o, i : GoesOn(q, sz, sg, d, o, i) => GoesOn(q, zz, sg, d, o, i)
  BY DEF GoesOn
<1>6. Unbroken(q, zz, sg, tn)
  BY <1>2, <1>3, <1>5 DEF Unbroken
<1>7. Joining(a, q, zz, sg, tn)
  BY <1>2, <1>5 DEF Joining
<1>8. \A d : Ahead(q, d) => d \in 1 .. Len(sz)
  BY <1>3 DEF Ahead
<1> QED BY <1>1, <1>2, <1>4, <1>6, <1>7, <1>8 DEF zz

(* The new SDU is neither lost nor torn for another. *)
LEMMA StartedPaid ==
    ASSUME NEW a, NEW q, NEW r, NEW sz \in Seq(Sizes), NEW zz \in Seq(Sizes), NEW tn, NEW tm, NEW arr,
           Paid(a, q, sz, tn, arr), tn \subseteq 1 .. Len(sz), tn \subseteq tm, tm \subseteq 1 .. Len(zz),
           Len(zz) = Len(sz) + 1, \A d \in 1 .. Len(sz) : zz[d] = sz[d],
           Ahead(r, Len(sz) + 1), \A d : d \in 1 .. Len(sz) => (Ahead(q, d) <=> Ahead(r, d))
    PROVE  Paid(a, r, zz, tm, arr)
<1>1. 1 .. Len(zz) = (1 .. Len(sz)) \cup {Len(sz) + 1}
  BY LenProperties
<1>2. Lost(a, r, zz, tm, arr) \subseteq Lost(a, q, sz, tn, arr)
  BY <1>1 DEF Lost, Left
<1>3. Spent(a, q, tn) \subseteq Spent(a, r, tm)
  BY DEF Spent, Left
<1>4. IsFiniteSet(1 .. Len(sz)) /\ IsFiniteSet(1 .. Len(zz))
  BY FS_Interval
<1>5. IsFiniteSet(Lost(a, q, sz, tn, arr)) /\ IsFiniteSet(Spent(a, r, tm))
  <2>1. Lost(a, q, sz, tn, arr) \in SUBSET (1 .. Len(sz)) /\ Spent(a, r, tm) \in SUBSET (1 .. Len(zz))
    BY DEF Lost, Spent
  <2> QED BY <1>4, <2>1, FS_Subset
<1> QED BY <1>2, <1>3, <1>5, CountKept DEF Paid

(* The first k of them. *)
LEMMA CutsBegin ==
    ASSUME NEW sz \in Seq(Sizes), Len(sz) <= MaxSdus, NEW d \in 1 .. Len(sz), NEW o \in 0 .. sz[d] - 1,
           NEW m \in Nat \ {0}, Place(o, m) < sz[d], NEW code \in {"AD", "BD"}, NEW k \in 0 .. m
    PROVE  LET t == Cuts(code, d, o, sz[d], k)
           IN  /\ t \in Seq(Segment) /\ Len(t) = k
               /\ \A i \in 1 .. k : t[i] = Cuts(code, d, o, sz[d], m)[i]
<1> DEFINE s == Cuts(code, d, o, sz[d], m)
           t == Cuts(code, d, o, sz[d], k)
<1>1. s \in Seq(Segment) /\ Len(s) = m
  BY CutsSeq
<1>2. \A i \in 1 .. k : t[i] = s[i] /\ i \in 1 .. m
  BY DEF Cuts
<1>3. t = [i \in 1 .. k |-> t[i]]
  BY DEF Cuts
<1> HIDE DEF s, t
<1>4. \A i \in 1 .. k : t[i] \in Segment
  BY <1>1, <1>2, ElementOfSeq
<1>5. [i \in 1 .. k |-> t[i]] \in [1 .. k -> Segment]
  BY <1>4
<1>6. k \in Nat
  OBVIOUS
<1>7. t \in Seq(Segment) /\ Len(t) = k
  BY <1>3, <1>5, <1>6
<1> QED BY <1>2, <1>7 DEF s, t

(* One more is put behind them. *)
LEMMA CutsOneMore ==
    ASSUME NEW q \in Seq(Segment),
           NEW sz \in Seq(Sizes), Len(sz) <= MaxSdus, NEW d \in 1 .. Len(sz), NEW o \in 0 .. sz[d] - 1,
           NEW k \in Nat, Place(o, k + 1) < sz[d], NEW code \in {"AD", "BD"}
    PROVE  /\ SegmentAt(code, d, Place(o, k + 1), sz[d]) \in Segment
           /\ (q \o Cuts(code, d, o, sz[d], k)) \o <<SegmentAt(code, d, Place(o, k + 1), sz[d])>> =
                 q \o Cuts(code, d, o, sz[d], k + 1)
<1> DEFINE s == Cuts(code, d, o, sz[d], k + 1)
           t == Cuts(code, d, o, sz[d], k)
           fr == SegmentAt(code, d, Place(o, k + 1), sz[d])
<1>1. k + 1 \in Nat \ {0} /\ k \in 0 .. k + 1 /\ k + 1 \in 1 .. k + 1
  OBVIOUS
<1>2. s \in Seq(Segment) /\ Len(s) = k + 1
  BY <1>1, CutsSeq
<1>3. t \in Seq(Segment) /\ Len(t) = k /\ \A i \in 1 .. k : t[i] = s[i]
  BY <1>1, CutsBegin
<1>4. fr = s[k + 1]
  BY <1>1 DEF Cuts
<1> HIDE DEF s, t, fr
<1>5. fr \in Segment
  BY <1>1, <1>2, <1>4, ElementOfSeq
<1>6. <<fr>> \in Seq(Segment) /\ Len(<<fr>>) = 1 /\ <<fr>>[1] = fr
  BY <1>5
<1> DEFINE u == <<fr>>
           v == t \o u
<1>7. u \in Seq(Segment) /\ Len(u) = 1 /\ u[1] = fr
  BY <1>6
<1> HIDE DEF u
<1>8. v \in Seq(Segment) /\ Len(v) = Len(t) + Len(u)
      /\ \A i \in 1 .. Len(t) + Len(u) : v[i] = IF i <= Len(t) THEN t[i] ELSE u[i - Len(t)]
  BY <1>3, <1>7, ConcatProperties
<1> HIDE DEF v
<1>9. Len(v) = Len(s)
  BY <1>2, <1>3, <1>7, <1>8
<1>10. ASSUME NEW i \in 1 .. Len(v) PROVE v[i] = s[i]
  <2>1. i \in 1 .. k + 1 /\ v[i] = IF i <= k THEN t[i] ELSE u[i - k]
    BY <1>3, <1>7, <1>8
  <2>2. CASE i <= k
    BY <1>3, <2>1, <2>2
  <2>3. CASE ~ (i <= k)
    <3>1. i = k + 1 /\ i - k = 1
      BY <2>1, <2>3
    <3> QED BY <1>4, <1>7, <2>1, <2>3, <3>1
  <2> QED BY <2>2, <2>3
<1>11. v = s
  BY <1>2, <1>8, <1>9, <1>10, SeqEqual
<1>12. (q \o t) \o u = q \o v
  BY <1>3, <1>7, ConcatAssociative, SMTT(30) DEF v
<1> QED BY <1>5, <1>11, <1>12 DEF u, s, t, fr

(* What a call of osdlp_tc_transmit adds to the row, be it on the link or in the wait queue. *)
Adds(code, d, o, n, m, room) ==
    /\ m \in Nat \ {0} /\ Place(o, m) < n
    /\ link' \o wait' = link \o Cuts(code, d, o, n, m)
    /\ seg' = Status(code, Min({o + m * MaxData, n}), n)
    /\ link' \in Seq(Segment) /\ Len(link') <= Len(link) + room
    /\ wait' \in Seq(Segment) /\ Len(wait') <= 1
    /\ \A i \in 1 .. Len(link') :
          \/ i \in 1 .. Len(link) /\ link'[i] = link[i]
          \/ i > Len(link) /\ link'[i].code = code /\ Sdu(link'[i]) = d

LEMMA Sending ==
    ASSUME link \in Seq(Segment), wait = <<>>,
           NEW sz \in Seq(Sizes), Len(sz) <= MaxSdus, NEW d \in 1 .. Len(sz), NEW o \in 0 .. sz[d] - 1,
           NEW code \in {"AD", "BD"}, NEW room \in Nat \ {0}, NEW slots \in Nat,
           SendFrom(code, d, o, sz[d], room, slots)
    PROVE  /\ \E m : Adds(code, d, o, sz[d], m, room)
           /\ wait' # <<>> => slots < room /\ wait'[1].code = code
<1> DEFINE n == sz[d]
           c == Segments(o, n)
           k == Min({c, room, slots})
           next == o + k * MaxData
           s(j) == Cuts(code, d, o, n, j)
<1>1. n \in Nat /\ o \in 0 .. n - 1
  BY ElementOfSeq, LengthsAssumption
<1>2. c \in Nat \ {0} /\ Place(o, c) < n
  BY <1>1, SegmentsLeft DEF Place
<1>3. k \in {c, room, slots} /\ k <= c /\ k <= room /\ k <= slots
  <2> HIDE DEF c, n
  <2>1. c \in Int /\ room \in Int /\ slots \in Int
    BY <1>2
  <2> QED BY <2>1, MinOfThree
<1>4. /\ link' = link \o [i \in 1 .. k |-> SegmentAt(code, d, Place(o, i), n)]
      /\ IF k = c \/ k = room
         THEN seg' = Status(code, Min({next, n}), n) /\ wait' = <<>>
         ELSE /\ wait' = <<SegmentAt(code, d, next, n)>>
              /\ seg' = Status(code, SegEnd(next, n), n)
  BY DEF SendFrom, Place
<1>5. link' = link \o s(k)
  BY <1>4 DEF Cuts
<1>6. \A i \in 1 .. c : Place(o, i) < n
  <2> HIDE DEF c, n
  <2>1. \A i \in 1 .. c : Place(o, i) \in o .. n - 1
    BY <1>1, <1>2, Places
  <2> QED BY <1>1, <2>1
<1> HIDE DEF c, k
<1>7. k \in 0 .. c
  BY <1>2, <1>3
<1>8. /\ s(k) \in Seq(Segment) /\ Len(s(k)) = k
      /\ \A i \in 1 .. k : s(k)[i] = s(c)[i]
  BY <1>2, <1>7, CutsBegin
<1>9. \A i \in 1 .. c : s(c)[i].code = code /\ Sdu(s(c)[i]) = d
  <2>1. Place(o, c) < sz[d] /\ c \in Nat \ {0}
    BY <1>2
  <2> QED BY <2>1, CutsSeq
<1> HIDE DEF s
<1>10. /\ link' \in Seq(Segment) /\ Len(link') = Len(link) + k /\ Len(link) \in Nat
       /\ \A i \in 1 .. Len(link) + k : link'[i] = IF i <= Len(link) THEN link[i] ELSE s(k)[i - Len(link)]
  <2> DEFINE t == s(k)
  <2>1. /\ link \o t \in Seq(Segment) /\ Len(link \o t) = Len(link) + Len(t)
        /\ \A i \in 1 .. Len(link) + Len(t) :
              (link \o t)[i] = IF i <= Len(link) THEN link[i] ELSE t[i - Len(link)]
    BY <1>8, ConcatProperties
  <2>2. Len(t) = k /\ link' = link \o t /\ Len(link) \in Nat
    BY <1>5, <1>8, LenProperties
  <2> HIDE DEF t
  <2> QED BY <2>1, <2>2 DEF t
<1>11. Len(link') <= Len(link) + room
  BY <1>3, <1>7, <1>10
<1>12. ASSUME NEW i \in 1 .. Len(link')
       PROVE  \/ i \in 1 .. Len(link) /\ link'[i] = link[i]
              \/ i > Len(link) /\ link'[i].code = code /\ Sdu(link'[i]) = d
  <2>1. i \in 1 .. Len(link) + k
    BY <1>7, <1>10
  <2>2. CASE i <= Len(link)
    BY <1>10, <2>1, <2>2
  <2>3. CASE ~ (i <= Len(link))
    <3> DEFINE j == i - Len(link)
    <3>1. j \in 1 .. k /\ j \in 1 .. c /\ i > Len(link)
      <4>1. c \in Nat /\ k \in 0 .. c /\ Len(link) \in Nat
        BY <1>2, <1>7, <1>10
      <4> QED BY <2>1, <2>3, <4>1
    <3>2. link'[i] = s(k)[j]
      BY <1>10, <2>1, <2>3
    <3> HIDE DEF j
    <3> QED BY <1>8, <1>9, <3>1, <3>2
  <2> QED BY <2>2, <2>3
<1>13. CASE k = c \/ k = room
  <2>1. k \in Nat \ {0} /\ k \in 1 .. c
    BY <1>2, <1>7, <1>13
  <2>2. Place(o, k) < n /\ wait' = <<>> /\ seg' = Status(code, Min({next, n}), n)
    BY <1>4, <1>6, <1>13, <2>1
  <2>3. link' \o wait' = link \o s(k)
    BY <1>5, <1>10, <2>2, ConcatEmptySeq
  <2>4. wait' \in Seq(Segment) /\ Len(wait') <= 1
    BY <2>2
  <2>5. Adds(code, d, o, n, k, room)
    BY <1>10, <1>11, <1>12, <2>1, <2>2, <2>3, <2>4 DEF Adds, s
  <2> QED BY <2>2, <2>5
<1>14. CASE ~ (k = c \/ k = room)
  <2> DEFINE m == k + 1
             fr == SegmentAt(code, d, Place(o, m), n)
  <2>1. m \in Nat \ {0} /\ m \in 1 .. c /\ k \in Nat /\ k = slots /\ slots < room
    BY <1>2, <1>3, <1>7, <1>14
  <2>2. Place(o, m) < n
    BY <1>6, <2>1
  <2>3. next = Place(o, m)
    BY <2>1 DEF Place
  <2>4. wait' = <<fr>> /\ seg' = Status(code, SegEnd(Place(o, m), n), n)
    BY <1>4, <1>14, <2>3
  <2>5. fr \in Segment /\ (link \o s(k)) \o <<fr>> = link \o s(m)
    <3>1. Place(o, k + 1) < sz[d] /\ k \in Nat
      BY <2>1, <2>2
    <3> HIDE DEF m, n, fr, next
    <3>2. /\ SegmentAt(code, d, Place(o, k + 1), sz[d]) \in Segment
          /\ (link \o Cuts(code, d, o, sz[d], k)) \o <<SegmentAt(code, d, Place(o, k + 1), sz[d])>> =
                 link \o Cuts(code, d, o, sz[d], k + 1)
      BY <3>1, CutsOneMore, ZenonT(60)
    <3> QED BY <3>2 DEF s, m, n, fr
  <2>6. fr.code = code
    BY DEF SegmentAt
  <2> HIDE DEF fr
  <2>7. wait' \in Seq(Segment) /\ Len(wait') <= 1 /\ wait'[1].code = code
    BY <2>4, <2>5, <2>6
  <2>8. link' \o wait' = link \o s(m)
    BY <1>5, <2>4, <2>5
  <2>9. SegEnd(Place(o, m), n) = Min({o + m * MaxData, n})
    <3> HIDE DEF m, n
    <3> QED BY <1>1, <2>1, <2>2, Places
  <2> HIDE DEF m
  <2>10. Adds(code, d, o, n, m, room)
    BY <1>10, <1>11, <1>12, <2>1, <2>2, <2>4, <2>7, <2>8, <2>9 DEF Adds, s
  <2> QED BY <2>1, <2>7, <2>10
<1> QED BY <1>13, <1>14

-----------------------------------------------------------------------------
(* The actions of the sender. *)

LEMMA RowSeq ==
    ASSUME SegTypeOK
    PROVE  /\ Row \in Seq(Segment) /\ Len(Row) = Len(link) + Len(wait)
           /\ \A i \in 1 .. Len(link) : i \in 1 .. Len(Row) /\ Row[i] = link[i]
           /\ wait = <<>> => Row = link
<1>1. link \in Seq(Segment) /\ wait \in Seq(Segment)
  BY DEF SegTypeOK
<1>2. /\ Row \in Seq(Segment) /\ Len(Row) = Len(link) + Len(wait)
      /\ \A i \in 1 .. Len(link) + Len(wait) : Row[i] = IF i <= Len(link) THEN link[i] ELSE wait[i - Len(link)]
  BY <1>1, ConcatProperties DEF Row
<1>3. Len(link) \in Nat /\ Len(wait) \in Nat
  BY <1>1, LenProperties
<1>4. wait = <<>> => Row = link
  BY <1>1, ConcatEmptySeq DEF Row
<1> QED BY <1>2, <1>3, <1>4

(* A frame that gets between those of another SDU tears both. *)
LEMMA SentOrdered ==
    ASSUME link \in Seq(Segment), Ordered(link, torn),
           NEW code, NEW d, NEW o, NEW n, NEW m, NEW room, Adds(code, d, o, n, m, room),
           torn' = torn \cup Mixed(code, d)
    PROVE  Ordered(link', torn')
<1> SUFFICES ASSUME NEW i \in 1 .. Len(link'), NEW j \in 1 .. Len(link'), i < j,
                    IsAd(link'[i]), IsBd(link'[j])
             PROVE  Sdu(link'[i]) \in torn' /\ Sdu(link'[j]) \in torn'
  BY DEF Ordered
<1>1. /\ \/ i \in 1 .. Len(link) /\ link'[i] = link[i]
         \/ i > Len(link) /\ link'[i].code = code /\ Sdu(link'[i]) = d
      /\ \/ j \in 1 .. Len(link) /\ link'[j] = link[j]
         \/ j > Len(link) /\ link'[j].code = code /\ Sdu(link'[j]) = d
      /\ link' \in Seq(Segment)
  BY DEF Adds
<1>2. Len(link) \in Nat /\ i \in Int /\ j \in Int
  BY LenProperties
<1>3. CASE i \in 1 .. Len(link) /\ link'[i] = link[i] /\ j \in 1 .. Len(link) /\ link'[j] = link[j]
  BY <1>3 DEF Ordered
<1>4. CASE /\ i \in 1 .. Len(link) /\ link'[i] = link[i]
           /\ j > Len(link) /\ link'[j].code = code /\ Sdu(link'[j]) = d
  <2>1. i \in AdOnLink /\ code = "BD"
    BY <1>4 DEF AdOnLink, IsAd, IsBd
  <2>2. Mixed(code, d) = {d} \cup {Sdu(link[k]) : k \in AdOnLink}
    BY <2>1 DEF Mixed
  <2> QED BY <1>4, <2>1, <2>2
<1>5. CASE i > Len(link) /\ link'[i].code = code /\ j > Len(link) /\ link'[j].code = code
  BY <1>5 DEF IsAd, IsBd
<1>6. ~ (i > Len(link) /\ j \in 1 .. Len(link))
  BY <1>2
<1> QED BY <1>1, <1>3, <1>4, <1>5, <1>6

(* A call of osdlp_tc_transmit for the SDU begun last: what it does to the row. *)
LEMMA Sent ==
    ASSUME SegTypeOK, wait = <<>>, Len(link) < LinkCap,
           NEW sz \in Seq(Sizes), Len(sz) <= MaxSdus, NEW d \in 1 .. Len(sz), d = Len(sz),
           NEW o \in 0 .. sz[d] - 1, NEW code \in {"AD", "BD"},
           AllCut(Row, sz), Once(Row), Unbroken(Row, sz, seg, torn), Ordered(link, torn),
           o = 0 => ~ Ahead(Row, d), seg.flag = "IN_PROGRESS" => seg.octets = o,
           NEW s \in Slots(code), SendFrom(code, d, o, sz[d], LinkCap - Len(link), s),
           torn' = torn \cup Mixed(code, d)
    PROVE  /\ Longer(Row, Row', sz, seg, seg', torn', d, o)
           /\ Ordered(link', torn') /\ torn \subseteq torn' /\ torn' \subseteq torn \cup (1 .. Len(sz))
           /\ link' \in Seq(Segment) /\ Len(link') <= LinkCap
           /\ wait' \in Seq(Segment) /\ Len(wait') <= 1 /\ (wait' # <<>> => IsAd(wait'[1]))
           /\ seg' \in [flag : {"ENDED", "IN_PROGRESS"}, octets : Nat, code : {"AD", "BD"}]
           /\ seg'.flag = "IN_PROGRESS" => seg'.octets \in 1 .. sz[d] - 1
<1> DEFINE n == sz[d]
           room == LinkCap - Len(link)
<1>1. link \in Seq(Segment) /\ Row \in Seq(Segment) /\ Row = link /\ Len(link) \in Nat
  BY RowSeq, LenProperties DEF SegTypeOK
<1>2. LinkCap \in Nat /\ room \in Nat \ {0} /\ room <= LinkCap
  BY <1>1, CapsAssumption
<1>3. s \in Nat /\ (code = "BD" => s = LinkCap)
  BY <1>2 DEF Slots
<1>4. n \in Nat
  BY ElementOfSeq, LengthsAssumption
<1>5. /\ \E m : Adds(code, d, o, n, m, room)
      /\ wait' # <<>> => s < room /\ wait'[1].code = code
  BY <1>1, <1>2, <1>3, Sending
<1>6. PICK m : Adds(code, d, o, n, m, room)
  BY <1>5
<1>7. /\ m \in Nat \ {0} /\ Place(o, m) < n
      /\ Row' = Row \o Cuts(code, d, o, n, m)
      /\ seg' = Status(code, Min({o + m * MaxData, n}), n)
      /\ link' \in Seq(Segment) /\ Len(link') <= Len(link) + room
      /\ wait' \in Seq(Segment) /\ Len(wait') <= 1
  BY <1>1, <1>6 DEF Adds, Row
<1>8. Len(link') <= LinkCap
  <2>1. Len(link') \in Nat
    BY <1>7, LenProperties
  <2> QED BY <1>1, <1>2, <1>7, <2>1
<1>9. wait' # <<>> => IsAd(wait'[1])
  <2>1. wait' # <<>> => code # "BD"
    BY <1>2, <1>3, <1>5
  <2> QED BY <1>5, <2>1 DEF IsAd
<1>10. torn \subseteq torn' /\ torn' \subseteq torn \cup (1 .. Len(sz))
  <2>1. \A i \in AdOnLink : Sdu(link[i]) \in 1 .. Len(sz)
    BY <1>1 DEF AdOnLink, AllCut, Cut
  <2>2. Mixed(code, d) \subseteq 1 .. Len(sz)
    BY <2>1 DEF Mixed
  <2> QED BY <2>2
<1>11. Unbroken(Row, sz, seg, torn')
  BY <1>10 DEF Unbroken
<1>12. Min({o + m * MaxData, n}) \in 1 .. n
  <2>1. m \in 1 .. m /\ o \in 0 .. n - 1
    BY <1>7
  <2> HIDE DEF n
  <2>2. SegEnd(Place(o, m), n) = Min({o + m * MaxData, n}) /\ Place(o, m) \in o .. n - 1
    BY <1>4, <1>7, <2>1, Places
  <2>3. Place(o, m) \in 0 .. n - 1
    BY <1>4, <2>1, <2>2
  <2>4. SegEnd(Place(o, m), n) \in Place(o, m) + 1 .. n
    BY <1>4, <2>3, SegmentEnd
  <2> QED BY <1>4, <2>2, <2>3, <2>4
<1>13. /\ seg' \in [flag : {"ENDED", "IN_PROGRESS"}, octets : Nat, code : {"AD", "BD"}]
       /\ seg'.flag = "IN_PROGRESS" => seg'.octets \in 1 .. n - 1
  <2> DEFINE e == Min({o + m * MaxData, n})
  <2>1. e \in 1 .. n /\ seg' = Status(code, e, n)
    BY <1>7, <1>12
  <2> HIDE DEF e, n
  <2> QED BY <1>4, <2>1 DEF Status
<1>14. Ordered(link', torn')
  BY <1>1, <1>6, SentOrdered
<1>15. Longer(Row, Row \o Cuts(code, d, o, sz[d], m), sz, seg, seg', torn', d, o)
  BY <1>1, <1>7, <1>11, Appended
<1>16. Longer(Row, Row', sz, seg, seg', torn', d, o)
  BY <1>7, <1>15
<1> QED BY <1>7, <1>8, <1>9, <1>10, <1>13, <1>14, <1>16

(* What the queue holds stays whole or torn when SDUs are begun and torn. *)
LEMMA WholeKept ==
    ASSUME WholeOrTorn, rx' = rx, Len(size) <= Len(size'), Len(size) \in Nat, Len(size') \in Nat,
           \A d \in 1 .. Len(size) : size'[d] = size[d], torn \subseteq torn'
    PROVE  WholeOrTorn'
<1> SUFFICES ASSUME NEW i \in DOMAIN rx
             PROVE  \/ \E d \in 1 .. Len(size') : rx[i] = Whole(d)'
                    \/ \E k \in DOMAIN rx[i] : rx[i][k][1] \in torn'
  BY DEF WholeOrTorn
<1>1. CASE \E d \in 1 .. Len(size) : rx[i] = Whole(d)
  <2>1. PICK d \in 1 .. Len(size) : rx[i] = Whole(d)
    BY <1>1
  <2>2. d \in 1 .. Len(size') /\ Whole(d)' = Whole(d)
    BY DEF Whole
  <2> QED BY <2>1, <2>2
<1>2. CASE \E k \in DOMAIN rx[i] : rx[i][k][1] \in torn
  BY <1>2
<1> QED BY <1>1, <1>2 DEF WholeOrTorn

LEMMA TransmitKeeps ==
    ASSUME Tracked, NEW code \in {"AD", "BD"}, NEW length \in Sizes, Transmit(code, length)
    PROVE  Tracked'
<1> DEFINE d == Len(size) + 1
           zz == Append(size, length)
<1>1. /\ d <= MaxSdus /\ wait = <<>> /\ seg.flag = "ENDED" /\ Len(link) < LinkCap
      /\ size' = zz /\ torn' = torn \cup Mixed(code, d)
      /\ UNCHANGED <<open, ends, recvVars>>
  BY DEF Transmit
<1>2. PICK s \in Slots(code) : SendFrom(code, d, 0, length, LinkCap - Len(link), s)
  BY DEF Transmit
<1>3. /\ size \in Seq(Sizes) /\ Row \in Seq(Segment) /\ SegTypeOK /\ Len(size) \in Nat
      /\ torn \subseteq 1 .. Len(size)
  BY RowSeq, LenProperties DEF Tracked, SegTypeOK
<1>4. /\ zz \in Seq(Sizes) /\ Len(zz) = Len(size) + 1 /\ zz[Len(size) + 1] = length
      /\ \A x \in 1 .. Len(size) : x \in 1 .. Len(zz) /\ zz[x] = size[x]
      /\ AllCut(Row, zz) /\ Unbroken(Row, zz, seg, torn) /\ Joining(asm, Row, zz, seg, torn)
      /\ \A x : Ahead(Row, x) => x \in 1 .. Len(size)
  BY <1>1, <1>3, Started DEF Tracked
<1> HIDE DEF zz
<1>5. d \in 1 .. Len(zz) /\ d = Len(zz) /\ d \notin 1 .. Len(size) /\ length \in Nat \ {0}
      /\ 0 \in 0 .. zz[d] - 1 /\ zz[d] = length /\ Len(zz) <= MaxSdus /\ ~ Ahead(Row, d)
  BY <1>1, <1>3, <1>4, LengthsAssumption
<1> HIDE DEF d
<1>6. /\ Longer(Row, Row', zz, seg, seg', torn', d, 0)
      /\ Ordered(link', torn') /\ torn \subseteq torn' /\ torn' \subseteq torn \cup (1 .. Len(zz))
      /\ link' \in Seq(Segment) /\ Len(link') <= LinkCap
      /\ wait' \in Seq(Segment) /\ Len(wait') <= 1 /\ (wait' # <<>> => IsAd(wait'[1]))
      /\ seg' \in [flag : {"ENDED", "IN_PROGRESS"}, octets : Nat, code : {"AD", "BD"}]
      /\ seg'.flag = "IN_PROGRESS" => seg'.octets \in 1 .. zz[d] - 1
  <2>1. SendFrom(code, d, 0, zz[d], LinkCap - Len(link), s)
    BY <1>2, <1>5
  <2>2. AllCut(Row, zz) /\ Once(Row) /\ Unbroken(Row, zz, seg, torn) /\ Ordered(link, torn)
    BY <1>4 DEF Tracked
  <2>3. seg.flag # "IN_PROGRESS"
    BY <1>1
  <2> DEFINE o == 0
  <2>4. o \in 0 .. zz[d] - 1 /\ (o = 0 => ~ Ahead(Row, d)) /\ (seg.flag = "IN_PROGRESS" => seg.octets = o)
        /\ SendFrom(code, d, o, zz[d], LinkCap - Len(link), s)
    BY <1>5, <2>1, <2>3
  <2> HIDE DEF o
  <2>5. /\ Longer(Row, Row', zz, seg, seg', torn', d, o)
        /\ Ordered(link', torn') /\ torn \subseteq torn' /\ torn' \subseteq torn \cup (1 .. Len(zz))
        /\ link' \in Seq(Segment) /\ Len(link') <= LinkCap
        /\ wait' \in Seq(Segment) /\ Len(wait') <= 1 /\ (wait' # <<>> => IsAd(wait'[1]))
        /\ seg' \in [flag : {"ENDED", "IN_PROGRESS"}, octets : Nat, code : {"AD", "BD"}]
        /\ seg'.flag = "IN_PROGRESS" => seg'.octets \in 1 .. zz[d] - 1
    <3>1. /\ SegTypeOK /\ wait = <<>> /\ Len(link) < LinkCap /\ zz \in Seq(Sizes) /\ Len(zz) <= MaxSdus
          /\ d \in 1 .. Len(zz) /\ d = Len(zz) /\ torn' = torn \cup Mixed(code, d)
      BY <1>1, <1>3, <1>4, <1>5
    <3> QED BY <2>2, <2>4, <3>1, Sent
  <2> QED BY <2>5 DEF o
<1>7. asm' = asm /\ rx' = rx /\ arrived' = arrived /\ held' = held /\ open' = open /\ ends' = ends
  BY <1>1 DEF recvVars
<1>8. Joining(asm', Row', size', seg', torn')
  <2> SUFFICES ASSUME asm.loop = "OPEN" PROVE Joining(asm, Row', zz, seg', torn')
    BY <1>1, <1>7 DEF Joining
  <2>1. Opener(asm) \in 1 .. Len(size) /\ ~ Ahead(Row, Opener(asm))
    BY DEF Tracked, Joining
  <2>2. Opener(asm) # d /\ ~ Ahead(Row', Opener(asm))
    BY <1>5, <1>6, <2>1 DEF Longer
  <2> QED BY <1>4, <1>6, <2>2 DEF Joining, Longer
<1>9. Paid(asm', Row', size', torn', arrived')
  <2>1. Paid(asm, Row, size, torn, arrived)
    BY DEF Tracked
  <2>2. torn' \subseteq 1 .. Len(zz)
    BY <1>3, <1>4, <1>6
  <2>3. Ahead(Row', Len(size) + 1)
    BY <1>6 DEF Longer, d
  <2>4. \A x : x \in 1 .. Len(size) => (Ahead(Row, x) <=> Ahead(Row', x))
    BY <1>5, <1>6 DEF Longer
  <2>5. Paid(asm, Row', zz, torn', arrived)
    BY <1>3, <1>4, <1>6, <2>1, <2>2, <2>3, <2>4, StartedPaid
  <2> QED BY <1>1, <1>7, <2>5
<1>10. WholeOrTorn'
  <2>1. Len(size') \in Nat /\ Len(size) <= Len(size')
    BY <1>1, <1>3, <1>4
  <2> QED BY <1>1, <1>3, <1>4, <1>6, <1>7, <2>1, WholeKept DEF Tracked
<1>11. SegTypeOK'
  <2>1. size' \in Seq(Sizes) /\ Len(size') <= MaxSdus /\ size' # <<>> /\ d = Len(size')
    BY <1>1, <1>3, <1>4, <1>5
  <2>2. torn' \subseteq 1 .. Len(size') /\ arrived' \subseteq 1 .. Len(size')
    BY <1>1, <1>3, <1>4, <1>6, <1>7 DEF SegTypeOK
  <2>3. seg'.flag = "IN_PROGRESS" => seg'.octets \in 1 .. size'[Len(size')] - 1
    BY <1>1, <1>6, <2>1
  <2> QED BY <1>3, <1>6, <1>7, <2>1, <2>2, <2>3 DEF SegTypeOK
<1>12. AllCut(Row', size') /\ Once(Row') /\ Unbroken(Row', size', seg', torn')
  BY <1>1, <1>6 DEF Longer
<1> QED BY <1>6, <1>8, <1>9, <1>10, <1>11, <1>12 DEF Tracked

LEMMA ResumeKeeps ==
    ASSUME Tracked, Resume
    PROVE  Tracked'
<1> DEFINE d == Len(size)
           o == seg.octets
           code == seg.code
<1>1. /\ wait = <<>> /\ seg.flag = "IN_PROGRESS" /\ Len(link) < LinkCap
      /\ torn' = torn \cup Mixed(code, d)
      /\ size' = size /\ asm' = asm /\ rx' = rx /\ arrived' = arrived /\ held' = held
      /\ open' = open /\ ends' = ends
  BY DEF Resume, recvVars
<1>2. PICK s \in Slots(code) : SendFrom(code, d, o, size[d], LinkCap - Len(link), s)
  BY DEF Resume
<1>3. /\ size \in Seq(Sizes) /\ Row \in Seq(Segment) /\ SegTypeOK /\ Len(size) \in Nat
      /\ torn \subseteq 1 .. Len(size) /\ code \in {"AD", "BD"} /\ size # <<>>
      /\ o \in 1 .. size[d] - 1 /\ Len(size) <= MaxSdus
  BY <1>1, RowSeq, LenProperties DEF Tracked, SegTypeOK
<1>4. d \in 1 .. Len(size) /\ o \in 0 .. size[d] - 1 /\ o # 0 /\ size[d] \in Nat
  <2>1. Len(size) # 0
    BY <1>3, EmptySeq
  <2>2. d \in 1 .. Len(size)
    BY <1>3, <2>1
  <2>3. size[d] \in Nat
    BY <1>3, <2>2, ElementOfSeq, LengthsAssumption
  <2> QED BY <1>3, <2>2, <2>3
<1> HIDE DEF o, code
<1>5. /\ Longer(Row, Row', size, seg, seg', torn', d, o)
      /\ Ordered(link', torn') /\ torn \subseteq torn' /\ torn' \subseteq torn \cup (1 .. Len(size))
      /\ link' \in Seq(Segment) /\ Len(link') <= LinkCap
      /\ wait' \in Seq(Segment) /\ Len(wait') <= 1 /\ (wait' # <<>> => IsAd(wait'[1]))
      /\ seg' \in [flag : {"ENDED", "IN_PROGRESS"}, octets : Nat, code : {"AD", "BD"}]
      /\ seg'.flag = "IN_PROGRESS" => seg'.octets \in 1 .. size[d] - 1
  <2>1. AllCut(Row, size) /\ Once(Row) /\ Unbroken(Row, size, seg, torn) /\ Ordered(link, torn)
    BY DEF Tracked
  <2>2. seg.octets = o
    BY DEF o
  <2> QED BY <1>1, <1>2, <1>3, <1>4, <2>1, <2>2, Sent
<1>6. Joining(asm', Row', size', seg', torn')
  <2>1. Joining(asm, Row, size, seg, torn)
    BY DEF Tracked
  <2> QED BY <1>1, <1>4, <1>5, <2>1 DEF Joining, Longer
<1>7. Paid(asm', Row', size', torn', arrived')
  <2>1. Paid(asm, Row, size, torn, arrived)
    BY DEF Tracked
  <2>2. torn' \subseteq 1 .. Len(size)
    BY <1>3, <1>5
  <2>3. \A x : Ahead(Row', x) <=> Ahead(Row, x)
    BY <1>4, <1>5 DEF Longer
  <2>4. Paid(asm, Row', size, torn', arrived)
    BY <1>3, <1>5, <2>1, <2>2, <2>3, PaidOn
  <2> QED BY <1>1, <2>4
<1>8. WholeOrTorn'
  <2>1. Len(size) <= Len(size')
    BY <1>1, <1>3
  <2> QED BY <1>1, <1>3, <1>5, <2>1, WholeKept DEF Tracked
<1>9. SegTypeOK'
  BY <1>1, <1>3, <1>5 DEF SegTypeOK
<1>10. AllCut(Row', size') /\ Once(Row') /\ Unbroken(Row', size', seg', torn')
  BY <1>1, <1>5 DEF Longer
<1> QED BY <1>5, <1>6, <1>7, <1>8, <1>9, <1>10 DEF Tracked

-----------------------------------------------------------------------------
(* The actions that lose frames, and those that leave the row alone. *)

(* What is lost is torn, and the invariant stays. *)
LEMMA LossStep ==
    ASSUME Tracked, SegTypeOK', WholeOrTorn', wait' # <<>> => IsAd(wait'[1]),
           Thinned(Row, Row', torn'), Thinned(link, link', torn'),
           torn \subseteq torn', torn' \subseteq 1 .. Len(size),
           seg' = seg \/ Len(size) \in torn',
           size' = size, asm' = asm, arrived' = arrived
    PROVE  Tracked'
<1>1. /\ link \in Seq(Segment) /\ Row \in Seq(Segment) /\ size \in Seq(Sizes)
  BY RowSeq DEF Tracked, SegTypeOK
<1>2. link' \in Seq(Segment) /\ Row' \in Seq(Segment)
  <2>1. link' \in Seq(Segment) /\ wait' \in Seq(Segment)
    BY DEF SegTypeOK
  <2> QED BY <2>1, ConcatProperties DEF Row
<1>3. Follows(asm, Row, size, seg, torn, arrived) /\ Ordered(link, torn)
  BY DEF Tracked, Follows
<1>4. Follows(asm, Row', size, seg', torn', arrived)
  BY <1>1, <1>2, <1>3, LossKeeps
<1>5. Ordered(link', torn')
  BY <1>1, <1>2, <1>3, ThinnedOrdered
<1> QED BY <1>4, <1>5 DEF Tracked, Follows

LEMMA QuietStep ==
    ASSUME Tracked, SegTypeOK', WholeOrTorn',
           UNCHANGED <<size, seg, wait, link, torn, asm, arrived>>
    PROVE  Tracked'
<1>1. link \in Seq(Segment) /\ Row \in Seq(Segment) /\ Row' = Row
  BY RowSeq DEF Tracked, SegTypeOK, Row
<1>2. Thinned(Row, Row', torn') /\ Thinned(link, link', torn')
  BY <1>1, ThinnedSame
<1>3. torn \subseteq torn' /\ torn' \subseteq 1 .. Len(size)
  BY DEF Tracked, SegTypeOK
<1>4. wait' # <<>> => IsAd(wait'[1])
  BY DEF Tracked
<1> QED BY <1>2, <1>3, <1>4, LossStep

LEMMA TornIsSdu ==
    ASSUME Tracked
    PROVE  /\ SegTypeOK /\ Len(size) \in Nat /\ torn \subseteq 1 .. Len(size)
           /\ \A i \in 1 .. Len(link) : Sdu(link[i]) \in 1 .. Len(size)
           /\ SdusOf(wait) \subseteq 1 .. Len(size)
<1>1. SegTypeOK /\ Len(size) \in Nat /\ torn \subseteq 1 .. Len(size)
  BY LenProperties DEF Tracked, SegTypeOK
<1>2. \A i \in 1 .. Len(Row) : Sdu(Row[i]) \in 1 .. Len(size)
  BY DEF Tracked, AllCut, Cut
<1>3. \A i \in 1 .. Len(link) : i \in 1 .. Len(Row) /\ Row[i] = link[i]
  BY <1>1, RowSeq
<1>4. link \in Seq(Segment) /\ wait \in Seq(Segment) /\ Len(link) \in Nat
  BY <1>1, LenProperties DEF SegTypeOK
<1>5. /\ Len(Row) = Len(link) + Len(wait)
      /\ \A i \in 1 .. Len(link) + Len(wait) : Row[i] = IF i <= Len(link) THEN link[i] ELSE wait[i - Len(link)]
  BY <1>4, ConcatProperties DEF Row
<1>6. ASSUME NEW i \in 1 .. Len(wait) PROVE Sdu(wait[i]) \in 1 .. Len(size)
  <2>1. Len(link) + i \in 1 .. Len(link) + Len(wait) /\ ~ (Len(link) + i <= Len(link))
        /\ (Len(link) + i) - Len(link) = i
    BY <1>4
  <2>2. Row[Len(link) + i] = wait[i]
    BY <1>5, <2>1
  <2> QED BY <1>2, <1>5, <2>1, <2>2
<1>7. DOMAIN wait = 1 .. Len(wait)
  BY <1>4, LenProperties
<1>8. SdusOf(wait) \subseteq 1 .. Len(size)
  BY <1>6, <1>7 DEF SdusOf, ToSet
<1> QED BY <1>1, <1>2, <1>3, <1>8

LEMMA GiveUpKeeps ==
    ASSUME Tracked, GiveUp
    PROVE  Tracked'
<1>1. /\ wait = <<>> /\ seg.flag = "IN_PROGRESS"
      /\ seg' = Status("AD", size[Len(size)], size[Len(size)])
      /\ torn' = torn \cup {Len(size)} /\ size' = size /\ wait' = wait /\ open' = open /\ ends' = ends
      /\ link' = link /\ asm' = asm /\ rx' = rx /\ held' = held /\ arrived' = arrived
  BY DEF GiveUp, recvVars
<1>2. SegTypeOK /\ Len(size) \in Nat /\ torn \subseteq 1 .. Len(size) /\ size # <<>> /\ size \in Seq(Sizes)
  BY <1>1, TornIsSdu DEF SegTypeOK
<1>3. Len(size) \in 1 .. Len(size) /\ size[Len(size)] \in Nat
  <2>1. Len(size) # 0
    BY <1>2, EmptySeq
  <2>2. Len(size) \in 1 .. Len(size)
    BY <1>2, <2>1
  <2> QED BY <1>2, <2>2, ElementOfSeq, LengthsAssumption
<1>4. seg' = [flag |-> "ENDED", octets |-> 0, code |-> "AD"]
  <2>1. ~ (size[Len(size)] < size[Len(size)])
    BY <1>3
  <2> QED BY <1>1, <2>1 DEF Status
<1>5. SegTypeOK'
  <2>1. /\ seg' \in [flag : {"ENDED", "IN_PROGRESS"}, octets : Nat, code : {"AD", "BD"}]
        /\ seg'.flag # "IN_PROGRESS"
    BY <1>4
  <2>2. torn' \subseteq 1 .. Len(size)
    BY <1>1, <1>2, <1>3
  <2> QED BY <1>1, <1>2, <2>1, <2>2 DEF SegTypeOK
<1>6. WholeOrTorn'
  BY <1>1, <1>2, WholeKept DEF Tracked
<1>7. Thinned(Row, Row', torn') /\ Thinned(link, link', torn')
  <2>1. Row' = Row /\ Row \in Seq(Segment) /\ link \in Seq(Segment)
    BY <1>1, <1>2, RowSeq DEF Row, SegTypeOK
  <2> QED BY <1>1, <2>1, ThinnedSame
<1> QED BY <1>1, <1>2, <1>3, <1>5, <1>6, <1>7, LossStep

LEMMA ReleaseWaitKeeps ==
    ASSUME Tracked, ReleaseWait
    PROVE  Tracked'
<1>1. /\ wait # <<>> /\ Len(link) < LinkCap /\ link' = link \o wait /\ wait' = <<>>
      /\ size' = size /\ seg' = seg /\ open' = open /\ ends' = ends /\ torn' = torn
      /\ asm' = asm /\ rx' = rx /\ held' = held /\ arrived' = arrived
  BY DEF ReleaseWait, recvVars
<1>2. /\ SegTypeOK /\ link \in Seq(Segment) /\ wait \in Seq(Segment) /\ Len(wait) <= 1
      /\ Len(link) \in Nat /\ Len(wait) \in Nat /\ IsAd(wait[1])
  BY <1>1, LenProperties DEF Tracked, SegTypeOK
<1>3. /\ link' \in Seq(Segment) /\ Len(link') = Len(link) + Len(wait)
      /\ \A i \in 1 .. Len(link) + Len(wait) : link'[i] = IF i <= Len(link) THEN link[i] ELSE wait[i - Len(link)]
  BY <1>1, <1>2, ConcatProperties
<1>4. Row' = Row
  BY <1>1, <1>3, ConcatEmptySeq DEF Row
<1>5. Len(link') <= LinkCap
  BY <1>1, <1>2, <1>3, CapsAssumption
<1>6. SegTypeOK'
  BY <1>1, <1>2, <1>3, <1>5 DEF SegTypeOK
<1>7. Ordered(link', torn')
  <2> SUFFICES ASSUME NEW i \in 1 .. Len(link'), NEW j \in 1 .. Len(link'), i < j,
                      IsAd(link'[i]), IsBd(link'[j])
               PROVE  Sdu(link'[i]) \in torn /\ Sdu(link'[j]) \in torn
    BY <1>1 DEF Ordered
  <2>1. j <= Len(link)
    <3> SUFFICES ASSUME ~ (j <= Len(link)) PROVE FALSE
      BY <1>2, <1>3
    <3>1. j - Len(link) = 1 /\ j \in 1 .. Len(link) + Len(wait)
      BY <1>2, <1>3
    <3>2. link'[j] = wait[1]
      BY <1>3, <3>1
    <3> QED BY <1>2, <3>2 DEF IsAd, IsBd
  <2>2. i \in 1 .. Len(link) /\ j \in 1 .. Len(link) /\ link'[i] = link[i] /\ link'[j] = link[j]
    BY <1>2, <1>3, <2>1
  <2> QED BY <2>2 DEF Tracked, Ordered
<1>8. WholeOrTorn'
  <2>1. Len(size) \in Nat
    BY TornIsSdu
  <2> QED BY <1>1, <2>1, WholeKept DEF Tracked
<1> QED BY <1>1, <1>4, <1>6, <1>7, <1>8 DEF Tracked

LEMMA EndServiceKeeps ==
    ASSUME Tracked, EndService
    PROVE  Tracked'
<1>1. PICK j \in 0 .. Len(link) :
        LET lost == {i \in AdOnLink : i > j}
        IN  /\ link' = Only(link, DOMAIN link \ lost)
            /\ torn' = torn \cup {Sdu(link[i]) : i \in lost} \cup SdusOf(wait)
  BY DEF EndService
<1> DEFINE lost == {i \in AdOnLink : i > j}
           K == DOMAIN link \ lost
<1>2. /\ link' = Only(link, K) /\ torn' = torn \cup {Sdu(link[i]) : i \in lost} \cup SdusOf(wait)
      /\ wait' = <<>> /\ open' = FALSE /\ ends' = ends + 1 /\ ends < MaxEnds
      /\ size' = size /\ seg' = seg /\ asm' = asm /\ rx' = rx /\ held' = held /\ arrived' = arrived
  BY <1>1 DEF EndService, recvVars
<1>3. /\ SegTypeOK /\ Len(size) \in Nat /\ torn \subseteq 1 .. Len(size)
      /\ \A i \in 1 .. Len(link) : Sdu(link[i]) \in 1 .. Len(size)
      /\ SdusOf(wait) \subseteq 1 .. Len(size)
  BY TornIsSdu
<1>4. link \in Seq(Segment) /\ wait \in Seq(Segment) /\ DOMAIN link = 1 .. Len(link)
  BY <1>3, LenProperties DEF SegTypeOK
<1>5. /\ torn \subseteq torn' /\ SdusOf(wait) \subseteq torn' /\ torn' \subseteq 1 .. Len(size)
      /\ \A i \in 1 .. Len(link) : i \in K \/ Sdu(link[i]) \in torn'
  BY <1>2, <1>3, <1>4 DEF AdOnLink
<1>6. K \in SUBSET (1 .. Len(link))
  BY <1>4
<1> HIDE DEF K
<1>7. link' \in Seq(Segment) /\ Len(link') <= Len(link) /\ Thinned(link, link', torn')
  BY <1>2, <1>4, <1>5, <1>6, OnlyThins
<1>8. Thinned(Row, Row', torn')
  <2>1. Row' = link'
    BY <1>2, <1>7, ConcatEmptySeq DEF Row
  <2>2. Thinned(link \o wait, link', torn')
    BY <1>4, <1>5, <1>7, ThinnedWait
  <2> QED BY <2>1, <2>2 DEF Row
<1>9. SegTypeOK'
  <2>1. Len(link') <= LinkCap
    <3>1. Len(link') \in Nat /\ Len(link) \in Nat /\ Len(link) <= LinkCap /\ LinkCap \in Nat
      BY <1>3, <1>4, <1>7, LenProperties, CapsAssumption DEF SegTypeOK
    <3> QED BY <1>7, <3>1
  <2>2. ends' \in 0 .. MaxEnds
    <3>1. ends \in 0 .. MaxEnds
      BY <1>3 DEF SegTypeOK
    <3> QED BY <1>2, <3>1, CapsAssumption
  <2>3. wait' = <<>> /\ open' = FALSE
    BY <1>2
  <2>4. wait' \in Seq(Segment) /\ Len(wait') <= 1
    BY <2>3
  <2>5. open' \in BOOLEAN
    BY <2>3
  <2> QED BY <1>2, <1>3, <1>5, <1>7, <2>1, <2>2, <2>4, <2>5 DEF SegTypeOK
<1>10. WholeOrTorn'
  BY <1>2, <1>3, <1>5, WholeKept DEF Tracked
<1> QED BY <1>2, <1>5, <1>7, <1>8, <1>9, <1>10, LossStep

LEMMA LoseBdKeeps ==
    ASSUME Tracked, NEW i, LoseBd(i)
    PROVE  Tracked'
<1>1. /\ i \in DOMAIN link /\ torn' = torn \cup {Sdu(link[i])} /\ link' = RemoveAt(link, i)
      /\ size' = size /\ seg' = seg /\ wait' = wait /\ open' = open /\ ends' = ends
      /\ asm' = asm /\ rx' = rx /\ held' = held /\ arrived' = arrived
  BY DEF LoseBd, sendVars, recvVars
<1>2. /\ SegTypeOK /\ Len(size) \in Nat /\ torn \subseteq 1 .. Len(size)
      /\ \A k \in 1 .. Len(link) : Sdu(link[k]) \in 1 .. Len(size)
  BY TornIsSdu
<1>3. link \in Seq(Segment) /\ wait \in Seq(Segment) /\ i \in 1 .. Len(link) /\ Len(link) \in Nat
  BY <1>1, <1>2, LenProperties DEF SegTypeOK
<1>4. /\ link' \in Seq(Segment) /\ Without(link, link', i) /\ Without(Row, Row', i)
      /\ Row \in Seq(Segment) /\ Row' \in Seq(Segment)
  BY <1>1, <1>3, RemovedAt DEF Row
<1>5. Row[i] = link[i] /\ Sdu(link[i]) \in torn'
  BY <1>1, <1>2, <1>3, RowSeq
<1>6. Thinned(link, link', torn') /\ Thinned(Row, Row', torn')
  BY <1>3, <1>4, <1>5, WithoutThins
<1>7. torn \subseteq torn' /\ torn' \subseteq 1 .. Len(size)
  BY <1>1, <1>2, <1>3
<1>8. SegTypeOK'
  <2>1. Len(link') <= LinkCap
    <3>1. Len(link') = Len(link) - 1 /\ Len(link) <= LinkCap
      BY <1>2, <1>4 DEF Without, SegTypeOK
    <3> QED BY <1>3, <3>1, CapsAssumption
  <2> QED BY <1>1, <1>2, <1>4, <1>7, <2>1 DEF SegTypeOK
<1>9. WholeOrTorn'
  BY <1>1, <1>2, <1>7, WholeKept DEF Tracked
<1>10. wait' # <<>> => IsAd(wait'[1])
  BY <1>1 DEF Tracked
<1> QED BY <1>1, <1>6, <1>7, <1>8, <1>9, <1>10, LossStep

LEMMA InitiateKeeps ==
    ASSUME Tracked, Initiate
    PROVE  Tracked'
<1>1. /\ open' = TRUE /\ size' = size /\ seg' = seg /\ wait' = wait /\ ends' = ends /\ link' = link
      /\ torn' = torn /\ asm' = asm /\ rx' = rx /\ held' = held /\ arrived' = arrived
  BY DEF Initiate, recvVars
<1>2. SegTypeOK'
  BY <1>1 DEF Tracked, SegTypeOK
<1>3. WholeOrTorn'
  BY <1>1, TornIsSdu, WholeKept DEF Tracked
<1> QED BY <1>1, <1>2, <1>3, QuietStep

LEMMA BufferReleaseKeeps ==
    ASSUME Tracked, BufferRelease
    PROVE  Tracked'
<1>1. /\ held' = FALSE /\ size' = size /\ seg' = seg /\ wait' = wait /\ ends' = ends /\ link' = link
      /\ torn' = torn /\ asm' = asm /\ rx' = rx /\ open' = open /\ arrived' = arrived
  BY DEF BufferRelease, sendVars
<1>2. SegTypeOK'
  BY <1>1 DEF Tracked, SegTypeOK
<1>3. WholeOrTorn'
  BY <1>1, TornIsSdu, WholeKept DEF Tracked
<1> QED BY <1>1, <1>2, <1>3, QuietStep

LEMMA TakeSduKeeps ==
    ASSUME Tracked, TakeSdu
    PROVE  Tracked'
<1>1. /\ rx # <<>> /\ rx' = Tail(rx) /\ size' = size /\ seg' = seg /\ wait' = wait /\ ends' = ends
      /\ link' = link /\ torn' = torn /\ asm' = asm /\ open' = open /\ held' = held /\ arrived' = arrived
  BY DEF TakeSdu, sendVars
<1>2. rx \in Seq(Seq(Octet)) /\ Len(rx) <= RxCap /\ Len(rx) \in Nat /\ RxCap \in Nat
  BY LenProperties, CapsAssumption DEF Tracked, SegTypeOK
<1>3. /\ rx' \in Seq(Seq(Octet)) /\ Len(rx') = Len(rx) - 1
      /\ \A i \in 1 .. Len(rx) - 1 : rx'[i] = rx[i + 1]
  BY <1>1, <1>2, HeadTailProperties
<1>4. SegTypeOK'
  <2>1. Len(rx') <= RxCap
    BY <1>2, <1>3
  <2> QED BY <1>1, <1>3, <2>1 DEF Tracked, SegTypeOK
<1>5. WholeOrTorn'
  <2> SUFFICES ASSUME NEW i \in DOMAIN rx'
               PROVE  \/ \E d \in 1 .. Len(size) : rx'[i] = Whole(d)
                      \/ \E k \in DOMAIN rx'[i] : rx'[i][k][1] \in torn
    BY <1>1 DEF WholeOrTorn, Whole
  <2>1. i \in 1 .. Len(rx) - 1
    BY <1>3, LenProperties
  <2>2. i + 1 \in 1 .. Len(rx) /\ DOMAIN rx = 1 .. Len(rx) /\ rx'[i] = rx[i + 1]
    BY <1>2, <1>3, <2>1, LenProperties, SMTT(30)
  <2> QED BY <2>2 DEF Tracked, WholeOrTorn
<1> QED BY <1>1, <1>4, <1>5, QuietStep

-----------------------------------------------------------------------------
(* The actions of the receiver. *)

(* A sound item stays sound in the queue, whether it is put behind or over the head. *)
LEMMA EnqueueSound ==
    ASSUME Tracked, NEW item \in Seq(Octet), Enqueue(item), Sound(item, size, torn),
           size' = size, torn' = torn
    PROVE  /\ rx' \in Seq(Seq(Octet)) /\ Len(rx') <= RxCap /\ WholeOrTorn'
           /\ arrived \subseteq arrived' /\ arrived' \subseteq 1 .. Len(size)
           /\ Noted(item, size, arrived')
<1>1. /\ rx \in Seq(Seq(Octet)) /\ Len(rx) <= RxCap /\ Len(rx) \in Nat /\ RxCap \in Nat \ {0}
      /\ arrived \subseteq 1 .. Len(size) /\ DOMAIN rx = 1 .. Len(rx)
  BY LenProperties, CapsAssumption DEF Tracked, SegTypeOK
<1>2. /\ rx' = (IF RxFull THEN [rx EXCEPT ![1] = item] ELSE Append(rx, item))
      /\ arrived' = arrived \cup {d \in 1 .. Len(size) : item = Whole(d)}
  BY DEF Enqueue
<1>3. /\ rx' \in Seq(Seq(Octet)) /\ Len(rx') <= RxCap
      /\ \A i \in 1 .. Len(rx') : rx'[i] = item \/ (i \in 1 .. Len(rx) /\ rx'[i] = rx[i])
  <2>1. CASE RxFull
    <3>1. rx' = [rx EXCEPT ![1] = item] /\ Len(rx) = RxCap
      BY <1>2, <2>1 DEF RxFull
    <3>2. 1 \in 1 .. Len(rx)
      BY <1>1, <3>1
    <3>3. rx' \in Seq(Seq(Octet)) /\ Len(rx') = Len(rx)
          /\ \A i \in 1 .. Len(rx) : rx'[i] = IF i = 1 THEN item ELSE rx[i]
      BY <1>1, <3>1, <3>2, ExceptSeq
    <3> QED BY <1>1, <3>3
  <2>2. CASE ~ RxFull
    <3>1. rx' = Append(rx, item) /\ Len(rx) # RxCap
      BY <1>2, <2>2 DEF RxFull
    <3>2. /\ rx' \in Seq(Seq(Octet)) /\ Len(rx') = Len(rx) + 1 /\ rx'[Len(rx) + 1] = item
          /\ \A i \in 1 .. Len(rx) : rx'[i] = rx[i]
      BY <1>1, <3>1, AppendProperties
    <3> QED BY <1>1, <3>1, <3>2
  <2> QED BY <2>1, <2>2
<1>4. \A d : Whole(d) = Octets(d, size[d])
  BY DEF Whole, Octets
<1>5. WholeOrTorn'
  <2> SUFFICES ASSUME NEW i \in DOMAIN rx'
               PROVE  \/ \E d \in 1 .. Len(size) : rx'[i] = Whole(d)
                      \/ \E k \in DOMAIN rx'[i] : rx'[i][k][1] \in torn
    BY DEF WholeOrTorn, Whole
  <2>1. i \in 1 .. Len(rx')
    BY <1>3, LenProperties
  <2>2. CASE rx'[i] = item
    BY <1>4, <2>2 DEF Sound
  <2>3. CASE i \in 1 .. Len(rx) /\ rx'[i] = rx[i]
    BY <1>1, <2>3 DEF Tracked, WholeOrTorn
  <2> QED BY <1>3, <2>1, <2>2, <2>3
<1>6. /\ arrived \subseteq arrived' /\ arrived' \subseteq 1 .. Len(size)
      /\ Noted(item, size, arrived')
  BY <1>1, <1>2, <1>4 DEF Noted
<1> QED BY <1>3, <1>5, <1>6

(* What hearing a frame may change besides the row. *)
Outcome ==
    /\ asm' \in [loop : {"OPEN", "CLOSED"}, buf : Seq(Octet)] /\ Len(asm'.buf) <= MaxSdu
    /\ rx' \in Seq(Seq(Octet)) /\ Len(rx') <= RxCap /\ WholeOrTorn'
    /\ arrived' \subseteq 1 .. Len(size)
    /\ Joining(asm', Row', size, seg, torn) /\ Paid(asm', Row', size, torn, arrived')

LEMMA ClosedOutcome ==
    ASSUME Tracked, size' = size, torn' = torn, UNCHANGED <<rx, arrived>>,
           asm' \in [loop : {"OPEN", "CLOSED"}, buf : Seq(Octet)], asm'.loop # "OPEN",
           Len(asm'.buf) <= MaxSdu, Paid(asm', Row', size, torn, arrived)
    PROVE  Outcome
<1>1. WholeOrTorn'
  BY TornIsSdu, WholeKept DEF Tracked
<1>2. Joining(asm', Row', size, seg, torn)
  BY DEF Joining
<1> QED BY <1>1, <1>2 DEF Tracked, SegTypeOK, Outcome

LEMMA ClosedIs ==
    /\ Closed \in [loop : {"OPEN", "CLOSED"}, buf : Seq(Octet)]
    /\ Closed.loop # "OPEN" /\ Len(Closed.buf) <= MaxSdu
<1>1. Closed.loop = "CLOSED" /\ Closed.buf = <<>> /\ Closed = [loop |-> Closed.loop, buf |-> Closed.buf]
  BY DEF Closed
<1>2. MaxSdu \in Nat
  BY LengthsAssumption
<1>3. Closed.buf \in Seq(Octet) /\ Len(Closed.buf) <= MaxSdu
  BY <1>1, <1>2
<1> HIDE DEF Closed
<1>4. Closed \in [loop : {"OPEN", "CLOSED"}, buf : Seq(Octet)]
  BY <1>1, <1>3
<1> QED BY <1>1, <1>3, <1>4

(* The cases of a later segment for an open loop. *)
LEMMA NextSegmentCases ==
    ASSUME NEW fr, NEW joined, joined = asm.buf \o fr.data, Len(joined) \in Nat, asm.loop = "OPEN",
           NextSegment(fr)
    PROVE  /\ Len(joined) > MaxSdu => asm' = Closed /\ UNCHANGED <<rx, arrived>>
           /\ Len(joined) <= MaxSdu /\ fr.flag = "CONT" =>
                 asm' = [asm EXCEPT !.buf = joined] /\ UNCHANGED <<rx, arrived>>
           /\ Len(joined) <= MaxSdu /\ fr.flag = "LAST" =>
                 asm' = [asm EXCEPT !.loop = "CLOSED"] /\ Enqueue(joined)
<1> DEFINE n == Len(joined)
<1>1. MaxSdu \in Nat /\ n \in Nat
  BY LengthsAssumption
<1>2. (CASE asm.loop # "OPEN" -> asm' = [asm EXCEPT !.buf = <<>>] /\ UNCHANGED <<rx, arrived>>
        [] asm.loop = "OPEN" /\ n > MaxSdu -> asm' = Closed /\ UNCHANGED <<rx, arrived>>
        [] asm.loop = "OPEN" /\ n <= MaxSdu /\ fr.flag = "CONT" ->
              asm' = [asm EXCEPT !.buf = joined] /\ UNCHANGED <<rx, arrived>>
        [] asm.loop = "OPEN" /\ n <= MaxSdu /\ fr.flag = "LAST" ->
              asm' = [asm EXCEPT !.loop = "CLOSED"] /\ Enqueue(joined))
  BY DEF NextSegment
<1> HIDE DEF n
<1>3. CASE n > MaxSdu
  <2>1. ~ (n <= MaxSdu)
    BY <1>1, <1>3
  <2> QED BY <1>2, <1>3, <2>1 DEF n
<1>4. CASE n <= MaxSdu /\ fr.flag = "CONT"
  <2>1. ~ (n > MaxSdu)
    BY <1>1, <1>4
  <2> QED BY <1>2, <1>4, <2>1 DEF n
<1>5. CASE n <= MaxSdu /\ fr.flag = "LAST"
  <2>1. ~ (n > MaxSdu)
    BY <1>1, <1>5
  <2> QED BY <1>2, <1>5, <2>1 DEF n
<1> QED BY <1>3, <1>4, <1>5 DEF n

(* osdlp_tc_receive with any frame of the row. *)
LEMMA ReassembleOutcome ==
    ASSUME Tracked, NEW i, Hearing(asm, Row, Row', size, seg, torn, arrived, i),
           Reassemble(Row[i]), size' = size, torn' = torn
    PROVE  Outcome
<1> DEFINE fr == Row[i]
           joined == asm.buf \o fr.data
<1>1. /\ asm \in [loop : {"OPEN", "CLOSED"}, buf : Seq(Octet)] /\ Len(asm.buf) <= MaxSdu
      /\ MaxSdu \in Nat /\ MaxData \in Nat /\ MaxData <= MaxSdu
      /\ rx \in Seq(Seq(Octet)) /\ Len(rx) <= RxCap /\ arrived \subseteq 1 .. Len(size)
      /\ size \in Seq(Sizes)
  BY LengthsAssumption DEF Tracked, SegTypeOK
<1>2. Cut(fr, size) /\ fr.data \in Seq(Octet)
  BY HeardFrame
<1>3. fr.flag \in {"UNSEG", "FIRST", "CONT", "LAST"} /\ Len(fr.data) \in 1 .. MaxData
      /\ Sdu(fr) \in 1 .. Len(size)
  BY <1>1, <1>2, CutFacts
<1>4. joined \in Seq(Octet)
  BY <1>1, <1>2, ConcatProperties
<1>5. WholeOrTorn
  BY DEF Tracked
<1>6. CASE fr.flag = "UNSEG"
  <2>1. asm' = Closed /\ Enqueue(fr.data)
    BY <1>6 DEF Reassemble
  <2>2. fr.data = Octets(Sdu(fr), size[Sdu(fr)])
    BY <1>1, <1>2, <1>6, UnsegWhole
  <2>3. Sound(fr.data, size, torn)
    BY <1>3, <2>2 DEF Sound
  <2>4. /\ rx' \in Seq(Seq(Octet)) /\ Len(rx') <= RxCap /\ WholeOrTorn'
        /\ arrived \subseteq arrived' /\ arrived' \subseteq 1 .. Len(size)
        /\ Noted(fr.data, size, arrived')
    BY <1>2, <2>1, <2>3, EnqueueSound
  <2>5. arrived \cup {Sdu(fr)} \subseteq arrived'
    BY <1>3, <2>2, <2>4 DEF Noted
  <2>6. Paid(Closed, Row', size, torn, arrived')
    BY <1>6, <2>5, HeardUnseg
  <2>7. Joining(Closed, Row', size, seg, torn)
    BY ClosedIs DEF Joining
  <2> QED BY <2>1, <2>4, <2>6, <2>7, ClosedIs DEF Outcome
<1>7. CASE fr.flag = "FIRST" /\ asm.loop = "CLOSED"
  <2>1. asm' = [loop |-> "OPEN", buf |-> fr.data] /\ rx' = rx /\ arrived' = arrived
    BY <1>7 DEF Reassemble, FirstSegment
  <2>2. asm'.loop = "OPEN" /\ asm'.buf = fr.data
    BY <2>1
  <2>3. Joining(asm', Row', size, seg, torn) /\ Paid(asm', Row', size, torn, arrived)
    BY <1>7, <2>2, HeardFirst
  <2>4. asm' \in [loop : {"OPEN", "CLOSED"}, buf : Seq(Octet)] /\ Len(asm'.buf) <= MaxSdu
    BY <1>1, <1>2, <1>3, <2>1
  <2>5. WholeOrTorn'
    BY <1>5, <2>1, TornIsSdu, WholeKept
  <2> QED BY <1>1, <2>1, <2>3, <2>4, <2>5 DEF Outcome
<1>8. CASE fr.flag = "FIRST" /\ asm.loop = "OPEN"
  <2>1. asm' = Closed /\ UNCHANGED <<rx, arrived>>
    BY <1>8 DEF Reassemble, FirstSegment
  <2> DEFINE b == [loop |-> "OPEN", buf |-> fr.data]
  <2>2. b.loop = "OPEN" /\ b.buf = fr.data
    OBVIOUS
  <2> HIDE DEF b
  <2>3. Paid(Closed, Row', size, torn, arrived)
    BY <1>8, <2>2, HeardFirst
  <2> QED BY <2>1, <2>3, ClosedIs, ClosedOutcome
<1>9. CASE fr.flag \in {"CONT", "LAST"} /\ asm.loop # "OPEN"
  <2>1. asm' = [asm EXCEPT !.buf = <<>>] /\ UNCHANGED <<rx, arrived>>
    BY <1>9 DEF Reassemble, NextSegment
  <2>2. asm'.loop = asm.loop /\ asm' \in [loop : {"OPEN", "CLOSED"}, buf : Seq(Octet)]
        /\ Len(asm'.buf) <= MaxSdu
    <3>1. asm'.loop = asm.loop /\ asm'.buf = <<>>
      BY <1>1, <2>1
    <3>2. asm'.buf \in Seq(Octet) /\ Len(asm'.buf) <= MaxSdu
      BY <1>1, <3>1
    <3>3. asm' = [loop |-> asm'.loop, buf |-> asm'.buf]
      BY <1>1, <2>1
    <3> QED BY <1>1, <3>1, <3>2, <3>3
  <2>3. Paid(asm', Row', size, torn, arrived)
    BY <1>9, <2>2, HeardDropped
  <2> QED BY <1>9, <2>1, <2>2, <2>3, ClosedOutcome
<1>10. ASSUME fr.flag \in {"CONT", "LAST"}, asm.loop = "OPEN"
       PROVE  /\ Len(joined) > MaxSdu => asm' = Closed /\ UNCHANGED <<rx, arrived>>
              /\ Len(joined) <= MaxSdu /\ fr.flag = "CONT" =>
                    asm' = [asm EXCEPT !.buf = joined] /\ UNCHANGED <<rx, arrived>>
              /\ Len(joined) <= MaxSdu /\ fr.flag = "LAST" =>
                    asm' = [asm EXCEPT !.loop = "CLOSED"] /\ Enqueue(joined)
  <2>1. NextSegment(fr)
    BY <1>10 DEF Reassemble
  <2>2. joined = asm.buf \o fr.data /\ Len(joined) \in Nat
    BY <1>4, LenProperties
  <2> HIDE DEF joined, fr
  <2> QED BY <1>10, <2>1, <2>2, NextSegmentCases
<1>11. CASE fr.flag \in {"CONT", "LAST"} /\ asm.loop = "OPEN" /\ Len(joined) > MaxSdu
  <2>1. asm' = Closed /\ UNCHANGED <<rx, arrived>>
    BY <1>11, <1>10
  <2>2. Paid(Closed, Row', size, torn, arrived)
    BY <1>11, HeardTooLong
  <2> QED BY <2>1, <2>2, ClosedIs, ClosedOutcome
<1>12. CASE fr.flag = "CONT" /\ asm.loop = "OPEN" /\ Len(joined) <= MaxSdu
  <2>1. asm' = [asm EXCEPT !.buf = joined] /\ rx' = rx /\ arrived' = arrived
    BY <1>12, <1>10
  <2>2. asm'.loop = "OPEN" /\ asm'.buf = joined
        /\ asm' \in [loop : {"OPEN", "CLOSED"}, buf : Seq(Octet)]
    <3> HIDE DEF joined
    <3> QED BY <1>1, <1>4, <1>12, <2>1
  <2>3. Joining(asm', Row', size, seg, torn) /\ Paid(asm', Row', size, torn, arrived)
    BY <1>12, <2>2, HeardCont
  <2>4. WholeOrTorn'
    BY <1>5, <2>1, TornIsSdu, WholeKept
  <2>5. Len(asm'.buf) <= MaxSdu
    BY <1>12, <2>2
  <2> QED BY <1>1, <2>1, <2>2, <2>3, <2>4, <2>5 DEF Outcome
<1>13. CASE fr.flag = "LAST" /\ asm.loop = "OPEN" /\ Len(joined) <= MaxSdu
  <2>1. asm' = [asm EXCEPT !.loop = "CLOSED"] /\ Enqueue(joined)
    BY <1>13, <1>10
  <2>2. asm'.loop = "CLOSED" /\ asm'.buf = asm.buf
        /\ asm' \in [loop : {"OPEN", "CLOSED"}, buf : Seq(Octet)]
    BY <1>1, <2>1
  <2>3. arrived \subseteq arrived' /\ Noted(joined, size, arrived')
    BY <2>1 DEF Enqueue, Whole, Octets, Noted
  <2>4. Sound(joined, size, torn) /\ Paid(asm', Row', size, torn, arrived')
    BY <1>13, <2>2, <2>3, HeardLast
  <2> HIDE DEF joined
  <2>5. rx' \in Seq(Seq(Octet)) /\ Len(rx') <= RxCap /\ WholeOrTorn' /\ arrived' \subseteq 1 .. Len(size)
    BY <1>4, <2>1, <2>4, EnqueueSound
  <2>6. Joining(asm', Row', size, seg, torn)
    BY <2>2 DEF Joining
  <2> QED BY <1>1, <2>2, <2>4, <2>5, <2>6 DEF Outcome
<1>14. Len(joined) > MaxSdu \/ Len(joined) <= MaxSdu
  <2>1. Len(joined) \in Nat
    BY <1>4, LenProperties
  <2> HIDE DEF joined
  <2> QED BY <1>1, <2>1
<1>15. asm.loop = "OPEN" \/ asm.loop = "CLOSED"
  BY <1>1
<1> QED BY <1>3, <1>6, <1>7, <1>8, <1>9, <1>11, <1>12, <1>13, <1>14, <1>15

LEMMA WithoutOrdered ==
    ASSUME NEW q \in Seq(Segment), NEW r \in Seq(Segment), NEW i, Without(q, r, i), NEW tn, Ordered(q, tn)
    PROVE  Ordered(r, tn)
<1>1. /\ i \in 1 .. Len(q) /\ Len(r) = Len(q) - 1 /\ Len(q) \in Nat
      /\ \A k \in 1 .. Len(r) : r[k] = IF k < i THEN q[k] ELSE q[k + 1]
  BY DEF Without
<1> SUFFICES ASSUME NEW j \in 1 .. Len(r), NEW k \in 1 .. Len(r), j < k, IsAd(r[j]), IsBd(r[k])
             PROVE  Sdu(r[j]) \in tn /\ Sdu(r[k]) \in tn
  BY DEF Ordered
<1> DEFINE s == IF j < i THEN j ELSE j + 1
           t == IF k < i THEN k ELSE k + 1
<1>2. s \in 1 .. Len(q) /\ t \in 1 .. Len(q) /\ s < t /\ r[j] = q[s] /\ r[k] = q[t]
  BY <1>1
<1> QED BY <1>2 DEF Ordered

(* A frame is taken from the link, the first or one that overtakes. *)
LEMMA HeardKeeps ==
    ASSUME Tracked, NEW i \in 1 .. Len(link), MayBeHeard(link, torn, i),
           Reassemble(link[i]), link' = RemoveAt(link, i), UNCHANGED <<sendVars, held, torn>>
    PROVE  Tracked'
<1>1. /\ size' = size /\ seg' = seg /\ wait' = wait /\ open' = open /\ ends' = ends
      /\ held' = held /\ torn' = torn
  BY DEF sendVars
<1>2. SegTypeOK /\ link \in Seq(Segment) /\ wait \in Seq(Segment) /\ Len(link) \in Nat
  BY LenProperties DEF Tracked, SegTypeOK
<1>3. /\ link' \in Seq(Segment) /\ Without(link, link', i) /\ Without(Row, Row', i)
      /\ Row \in Seq(Segment) /\ Row' \in Seq(Segment)
  BY <1>1, <1>2, RemovedAt DEF Row
<1>4. Row[i] = link[i] /\ Row[1] = link[1]
  <2>1. 1 \in 1 .. Len(link)
    BY <1>2
  <2> QED BY <1>2, <2>1, RowSeq
<1>5. Hearing(asm, Row, Row', size, seg, torn, arrived, i)
  <2>1. MayBeHeard(Row, torn, i)
    BY <1>4 DEF MayBeHeard
  <2>2. /\ size \in Seq(Sizes) /\ Len(size) <= MaxSdus /\ torn \subseteq 1 .. Len(size)
        /\ asm.loop \in {"OPEN", "CLOSED"} /\ asm.buf \in Seq(Octet)
    BY <1>2 DEF SegTypeOK
  <2> QED BY <1>3, <2>1, <2>2 DEF Tracked, Hearing
<1>6. Outcome
  BY <1>1, <1>4, <1>5, ReassembleOutcome
<1>7. AllCut(Row', size) /\ Once(Row') /\ Unbroken(Row', size, seg, torn)
  BY <1>5, HeardFrame
<1>8. Ordered(link', torn)
  BY <1>2, <1>3, WithoutOrdered DEF Tracked
<1>9. SegTypeOK'
  <2>1. Len(link') <= LinkCap
    <3>1. Len(link') = Len(link) - 1 /\ Len(link) <= LinkCap
      BY <1>2, <1>3 DEF Without, SegTypeOK
    <3> QED BY <1>2, <3>1, CapsAssumption
  <2> QED BY <1>1, <1>2, <1>3, <1>6, <2>1 DEF SegTypeOK, Outcome
<1>10. wait' # <<>> => IsAd(wait'[1])
  BY <1>1 DEF Tracked
<1> QED BY <1>1, <1>6, <1>7, <1>8, <1>9, <1>10 DEF Tracked, Outcome

LEMMA HearBdKeeps ==
    ASSUME Tracked, NEW i, HearBd(i)
    PROVE  Tracked'
<1>1. /\ i \in DOMAIN link /\ IsBd(link[i]) /\ \A j \in 1 .. i - 1 : IsAd(link[j])
      /\ Reassemble(link[i]) /\ link' = RemoveAt(link, i) /\ UNCHANGED <<sendVars, held, torn>>
  BY DEF HearBd
<1>2. i \in 1 .. Len(link) /\ Len(link) \in Nat
  BY <1>1, LenProperties DEF Tracked, SegTypeOK
<1>3. MayBeHeard(link, torn, i)
  <2>1. CASE i = 1
    BY <2>1 DEF MayBeHeard
  <2>2. CASE i # 1
    <3>1. 1 \in 1 .. i - 1 /\ 1 \in 1 .. Len(link) /\ 1 < i
      BY <1>2, <2>2
    <3> QED BY <1>1, <1>2, <3>1 DEF Tracked, Ordered, MayBeHeard
  <2> QED BY <2>1, <2>2
<1> QED BY <1>1, <1>2, <1>3, HeardKeeps

(* COP_ERROR closes the loop; the SDU in it is torn, unless it was torn already. *)
LEMMA CopErrorKeeps ==
    ASSUME Tracked, link # <<>>, asm' = Closed,
           torn' = IF Head(link).flag \in {"CONT", "LAST"} THEN torn \cup {Sdu(Head(link))} ELSE torn,
           UNCHANGED <<rx, arrived, held, link, sendVars>>
    PROVE  Tracked'
<1>1. /\ size' = size /\ seg' = seg /\ wait' = wait /\ open' = open /\ ends' = ends
      /\ held' = held /\ rx' = rx /\ arrived' = arrived /\ link' = link
  BY DEF sendVars
<1>2. /\ SegTypeOK /\ link \in Seq(Segment) /\ Row \in Seq(Segment) /\ Row' = Row
      /\ Len(size) \in Nat /\ torn \subseteq 1 .. Len(size) /\ size \in Seq(Sizes)
      /\ asm.loop \in {"OPEN", "CLOSED"} /\ asm.buf \in Seq(Octet)
  BY <1>1, TornIsSdu, RowSeq DEF SegTypeOK, Row
<1>3. 1 \in 1 .. Len(link) /\ Head(link) = link[1]
  BY <1>2, TailRemoved
<1>4. 1 \in 1 .. Len(Row) /\ Row[1] = Head(link) /\ Cut(Row[1], size) /\ 1 <= Len(Row)
  <2>1. 1 \in 1 .. Len(Row) /\ Row[1] = Head(link)
    BY <1>2, <1>3, RowSeq
  <2> QED BY <2>1 DEF Tracked, AllCut
<1>5. torn \subseteq torn' /\ torn' \subseteq 1 .. Len(size)
  <2>1. Sdu(Head(link)) \in 1 .. Len(size)
    BY <1>4 DEF Cut
  <2> QED BY <1>2, <2>1
<1>6. asm.loop = "OPEN" => Opener(asm) \in torn'
  <2> SUFFICES ASSUME asm.loop = "OPEN", Opener(asm) \notin torn PROVE Opener(asm) \in torn'
    BY <1>5
  <2>1. Len(asm.buf) # 0 /\ Len(asm.buf) \in Nat
    BY <1>2, OpenLoop DEF Tracked
  <2>2. GoesOn(Row, size, seg, Opener(asm), Len(asm.buf), 1)
    BY DEF Tracked, Joining
  <2>3. Sdu(Row[1]) = Opener(asm) /\ Start(Row[1]) = Len(asm.buf)
    <3>1. Len(Row) \in Nat
      BY <1>2, LenProperties
    <3>2. 1 # Len(Row) + 1
      BY <1>4, <3>1
    <3> QED BY <2>2, <3>2 DEF GoesOn
  <2>4. Row[1].flag \in {"CONT", "LAST"}
    <3> DEFINE fr == Row[1]
    <3>1. /\ fr.flag = "UNSEG" => Start(fr) = 0
          /\ fr.flag = "FIRST" => Start(fr) = 0
          /\ fr.flag \in {"UNSEG", "FIRST", "CONT", "LAST"}
      BY <1>2, <1>4, CutFacts
    <3> QED BY <2>1, <2>3, <3>1
  <2> QED BY <1>4, <2>3, <2>4
<1>7. Paid(Closed, Row, size, torn', arrived)
  <2>1. Paid(asm, Row, size, torn, arrived)
    BY DEF Tracked
  <2> QED BY <1>2, <1>5, <1>6, <2>1, ClosedIs, PaidOn, SMTT(30)
<1>8. Unbroken(Row, size, seg, torn') /\ Ordered(link, torn')
  BY <1>5 DEF Tracked, Unbroken, Ordered
<1>9. Joining(Closed, Row, size, seg, torn')
  BY ClosedIs DEF Joining
<1>10. SegTypeOK'
  BY <1>1, <1>2, <1>5, ClosedIs DEF SegTypeOK
<1>11. WholeOrTorn'
  BY <1>1, <1>2, <1>5, WholeKept DEF Tracked
<1> QED BY <1>1, <1>2, <1>7, <1>8, <1>9, <1>10, <1>11 DEF Tracked

LEMMA HearAdKeeps ==
    ASSUME Tracked, HearAd
    PROVE  Tracked'
<1>1. link # <<>> /\ link \in Seq(Segment) /\ UNCHANGED sendVars
  BY DEF HearAd, Tracked, SegTypeOK
<1>2. CASE RxFull
  <2>1. /\ held' = TRUE /\ asm' = asm /\ rx' = rx /\ arrived' = arrived /\ link' = link /\ torn' = torn
        /\ size' = size /\ seg' = seg /\ wait' = wait /\ open' = open /\ ends' = ends
    BY <1>2 DEF HearAd, sendVars
  <2>2. SegTypeOK'
    BY <2>1 DEF Tracked, SegTypeOK
  <2>3. WholeOrTorn'
    BY <2>1, TornIsSdu, WholeKept DEF Tracked
  <2> QED BY <2>1, <2>2, <2>3, QuietStep
<1>3. CASE ~ RxFull /\ held
  <2>1. /\ asm' = Closed
        /\ torn' = IF Head(link).flag \in {"CONT", "LAST"} THEN torn \cup {Sdu(Head(link))} ELSE torn
        /\ UNCHANGED <<rx, arrived, held, link>>
    BY <1>3 DEF HearAd
  <2> QED BY <1>1, <2>1, CopErrorKeeps
<1>4. CASE ~ RxFull /\ ~ held
  <2>1. Reassemble(Head(link)) /\ link' = Tail(link) /\ UNCHANGED <<held, torn>>
    BY <1>4 DEF HearAd
  <2>2. 1 \in 1 .. Len(link) /\ Tail(link) = RemoveAt(link, 1) /\ Head(link) = link[1]
    BY <1>1, TailRemoved
  <2>3. MayBeHeard(link, torn, 1)
    BY DEF MayBeHeard
  <2> QED BY <1>1, <2>1, <2>2, <2>3, HeardKeeps
<1>5. held \in BOOLEAN
  BY DEF Tracked, SegTypeOK
<1> QED BY <1>2, <1>3, <1>4, <1>5

-----------------------------------------------------------------------------
(* The theorems. *)

LEMMA TrackedInit ==
    ASSUME SegInit
    PROVE  Tracked
<1>1. /\ size = <<>> /\ wait = <<>> /\ link = <<>> /\ rx = <<>> /\ torn = {} /\ arrived = {}
      /\ seg = [flag |-> "ENDED", octets |-> 0, code |-> "AD"]
      /\ asm = [loop |-> "CLOSED", buf |-> <<>>] /\ open = TRUE /\ held = FALSE /\ ends = 0
  BY DEF SegInit
<1>2. RxCap \in Nat /\ LinkCap \in Nat /\ MaxSdus \in Nat /\ MaxEnds \in Nat /\ MaxSdu \in Nat
  BY LengthsAssumption, CapsAssumption
<1>3. asm \in [loop : {"OPEN", "CLOSED"}, buf : Seq(Octet)] /\ Len(asm.buf) <= MaxSdu
  BY <1>1, ClosedIs DEF Closed
<1>4. /\ size \in Seq(Sizes) /\ Len(size) = 0 /\ wait \in Seq(Segment) /\ Len(wait) = 0
      /\ link \in Seq(Segment) /\ Len(link) = 0 /\ rx \in Seq(Seq(Octet)) /\ Len(rx) = 0
  BY <1>1
<1>5. SegTypeOK
  <2>1. seg \in [flag : {"ENDED", "IN_PROGRESS"}, octets : Nat, code : {"AD", "BD"}]
        /\ seg.flag # "IN_PROGRESS"
    BY <1>1
  <2>2. Len(size) <= MaxSdus /\ Len(wait) <= 1 /\ Len(link) <= LinkCap /\ Len(rx) <= RxCap
    BY <1>2, <1>4
  <2>3. torn \subseteq 1 .. Len(size) /\ arrived \subseteq 1 .. Len(size)
    BY <1>1
  <2>4. open \in BOOLEAN /\ held \in BOOLEAN
    BY <1>1
  <2>5. ends \in 0 .. MaxEnds
    BY <1>1, <1>2
  <2> QED BY <1>3, <1>4, <2>1, <2>2, <2>3, <2>4, <2>5 DEF SegTypeOK
<1>6. Len(Row) = 0
  BY <1>4, <1>5, RowSeq
<1>7. AllCut(Row, size) /\ Once(Row) /\ Unbroken(Row, size, seg, torn)
  BY <1>6 DEF AllCut, Once, Unbroken
<1>8. Ordered(link, torn)
  BY <1>4 DEF Ordered
<1>9. asm.loop # "OPEN" /\ Joining(asm, Row, size, seg, torn)
  BY <1>1 DEF Joining
<1>10. WholeOrTorn
  BY <1>1 DEF WholeOrTorn
<1>11. Paid(asm, Row, size, torn, arrived)
  <2>1. Lost(asm, Row, size, torn, arrived) = {} /\ Spent(asm, Row, torn) = {}
    BY <1>1, <1>4 DEF Lost, Spent
  <2> QED BY <2>1, FS_EmptySet DEF Paid
<1> QED BY <1>1, <1>5, <1>7, <1>8, <1>9, <1>10, <1>11 DEF Tracked

LEMMA TrackedStep ==
    ASSUME Tracked, [SegNext]_segVars
    PROVE  Tracked'
<1>1. CASE \E code \in {"AD", "BD"}, length \in Sizes : Transmit(code, length)
  BY <1>1, TransmitKeeps
<1>2. CASE Resume
  BY <1>2, ResumeKeeps
<1>3. CASE GiveUp
  BY <1>3, GiveUpKeeps
<1>4. CASE ReleaseWait
  BY <1>4, ReleaseWaitKeeps
<1>5. CASE EndService
  BY <1>5, EndServiceKeeps
<1>6. CASE Initiate
  BY <1>6, InitiateKeeps
<1>7. CASE HearAd
  BY <1>7, HearAdKeeps
<1>8. CASE \E i \in 1 .. LinkCap : HearBd(i)
  BY <1>8, HearBdKeeps
<1>9. CASE \E i \in 1 .. LinkCap : LoseBd(i)
  BY <1>9, LoseBdKeeps
<1>10. CASE TakeSdu
  BY <1>10, TakeSduKeeps
<1>11. CASE BufferRelease
  BY <1>11, BufferReleaseKeeps
<1>12. CASE UNCHANGED segVars
  <2>1. /\ size' = size /\ seg' = seg /\ wait' = wait /\ open' = open /\ ends' = ends
        /\ asm' = asm /\ rx' = rx /\ held' = held /\ arrived' = arrived /\ link' = link /\ torn' = torn
    BY <1>12 DEF segVars, sendVars, recvVars
  <2>2. SegTypeOK'
    BY <2>1 DEF Tracked, SegTypeOK
  <2>3. WholeOrTorn'
    BY <2>1, TornIsSdu, WholeKept DEF Tracked
  <2> QED BY <2>1, <2>2, <2>3, QuietStep
<1> QED BY <1>1, <1>2, <1>3, <1>4, <1>5, <1>6, <1>7, <1>8, <1>9, <1>10, <1>11, <1>12 DEF SegNext

(***************************************************************************)
(* The invariant of the argument: what is under way continues what the     *)
(* receiver's loop holds, whatever order the calls of both ends, losses    *)
(* and ends of service come in.                                            *)
(***************************************************************************)
THEOREM SegmentsAreTracked == SegSpec => []Tracked
<1>1. SegInit => Tracked
  BY TrackedInit
<1>2. Tracked /\ [SegNext]_segVars => Tracked'
  BY TrackedStep
<1> QED BY <1>1, <1>2, PTL DEF SegSpec

(***************************************************************************)
(* The types, and that the buffered octets never exceed max_sdu_len: the   *)
(* buffer osdlp_tc_receive joins segments in is no longer than that.       *)
(***************************************************************************)
THEOREM SegTypeCorrect == SegSpec => []SegTypeOK
<1>1. Tracked => SegTypeOK
  BY DEF Tracked
<1> QED BY <1>1, SegmentsAreTracked, PTL

(***************************************************************************)
(* What osdlp_tc_receive hands to its application is an SDU as it was      *)
(* sent, unless it holds octets of an SDU that lost a frame or was mixed   *)
(* with a bypass SDU.                                                      *)
(***************************************************************************)
THEOREM OnlyTornDamaged == SegSpec => []WholeOrTorn
<1>1. Tracked => WholeOrTorn
  BY DEF Tracked
<1> QED BY <1>1, SegmentsAreTracked, PTL

(***************************************************************************)
(* A loop left open costs the next SDU, but each torn SDU costs at most    *)
(* one: of the SDUs that fit the receiver and lost nothing themselves no   *)
(* more are missing than were torn.                                        *)
(***************************************************************************)
THEOREM TearsCostOne == SegSpec => []EachTearCostsOne
<1>1. ASSUME Tracked PROVE EachTearCostsOne
  <2> DEFINE missing == {d \in 1 .. Len(size) \ (torn \cup arrived) : size[d] <= MaxSdu /\ Passed(d)}
  <2>1. /\ SegTypeOK /\ torn \subseteq 1 .. Len(size) /\ Len(size) \in Nat
        /\ link \in Seq(Segment) /\ wait \in Seq(Segment) /\ Len(link) \in Nat /\ Len(wait) \in Nat
    BY <1>1, TornIsSdu, LenProperties DEF SegTypeOK
  <2>2. ASSUME NEW d, Passed(d), NEW i \in 1 .. Len(Row), Sdu(Row[i]) = d PROVE FALSE
    <3>1. /\ Len(Row) = Len(link) + Len(wait)
          /\ Row[i] = IF i <= Len(link) THEN link[i] ELSE wait[i - Len(link)]
      BY <2>1, ConcatProperties DEF Row
    <3>2. DOMAIN link = 1 .. Len(link) /\ DOMAIN wait = 1 .. Len(wait)
      BY <2>1, LenProperties
    <3>3. CASE i <= Len(link)
      <4>1. i \in DOMAIN link /\ Row[i] = link[i]
        BY <2>1, <3>1, <3>2, <3>3
      <4>2. d \in SdusOf(link)
        BY <2>2, <4>1 DEF SdusOf, ToSet
      <4> QED BY <2>2, <4>2 DEF Passed
    <3>4. CASE ~ (i <= Len(link))
      <4>1. i - Len(link) \in DOMAIN wait /\ Row[i] = wait[i - Len(link)]
        BY <2>1, <3>1, <3>2, <3>4
      <4>2. d \in SdusOf(wait)
        BY <2>2, <4>1 DEF SdusOf, ToSet
      <4> QED BY <2>2, <4>2 DEF Passed
    <3> QED BY <3>3, <3>4
  <2>3. ASSUME NEW d \in missing PROVE Left(asm, Row, d)
    <3>1. d \notin torn /\ Passed(d)
      OBVIOUS
    <3>2. ~ Ahead(Row, d)
      BY <2>2, <3>1 DEF Ahead
    <3>3. ~ (asm.loop = "OPEN" /\ Opener(asm) = d)
      <4> SUFFICES ASSUME asm.loop = "OPEN", Opener(asm) = d PROVE FALSE
        OBVIOUS
      <4>1. GoesOn(Row, size, seg, d, Len(asm.buf), 1)
        BY <1>1, <3>1 DEF Tracked, Joining
      <4>2. ~ (seg.flag = "IN_PROGRESS" /\ d = Len(size))
        BY <3>1 DEF Passed
      <4>3. 1 <= Len(Row) /\ Sdu(Row[1]) = d
        BY <4>1, <4>2 DEF GoesOn
      <4>4. 1 \in 1 .. Len(Row)
        BY <2>1, <4>3, RowSeq
      <4> QED BY <2>2, <3>1, <4>3, <4>4
    <3> QED BY <3>2, <3>3 DEF Left
  <2>4. missing \subseteq Lost(asm, Row, size, torn, arrived)
    BY <2>3 DEF Lost
  <2>5. Spent(asm, Row, torn) \subseteq torn
    BY DEF Spent
  <2>6. IsFiniteSet(Lost(asm, Row, size, torn, arrived)) /\ IsFiniteSet(torn)
    <3>1. IsFiniteSet(1 .. Len(size))
      BY <2>1, FS_Interval
    <3>2. Lost(asm, Row, size, torn, arrived) \in SUBSET (1 .. Len(size))
      BY DEF Lost
    <3> QED BY <2>1, <3>1, <3>2, FS_Subset
  <2>7. Cardinality(Lost(asm, Row, size, torn, arrived)) <= Cardinality(Spent(asm, Row, torn))
    BY <1>1 DEF Tracked, Paid
  <2> HIDE DEF missing
  <2>8. Cardinality(missing) <= Cardinality(torn)
    BY <2>4, <2>5, <2>6, <2>7, CountKept
  <2> QED BY <2>8 DEF EachTearCostsOne, missing
<1> QED BY <1>1, SegmentsAreTracked, PTL
=============================================================================
