------------------------------ MODULE TmProofs ------------------------------
(***************************************************************************)
(* Proofs about Tm, for every length of data field, buffer and header,     *)
(* every capacity and set of packet lengths.  The argument follows the     *)
(* octets in the order they are sent: those that arrived, the loop of the  *)
(* receiver, the frames of the tx queue from its head on, and the octet    *)
(* the sender goes on with.                                                *)
(***************************************************************************)
EXTENDS Tm, SequenceTheorems, FiniteSetTheorems, WellFoundedInduction, TLAPS

-----------------------------------------------------------------------------
(* A walk over positions. *)

LEMMA LeastNatural ==
    ASSUME NEW T, T \subseteq Nat, T # {}
    PROVE  \E n \in T : \A m \in T : n <= m
<1> DEFINE Less == {p \in Nat \X Nat : p[1] < p[2]}
<1>1. IsWellFoundedOn(Less, Nat)
  BY NatLessThanWellFounded DEF OpToRel
<1>2. \E n \in T : \A m \in T : ~ (<<m, n>> \in Less)
  <2> HIDE DEF Less
  <2> QED BY <1>1, WFMin
<1>3. ASSUME NEW m \in Nat, NEW n \in Nat, <<m, n>> \notin Less PROVE n <= m
  BY <1>3
<1> QED BY <1>2, <1>3

LEMMA LengthsAreNumbers ==
    /\ MaxData \in Nat /\ MaxData >= 1 /\ LenAt \in 1 .. MaxData /\ LenAt \in Nat /\ HdrLen \in Nat
    /\ MaxSdu \in Nat /\ MaxPkts \in Nat /\ \A n \in Sizes : n \in Nat /\ n >= LenAt /\ n <= MaxSdu
BY TmLengthsAssumption, TmCapsAssumption

(* What a walk of n steps over C is. *)
WalkOver(C, step, from, w) ==
    /\ w \in Seq(C) /\ w # <<>> /\ w[1] = from
    /\ \A k \in 1 .. Len(w) - 1 : w[k + 1] = step[w[k]]
    /\ \A k, l \in 1 .. Len(w) : k < l => w[k] < w[l]

LEMMA OnwardSteps ==
    ASSUME NEW C, C \subseteq Nat, NEW step, NEW from \in C,
           \A x \in C : step[x] \in C /\ step[x] >= x,
           NEW w, WalkOver(C, step, from, w)
    PROVE  /\ WalkOver(C, step, from, Onward(step, w))
           /\ step[Last(w)] = Last(w) => Onward(step, w) = w
           /\ step[Last(w)] # Last(w) => Last(Onward(step, w)) >= Last(w) + 1
<1>1. w \in Seq(C) /\ Len(w) \in Nat /\ Len(w) >= 1 /\ Last(w) = w[Len(w)] /\ Last(w) \in C
  BY DEF WalkOver, Last
<1> DEFINE y == step[Last(w)]
<1>2. y \in C /\ y >= Last(w) /\ y \in Nat /\ Last(w) \in Nat
  BY <1>1
<1>3. CASE y = Last(w)
  BY <1>3 DEF Onward
<1>4. CASE y # Last(w)
  <2> DEFINE v == Append(w, y)
  <2>1. Onward(step, w) = v
    BY <1>4 DEF Onward
  <2>2. v \in Seq(C) /\ Len(v) = Len(w) + 1 /\ v[Len(w) + 1] = y /\ \A k \in 1 .. Len(w) : v[k] = w[k]
    BY <1>1, <1>2
  <2>3. Last(v) = y
    BY <2>2 DEF Last
  <2>4. y > Last(w)
    BY <1>2, <1>4
  <2> HIDE DEF v
  <2>5. ASSUME NEW k \in 1 .. Len(v) - 1 PROVE v[k + 1] = step[v[k]]
    <3>1. CASE k = Len(w)
      BY <3>1, <2>2, <1>1, <2>4
    <3>2. CASE k < Len(w)
      BY <3>2, <2>2, <1>1 DEF WalkOver
    <3> QED BY <3>1, <3>2, <2>2, <1>1
  <2> HIDE DEF y
  <2>7. ASSUME NEW k \in 1 .. Len(v), NEW l \in 1 .. Len(v), k < l PROVE v[k] < v[l]
    <3>1. k \in 1 .. Len(w) /\ v[k] = w[k] /\ w[k] \in Nat /\ Len(w) \in 1 .. Len(w)
      <4>1. k \in 1 .. Len(w) /\ Len(w) \in 1 .. Len(w)
        BY <2>2, <2>7, <1>1
      <4>2. w[k] \in C
        BY <4>1, <1>1
      <4> QED BY <4>1, <4>2, <2>2
    <3>2. CASE l = Len(w) + 1
      <4>1. w[k] <= Last(w)
        <5>1. CASE k = Len(w)
          BY <5>1, <1>1, <1>2
        <5>2. CASE k < Len(w)
          <6>1. w[k] < w[Len(w)]
            BY <5>2, <3>1 DEF WalkOver
          <6> QED BY <6>1, <3>1, <1>1, <1>2
        <5> QED BY <5>1, <5>2, <3>1, <1>1
      <4> QED BY <4>1, <3>1, <3>2, <2>2, <2>4, <1>2
    <3>3. CASE l # Len(w) + 1
      <4>1. l \in 1 .. Len(w) /\ v[l] = w[l]
        BY <3>3, <2>2, <1>1
      <4> QED BY <4>1, <3>1, <2>7 DEF WalkOver
    <3> QED BY <3>2, <3>3
  <2>6. v # <<>> /\ v[1] = from
    BY <2>2, <1>1 DEF WalkOver
  <2> QED BY <2>1, <2>2, <2>3, <2>4, <2>5, <2>6, <2>7, <1>2 DEF WalkOver, y
<1> QED BY <1>3, <1>4

LEMMA LastIn ==
    ASSUME NEW C, NEW step, NEW from, NEW w, WalkOver(C, step, from, w)
    PROVE  Last(w) \in C /\ Last(w) = w[Len(w)]
BY DEF WalkOver, Last

(* The recursive function of Walk exists. *)
IsPath(step, from, m, g) ==
    g = [n \in 0 .. m |-> IF n = 0 THEN <<from>> ELSE Onward(step, g[n - 1])]

LEMMA PathExists ==
    ASSUME NEW step, NEW from
    PROVE  \E g : IsPath(step, from, MaxData, g)
<1> USE DEF IsPath
<1> DEFINE Upto(m, g) == IsPath(step, from, m, g)
           T == {m \in Nat : ~ \E g : Upto(m, g)}
<1>1. SUFFICES T = {}
  BY LengthsAreNumbers
<1>2. SUFFICES ASSUME T # {} PROVE FALSE
  OBVIOUS
<1>3. PICK m \in T : \A k \in T : m <= k
  <2>1. T \subseteq Nat
    OBVIOUS
  <2> HIDE DEF T
  <2> QED BY <1>2, <2>1, LeastNatural
<1>4. CASE m = 0
  <2> DEFINE g == [n \in 0 .. 0 |-> <<from>>]
  <2>1. g = [n \in 0 .. 0 |-> IF n = 0 THEN <<from>> ELSE Onward(step, g[n - 1])]
    OBVIOUS
  <2> QED BY <2>1, <1>4
<1>5. CASE m # 0
  <2>1. m - 1 \in Nat /\ m - 1 \notin T
    BY <1>3, <1>5, SMTT(30)
  <2>2. PICK g : Upto(m - 1, g)
    BY <2>1
  <2> DEFINE h == [n \in 0 .. m |-> IF n = m THEN Onward(step, g[m - 1]) ELSE g[n]]
             r == [n \in 0 .. m |-> IF n = 0 THEN <<from>> ELSE Onward(step, h[n - 1])]
  <2>3. ASSUME NEW n \in 0 .. m PROVE h[n] = r[n]
    <3>1. CASE n = 0
      <4>1. n \in 0 .. m - 1 /\ n # m
        BY <3>1, <1>3, <1>5
      <4> QED BY <4>1, <2>2, <3>1
    <3>2. CASE n # 0
      <4>1. n - 1 \in 0 .. m - 1 /\ n - 1 \in 0 .. m /\ n - 1 # m
        BY <3>2, <1>3, <1>5
      <4>2. h[n - 1] = g[n - 1]
        BY <4>1
      <4>3. CASE n = m
        BY <4>3, <4>2, <3>2
      <4>4. CASE n # m
        <5>1. n \in 0 .. m - 1
          BY <4>4, <1>3
        <5> QED BY <5>1, <4>4, <4>2, <2>2, <3>2
      <4> QED BY <4>3, <4>4
    <3> QED BY <3>1, <3>2
  <2>4. h = r
    <3> HIDE DEF h, r
    <3>1. h = [n \in 0 .. m |-> h[n]] /\ r = [n \in 0 .. m |-> r[n]]
      BY DEF h, r
    <3> QED BY <2>3, <3>1
  <2>5. Upto(m, h)
    BY <2>4
  <2> QED BY <2>5, <1>3
<1> QED BY <1>4, <1>5

(***************************************************************************)
(* A walk that goes on over positions of C, and never back, ends at a      *)
(* position it would not leave.                                            *)
(***************************************************************************)
LEMMA WalkEnds ==
    ASSUME NEW C, C \subseteq 0 .. MaxData, NEW step, NEW from \in C,
           \A x \in C : step[x] \in C /\ step[x] >= x
    PROVE  LET w == Walk(step, from)
           IN  /\ WalkOver(C, step, from, w)
               /\ Last(w) = w[Len(w)] /\ Last(w) \in C /\ step[Last(w)] = Last(w)
<1> DEFINE Is(g) == IsPath(step, from, MaxData, g)
           path == CHOOSE g : Is(g)
<1>1. Is(path)
  <2>1. \E g : Is(g)
    BY PathExists
  <2> QED BY <2>1
<1>2. Walk(step, from) = path[MaxData]
  BY DEF Walk, IsPath
<1> HIDE DEF path
<1> DEFINE Ok(n) == /\ WalkOver(C, step, from, path[n])
                    /\ step[Last(path[n])] = Last(path[n]) \/ Last(path[n]) >= n
           T == {n \in 0 .. MaxData : ~ Ok(n)}
<1>3. T = {}
  <2> SUFFICES ASSUME T # {} PROVE FALSE
    OBVIOUS
  <2>1. PICK n \in T : \A m \in T : n <= m
    <3>1. T \subseteq Nat
      BY LengthsAreNumbers
    <3> HIDE DEF T
    <3> QED BY <3>1, LeastNatural
  <2>2. CASE n = 0
    <3>1. path[0] = <<from>>
      BY <1>1, LengthsAreNumbers DEF IsPath
    <3>2. Last(<<from>>) = from /\ from \in Nat
      BY DEF Last
    <3>3. WalkOver(C, step, from, <<from>>)
      BY DEF WalkOver
    <3> QED BY <3>1, <3>2, <3>3, <2>1, <2>2
  <2>3. CASE n # 0
    <3>1. n \in 0 .. MaxData /\ n - 1 \in 0 .. MaxData /\ n \in Nat
      BY <2>1, <2>3, LengthsAreNumbers
    <3>2. n - 1 \notin T
      BY <2>1, <3>1
    <3>3. Ok(n - 1)
      BY <3>2, <3>1
    <3>4. path[n] = Onward(step, path[n - 1])
      BY <1>1, <3>1, <2>3 DEF IsPath
    <3> DEFINE w == path[n - 1]
    <3>5. C \subseteq Nat
      BY LengthsAreNumbers
    <3>6. /\ WalkOver(C, step, from, Onward(step, w))
          /\ step[Last(w)] = Last(w) => Onward(step, w) = w
          /\ step[Last(w)] # Last(w) => Last(Onward(step, w)) >= Last(w) + 1
      BY <3>3, <3>5, OnwardSteps
    <3>7. Last(w) \in Nat /\ Last(Onward(step, w)) \in Nat
      <4>1. Last(w) \in C
        BY <3>3, LastIn
      <4>2. Last(Onward(step, w)) \in C
        <5> HIDE DEF w
        <5> QED BY <3>6, LastIn
      <4> QED BY <4>1, <4>2, <3>5
    <3>8. Ok(n)
      BY <3>1, <3>3, <3>4, <3>6, <3>7
    <3> QED BY <3>8, <2>1
  <2> QED BY <2>2, <2>3
<1>4. Ok(MaxData)
  BY <1>3, LengthsAreNumbers
<1> DEFINE w == path[MaxData]
<1>5. WalkOver(C, step, from, w) /\ Last(w) = w[Len(w)] /\ Last(w) \in C
  BY <1>4, LastIn
<1>6. step[Last(w)] = Last(w)
  <2>1. step[Last(w)] \in 0 .. MaxData /\ Last(w) \in 0 .. MaxData /\ step[Last(w)] >= Last(w)
    BY <1>5
  <2> HIDE DEF w
  <2>2. step[Last(w)] = Last(w) \/ Last(w) >= MaxData
    BY <1>4 DEF w
  <2> QED BY <2>1, <2>2, LengthsAreNumbers
<1> QED BY <1>2, <1>5, <1>6

-----------------------------------------------------------------------------
(* Octets and frames. *)

IsOctet(o, sz) == o[1] \in 1 .. Len(sz) /\ o[2] \in 1 .. sz[o[1]]

(* The octets of its packet that follow it. *)
LeftOf(o, sz) == sz[o[1]] - o[2]

(* The order in which octets are sent. *)
Before(o, u) == o[1] < u[1] \/ (o[1] = u[1] /\ o[2] < u[2])

(* A packet goes on to its end, where another one begins or idle octets do. *)
Runs(data, sz) ==
    \A i, j \in 1 .. MaxData :
        data[i] # Idle /\ i <= j =>
            /\ j - i <= LeftOf(data[i], sz) => data[j] = <<data[i][1], data[i][2] + (j - i)>>
            /\ j - i = LeftOf(data[i], sz) + 1 => data[j] = Idle \/ data[j][2] = 1

(* Idle octets are at the end; those before are in the order they were sent. *)
InOrder(data) ==
    \A i, j \in 1 .. MaxData :
        i < j /\ data[j] # Idle => data[i] # Idle /\ Before(data[i], data[j])

(***************************************************************************)
(* A frame as osdlp_tm_transmit packs it and packs it anew: it begins with *)
(* a packet, and its pointer says where that one ends.                     *)
(***************************************************************************)
Shaped(fr, sz) ==
    /\ \A i \in 1 .. MaxData : fr.data[i] # Idle => IsOctet(fr.data[i], sz)
    /\ fr.data[1] # Idle /\ fr.ptr = PtrTo(fr.data[1][2] - 1, sz[fr.data[1][1]])
    /\ Runs(fr.data, sz) /\ InOrder(fr.data)

(* What is stuffed into a frame marked as idle is given up. *)
Swallowed(fr, sz, h) ==
    \A i \in 1 .. MaxData :
        fr.data[i] # Idle => IsOctet(fr.data[i], sz) /\ fr.data[i][1] \in h

Live(fr) == fr.ptr # Oid

Frames(q, sz, h) ==
    \A i \in 1 .. Len(q) : IF Live(q[i]) THEN Shaped(q[i], sz) ELSE Swallowed(q[i], sz, h)

-----------------------------------------------------------------------------
(* The row of octets from the receiver to the sender. *)

(* The octets of the frames the receiver will look into. *)
Row(q) == {o \in Octet : \E i \in 1 .. Len(q), a \in 1 .. MaxData : Live(q[i]) /\ q[i].data[a] = o}

Sorted(q) ==
    \A i, j \in 1 .. Len(q), a, b \in 1 .. MaxData :
        i < j /\ Live(q[i]) /\ Live(q[j]) /\ q[i].data[a] # Idle /\ q[j].data[b] # Idle =>
            Before(q[i].data[a], q[j].data[b])

NextLive(q, i, j) ==
    j \in i .. Len(q) /\ Live(q[j]) /\ \A m \in i .. j - 1 : ~ Live(q[m])
NoneLive(q, i) == \A m \in i .. Len(q) : ~ Live(q[m])

(* Packet p goes on after octet k with the next frame from i on, or is still to. *)
GoesOn(q, sz, sn, p, k, i) ==
    \/ \E j \in 1 .. Len(q) : NextLive(q, i, j) /\ q[j].data[1] = <<p, k + 1>>
    \/ NoneLive(q, i) /\ sn.loop = "OPEN" /\ p = Len(sz) /\ sn.done = k

Unbroken(q, sz, sn, h) ==
    \A i \in 1 .. Len(q) :
        LET o == q[i].data[MaxData]
        IN  Live(q[i]) /\ o # Idle /\ o[1] \notin h /\ LeftOf(o, sz) > 0 =>
                GoesOn(q, sz, sn, o[1], o[2], i + 1)

(* The octet the sender goes on with. *)
Coming(sz, sn) ==
    IF sn.loop = "OPEN" THEN <<Len(sz), sn.done + 1>> ELSE <<Len(sz) + 1, 1>>

(* The head of the packet in the receiver's loop. *)
Opener(rc) == rc.buf[1]

(* What arrived was sent before all that is on the row, and that before all to come. *)
Ahead(q, sz, sn, rc, arr) ==
    /\ sn.loop = "OPEN" => sz # <<>> /\ sn.done < sz[Len(sz)]
    /\ \A o \in Row(q) : Before(o, Coming(sz, sn))
    /\ rc.loop = "OPEN" => /\ rc.buf # <<>> /\ IsOctet(Opener(rc), sz) /\ Opener(rc)[2] = 1
                           /\ Before(Opener(rc), Coming(sz, sn))
                           /\ \A o \in Row(q) : Before(Opener(rc), o)
                           /\ \A i \in 1 .. Len(arr) : arr[i] < Opener(rc)[1]
    /\ \A i \in 1 .. Len(arr) :
          arr[i] < Coming(sz, sn)[1] /\ \A o \in Row(q) : arr[i] < o[1]

(* Unless its packet is hurt the loop holds all of it so far and is about to get the rest. *)
Joining(q, sz, sn, h, rc, st) ==
    LET p == Opener(rc)[1]
    IN  rc.loop = "OPEN" /\ p \notin h =>
            /\ \A k \in 1 .. Len(rc.buf) : rc.buf[k] = <<p, k>>
            /\ Len(rc.buf) < sz[p] /\ (rc.exp = sz[p] \/ (st /\ rc.exp = 0))
            /\ GoesOn(q, sz, sn, p, Len(rc.buf), 1)

(* Where a packet is that has not been hurt. *)
Kept(q, sz, sn, h, rc, arr, st) ==
    \A p \in 1 .. Len(sz) :
        p \notin h /\ ~ (st /\ sz[p] = MaxSdu) =>
            \/ p \in ToSet(arr)
            \/ rc.loop = "OPEN" /\ Opener(rc)[1] = p
            \/ <<p, 1>> \in Row(q)
            \/ sn.loop = "OPEN" /\ p = Len(sz) /\ sn.done = 0

(* Without stuffing a frame holds octets of one packet. *)
Plain(q, st) ==
    ~ st => \A i \in 1 .. Len(q), a \in 1 .. MaxData :
                Live(q[i]) /\ q[i].data[a] # Idle => q[i].data[a][1] = q[i].data[1][1]

OnRow(q, sz, sn, h, rc, arr, st) ==
    /\ Frames(q, sz, h) /\ Sorted(q) /\ Unbroken(q, sz, sn, h)
    /\ Ahead(q, sz, sn, rc, arr) /\ Joining(q, sz, sn, h, rc, st)
    /\ Kept(q, sz, sn, h, rc, arr, st) /\ Plain(q, st)

(* The last frame of the queue holds the length of each packet it holds the head of, and
   if it ends inside a packet it holds nothing else. *)
HoldsLengths(fr) ==
    \A i \in 1 .. MaxData : fr.data[i] # Idle /\ fr.data[i][2] = 1 => i - 1 + LenAt <= MaxData
EndsWhole(fr, sz) ==
    fr.data[MaxData] # Idle /\ LeftOf(fr.data[MaxData], sz) > 0 =>
        fr.data[1][1] = fr.data[MaxData][1]
LastSound(q, sz) ==
    q # <<>> /\ Live(Last(q)) => HoldsLengths(Last(q)) /\ EndsWhole(Last(q), sz)

(* The inductive invariant. *)
Streamed ==
    /\ TmTypeOK
    /\ OnRow(link, size, snd, hurt, rcv, arrived, stuffs)
    /\ LastSound(link, size) /\ (stuffing => stuffs)
    /\ InOrderOnce /\ WholeOrHurt

-----------------------------------------------------------------------------
(* Facts about octets and frames. *)

LEMMA OctetFacts ==
    ASSUME NEW o \in Octet \cup {Idle}
    PROVE  /\ o = <<o[1], o[2]>> /\ o[1] \in Nat /\ o[2] \in Nat
           /\ o # Idle => o \in Octet /\ o[1] \in 1 .. MaxPkts /\ o[2] \in 1 .. MaxSdu
<1>1. CASE o = Idle
  BY <1>1 DEF Idle
<1>2. CASE o \in Octet
  <2>1. o = <<o[1], o[2]>> /\ o[1] \in 1 .. MaxPkts /\ o[2] \in 1 .. MaxSdu
    BY <1>2 DEF Octet
  <2>2. MaxPkts \in Nat /\ MaxSdu \in Nat
    BY LengthsAreNumbers
  <2> QED BY <2>1, <2>2, <1>2
<1> QED BY <1>1, <1>2

LEMMA FrameFacts ==
    ASSUME NEW fr \in Frame
    PROVE  /\ fr.data \in [1 .. MaxData -> Octet \cup {Idle}]
           /\ \A a \in 1 .. MaxData : fr.data[a] \in Octet \cup {Idle}
           /\ fr.data \in Seq(Octet \cup {Idle}) /\ Len(fr.data) = MaxData /\ DOMAIN fr.data = 1 .. MaxData
           /\ fr.ptr \in (0 .. MaxData - 1) \cup {NoPkt, Oid}
<1>1. fr.data \in [1 .. MaxData -> Octet \cup {Idle}] /\ fr.ptr \in (0 .. MaxData - 1) \cup {NoPkt, Oid}
  BY DEF Frame
<1>2. MaxData \in Nat
  BY LengthsAreNumbers
<1> QED BY <1>1, <1>2

LEMMA SizeFacts ==
    ASSUME NEW sz \in Seq(Sizes), NEW p \in 1 .. Len(sz)
    PROVE  sz[p] \in Nat /\ sz[p] >= LenAt /\ sz[p] >= 1 /\ sz[p] <= MaxSdu
<1>1. sz[p] \in Sizes
  OBVIOUS
<1> QED BY <1>1, LengthsAreNumbers

LEMMA BeforeTransitive ==
    ASSUME NEW o, NEW u, NEW v, Before(o, u), Before(u, v),
           o[1] \in Int, u[1] \in Int, v[1] \in Int, o[2] \in Int, u[2] \in Int, v[2] \in Int
    PROVE  Before(o, v)
BY DEF Before

(* The octets of a packet from a place of the frame on. *)
LEMMA RunFrom ==
    ASSUME NEW sz \in Seq(Sizes), NEW fr \in Frame, Shaped(fr, sz),
           NEW a \in 1 .. MaxData, fr.data[a] # Idle
    PROVE  LET o == fr.data[a]
           IN  /\ o = <<o[1], o[2]>> /\ o[1] \in 1 .. Len(sz) /\ o[2] \in 1 .. sz[o[1]]
               /\ LeftOf(o, sz) \in Nat /\ sz[o[1]] \in Nat /\ o[1] \in Nat /\ o[2] \in Nat
               /\ sz[o[1]] >= LenAt /\ sz[o[1]] >= 1 /\ sz[o[1]] <= MaxSdu
               /\ \A j \in a .. MaxData : j - a <= LeftOf(o, sz) => fr.data[j] = <<o[1], o[2] + (j - a)>>
               /\ a + LeftOf(o, sz) + 1 <= MaxData =>
                     LET u == fr.data[a + LeftOf(o, sz) + 1] IN u = Idle \/ u[2] = 1
<1> DEFINE o == fr.data[a]
<1>1. o = <<o[1], o[2]>> /\ IsOctet(o, sz) /\ o[1] \in Nat /\ o[2] \in Nat
  BY FrameFacts, OctetFacts DEF Shaped
<1>2. o[1] \in 1 .. Len(sz) /\ o[2] \in 1 .. sz[o[1]]
  BY <1>1 DEF IsOctet
<1>3. sz[o[1]] \in Nat /\ sz[o[1]] >= LenAt /\ sz[o[1]] >= 1 /\ sz[o[1]] <= MaxSdu
  BY <1>2, SizeFacts
<1>4. LeftOf(o, sz) \in Nat
  BY <1>1, <1>2, <1>3 DEF LeftOf
<1>5. ASSUME NEW j \in a .. MaxData, j - a <= LeftOf(o, sz) PROVE fr.data[j] = <<o[1], o[2] + (j - a)>>
  <2>1. j \in 1 .. MaxData /\ a <= j
    BY LengthsAreNumbers
  <2> QED BY <2>1, <1>5 DEF Shaped, Runs
<1>6. ASSUME a + LeftOf(o, sz) + 1 <= MaxData
      PROVE  LET u == fr.data[a + LeftOf(o, sz) + 1] IN u = Idle \/ u[2] = 1
  <2> DEFINE j == a + LeftOf(o, sz) + 1
  <2>1. j \in 1 .. MaxData /\ a <= j /\ j - a = LeftOf(o, sz) + 1
    BY <1>4, <1>6, LengthsAreNumbers
  <2> HIDE DEF j
  <2>2. fr.data[j] = Idle \/ fr.data[j][2] = 1
    BY <2>1 DEF Shaped, Runs
  <2> QED BY <2>2 DEF j
<1> QED BY <1>1, <1>2, <1>3, <1>4, <1>5, <1>6

(***************************************************************************)
(* What the first header pointer says: that the frame holds nothing but    *)
(* the packet it begins with, or where that one ends.                      *)
(***************************************************************************)
LEMMA PointerSays ==
    ASSUME NEW sz \in Seq(Sizes), NEW fr \in Frame, Shaped(fr, sz)
    PROVE  LET o == fr.data[1]
           IN  /\ 1 \in 1 .. MaxData /\ o # Idle
               /\ \/ fr.ptr = 0 /\ o[2] = 1
                  \/ /\ fr.ptr = NoPkt /\ o[2] > 1 /\ LeftOf(o, sz) >= MaxData - 1
                  \/ /\ fr.ptr \in 1 .. MaxData - 1 /\ o[2] > 1 /\ fr.ptr = LeftOf(o, sz) + 1
<1> DEFINE o == fr.data[1]
<1>1. MaxData \in Nat /\ MaxData >= 1 /\ 1 \in 1 .. MaxData /\ o # Idle
  BY LengthsAreNumbers DEF Shaped
<1>2. o[2] \in Nat /\ sz[o[1]] \in Nat /\ o[2] \in 1 .. sz[o[1]]
  BY <1>1, RunFrom
<1>3. fr.ptr = PtrTo(o[2] - 1, sz[o[1]])
  BY DEF Shaped
<1> HIDE DEF o
<1>4. CASE o[2] = 1
  BY <1>1, <1>2, <1>3, <1>4 DEF PtrTo, o
<1>5. CASE o[2] # 1 /\ sz[o[1]] - (o[2] - 1) >= MaxData
  BY <1>1, <1>2, <1>3, <1>5 DEF PtrTo, o, LeftOf
<1>6. CASE o[2] # 1 /\ sz[o[1]] - (o[2] - 1) < MaxData
  BY <1>1, <1>2, <1>3, <1>6, SMTT(30) DEF PtrTo, o, LeftOf
<1> QED BY <1>1, <1>2, <1>4, <1>5, <1>6

-----------------------------------------------------------------------------
(* Where packets begin in a frame. *)

(* A packet ends before position x, and another one or idle data begins, or the frame ends. *)
Border(data, x) == x \in 0 .. MaxData /\ (x < MaxData => data[x + 1] = Idle \/ data[x + 1][2] = 1)

(* The positions at which a packet begins. *)
Begins(data) == {x \in 0 .. MaxData - 1 : data[x + 1] # Idle /\ data[x + 1][2] = 1}

(* A packet that begins in the frame, and ends there if it has the room. *)
LEMMA PacketAt ==
    ASSUME NEW sz \in Seq(Sizes), NEW fr \in Frame, Shaped(fr, sz), NEW x \in Begins(fr.data)
    PROVE  LET p == fr.data[x + 1][1]
               e == x + sz[p]
           IN  /\ x \in Nat /\ x < MaxData /\ p \in 1 .. Len(sz) /\ fr.data[x + 1] = <<p, 1>>
               /\ sz[p] \in Nat /\ sz[p] >= LenAt /\ sz[p] >= 1 /\ sz[p] <= MaxSdu
               /\ \A k \in 1 .. sz[p] : x + k <= MaxData => fr.data[x + k] = <<p, k>>
               /\ e <= MaxData => Border(fr.data, e)
<1> DEFINE p == fr.data[x + 1][1]
<1>1. x \in 0 .. MaxData - 1 /\ x + 1 \in 1 .. MaxData /\ fr.data[x + 1] # Idle /\ fr.data[x + 1][2] = 1
  BY LengthsAreNumbers DEF Begins
<1>2. /\ fr.data[x + 1] = <<p, 1>> /\ p \in 1 .. Len(sz)
      /\ sz[p] \in Nat /\ sz[p] >= LenAt /\ sz[p] >= 1 /\ sz[p] <= MaxSdu
      /\ LeftOf(fr.data[x + 1], sz) = sz[p] - 1
  BY <1>1, RunFrom DEF LeftOf
<1>3. ASSUME NEW k \in 1 .. sz[p], x + k <= MaxData PROVE fr.data[x + k] = <<p, k>>
  <2>1. x + k \in x + 1 .. MaxData /\ (x + k) - (x + 1) = k - 1 /\ k - 1 <= sz[p] - 1 /\ k \in Nat
    BY <1>1, <1>2, <1>3, LengthsAreNumbers
  <2>2. fr.data[x + k] = <<p, fr.data[x + 1][2] + ((x + k) - (x + 1))>>
    BY <1>1, <1>2, <2>1, RunFrom
  <2> QED BY <2>1, <2>2, <1>1
<1>4. ASSUME x + sz[p] <= MaxData PROVE Border(fr.data, x + sz[p])
  <2>1. x + sz[p] \in 0 .. MaxData
    BY <1>1, <1>2, <1>4, LengthsAreNumbers, SMTT(30)
  <2>2. ASSUME x + sz[p] < MaxData
        PROVE  fr.data[x + sz[p] + 1] = Idle \/ fr.data[x + sz[p] + 1][2] = 1
    <3> DEFINE n == sz[p]
               l == LeftOf(fr.data[x + 1], sz)
    <3>1. n \in Nat /\ l = n - 1 /\ x \in Nat /\ x + n < MaxData /\ MaxData \in Nat
      BY <1>1, <1>2, <2>2, LengthsAreNumbers
    <3>2. (x + 1) + l + 1 <= MaxData =>
             fr.data[(x + 1) + l + 1] = Idle \/ fr.data[(x + 1) + l + 1][2] = 1
      BY <1>1, RunFrom
    <3> HIDE DEF n, l
    <3>3. (x + 1) + l + 1 = x + n + 1 /\ x + n + 1 <= MaxData
      BY <3>1
    <3>4. fr.data[x + n + 1] = Idle \/ fr.data[x + n + 1][2] = 1
      BY <3>2, <3>3
    <3> QED BY <3>4 DEF n
  <2> QED BY <2>1, <2>2 DEF Border
<1>5. x \in Nat /\ x < MaxData
  BY <1>1, LengthsAreNumbers
<1> QED BY <1>2, <1>3, <1>4, <1>5

LEMMA PointerAtBorder ==
    ASSUME NEW sz \in Seq(Sizes), NEW fr \in Frame, Shaped(fr, sz), fr.ptr < MaxData
    PROVE  LET o == fr.data[1]
           IN  /\ Border(fr.data, fr.ptr) /\ fr.ptr \in 0 .. MaxData - 1
               /\ fr.ptr = 0 => o[2] = 1
               /\ fr.ptr > 0 => o[2] > 1 /\ o[2] + fr.ptr - 1 = sz[o[1]]
               /\ \A a \in 1 .. fr.ptr : fr.data[a] = <<o[1], o[2] + (a - 1)>>
<1> DEFINE o == fr.data[1]
<1>1. MaxData \in Nat /\ MaxData >= 1 /\ fr.ptr # NoPkt /\ fr.ptr # Oid
  BY LengthsAreNumbers DEF NoPkt, Oid
<1>2. /\ 1 \in 1 .. MaxData /\ o # Idle
      /\ \/ fr.ptr = 0 /\ o[2] = 1
         \/ fr.ptr \in 1 .. MaxData - 1 /\ o[2] > 1 /\ fr.ptr = LeftOf(o, sz) + 1
  BY <1>1, PointerSays
<1>3. /\ o[2] \in Nat /\ sz[o[1]] \in Nat /\ LeftOf(o, sz) = sz[o[1]] - o[2]
      /\ \A j \in 1 .. MaxData : j - 1 <= LeftOf(o, sz) => fr.data[j] = <<o[1], o[2] + (j - 1)>>
      /\ 1 + LeftOf(o, sz) + 1 <= MaxData =>
            fr.data[1 + LeftOf(o, sz) + 1] = Idle \/ fr.data[1 + LeftOf(o, sz) + 1][2] = 1
  BY <1>2, RunFrom DEF LeftOf
<1> HIDE DEF o
<1>4. CASE fr.ptr = 0
  <2>1. Border(fr.data, 0)
    BY <1>1, <1>2, <1>4 DEF Border, o
  <2> QED BY <2>1, <1>1, <1>2, <1>4 DEF o
<1>5. CASE fr.ptr # 0
  <2>1. fr.ptr \in 1 .. MaxData - 1 /\ o[2] > 1 /\ fr.ptr = LeftOf(o, sz) + 1
    BY <1>2, <1>5
  <2>5. LeftOf(o, sz) \in Int
    BY <1>3
  <2>2. 1 + LeftOf(o, sz) + 1 = fr.ptr + 1 /\ fr.ptr + 1 <= MaxData /\ fr.ptr \in 0 .. MaxData
    BY <2>1, <2>5, <1>1
  <2>3. Border(fr.data, fr.ptr)
    BY <1>3, <2>2 DEF Border
  <2>4. ASSUME NEW a \in 1 .. fr.ptr PROVE fr.data[a] = <<o[1], o[2] + (a - 1)>>
    BY <1>1, <1>3, <2>1
  <2>6. o[2] + fr.ptr - 1 = sz[o[1]]
    BY <2>1, <1>3
  <2>7. fr.ptr \in 0 .. MaxData - 1
    BY <2>1, <1>1
  <2> QED BY <2>1, <2>3, <2>4, <2>6, <2>7, <1>5 DEF o
<1> QED BY <1>4, <1>5

(***************************************************************************)
(* eval_residue_len passes beginnings of packets only, and stops at one    *)
(* that is the last, or taken for it.                                      *)
(***************************************************************************)
LEMMA PacketsPassed ==
    ASSUME size \in Seq(Sizes), NEW fr \in Frame, Shaped(fr, size),
           NEW from \in Begins(fr.data)
    PROVE  LET w == PktsFrom(fr.data, from)
           IN  /\ w \in Seq(Begins(fr.data)) /\ w # <<>>
               /\ LastFrom(fr.data, from) \in Begins(fr.data)
               /\ IsLast(fr.data, LastFrom(fr.data, from))
<1> DEFINE C == Begins(fr.data)
           step == [x \in 0 .. MaxData - 1 |-> IF IsLast(fr.data, x) THEN x ELSE EndOf(fr.data, x)]
<1>1. C \subseteq 0 .. MaxData - 1 /\ C \subseteq 0 .. MaxData /\ MaxData \in Nat
  BY LengthsAreNumbers DEF Begins
<1>2. ASSUME NEW x \in C
      PROVE  /\ step[x] \in C /\ step[x] >= x
             /\ step[x] = x => IsLast(fr.data, x)
  <2>1. x \in 0 .. MaxData - 1 /\ step[x] = IF IsLast(fr.data, x) THEN x ELSE EndOf(fr.data, x)
    BY <1>1
  <2>2. /\ EndOf(fr.data, x) \in Nat /\ EndOf(fr.data, x) >= x + 1
        /\ EndOf(fr.data, x) <= MaxData => Border(fr.data, EndOf(fr.data, x))
    BY PacketAt DEF EndOf
  <2>3. CASE IsLast(fr.data, x)
    BY <2>1, <2>3, <1>1
  <2>4. CASE ~ IsLast(fr.data, x)
    <3> DEFINE e == EndOf(fr.data, x)
    <3>1. ~ (e + HdrLen >= MaxData) /\ fr.data[e + 1] # Idle
      BY <2>4 DEF IsLast
    <3>2. e < MaxData /\ e \in 0 .. MaxData - 1
      BY <3>1, <2>2, LengthsAreNumbers
    <3> HIDE DEF e
    <3>4. Border(fr.data, e)
      BY <3>2, <2>2, LengthsAreNumbers DEF e
    <3>3. e \in C
      BY <3>1, <3>2, <3>4 DEF Border, Begins
    <3> QED BY <3>3, <2>1, <2>2, <2>4, <1>1 DEF e
  <2> QED BY <2>3, <2>4
<1>3. PktsFrom(fr.data, from) = Walk(step, from)
  BY DEF PktsFrom
<1> HIDE DEF C, step
<1>4. from \in C /\ \A x \in C : step[x] \in C /\ step[x] >= x
  BY <1>2 DEF C
<1>5. LET w == Walk(step, from)
      IN WalkOver(C, step, from, w) /\ Last(w) \in C /\ step[Last(w)] = Last(w)
  BY <1>1, <1>4, WalkEnds
<1> QED BY <1>5, <1>3, <1>2 DEF LastFrom, WalkOver, C

(* Where the unused end of a frame begins, as osdlp_tm_transmit evaluates it. *)
LEMMA ResidueFound ==
    ASSUME size \in Seq(Sizes), NEW fr \in Frame, Live(fr), Shaped(fr, size),
           ResidueLen(fr) < MaxData
    PROVE  LET r == ResidueLen(fr)
           IN  /\ r \in 1 .. MaxData - 1 /\ fr.data[r] # Idle /\ LeftOf(fr.data[r], size) = 0
               /\ r + HdrLen >= MaxData \/ fr.data[r + 1] = Idle
<1>1. MaxData \in Nat /\ MaxData >= 1 /\ NoPkt = MaxData + 1 /\ Oid = MaxData + 2
  BY LengthsAreNumbers DEF NoPkt, Oid
<1>2. fr.ptr # NoPkt /\ fr.ptr # Oid /\ fr.ptr \in 0 .. MaxData - 1
  BY <1>1, FrameFacts DEF Live, ResidueLen
<1>3. ResidueLen(fr) = IF fr.data[fr.ptr + 1] = Idle THEN fr.ptr
                       ELSE EndOf(fr.data, LastFrom(fr.data, fr.ptr))
  BY <1>2 DEF ResidueLen
<1>4. Border(fr.data, fr.ptr)
  BY <1>1, <1>2, PointerAtBorder
<1>5. CASE fr.data[fr.ptr + 1] = Idle
  <2>1. fr.ptr # 0
    BY <1>5, <1>1 DEF Shaped
  <2> DEFINE r == fr.ptr
             o == fr.data[1]
  <2>2. r \in 1 .. MaxData - 1 /\ r \in 1 .. r
    BY <2>1, <1>2, <1>1
  <2>3. fr.data[r] = <<o[1], o[2] + (r - 1)>> /\ o[2] + r - 1 = size[o[1]] /\ o[2] > 1
    BY <2>1, <2>2, <1>1, <1>2, PointerAtBorder
  <2>4. o[2] \in Nat /\ size[o[1]] \in Nat
    BY <1>1, RunFrom DEF Shaped
  <2> HIDE DEF o
  <2>5. LeftOf(fr.data[r], size) = 0
    BY <2>2, <2>3, <2>4 DEF LeftOf
  <2>6. fr.data[r] # Idle
    BY <2>2, <2>3, <2>4 DEF Idle
  <2> QED BY <2>2, <2>5, <2>6, <1>3, <1>5
<1>6. CASE fr.data[fr.ptr + 1] # Idle
  <2>1. fr.ptr \in Begins(fr.data)
    <3>1. fr.ptr < MaxData
      BY <1>1, <1>2
    <3> QED BY <3>1, <1>2, <1>4, <1>6 DEF Begins, Border
  <2> DEFINE x == LastFrom(fr.data, fr.ptr)
             r == EndOf(fr.data, x)
  <2>2. x \in Begins(fr.data) /\ IsLast(fr.data, x)
    BY <2>1, PacketsPassed
  <2>3. ResidueLen(fr) = r /\ r < MaxData
    BY <1>3, <1>6
  <2> HIDE DEF x
  <2> DEFINE p == fr.data[x + 1][1]
  <2>4. /\ x \in Nat /\ size[p] \in Nat /\ size[p] >= 1 /\ p \in 1 .. Len(size)
        /\ \A k \in 1 .. size[p] : x + k <= MaxData => fr.data[x + k] = <<p, k>>
    BY <2>2, PacketAt
  <2>5. r = x + size[p]
    BY DEF EndOf
  <2> HIDE DEF r, p
  <2>6. fr.data[r] = <<p, size[p]>>
    <3>1. size[p] \in 1 .. size[p] /\ x + size[p] <= MaxData
      BY <2>3, <2>4, <2>5, <1>1
    <3> QED BY <3>1, <2>4, <2>5
  <2>7. r \in 1 .. MaxData - 1
    BY <2>3, <2>4, <2>5, <1>1
  <2>8. fr.data[r] # Idle /\ LeftOf(fr.data[r], size) = 0
    BY <2>6, <2>4 DEF Idle, LeftOf
  <2>9. r + HdrLen >= MaxData \/ fr.data[r + 1] = Idle
    BY <2>2 DEF IsLast, r
  <2> QED BY <2>3, <2>7, <2>8, <2>9
<1> QED BY <1>5, <1>6

-----------------------------------------------------------------------------
(* Frames as they are packed. *)

LEMMA MinOfTwo ==
    ASSUME NEW a \in Int, NEW b \in Int
    PROVE  Min({a, b}) = IF a <= b THEN a ELSE b
BY DEF Min

(* A frame of its own for octets of p from the one after `from' on. *)
LEMMA PackedFrame ==
    ASSUME NEW sz \in Seq(Sizes), Len(sz) <= MaxPkts, NEW p \in 1 .. Len(sz),
           NEW from \in 0 .. sz[p] - 1
    PROVE  LET fr == FrameFrom(p, from, sz[p])
           IN  /\ fr \in Frame /\ Live(fr) /\ Shaped(fr, sz)
               /\ \A a \in 1 .. MaxData :
                     fr.data[a] = IF a <= sz[p] - from THEN <<p, from + a>> ELSE Idle
<1> DEFINE n == sz[p]
           fr == FrameFrom(p, from, n)
           octets == [k \in 1 .. Min({MaxData, n - from}) |-> <<p, from + k>>]
<1>1. /\ n \in Nat /\ n >= 1 /\ n <= MaxSdu /\ MaxData \in Nat /\ MaxData >= 1 /\ MaxSdu \in Nat
      /\ from \in Nat /\ from < n /\ p \in Nat /\ p \in 1 .. MaxPkts
      /\ NoPkt = MaxData + 1 /\ Oid = MaxData + 2
  BY SizeFacts, LengthsAreNumbers DEF NoPkt, Oid
<1> HIDE DEF n
<1>2. /\ Min({MaxData, n - from}) = IF MaxData <= n - from THEN MaxData ELSE n - from
      /\ Min({MaxData, n - from}) \in Nat
  BY <1>1, MinOfTwo
<1>3. /\ Len(octets) = Min({MaxData, n - from})
      /\ \A k \in 1 .. Min({MaxData, n - from}) : octets[k] = <<p, from + k>>
  BY <1>2
<1> HIDE DEF octets
<1>4. fr = [ptr |-> PtrTo(from, n), data |-> [i \in 1 .. MaxData |-> IF i <= Len(octets) THEN octets[i] ELSE Idle]]
  BY DEF FrameFrom, Pack, octets
<1>5. /\ fr.ptr = PtrTo(from, n)
      /\ fr.data = [i \in 1 .. MaxData |-> IF i <= Len(octets) THEN octets[i] ELSE Idle]
  BY <1>4
<1>6. ASSUME NEW a \in 1 .. MaxData
      PROVE  fr.data[a] = IF a <= n - from THEN <<p, from + a>> ELSE Idle
  <2>1. fr.data[a] = IF a <= Len(octets) THEN octets[a] ELSE Idle
    BY <1>5
  <2>2. a \in Nat /\ a >= 1 /\ a <= MaxData
    BY <1>1
  <2>3. CASE a <= n - from
    <3>1. a \in 1 .. Min({MaxData, n - from}) /\ a <= Len(octets)
      BY <2>2, <2>3, <1>1, <1>2, <1>3
    <3> QED BY <3>1, <2>1, <2>3, <1>3
  <2>4. CASE ~ (a <= n - from)
    <3>1. ~ (a <= Len(octets))
      BY <2>2, <2>4, <1>1, <1>2, <1>3
    <3> QED BY <3>1, <2>1, <2>4
  <2> QED BY <2>3, <2>4
<1>7. fr.ptr \in (0 .. MaxData - 1) \cup {NoPkt} /\ fr.ptr # Oid
  BY <1>1, <1>5 DEF PtrTo
<1>8. ASSUME NEW a \in 1 .. MaxData PROVE fr.data[a] \in Octet \cup {Idle}
  <2>1. CASE a <= n - from
    <3>1. from + a \in 1 .. MaxSdu
      BY <2>1, <1>1
    <3>2. <<p, from + a>> \in Octet
      BY <3>1, <1>1 DEF Octet
    <3> QED BY <3>2, <2>1, <1>6
  <2>2. CASE ~ (a <= n - from)
    BY <2>2, <1>6
  <2> QED BY <2>1, <2>2
<1>9. fr \in Frame
  <2>1. fr.data \in [1 .. MaxData -> Octet \cup {Idle}]
    <3>1. fr.data = [i \in 1 .. MaxData |-> fr.data[i]]
      BY <1>5
    <3> HIDE DEF fr
    <3> QED BY <3>1, <1>8
  <2> QED BY <2>1, <1>7, <1>4 DEF Frame
<1> HIDE DEF fr
<1>10. <<p, from + 1>> # Idle /\ \A a \in 1 .. MaxData : <<p, from + a>> # Idle
  BY <1>1 DEF Idle
<1>11. Shaped(fr, sz)
  <2>1. ASSUME NEW i \in 1 .. MaxData, fr.data[i] # Idle
        PROVE  /\ i <= n - from /\ fr.data[i] = <<p, from + i>> /\ IsOctet(fr.data[i], sz)
               /\ fr.data[i][1] = p /\ fr.data[i][2] = from + i
               /\ LeftOf(fr.data[i], sz) = n - (from + i)
    <3>1. i <= n - from /\ fr.data[i] = <<p, from + i>>
      BY <2>1, <1>6
    <3>2. from + i \in 1 .. n
      BY <3>1, <1>1
    <3> QED BY <3>1, <3>2 DEF IsOctet, LeftOf, n
  <2>2. fr.data[1] # Idle /\ fr.data[1] = <<p, from + 1>>
    <3>1. 1 \in 1 .. MaxData /\ 1 <= n - from
      BY <1>1
    <3> QED BY <3>1, <1>6, <1>10
  <2>3. fr.ptr = PtrTo(fr.data[1][2] - 1, sz[fr.data[1][1]])
    <3>1. (from + 1) - 1 = from
      BY <1>1
    <3> QED BY <2>2, <3>1, <1>5 DEF n
  <2>4. Runs(fr.data, sz)
    <3> SUFFICES ASSUME NEW i \in 1 .. MaxData, NEW j \in 1 .. MaxData, fr.data[i] # Idle, i <= j
                 PROVE  /\ j - i <= LeftOf(fr.data[i], sz) =>
                              fr.data[j] = <<fr.data[i][1], fr.data[i][2] + (j - i)>>
                        /\ j - i = LeftOf(fr.data[i], sz) + 1 => fr.data[j] = Idle \/ fr.data[j][2] = 1
      BY DEF Runs
    <3>1. ASSUME j - i <= LeftOf(fr.data[i], sz)
          PROVE  fr.data[j] = <<fr.data[i][1], fr.data[i][2] + (j - i)>>
      <4>1. j <= n - from /\ from + i + (j - i) = from + j
        BY <2>1, <3>1, <1>1
      <4> QED BY <4>1, <2>1, <1>6
    <3>2. ASSUME j - i = LeftOf(fr.data[i], sz) + 1 PROVE fr.data[j] = Idle
      BY <2>1, <3>2, <1>1, <1>6
    <3> QED BY <3>1, <3>2
  <2>5. InOrder(fr.data)
    <3> SUFFICES ASSUME NEW i \in 1 .. MaxData, NEW j \in 1 .. MaxData, i < j, fr.data[j] # Idle
                 PROVE  fr.data[i] # Idle /\ Before(fr.data[i], fr.data[j])
      BY DEF InOrder
    <3>1. fr.data[j] = <<p, from + j>> /\ i <= n - from
      <4>1. fr.data[j] = <<p, from + j>> /\ j <= n - from
        BY <2>1
      <4> QED BY <4>1, <1>1
    <3>2. fr.data[i] = <<p, from + i>>
      BY <3>1, <1>6
    <3> QED BY <3>1, <3>2, <1>10, <1>1, SMTT(30) DEF Before
  <2> QED BY <2>1, <2>2, <2>3, <2>4, <2>5 DEF Shaped
<1> QED BY <1>6, <1>7, <1>9, <1>11 DEF Live, fr, n

-----------------------------------------------------------------------------
(* Stuffing. *)

LEMMA SizesGrow ==
    ASSUME NEW sz \in Seq(Sizes), NEW n \in Sizes
    PROVE  LET sz2 == Append(sz, n)
           IN  /\ sz2 \in Seq(Sizes) /\ Len(sz2) = Len(sz) + 1 /\ sz2[Len(sz) + 1] = n
               /\ Len(sz) \in Nat /\ n \in Nat /\ n >= 1 /\ n >= LenAt /\ n <= MaxSdu
               /\ \A p \in 1 .. Len(sz) : sz2[p] = sz[p] /\ p \in 1 .. Len(sz2)
BY LengthsAreNumbers

LEMMA OctetGrows ==
    ASSUME NEW sz \in Seq(Sizes), NEW n \in Sizes, NEW o, IsOctet(o, sz)
    PROVE  IsOctet(o, Append(sz, n)) /\ LeftOf(o, Append(sz, n)) = LeftOf(o, sz)
BY SizesGrow DEF IsOctet, LeftOf

LEMMA ShapedGrows ==
    ASSUME NEW sz \in Seq(Sizes), NEW n \in Sizes, NEW fr \in Frame, Shaped(fr, sz)
    PROVE  Shaped(fr, Append(sz, n))
<1> DEFINE sz2 == Append(sz, n)
<1>1. ASSUME NEW i \in 1 .. MaxData, fr.data[i] # Idle
      PROVE  IsOctet(fr.data[i], sz2) /\ LeftOf(fr.data[i], sz2) = LeftOf(fr.data[i], sz)
  <2>1. IsOctet(fr.data[i], sz)
    BY <1>1 DEF Shaped
  <2> QED BY <2>1, OctetGrows
<1>2. sz2[fr.data[1][1]] = sz[fr.data[1][1]]
  BY SizesGrow, LengthsAreNumbers DEF Shaped, IsOctet
<1> HIDE DEF sz2
<1>3. Runs(fr.data, sz2)
  BY <1>1 DEF Shaped, Runs
<1> QED BY <1>1, <1>2, <1>3 DEF Shaped, sz2

(* What is stuffed behind the end of a packet, and what was there before. *)
LEMMA StuffedFrame ==
    ASSUME NEW fr \in Frame, NEW r \in 0 .. MaxData - 1, NEW p \in 1 .. MaxPkts, NEW n \in 1 .. MaxSdu
    PROVE  LET f == Stuffed(fr, r, p, n)
           IN  /\ f \in Frame /\ f.ptr = fr.ptr
               /\ \A a \in 1 .. MaxData :
                     f.data[a] = IF a <= r THEN fr.data[a]
                                 ELSE IF a - r <= n THEN <<p, a - r>> ELSE Idle
<1> DEFINE f == Stuffed(fr, r, p, n)
           d == [i \in 1 .. MaxData |->
                   CASE i <= r               -> fr.data[i]
                     [] i > r /\ i - r <= n  -> <<p, i - r>>
                     [] i - r > n            -> Idle]
<1>1. MaxData \in Nat /\ MaxSdu \in Nat /\ r \in Nat /\ n \in Nat
  BY LengthsAreNumbers
<1>2. f = [fr EXCEPT !.data = d]
  BY DEF Stuffed
<1>3. f.ptr = fr.ptr /\ f.data = d /\ fr \in [ptr : (0 .. MaxData - 1) \cup {NoPkt, Oid}, data : [1 .. MaxData -> Octet \cup {Idle}]]
  BY <1>2 DEF Frame
<1>4. ASSUME NEW a \in 1 .. MaxData
      PROVE  d[a] = IF a <= r THEN fr.data[a] ELSE IF a - r <= n THEN <<p, a - r>> ELSE Idle
  <2>1. CASE a <= r
    BY <2>1, <1>1
  <2>2. CASE a > r /\ a - r <= n
    BY <2>2, <1>1
  <2>3. CASE a > r /\ a - r > n
    BY <2>3, <1>1
  <2> QED BY <2>1, <2>2, <2>3, <1>1
<1>5. ASSUME NEW a \in 1 .. MaxData PROVE d[a] \in Octet \cup {Idle}
  <2>1. CASE a <= r
    BY <2>1, <1>4, FrameFacts
  <2>2. CASE a > r /\ a - r <= n
    <3>1. a - r \in 1 .. MaxSdu
      BY <2>2, <1>1
    <3>2. <<p, a - r>> \in Octet
      BY <3>1 DEF Octet
    <3>3. d[a] = <<p, a - r>>
      BY <2>2, <1>4, <1>1
    <3> QED BY <3>2, <3>3
  <2>3. CASE a > r /\ a - r > n
    <3>1. d[a] = Idle
      BY <2>3, <1>4, <1>1
    <3> QED BY <3>1
  <2> QED BY <2>1, <2>2, <2>3, <1>1
<1>6. d \in [1 .. MaxData -> Octet \cup {Idle}]
  <2>1. d = [i \in 1 .. MaxData |-> d[i]]
    OBVIOUS
  <2> HIDE DEF d
  <2> QED BY <2>1, <1>5
<1> HIDE DEF d
<1>7. f \in Frame
  BY <1>2, <1>3, <1>6 DEF Frame
<1> QED BY <1>3, <1>4, <1>7

(* What is stuffed behind the end of a packet leaves the frame sound. *)
LEMMA StuffedShaped ==
    ASSUME NEW sz \in Seq(Sizes), NEW n \in Sizes, Len(sz) < MaxPkts,
           NEW fr \in Frame, Shaped(fr, sz),
           NEW r \in 1 .. MaxData - 1, fr.data[r] # Idle, LeftOf(fr.data[r], sz) = 0
    PROVE  LET f == Stuffed(fr, r, Len(sz) + 1, n)
           IN  /\ f \in Frame /\ f.ptr = fr.ptr /\ Shaped(f, Append(sz, n)) /\ f.data[1] = fr.data[1]
               /\ \A a \in 1 .. MaxData :
                     f.data[a] = IF a <= r THEN fr.data[a]
                                 ELSE IF a - r <= n THEN <<Len(sz) + 1, a - r>> ELSE Idle
               /\ \A a \in 1 .. r : fr.data[a] # Idle
<1> DEFINE p == Len(sz) + 1
           f == Stuffed(fr, r, p, n)
           sz2 == Append(sz, n)
           d == fr.data
           e == f.data
<1>1. /\ MaxData \in Nat /\ MaxData >= 1 /\ MaxSdu \in Nat /\ n \in Nat /\ n \in 1 .. MaxSdu /\ n >= 1
      /\ Len(sz) \in Nat /\ p \in 1 .. MaxPkts /\ p \in Nat /\ r \in Nat /\ r >= 1 /\ r < MaxData
      /\ r \in 0 .. MaxData - 1 /\ r \in 1 .. MaxData /\ 1 \in 1 .. MaxData
  BY LengthsAreNumbers, SizesGrow
<1>2. /\ sz2 \in Seq(Sizes) /\ Len(sz2) = p /\ sz2[p] = n
      /\ \A k \in 1 .. Len(sz) : sz2[k] = sz[k] /\ k \in 1 .. Len(sz2)
  BY SizesGrow
<1>3. /\ f \in Frame /\ f.ptr = fr.ptr
      /\ \A a \in 1 .. MaxData :
            e[a] = IF a <= r THEN d[a] ELSE IF a - r <= n THEN <<p, a - r>> ELSE Idle
  BY <1>1, StuffedFrame
<1> HIDE DEF p, f, sz2, d, e
(* The packets before position r end before it. *)
<1>4. ASSUME NEW i \in 1 .. r
      PROVE  /\ d[i] # Idle /\ e[i] = d[i] /\ IsOctet(d[i], sz) /\ IsOctet(d[i], sz2)
             /\ LeftOf(d[i], sz2) = LeftOf(d[i], sz)
             /\ LeftOf(d[i], sz) \in Nat /\ LeftOf(d[i], sz) <= r - i
             /\ d[i][1] \in Nat /\ d[i][1] <= Len(sz) /\ d[i][2] \in Nat
  <2>1. i \in 1 .. MaxData /\ i <= r /\ i \in Nat
    BY <1>1
  <2>2. d[i] # Idle
    <3>1. CASE i = r
      BY <3>1 DEF d
    <3>2. CASE i < r
      BY <3>2, <2>1, <1>1 DEF d, Shaped, InOrder
    <3> QED BY <3>1, <3>2, <2>1, <1>1
  <2>3. /\ d[i][1] \in 1 .. Len(sz) /\ d[i][1] \in Nat /\ d[i][2] \in Nat
        /\ LeftOf(d[i], sz) \in Nat /\ sz[d[i][1]] \in Nat
        /\ r - i <= LeftOf(d[i], sz) => d[r] = <<d[i][1], d[i][2] + (r - i)>>
    BY <2>1, <2>2, <1>1, RunFrom DEF d
  <2>4. LeftOf(d[i], sz) <= r - i
    <3> SUFFICES ASSUME ~ (LeftOf(d[i], sz) <= r - i) PROVE FALSE
      OBVIOUS
    <3>1. LeftOf(d[r], sz) = sz[d[i][1]] - (d[i][2] + (r - i))
      BY <2>3, <2>1, <1>1 DEF LeftOf
    <3>2. LeftOf(d[i], sz) = sz[d[i][1]] - d[i][2]
      BY DEF LeftOf
    <3>3. LeftOf(d[r], sz) = 0
      BY DEF d
    <3> QED BY <3>1, <3>2, <3>3, <2>1, <2>3, <1>1, SMTT(30)
  <2>5. IsOctet(d[i], sz)
    BY <2>1, <2>2 DEF Shaped, d
  <2>6. IsOctet(d[i], sz2) /\ LeftOf(d[i], sz2) = LeftOf(d[i], sz)
    BY <2>5, OctetGrows DEF sz2
  <2>7. e[i] = d[i]
    BY <2>1, <1>3
  <2>8. d[i][1] <= Len(sz)
    BY <2>3, <1>1
  <2> QED BY <2>2, <2>3, <2>4, <2>5, <2>6, <2>7, <2>8
(* Those behind it are the new packet's, or idle. *)
<1>5. ASSUME NEW i \in 1 .. MaxData, i > r
      PROVE  /\ i - r <= n => /\ e[i] = <<p, i - r>> /\ e[i] # Idle /\ e[i][1] = p /\ e[i][2] = i - r
                              /\ IsOctet(e[i], sz2) /\ LeftOf(e[i], sz2) = n - (i - r)
             /\ i - r > n => e[i] = Idle
  <2>1. i \in Nat /\ e[i] = IF i - r <= n THEN <<p, i - r>> ELSE Idle
    BY <1>5, <1>3, <1>1
  <2>2. CASE i - r <= n
    <3>1. e[i] = <<p, i - r>> /\ i - r \in 1 .. n /\ i - r \in Nat
      BY <2>1, <2>2, <1>1, <1>5
    <3>2. e[i] # Idle
      BY <3>1, <1>1 DEF Idle
    <3>3. p \in 1 .. Len(sz2)
      BY <1>1, <1>2
    <3> QED BY <3>1, <3>2, <3>3, <1>1, <1>2 DEF IsOctet, LeftOf
  <2>3. CASE i - r > n
    BY <2>1, <2>3, <1>1
  <2> QED BY <2>2, <2>3, <2>1, <1>1
<1>6. ASSUME NEW i \in 1 .. MaxData, e[i] # Idle PROVE IsOctet(e[i], sz2)
  <2>1. CASE i <= r
    <3>1. i \in 1 .. r
      BY <2>1
    <3> QED BY <3>1, <1>4
  <2>2. CASE i > r
    BY <2>2, <1>5, <1>6, <1>1
  <2> QED BY <2>1, <2>2, <1>1
<1>7. e[1] = d[1] /\ d[1] # Idle /\ sz2[d[1][1]] = sz[d[1][1]]
  <2>1. 1 \in 1 .. r
    BY <1>1
  <2>2. d[1][1] \in 1 .. Len(sz)
    BY <2>1, <1>4 DEF IsOctet
  <2> QED BY <2>1, <2>2, <1>2, <1>4
<1>8. Runs(e, sz2)
  <2> SUFFICES ASSUME NEW i \in 1 .. MaxData, NEW j \in 1 .. MaxData, e[i] # Idle, i <= j
               PROVE  /\ j - i <= LeftOf(e[i], sz2) => e[j] = <<e[i][1], e[i][2] + (j - i)>>
                      /\ j - i = LeftOf(e[i], sz2) + 1 => e[j] = Idle \/ e[j][2] = 1
    BY DEF Runs
  <2>1. CASE i <= r
    <3>1. i \in 1 .. r /\ i \in Nat /\ j \in Nat
      BY <2>1, <1>1
    <3>2. /\ d[i] # Idle /\ e[i] = d[i] /\ LeftOf(e[i], sz2) = LeftOf(d[i], sz)
          /\ LeftOf(d[i], sz) \in Nat /\ LeftOf(d[i], sz) <= r - i
      BY <3>1, <1>4
    <3>3. /\ j - i <= LeftOf(d[i], sz) => d[j] = <<d[i][1], d[i][2] + (j - i)>>
          /\ j - i = LeftOf(d[i], sz) + 1 => d[j] = Idle \/ d[j][2] = 1
      BY <3>2 DEF Shaped, Runs, d
    <3>4. CASE j <= r
      <4>1. j \in 1 .. r
        BY <3>4, <1>1
      <4>2. e[j] = d[j]
        BY <4>1, <1>4
      <4> QED BY <4>2, <3>2, <3>3
    <3>5. CASE j > r
      <4>1. ~ (j - i <= LeftOf(e[i], sz2))
        BY <3>1, <3>2, <3>5, <1>1
      <4>2. ASSUME j - i = LeftOf(e[i], sz2) + 1 PROVE e[j][2] = 1
        <5>1. j - r = 1
          BY <4>2, <3>1, <3>2, <3>5, <1>1
        <5>2. j - r <= n
          BY <5>1, <1>1
        <5> QED BY <5>1, <5>2, <3>5, <1>5
      <4> QED BY <4>1, <4>2
    <3> QED BY <3>4, <3>5, <3>1, <1>1
  <2>2. CASE i > r
    <3>1. i \in Nat /\ j \in Nat /\ j > r
      BY <2>2, <1>1
    <3>2. i - r <= n
      BY <2>2, <1>5, <3>1, <1>1
    <3>3. e[i][1] = p /\ e[i][2] = i - r /\ LeftOf(e[i], sz2) = n - (i - r)
      BY <3>2, <2>2, <1>5
    <3>4. ASSUME j - i <= LeftOf(e[i], sz2) PROVE e[j] = <<e[i][1], e[i][2] + (j - i)>>
      <4>1. j - r <= n /\ (i - r) + (j - i) = j - r
        BY <3>4, <3>3, <3>1, <1>1
      <4>2. e[j] = <<p, j - r>>
        BY <4>1, <3>1, <1>5
      <4> QED BY <4>1, <4>2, <3>3
    <3>5. ASSUME j - i = LeftOf(e[i], sz2) + 1 PROVE e[j] = Idle
      <4>1. j - r > n
        BY <3>5, <3>3, <3>1, <1>1
      <4> QED BY <4>1, <3>1, <1>5
    <3> QED BY <3>4, <3>5
  <2> QED BY <2>1, <2>2, <1>1
<1>9. InOrder(e)
  <2> SUFFICES ASSUME NEW i \in 1 .. MaxData, NEW j \in 1 .. MaxData, i < j, e[j] # Idle
               PROVE  e[i] # Idle /\ Before(e[i], e[j])
    BY DEF InOrder
  <2>0. i \in Nat /\ j \in Nat
    BY <1>1
  <2>1. CASE j <= r
    <3>1. i \in 1 .. r /\ j \in 1 .. r
      BY <2>0, <2>1, <1>1
    <3>2. d[i] # Idle /\ e[i] = d[i] /\ e[j] = d[j] /\ d[j] # Idle
      BY <3>1, <1>4
    <3> QED BY <3>2 DEF Shaped, InOrder, d
  <2>2. CASE j > r
    <3>1. j - r <= n
      BY <2>0, <2>2, <1>1, <1>5
    <3>2. e[j][1] = p /\ e[j][2] = j - r
      BY <3>1, <2>2, <1>5
    <3>3. CASE i <= r
      <4>1. i \in 1 .. r
        BY <3>3, <2>0
      <4>2. d[i] # Idle /\ e[i] = d[i] /\ d[i][1] \in Nat /\ d[i][1] <= Len(sz)
        BY <4>1, <1>4
      <4>3. d[i][1] < p
        BY <4>2, <1>1 DEF p
      <4> QED BY <4>2, <4>3, <3>2 DEF Before
    <3>4. CASE i > r
      <4>1. i - r <= n /\ i - r < j - r
        BY <3>1, <3>4, <2>0, <1>1
      <4>2. e[i][1] = p /\ e[i][2] = i - r /\ e[i] # Idle
        BY <4>1, <3>4, <1>5
      <4> QED BY <4>1, <4>2, <3>2 DEF Before
    <3> QED BY <3>3, <3>4, <2>0, <1>1
  <2> QED BY <2>1, <2>2, <2>0, <1>1
<1>10. Shaped(f, sz2)
  <2>1. fr.ptr = PtrTo(d[1][2] - 1, sz[d[1][1]])
    BY DEF Shaped, d
  <2> QED BY <2>1, <1>3, <1>6, <1>7, <1>8, <1>9 DEF Shaped, e
<1> QED BY <1>3, <1>4, <1>7, <1>10 DEF p, f, sz2, d, e

-----------------------------------------------------------------------------
(* The frames the rest of a packet goes into. *)

FramesLeft(from, n) == (n - from + MaxData - 1) \div MaxData

(* Where the i-th of them begins. *)
Place(from, i) == from + (i - 1) * MaxData

Cuts(p, from, n, k) == [i \in 1 .. k |-> FrameFrom(p, from + (i - 1) * MaxData, n)]

LEMMA Multiples ==
    /\ \A i \in Nat : i * MaxData \in Nat /\ (i + 1) * MaxData = i * MaxData + MaxData
    /\ \A i, j \in Nat : i <= j => i * MaxData <= j * MaxData
    /\ 0 * MaxData = 0
<1> DEFINE M == MaxData
<1>1. M \in Nat
  BY LengthsAreNumbers
<1> HIDE DEF M
<1>2. \A i, k \in Nat : i * M \in Nat /\ k * M >= 0 /\ (i + k) * M = i * M + k * M
  BY <1>1, SMTT(30)
<1>3. \A i \in Nat : (i + 1) * M = i * M + M
  BY <1>1, SMTT(30)
<1>4. ASSUME NEW i \in Nat, NEW j \in Nat, i <= j PROVE i * M <= j * M
  <2>1. j - i \in Nat /\ i + (j - i) = j
    BY <1>4
  <2>2. j * M = i * M + (j - i) * M /\ (j - i) * M >= 0 /\ i * M \in Nat /\ (j - i) * M \in Nat
    BY <1>2, <2>1
  <2> QED BY <2>2
<1>5. 0 * M = 0
  BY <1>1
<1> QED BY <1>2, <1>3, <1>4, <1>5 DEF M

LEMMA FramesCounted ==
    ASSUME NEW n \in Nat, NEW from \in 0 .. n - 1
    PROVE  LET c == FramesLeft(from, n)
           IN  c \in Nat \ {0} /\ from + (c - 1) * MaxData < n /\ n <= from + c * MaxData
<1> DEFINE M == MaxData
           y == n - from + M - 1
           c == y \div M
<1>1. M \in Nat \ {0} /\ y \in Nat /\ y >= M /\ n - from \in Nat /\ n - from > 0
  BY LengthsAreNumbers
<1>2. FramesLeft(from, n) = c
  BY DEF FramesLeft
<1> HIDE DEF M, y
<1>3. c \in Nat /\ c * M <= y /\ y < c * M + M
  <2>1. \A u \in Nat, v \in Nat \ {0} : u \div v \in Nat /\ (u \div v) * v <= u /\ u < (u \div v) * v + v
    <3> TAKE u \in Nat, v \in Nat \ {0}
    <3>1. u = v * (u \div v) + (u % v) /\ u % v \in 0 .. v - 1 /\ u \div v \in Int
      BY SMTT(30)
    <3> QED BY <3>1, SMTT(30)
  <2> QED BY <1>1, <2>1
<1> HIDE DEF c
<1>4. c # 0
  <2> SUFFICES ASSUME c = 0 PROVE FALSE
    OBVIOUS
  <2>1. c * M = 0
    BY <1>1
  <2> QED BY <1>1, <1>3, <2>1
<1>5. c * M \in Int /\ (c - 1) * M = c * M - M
  BY <1>1, <1>3, SMTT(30)
<1>6. from + (c - 1) * M < n /\ n <= from + c * M
  BY <1>1, <1>3, <1>5 DEF y
<1> QED BY <1>2, <1>3, <1>4, <1>6 DEF M

(* Each begins inside the packet, where the one before ends; the last one of all reaches
   the end. *)
LEMMA Places ==
    ASSUME NEW n \in Nat, NEW from \in 0 .. n - 1, NEW k \in 0 .. FramesLeft(from, n)
    PROVE  /\ k \in Nat /\ Place(from, 1) = from
           /\ \A i \in 1 .. k : Place(from, i) \in from .. n - 1
           /\ \A i \in 1 .. k : Place(from, i + 1) = Place(from, i) + MaxData
           /\ \A i, j \in 1 .. k : i < j => Place(from, i) + MaxData <= Place(from, j)
           /\ k < FramesLeft(from, n) => Place(from, k + 1) \in from .. n - 1
           /\ k = FramesLeft(from, n) => k >= 1 /\ Place(from, k) + MaxData >= n
           /\ Place(from, k + 1) = from + k * MaxData
<1> DEFINE M == MaxData
           c == FramesLeft(from, n)
           At(i) == from + (i - 1) * M
<1>1. /\ M \in Nat \ {0} /\ c \in Nat \ {0} /\ from + (c - 1) * M < n /\ n <= from + c * M
      /\ k \in Nat /\ k <= c /\ from \in Nat
  BY FramesCounted, LengthsAreNumbers
<1> HIDE DEF c
<1>2. /\ \A i \in Nat : i * M \in Nat /\ (i + 1) * M = i * M + M
      /\ \A i, j \in Nat : i <= j => i * M <= j * M
      /\ 0 * M = 0
  BY Multiples
<1> HIDE DEF M
<1>3. \A i \in Nat \ {0} : At(i) \in Nat /\ At(i) >= from /\ At(i + 1) = At(i) + M /\ At(i + 1) = from + i * M
  <2> TAKE i \in Nat \ {0}
  <2>1. i - 1 \in Nat /\ (i - 1) + 1 = i /\ (i + 1) - 1 = i
    OBVIOUS
  <2>2. (i - 1) * M \in Nat /\ i * M = (i - 1) * M + M
    BY <1>2, <2>1
  <2> QED BY <2>1, <2>2, <1>1
<1>4. At(1) = from
  <2>1. 1 - 1 = 0
    OBVIOUS
  <2> QED BY <2>1, <1>1, <1>2
<1>5. ASSUME NEW i \in 1 .. c PROVE At(i) \in from .. n - 1
  <2>1. i - 1 \in Nat /\ c - 1 \in Nat /\ i - 1 <= c - 1 /\ i \in Nat \ {0}
    BY <1>1
  <2>2. (i - 1) * M <= (c - 1) * M /\ (i - 1) * M \in Nat /\ (c - 1) * M \in Nat
    BY <1>2, <2>1
  <2>3. At(i) \in Nat /\ At(i) >= from
    BY <1>3, <2>1
  <2> QED BY <2>2, <2>3, <1>1
<1>6. ASSUME NEW i \in 1 .. k, NEW j \in 1 .. k, i < j PROVE At(i) + M <= At(j)
  <2>1. i \in Nat \ {0} /\ j - 1 \in Nat /\ i <= j - 1 /\ i \in Nat
    BY <1>1, <1>6
  <2>2. i * M <= (j - 1) * M /\ i * M \in Nat /\ (j - 1) * M \in Nat
    BY <1>2, <2>1
  <2>3. At(i) + M = from + i * M
    BY <1>3, <2>1
  <2> QED BY <2>2, <2>3, <1>1
<1>7. At(k + 1) = from + k * M
  <2>1. (k + 1) - 1 = k
    BY <1>1
  <2> QED BY <2>1
<1>8. k < c => k + 1 \in 1 .. c
  BY <1>1
<1>9. k = c => k >= 1 /\ At(k) + M >= n
  <2>1. k = c => k \in Nat \ {0} /\ At(k) + M = from + k * M
    BY <1>1, <1>3
  <2> QED BY <2>1, <1>1
<1>10. \A i \in 1 .. k : i \in 1 .. c /\ i \in Nat \ {0}
  BY <1>1
<1>11. \A i : Place(from, i) = At(i)
  BY DEF Place, M
<1> HIDE DEF At
<1> QED BY <1>1, <1>3, <1>4, <1>5, <1>6, <1>7, <1>8, <1>9, <1>10, <1>11 DEF c, M

-----------------------------------------------------------------------------
(* The row, and what the sender does to it. *)

SenderLoop == [loop : {"OPEN", "CLOSED"}, done : 0 .. MaxSdu]

RowTypes(q, sz, sn, rc, arr) ==
    /\ q \in Seq(Frame) /\ sz \in Seq(Sizes) /\ Len(sz) <= MaxPkts /\ sn \in SenderLoop
    /\ rc.buf \in Seq(Octet \cup {Idle}) /\ arr \in Seq(0 .. MaxPkts)

LEMMA RowOctets ==
    ASSUME NEW q \in Seq(Frame)
    PROVE  /\ \A i \in 1 .. Len(q), a \in 1 .. MaxData :
                  Live(q[i]) /\ q[i].data[a] # Idle => q[i].data[a] \in Row(q)
           /\ \A o \in Row(q) :
                  /\ o \in Octet /\ o # Idle /\ o = <<o[1], o[2]>> /\ o[1] \in Nat /\ o[2] \in Nat
                  /\ \E i \in 1 .. Len(q), a \in 1 .. MaxData : Live(q[i]) /\ q[i].data[a] = o
<1>1. Idle \notin Octet
  BY DEF Idle, Octet
<1>2. ASSUME NEW i \in 1 .. Len(q), NEW a \in 1 .. MaxData, Live(q[i]), q[i].data[a] # Idle
      PROVE  q[i].data[a] \in Row(q)
  <2>1. q[i] \in Frame
    OBVIOUS
  <2>2. q[i].data[a] \in Octet
    BY <1>2, <2>1, FrameFacts
  <2> QED BY <1>2, <2>2 DEF Row
<1>3. ASSUME NEW o \in Row(q)
      PROVE  /\ o \in Octet /\ o # Idle /\ o = <<o[1], o[2]>> /\ o[1] \in Nat /\ o[2] \in Nat
             /\ \E i \in 1 .. Len(q), a \in 1 .. MaxData : Live(q[i]) /\ q[i].data[a] = o
  <2>1. o \in Octet /\ \E i \in 1 .. Len(q), a \in 1 .. MaxData : Live(q[i]) /\ q[i].data[a] = o
    BY DEF Row
  <2> QED BY <2>1, <1>1, OctetFacts
<1> QED BY <1>2, <1>3

LEMMA RowIsOctets ==
    ASSUME NEW q \in Seq(Frame), NEW sz, NEW h, Frames(q, sz, h), NEW o \in Row(q)
    PROVE  IsOctet(o, sz)
<1>1. PICK i \in 1 .. Len(q), a \in 1 .. MaxData : Live(q[i]) /\ q[i].data[a] = o /\ o # Idle
  BY RowOctets
<1> QED BY <1>1 DEF Frames, Shaped

LEMMA ComingIs ==
    ASSUME NEW sz \in Seq(Sizes), NEW sn \in SenderLoop
    PROVE  LET c == Coming(sz, sn)
           IN  /\ c[1] \in Nat /\ c[2] \in Nat /\ c[2] >= 1 /\ Len(sz) \in Nat
               /\ sn.loop = "OPEN" => c = <<Len(sz), sn.done + 1>> /\ c[1] = Len(sz) /\ c[2] = sn.done + 1
               /\ sn.loop # "OPEN" => c = <<Len(sz) + 1, 1>> /\ c[1] = Len(sz) + 1 /\ c[2] = 1
<1>1. sn.done \in Nat /\ Len(sz) \in Nat
  BY LengthsAreNumbers DEF SenderLoop
<1> QED BY <1>1 DEF Coming

(* A packet is begun: so far it is all to come. *)
LEMMA BegunOnRow ==
    ASSUME NEW q, NEW sz, NEW sn, NEW h, NEW rc, NEW arr, NEW st, NEW n \in Sizes,
           RowTypes(q, sz, sn, rc, arr), OnRow(q, sz, sn, h, rc, arr, st),
           sn.loop = "CLOSED", Len(sz) < MaxPkts
    PROVE  LET sz2 == Append(sz, n)
               sn2 == [loop |-> "OPEN", done |-> 0]
           IN  RowTypes(q, sz2, sn2, rc, arr) /\ OnRow(q, sz2, sn2, h, rc, arr, st)
<1> DEFINE sz2 == Append(sz, n)
           sn2 == [loop |-> "OPEN", done |-> 0]
           p == Len(sz) + 1
<1>1. /\ q \in Seq(Frame) /\ sz \in Seq(Sizes) /\ sn \in SenderLoop /\ sn2 \in SenderLoop
      /\ sn2.loop = "OPEN" /\ sn2.done = 0
      /\ Frames(q, sz, h) /\ Sorted(q) /\ Unbroken(q, sz, sn, h)
      /\ Ahead(q, sz, sn, rc, arr) /\ Joining(q, sz, sn, h, rc, st)
      /\ Kept(q, sz, sn, h, rc, arr, st) /\ Plain(q, st)
  BY LengthsAreNumbers DEF RowTypes, OnRow, SenderLoop
<1>2. /\ sz2 \in Seq(Sizes) /\ Len(sz2) = p /\ sz2[p] = n /\ n \in Nat /\ n >= 1
      /\ Len(sz) \in Nat /\ p \in Nat /\ Len(sz2) <= MaxPkts
      /\ \A k \in 1 .. Len(sz) : sz2[k] = sz[k] /\ k \in 1 .. Len(sz2)
  BY <1>1, SizesGrow, LengthsAreNumbers
<1> HIDE DEF sz2, sn2
<1>3. RowTypes(q, sz2, sn2, rc, arr)
  BY <1>1, <1>2 DEF RowTypes
<1>4. \A o : IsOctet(o, sz) => IsOctet(o, sz2) /\ LeftOf(o, sz2) = LeftOf(o, sz)
  BY <1>1, OctetGrows DEF sz2
<1>5. Frames(q, sz2, h)
  <2> SUFFICES ASSUME NEW i \in 1 .. Len(q)
               PROVE  IF Live(q[i]) THEN Shaped(q[i], sz2) ELSE Swallowed(q[i], sz2, h)
    BY DEF Frames
  <2>1. q[i] \in Frame
    BY <1>1
  <2>2. CASE Live(q[i])
    BY <2>1, <2>2, <1>1, ShapedGrows DEF Frames, sz2
  <2>3. CASE ~ Live(q[i])
    <3>1. Swallowed(q[i], sz, h)
      BY <2>3, <1>1 DEF Frames
    <3> QED BY <3>1, <2>3, <1>4 DEF Swallowed
  <2> QED BY <2>2, <2>3
<1>6. \A k, m, i : GoesOn(q, sz, sn, k, m, i) => GoesOn(q, sz2, sn2, k, m, i)
  BY DEF GoesOn
<1>7. Unbroken(q, sz2, sn2, h)
  <2> SUFFICES ASSUME NEW i \in 1 .. Len(q), Live(q[i]), q[i].data[MaxData] # Idle,
                      q[i].data[MaxData][1] \notin h, LeftOf(q[i].data[MaxData], sz2) > 0
               PROVE  GoesOn(q, sz2, sn2, q[i].data[MaxData][1], q[i].data[MaxData][2], i + 1)
    BY DEF Unbroken
  <2>1. MaxData \in 1 .. MaxData
    BY LengthsAreNumbers
  <2>2. IsOctet(q[i].data[MaxData], sz)
    BY <2>1, <1>1 DEF Frames, Shaped
  <2> QED BY <2>2, <1>1, <1>4, <1>6 DEF Unbroken
<1>8. Coming(sz2, sn2) = Coming(sz, sn) /\ Coming(sz, sn) = <<p, 1>>
  BY <1>1, <1>2 DEF Coming
<1>9. Ahead(q, sz2, sn2, rc, arr)
  <2>1. sz2 # <<>> /\ sn2.done < sz2[Len(sz2)]
    BY <1>1, <1>2
  <2> QED BY <2>1, <1>1, <1>4, <1>8 DEF Ahead
<1>10. Joining(q, sz2, sn2, h, rc, st)
  <2> SUFFICES ASSUME rc.loop = "OPEN", Opener(rc)[1] \notin h
               PROVE  LET k == Opener(rc)[1]
                      IN  /\ \A i \in 1 .. Len(rc.buf) : rc.buf[i] = <<k, i>>
                          /\ Len(rc.buf) < sz2[k] /\ (rc.exp = sz2[k] \/ (st /\ rc.exp = 0))
                          /\ GoesOn(q, sz2, sn2, k, Len(rc.buf), 1)
    BY DEF Joining
  <2>1. sz2[Opener(rc)[1]] = sz[Opener(rc)[1]]
    BY <1>1, <1>2 DEF Ahead, IsOctet
  <2> QED BY <2>1, <1>1, <1>6 DEF Joining
<1>11. Kept(q, sz2, sn2, h, rc, arr, st)
  <2> SUFFICES ASSUME NEW k \in 1 .. Len(sz2), k \notin h, ~ (st /\ sz2[k] = MaxSdu)
               PROVE  \/ k \in ToSet(arr)
                      \/ rc.loop = "OPEN" /\ Opener(rc)[1] = k
                      \/ <<k, 1>> \in Row(q)
                      \/ sn2.loop = "OPEN" /\ k = Len(sz2) /\ sn2.done = 0
    BY DEF Kept
  <2>1. CASE k = p
    BY <2>1, <1>1, <1>2
  <2>2. CASE k # p
    <3>1. k \in 1 .. Len(sz) /\ sz2[k] = sz[k]
      BY <2>2, <1>2
    <3> QED BY <3>1, <1>1 DEF Kept
  <2> QED BY <2>1, <2>2
<1>12. OnRow(q, sz2, sn2, h, rc, arr, st)
  BY <1>1, <1>5, <1>7, <1>9, <1>10, <1>11 DEF OnRow
<1> QED BY <1>3, <1>12 DEF sz2, sn2

(***************************************************************************)
(* The loop of osdlp_tm_transmit: frames of the packet in progress join    *)
(* the row at its end, in the order of their octets, and what the queue    *)
(* refuses is still to come.                                               *)
(***************************************************************************)
LEMMA QueuedOnRow ==
    ASSUME NEW q, NEW sz, NEW sn, NEW h, NEW rc, NEW arr, NEW st,
           RowTypes(q, sz, sn, rc, arr), OnRow(q, sz, sn, h, rc, arr, st), sn.loop = "OPEN",
           NEW k \in 0 .. FramesLeft(sn.done, sz[Len(sz)]), k # 0
    PROVE  LET q2 == q \o Cuts(Len(sz), sn.done, sz[Len(sz)], k)
               sn2 == IF k < FramesLeft(sn.done, sz[Len(sz)])
                      THEN [loop |-> "OPEN", done |-> sn.done + k * MaxData]
                      ELSE [loop |-> "CLOSED", done |-> 0]
           IN  /\ RowTypes(q2, sz, sn2, rc, arr) /\ OnRow(q2, sz, sn2, h, rc, arr, st)
               /\ LastSound(q2, sz) /\ Len(q2) = Len(q) + k
<1> DEFINE p == Len(sz)
           n == sz[p]
           from == sn.done
           c == FramesLeft(from, n)
           L == Len(q)
           At(i) == Place(from, i)
           F(i) == FrameFrom(p, At(i), n)
           q2 == q \o Cuts(p, from, n, k)
           sn2 == IF k < c THEN [loop |-> "OPEN", done |-> from + k * MaxData]
                  ELSE [loop |-> "CLOSED", done |-> 0]
<1>1. /\ q \in Seq(Frame) /\ sz \in Seq(Sizes) /\ sn \in SenderLoop /\ Len(sz) <= MaxPkts
      /\ Frames(q, sz, h) /\ Sorted(q) /\ Unbroken(q, sz, sn, h)
      /\ Ahead(q, sz, sn, rc, arr) /\ Joining(q, sz, sn, h, rc, st)
      /\ Kept(q, sz, sn, h, rc, arr, st) /\ Plain(q, st)
  BY DEF RowTypes, OnRow
<1>2. /\ MaxData \in Nat /\ MaxData >= 1 /\ LenAt <= MaxData /\ LenAt \in Nat /\ MaxSdu \in Nat
      /\ p \in Nat /\ p \in 1 .. Len(sz) /\ L \in Nat /\ from \in Nat /\ from < n
      /\ n \in Nat /\ n <= MaxSdu /\ from \in 0 .. n - 1 /\ k \in 0 .. c /\ 1 \in 1 .. MaxData
      /\ MaxData \in 1 .. MaxData
  <2>1. sz # <<>> /\ from < n /\ from \in Nat
    BY <1>1, LengthsAreNumbers DEF Ahead, SenderLoop
  <2>2. p \in Nat /\ p \in 1 .. Len(sz)
    BY <2>1, <1>1
  <2>3. n \in Nat /\ n <= MaxSdu
    BY <2>2, <1>1, SizeFacts
  <2> QED BY <2>1, <2>2, <2>3, <1>1, LengthsAreNumbers
<1>24. c \in Nat
  BY <1>2, FramesCounted
<1>3. /\ k \in Nat /\ k >= 1 /\ At(1) = from
      /\ \A i \in 1 .. k : At(i) \in from .. n - 1
      /\ \A i \in 1 .. k : At(i + 1) = At(i) + MaxData
      /\ \A i, j \in 1 .. k : i < j => At(i) + MaxData <= At(j)
      /\ k < c => At(k + 1) \in from .. n - 1
      /\ k = c => At(k) + MaxData >= n
      /\ At(k + 1) = from + k * MaxData
  BY <1>2, Places, SMTT(30)
<1>4. ASSUME NEW i \in 1 .. k
      PROVE  /\ At(i) \in from .. n - 1 /\ F(i) \in Frame /\ Live(F(i)) /\ Shaped(F(i), sz)
             /\ \A a \in 1 .. MaxData : F(i).data[a] = IF a <= n - At(i) THEN <<p, At(i) + a>> ELSE Idle
  <2>1. At(i) \in from .. n - 1 /\ At(i) \in 0 .. n - 1
    BY <1>2, <1>3, SMTT(30)
  <2> QED BY <2>1, <1>1, <1>2, PackedFrame
<1>5. /\ q2 \in Seq(Frame) /\ Len(q2) = L + k
      /\ \A i \in 1 .. L : q2[i] = q[i]
      /\ \A i \in 1 .. k : q2[L + i] = F(i)
  <2> DEFINE t == [i \in 1 .. k |-> F(i)]
  <2>1. Cuts(p, from, n, k) = t
    BY DEF Cuts, Place
  <2>2. t \in Seq(Frame) /\ Len(t) = k /\ \A i \in 1 .. k : t[i] = F(i)
    BY <1>3, <1>4
  <2> HIDE DEF t
  <2>3. q2 = q \o t
    BY <2>1
  <2> QED BY <2>2, <2>3, <1>1, <1>2
<1>6. /\ sn2 \in SenderLoop
      /\ k < c => sn2.loop = "OPEN" /\ sn2.done = At(k + 1) /\ At(k + 1) \in from .. n - 1
      /\ k = c => sn2.loop = "CLOSED"
      /\ k < c \/ k = c
  <2>1. k < c \/ k = c
    <3> HIDE DEF c
    <3> QED BY <1>2, <1>24
  <2>2. CASE k < c
    <3>1. At(k + 1) \in 0 .. MaxSdu
      BY <2>2, <1>2, <1>3, SMTT(30)
    <3> QED BY <2>2, <3>1, <1>3 DEF SenderLoop
  <2>3. CASE k = c
    BY <2>3, <1>2 DEF SenderLoop
  <2> QED BY <2>1, <2>2, <2>3
<1> HIDE DEF p, n, from, c, L, At, F, q2, sn2
<1>7. \A i \in 1 .. L + k : i \in 1 .. L \/ \E m \in 1 .. k : i = L + m
  <2> SUFFICES ASSUME NEW i \in 1 .. L + k, i \notin 1 .. L PROVE \E m \in 1 .. k : i = L + m
    OBVIOUS
  <2>1. i - L \in 1 .. k /\ i = L + (i - L)
    BY <1>2, <1>3
  <2> QED BY <2>1
(* The octets that join the row. *)
<1>8. ASSUME NEW i \in 1 .. k, NEW a \in 1 .. MaxData, F(i).data[a] # Idle
      PROVE  /\ F(i).data[a] = <<p, At(i) + a>> /\ At(i) + a <= n /\ At(i) + a > from
             /\ At(i) \in Nat /\ a \in Nat /\ At(i) + a <= At(k + 1)
             /\ F(i).data[a][1] = p /\ F(i).data[a][2] = At(i) + a
  <2>1. a <= n - At(i) /\ F(i).data[a] = <<p, At(i) + a>>
    BY <1>4, <1>8
  <2>2. At(i) \in from .. n - 1 /\ a \in Nat /\ a >= 1 /\ a <= MaxData /\ At(i) \in Nat
    BY <1>2, <1>3, SMTT(30)
  <2>3. At(i) + MaxData <= At(k + 1)
    <3>1. k \in 1 .. k /\ At(k + 1) = At(k) + MaxData /\ At(k) \in Nat
      BY <1>2, <1>3
    <3>2. CASE i = k
      BY <3>1, <3>2, <2>2, <1>2
    <3>3. CASE i < k
      <4>1. At(i) + MaxData <= At(k)
        BY <3>1, <3>3, <1>3
      <4> QED BY <4>1, <3>1, <2>2, <1>2
    <3> QED BY <3>2, <3>3, <1>3
  <2>4. At(k + 1) \in Nat
    BY <1>2, <1>3
  <2> QED BY <2>1, <2>2, <2>3, <2>4, <1>2, SMTT(30)
<1>9. ASSUME NEW o \in Row(q2)
      PROVE  /\ o[1] \in Nat /\ o[2] \in Nat
             /\ \/ o \in Row(q)
                \/ o[1] = p /\ o[2] > from /\ o[2] <= n /\ o[2] <= At(k + 1)
  <2>1. PICK i \in 1 .. L + k, a \in 1 .. MaxData : Live(q2[i]) /\ q2[i].data[a] = o /\ o # Idle
    BY <1>5, RowOctets
  <2>2. CASE i \in 1 .. L
    BY <2>1, <2>2, <1>1, <1>5, RowOctets, SMTT(30) DEF L
  <2>3. CASE \E m \in 1 .. k : i = L + m
    <3>1. PICK m \in 1 .. k : i = L + m
      BY <2>3
    <3>2. F(m).data[a] = o
      BY <2>1, <3>1, <1>5
    <3> QED BY <2>1, <3>2, <1>8, <1>5, RowOctets
  <2> QED BY <2>2, <2>3, <1>5, <1>7, RowOctets
<1>10. Row(q) \subseteq Row(q2)
  <2> SUFFICES ASSUME NEW o \in Row(q) PROVE o \in Row(q2)
    OBVIOUS
  <2>1. PICK i \in 1 .. L, a \in 1 .. MaxData : Live(q[i]) /\ q[i].data[a] = o /\ o # Idle
    BY <1>1, RowOctets DEF L
  <2>2. i \in 1 .. L + k /\ q2[i] = q[i]
    BY <1>2, <1>3, <1>5, SMTT(30)
  <2> QED BY <2>1, <2>2, <1>5, RowOctets
<1>11. /\ Coming(sz, sn)[1] = p /\ Coming(sz, sn)[2] = from + 1
       /\ Coming(sz, sn2)[1] \in Nat /\ Coming(sz, sn2)[2] \in Nat
       /\ k < c => Coming(sz, sn2)[1] = p /\ Coming(sz, sn2)[2] = At(k + 1) + 1
       /\ k = c => Coming(sz, sn2)[1] = p + 1 /\ Coming(sz, sn2)[2] = 1
  BY <1>1, <1>6, ComingIs DEF p, from
<1>12. ASSUME NEW o, o[1] \in Nat, o[2] \in Nat, Before(o, Coming(sz, sn))
       PROVE  /\ Before(o, Coming(sz, sn2))
              /\ \A u \in Row(q2) : u \in Row(q) \/ Before(o, u)
  <2>1. o[1] < p \/ (o[1] = p /\ o[2] < from + 1)
    BY <1>12, <1>11 DEF Before
  <2>2. Before(o, Coming(sz, sn2))
    <3>1. CASE k < c
      <4>1. At(k + 1) \in Nat /\ At(k + 1) >= from
        BY <3>1, <1>2, <1>3
      <4> QED BY <3>1, <4>1, <2>1, <1>11, <1>12, <1>2 DEF Before
    <3>2. CASE k = c
      BY <3>2, <2>1, <1>11, <1>12, <1>2 DEF Before
    <3> QED BY <3>1, <3>2, <1>6
  <2>3. ASSUME NEW u \in Row(q2), u \notin Row(q) PROVE Before(o, u)
    BY <2>1, <2>3, <1>9, <1>12, <1>2 DEF Before
  <2> QED BY <2>2, <2>3
<1>13. Frames(q2, sz, h)
  <2> SUFFICES ASSUME NEW i \in 1 .. L + k
               PROVE  IF Live(q2[i]) THEN Shaped(q2[i], sz) ELSE Swallowed(q2[i], sz, h)
    BY <1>5 DEF Frames
  <2>1. CASE i \in 1 .. L
    BY <2>1, <1>1, <1>5 DEF Frames, L
  <2>2. CASE \E m \in 1 .. k : i = L + m
    BY <2>2, <1>4, <1>5
  <2> QED BY <2>1, <2>2, <1>7
<1>14. Sorted(q2)
  <2> SUFFICES ASSUME NEW i \in 1 .. L + k, NEW j \in 1 .. L + k,
                      NEW a \in 1 .. MaxData, NEW b \in 1 .. MaxData,
                      i < j, Live(q2[i]), Live(q2[j]), q2[i].data[a] # Idle, q2[j].data[b] # Idle
               PROVE  Before(q2[i].data[a], q2[j].data[b])
    BY <1>5 DEF Sorted
  <2>1. CASE i \in 1 .. L /\ j \in 1 .. L
    <3>1. q2[i] = q[i] /\ q2[j] = q[j]
      BY <2>1, <1>5
    <3> QED BY <2>1, <3>1, <1>1 DEF Sorted, L
  <2>2. CASE i \in 1 .. L /\ \E m \in 1 .. k : j = L + m
    <3>1. PICK m \in 1 .. k : j = L + m
      BY <2>2
    <3>2. q2[i] = q[i] /\ q2[j] = F(m)
      BY <2>2, <3>1, <1>5
    <3> DEFINE o == q[i].data[a]
               u == F(m).data[b]
    <3>3. o \in Row(q) /\ o[1] \in Nat /\ o[2] \in Nat
      BY <2>2, <3>2, <1>1, RowOctets DEF L
    <3>4. Before(o, Coming(sz, sn))
      BY <3>3, <1>1 DEF Ahead
    <3>5. u[1] = p /\ u[2] > from /\ u[2] \in Nat
      BY <3>2, <1>8
    <3> HIDE DEF o, u
    <3>6. Before(o, u)
      BY <3>3, <3>4, <3>5, <1>2, <1>11 DEF Before
    <3> QED BY <3>2, <3>6 DEF o, u
  <2>3. CASE \E m \in 1 .. k : i = L + m
    <3>1. PICK m \in 1 .. k : i = L + m
      BY <2>3
    <3>2. j \notin 1 .. L
      BY <3>1, <1>2
    <3>3. PICK m2 \in 1 .. k : j = L + m2
      BY <3>2, <1>7
    <3>4. m < m2
      BY <3>1, <3>3, <1>2
    <3>5. q2[i] = F(m) /\ q2[j] = F(m2)
      BY <3>1, <3>3, <1>5
    <3>6. /\ F(m).data[a] = <<p, At(m) + a>> /\ F(m2).data[b] = <<p, At(m2) + b>>
          /\ At(m) \in Nat /\ At(m2) \in Nat /\ a \in Nat /\ b \in Nat
      BY <3>5, <1>8
    <3>7. At(m) + MaxData <= At(m2) /\ a <= MaxData /\ b >= 1
      BY <3>4, <1>2, <1>3
    <3>8. At(m) + a < At(m2) + b
      BY <3>6, <3>7, <1>2, SMTT(30)
    <3> QED BY <3>5, <3>6, <3>8 DEF Before
  <2> QED BY <2>1, <2>2, <2>3, <1>7
(* A packet that went on with the row or the sender still does. *)
<1>15. ASSUME NEW d, NEW m, NEW i \in 1 .. L + 1, GoesOn(q, sz, sn, d, m, i)
       PROVE  GoesOn(q2, sz, sn2, d, m, i)
  <2>1. CASE \E j \in 1 .. Len(q) : NextLive(q, i, j) /\ q[j].data[1] = <<d, m + 1>>
    <3>1. PICK j \in 1 .. L : NextLive(q, i, j) /\ q[j].data[1] = <<d, m + 1>>
      BY <2>1 DEF L
    <3>2. j \in i .. L /\ Live(q[j]) /\ \A e \in i .. j - 1 : ~ Live(q[e])
      BY <3>1 DEF NextLive, L
    <3>3. j \in 1 .. L + k /\ j \in i .. L + k
      BY <3>2, <1>2, <1>3
    <3>4. \A e \in i .. j - 1 : e \in 1 .. L
      BY <3>2, <1>2
    <3>5. NextLive(q2, i, j)
      BY <3>2, <3>3, <3>4, <1>5 DEF NextLive
    <3> QED BY <3>1, <3>3, <3>5, <1>5 DEF GoesOn
  <2>2. CASE NoneLive(q, i) /\ sn.loop = "OPEN" /\ d = Len(sz) /\ sn.done = m
    <3>1. L + 1 \in 1 .. L + k /\ L + 1 \in i .. L + k
      BY <1>2, <1>3
    <3>2. \A e \in i .. (L + 1) - 1 : e \in 1 .. L /\ e \in i .. L
      BY <1>2
    <3>3. Live(q2[L + 1]) /\ q2[L + 1].data[1] = <<p, At(1) + 1>>
      <4>1. 1 \in 1 .. k /\ 1 <= n - At(1)
        BY <1>2, <1>3
      <4>2. q2[L + 1] = F(1)
        BY <4>1, <1>5
      <4> QED BY <4>1, <4>2, <1>2, <1>4
    <3>4. NextLive(q2, i, L + 1)
      BY <3>1, <3>2, <3>3, <2>2, <1>5 DEF NextLive, NoneLive, L
    <3>5. At(1) = m /\ d = p
      BY <2>2, <1>3 DEF from, p
    <3> QED BY <3>1, <3>3, <3>4, <3>5, <1>5 DEF GoesOn
  <2> QED BY <1>15, <2>1, <2>2 DEF GoesOn
<1>16. Unbroken(q2, sz, sn2, h)
  <2> SUFFICES ASSUME NEW i \in 1 .. L + k, Live(q2[i]), q2[i].data[MaxData] # Idle,
                      q2[i].data[MaxData][1] \notin h, LeftOf(q2[i].data[MaxData], sz) > 0
               PROVE  GoesOn(q2, sz, sn2, q2[i].data[MaxData][1], q2[i].data[MaxData][2], i + 1)
    BY <1>5 DEF Unbroken
  <2>1. CASE i \in 1 .. L
    <3>1. q2[i] = q[i] /\ i + 1 \in 1 .. L + 1
      BY <2>1, <1>2, <1>5
    <3>2. GoesOn(q, sz, sn, q[i].data[MaxData][1], q[i].data[MaxData][2], i + 1)
      BY <2>1, <3>1, <1>1 DEF Unbroken, L
    <3> QED BY <3>1, <3>2, <1>15
  <2>2. CASE \E m \in 1 .. k : i = L + m
    <3>1. PICK m \in 1 .. k : i = L + m
      BY <2>2
    <3>2. q2[i] = F(m)
      BY <3>1, <1>5
    <3>3. /\ F(m).data[MaxData] = <<p, At(m) + MaxData>> /\ At(m) \in Nat
          /\ F(m).data[MaxData][1] = p /\ F(m).data[MaxData][2] = At(m) + MaxData
      BY <3>2, <1>2, <1>8
    <3>4. At(m) + MaxData < n
      BY <3>2, <3>3, <1>2, SMTT(30) DEF LeftOf, n
    <3>5. At(m + 1) = At(m) + MaxData
      BY <1>3
    <3>6. CASE m < k
      <4>1. m + 1 \in 1 .. k /\ 1 <= n - At(m + 1) /\ i + 1 = L + (m + 1)
        BY <3>1, <3>3, <3>4, <3>5, <3>6, <1>2, <1>3, SMTT(30)
      <4>2. q2[i + 1] = F(m + 1)
        BY <4>1, <1>5
      <4>3. Live(q2[i + 1]) /\ q2[i + 1].data[1] = <<p, At(m + 1) + 1>>
        BY <4>1, <4>2, <1>2, <1>4
      <4>4. i + 1 \in i + 1 .. L + k /\ i + 1 \in 1 .. L + k /\ (i + 1) .. (i + 1) - 1 = {}
        <5>1. i + 1 \in Nat /\ i + 1 <= L + k /\ L + k \in Nat
          BY <3>1, <3>6, <1>2, <1>3
        <5> QED BY <5>1
      <4>5. NextLive(q2, i + 1, i + 1)
        BY <4>3, <4>4, <1>5 DEF NextLive
      <4> QED BY <4>3, <4>4, <4>5, <3>2, <3>3, <3>5, <1>5 DEF GoesOn
    <3>7. CASE m = k
      <4>1. k # c
        BY <3>4, <3>7, <1>2, <1>3, <3>3
      <4>2. sn2.loop = "OPEN" /\ sn2.done = At(m) + MaxData
        BY <4>1, <3>5, <3>7, <1>6
      <4>3. NoneLive(q2, i + 1)
        <5>1. i + 1 .. L + k = {}
          BY <3>1, <3>7, <1>2, <1>3
        <5> QED BY <5>1, <1>5 DEF NoneLive
      <4> QED BY <4>2, <4>3, <3>2, <3>3 DEF GoesOn, p
    <3> QED BY <3>6, <3>7, <1>3
  <2> QED BY <2>1, <2>2, <1>7
<1>17. Ahead(q2, sz, sn2, rc, arr)
  <2>1. sn2.loop = "OPEN" => sz # <<>> /\ sn2.done < sz[Len(sz)]
    <3>1. sn2.loop = "OPEN" => k < c
      BY <1>6
    <3> QED BY <3>1, <1>1, <1>2, <1>6 DEF Ahead, n, p
  <2>2. ASSUME NEW o \in Row(q2) PROVE Before(o, Coming(sz, sn2))
    <3>1. CASE o \in Row(q)
      BY <3>1, <1>1, <1>9, <1>12 DEF Ahead
    <3>2. CASE o[1] = p /\ o[2] > from /\ o[2] <= n /\ o[2] <= At(k + 1)
      <4>1. At(k + 1) \in Nat /\ o[2] \in Nat
        BY <1>2, <1>3, <1>9
      <4> QED BY <3>2, <4>1, <1>2, <1>6, <1>11 DEF Before
    <3> QED BY <3>1, <3>2, <1>9
  <2>3. ASSUME rc.loop = "OPEN"
        PROVE  /\ rc.buf # <<>> /\ IsOctet(Opener(rc), sz) /\ Opener(rc)[2] = 1
               /\ Before(Opener(rc), Coming(sz, sn2))
               /\ \A o \in Row(q2) : Before(Opener(rc), o)
               /\ \A i \in 1 .. Len(arr) : arr[i] < Opener(rc)[1]
    <3>1. /\ rc.buf # <<>> /\ IsOctet(Opener(rc), sz) /\ Opener(rc)[2] = 1
          /\ Before(Opener(rc), Coming(sz, sn))
          /\ \A o \in Row(q) : Before(Opener(rc), o)
          /\ \A i \in 1 .. Len(arr) : arr[i] < Opener(rc)[1]
      BY <2>3, <1>1 DEF Ahead
    <3>2. Opener(rc)[1] \in Nat /\ Opener(rc)[2] \in Nat
      BY <3>1, <1>1, <1>2 DEF IsOctet
    <3> QED BY <3>1, <3>2, <1>12
  <2>4. ASSUME NEW i \in 1 .. Len(arr)
        PROVE  arr[i] < Coming(sz, sn2)[1] /\ \A o \in Row(q2) : arr[i] < o[1]
    <3>1. arr[i] \in Nat
      BY LengthsAreNumbers, SMTT(30) DEF RowTypes
    <3>2. arr[i] < p /\ \A o \in Row(q) : arr[i] < o[1]
      BY <1>1, <1>11 DEF Ahead
    <3>3. Coming(sz, sn2)[1] >= p
      BY <1>2, <1>6, <1>11
    <3> QED BY <3>1, <3>2, <3>3, <1>2, <1>9, <1>11
  <2> QED BY <2>1, <2>2, <2>3, <2>4 DEF Ahead
<1>18. Joining(q2, sz, sn2, h, rc, st)
  <2>1. 1 \in 1 .. L + 1
    BY <1>2
  <2> QED BY <2>1, <1>1, <1>15 DEF Joining
<1>19. Kept(q2, sz, sn2, h, rc, arr, st)
  <2> SUFFICES ASSUME NEW d \in 1 .. Len(sz), d \notin h, ~ (st /\ sz[d] = MaxSdu),
                      d \notin ToSet(arr), ~ (rc.loop = "OPEN" /\ Opener(rc)[1] = d)
               PROVE  <<d, 1>> \in Row(q2)
    BY DEF Kept
  <2>1. CASE <<d, 1>> \in Row(q)
    BY <2>1, <1>10
  <2>2. CASE d = Len(sz) /\ sn.done = 0
    <3>1. 1 \in 1 .. k /\ 1 <= n - At(1) /\ L + 1 \in 1 .. L + k
      BY <1>2, <1>3
    <3>2. F(1).data[1] = <<d, 1>> /\ Live(F(1))
      <4>1. F(1).data[1] = <<p, At(1) + 1>>
        BY <3>1, <1>2, <1>4
      <4>2. p = d /\ At(1) = 0
        BY <2>2, <1>3 DEF p, from
      <4> QED BY <3>1, <4>1, <4>2, <1>4
    <3>3. q2[L + 1] = F(1) /\ <<d, 1>> # Idle
      BY <3>1, <1>5, <1>2, <2>2 DEF Idle, p
    <3>4. L + 1 \in 1 .. Len(q2) /\ Live(q2[L + 1]) /\ q2[L + 1].data[1] = <<d, 1>>
      BY <3>1, <3>2, <3>3, <1>5
    <3>5. q2[L + 1].data[1] \in Row(q2)
      BY <3>3, <3>4, <1>2, <1>5, RowOctets
    <3> QED BY <3>4, <3>5
  <2> QED BY <2>1, <2>2, <1>1 DEF Kept
<1>20. Plain(q2, st)
  <2> SUFFICES ASSUME ~ st, NEW i \in 1 .. L + k, NEW a \in 1 .. MaxData,
                      Live(q2[i]), q2[i].data[a] # Idle
               PROVE  q2[i].data[a][1] = q2[i].data[1][1]
    BY <1>5 DEF Plain
  <2>1. CASE i \in 1 .. L
    BY <2>1, <1>1, <1>5 DEF Plain, L
  <2>2. CASE \E m \in 1 .. k : i = L + m
    <3>1. PICK m \in 1 .. k : i = L + m
      BY <2>2
    <3>2. q2[i] = F(m) /\ F(m).data[1] # Idle
      BY <3>1, <1>4, <1>5 DEF Shaped
    <3> QED BY <3>2, <1>2, <1>8
  <2> QED BY <2>1, <2>2, <1>7
<1>21. LastSound(q2, sz)
  <2>1. k \in 1 .. k /\ L + k \in 1 .. L + k
    BY <1>2, <1>3
  <2>2. Last(q2) = F(k) /\ F(k).data[1] # Idle /\ Live(F(k))
    BY <2>1, <1>4, <1>5 DEF Last, Shaped
  <2>3. HoldsLengths(F(k))
    <3> SUFFICES ASSUME NEW i \in 1 .. MaxData, F(k).data[i] # Idle, F(k).data[i][2] = 1
                 PROVE  i - 1 + LenAt <= MaxData
      BY DEF HoldsLengths
    <3>1. At(k) + i = 1 /\ At(k) \in Nat /\ i \in Nat
      BY <2>1, <1>8
    <3> QED BY <3>1, <1>2
  <2>4. EndsWhole(F(k), sz)
    BY <2>1, <2>2, <1>2, <1>8 DEF EndsWhole
  <2> QED BY <2>2, <2>3, <2>4 DEF LastSound
<1>22. RowTypes(q2, sz, sn2, rc, arr)
  BY <1>5, <1>6 DEF RowTypes
<1>23. OnRow(q2, sz, sn2, h, rc, arr, st)
  BY <1>13, <1>14, <1>16, <1>17, <1>18, <1>19, <1>20 DEF OnRow
<1> QED BY <1>5, <1>21, <1>22, <1>23 DEF q2, sn2, p, n, from, c, L

LEMMA PktsOfSub ==
    ASSUME NEW data \in Seq(Octet \cup {Idle}), NEW a \in 1 .. Len(data) + 1, NEW b \in 0 .. Len(data),
           NEW i \in a .. b, data[i] # Idle
    PROVE  data[i][1] \in PktsOf(SubSeq(data, a, b))
<1> DEFINE s == SubSeq(data, a, b)
<1>1. a \in Nat /\ b \in Nat /\ a >= 1 /\ b <= Len(data) /\ a <= b /\ i \in Nat
  OBVIOUS
<1>2. Len(s) = b - a + 1 /\ i - a + 1 \in 1 .. Len(s) /\ s[i - a + 1] = data[a + (i - a + 1) - 1]
  BY <1>1
<1>3. a + (i - a + 1) - 1 = i
  BY <1>1
<1>4. i - a + 1 \in DOMAIN s /\ s[i - a + 1] = data[i]
  <2>1. s \in Seq(Octet \cup {Idle})
    BY <1>1
  <2> HIDE DEF s
  <2> QED BY <1>2, <1>3, <2>1
<1> HIDE DEF s
<1>5. data[i] \in ToSet(s)
  BY <1>4 DEF ToSet
<1>6. data[i] \in ToSet(s) \ {Idle}
  BY <1>5
<1> QED BY <1>6 DEF PktsOf, s

(* The row with packet Len(sz) + 1, of length n, stuffed in behind octet r of its last frame. *)
StuffedIn(q, sz, h, rc, arr, n, r, from) ==
    LET p == Len(sz) + 1
        q2 == [q EXCEPT ![Len(q)] = Stuffed(@, r, p, n)]
        sz2 == Append(sz, n)
        h2 == h \cup WrittenOver(Last(q), r, p)
        sn2 == IF from < n THEN [loop |-> "OPEN", done |-> from] ELSE [loop |-> "CLOSED", done |-> 0]
    IN  /\ RowTypes(q2, sz2, sn2, rc, arr) /\ OnRow(q2, sz2, sn2, h2, rc, arr, TRUE)
        /\ Len(q2) = Len(q) /\ (from = n => LastSound(q2, sz2))

(***************************************************************************)
(* handle_pkt_stuffing: a new packet is begun behind the last octet of the *)
(* last frame, and what stood there is given up.                           *)
(***************************************************************************)
LEMMA StuffedOnRow ==
    ASSUME NEW q, NEW sz, NEW sn, NEW h, NEW rc, NEW arr, NEW n \in Sizes, NEW r \in 0 .. MaxData - 1,
           RowTypes(q, sz, sn, rc, arr), OnRow(q, sz, sn, h, rc, arr, TRUE), LastSound(q, sz),
           sn.loop = "CLOSED", Len(sz) < MaxPkts, q # <<>>,
           Live(Last(q)) => r >= 1 /\ Last(q).data[r] # Idle /\ LeftOf(Last(q).data[r], sz) = 0,
           ~ Live(Last(q)) => r = 0,
           NEW from, from = IF n <= MaxData - r THEN n ELSE MaxData - r
    PROVE  StuffedIn(q, sz, h, rc, arr, n, r, from)
<1> DEFINE p == Len(sz) + 1
           L == Len(q)
           g == Last(q)
           f == Stuffed(g, r, p, n)
           q2 == [q EXCEPT ![L] = Stuffed(@, r, p, n)]
           sz2 == Append(sz, n)
           h2 == h \cup WrittenOver(g, r, p)
           sn2 == IF from < n THEN [loop |-> "OPEN", done |-> from] ELSE [loop |-> "CLOSED", done |-> 0]
<1>1. /\ q \in Seq(Frame) /\ sz \in Seq(Sizes) /\ sn \in SenderLoop /\ Len(sz) <= MaxPkts
      /\ Frames(q, sz, h) /\ Sorted(q) /\ Unbroken(q, sz, sn, h)
      /\ Ahead(q, sz, sn, rc, arr) /\ Joining(q, sz, sn, h, rc, TRUE)
      /\ Kept(q, sz, sn, h, rc, arr, TRUE)
  BY DEF RowTypes, OnRow
<1>2. /\ MaxData \in Nat /\ MaxData >= 1 /\ LenAt <= MaxData /\ LenAt \in Nat /\ MaxSdu \in Nat
      /\ Len(sz) \in Nat /\ p \in Nat /\ p \in 1 .. MaxPkts /\ n \in Nat /\ n >= 1 /\ n >= LenAt /\ n <= MaxSdu
      /\ n \in 1 .. MaxSdu /\ r \in Nat /\ r < MaxData
      /\ 1 \in 1 .. MaxData /\ MaxData \in 1 .. MaxData /\ MaxPkts \in Nat
  BY <1>1, LengthsAreNumbers
<1>3. L \in Nat /\ L >= 1 /\ L \in 1 .. L /\ g = q[L] /\ g \in Frame
  BY <1>1 DEF Last
<1>4. /\ from \in Nat /\ from >= 1 /\ from <= n /\ from <= MaxData - r
      /\ from < n => from = MaxData - r
  BY <1>2
<1>5. /\ sz2 \in Seq(Sizes) /\ Len(sz2) = p /\ sz2[p] = n /\ Len(sz2) <= MaxPkts
      /\ \A k \in 1 .. Len(sz) : sz2[k] = sz[k] /\ k \in 1 .. Len(sz2)
  BY <1>1, <1>2, SizesGrow
<1>6. /\ f \in Frame /\ f.ptr = g.ptr
      /\ \A a \in 1 .. MaxData :
            f.data[a] = IF a <= r THEN g.data[a] ELSE IF a - r <= n THEN <<p, a - r>> ELSE Idle
  <2> HIDE DEF g, p, L
  <2>1. g \in Frame /\ r \in 0 .. MaxData - 1 /\ p \in 1 .. MaxPkts /\ n \in 1 .. MaxSdu
    BY <1>2, <1>3
  <2> QED BY <2>1, StuffedFrame, ZenonT(60)
<1>7. /\ q2 \in Seq(Frame) /\ Len(q2) = L /\ q2[L] = f
      /\ \A i \in 1 .. L : i # L => q2[i] = q[i]
  BY <1>1, <1>3, <1>6
<1>8. Live(g) => Shaped(g, sz) /\ Shaped(f, sz2) /\ f.data[1] = g.data[1]
  <2> SUFFICES ASSUME Live(g) PROVE Shaped(g, sz) /\ Shaped(f, sz2) /\ f.data[1] = g.data[1]
    OBVIOUS
  <2>1. Shaped(g, sz)
    BY <1>1, <1>3 DEF Frames
  <2>2. r \in 1 .. MaxData - 1 /\ g.data[r] # Idle /\ LeftOf(g.data[r], sz) = 0
    BY <1>2
  <2> QED BY <2>1, <2>2, <1>1, <1>3, StuffedShaped
<1>9. /\ \A a \in r + 1 .. MaxData : g.data[a] # Idle => g.data[a][1] \in h2
      /\ ~ Live(g) => p \in h2
      /\ h \subseteq h2
  <2>1. /\ g.data \in Seq(Octet \cup {Idle}) /\ Len(g.data) = MaxData
    BY <1>3, FrameFacts
  <2>2. r + 1 \in 1 .. MaxData + 1 /\ MaxData \in 0 .. MaxData
    BY <1>2
  <2>3. \A a \in r + 1 .. MaxData : g.data[a] # Idle => g.data[a][1] \in PktsOf(SubSeq(g.data, r + 1, MaxData))
    <3> HIDE DEF g
    <3> QED BY <2>1, <2>2, PktsOfSub
  <2>4. ~ Live(g) => p \in WrittenOver(g, r, p)
    BY DEF WrittenOver, Live
  <2> QED BY <2>3, <2>4 DEF WrittenOver
<1>10. /\ sn2 \in SenderLoop
       /\ from < n => sn2.loop = "OPEN" /\ sn2.done = from
       /\ from = n => sn2.loop = "CLOSED"
  <2>1. from \in 0 .. MaxSdu
    BY <1>2, <1>4
  <2> QED BY <2>1, <1>2, <1>4 DEF SenderLoop
<1>11. \A o : IsOctet(o, sz) => IsOctet(o, sz2) /\ LeftOf(o, sz2) = LeftOf(o, sz)
  BY <1>1, OctetGrows
<1>12. Live(f) <=> Live(g)
  BY <1>6 DEF Live
<1>13. Coming(sz, sn)[1] = p /\ Coming(sz, sn)[2] = 1 /\ Coming(sz, sn)[1] \in Nat /\ Coming(sz, sn)[2] \in Nat
  BY <1>1, <1>2, ComingIs
<1> HIDE DEF p, L, g, f, q2, sz2, h2, sn2
<1>14. /\ Coming(sz2, sn2)[1] \in Nat /\ Coming(sz2, sn2)[2] \in Nat
       /\ from < n => Coming(sz2, sn2)[1] = p /\ Coming(sz2, sn2)[2] = from + 1
       /\ from = n => Coming(sz2, sn2)[1] = p + 1 /\ Coming(sz2, sn2)[2] = 1
       /\ from < n \/ from = n
  BY <1>2, <1>4, <1>5, <1>10, ComingIs
(* The octets stuffed. *)
<1>15. ASSUME NEW a \in 1 .. MaxData, a > r, f.data[a] # Idle
       PROVE  /\ f.data[a] = <<p, a - r>> /\ a - r <= n /\ a - r \in Nat /\ a - r >= 1 /\ a - r <= from
              /\ f.data[a][1] = p /\ f.data[a][2] = a - r
  <2>1. a \in Nat /\ a <= MaxData /\ ~ (a <= r)
    BY <1>2, <1>15
  <2>2. f.data[a] = <<p, a - r>> /\ a - r <= n
    BY <2>1, <1>6, <1>15
  <2> QED BY <2>1, <2>2, <1>2, <1>4, <1>15
<1>16. ASSUME NEW o \in Row(q2)
       PROVE  /\ o[1] \in Nat /\ o[2] \in Nat
              /\ o \in Row(q) \/ (o[1] = p /\ o[2] <= from /\ o[2] >= 1)
  <2>1. PICK i \in 1 .. L, a \in 1 .. MaxData : Live(q2[i]) /\ q2[i].data[a] = o /\ o # Idle
    BY <1>7, RowOctets
  <2>2. CASE i # L
    BY <2>1, <2>2, <1>1, <1>7, RowOctets DEF L
  <2>3. CASE i = L /\ a <= r
    <3>1. f.data[a] = o /\ g.data[a] = o /\ Live(g)
      BY <2>1, <2>3, <1>6, <1>7, <1>12
    <3> QED BY <2>1, <2>3, <3>1, <1>1, <1>3, <1>7, RowOctets DEF L
  <2>4. CASE i = L /\ a > r
    <3>1. f.data[a] = o
      BY <2>1, <2>4, <1>7
    <3> QED BY <2>1, <2>4, <3>1, <1>7, <1>15, RowOctets
  <2> QED BY <2>2, <2>3, <2>4, <1>2
<1>17. ASSUME NEW o, o[1] \in Nat, o[2] \in Nat, Before(o, Coming(sz, sn))
       PROVE  /\ o[1] < p \/ (o[2] < 1 /\ o[1] = p)
              /\ Before(o, Coming(sz2, sn2))
              /\ \A u \in Row(q2) : u \in Row(q) \/ Before(o, u)
  <2>1. o[1] < p \/ (o[1] = p /\ o[2] < 1)
    BY <1>13, <1>17 DEF Before
  <2>2. Before(o, Coming(sz2, sn2))
    BY <2>1, <1>2, <1>4, <1>14, <1>17, SMTT(30) DEF Before
  <2>3. ASSUME NEW u \in Row(q2), u \notin Row(q) PROVE Before(o, u)
    BY <2>1, <2>3, <1>2, <1>16, <1>17 DEF Before
  <2> QED BY <2>1, <2>2, <2>3
<1>18. Frames(q2, sz2, h2)
  <2> SUFFICES ASSUME NEW i \in 1 .. L
               PROVE  IF Live(q2[i]) THEN Shaped(q2[i], sz2) ELSE Swallowed(q2[i], sz2, h2)
    BY <1>7 DEF Frames
  <2>1. q[i] \in Frame /\ IF Live(q[i]) THEN Shaped(q[i], sz) ELSE Swallowed(q[i], sz, h)
    BY <1>1 DEF Frames, L
  <2>2. CASE i # L /\ Live(q[i])
    BY <2>1, <2>2, <1>1, <1>7, ShapedGrows DEF sz2
  <2>3. CASE i # L /\ ~ Live(q[i])
    BY <2>1, <2>3, <1>7, <1>9, <1>11 DEF Swallowed
  <2>4. CASE i = L /\ Live(g)
    BY <2>4, <1>7, <1>8, <1>12
  <2>5. CASE i = L /\ ~ Live(g)
    <3>1. r = 0
      BY <2>5 DEF g
    <3>2. ASSUME NEW a \in 1 .. MaxData, f.data[a] # Idle
          PROVE  IsOctet(f.data[a], sz2) /\ f.data[a][1] \in h2
      <4>1. a > r
        BY <3>1
      <4>2. f.data[a][1] = p /\ f.data[a][2] \in 1 .. n
        BY <4>1, <3>2, <1>2, <1>15
      <4>3. p \in 1 .. Len(sz2)
        BY <1>2, <1>5
      <4> QED BY <4>2, <4>3, <2>5, <1>5, <1>9 DEF IsOctet
    <3> QED BY <3>2, <2>5, <1>7, <1>12 DEF Swallowed
  <2> QED BY <2>2, <2>3, <2>4, <2>5
<1>19. Sorted(q2)
  <2> SUFFICES ASSUME NEW i \in 1 .. L, NEW j \in 1 .. L,
                      NEW a \in 1 .. MaxData, NEW b \in 1 .. MaxData,
                      i < j, Live(q2[i]), Live(q2[j]), q2[i].data[a] # Idle, q2[j].data[b] # Idle
               PROVE  Before(q2[i].data[a], q2[j].data[b])
    BY <1>7 DEF Sorted
  <2>1. i # L /\ q2[i] = q[i]
    BY <1>3, <1>7
  <2>2. CASE j # L
    <3>1. q2[j] = q[j]
      BY <2>2, <1>7
    <3> QED BY <2>1, <3>1, <1>1 DEF Sorted, L
  <2>3. CASE j = L /\ b <= r
    <3>1. q2[j].data[b] = q[j].data[b] /\ Live(q[j])
      BY <2>3, <1>3, <1>6, <1>7, <1>12
    <3> QED BY <2>1, <3>1, <1>1 DEF Sorted, L
  <2>4. CASE j = L /\ b > r
    <3> DEFINE o == q[i].data[a]
               u == f.data[b]
    <3>1. o \in Row(q) /\ o[1] \in Nat /\ o[2] \in Nat
      BY <2>1, <1>1, RowOctets DEF L
    <3>2. Before(o, Coming(sz, sn))
      BY <3>1, <1>1 DEF Ahead
    <3>3. u # Idle /\ q2[j].data[b] = u
      BY <2>4, <1>7
    <3>4. u[1] = p /\ u[2] \in Nat /\ u[2] >= 1
      BY <3>3, <2>4, <1>15
    <3>5. o[1] < p \/ (o[2] < 1 /\ o[1] = p)
      <4> HIDE DEF o
      <4> QED BY <3>1, <3>2, <1>17
    <3>6. Before(o, u)
      <4> HIDE DEF o, u
      <4> QED BY <3>1, <3>4, <3>5, <1>2 DEF Before
    <3> QED BY <2>1, <3>3, <3>6
  <2> QED BY <2>2, <2>3, <2>4, <1>2
(* What went on with the row still does: a live frame keeps its first octet. *)
<1>20. ASSUME NEW d, NEW m, NEW i \in 1 .. L + 1, GoesOn(q, sz, sn, d, m, i)
       PROVE  GoesOn(q2, sz2, sn2, d, m, i)
  <2>1. PICK j \in 1 .. L : NextLive(q, i, j) /\ q[j].data[1] = <<d, m + 1>>
    BY <1>20 DEF GoesOn, L
  <2>2. j \in i .. L /\ Live(q[j]) /\ \A e \in i .. j - 1 : ~ Live(q[e])
    BY <2>1 DEF NextLive, L
  <2>3. \A e \in 1 .. L : Live(q2[e]) <=> Live(q[e])
    BY <1>3, <1>7, <1>12
  <2>4. q2[j].data[1] = q[j].data[1]
    BY <2>2, <1>3, <1>7, <1>8
  <2>5. \A e \in i .. j - 1 : e \in 1 .. L
    BY <2>2, <1>3
  <2>6. NextLive(q2, i, j)
    BY <2>2, <2>3, <2>5, <1>7 DEF NextLive
  <2> QED BY <2>1, <2>4, <2>6, <1>7 DEF GoesOn
<1>21. Unbroken(q2, sz2, sn2, h2)
  <2> SUFFICES ASSUME NEW i \in 1 .. L, Live(q2[i]), q2[i].data[MaxData] # Idle,
                      q2[i].data[MaxData][1] \notin h2, LeftOf(q2[i].data[MaxData], sz2) > 0
               PROVE  GoesOn(q2, sz2, sn2, q2[i].data[MaxData][1], q2[i].data[MaxData][2], i + 1)
    BY <1>7 DEF Unbroken
  <2>1. CASE i # L
    <3>1. q2[i] = q[i] /\ i + 1 \in 1 .. L + 1
      BY <2>1, <1>3, <1>7
    <3>2. IsOctet(q[i].data[MaxData], sz)
      BY <3>1, <1>1, <1>2 DEF Frames, Shaped, L
    <3>3. LeftOf(q[i].data[MaxData], sz) > 0 /\ q[i].data[MaxData][1] \notin h
      BY <3>1, <3>2, <1>9, <1>11
    <3>4. GoesOn(q, sz, sn, q[i].data[MaxData][1], q[i].data[MaxData][2], i + 1)
      BY <3>1, <3>3, <1>1 DEF Unbroken, L
    <3> QED BY <3>1, <3>4, <1>20
  <2>2. CASE i = L
    <3> DEFINE o == f.data[MaxData]
    <3>1. o # Idle /\ LeftOf(o, sz2) > 0 /\ q2[i] = f
      BY <2>2, <1>7
    <3>2. o[1] = p /\ o[2] = MaxData - r /\ MaxData - r <= n
      BY <3>1, <1>2, <1>15
    <3>3. LeftOf(o, sz2) = n - (MaxData - r)
      BY <3>2, <1>5 DEF LeftOf
    <3> HIDE DEF o
    <3>4. from = MaxData - r /\ from < n
      BY <3>1, <3>2, <3>3, <1>2
    <3>5. NoneLive(q2, i + 1)
      <4>1. i + 1 .. L = {}
        BY <2>2, <1>3
      <4> QED BY <4>1, <1>7 DEF NoneLive
    <3> QED BY <3>1, <3>2, <3>4, <3>5, <1>5, <1>10 DEF GoesOn, o
  <2> QED BY <2>1, <2>2
<1>22. Ahead(q2, sz2, sn2, rc, arr)
  <2>1. sn2.loop = "OPEN" => sz2 # <<>> /\ sn2.done < sz2[Len(sz2)]
    BY <1>2, <1>5, <1>10, <1>14
  <2>2. ASSUME NEW o \in Row(q2) PROVE Before(o, Coming(sz2, sn2))
    <3>1. CASE o \in Row(q)
      BY <3>1, <1>1, <1>16, <1>17 DEF Ahead
    <3>2. CASE o[1] = p /\ o[2] <= from /\ o[2] >= 1
      BY <3>2, <1>2, <1>4, <1>14, <1>16, SMTT(30) DEF Before
    <3> QED BY <3>1, <3>2, <1>16
  <2>3. ASSUME rc.loop = "OPEN"
        PROVE  /\ rc.buf # <<>> /\ IsOctet(Opener(rc), sz2) /\ Opener(rc)[2] = 1
               /\ Before(Opener(rc), Coming(sz2, sn2))
               /\ \A o \in Row(q2) : Before(Opener(rc), o)
               /\ \A i \in 1 .. Len(arr) : arr[i] < Opener(rc)[1]
    <3>1. /\ rc.buf # <<>> /\ IsOctet(Opener(rc), sz) /\ Opener(rc)[2] = 1
          /\ Before(Opener(rc), Coming(sz, sn))
          /\ \A o \in Row(q) : Before(Opener(rc), o)
          /\ \A i \in 1 .. Len(arr) : arr[i] < Opener(rc)[1]
      BY <2>3, <1>1 DEF Ahead
    <3>2. Opener(rc)[1] \in Nat /\ Opener(rc)[2] \in Nat
      BY <3>1, <1>2 DEF IsOctet
    <3> QED BY <3>1, <3>2, <1>11, <1>17
  <2>4. ASSUME NEW i \in 1 .. Len(arr)
        PROVE  arr[i] < Coming(sz2, sn2)[1] /\ \A o \in Row(q2) : arr[i] < o[1]
    <3>1. arr[i] \in Nat
      BY LengthsAreNumbers, SMTT(30) DEF RowTypes
    <3>2. arr[i] < p /\ \A o \in Row(q) : arr[i] < o[1]
      BY <1>1, <1>13 DEF Ahead
    <3>3. Coming(sz2, sn2)[1] >= p
      BY <1>2, <1>14
    <3> QED BY <3>1, <3>2, <3>3, <1>2, <1>14, <1>16
  <2> QED BY <2>1, <2>2, <2>3, <2>4 DEF Ahead
<1>23. Joining(q2, sz2, sn2, h2, rc, TRUE)
  <2> SUFFICES ASSUME rc.loop = "OPEN", Opener(rc)[1] \notin h2
               PROVE  LET k == Opener(rc)[1]
                      IN  /\ \A i \in 1 .. Len(rc.buf) : rc.buf[i] = <<k, i>>
                          /\ Len(rc.buf) < sz2[k] /\ (rc.exp = sz2[k] \/ rc.exp = 0)
                          /\ GoesOn(q2, sz2, sn2, k, Len(rc.buf), 1)
    BY DEF Joining
  <2>1. sz2[Opener(rc)[1]] = sz[Opener(rc)[1]]
    BY <1>1, <1>5 DEF Ahead, IsOctet
  <2>2. 1 \in 1 .. L + 1
    BY <1>3
  <2> QED BY <2>1, <2>2, <1>1, <1>9, <1>20 DEF Joining
<1>24. Kept(q2, sz2, sn2, h2, rc, arr, TRUE)
  <2> SUFFICES ASSUME NEW k \in 1 .. Len(sz2), k \notin h2, sz2[k] # MaxSdu,
                      k \notin ToSet(arr), ~ (rc.loop = "OPEN" /\ Opener(rc)[1] = k)
               PROVE  <<k, 1>> \in Row(q2)
    BY DEF Kept
  <2>0. <<k, 1>> # Idle
    BY DEF Idle
  <2>1. CASE k = p
    <3>1. Live(f) /\ r + 1 \in 1 .. MaxData /\ (r + 1) - r = 1 /\ 1 <= n /\ ~ (r + 1 <= r)
      BY <2>1, <1>2, <1>9, <1>12
    <3>2. f.data[r + 1] = <<k, 1>>
      BY <3>1, <2>1, <1>6
    <3>3. q2[L].data[r + 1] \in Row(q2)
      BY <3>1, <3>2, <2>0, <1>3, <1>7, RowOctets
    <3> QED BY <3>2, <3>3, <1>7
  <2>2. CASE k # p
    <3>1. k \in 1 .. Len(sz) /\ sz2[k] = sz[k]
      BY <2>2, <1>2, <1>5 DEF p
    <3>2. <<k, 1>> \in Row(q)
      BY <3>1, <1>1, <1>9 DEF Kept
    <3>3. PICK i \in 1 .. L, a \in 1 .. MaxData : Live(q[i]) /\ q[i].data[a] = <<k, 1>>
      BY <3>2, <1>1, RowOctets DEF L
    <3>4. CASE i # L
      <4>1. q2[i].data[a] \in Row(q2)
        BY <3>3, <3>4, <2>0, <1>7, RowOctets
      <4> QED BY <4>1, <3>3, <3>4, <1>7
    <3>5. CASE i = L /\ a <= r
      <4>1. f.data[a] = <<k, 1>> /\ Live(f)
        BY <3>3, <3>5, <1>3, <1>6, <1>12
      <4>2. q2[L].data[a] \in Row(q2)
        BY <4>1, <2>0, <1>3, <1>7, RowOctets
      <4> QED BY <4>1, <4>2, <1>7
    <3>6. CASE i = L /\ a > r
      <4>1. a \in r + 1 .. MaxData /\ g.data[a] = <<k, 1>>
        BY <3>3, <3>6, <1>2, <1>3
      <4>2. g.data[a][1] = k
        BY <4>1
      <4> QED BY <4>1, <4>2, <2>0, <1>9
    <3> QED BY <3>4, <3>5, <3>6, <1>2
  <2> QED BY <2>1, <2>2
<1>25. ASSUME from = n PROVE LastSound(q2, sz2)
  <2> SUFFICES ASSUME Live(f) PROVE HoldsLengths(f) /\ EndsWhole(f, sz2)
    <3>1. Last(q2) = f
      BY <1>3, <1>7 DEF Last
    <3> QED BY <3>1 DEF LastSound
  <2>1. HoldsLengths(g)
    BY <1>12 DEF LastSound, g
  <2>2. HoldsLengths(f)
    <3> SUFFICES ASSUME NEW i \in 1 .. MaxData, f.data[i] # Idle, f.data[i][2] = 1
                 PROVE  i - 1 + LenAt <= MaxData
      BY DEF HoldsLengths
    <3>1. CASE i <= r
      BY <3>1, <2>1, <1>6 DEF HoldsLengths
    <3>2. CASE i > r
      <4>1. i - r = 1
        BY <3>2, <1>15
      <4> QED BY <4>1, <1>2, <1>4, <1>25
    <3> QED BY <3>1, <3>2, <1>2
  <2>3. EndsWhole(f, sz2)
    <3> SUFFICES ASSUME f.data[MaxData] # Idle PROVE LeftOf(f.data[MaxData], sz2) <= 0
      <4>1. ASSUME LeftOf(f.data[MaxData], sz2) <= 0, LeftOf(f.data[MaxData], sz2) > 0,
                   LeftOf(f.data[MaxData], sz2) \in Int PROVE FALSE
        BY <4>1
      <4>2. f.data[MaxData] # Idle => LeftOf(f.data[MaxData], sz2) \in Int
        <5>1. f.data[MaxData] # Idle => f.data[MaxData][1] = p /\ f.data[MaxData][2] \in Nat
          BY <1>2, <1>15
        <5> QED BY <5>1, <1>2, <1>5 DEF LeftOf
      <4> QED BY <4>1, <4>2 DEF EndsWhole
    <3>1. f.data[MaxData][1] = p /\ f.data[MaxData][2] = MaxData - r
      BY <1>2, <1>15
    <3> QED BY <3>1, <1>2, <1>4, <1>5, <1>25 DEF LeftOf
  <2> QED BY <2>2, <2>3
<1>26. RowTypes(q2, sz2, sn2, rc, arr)
  BY <1>5, <1>7, <1>10 DEF RowTypes
<1>27. OnRow(q2, sz2, sn2, h2, rc, arr, TRUE)
  BY <1>18, <1>19, <1>21, <1>22, <1>23, <1>24 DEF OnRow, Plain
<1> QED BY <1>7, <1>25, <1>26, <1>27 DEF p, L, g, f, q2, sz2, h2, sn2, StuffedIn

(* osdlp_abort_segmentation: the packet is given up, and nothing more of it is to come. *)
LEMMA GivenUpOnRow ==
    ASSUME NEW q, NEW sz, NEW sn, NEW h, NEW rc, NEW arr, NEW st,
           RowTypes(q, sz, sn, rc, arr), OnRow(q, sz, sn, h, rc, arr, st), sn.loop = "OPEN"
    PROVE  LET sn2 == [loop |-> "CLOSED", done |-> 0]
               h2 == h \cup {Len(sz)}
           IN  RowTypes(q, sz, sn2, rc, arr) /\ OnRow(q, sz, sn2, h2, rc, arr, st)
<1> DEFINE sn2 == [loop |-> "CLOSED", done |-> 0]
           h2 == h \cup {Len(sz)}
<1>1. /\ q \in Seq(Frame) /\ sz \in Seq(Sizes) /\ sn \in SenderLoop
      /\ sn2 \in SenderLoop /\ sn2.loop = "CLOSED" /\ h \subseteq h2 /\ Len(sz) \in h2
      /\ Frames(q, sz, h) /\ Sorted(q) /\ Unbroken(q, sz, sn, h)
      /\ Ahead(q, sz, sn, rc, arr) /\ Joining(q, sz, sn, h, rc, st)
      /\ Kept(q, sz, sn, h, rc, arr, st) /\ Plain(q, st)
  BY LengthsAreNumbers DEF RowTypes, OnRow, SenderLoop
<1> HIDE DEF sn2, h2
<1>2. /\ Coming(sz, sn)[1] = Len(sz) /\ Coming(sz, sn)[2] = sn.done + 1 /\ sn.done \in Nat
      /\ Coming(sz, sn2)[1] = Len(sz) + 1 /\ Coming(sz, sn2)[2] = 1 /\ Len(sz) \in Nat
  BY <1>1, ComingIs, LengthsAreNumbers DEF SenderLoop
<1>3. ASSUME NEW o, o[1] \in Nat, Before(o, Coming(sz, sn)) PROVE Before(o, Coming(sz, sn2))
  BY <1>2, <1>3 DEF Before
<1>4. Frames(q, sz, h2)
  BY <1>1 DEF Frames, Swallowed
<1>5. \A d, m, i : d \notin h2 /\ GoesOn(q, sz, sn, d, m, i) => GoesOn(q, sz, sn2, d, m, i)
  BY <1>1 DEF GoesOn
<1>6. Unbroken(q, sz, sn2, h2)
  BY <1>1, <1>5 DEF Unbroken
<1>7. Ahead(q, sz, sn2, rc, arr)
  <2>1. \A o \in Row(q) : Before(o, Coming(sz, sn2))
    BY <1>1, <1>3, RowOctets DEF Ahead
  <2>2. rc.loop = "OPEN" => Before(Opener(rc), Coming(sz, sn2))
    <3>1. rc.loop = "OPEN" => Opener(rc)[1] \in Nat
      BY <1>1, <1>2 DEF Ahead, IsOctet
    <3> QED BY <3>1, <1>1, <1>3 DEF Ahead
  <2>3. ASSUME NEW i \in 1 .. Len(arr) PROVE arr[i] < Coming(sz, sn2)[1]
    <3>1. arr[i] \in Nat
      BY LengthsAreNumbers DEF RowTypes
    <3>2. arr[i] < Coming(sz, sn)[1]
      BY <1>1 DEF Ahead
    <3> QED BY <3>1, <3>2, <1>2
  <2> QED BY <2>1, <2>2, <2>3, <1>1 DEF Ahead
<1>8. Joining(q, sz, sn2, h2, rc, st)
  BY <1>1, <1>5 DEF Joining
<1>9. Kept(q, sz, sn2, h2, rc, arr, st)
  BY <1>1 DEF Kept
<1>10. RowTypes(q, sz, sn2, rc, arr)
  BY <1>1 DEF RowTypes
<1>11. OnRow(q, sz, sn2, h2, rc, arr, st)
  BY <1>1, <1>4, <1>6, <1>7, <1>8, <1>9 DEF OnRow
<1> QED BY <1>10, <1>11 DEF sn2, h2

(* A frame of nothing but idle data adds nothing to the row. *)
LEMMA IdleOnRow ==
    ASSUME NEW q, NEW sz, NEW sn, NEW h, NEW rc, NEW arr, NEW st,
           RowTypes(q, sz, sn, rc, arr), OnRow(q, sz, sn, h, rc, arr, st)
    PROVE  LET q2 == Append(q, Pack(Oid, <<>>))
           IN  /\ RowTypes(q2, sz, sn, rc, arr) /\ OnRow(q2, sz, sn, h, rc, arr, st)
               /\ LastSound(q2, sz) /\ Len(q2) = Len(q) + 1
<1> DEFINE fr == Pack(Oid, <<>>)
           q2 == Append(q, fr)
           L == Len(q)
<1>1. /\ q \in Seq(Frame) /\ sz \in Seq(Sizes) /\ sn \in SenderLoop
      /\ Frames(q, sz, h) /\ Sorted(q) /\ Unbroken(q, sz, sn, h)
      /\ Ahead(q, sz, sn, rc, arr) /\ Joining(q, sz, sn, h, rc, st)
      /\ Kept(q, sz, sn, h, rc, arr, st) /\ Plain(q, st)
      /\ MaxData \in Nat /\ L \in Nat
  BY LengthsAreNumbers DEF RowTypes, OnRow
<1>2. /\ fr \in Frame /\ ~ Live(fr) /\ \A a \in 1 .. MaxData : fr.data[a] = Idle
  <2>1. \A i \in 1 .. MaxData : ~ (i <= Len(<<>>))
    BY <1>1
  <2>2. fr = [ptr |-> Oid, data |-> [i \in 1 .. MaxData |-> Idle]]
    BY <2>1 DEF Pack
  <2> HIDE DEF fr
  <2>3. fr.ptr = Oid /\ fr.data = [i \in 1 .. MaxData |-> Idle]
    BY <2>2
  <2>4. fr \in Frame
    BY <2>2 DEF Frame
  <2> QED BY <2>3, <2>4 DEF Live
<1> HIDE DEF fr
<1>3. /\ q2 \in Seq(Frame) /\ Len(q2) = L + 1 /\ q2[L + 1] = fr
      /\ \A i \in 1 .. L : q2[i] = q[i] /\ i \in 1 .. L + 1
      /\ \A i \in 1 .. L + 1 : i \in 1 .. L \/ i = L + 1
  BY <1>1, <1>2
<1> HIDE DEF q2, L
<1>4. \A i \in 1 .. L + 1 : Live(q2[i]) => i \in 1 .. L /\ q2[i] = q[i] /\ Live(q[i])
  BY <1>2, <1>3
<1>5. Row(q2) = Row(q)
  BY <1>1, <1>3, <1>4 DEF Row, L
<1>6. Frames(q2, sz, h)
  BY <1>1, <1>2, <1>3 DEF Frames, Swallowed, L
<1>7. Sorted(q2)
  BY <1>1, <1>3, <1>4 DEF Sorted, L
<1>8. ASSUME NEW d, NEW m, NEW i \in 1 .. L + 1, GoesOn(q, sz, sn, d, m, i)
      PROVE  GoesOn(q2, sz, sn, d, m, i)
  <2>1. CASE \E j \in 1 .. Len(q) : NextLive(q, i, j) /\ q[j].data[1] = <<d, m + 1>>
    <3>1. PICK j \in 1 .. L : NextLive(q, i, j) /\ q[j].data[1] = <<d, m + 1>>
      BY <2>1 DEF L
    <3>2. j \in i .. L /\ Live(q[j]) /\ \A e \in i .. j - 1 : ~ Live(q[e])
      BY <3>1 DEF NextLive, L
    <3>3. j \in 1 .. L + 1 /\ j \in i .. L + 1
      BY <3>2, <1>1
    <3>4. \A e \in i .. j - 1 : e \in 1 .. L
      BY <3>2, <1>1
    <3>5. NextLive(q2, i, j)
      BY <3>2, <3>3, <3>4, <1>3 DEF NextLive
    <3> QED BY <3>1, <3>3, <3>5, <1>3 DEF GoesOn
  <2>2. CASE NoneLive(q, i) /\ sn.loop = "OPEN" /\ d = Len(sz) /\ sn.done = m
    <3>1. \A e \in i .. L + 1 : e = L + 1 \/ (e \in i .. L /\ e \in 1 .. L)
      BY <1>1
    <3>2. NoneLive(q2, i)
      BY <3>1, <2>2, <1>2, <1>3 DEF NoneLive, L
    <3> QED BY <3>2, <2>2 DEF GoesOn
  <2> QED BY <1>8, <2>1, <2>2 DEF GoesOn
<1>9. Unbroken(q2, sz, sn, h)
  <2> SUFFICES ASSUME NEW i \in 1 .. L + 1, Live(q2[i]), q2[i].data[MaxData] # Idle,
                      q2[i].data[MaxData][1] \notin h, LeftOf(q2[i].data[MaxData], sz) > 0
               PROVE  GoesOn(q2, sz, sn, q2[i].data[MaxData][1], q2[i].data[MaxData][2], i + 1)
    BY <1>3 DEF Unbroken
  <2>1. i \in 1 .. L /\ q2[i] = q[i] /\ i + 1 \in 1 .. L + 1
    BY <1>1, <1>4
  <2>2. GoesOn(q, sz, sn, q[i].data[MaxData][1], q[i].data[MaxData][2], i + 1)
    BY <2>1, <1>1 DEF Unbroken, L
  <2> QED BY <2>1, <2>2, <1>8
<1>10. Ahead(q2, sz, sn, rc, arr) /\ Kept(q2, sz, sn, h, rc, arr, st)
  BY <1>1, <1>5 DEF Ahead, Kept
<1>11. Joining(q2, sz, sn, h, rc, st)
  <2>1. 1 \in 1 .. L + 1
    BY <1>1
  <2> QED BY <2>1, <1>1, <1>8 DEF Joining
<1>12. Plain(q2, st)
  BY <1>1, <1>3, <1>4, ZenonT(60) DEF Plain, L
<1>13. LastSound(q2, sz)
  BY <1>2, <1>3 DEF LastSound, Last
<1>14. RowTypes(q2, sz, sn, rc, arr)
  BY <1>3 DEF RowTypes
<1>15. OnRow(q2, sz, sn, h, rc, arr, st)
  BY <1>6, <1>7, <1>9, <1>10, <1>11, <1>12 DEF OnRow
<1> QED BY <1>3, <1>13, <1>14, <1>15 DEF q2, fr, L

-----------------------------------------------------------------------------
(* The first frame leaves the row. *)

(* What is left of queue q, with packets h2 hurt now, and what the first frame was in it. *)
Rested(q, sz, sn, h, st, h2) ==
    LET q2 == Tail(q)
        fr == Head(q)
    IN  /\ fr \in Frame /\ q2 \in Seq(Frame) /\ Len(q2) = Len(q) - 1
        /\ IF Live(fr) THEN Shaped(fr, sz) ELSE Swallowed(fr, sz, h)
        /\ Frames(q2, sz, h2) /\ Sorted(q2) /\ Unbroken(q2, sz, sn, h2) /\ Plain(q2, st)
        /\ Row(q2) \subseteq Row(q)
        /\ \A o \in Row(q) : o \in Row(q2) \/ (Live(fr) /\ \E a \in 1 .. MaxData : fr.data[a] = o)
        /\ \A a \in 1 .. MaxData : Live(fr) /\ fr.data[a] # Idle =>
              fr.data[a] \in Row(q) /\ \A o \in Row(q2) : Before(fr.data[a], o)
        /\ \A d, m : GoesOn(q, sz, sn, d, m, 1) =>
              IF Live(fr) THEN fr.data[1] = <<d, m + 1>> ELSE GoesOn(q2, sz, sn, d, m, 1)
        /\ LastSound(q, sz) => LastSound(q2, sz)
        /\ Live(fr) /\ fr.data[MaxData] # Idle /\ fr.data[MaxData][1] \notin h
              /\ LeftOf(fr.data[MaxData], sz) > 0 =>
              GoesOn(q2, sz, sn, fr.data[MaxData][1], fr.data[MaxData][2], 1)

LEMMA RestOfRow ==
    ASSUME NEW q, NEW sz, NEW sn, NEW h, NEW rc, NEW arr, NEW st, NEW h2, h \subseteq h2,
           RowTypes(q, sz, sn, rc, arr), OnRow(q, sz, sn, h, rc, arr, st), q # <<>>
    PROVE  Rested(q, sz, sn, h, st, h2)
<1> DEFINE q2 == Tail(q)
           fr == Head(q)
           L == Len(q)
<1>1. /\ q \in Seq(Frame) /\ sz \in Seq(Sizes) /\ sn \in SenderLoop
      /\ Frames(q, sz, h) /\ Sorted(q) /\ Unbroken(q, sz, sn, h) /\ Plain(q, st)
      /\ MaxData \in Nat /\ MaxData \in 1 .. MaxData /\ L \in Nat /\ L >= 1 /\ 1 \in 1 .. L
  BY LengthsAreNumbers DEF RowTypes, OnRow
<1>2. /\ fr = q[1] /\ fr \in Frame /\ q2 \in Seq(Frame) /\ Len(q2) = L - 1
      /\ \A i \in 1 .. L - 1 : q2[i] = q[i + 1] /\ i + 1 \in 1 .. L
      /\ \A i \in 1 .. L : i = 1 \/ (i - 1 \in 1 .. L - 1 /\ (i - 1) + 1 = i /\ q2[i - 1] = q[i])
  <2>1. fr = q[1] /\ fr \in Frame /\ q2 \in Seq(Frame) /\ Len(q2) = L - 1
    BY <1>1
  <2>2. \A i \in 1 .. L - 1 : q2[i] = q[i + 1]
    BY <1>1
  <2> HIDE DEF q2, fr
  <2>3. ASSUME NEW i \in 1 .. L, i # 1 PROVE i - 1 \in 1 .. L - 1 /\ (i - 1) + 1 = i /\ q2[i - 1] = q[i]
    <3>1. i - 1 \in 1 .. L - 1 /\ (i - 1) + 1 = i
      BY <1>1, <2>3
    <3> QED BY <3>1, <2>2
  <2> QED BY <2>1, <2>2, <2>3, <1>1
<1> HIDE DEF q2, fr, L
<1>3. IF Live(fr) THEN Shaped(fr, sz) ELSE Swallowed(fr, sz, h)
  BY <1>1, <1>2 DEF Frames, L
<1>4. Frames(q2, sz, h2)
  <2> SUFFICES ASSUME NEW i \in 1 .. L - 1
               PROVE  IF Live(q2[i]) THEN Shaped(q2[i], sz) ELSE Swallowed(q2[i], sz, h2)
    BY <1>2 DEF Frames
  <2>1. q2[i] = q[i + 1] /\ i + 1 \in 1 .. Len(q)
    BY <1>2 DEF L
  <2>2. IF Live(q2[i]) THEN Shaped(q2[i], sz) ELSE Swallowed(q2[i], sz, h)
    BY <2>1, <1>1 DEF Frames
  <2> QED BY <2>2 DEF Swallowed
<1>5. Sorted(q2)
  <2> SUFFICES ASSUME NEW i \in 1 .. L - 1, NEW j \in 1 .. L - 1,
                      NEW a \in 1 .. MaxData, NEW b \in 1 .. MaxData,
                      i < j, Live(q2[i]), Live(q2[j]), q2[i].data[a] # Idle, q2[j].data[b] # Idle
               PROVE  Before(q2[i].data[a], q2[j].data[b])
    BY <1>2 DEF Sorted
  <2>1. i + 1 < j + 1 /\ i + 1 \in 1 .. Len(q) /\ j + 1 \in 1 .. Len(q) /\ q2[i] = q[i + 1] /\ q2[j] = q[j + 1]
    BY <1>1, <1>2 DEF L
  <2> QED BY <2>1, <1>1 DEF Sorted
<1>6. Plain(q2, st)
  <2> SUFFICES ASSUME ~ st, NEW i \in 1 .. L - 1, NEW a \in 1 .. MaxData,
                      Live(q2[i]), q2[i].data[a] # Idle
               PROVE  q2[i].data[a][1] = q2[i].data[1][1]
    BY <1>2 DEF Plain
  <2>1. q2[i] = q[i + 1] /\ i + 1 \in 1 .. Len(q)
    BY <1>2 DEF L
  <2> QED BY <2>1, <1>1 DEF Plain
<1>7. ASSUME NEW o \in Row(q2) PROVE o \in Row(q)
  <2>1. PICK i \in 1 .. L - 1, a \in 1 .. MaxData : Live(q2[i]) /\ q2[i].data[a] = o /\ o # Idle
    BY <1>2, RowOctets
  <2>2. i + 1 \in 1 .. Len(q) /\ q2[i] = q[i + 1]
    BY <1>2 DEF L
  <2> QED BY <2>1, <2>2, <1>1, RowOctets
<1>8. ASSUME NEW o \in Row(q)
      PROVE  o \in Row(q2) \/ (Live(fr) /\ \E a \in 1 .. MaxData : fr.data[a] = o)
  <2>1. PICK i \in 1 .. L, a \in 1 .. MaxData : Live(q[i]) /\ q[i].data[a] = o /\ o # Idle
    BY <1>1, RowOctets DEF L
  <2>2. CASE i = 1
    BY <2>1, <2>2, <1>2
  <2>3. CASE i # 1
    <3>1. i - 1 \in 1 .. Len(q2) /\ q2[i - 1] = q[i]
      BY <2>3, <1>2
    <3> QED BY <2>1, <3>1, <1>2, RowOctets
  <2> QED BY <2>2, <2>3
<1>9. ASSUME NEW a \in 1 .. MaxData, Live(fr), fr.data[a] # Idle
      PROVE  fr.data[a] \in Row(q) /\ \A o \in Row(q2) : Before(fr.data[a], o)
  <2>1. fr.data[a] \in Row(q)
    BY <1>1, <1>2, <1>9, RowOctets DEF L
  <2>2. ASSUME NEW o \in Row(q2) PROVE Before(fr.data[a], o)
    <3>1. PICK i \in 1 .. L - 1, b \in 1 .. MaxData : Live(q2[i]) /\ q2[i].data[b] = o /\ o # Idle
      BY <1>2, RowOctets
    <3>2. i + 1 \in 1 .. Len(q) /\ 1 \in 1 .. Len(q) /\ 1 < i + 1 /\ q2[i] = q[i + 1]
      BY <1>1, <1>2 DEF L
    <3> QED BY <3>1, <3>2, <1>1, <1>2, <1>9 DEF Sorted
  <2> QED BY <2>1, <2>2
<1>10. ASSUME NEW d, NEW m, NEW i \in 1 .. L, GoesOn(q, sz, sn, d, m, i + 1)
       PROVE  GoesOn(q2, sz, sn, d, m, i)
  <2>1. CASE \E j \in 1 .. Len(q) : NextLive(q, i + 1, j) /\ q[j].data[1] = <<d, m + 1>>
    <3>1. PICK j \in 1 .. L : NextLive(q, i + 1, j) /\ q[j].data[1] = <<d, m + 1>>
      BY <2>1 DEF L
    <3>2. j \in i + 1 .. L /\ Live(q[j]) /\ \A e \in i + 1 .. j - 1 : ~ Live(q[e])
      BY <3>1 DEF NextLive, L
    <3>3. j - 1 \in 1 .. L - 1 /\ j - 1 \in i .. L - 1 /\ j # 1
      BY <3>2, <1>1
    <3>4. q2[j - 1] = q[j]
      BY <3>3, <1>2
    <3>5. ASSUME NEW e \in i .. (j - 1) - 1 PROVE ~ Live(q2[e])
      <4>1. e + 1 \in i + 1 .. j - 1 /\ e \in 1 .. L - 1
        BY <3>3, <1>1
      <4> QED BY <4>1, <3>2, <1>2
    <3>6. NextLive(q2, i, j - 1)
      BY <3>2, <3>3, <3>4, <3>5, <1>2 DEF NextLive
    <3> QED BY <3>1, <3>3, <3>4, <3>6, <1>2 DEF GoesOn
  <2>2. CASE NoneLive(q, i + 1) /\ sn.loop = "OPEN" /\ d = Len(sz) /\ sn.done = m
    <3>1. ASSUME NEW e \in i .. L - 1 PROVE ~ Live(q2[e])
      <4>1. e + 1 \in i + 1 .. L /\ e \in 1 .. L - 1
        BY <1>1
      <4> QED BY <4>1, <2>2, <1>2 DEF NoneLive, L
    <3>2. NoneLive(q2, i)
      BY <3>1, <1>2 DEF NoneLive
    <3> QED BY <3>2, <2>2 DEF GoesOn
  <2> QED BY <1>10, <2>1, <2>2 DEF GoesOn
<1>11. \A d, m : GoesOn(q, sz, sn, d, m, 2) => GoesOn(q2, sz, sn, d, m, 1)
  <2>1. 1 + 1 = 2
    OBVIOUS
  <2> QED BY <2>1, <1>1, <1>10
<1>12. ASSUME NEW d, NEW m, GoesOn(q, sz, sn, d, m, 1)
       PROVE  IF Live(fr) THEN fr.data[1] = <<d, m + 1>> ELSE GoesOn(q2, sz, sn, d, m, 1)
  <2>1. CASE \E j \in 1 .. Len(q) : NextLive(q, 1, j) /\ q[j].data[1] = <<d, m + 1>>
    <3>1. PICK j \in 1 .. L : NextLive(q, 1, j) /\ q[j].data[1] = <<d, m + 1>>
      BY <2>1 DEF L
    <3>2. j \in 1 .. L /\ Live(q[j]) /\ \A e \in 1 .. j - 1 : ~ Live(q[e])
      BY <3>1 DEF NextLive, L
    <3>3. CASE j = 1
      BY <3>1, <3>2, <3>3, <1>2
    <3>4. CASE j # 1
      <4>1. 1 \in 1 .. j - 1 /\ j \in 2 .. L /\ \A e \in 2 .. j - 1 : e \in 1 .. j - 1
        BY <3>4, <1>1
      <4>2. ~ Live(fr)
        BY <4>1, <3>2, <1>2
      <4>3. NextLive(q, 2, j)
        BY <4>1, <3>2 DEF NextLive, L
      <4>4. GoesOn(q, sz, sn, d, m, 2)
        BY <4>3, <3>1 DEF GoesOn, L
      <4> QED BY <4>2, <4>4, <1>11
    <3> QED BY <3>3, <3>4
  <2>2. CASE NoneLive(q, 1) /\ sn.loop = "OPEN" /\ d = Len(sz) /\ sn.done = m
    <3>1. ~ Live(fr)
      BY <2>2, <1>1, <1>2 DEF NoneLive, L
    <3>2. \A e \in 2 .. Len(q) : e \in 1 .. Len(q)
      BY <1>1 DEF L
    <3>3. NoneLive(q, 2)
      BY <3>2, <2>2 DEF NoneLive
    <3>4. GoesOn(q, sz, sn, d, m, 2)
      BY <3>3, <2>2 DEF GoesOn
    <3> QED BY <3>1, <3>4, <1>11
  <2> QED BY <1>12, <2>1, <2>2 DEF GoesOn
<1>13. Unbroken(q2, sz, sn, h2)
  <2> SUFFICES ASSUME NEW i \in 1 .. L - 1, Live(q2[i]), q2[i].data[MaxData] # Idle,
                      q2[i].data[MaxData][1] \notin h2, LeftOf(q2[i].data[MaxData], sz) > 0
               PROVE  GoesOn(q2, sz, sn, q2[i].data[MaxData][1], q2[i].data[MaxData][2], i + 1)
    BY <1>2 DEF Unbroken
  <2>1. q2[i] = q[i + 1] /\ i + 1 \in 1 .. L
    BY <1>2
  <2>2. GoesOn(q, sz, sn, q2[i].data[MaxData][1], q2[i].data[MaxData][2], (i + 1) + 1)
    BY <2>1, <1>1 DEF Unbroken, L
  <2> QED BY <2>1, <2>2, <1>10
<1>14. LastSound(q, sz) => LastSound(q2, sz)
  <2>1. q2 # <<>> => Last(q2) = Last(q)
    <3> SUFFICES ASSUME q2 # <<>> PROVE Last(q2) = Last(q)
      OBVIOUS
    <3>1. L - 1 \in 1 .. L - 1
      BY <1>1, <1>2
    <3>2. q2[L - 1] = q[(L - 1) + 1] /\ (L - 1) + 1 = L
      BY <3>1, <1>1, <1>2
    <3> QED BY <3>2, <1>2 DEF Last, L
  <2> QED BY <2>1, <1>1 DEF LastSound, L
<1>15. Live(fr) /\ fr.data[MaxData] # Idle /\ fr.data[MaxData][1] \notin h
         /\ LeftOf(fr.data[MaxData], sz) > 0 =>
         GoesOn(q2, sz, sn, fr.data[MaxData][1], fr.data[MaxData][2], 1)
  <2>1. 1 + 1 = 2
    OBVIOUS
  <2> QED BY <2>1, <1>1, <1>2, <1>11 DEF Unbroken, L
<1> QED BY <1>2, <1>3, <1>4, <1>5, <1>6, <1>7, <1>8, <1>9, <1>11, <1>12, <1>13, <1>14, <1>15 DEF Rested, q2, fr, L

-----------------------------------------------------------------------------
(* The loop over the packets of a frame. *)

LEMMA TwoSequences ==
    ASSUME NEW S, NEW s \in Seq(S), NEW t \in Seq(S)
    PROVE  LET u == s \o t
           IN  /\ u \in Seq(S) /\ Len(u) = Len(s) + Len(t) /\ Len(s) \in Nat /\ Len(t) \in Nat
               /\ \A i \in 1 .. Len(s) : u[i] = s[i] /\ i \in 1 .. Len(u)
               /\ \A i \in 1 .. Len(t) : u[Len(s) + i] = t[i] /\ Len(s) + i \in 1 .. Len(u)
               /\ \A i \in 1 .. Len(u) : i \in 1 .. Len(s) \/ \E j \in 1 .. Len(t) : i = Len(s) + j
<1> DEFINE u == s \o t
<1>1. u \in Seq(S) /\ Len(u) = Len(s) + Len(t) /\ Len(s) \in Nat /\ Len(t) \in Nat
  OBVIOUS
<1>2. ASSUME NEW i \in 1 .. Len(s) PROVE u[i] = s[i] /\ i \in 1 .. Len(u)
  OBVIOUS
<1>3. ASSUME NEW i \in 1 .. Len(t) PROVE u[Len(s) + i] = t[i] /\ Len(s) + i \in 1 .. Len(u)
  OBVIOUS
<1>4. ASSUME NEW i \in 1 .. Len(u), i \notin 1 .. Len(s) PROVE \E j \in 1 .. Len(t) : i = Len(s) + j
  <2>1. i - Len(s) \in 1 .. Len(t) /\ i = Len(s) + (i - Len(s))
    BY <1>1, <1>4
  <2> QED BY <2>1
<1> QED BY <1>1, <1>2, <1>3, <1>4

LEMMA SubSeqAt ==
    ASSUME NEW S, NEW s \in Seq(S), NEW a \in Nat, NEW b \in Nat, a + b <= Len(s)
    PROVE  LET t == SubSeq(s, a + 1, a + b)
           IN  t \in Seq(S) /\ Len(t) = b /\ \A k \in 1 .. b : t[k] = s[a + k]
<1> DEFINE t == SubSeq(s, a + 1, a + b)
<1>1. Len(s) \in Nat
  OBVIOUS
<1>2. Len(t) = b /\ t \in Seq(S)
  BY <1>1
<1>3. ASSUME NEW k \in 1 .. b PROVE t[k] = s[a + k]
  <2>1. t[k] = s[(a + 1) + k - 1]
    BY <1>1
  <2>2. (a + 1) + k - 1 = a + k
    OBVIOUS
  <2> QED BY <2>1, <2>2
<1> QED BY <1>2, <1>3

(* What the receiver makes of the position of a frame where a packet ends. *)
LEMMA WholeAt ==
    ASSUME size \in Seq(Sizes), NEW fr \in Frame, Shaped(fr, size), NEW x, Border(fr.data, x)
    PROVE  LET p == fr.data[x + 1][1]
           IN  /\ x \in 0 .. MaxData
               /\ WholeThere(fr.data, x) =>
                     /\ x \in Begins(fr.data) /\ LenThere(fr.data, x) = size[p]
                     /\ x + size[p] <= MaxData
                     /\ Border(fr.data, x + size[p])
                     /\ SubSeq(fr.data, x + 1, x + size[p]) = WholePkt(p)
               /\ ~ WholeThere(fr.data, x) =>
                     \/ x = MaxData \/ (x < MaxData /\ fr.data[x + 1] = Idle)
                     \/ /\ x \in Begins(fr.data) /\ x + size[p] > MaxData
                        /\ LenThere(fr.data, x) \in {0, size[p]}
<1> DEFINE p == fr.data[x + 1][1]
           rest == RestFromOctet(fr.data, x)
<1>1. /\ MaxData \in Nat /\ LenAt \in Nat /\ LenAt >= 1 /\ LenAt <= MaxData /\ MaxSdu \in Nat
      /\ x \in 0 .. MaxData /\ x \in Nat /\ x <= MaxData
  BY LengthsAreNumbers DEF Border
<1>2. CASE x = MaxData \/ (x < MaxData /\ fr.data[x + 1] = Idle)
  <2>1. ~ WholeThere(fr.data, x)
    BY <1>1, <1>2 DEF WholeThere
  <2> QED BY <2>1, <1>1, <1>2
<1>3. CASE x < MaxData /\ fr.data[x + 1] # Idle
  <2>1. x \in Begins(fr.data)
    BY <1>1, <1>3 DEF Begins, Border
  <2>2. /\ p \in 1 .. Len(size) /\ fr.data[x + 1] = <<p, 1>>
        /\ size[p] \in Nat /\ size[p] >= LenAt /\ size[p] >= 1
        /\ \A k \in 1 .. size[p] : x + k <= MaxData => fr.data[x + k] = <<p, k>>
        /\ x + size[p] <= MaxData => Border(fr.data, x + size[p])
    BY <2>1, PacketAt
  <2>3. fr.data \in Seq(Octet \cup {Idle}) /\ Len(fr.data) = MaxData
    BY FrameFacts
  <2> HIDE DEF p
  <2> DEFINE n == size[p]
             data == fr.data
  <2>4. rest \in Seq(Octet \cup {Idle}) /\ Len(rest) = MaxData - x /\ \A k \in 1 .. MaxData - x : rest[k] = data[x + k]
    <3> HIDE DEF data
    <3>1. data \in Seq(Octet \cup {Idle}) /\ Len(data) = MaxData
      BY <2>3 DEF data
    <3>2. rest = SubSeq(data, x + 1, MaxData)
      BY DEF RestFromOctet, data
    <3>3. x + 1 \in 1 .. MaxData + 1
      BY <1>1
    <3>4. rest \in Seq(Octet \cup {Idle}) /\ Len(rest) = MaxData - (x + 1) + 1
      BY <3>1, <3>2, <3>3, <1>1
    <3>5. ASSUME NEW k \in 1 .. MaxData - x PROVE rest[k] = data[x + k]
      <4>1. k \in 1 .. MaxData - (x + 1) + 1 /\ (x + 1) + k - 1 = x + k
        BY <1>1
      <4> QED BY <4>1, <3>1, <3>2, <3>3, <1>1
    <3> QED BY <3>4, <3>5, <1>1
  <2> HIDE DEF rest, n, data
  <2>5. n \in Nat /\ n >= LenAt /\ n >= 1
    BY <2>2 DEF n
  <2>6. CASE MaxData - x < LenAt
    <3>1. LenThere(data, x) = 0
      BY <2>4, <2>6 DEF LenThere, PacketLen, rest, data
    <3>2. ~ WholeThere(data, x)
      BY <3>1, <1>1 DEF WholeThere
    <3>3. x + n > MaxData
      BY <2>5, <2>6, <1>1
    <3> QED BY <3>1, <3>2, <3>3, <2>1, <1>1 DEF n, data, p
  <2>7. CASE MaxData - x >= LenAt
    <3>1. \A k \in 1 .. LenAt : rest[k] = <<p, k>>
      <4> TAKE k \in 1 .. LenAt
      <4>1. k \in 1 .. MaxData - x /\ k \in 1 .. n /\ x + k <= MaxData
        BY <2>5, <2>7, <1>1
      <4> QED BY <4>1, <2>2, <2>4 DEF n, data
    <3>2. rest[1][1] = p
      <4>1. 1 \in 1 .. LenAt
        BY <1>1
      <4> QED BY <4>1, <3>1
    <3>3. LenThere(data, x) = n
      <4>1. ~ (Len(rest) < LenAt)
        BY <2>4, <2>7, <1>1
      <4> QED BY <4>1, <3>1, <3>2 DEF LenThere, PacketLen, rest, n, data
    <3>4. WholeThere(data, x) <=> x + n <= MaxData
      <4>1. n \in 1 .. MaxData - x <=> x + n <= MaxData
        BY <2>5, <1>1
      <4> QED BY <4>1, <3>3, <1>3 DEF WholeThere, data
    <3>5. ASSUME x + n <= MaxData PROVE SubSeq(data, x + 1, x + n) = WholePkt(p)
      <4> DEFINE s == SubSeq(data, x + 1, x + n)
                 w == WholePkt(p)
      <4>1. data \in Seq(Octet \cup {Idle}) /\ Len(data) = MaxData
        BY <2>3 DEF data
      <4>3. s \in Seq(Octet \cup {Idle}) /\ Len(s) = n /\ \A k \in 1 .. n : s[k] = data[x + k]
        <5>1. x \in Nat /\ n \in Nat /\ x + n <= Len(data)
          BY <4>1, <3>5, <2>5, <1>1
        <5> HIDE DEF data, n
        <5> QED BY <4>1, <5>1, SubSeqAt, ZenonT(60)
      <4>4. w = [k \in 1 .. n |-> <<p, k>>]
        BY DEF WholePkt, n
      <4>5. ASSUME NEW k \in 1 .. n PROVE s[k] = w[k]
        <5>1. x + k <= MaxData
          BY <3>5, <2>5, <1>1
        <5> QED BY <5>1, <4>3, <4>4, <2>2 DEF n, data
      <4>6. s = [k \in 1 .. n |-> s[k]]
        <5> HIDE DEF s
        <5> QED BY <4>3
      <4> HIDE DEF s, w
      <4>7. s = w
        BY <4>4, <4>5, <4>6
      <4> QED BY <4>7 DEF s, w
    <3>6. x + n <= MaxData \/ x + n > MaxData
      BY <2>5, <1>1
    <3> QED BY <3>3, <3>4, <3>5, <3>6, <2>1, <2>2, <1>1 DEF n, data, p
  <2> QED BY <2>6, <2>7, <1>1
<1> QED BY <1>1, <1>2, <1>3

(* The octet is in the frame. *)
Holds(fr, o) == \E a \in 1 .. MaxData : fr.data[a] = o

(***************************************************************************)
(* The packets the loop finds: each that begins behind the position it     *)
(* starts from, but for one that the frame does not hold to its end.       *)
(***************************************************************************)
LEMMA ExploredAre ==
    ASSUME size \in Seq(Sizes), NEW fr \in Frame, Shaped(fr, size), NEW from, Border(fr.data, from)
    PROVE  LET at == Explored(fr.data, from)
               m == Len(at) - 1
               x == Last(at)
               e(i) == fr.data[at[i] + 1][1]
           IN  /\ at \in Seq(0 .. MaxData) /\ m \in Nat /\ x = at[m + 1]
               /\ Border(fr.data, x) /\ ~ WholeThere(fr.data, x)
               /\ \A i \in 1 .. m :
                     /\ e(i) \in 1 .. Len(size) /\ SubSeq(fr.data, at[i] + 1, at[i + 1]) = WholePkt(e(i))
                     /\ Holds(fr, <<e(i), 1>>) /\ Holds(fr, <<e(i), size[e(i)]>>)
               /\ \A i, j \in 1 .. m : i < j => e(i) < e(j)
               /\ x < MaxData /\ fr.data[x + 1] # Idle =>
                     \A i \in 1 .. m : e(i) < fr.data[x + 1][1]
               /\ \A a \in from + 1 .. MaxData :
                     fr.data[a] # Idle /\ fr.data[a][2] = 1 =>
                         a = x + 1 \/ \E i \in 1 .. m : fr.data[a][1] = e(i)
<1> DEFINE data == fr.data
           C == {x \in 0 .. MaxData : Border(data, x)}
           step == [x \in 0 .. MaxData |-> IF WholeThere(data, x) THEN x + LenThere(data, x) ELSE x]
           at == Explored(data, from)
           m == Len(at) - 1
           x == Last(at)
           e(i) == data[at[i] + 1][1]
<1>1. MaxData \in Nat /\ C \subseteq 0 .. MaxData /\ from \in C
  BY LengthsAreNumbers DEF Border
<1>2. ASSUME NEW y \in C
      PROVE  LET p == data[y + 1][1]
             IN  /\ step[y] \in C /\ step[y] >= y /\ (step[y] = y => ~ WholeThere(data, y))
                 /\ step[y] # y => /\ y \in Begins(data) /\ step[y] = y + size[p]
                                   /\ SubSeq(data, y + 1, y + size[p]) = WholePkt(p)
  <2> DEFINE p == data[y + 1][1]
  <2>1. y \in 0 .. MaxData /\ y \in Nat /\ Border(data, y)
        /\ step[y] = IF WholeThere(data, y) THEN y + LenThere(data, y) ELSE y
    BY <1>1
  <2>2. WholeThere(data, y) =>
           /\ y \in Begins(data) /\ LenThere(data, y) = size[p] /\ y + size[p] <= MaxData
           /\ Border(data, y + size[p]) /\ SubSeq(data, y + 1, y + size[p]) = WholePkt(p)
    BY <2>1, WholeAt
  <2>3. CASE WholeThere(data, y)
    <3>1. size[p] \in Nat /\ size[p] >= 1
      BY <2>2, <2>3, PacketAt
    <3> HIDE DEF step, p, data
    <3>2. y + size[p] \in 0 .. MaxData /\ y + size[p] >= y /\ y + size[p] # y
      BY <2>1, <2>2, <2>3, <3>1, <1>1, SMTT(30)
    <3>3. step[y] = y + size[p]
      BY <2>1, <2>2, <2>3
    <3> QED BY <2>2, <2>3, <3>2, <3>3 DEF p
  <2>4. CASE ~ WholeThere(data, y)
    BY <2>1, <2>4
  <2> QED BY <2>3, <2>4
<1>3. at = Walk(step, from)
  BY DEF Explored
<1> HIDE DEF step, C, at, data
<1>4. /\ WalkOver(C, step, from, at) /\ x = at[Len(at)] /\ x \in C /\ step[x] = x
  BY <1>1, <1>2, <1>3, WalkEnds
<1> HIDE DEF x
<1>5. /\ at \in Seq(C) /\ at # <<>> /\ at[1] = from
      /\ \A k \in 1 .. Len(at) - 1 : at[k + 1] = step[at[k]]
      /\ \A k, l \in 1 .. Len(at) : k < l => at[k] < at[l]
  BY <1>4 DEF WalkOver
<1>6. /\ Len(at) \in Nat /\ Len(at) >= 1 /\ m \in Nat /\ x = at[m + 1] /\ m + 1 = Len(at)
      /\ \A i \in 1 .. m : i \in 1 .. m + 1 /\ i + 1 \in 1 .. m + 1 /\ i < i + 1
  BY <1>4, <1>5
<1> HIDE DEF m
<1>7. ASSUME NEW i \in 1 .. m + 1
      PROVE  at[i] \in C /\ at[i] \in 0 .. MaxData /\ at[i] \in Nat
  <2>1. at[i] \in C
    BY <1>5, <1>6
  <2>2. at[i] \in 0 .. MaxData
    BY <2>1, <1>1
  <2> QED BY <2>1, <2>2, <1>1
<1>8. ASSUME NEW i \in 1 .. m
      PROVE  /\ at[i] \in Begins(data) /\ at[i + 1] = at[i] + size[e(i)]
             /\ at[i] \in Nat /\ e(i) \in 1 .. Len(size) /\ size[e(i)] \in Nat /\ size[e(i)] >= 1
             /\ at[i] + size[e(i)] <= MaxData
             /\ SubSeq(data, at[i] + 1, at[i + 1]) = WholePkt(e(i))
             /\ data[at[i] + 1] = <<e(i), 1>>
             /\ \A k \in 1 .. size[e(i)] : data[at[i] + k] = <<e(i), k>>
  <2>1. at[i] \in C /\ at[i + 1] = step[at[i]] /\ at[i] < at[i + 1] /\ at[i] \in Nat /\ at[i + 1] \in 0 .. MaxData
    BY <1>5, <1>6, <1>7 DEF m
  <2>2. /\ at[i] \in Begins(data) /\ at[i + 1] = at[i] + size[e(i)]
        /\ SubSeq(data, at[i] + 1, at[i + 1]) = WholePkt(e(i))
    <3> DEFINE y == at[i]
               z == at[i + 1]
    <3>1. y \in C /\ z = step[y] /\ z # y
      BY <2>1
    <3> HIDE DEF y, z
    <3>2. LET p == data[y + 1][1]
          IN  /\ y \in Begins(data) /\ z = y + size[p]
              /\ SubSeq(data, y + 1, y + size[p]) = WholePkt(p)
      BY <3>1, <1>2, SMTT(30)
    <3> QED BY <3>2 DEF y, z
  <2>3. /\ e(i) \in 1 .. Len(size) /\ size[e(i)] \in Nat /\ size[e(i)] >= 1 /\ data[at[i] + 1] = <<e(i), 1>>
        /\ \A k \in 1 .. size[e(i)] : at[i] + k <= MaxData => data[at[i] + k] = <<e(i), k>>
    BY <2>2, PacketAt DEF data
  <2> DEFINE n == size[e(i)]
             y == at[i]
  <2>4. y + n <= MaxData /\ n \in Nat /\ y \in Nat
    BY <2>1, <2>2, <2>3, <1>1
  <2> HIDE DEF n, y
  <2>5. \A k \in 1 .. n : y + k <= MaxData
    BY <2>4, <1>1
  <2> QED BY <2>1, <2>2, <2>3, <2>4, <2>5 DEF n, y
<1>9. ASSUME NEW i \in 1 .. m PROVE Holds(fr, <<e(i), 1>>) /\ Holds(fr, <<e(i), size[e(i)]>>)
  <2> DEFINE n == size[e(i)]
             y == at[i]
  <2>1. y \in Nat /\ n \in Nat /\ n >= 1 /\ y + n <= MaxData /\ data[y + 1] = <<e(i), 1>> /\ \A k \in 1 .. n : data[y + k] = <<e(i), k>>
    BY <1>8
  <2> HIDE DEF n, y, e
  <2>2. y + 1 \in 1 .. MaxData /\ y + n \in 1 .. MaxData /\ n \in 1 .. n
    BY <2>1, <1>1
  <2>3. data[y + n] = <<e(i), n>>
    BY <2>1, <2>2
  <2> QED BY <2>1, <2>2, <2>3 DEF Holds, data, n
<1>10. ASSUME NEW a \in 1 .. MaxData, NEW b \in 1 .. MaxData, a < b, data[a] # Idle, data[b] # Idle,
              data[a][2] = 1, data[b][2] = 1
       PROVE  data[a][1] < data[b][1]
  BY <1>10 DEF Shaped, InOrder, Before, data
<1>11. ASSUME NEW i \in 1 .. m
       PROVE  at[i] + 1 \in 1 .. MaxData /\ data[at[i] + 1] # Idle /\ data[at[i] + 1][2] = 1
  <2>1. at[i] \in 0 .. MaxData - 1 /\ data[at[i] + 1] # Idle /\ data[at[i] + 1][2] = 1
    BY <1>8 DEF Begins
  <2> QED BY <2>1, <1>1
<1>12. ASSUME NEW i \in 1 .. m, NEW j \in 1 .. m, i < j PROVE e(i) < e(j)
  <2>1. at[i] < at[j] /\ at[i] \in Nat /\ at[j] \in Nat
    BY <1>5, <1>6, <1>7, <1>12
  <2>2. at[i] + 1 < at[j] + 1
    BY <2>1
  <2> QED BY <2>2, <1>10, <1>11
<1>13. x \in Nat /\ x \in 0 .. MaxData /\ Border(data, x) /\ ~ WholeThere(data, x)
  BY <1>1, <1>2, <1>4 DEF C
<1>14. ASSUME x < MaxData, data[x + 1] # Idle, NEW i \in 1 .. m PROVE e(i) < data[x + 1][1]
  <2>1. x + 1 \in 1 .. MaxData /\ data[x + 1][2] = 1
    BY <1>1, <1>13, <1>14 DEF Border
  <2>2. at[i] < x /\ at[i] \in Nat
    BY <1>5, <1>6, <1>7
  <2>3. at[i] + 1 < x + 1
    BY <2>2, <1>13
  <2> QED BY <2>1, <2>3, <1>10, <1>11, <1>14
(* A packet begins at each octet 1. *)
<1>15. ASSUME NEW a \in from + 1 .. MaxData, data[a] # Idle, data[a][2] = 1, a # x + 1
       PROVE  \E i \in 1 .. m : data[a][1] = e(i)
  <2> DEFINE T == {k \in 1 .. m + 1 : at[k] > a - 1}
  <2>1. a \in Nat /\ from \in Nat /\ a - 1 >= from /\ a <= MaxData /\ a \in 1 .. MaxData
    BY <1>1
  <2>2. CASE T = {}
    <3>1. x < a - 1
      <4>1. m + 1 \in 1 .. m + 1
        BY <1>6
      <4> QED BY <4>1, <1>6, <1>13, <1>15, <2>1, <2>2
    <3>2. x < MaxData /\ x + 1 < a /\ x + 1 \in 1 .. MaxData /\ x \in 0 .. MaxData - 1 /\ a - x \in Nat /\ a - x > 1
          /\ x + (a - x) = a
      BY <3>1, <1>13, <2>1, <1>1
    <3>3. data[x + 1] # Idle
      BY <3>2, <1>15, <2>1 DEF Shaped, InOrder, data
    <3>4. x \in Begins(data)
      BY <3>2, <3>3, <1>13 DEF Begins, Border
    <3> DEFINE p == data[x + 1][1]
               n == size[p]
    <3>5. /\ n \in Nat /\ x + n > MaxData
          /\ \A k \in 1 .. n : x + k <= MaxData => data[x + k] = <<p, k>>
      <4>1. /\ n \in Nat /\ \A k \in 1 .. n : x + k <= MaxData => data[x + k] = <<p, k>>
        BY <3>4, PacketAt DEF data
      <4>2. x + n > MaxData
        BY <1>13, <3>2, <3>3, WholeAt DEF data
      <4> QED BY <4>1, <4>2
    <3> HIDE DEF n, p
    <3>6. a - x \in 1 .. n
      BY <3>2, <3>5, <2>1, <1>13, <1>1, SMTT(30)
    <3>7. data[a] = <<p, a - x>>
      BY <3>2, <3>5, <3>6, <2>1
    <3> QED BY <3>2, <3>7, <1>15
  <2>3. CASE T # {}
    <3>1. PICK k \in T : \A l \in T : k <= l
      <4>1. T \subseteq Nat
        BY <1>6
      <4> HIDE DEF T
      <4> QED BY <2>3, <4>1, LeastNatural
    <3>2. k # 1
      BY <1>5, <2>1, <3>1
    <3>3. k - 1 \in 1 .. m /\ k - 1 \in 1 .. m + 1 /\ (k - 1) + 1 = k /\ k - 1 \notin T
      BY <3>1, <3>2, <1>6
    <3> DEFINE i == k - 1
               n == size[e(i)]
               y == at[i]
    <3>4. /\ y \in Nat /\ y <= a - 1 /\ a - 1 < y + n /\ n \in Nat /\ \A l \in 1 .. n : data[y + l] = <<e(i), l>>
      BY <3>1, <3>3, <1>7, <1>8, <2>1, SMTT(30)
    <3> HIDE DEF y, n, e
    <3>5. a - y \in 1 .. n /\ y + (a - y) = a
      BY <3>4, <2>1
    <3>6. data[a] = <<e(i), a - y>>
      BY <3>4, <3>5
    <3>7. data[a][1] = e(i)
      BY <3>6
    <3> QED BY <3>3, <3>7 DEF e
  <2> QED BY <2>2, <2>3
<1>16. at \in Seq(0 .. MaxData)
  <2>1. at = [i \in 1 .. Len(at) |-> at[i]]
    BY <1>5
  <2>2. \A i \in 1 .. Len(at) : at[i] \in 0 .. MaxData
    BY <1>6, <1>7
  <2>3. [i \in 1 .. Len(at) |-> at[i]] \in Seq(0 .. MaxData)
    <3> HIDE DEF e
    <3> QED BY <2>2, <1>6
  <2> QED BY <2>1, <2>3
<1> QED BY <1>6, <1>8, <1>9, <1>12, <1>13, <1>14, <1>15, <1>16 DEF x, m, at, data

(* The receiver inside osdlp_tm_receive. *)
Receiver == [loop : {"OPEN", "CLOSED"}, exp : 0 .. MaxSdu, buf : Seq(Octet \cup {Idle}),
             rx : Seq(Seq(Octet \cup {Idle})), denied : BOOLEAN]

LEMMA LoopEnds ==
    ASSUME NEW r \in Receiver, NEW item \in Seq(Octet \cup {Idle})
    PROVE  /\ LET s == Shut(r)
              IN  s \in Receiver /\ s.loop = "CLOSED" /\ s.exp = r.exp /\ s.buf = <<>> /\ s.rx = r.rx
                  /\ s.denied = r.denied
           /\ LET s == Keep(r, item)
              IN  s \in Receiver /\ s.loop = "OPEN" /\ s.exp = r.exp /\ s.buf = item /\ s.rx = r.rx
                  /\ s.denied = r.denied
           /\ LET s == Deliver(r, item)
              IN  /\ s \in Receiver /\ s.loop = "CLOSED" /\ s.exp = r.exp /\ s.buf = <<>>
                  /\ Len(r.rx) < RxCap => s.rx = Append(r.rx, item) /\ s.denied = r.denied
                  /\ ~ (Len(r.rx) < RxCap) => s.rx = r.rx /\ s.denied
<1>1. /\ <<>> \in Seq(Octet \cup {Idle}) /\ Append(r.rx, item) \in Seq(Seq(Octet \cup {Idle}))
      /\ "OPEN" \in {"OPEN", "CLOSED"} /\ "CLOSED" \in {"OPEN", "CLOSED"}
  BY DEF Receiver
<1>2. LET s == Shut(r)
      IN  s \in Receiver /\ s.loop = "CLOSED" /\ s.exp = r.exp /\ s.buf = <<>> /\ s.rx = r.rx /\ s.denied = r.denied
  BY <1>1 DEF Receiver, Shut
<1>3. LET s == Keep(r, item)
      IN  s \in Receiver /\ s.loop = "OPEN" /\ s.exp = r.exp /\ s.buf = item /\ s.rx = r.rx /\ s.denied = r.denied
  BY <1>1 DEF Receiver, Keep
<1>4. LET s == Deliver(r, item)
      IN  /\ s \in Receiver /\ s.loop = "CLOSED" /\ s.exp = r.exp /\ s.buf = <<>>
          /\ Len(r.rx) < RxCap => s.rx = Append(r.rx, item) /\ s.denied = r.denied
          /\ ~ (Len(r.rx) < RxCap) => s.rx = r.rx /\ s.denied
  <2> DEFINE t == Shut(r)
  <2>1. t \in Receiver /\ t.loop = "CLOSED" /\ t.exp = r.exp /\ t.buf = <<>> /\ t.rx = r.rx /\ t.denied = r.denied
    BY <1>2
  <2> HIDE DEF t
  <2>2. CASE Len(r.rx) < RxCap
    <3>1. Deliver(r, item) = [t EXCEPT !.rx = Append(@, item)]
      BY <2>2 DEF Deliver, t
    <3> DEFINE a == Append(r.rx, item)
               u == [t EXCEPT !.rx = a]
    <3>2. a \in Seq(Seq(Octet \cup {Idle})) /\ Deliver(r, item) = u
      BY <3>1, <2>1, <1>1
    <3> HIDE DEF a
    <3>3. u \in Receiver /\ u.loop = "CLOSED" /\ u.exp = r.exp /\ u.buf = <<>> /\ u.rx = a /\ u.denied = r.denied
      BY <3>2, <2>1 DEF Receiver
    <3> QED BY <3>2, <3>3, <2>2 DEF a
  <2>3. CASE ~ (Len(r.rx) < RxCap)
    <3>1. Deliver(r, item) = [t EXCEPT !.denied = TRUE]
      BY <2>3 DEF Deliver, t
    <3> QED BY <3>1, <2>1, <2>3 DEF Receiver
  <2> QED BY <2>2, <2>3
<1> QED BY <1>2, <1>3, <1>4

LEMMA WholePackets ==
    ASSUME size \in Seq(Sizes), Len(size) <= MaxPkts, NEW p \in 1 .. Len(size)
    PROVE  /\ WholePkt(p) \in Seq(Octet \cup {Idle}) /\ Len(WholePkt(p)) = size[p]
           /\ WholePkt(p)[1] = <<p, 1>> /\ WholePkt(p)[size[p]] = <<p, size[p]>>
           /\ Named(WholePkt(p)) = p
<1> DEFINE w == WholePkt(p)
           n == size[p]
<1>1. n \in Nat /\ n >= 1 /\ n <= MaxSdu /\ MaxSdu \in Nat /\ MaxPkts \in Nat /\ p \in 1 .. MaxPkts /\ p \in Nat
  BY SizeFacts, LengthsAreNumbers
<1> HIDE DEF n
<1>2. w = [k \in 1 .. n |-> <<p, k>>]
  BY DEF WholePkt, n
<1>3. \A k \in 1 .. n : <<p, k>> \in Octet \cup {Idle}
  BY <1>1 DEF Octet
<1>4. w \in Seq(Octet \cup {Idle}) /\ Len(w) = n /\ \A k \in 1 .. n : w[k] = <<p, k>>
  BY <1>1, <1>2, <1>3
<1>5. 1 \in 1 .. n /\ n \in 1 .. n
  BY <1>1
<1>6. w # <<>> /\ w[1] # Idle /\ w[1][1] = p
  BY <1>1, <1>4, <1>5 DEF Idle
<1>7. Named(w) = p
  BY <1>6 DEF Named
<1> QED BY <1>4, <1>5, <1>7 DEF n

LEMMA NamedIs ==
    ASSUME NEW item, Named(item) # 0
    PROVE  item # <<>> /\ item[1] # Idle /\ item = WholePkt(item[1][1]) /\ Named(item) = item[1][1]
BY DEF Named

(* Whole packets of the frame, behind those of the queue before. *)
Found(fr, had, s) ==
    /\ s \in Receiver /\ Len(s.buf) <= MaxSdu /\ Len(had) <= Len(s.rx) /\ Len(s.rx) <= RxCap
    /\ \A i \in 1 .. Len(had) : s.rx[i] = had[i]
    /\ \A i \in Len(had) + 1 .. Len(s.rx) :
          LET p == Named(s.rx[i])
          IN  /\ p \in 1 .. Len(size) /\ s.rx[i] = WholePkt(p)
              /\ Holds(fr, <<p, 1>>) /\ Holds(fr, <<p, size[p]>>)
    /\ \A i, j \in Len(had) + 1 .. Len(s.rx) : i < j => Named(s.rx[i]) < Named(s.rx[j])
    /\ s.loop = "OPEN" =>
          LET p == Opener(s)[1]
          IN  /\ s.buf # <<>> /\ p \in 1 .. Len(size) /\ Holds(fr, <<p, 1>>)
              /\ \A i \in Len(had) + 1 .. Len(s.rx) : Named(s.rx[i]) < p
              /\ \A k \in 1 .. Len(s.buf) : s.buf[k] = <<p, k>>
              /\ Len(s.buf) < size[p] /\ s.exp \in {0, size[p]}
              /\ fr.data[MaxData] = <<p, Len(s.buf)>>

(* Packet p is one of those of the frame that went on to the queue or is in the loop. *)
Got(had, s, p) ==
    \/ \E i \in Len(had) + 1 .. Len(s.rx) : Named(s.rx[i]) = p
    \/ s.loop = "OPEN" /\ Opener(s)[1] = p

LEMMA ExploreHeard ==
    ASSUME size \in Seq(Sizes), Len(size) <= MaxPkts, NEW fr \in Frame, Shaped(fr, size),
           NEW from, Border(fr.data, from),
           NEW r \in Receiver, Len(r.rx) <= RxCap, r.denied = FALSE
    PROVE  LET s == Explore(r, fr.data, from)
           IN  /\ Found(fr, r.rx, s)
               /\ ~ s.denied => \A a \in from + 1 .. MaxData :
                                   fr.data[a] # Idle /\ fr.data[a][2] = 1 => Got(r.rx, s, fr.data[a][1])
<1> DEFINE data == fr.data
           at == Explored(data, from)
           m == Len(at) - 1
           x == Last(at)
           e(i) == data[at[i] + 1][1]
           had == r.rx
           taken == Min({m, RxCap - Len(had)})
           items == [i \in 1 .. taken |-> SubSeq(data, at[i] + 1, at[i + 1])]
           t == [r EXCEPT !.exp = 0, !.rx = @ \o items]
           ended == x = MaxData \/ data[x + 1] = Idle
           s == Explore(r, data, from)
<1>1. /\ MaxData \in Nat /\ MaxData >= 1 /\ MaxSdu \in Nat /\ RxCap \in Nat /\ 0 \in 0 .. MaxSdu
  BY LengthsAreNumbers, TmCapsAssumption
<1>2. /\ at \in Seq(0 .. MaxData) /\ m \in Nat /\ x = at[m + 1]
      /\ Border(data, x) /\ ~ WholeThere(data, x)
      /\ \A i \in 1 .. m :
            /\ e(i) \in 1 .. Len(size) /\ SubSeq(data, at[i] + 1, at[i + 1]) = WholePkt(e(i))
            /\ Holds(fr, <<e(i), 1>>) /\ Holds(fr, <<e(i), size[e(i)]>>)
      /\ \A i, j \in 1 .. m : i < j => e(i) < e(j)
      /\ x < MaxData /\ data[x + 1] # Idle => \A i \in 1 .. m : e(i) < data[x + 1][1]
      /\ \A a \in from + 1 .. MaxData :
            data[a] # Idle /\ data[a][2] = 1 => a = x + 1 \/ \E i \in 1 .. m : data[a][1] = e(i)
  BY ExploredAre, ZenonT(60)
<1>3. s = CASE taken < m            -> [Shut(t) EXCEPT !.denied = TRUE]
            [] taken = m /\ ended   -> Shut(t)
            [] taken = m /\ ~ ended -> [Keep(t, RestFromOctet(data, x)) EXCEPT !.exp = LenThere(data, x)]
  BY DEF Explore
<1>4. had \in Seq(Seq(Octet \cup {Idle})) /\ Len(had) \in Nat /\ Len(had) <= RxCap
      /\ <<>> \in Seq(Octet \cup {Idle})
  BY DEF Receiver
<1> HIDE DEF at, m, x, had, e, s
<1>5. /\ taken = IF m <= RxCap - Len(had) THEN m ELSE RxCap - Len(had)
      /\ taken \in Nat /\ taken <= m /\ Len(had) + taken <= RxCap /\ \A i \in 1 .. taken : i \in 1 .. m
  <2>1. m \in Int /\ m \in Nat /\ RxCap - Len(had) \in Nat /\ RxCap - Len(had) \in Int
    BY <1>1, <1>2, <1>4
  <2> DEFINE room == RxCap - Len(had)
  <2> HIDE DEF room
  <2>2. taken = IF m <= room THEN m ELSE room
    BY <2>1, MinOfTwo DEF room
  <2>3. taken \in Nat /\ taken <= m /\ taken <= room
    BY <2>1, <2>2 DEF room
  <2> HIDE DEF taken
  <2> QED BY <2>1, <2>2, <2>3, <1>1, <1>4 DEF room
<1> HIDE DEF taken
<1>6. /\ items \in Seq(Seq(Octet \cup {Idle})) /\ Len(items) = taken
      /\ \A i \in 1 .. taken : items[i] = WholePkt(e(i)) /\ Named(items[i]) = e(i)
  <2>1. \A i \in 1 .. taken : items[i] = WholePkt(e(i)) /\ WholePkt(e(i)) \in Seq(Octet \cup {Idle}) /\ Named(WholePkt(e(i))) = e(i)
    BY <1>2, <1>5, WholePackets
  <2>2. items = [i \in 1 .. taken |-> items[i]]
    OBVIOUS
  <2> HIDE DEF items
  <2>4. taken \in Nat /\ \A i \in 1 .. taken : items[i] \in Seq(Octet \cup {Idle})
    BY <2>1, <1>5
  <2>3. [i \in 1 .. taken |-> items[i]] \in Seq(Seq(Octet \cup {Idle})) /\ Len([i \in 1 .. taken |-> items[i]]) = taken
    BY <2>4
  <2> QED BY <2>1, <2>2, <2>3
<1> HIDE DEF items
<1>7. /\ t \in Receiver /\ t.rx = had \o items /\ t.exp = 0 /\ t.denied = FALSE
  <2>1. had \o items \in Seq(Seq(Octet \cup {Idle}))
    BY <1>4, <1>6
  <2> QED BY <2>1, <1>1 DEF Receiver, had
<1> HIDE DEF t
<1>8. /\ Len(t.rx) = Len(had) + taken
      /\ \A i \in 1 .. Len(had) : t.rx[i] = had[i]
      /\ \A i \in 1 .. taken : t.rx[Len(had) + i] = items[i]
  <2>1. items \in Seq(Seq(Octet \cup {Idle})) /\ Len(items) = taken /\ taken \in Nat /\ t.rx = had \o items
    BY <1>5, <1>6, <1>7
  <2> HIDE DEF e, had
  <2> DEFINE S == Seq(Octet \cup {Idle})
  <2>2. had \in Seq(S) /\ items \in Seq(S)
    BY <2>1, <1>4
  <2> HIDE DEF S
  <2>3. LET u == had \o items
        IN  /\ Len(u) = Len(had) + Len(items) /\ \A i \in 1 .. Len(had) : u[i] = had[i]
            /\ \A i \in 1 .. Len(items) : u[Len(had) + i] = items[i]
    BY <2>2, TwoSequences
  <2> QED BY <2>1, <2>3
<1>9. ASSUME NEW i \in Len(had) + 1 .. Len(t.rx)
      PROVE  /\ i - Len(had) \in 1 .. m /\ t.rx[i] = WholePkt(e(i - Len(had)))
             /\ Named(t.rx[i]) = e(i - Len(had)) /\ i \in Nat
  <2>1. i - Len(had) \in 1 .. taken /\ Len(had) + (i - Len(had)) = i /\ i \in Nat
    BY <1>4, <1>5, <1>8
  <2> QED BY <2>1, <1>5, <1>6, <1>8
(* What the queue gets is the same in each case. *)
<1>10. ASSUME NEW u, u.rx = t.rx
       PROVE  /\ Len(had) <= Len(u.rx) /\ Len(u.rx) <= RxCap
              /\ \A i \in 1 .. Len(had) : u.rx[i] = had[i]
              /\ \A i \in Len(had) + 1 .. Len(u.rx) :
                    LET p == Named(u.rx[i])
                    IN  /\ p \in 1 .. Len(size) /\ u.rx[i] = WholePkt(p)
                        /\ Holds(fr, <<p, 1>>) /\ Holds(fr, <<p, size[p]>>)
              /\ \A i, j \in Len(had) + 1 .. Len(u.rx) : i < j => Named(u.rx[i]) < Named(u.rx[j])
  <2>1. Len(had) <= Len(u.rx) /\ Len(u.rx) <= RxCap /\ \A i \in 1 .. Len(had) : u.rx[i] = had[i]
    <3>1. u.rx = t.rx
      BY <1>10
    <3>2. Len(had) <= Len(t.rx) /\ Len(t.rx) <= RxCap
      BY <1>4, <1>5, <1>8
    <3> QED BY <3>1, <3>2, <1>8, ZenonT(60)
  <2>2. ASSUME NEW i \in Len(had) + 1 .. Len(u.rx)
        PROVE  LET p == Named(u.rx[i])
               IN  /\ p \in 1 .. Len(size) /\ u.rx[i] = WholePkt(p)
                   /\ Holds(fr, <<p, 1>>) /\ Holds(fr, <<p, size[p]>>)
    BY <1>2, <1>9, <1>10
  <2>3. ASSUME NEW i \in Len(had) + 1 .. Len(u.rx), NEW j \in Len(had) + 1 .. Len(u.rx), i < j
        PROVE  Named(u.rx[i]) < Named(u.rx[j])
    <3>1. i - Len(had) < j - Len(had)
      BY <2>3, <1>4, <1>9, <1>10
    <3>2. e(i - Len(had)) < e(j - Len(had))
      BY <3>1, <1>2, <1>9, <1>10
    <3> QED BY <3>2, <1>9, <1>10
  <2> QED BY <2>1, <2>2, <2>3
<1>11. \A i \in 1 .. m : taken = m => \E j \in Len(had) + 1 .. Len(t.rx) : Named(t.rx[j]) = e(i)
  <2> SUFFICES ASSUME NEW i \in 1 .. m, taken = m
               PROVE  \E j \in Len(had) + 1 .. Len(t.rx) : Named(t.rx[j]) = e(i)
    OBVIOUS
  <2>1. Len(had) + i \in Len(had) + 1 .. Len(t.rx) /\ (Len(had) + i) - Len(had) = i
    BY <1>4, <1>5, <1>8
  <2> QED BY <2>1, <1>9
<1>12. CASE taken < m
  <2>1. s = [Shut(t) EXCEPT !.denied = TRUE]
    BY <1>2, <1>3, <1>5, <1>12
  <2>2. Shut(t) \in Receiver /\ Shut(t).loop = "CLOSED" /\ Shut(t).buf = <<>> /\ Shut(t).rx = t.rx
    BY <1>4, <1>7, LoopEnds
  <2>3. s \in Receiver /\ s.loop = "CLOSED" /\ s.buf = <<>> /\ s.rx = t.rx /\ s.denied
    BY <2>1, <2>2 DEF Receiver
  <2>4. Len(s.buf) <= MaxSdu /\ s.loop # "OPEN"
    BY <2>3, <1>1
  <2> QED BY <2>3, <2>4, <1>10 DEF Found, s, had
<1>13. CASE taken = m /\ ended
  <2>1. s = Shut(t)
    BY <1>3, <1>5, <1>13
  <2>2. s \in Receiver /\ s.loop = "CLOSED" /\ s.buf = <<>> /\ s.rx = t.rx
    BY <2>1, <1>4, <1>7, LoopEnds
  <2>3. Len(s.buf) <= MaxSdu /\ s.loop # "OPEN"
    BY <2>2, <1>1
  <2>4. Found(fr, had, s)
    BY <2>2, <2>3, <1>10 DEF Found
  <2>5. ASSUME NEW a \in from + 1 .. MaxData, data[a] # Idle, data[a][2] = 1
        PROVE  Got(had, s, data[a][1])
    <3>1. from \in Nat /\ a \in Nat /\ a <= MaxData /\ x \in Nat
      BY <1>1, <1>2 DEF Border
    <3>2. a # x + 1
      BY <3>1, <2>5, <1>1, <1>13
    <3>3. PICK i \in 1 .. m : data[a][1] = e(i)
      BY <3>2, <2>5, <1>2
    <3> QED BY <3>3, <1>11, <1>13, <2>2 DEF Got
  <2> QED BY <2>4, <2>5 DEF s, had
<1>14. CASE taken = m /\ ~ ended
  <2> DEFINE p == data[x + 1][1]
             n == size[p]
             rest == RestFromOctet(data, x)
  <2>1. x \in 0 .. MaxData /\ x \in Nat /\ x < MaxData /\ data[x + 1] # Idle /\ x + 1 \in 1 .. MaxData
    BY <1>1, <1>2, <1>14, SMTT(30) DEF Border
  <2>2. x \in Begins(data) /\ x + n > MaxData /\ LenThere(data, x) \in {0, n}
    BY <2>1, <1>2, WholeAt
  <2>3. /\ p \in 1 .. Len(size) /\ data[x + 1] = <<p, 1>> /\ n \in Nat /\ n >= 1 /\ n <= MaxSdu
        /\ \A k \in 1 .. n : x + k <= MaxData => data[x + k] = <<p, k>>
    BY <2>2, PacketAt
  <2> HIDE DEF p, n, rest
  <2>4. rest \in Seq(Octet \cup {Idle}) /\ Len(rest) = MaxData - x /\ \A k \in 1 .. MaxData - x : rest[k] = data[x + k]
    <3> HIDE DEF data
    <3>1. data \in Seq(Octet \cup {Idle}) /\ Len(data) = MaxData
      BY FrameFacts DEF data
    <3>2. MaxData - x \in Nat /\ x + (MaxData - x) <= Len(data) /\ x + (MaxData - x) = MaxData
      BY <3>1, <2>1, <1>1
    <3>3. LET u == SubSeq(data, x + 1, x + (MaxData - x))
          IN  u \in Seq(Octet \cup {Idle}) /\ Len(u) = MaxData - x /\ \A k \in 1 .. MaxData - x : u[k] = data[x + k]
      BY <3>1, <3>2, <2>1, SubSeqAt
    <3> QED BY <3>2, <3>3 DEF rest, RestFromOctet
  <2>5. \A k \in 1 .. Len(rest) : rest[k] = <<p, k>>
    <3> TAKE k \in 1 .. Len(rest)
    <3>1. k \in 1 .. MaxData - x /\ k \in 1 .. n /\ x + k <= MaxData
      BY <2>1, <2>2, <2>3, <2>4, <1>1
    <3> QED BY <3>1, <2>3, <2>4
  <2>6. LenThere(data, x) \in 0 .. MaxSdu
    BY <2>2, <2>3, <1>1
  <2>7. s = [Keep(t, rest) EXCEPT !.exp = LenThere(data, x)]
    BY <1>3, <1>5, <1>14 DEF rest
  <2>8. Keep(t, rest) \in Receiver /\ Keep(t, rest).loop = "OPEN" /\ Keep(t, rest).buf = rest /\ Keep(t, rest).rx = t.rx
    BY <2>4, <1>7, LoopEnds
  <2>9. s \in Receiver /\ s.loop = "OPEN" /\ s.buf = rest /\ s.rx = t.rx /\ s.exp = LenThere(data, x)
    BY <2>6, <2>7, <2>8 DEF Receiver
  <2>10. /\ rest # <<>> /\ Len(rest) \in Nat /\ Len(rest) >= 1 /\ Len(rest) < n /\ Len(rest) <= MaxSdu
         /\ 1 \in 1 .. Len(rest) /\ MaxData - x \in 1 .. MaxData - x /\ x + (MaxData - x) = MaxData
    BY <2>1, <2>2, <2>3, <2>4, <1>1
  <2>11. Opener(s)[1] = p /\ rest[Len(rest)] = <<p, Len(rest)>> /\ data[MaxData] = rest[Len(rest)]
    BY <2>4, <2>5, <2>9, <2>10 DEF Opener
  <2>12. \A i \in Len(had) + 1 .. Len(s.rx) : Named(s.rx[i]) < p
    BY <2>1, <2>9, <1>2, <1>9 DEF p
  <2>13. Holds(fr, <<p, 1>>)
    BY <2>1, <2>3 DEF Holds
  <2>14. Found(fr, had, s)
    <3> HIDE DEF data
    <3>1. LET d == Opener(s)[1]
          IN  /\ s.buf # <<>> /\ d \in 1 .. Len(size) /\ Holds(fr, <<d, 1>>)
              /\ \A i \in Len(had) + 1 .. Len(s.rx) : Named(s.rx[i]) < d
              /\ \A k \in 1 .. Len(s.buf) : s.buf[k] = <<d, k>>
              /\ Len(s.buf) < size[d] /\ s.exp \in {0, size[d]}
              /\ fr.data[MaxData] = <<d, Len(s.buf)>>
      BY <2>2, <2>3, <2>5, <2>9, <2>10, <2>11, <2>12, <2>13 DEF n, data
    <3>2. Len(s.buf) <= MaxSdu
      BY <2>9, <2>10
    <3> QED BY <3>1, <3>2, <2>9, <1>10 DEF Found
  <2>15. ASSUME NEW a \in from + 1 .. MaxData, data[a] # Idle, data[a][2] = 1
         PROVE  Got(had, s, data[a][1])
    <3>1. CASE a = x + 1
      BY <3>1, <2>3, <2>9, <2>11 DEF Got
    <3>2. CASE a # x + 1
      <4>1. PICK i \in 1 .. m : data[a][1] = e(i)
        BY <3>2, <2>15, <1>2
      <4> QED BY <4>1, <1>11, <1>14, <2>9 DEF Got
    <3> QED BY <3>1, <3>2
  <2> QED BY <2>14, <2>15 DEF s, had
<1> QED BY <1>5, <1>12, <1>13, <1>14

-----------------------------------------------------------------------------
(* The packet in the receiver's loop. *)

(* The receiver before a frame that follows what its loop holds. *)
Meets(r, fr, h) ==
    LET p == Opener(r)[1]
    IN  /\ r \in Receiver /\ Len(r.buf) <= MaxSdu /\ Len(r.rx) <= RxCap /\ r.denied = FALSE
        /\ r.loop = "OPEN" =>
              /\ r.buf # <<>> /\ IsOctet(Opener(r), size) /\ Opener(r)[2] = 1
              /\ \A a \in 1 .. MaxData : fr.data[a] # Idle => Before(Opener(r), fr.data[a])
        /\ r.loop = "OPEN" /\ p \notin h =>
              /\ \A k \in 1 .. Len(r.buf) : r.buf[k] = <<p, k>>
              /\ Len(r.buf) < size[p] /\ (r.exp = size[p] \/ (stuffs /\ r.exp = 0))
              /\ fr.data[1] = <<p, Len(r.buf) + 1>>

(* What excuses that the packet is not heard: its size, unless the loop knows its length. *)
Excused(r, p) ==
    stuffs /\ size[p] = MaxSdu /\ ~ (r.loop = "OPEN" /\ Opener(r)[1] = p /\ r.exp # 0)

(* What it may make of the frame. *)
Handled(r, fr, s, h) ==
    LET had == r.rx
        new == Len(had) + 1 .. Len(s.rx)
    IN  /\ s \in Receiver /\ Len(s.buf) <= MaxSdu /\ Len(had) <= Len(s.rx) /\ Len(s.rx) <= RxCap
        /\ \A i \in 1 .. Len(had) : s.rx[i] = had[i]
        /\ \A i \in new :
              LET p == Named(s.rx[i])
              IN  /\ (p \in 1 .. Len(size) /\ s.rx[i] = WholePkt(p)) \/ PktsOf(s.rx[i]) \cap h # {}
                  /\ p # 0 => /\ p \in 1 .. Len(size) /\ Holds(fr, <<p, size[p]>>)
                              /\ Holds(fr, <<p, 1>>) \/ (r.loop = "OPEN" /\ p = Opener(r)[1])
        /\ \A i, j \in new :
              i < j /\ Named(s.rx[i]) # 0 /\ Named(s.rx[j]) # 0 => Named(s.rx[i]) < Named(s.rx[j])
        /\ s.loop = "OPEN" =>
              /\ s.buf # <<>>
              /\ \/ r.loop = "OPEN" /\ Opener(s) = Opener(r) /\ Len(s.rx) = Len(had)
                 \/ LET p == Opener(s)[1]
                    IN  /\ p \in 1 .. Len(size) /\ Opener(s) = <<p, 1>> /\ Holds(fr, <<p, 1>>)
                        /\ \A i \in new : Named(s.rx[i]) < p
        /\ s.loop = "OPEN" /\ Opener(s)[1] \notin h =>
              LET p == Opener(s)[1]
              IN  /\ \A k \in 1 .. Len(s.buf) : s.buf[k] = <<p, k>>
                  /\ Len(s.buf) < size[p] /\ (s.exp = size[p] \/ (stuffs /\ s.exp = 0))
                  /\ fr.data[MaxData] = <<p, Len(s.buf)>>
        /\ ~ s.denied =>
              \A p \in 1 .. Len(size) :
                  p \notin h /\ ~ Excused(r, p)
                  /\ (Holds(fr, <<p, 1>>) \/ (r.loop = "OPEN" /\ Opener(r)[1] = p)) => Got(had, s, p)

(* The octets of the frame that are joined to the loop's. *)
Part(fr) == IF fr.ptr = NoPkt THEN MaxData ELSE fr.ptr

LEMMA NoStarts ==
    ASSUME size \in Seq(Sizes), NEW fr \in Frame, Shaped(fr, size), Live(fr), fr.ptr # 0
    PROVE  /\ Part(fr) \in 1 .. MaxData /\ fr.data[1][2] > 1 /\ fr.data[1][2] \in Nat
           /\ \A a \in 1 .. Part(fr) : fr.data[a] = <<fr.data[1][1], fr.data[1][2] + (a - 1)>> /\ fr.data[a][2] # 1
           /\ Part(fr) < MaxData => fr.ptr = Part(fr) /\ fr.data[1][2] + Part(fr) - 1 = size[fr.data[1][1]]
           /\ fr.data[1][2] + Part(fr) - 1 <= size[fr.data[1][1]] /\ size[fr.data[1][1]] \in Nat
           /\ Part(fr) = MaxData <=> fr.ptr = NoPkt
<1> DEFINE o == fr.data[1]
           c == Part(fr)
<1>1. MaxData \in Nat /\ MaxData >= 1 /\ NoPkt = MaxData + 1 /\ 1 \in 1 .. MaxData /\ o # Idle
  BY LengthsAreNumbers DEF NoPkt, Shaped
<1>2. \/ fr.ptr = NoPkt /\ o[2] > 1 /\ LeftOf(o, size) >= MaxData - 1
      \/ fr.ptr \in 1 .. MaxData - 1 /\ o[2] > 1 /\ fr.ptr = LeftOf(o, size) + 1
  BY PointerSays
<1>3. /\ o[2] \in Nat /\ size[o[1]] \in Nat /\ LeftOf(o, size) = size[o[1]] - o[2]
      /\ \A j \in 1 .. MaxData : j - 1 <= LeftOf(o, size) => fr.data[j] = <<o[1], o[2] + (j - 1)>>
  BY <1>1, RunFrom DEF LeftOf
<1> HIDE DEF o
<1> DEFINE l == LeftOf(o, size)
           n == size[o[1]]
<1>4. l \in Int /\ l = n - o[2] /\ n \in Nat
  BY <1>3
<1> HIDE DEF l, n
<1>5. /\ c \in 1 .. MaxData /\ o[2] > 1 /\ c - 1 <= l /\ (c < MaxData => fr.ptr = c /\ c - 1 = l)
      /\ (c = MaxData <=> fr.ptr = NoPkt)
  BY <1>1, <1>2, <1>4 DEF Part, l
<1> HIDE DEF c
<1>6. ASSUME NEW a \in 1 .. c PROVE fr.data[a] = <<o[1], o[2] + (a - 1)>> /\ fr.data[a][2] # 1
  <2>1. a \in 1 .. MaxData /\ a - 1 <= l /\ a \in Nat /\ a >= 1
    BY <1>1, <1>4, <1>5
  <2>2. fr.data[a] = <<o[1], o[2] + (a - 1)>>
    BY <2>1, <1>3 DEF l
  <2> QED BY <2>1, <2>2, <1>3, <1>5
<1>7. o[2] + c - 1 <= n /\ (c < MaxData => o[2] + c - 1 = n)
  <2>1. c \in Int /\ o[2] \in Int /\ n \in Int /\ l = n - o[2] /\ c - 1 <= l /\ (c < MaxData => c - 1 = l)
    BY <1>1, <1>3, <1>4, <1>5
  <2> QED BY <2>1
<1> QED BY <1>3, <1>5, <1>6, <1>7 DEF o, c, n

(* A packet that has not been hurt goes on with the frame, and to its end if the frame holds that. *)
LEMMA CleanJoin ==
    ASSUME size \in Seq(Sizes), NEW fr \in Frame, Shaped(fr, size), Live(fr), NEW h, NEW r,
           Meets(r, fr, h), r.loop = "OPEN", Opener(r)[1] \notin h
    PROVE  LET p == Opener(r)[1]
               l == Len(r.buf)
               c == Part(fr)
           IN  /\ fr.ptr # 0 /\ fr.data[1][1] = p /\ p \in 1 .. Len(size) /\ size[p] \in Nat /\ l \in Nat /\ l >= 1
               /\ \A a \in 1 .. c : fr.data[a] = <<p, l + a>>
               /\ l + c <= size[p] /\ (c < MaxData => l + c = size[p])
<1> DEFINE p == Opener(r)[1]
           l == Len(r.buf)
           c == Part(fr)
           o == fr.data[1]
<1>1. r.buf \in Seq(Octet \cup {Idle}) /\ r.buf # <<>> /\ o = <<p, l + 1>> /\ IsOctet(Opener(r), size)
  BY DEF Meets, Receiver
<1>2. l \in Nat /\ l >= 1
  BY <1>1
<1>3. p \in 1 .. Len(size) /\ size[p] \in Nat
  BY <1>1, SizeFacts DEF IsOctet
<1> HIDE DEF l, p
<1>4. o[1] = p /\ o[2] = l + 1
  BY <1>1
<1>5. fr.ptr # 0
  BY <1>2, <1>4, PointerSays, LengthsAreNumbers DEF NoPkt
<1>6. /\ c \in 1 .. MaxData
      /\ \A a \in 1 .. c : fr.data[a] = <<o[1], o[2] + (a - 1)>>
      /\ c < MaxData => o[2] + c - 1 = size[o[1]]
      /\ o[2] + c - 1 <= size[o[1]]
  BY <1>5, NoStarts
<1> HIDE DEF c, o
<1>7. c \in Nat /\ MaxData \in Nat
  BY <1>6, LengthsAreNumbers
<1>8. ASSUME NEW a \in 1 .. c PROVE fr.data[a] = <<p, l + a>>
  BY <1>2, <1>4, <1>6, <1>7
<1>9. l + c <= size[p] /\ (c < MaxData => l + c = size[p])
  BY <1>2, <1>3, <1>4, <1>6, <1>7
<1> QED BY <1>2, <1>3, <1>4, <1>5, <1>8, <1>9 DEF p, l, c, o

(* The octets j of the loop with the first c of the frame behind them. *)
JoinedTo(r, fr, h, c, j) ==
    LET p == Opener(r)[1]
        l == Len(r.buf)
    IN  /\ j \in Seq(Octet \cup {Idle}) /\ Len(j) = l + c /\ l \in Nat
        /\ j # <<>> /\ j[1] = Opener(r) /\ p \in 1 .. Len(size) /\ Opener(r) = <<p, 1>>
        /\ Named(j) # 0 => Named(j) = p /\ j = WholePkt(p) /\ fr.data[c] = <<p, size[p]>>
        /\ p \in h => PktsOf(j) \cap h # {}
        /\ p \notin h /\ (\A a \in 1 .. c : fr.data[a] = <<p, l + a>>) =>
              \A k \in 1 .. Len(j) : j[k] = <<p, k>>

LEMMA Joined ==
    ASSUME size \in Seq(Sizes), Len(size) <= MaxPkts, NEW fr \in Frame, NEW h, NEW r,
           Meets(r, fr, h), r.loop = "OPEN",
           NEW c \in 1 .. MaxData, NEW t \in Seq(Octet \cup {Idle}), Len(t) = c,
           \A k \in 1 .. c : t[k] = fr.data[k]
    PROVE  JoinedTo(r, fr, h, c, r.buf \o t)
<1> DEFINE j == r.buf \o t
           p == Opener(r)[1]
           l == Len(r.buf)
           S == Octet \cup {Idle}
<1>1. /\ r.buf \in Seq(S) /\ r.buf # <<>> /\ t \in Seq(S) /\ IsOctet(Opener(r), size) /\ Opener(r)[2] = 1
      /\ p \notin h => \A k \in 1 .. l : r.buf[k] = <<p, k>>
  BY DEF Meets, Receiver
<1> HIDE DEF S
<1>2. /\ j \in Seq(S) /\ Len(j) = l + c /\ l \in Nat
      /\ \A i \in 1 .. l : j[i] = r.buf[i] /\ i \in 1 .. Len(j)
      /\ \A i \in 1 .. c : j[l + i] = t[i] /\ l + i \in 1 .. Len(j)
      /\ \A i \in 1 .. Len(j) : i \in 1 .. l \/ \E k \in 1 .. c : i = l + k
  <2> DEFINE b == r.buf
  <2>1. b \in Seq(S) /\ t \in Seq(S)
    BY <1>1
  <2> HIDE DEF b
  <2>2. (b \o t) \in Seq(S) /\ Len(b \o t) = Len(b) + Len(t) /\ Len(b) \in Nat /\ Len(t) \in Nat
    BY <2>1, SMTT(30)
  <2>3. \A i \in 1 .. Len(b) : (b \o t)[i] = b[i] /\ i \in 1 .. Len(b \o t)
    BY <2>1, TwoSequences
  <2>4. \A i \in 1 .. Len(t) : (b \o t)[Len(b) + i] = t[i] /\ Len(b) + i \in 1 .. Len(b \o t)
    BY <2>1, TwoSequences
  <2>5. ASSUME NEW i \in 1 .. Len(b \o t), i \notin 1 .. Len(b) PROVE \E k \in 1 .. Len(t) : i = Len(b) + k
    <3>1. i - Len(b) \in 1 .. Len(t) /\ i = Len(b) + (i - Len(b))
      BY <2>2, <2>5
    <3> QED BY <3>1
  <2> QED BY <2>2, <2>3, <2>4, <2>5 DEF b, j
<1> HIDE DEF j
<1>3. l >= 1 /\ 1 \in 1 .. l /\ c \in Nat /\ c >= 1 /\ c \in 1 .. c /\ MaxPkts \in Nat
  BY <1>1, <1>2, LengthsAreNumbers
<1>4. j # <<>> /\ j[1] = Opener(r) /\ 1 \in 1 .. Len(j) /\ Opener(r) \in S
  BY <1>1, <1>2, <1>3 DEF Opener
<1>5. p \in 1 .. Len(size) /\ p \in Nat /\ p >= 1 /\ Opener(r) = <<p, 1>> /\ Opener(r) # Idle
  <2>1. p \in 1 .. Len(size) /\ Opener(r)[2] = 1
    BY <1>1 DEF IsOctet
  <2>2. Opener(r) = <<p, Opener(r)[2]>>
    BY <1>4, OctetFacts DEF S
  <2>3. <<p, 1>> # Idle
    BY <2>1 DEF Idle
  <2> QED BY <2>1, <2>2, <2>3
<1>6. ASSUME Named(j) # 0 PROVE Named(j) = p /\ j = WholePkt(p) /\ fr.data[c] = <<p, size[p]>>
  <2>1. Named(j) = p /\ j = WholePkt(p)
    BY <1>4, <1>6, NamedIs
  <2>2. Len(j) = size[p] /\ j[size[p]] = <<p, size[p]>>
    BY <2>1, <1>5, WholePackets
  <2>3. j[l + c] = fr.data[c]
    BY <1>2, <1>3
  <2> QED BY <2>1, <2>2, <2>3, <1>2
<1>7. ASSUME p \in h PROVE PktsOf(j) \cap h # {}
  <2>1. j[1] \in ToSet(j) \ {Idle}
    BY <1>2, <1>4, <1>5 DEF ToSet
  <2>2. p \in PktsOf(j)
    BY <2>1, <1>4 DEF PktsOf
  <2> QED BY <2>2, <1>7
<1>8. ASSUME p \notin h, \A a \in 1 .. c : fr.data[a] = <<p, l + a>>, NEW k \in 1 .. Len(j)
      PROVE  j[k] = <<p, k>>
  <2>1. CASE k \in 1 .. l
    BY <2>1, <1>1, <1>2, <1>8
  <2>2. CASE \E i \in 1 .. c : k = l + i
    BY <2>2, <1>2, <1>8
  <2> QED BY <2>1, <2>2, <1>2
<1>9. JoinedTo(r, fr, h, c, j)
  BY <1>2, <1>4, <1>5, <1>6, <1>7, <1>8 DEF JoinedTo, S
<1> QED BY <1>9 DEF j

(* As much of a packet as is there. *)
LEMMA PrefixSays ==
    ASSUME size \in Seq(Sizes), NEW p \in 1 .. Len(size), NEW j \in Seq(Octet \cup {Idle}), NEW garbage,
           j # <<>>, \A k \in 1 .. Len(j) : j[k] = <<p, k>>
    PROVE  /\ Len(j) = size[p] => j = WholePkt(p)
           /\ PacketLen(j, garbage) = IF Len(j) < LenAt THEN 0 ELSE size[p]
           /\ size[p] \in Nat /\ size[p] >= LenAt /\ size[p] <= MaxSdu
<1>1. /\ size[p] \in Nat /\ size[p] >= LenAt /\ size[p] >= 1 /\ size[p] <= MaxSdu
      /\ LenAt \in Nat /\ LenAt >= 1 /\ Len(j) \in Nat /\ Len(j) >= 1
  BY SizeFacts, LengthsAreNumbers
<1>2. ASSUME Len(j) = size[p] PROVE j = WholePkt(p)
  <2>1. j = [k \in 1 .. size[p] |-> j[k]]
    BY <1>2
  <2>2. WholePkt(p) = [k \in 1 .. size[p] |-> <<p, k>>]
    BY DEF WholePkt
  <2> QED BY <2>1, <2>2, <1>2
<1>3. CASE Len(j) < LenAt
  BY <1>3, <1>1, <1>2 DEF PacketLen
<1>4. CASE ~ (Len(j) < LenAt)
  <2>1. 1 \in 1 .. Len(j) /\ j[1][1] = p /\ \A k \in 1 .. LenAt : k \in 1 .. Len(j)
    BY <1>1, <1>4
  <2>2. \A k \in 1 .. LenAt : j[k] = <<j[1][1], k>>
    BY <2>1
  <2>3. PacketLen(j, garbage) = size[p]
    BY <2>1, <2>2, <1>4 DEF PacketLen
  <2> QED BY <2>3, <1>1, <1>2, <1>4
<1> QED BY <1>3, <1>4

(* What becomes of the packet in the loop when its end may be in the frame. *)
Joins(r, fr, j, h) ==
    LET p == Opener(r)[1]
    IN  /\ r.loop = "OPEN" /\ p \in 1 .. Len(size)
        /\ Named(j) # 0 => Named(j) = p /\ Holds(fr, <<p, size[p]>>)
        /\ (j = WholePkt(p) /\ Named(j) = p) \/ PktsOf(j) \cap h # {}

LEMMA FoundHandled ==
    ASSUME size \in Seq(Sizes), Len(size) <= MaxPkts, stuffs, NEW fr \in Frame, NEW h, NEW r,
           Meets(r, fr, h), NEW had, NEW j \in Seq(Octet \cup {Idle}), NEW s, Found(fr, had, s),
           had = r.rx \/ (had = Append(r.rx, j) /\ Joins(r, fr, j, h)),
           ~ s.denied => \A p \in 1 .. Len(size) : Holds(fr, <<p, 1>>) => Got(had, s, p),
           r.loop = "OPEN" /\ Opener(r)[1] \notin h /\ ~ Excused(r, Opener(r)[1]) =>
               had = Append(r.rx, j) /\ Named(j) = Opener(r)[1]
    PROVE  Handled(r, fr, s, h)
<1> DEFINE b == Len(r.rx)
           p1 == Opener(r)[1]
           S == Seq(Octet \cup {Idle})
           new == Len(r.rx) + 1 .. Len(s.rx)
<1>1. r.rx \in Seq(S) /\ b \in Nat /\ j \in S
  BY DEF Meets, Receiver
<1> HIDE DEF S
<1>2. /\ Len(had) \in Nat /\ b <= Len(had) /\ Len(had) <= b + 1 /\ \A i \in 1 .. b : had[i] = r.rx[i] /\ i \in 1 .. Len(had)
      /\ Len(had) = b + 1 => had[b + 1] = j /\ Joins(r, fr, j, h)
      /\ had = Append(r.rx, j) => Len(had) = b + 1
  <2>1. CASE had = r.rx
    <3>1. Len(Append(r.rx, j)) = b + 1
      BY <1>1
    <3> QED BY <2>1, <3>1, <1>1
  <2>2. CASE had = Append(r.rx, j) /\ Joins(r, fr, j, h)
    BY <2>2, <1>1
  <2> QED BY <2>1, <2>2
<1>3. /\ s \in Receiver /\ Len(s.buf) <= MaxSdu /\ Len(had) <= Len(s.rx) /\ Len(s.rx) <= RxCap /\ Len(s.rx) \in Nat
      /\ \A i \in 1 .. Len(had) : s.rx[i] = had[i]
      /\ \A i \in Len(had) + 1 .. Len(s.rx) :
            LET p == Named(s.rx[i])
            IN  /\ p \in 1 .. Len(size) /\ s.rx[i] = WholePkt(p)
                /\ Holds(fr, <<p, 1>>) /\ Holds(fr, <<p, size[p]>>)
      /\ \A i, k \in Len(had) + 1 .. Len(s.rx) : i < k => Named(s.rx[i]) < Named(s.rx[k])
  BY SMTT(30) DEF Found, Receiver
<1>4. s.loop = "OPEN" =>
          LET p == Opener(s)[1]
          IN  /\ s.buf # <<>> /\ p \in 1 .. Len(size) /\ Holds(fr, <<p, 1>>)
              /\ \A i \in Len(had) + 1 .. Len(s.rx) : Named(s.rx[i]) < p
              /\ \A k \in 1 .. Len(s.buf) : s.buf[k] = <<p, k>>
              /\ Len(s.buf) < size[p] /\ s.exp \in {0, size[p]}
              /\ fr.data[MaxData] = <<p, Len(s.buf)>>
  BY DEF Found
(* The packet of the loop was sent before those that begin in the frame. *)
<1>5. ASSUME r.loop = "OPEN", NEW p \in 1 .. Len(size), Holds(fr, <<p, 1>>) PROVE p1 < p
  <2>1. PICK a \in 1 .. MaxData : fr.data[a] = <<p, 1>>
    BY <1>5 DEF Holds
  <2>2. p \in Nat /\ p >= 1 /\ Len(size) \in Nat
    OBVIOUS
  <2>3. <<p, 1>> # Idle
    BY <2>2 DEF Idle
  <2>4. Before(Opener(r), <<p, 1>>) /\ Opener(r)[2] = 1
    BY <1>5, <2>1, <2>3 DEF Meets
  <2> QED BY <2>4 DEF Before
<1>6. ASSUME NEW i \in new
      PROVE  \/ i = b + 1 /\ Len(had) = b + 1 /\ s.rx[i] = j /\ Joins(r, fr, j, h)
             \/ i \in Len(had) + 1 .. Len(s.rx)
  <2>1. CASE i <= Len(had)
    <3>1. i = b + 1 /\ Len(had) = b + 1 /\ b + 1 \in 1 .. Len(had)
      BY <2>1, <1>1, <1>2, <1>3
    <3> QED BY <3>1, <1>2, <1>3
  <2>2. CASE i > Len(had)
    BY <2>2, <1>1, <1>2, <1>3
  <2> QED BY <2>1, <2>2, <1>1, <1>2, <1>3
<1>7. ASSUME NEW i \in new
      PROVE  LET p == Named(s.rx[i])
             IN  /\ (p \in 1 .. Len(size) /\ s.rx[i] = WholePkt(p)) \/ PktsOf(s.rx[i]) \cap h # {}
                 /\ p # 0 => /\ p \in 1 .. Len(size) /\ Holds(fr, <<p, size[p]>>)
                             /\ Holds(fr, <<p, 1>>) \/ (r.loop = "OPEN" /\ p = Opener(r)[1])
  <2>1. CASE i \in Len(had) + 1 .. Len(s.rx)
    BY <2>1, <1>3
  <2>2. CASE s.rx[i] = j /\ Joins(r, fr, j, h)
    BY <2>2 DEF Joins
  <2> QED BY <2>1, <2>2, <1>6
<1>8. ASSUME NEW i \in new, NEW k \in new, i < k, Named(s.rx[i]) # 0, Named(s.rx[k]) # 0
      PROVE  Named(s.rx[i]) < Named(s.rx[k])
  <2>1. i \in Nat /\ k \in Nat
    BY <1>1, <1>3
  <2>2. k \in Len(had) + 1 .. Len(s.rx)
    BY <2>1, <1>1, <1>2, <1>3, <1>8
  <2>3. CASE i \in Len(had) + 1 .. Len(s.rx)
    BY <2>2, <2>3, <1>3, <1>8
  <2>4. CASE s.rx[i] = j /\ Joins(r, fr, j, h)
    <3>1. Named(s.rx[i]) = p1 /\ r.loop = "OPEN"
      BY <2>4, <1>8 DEF Joins
    <3>2. Named(s.rx[k]) \in 1 .. Len(size) /\ Holds(fr, <<Named(s.rx[k]), 1>>)
      BY <2>2, <1>3
    <3> QED BY <3>1, <3>2, <1>5
  <2> QED BY <2>3, <2>4, <1>6
<1>9. ASSUME s.loop = "OPEN"
      PROVE  LET p == Opener(s)[1]
             IN  /\ s.buf # <<>> /\ p \in 1 .. Len(size) /\ Opener(s) = <<p, 1>> /\ Holds(fr, <<p, 1>>)
                 /\ \A i \in new : Named(s.rx[i]) < p
  <2> DEFINE p == Opener(s)[1]
  <2>1. /\ s.buf # <<>> /\ p \in 1 .. Len(size) /\ Holds(fr, <<p, 1>>)
        /\ \A i \in Len(had) + 1 .. Len(s.rx) : Named(s.rx[i]) < p
        /\ \A k \in 1 .. Len(s.buf) : s.buf[k] = <<p, k>>
    BY <1>4, <1>9
  <2>2. 1 \in 1 .. Len(s.buf)
    <3>1. s.buf \in Seq(Octet \cup {Idle})
      BY <1>3 DEF Receiver
    <3> QED BY <2>1, <3>1
  <2>3. Opener(s) = <<p, 1>>
    BY <2>1, <2>2 DEF Opener
  <2> HIDE DEF p
  <2>4. ASSUME NEW i \in new PROVE Named(s.rx[i]) < p
    <3>1. CASE i \in Len(had) + 1 .. Len(s.rx)
      BY <3>1, <2>1
    <3>2. CASE s.rx[i] = j /\ Joins(r, fr, j, h)
      <4>1. r.loop = "OPEN" /\ (Named(s.rx[i]) = 0 \/ Named(s.rx[i]) = p1)
        BY <3>2 DEF Joins
      <4>2. p1 < p
        BY <4>1, <2>1, <1>5
      <4>3. 0 < p
        BY <2>1
      <4> QED BY <4>1, <4>2, <4>3
    <3> QED BY <3>1, <3>2, <1>6
  <2> QED BY <2>1, <2>3, <2>4 DEF p
<1>10. ASSUME ~ s.denied, NEW p \in 1 .. Len(size), p \notin h, ~ Excused(r, p),
              Holds(fr, <<p, 1>>) \/ (r.loop = "OPEN" /\ p1 = p)
       PROVE  Got(r.rx, s, p)
  <2>1. CASE Holds(fr, <<p, 1>>)
    <3>1. Got(had, s, p)
      BY <2>1, <1>10
    <3>2. \A i \in Len(had) + 1 .. Len(s.rx) : i \in new
      BY <1>1, <1>2, <1>3
    <3> QED BY <3>1, <3>2 DEF Got
  <2>2. CASE r.loop = "OPEN" /\ p1 = p
    <3>1. had = Append(r.rx, j) /\ Named(j) = p
      BY <2>2, <1>10
    <3>2. b + 1 \in new /\ b + 1 \in 1 .. Len(had) /\ had[b + 1] = j
      BY <3>1, <1>1, <1>2, <1>3
    <3>3. s.rx[b + 1] = j
      BY <3>2, <1>3
    <3> QED BY <3>1, <3>2, <3>3 DEF Got
  <2> QED BY <2>1, <2>2, <1>10
<1>11. \A i \in 1 .. b : s.rx[i] = r.rx[i]
  BY <1>2, <1>3
<1>12. s.loop = "OPEN" /\ Opener(s)[1] \notin h =>
          LET p == Opener(s)[1]
          IN  /\ \A k \in 1 .. Len(s.buf) : s.buf[k] = <<p, k>>
              /\ Len(s.buf) < size[p] /\ (s.exp = size[p] \/ (stuffs /\ s.exp = 0))
              /\ fr.data[MaxData] = <<p, Len(s.buf)>>
  BY <1>4
<1>13. b <= Len(s.rx)
  BY <1>1, <1>2, <1>3
<1> QED BY <1>3, <1>7, <1>8, <1>9, <1>10, <1>11, <1>12, <1>13 DEF Handled

(* The frame goes to the packet in the loop, or all that it holds of it does. *)
LEMMA JoinedHandled ==
    ASSUME size \in Seq(Sizes), Len(size) <= MaxPkts, NEW fr \in Frame, Shaped(fr, size), Live(fr),
           fr.ptr # 0, \A a \in 1 .. MaxData : fr.data[a] # Idle => fr.data[a][2] # 1,
           NEW h, NEW r, Meets(r, fr, h), r.loop = "OPEN",
           NEW t \in Seq(Octet \cup {Idle}), Len(t) = Part(fr), \A k \in 1 .. Part(fr) : t[k] = fr.data[k],
           NEW s,
           LET j == r.buf \o t
               p == Opener(r)[1]
           IN  \/ s = Deliver(r, j) /\ (p \notin h => Len(j) = size[p])
               \/ s = Keep(r, j) /\ Len(j) <= MaxSdu /\ (p \notin h => Len(j) # size[p])
               \/ s = Shut(r) /\ (p \notin h => Excused(r, p))
    PROVE  Handled(r, fr, s, h)
<1> DEFINE j == r.buf \o t
           p == Opener(r)[1]
           l == Len(r.buf)
           c == Part(fr)
           b == Len(r.rx)
           new == Len(r.rx) + 1 .. Len(s.rx)
           S == Seq(Octet \cup {Idle})
<1>1. c \in 1 .. MaxData /\ c \in Nat /\ MaxData \in Nat /\ MaxSdu \in Nat
  BY NoStarts, LengthsAreNumbers
<1>0. Len(t) = c /\ \A k \in 1 .. c : t[k] = fr.data[k]
  OBVIOUS
<1> HIDE DEF c
<1>2. /\ j \in S /\ Len(j) = l + c /\ l \in Nat /\ j # <<>> /\ j[1] = Opener(r)
      /\ p \in 1 .. Len(size) /\ Opener(r) = <<p, 1>>
      /\ Named(j) # 0 => Named(j) = p /\ j = WholePkt(p) /\ fr.data[c] = <<p, size[p]>>
      /\ p \in h => PktsOf(j) \cap h # {}
      /\ p \notin h /\ (\A a \in 1 .. c : fr.data[a] = <<p, l + a>>) =>
            \A k \in 1 .. Len(j) : j[k] = <<p, k>>
  <2>1. JoinedTo(r, fr, h, c, r.buf \o t)
    BY <1>0, <1>1, Joined
  <2> HIDE DEF j
  <2>2. JoinedTo(r, fr, h, c, j)
    BY <2>1 DEF j
  <2> QED BY <2>2 DEF JoinedTo
<1>3. ASSUME p \notin h
      PROVE  /\ \A k \in 1 .. Len(j) : j[k] = <<p, k>>
             /\ Len(j) <= size[p] /\ (c < MaxData => Len(j) = size[p]) /\ fr.data[c] = <<p, Len(j)>>
             /\ size[p] \in Nat /\ Len(j) \in Nat /\ c \in 1 .. c
             /\ Len(j) = size[p] => j = WholePkt(p) /\ Named(j) = p
             /\ r.exp = size[p] \/ (stuffs /\ r.exp = 0)
  <2>1. /\ \A a \in 1 .. c : fr.data[a] = <<p, l + a>>
        /\ l + c <= size[p] /\ (c < MaxData => l + c = size[p]) /\ size[p] \in Nat
    BY <1>3, CleanJoin DEF c
  <2>2. \A k \in 1 .. Len(j) : j[k] = <<p, k>>
    BY <2>1, <1>2, <1>3
  <2> HIDE DEF j, p
  <2>3. c \in 1 .. c
    BY <1>1
  <2>4. Len(j) = size[p] => j = WholePkt(p)
    BY <2>2, <1>2, PrefixSays
  <2>5. Len(j) = size[p] => Named(j) = p
    BY <2>4, <1>2, WholePackets
  <2>6. r.exp = size[p] \/ (stuffs /\ r.exp = 0)
    BY <1>3 DEF Meets, p
  <2> QED BY <2>1, <2>2, <2>3, <2>4, <2>5, <2>6, <1>2, SMTT(30)
<1>4. ASSUME NEW d \in 1 .. Len(size) PROVE ~ Holds(fr, <<d, 1>>)
  <2>1. <<d, 1>> # Idle /\ <<d, 1>>[2] = 1
    BY DEF Idle
  <2> QED BY <2>1 DEF Holds
<1>5. r \in Receiver /\ r.rx \in Seq(S) /\ b \in Nat /\ b <= RxCap /\ Len(r.buf) <= MaxSdu /\ RxCap \in Nat
      /\ r.denied = FALSE
  BY TmCapsAssumption DEF Meets, Receiver
<1>6. /\ LET u == Shut(r)
         IN  u \in Receiver /\ u.loop = "CLOSED" /\ u.exp = r.exp /\ u.buf = <<>> /\ u.rx = r.rx
             /\ u.denied = r.denied
      /\ LET u == Keep(r, j)
         IN  u \in Receiver /\ u.loop = "OPEN" /\ u.exp = r.exp /\ u.buf = j /\ u.rx = r.rx
             /\ u.denied = r.denied
      /\ LET u == Deliver(r, j)
         IN  /\ u \in Receiver /\ u.loop = "CLOSED" /\ u.exp = r.exp /\ u.buf = <<>>
             /\ Len(r.rx) < RxCap => u.rx = Append(r.rx, j) /\ u.denied = r.denied
             /\ ~ (Len(r.rx) < RxCap) => u.rx = r.rx /\ u.denied
  BY <1>2, <1>5, LoopEnds
<1>7. \/ s = Deliver(r, j) /\ (p \notin h => Len(j) = size[p])
      \/ s = Keep(r, j) /\ Len(j) <= MaxSdu /\ (p \notin h => Len(j) # size[p])
      \/ s = Shut(r) /\ (p \notin h => Excused(r, p))
  OBVIOUS
<1> HIDE DEF j, p, S
<1>8. CASE s = Deliver(r, j) /\ (p \notin h => Len(j) = size[p]) /\ Len(r.rx) < RxCap
  <2>1. s \in Receiver /\ s.loop = "CLOSED" /\ s.buf = <<>> /\ s.rx = Append(r.rx, j)
    BY <1>6, <1>8
  <2>2. /\ Len(s.rx) = b + 1 /\ s.rx[b + 1] = j /\ \A i \in 1 .. b : s.rx[i] = r.rx[i]
        /\ \A i \in new : i = b + 1
    BY <2>1, <1>2, <1>5
  <2>3. Len(s.buf) <= MaxSdu /\ b <= Len(s.rx) /\ Len(s.rx) <= RxCap /\ s.loop # "OPEN" /\ b + 1 \in new
    BY <2>1, <2>2, <1>1, <1>5, <1>8
  <2>4. ASSUME NEW i \in new
        PROVE  LET d == Named(s.rx[i])
               IN  /\ (d \in 1 .. Len(size) /\ s.rx[i] = WholePkt(d)) \/ PktsOf(s.rx[i]) \cap h # {}
                   /\ d # 0 => /\ d \in 1 .. Len(size) /\ Holds(fr, <<d, size[d]>>)
                               /\ Holds(fr, <<d, 1>>) \/ (r.loop = "OPEN" /\ d = Opener(r)[1])
    <3>1. s.rx[i] = j
      BY <2>2
    <3>2. (Named(j) \in 1 .. Len(size) /\ j = WholePkt(Named(j))) \/ PktsOf(j) \cap h # {}
      BY <1>2, <1>3, <1>8
    <3>3. Named(j) # 0 => Holds(fr, <<p, size[p]>>)
      BY <1>1, <1>2 DEF Holds
    <3> QED BY <3>1, <3>2, <3>3, <1>2 DEF p
  <2>5. \A i, k \in new : ~ (i < k)
    BY <2>2, <1>5
  <2>6. ASSUME NEW d \in 1 .. Len(size), d \notin h, Holds(fr, <<d, 1>>) \/ Opener(r)[1] = d
        PROVE  Got(r.rx, s, d)
    <3>1. d = p
      BY <2>6, <1>4 DEF p
    <3>2. Named(s.rx[b + 1]) = d
      BY <3>1, <2>2, <2>6, <1>3, <1>8
    <3> QED BY <3>2, <2>3 DEF Got
  <2> QED BY <2>1, <2>2, <2>3, <2>4, <2>5, <2>6 DEF Handled
<1>9. ASSUME s.rx = r.rx
      PROVE  new = {} /\ Len(r.rx) <= Len(s.rx) /\ Len(s.rx) <= RxCap /\ \A i \in 1 .. b : s.rx[i] = r.rx[i]
  BY <1>5, <1>9
<1>10. CASE s = Deliver(r, j) /\ ~ (Len(r.rx) < RxCap)
  <2>1. s \in Receiver /\ s.loop = "CLOSED" /\ s.buf = <<>> /\ s.rx = r.rx /\ s.denied
    BY <1>6, <1>10
  <2>2. Len(s.buf) <= MaxSdu /\ s.loop # "OPEN"
    BY <2>1, <1>1
  <2> QED BY <2>1, <2>2, <1>9 DEF Handled
<1>11. CASE s = Keep(r, j) /\ Len(j) <= MaxSdu /\ (p \notin h => Len(j) # size[p])
  <2>1. s \in Receiver /\ s.loop = "OPEN" /\ s.buf = j /\ s.rx = r.rx /\ s.exp = r.exp
    BY <1>6, <1>11
  <2>2. s.buf # <<>> /\ Opener(s) = Opener(r) /\ Opener(s)[1] = p
    BY <2>1, <1>2 DEF Opener, p
  <2>3. ASSUME p \notin h
        PROVE  /\ \A k \in 1 .. Len(s.buf) : s.buf[k] = <<p, k>>
               /\ Len(s.buf) < size[p] /\ (s.exp = size[p] \/ (stuffs /\ s.exp = 0))
               /\ fr.data[MaxData] = <<p, Len(s.buf)>>
    <3>1. c = MaxData
      BY <2>3, <1>1, <1>3, <1>11
    <3>2. Len(j) < size[p]
      BY <2>3, <1>3, <1>11
    <3> QED BY <3>1, <3>2, <2>1, <2>3, <1>3
  <2>4. ASSUME NEW d \in 1 .. Len(size), Holds(fr, <<d, 1>>) \/ Opener(r)[1] = d
        PROVE  Got(r.rx, s, d)
    BY <2>1, <2>2, <2>4, <1>4 DEF Got
  <2>5. Len(s.buf) <= MaxSdu
    BY <2>1, <1>11
  <2>6. s.loop = "OPEN" /\ Opener(s)[1] \notin h =>
            LET d == Opener(s)[1]
            IN  /\ \A k \in 1 .. Len(s.buf) : s.buf[k] = <<d, k>>
                /\ Len(s.buf) < size[d] /\ (s.exp = size[d] \/ (stuffs /\ s.exp = 0))
                /\ fr.data[MaxData] = <<d, Len(s.buf)>>
    BY <2>2, <2>3
  <2> QED BY <2>1, <2>2, <2>4, <2>5, <2>6, <1>9 DEF Handled
<1>12. CASE s = Shut(r) /\ (p \notin h => Excused(r, p))
  <2>1. s \in Receiver /\ s.loop = "CLOSED" /\ s.buf = <<>> /\ s.rx = r.rx
    BY <1>6, <1>12
  <2>2. Len(s.buf) <= MaxSdu /\ s.loop # "OPEN"
    BY <2>1, <1>1
  <2>3. \A d \in 1 .. Len(size) :
           ~ (d \notin h /\ ~ Excused(r, d) /\ (Holds(fr, <<d, 1>>) \/ Opener(r)[1] = d))
    BY <1>4, <1>12 DEF p
  <2> QED BY <2>1, <2>2, <2>3, <1>9 DEF Handled
<1> QED BY <1>7, <1>8, <1>10, <1>11, <1>12

(* Nothing of the frame is heard. *)
LEMMA PassedBy ==
    ASSUME NEW fr \in Frame, NEW h, NEW r, Meets(r, fr, h), r.loop # "OPEN",
           \A a \in 1 .. MaxData : fr.data[a] # Idle => fr.data[a][2] # 1
    PROVE  Handled(r, fr, r, h)
<1>1. r \in Receiver /\ Len(r.buf) <= MaxSdu /\ Len(r.rx) <= RxCap
  BY DEF Meets
<1>2. Len(r.rx) \in Nat /\ Len(r.rx) + 1 .. Len(r.rx) = {}
  <2>1. r.rx \in Seq(Seq(Octet \cup {Idle}))
    BY <1>1 DEF Receiver
  <2>2. Len(r.rx) \in Nat
    BY <2>1
  <2> QED BY <2>2
<1>3. ASSUME NEW d \in 1 .. Len(size) PROVE ~ Holds(fr, <<d, 1>>)
  <2>1. <<d, 1>> # Idle /\ <<d, 1>>[2] = 1
    BY DEF Idle
  <2> QED BY <2>1 DEF Holds
<1> QED BY <1>1, <1>2, <1>3 DEF Handled

-----------------------------------------------------------------------------
(* osdlp_tm_receive. *)

LEMMA JoinFrameHandled ==
    ASSUME size \in Seq(Sizes), Len(size) <= MaxPkts, NEW fr \in Frame, Shaped(fr, size), fr.ptr = NoPkt,
           NEW h, NEW r, Meets(r, fr, h), NEW garbage
    PROVE  Handled(r, fr, JoinFrame(r, fr.data, garbage), h)
<1> DEFINE j == r.buf \o fr.data
           p == Opener(r)[1]
           fits == Len(j) < MaxSdu \/ (r.exp # 0 /\ Len(j) = MaxSdu)
           target == IF r.exp = 0 THEN PacketLen(j, garbage) ELSE r.exp
           s == JoinFrame(r, fr.data, garbage)
           t == fr.data
<1>1. /\ MaxData \in Nat /\ MaxData >= 1 /\ MaxSdu \in Nat /\ LenAt \in Nat /\ LenAt >= 1
      /\ fr.ptr # 0 /\ Live(fr) /\ Part(fr) = MaxData /\ MaxData \in 1 .. MaxData
  BY LengthsAreNumbers DEF NoPkt, Oid, Live, Part
<1>2. \A a \in 1 .. MaxData : fr.data[a] # Idle => fr.data[a][2] # 1
  BY <1>1, NoStarts
<1>3. t \in Seq(Octet \cup {Idle}) /\ Len(t) = Part(fr) /\ \A k \in 1 .. Part(fr) : t[k] = fr.data[k]
  BY <1>1, FrameFacts
<1>4. s = CASE r.loop = "CLOSED"                               -> r
            [] r.loop = "OPEN" /\ ~ fits                       -> Shut(r)
            [] r.loop = "OPEN" /\ fits /\ Len(j) = target      -> Deliver(r, j)
            [] r.loop = "OPEN" /\ fits /\ Len(j) # target      -> Keep(r, j)
  BY DEF JoinFrame
<1>5. r.loop \in {"OPEN", "CLOSED"}
  BY DEF Meets, Receiver
<1>6. CASE r.loop = "CLOSED"
  <2>1. s = r
    BY <1>4, <1>6
  <2> QED BY <2>1, <1>2, <1>6, PassedBy
<1>7. CASE r.loop = "OPEN"
  <2>1. JoinedTo(r, fr, h, MaxData, j)
    BY <1>1, <1>3, <1>7, Joined
  <2> HIDE DEF s, j, fits, target
  <2>2. /\ j \in Seq(Octet \cup {Idle}) /\ Len(j) = Len(r.buf) + MaxData /\ Len(r.buf) \in Nat /\ j # <<>>
        /\ p \in 1 .. Len(size) /\ Len(j) \in Nat /\ Len(j) >= 1
    BY <2>1, <1>1 DEF JoinedTo
  <2>3. ASSUME p \notin h
        PROVE  /\ Len(j) <= size[p] /\ size[p] \in Nat /\ size[p] <= MaxSdu /\ size[p] >= LenAt
               /\ PacketLen(j, garbage) = IF Len(j) < LenAt THEN 0 ELSE size[p]
               /\ r.exp = size[p] \/ (stuffs /\ r.exp = 0)
    <3>1. /\ \A a \in 1 .. MaxData : fr.data[a] = <<p, Len(r.buf) + a>>
          /\ Len(r.buf) + MaxData <= size[p]
      BY <2>3, <1>1, <1>7, CleanJoin
    <3>2. \A k \in 1 .. Len(j) : j[k] = <<p, k>>
      BY <3>1, <2>1, <2>3 DEF JoinedTo
    <3>3. r.exp = size[p] \/ (stuffs /\ r.exp = 0)
      BY <2>3, <1>7 DEF Meets
    <3> HIDE DEF p
    <3> QED BY <3>1, <3>2, <3>3, <2>2, PrefixSays
  <2>4. \/ s = Deliver(r, j) /\ (p \notin h => Len(j) = size[p])
        \/ s = Keep(r, j) /\ Len(j) <= MaxSdu /\ (p \notin h => Len(j) # size[p])
        \/ s = Shut(r) /\ (p \notin h => Excused(r, p))
    <3>1. CASE ~ fits
      <4>1. s = Shut(r)
        BY <3>1, <1>4, <1>7
      <4>2. p \notin h => stuffs /\ size[p] = MaxSdu /\ r.exp = 0
        BY <3>1, <2>2, <2>3, <1>1, SMTT(30) DEF fits
      <4>3. p \notin h => Excused(r, p)
        BY <4>2 DEF Excused
      <4> QED BY <4>1, <4>3
    <3>2. CASE fits /\ Len(j) = target
      <4>1. s = Deliver(r, j)
        BY <3>2, <1>4, <1>7
      <4>2. p \notin h => Len(j) = size[p]
        BY <3>2, <2>2, <2>3, <1>1 DEF target
      <4> QED BY <4>1, <4>2
    <3>3. CASE fits /\ Len(j) # target
      <4>1. s = Keep(r, j)
        BY <3>3, <1>4, <1>7
      <4>2. Len(j) <= MaxSdu
        BY <3>3, <2>2, <1>1 DEF fits
      <4>3. p \notin h => Len(j) # size[p]
        BY <3>3, <2>2, <2>3, <1>1 DEF target
      <4> QED BY <4>1, <4>2, <4>3
    <3> QED BY <3>1, <3>2, <3>3
  <2>5. \/ s = Deliver(r, r.buf \o t) /\ (p \notin h => Len(r.buf \o t) = size[p])
        \/ s = Keep(r, r.buf \o t) /\ Len(r.buf \o t) <= MaxSdu /\ (p \notin h => Len(r.buf \o t) # size[p])
        \/ s = Shut(r) /\ (p \notin h => Excused(r, p))
    BY <2>4 DEF j
  <2> HIDE DEF t
  <2>6. Handled(r, fr, s, h)
    BY <2>5, <1>1, <1>2, <1>3, <1>7, JoinedHandled DEF t
  <2> QED BY <2>6 DEF s
<1> QED BY <1>5, <1>6, <1>7

LEMMA JoinTailHandled ==
    ASSUME size \in Seq(Sizes), Len(size) <= MaxPkts, stuffs, NEW fr \in Frame, Shaped(fr, size),
           fr.ptr \in 1 .. MaxData - 1, NEW h, NEW r, Meets(r, fr, h), NEW garbage
    PROVE  Handled(r, fr, JoinTail(r, fr, garbage), h)
<1> DEFINE t == SubSeq(fr.data, 1, fr.ptr)
           j == r.buf \o t
           p == Opener(r)[1]
           c == fr.ptr
           target == IF r.exp # 0 THEN r.exp ELSE IF Len(j) < MaxSdu THEN PacketLen(j, garbage) ELSE 0
           s1 == IF r.loop = "OPEN" /\ Len(j) = target THEN Deliver(r, j) ELSE r
           s == JoinTail(r, fr, garbage)
<1>1. /\ MaxData \in Nat /\ MaxData >= 1 /\ MaxSdu \in Nat /\ LenAt \in Nat /\ LenAt >= 1
      /\ c \in Nat /\ c >= 1 /\ c < MaxData /\ c \in 1 .. MaxData /\ fr.ptr # 0 /\ Live(fr) /\ Part(fr) = c
      /\ RxCap \in Nat
  BY LengthsAreNumbers, TmCapsAssumption DEF NoPkt, Oid, Live, Part
<1>2. \A a \in 1 .. c : fr.data[a][2] # 1
  BY <1>1, NoStarts
<1>3. t \in Seq(Octet \cup {Idle}) /\ Len(t) = c /\ \A k \in 1 .. c : t[k] = fr.data[k]
  <2> DEFINE data == fr.data
  <2>1. data \in Seq(Octet \cup {Idle}) /\ 0 + c <= Len(data) /\ 0 \in Nat
    BY <1>1, FrameFacts
  <2> HIDE DEF data
  <2>2. LET u == SubSeq(data, 0 + 1, 0 + c)
        IN  u \in Seq(Octet \cup {Idle}) /\ Len(u) = c /\ \A k \in 1 .. c : u[k] = data[0 + k]
    BY <2>1, <1>1, SubSeqAt
  <2>3. 0 + 1 = 1 /\ 0 + c = c /\ \A k \in 1 .. c : 0 + k = k
    BY <1>1
  <2> QED BY <2>2, <2>3 DEF data
<1>4. s = IF s1.denied THEN s1 ELSE Explore(s1, fr.data, c)
  BY DEF JoinTail
<1>5. /\ r \in Receiver /\ r.rx \in Seq(Seq(Octet \cup {Idle})) /\ Len(r.rx) \in Nat /\ Len(r.rx) <= RxCap
      /\ r.denied = FALSE
  BY DEF Meets, Receiver
<1>6. Border(fr.data, c)
  BY <1>1, PointerAtBorder
(* The loop over the frame, from what the queue has by then. *)
<1>7. ASSUME NEW u \in Receiver, Len(u.rx) <= RxCap, u.denied = FALSE
      PROVE  LET v == Explore(u, fr.data, c)
             IN  /\ Found(fr, u.rx, v)
                 /\ ~ v.denied => \A d \in 1 .. Len(size) : Holds(fr, <<d, 1>>) => Got(u.rx, v, d)
  <2> DEFINE v == Explore(u, fr.data, c)
  <2>1. /\ Found(fr, u.rx, v)
        /\ ~ v.denied => \A a \in c + 1 .. MaxData :
                             fr.data[a] # Idle /\ fr.data[a][2] = 1 => Got(u.rx, v, fr.data[a][1])
    BY <1>6, <1>7, ExploreHeard
  <2> HIDE DEF v
  <2>2. ASSUME ~ v.denied, NEW d \in 1 .. Len(size), Holds(fr, <<d, 1>>) PROVE Got(u.rx, v, d)
    <3>1. PICK a \in 1 .. MaxData : fr.data[a] = <<d, 1>>
      BY <2>2 DEF Holds
    <3>2. a \notin 1 .. c
      BY <3>1, <1>2
    <3>3. a \in c + 1 .. MaxData
      BY <3>2, <1>1
    <3>4. fr.data[a] # Idle /\ fr.data[a][2] = 1 /\ fr.data[a][1] = d
      BY <3>1 DEF Idle
    <3> QED BY <3>3, <3>4, <2>1, <2>2
  <2> QED BY <2>1, <2>2 DEF v
<1>8. r.loop = "OPEN" => JoinedTo(r, fr, h, c, j)
  BY <1>1, <1>3, Joined
<1> HIDE DEF t, j, target, s1, s
<1>9. r.loop = "OPEN" =>
        /\ j \in Seq(Octet \cup {Idle}) /\ Len(j) = Len(r.buf) + c /\ Len(r.buf) \in Nat /\ j # <<>>
        /\ p \in 1 .. Len(size) /\ Len(j) \in Nat /\ Len(j) >= 1
  BY <1>1, <1>8 DEF JoinedTo
<1>10. ASSUME r.loop = "OPEN", p \notin h
       PROVE  /\ Len(j) = size[p] /\ j = WholePkt(p) /\ Named(j) = p
              /\ Excused(r, p) \/ Len(j) = target
  <2>1. /\ \A a \in 1 .. c : fr.data[a] = <<p, Len(r.buf) + a>>
        /\ Len(r.buf) + c = size[p]
    BY <1>1, <1>10, CleanJoin
  <2>2. \A k \in 1 .. Len(j) : j[k] = <<p, k>>
    BY <2>1, <1>8, <1>10 DEF JoinedTo
  <2>3. r.exp = size[p] \/ (stuffs /\ r.exp = 0)
    BY <1>10 DEF Meets
  <2> HIDE DEF p
  <2>4. /\ size[p] \in Nat /\ size[p] <= MaxSdu /\ size[p] >= LenAt
        /\ PacketLen(j, garbage) = IF Len(j) < LenAt THEN 0 ELSE size[p]
        /\ Len(j) = size[p] => j = WholePkt(p)
    BY <2>2, <1>9, <1>10, PrefixSays DEF p
  <2>5. Len(j) = size[p] /\ j = WholePkt(p)
    BY <2>1, <2>4, <1>9, <1>10
  <2>6. Named(j) = p
    BY <2>5, <1>9, <1>10, WholePackets DEF p
  <2>7. (stuffs /\ size[p] = MaxSdu /\ r.exp = 0) \/ Len(j) = target
    BY <2>3, <2>4, <2>5, <1>1 DEF target
  <2>8. Excused(r, p) \/ Len(j) = target
    BY <2>7 DEF Excused
  <2> QED BY <2>5, <2>6, <2>8 DEF p
<1>11. CASE r.loop = "OPEN" /\ Len(j) = target
  <2>1. s1 = Deliver(r, j)
    BY <1>11 DEF s1
  <2>2. /\ s1 \in Receiver /\ s1.loop = "CLOSED" /\ s1.buf = <<>>
        /\ Len(r.rx) < RxCap => s1.rx = Append(r.rx, j) /\ s1.denied = r.denied
        /\ ~ (Len(r.rx) < RxCap) => s1.rx = r.rx /\ s1.denied
    BY <2>1, <1>5, <1>9, <1>11, LoopEnds
  <2>3. CASE ~ (Len(r.rx) < RxCap)
    <3>1. s = s1 /\ s.rx = r.rx /\ s.denied /\ s \in Receiver /\ s.loop # "OPEN" /\ s.buf = <<>>
      BY <2>2, <2>3, <1>4
    <3>2. Len(s.buf) <= MaxSdu /\ Len(r.rx) + 1 .. Len(s.rx) = {} /\ Len(r.rx) <= Len(s.rx) /\ Len(s.rx) <= RxCap
      BY <3>1, <1>1, <1>5
    <3>3. Handled(r, fr, s, h)
      BY <3>1, <3>2 DEF Handled
    <3> QED BY <3>3 DEF s
  <2>4. CASE Len(r.rx) < RxCap
    <3>1. s1.rx = Append(r.rx, j) /\ s1.denied = FALSE
      BY <2>2, <2>4, <1>5
    <3>2. Len(s1.rx) <= RxCap
      <4>1. Len(s1.rx) = Len(r.rx) + 1
        BY <3>1, <1>5, <1>9, <1>11
      <4> QED BY <4>1, <2>4, <1>1, <1>5
    <3>3. s = Explore(s1, fr.data, c)
      BY <3>1, <1>4
    <3>4. /\ Found(fr, s1.rx, s)
          /\ ~ s.denied => \A d \in 1 .. Len(size) : Holds(fr, <<d, 1>>) => Got(s1.rx, s, d)
      BY <3>1, <3>2, <3>3, <2>2, <1>7
    <3>5. Joins(r, fr, j, h)
      <4>1. Named(j) # 0 => Named(j) = p /\ fr.data[c] = <<p, size[p]>>
        BY <1>8, <1>11 DEF JoinedTo
      <4>2. Named(j) # 0 => Holds(fr, <<p, size[p]>>)
        BY <4>1, <1>1 DEF Holds
      <4>3. (j = WholePkt(p) /\ Named(j) = p) \/ PktsOf(j) \cap h # {}
        BY <1>8, <1>10, <1>11 DEF JoinedTo
      <4> QED BY <4>1, <4>2, <4>3, <1>9, <1>11 DEF Joins
    <3>6. r.loop = "OPEN" /\ p \notin h => Named(j) = p
      BY <1>10
    <3>7. Handled(r, fr, s, h)
      BY <3>1, <3>4, <3>5, <3>6, <1>9, <1>11, FoundHandled
    <3> QED BY <3>7 DEF s
  <2> QED BY <2>3, <2>4
<1>12. CASE ~ (r.loop = "OPEN" /\ Len(j) = target)
  <2>1. s1 = r
    BY <1>12 DEF s1
  <2>2. s = Explore(r, fr.data, c)
    BY <2>1, <1>4, <1>5
  <2>3. /\ Found(fr, r.rx, s)
        /\ ~ s.denied => \A d \in 1 .. Len(size) : Holds(fr, <<d, 1>>) => Got(r.rx, s, d)
    BY <2>2, <1>5, <1>7
  <2>4. ~ (r.loop = "OPEN" /\ p \notin h /\ ~ Excused(r, p))
    BY <1>10, <1>12
  <2>5. <<>> \in Seq(Octet \cup {Idle})
    OBVIOUS
  <2>6. Handled(r, fr, s, h)
    BY <2>3, <2>4, <2>5, FoundHandled
  <2> QED BY <2>6 DEF s
<1> QED BY <1>11, <1>12

LEMMA PtrZeroHandled ==
    ASSUME size \in Seq(Sizes), Len(size) <= MaxPkts, stuffs, NEW fr \in Frame, Shaped(fr, size),
           fr.ptr = 0, NEW h, NEW r, Meets(r, fr, h)
    PROVE  Handled(r, fr, Explore(r, fr.data, 0), h)
<1> DEFINE s == Explore(r, fr.data, 0)
<1>1. Live(fr) /\ Border(fr.data, 0) /\ MaxData \in Nat /\ r \in Receiver /\ Len(r.rx) <= RxCap /\ r.denied = FALSE
  <2>1. fr.ptr < MaxData /\ fr.ptr # Oid /\ MaxData \in Nat
    BY LengthsAreNumbers DEF Oid
  <2>2. Border(fr.data, 0)
    BY <2>1, PointerAtBorder
  <2> QED BY <2>1, <2>2 DEF Live, Meets
<1>2. /\ Found(fr, r.rx, s)
      /\ ~ s.denied => \A a \in 0 + 1 .. MaxData :
                           fr.data[a] # Idle /\ fr.data[a][2] = 1 => Got(r.rx, s, fr.data[a][1])
  BY <1>1, ExploreHeard
<1> HIDE DEF s
<1>3. ASSUME ~ s.denied, NEW d \in 1 .. Len(size), Holds(fr, <<d, 1>>) PROVE Got(r.rx, s, d)
  <2>1. PICK a \in 1 .. MaxData : fr.data[a] = <<d, 1>>
    BY <1>3 DEF Holds
  <2>2. a \in 0 + 1 .. MaxData /\ fr.data[a] # Idle /\ fr.data[a][2] = 1 /\ fr.data[a][1] = d
    BY <2>1 DEF Idle
  <2> QED BY <2>2, <1>2, <1>3
<1>4. ~ (r.loop = "OPEN" /\ Opener(r)[1] \notin h)
  BY <1>1, CleanJoin
<1>5. <<>> \in Seq(Octet \cup {Idle})
  OBVIOUS
<1>6. Handled(r, fr, s, h)
  BY <1>2, <1>3, <1>4, <1>5, FoundHandled
<1> QED BY <1>6 DEF s

LEMMA PlainHandled ==
    ASSUME size \in Seq(Sizes), Len(size) <= MaxPkts, ~ stuffs, NEW fr \in Frame, Shaped(fr, size), Live(fr),
           \A a \in 1 .. MaxData : fr.data[a] # Idle => fr.data[a][1] = fr.data[1][1],
           NEW h, NEW r, Meets(r, fr, h)
    PROVE  Handled(r, fr, ReceivePlain(r, fr), h)
<1> DEFINE n == PacketLen(fr.data, 0)
           c == Part(fr)
           t == IF fr.ptr = NoPkt THEN fr.data ELSE SubSeq(fr.data, 1, fr.ptr)
           j == r.buf \o t
           s == ReceivePlain(r, fr)
           p == Opener(r)[1]
<1>1. /\ MaxData \in Nat /\ MaxData >= 1 /\ MaxSdu \in Nat /\ LenAt \in Nat /\ LenAt >= 1 /\ LenAt <= MaxData
      /\ RxCap \in Nat /\ 1 \in 1 .. MaxData /\ fr.data[1] # Idle /\ MaxData \in 1 .. MaxData
  BY LengthsAreNumbers, TmCapsAssumption DEF Shaped
<1>2. s = CASE fr.ptr = 0 /\ n = 0            -> r
            [] fr.ptr = 0 /\ n > MaxData      -> [Keep(r, fr.data) EXCEPT !.exp = n]
            [] fr.ptr = 0 /\ n \in 1 .. MaxData ->
                 [Deliver(r, SubSeq(fr.data, 1, n)) EXCEPT !.exp = n]
            [] fr.ptr # 0 /\ r.loop = "CLOSED" -> r
            [] fr.ptr # 0 /\ r.loop = "OPEN" ->
                 IF Len(j) > MaxSdu THEN Shut(r)
                 ELSE IF Len(j) = r.exp THEN Deliver(r, j) ELSE Keep(r, j)
  BY DEF ReceivePlain
<1>3. /\ r \in Receiver /\ r.rx \in Seq(Seq(Octet \cup {Idle})) /\ Len(r.rx) \in Nat /\ Len(r.rx) <= RxCap
      /\ r.denied = FALSE /\ r.loop \in {"OPEN", "CLOSED"}
  BY DEF Meets, Receiver
<1> HIDE DEF n, s
<1>4. CASE fr.ptr # 0
  <2>1. /\ c \in 1 .. MaxData /\ c \in Nat /\ fr.data[1][2] > 1 /\ fr.data[1][2] \in Nat
        /\ \A a \in 1 .. c : fr.data[a][2] # 1
        /\ c < MaxData => fr.ptr = c
        /\ c = MaxData <=> fr.ptr = NoPkt
    BY <1>4, NoStarts
  <2>2. ASSUME NEW a \in 1 .. MaxData, fr.data[a] # Idle PROVE fr.data[a][2] # 1
    <3>1. CASE a = 1
      BY <3>1, <2>1
    <3>2. CASE a # 1
      <4>1. Before(fr.data[1], fr.data[a])
        BY <3>2, <2>2, <1>1 DEF Shaped, InOrder
      <4>2. fr.data[a][1] = fr.data[1][1] /\ fr.data[1][1] \in Nat
        BY <2>2, <1>1, RunFrom
      <4> QED BY <4>1, <4>2, <2>1 DEF Before
    <3> QED BY <3>1, <3>2
  <2>3. t \in Seq(Octet \cup {Idle}) /\ Len(t) = c /\ \A k \in 1 .. c : t[k] = fr.data[k]
    <3> DEFINE data == fr.data
    <3>1. data \in Seq(Octet \cup {Idle}) /\ Len(data) = MaxData
      BY FrameFacts
    <3> HIDE DEF data
    <3>2. CASE fr.ptr = NoPkt
      BY <3>1, <3>2, <2>1 DEF data
    <3>3. CASE fr.ptr # NoPkt
      <4>1. c < MaxData /\ fr.ptr = c
        BY <3>3, <2>1, <1>1
      <4>2. 0 + c <= Len(data) /\ 0 \in Nat /\ 0 + 1 = 1 /\ 0 + c = c /\ \A k \in 1 .. c : 0 + k = k
        BY <4>1, <3>1, <2>1, <1>1
      <4>3. LET u == SubSeq(data, 0 + 1, 0 + c)
            IN  u \in Seq(Octet \cup {Idle}) /\ Len(u) = c /\ \A k \in 1 .. c : u[k] = data[0 + k]
        BY <3>1, <4>2, <2>1, SubSeqAt
      <4> QED BY <4>1, <4>2, <4>3, <3>3 DEF data
    <3> QED BY <3>2, <3>3
  <2>4. CASE r.loop = "CLOSED"
    <3>1. s = r
      BY <2>4, <1>2, <1>4
    <3>2. Handled(r, fr, s, h)
      BY <3>1, <2>2, <2>4, PassedBy
    <3> QED BY <3>2 DEF s
  <2>5. CASE r.loop = "OPEN"
    <3>1. s = IF Len(j) > MaxSdu THEN Shut(r) ELSE IF Len(j) = r.exp THEN Deliver(r, j) ELSE Keep(r, j)
      BY <2>5, <1>2, <1>4
    <3> HIDE DEF t
    <3>2. JoinedTo(r, fr, h, c, j)
      BY <2>1, <2>3, <2>5, Joined
    <3>3. Len(j) \in Nat /\ Len(j) = Len(r.buf) + c
      <4> HIDE DEF j
      <4> QED BY <3>2, <2>1 DEF JoinedTo
    <3>4. p \notin h => Len(j) <= size[p] /\ r.exp = size[p] /\ size[p] <= MaxSdu /\ size[p] \in Nat
      <4> SUFFICES ASSUME p \notin h
                   PROVE  Len(j) <= size[p] /\ r.exp = size[p] /\ size[p] <= MaxSdu /\ size[p] \in Nat
        OBVIOUS
      <4>1. Len(r.buf) + c <= size[p] /\ p \in 1 .. Len(size)
        BY <2>5, CleanJoin
      <4>2. r.exp = size[p]
        BY <2>5 DEF Meets
      <4> HIDE DEF p, j
      <4>3. size[p] <= MaxSdu /\ size[p] \in Nat
        BY <4>1, SizeFacts
      <4> QED BY <4>1, <4>2, <4>3, <3>3
    <3> DEFINE i == Len(j)
    <3> HIDE DEF i
    <3>5. \/ s = Deliver(r, j) /\ (p \notin h => i = size[p])
          \/ s = Keep(r, j) /\ i <= MaxSdu /\ (p \notin h => i # size[p])
          \/ s = Shut(r) /\ (p \notin h => Excused(r, p))
      <4>1. CASE i > MaxSdu
        BY <4>1, <3>1, <3>3, <3>4, <1>1 DEF i
      <4>2. CASE ~ (i > MaxSdu) /\ i = r.exp
        BY <4>2, <3>1, <3>4 DEF i
      <4>3. CASE ~ (i > MaxSdu) /\ i # r.exp
        BY <4>3, <3>1, <3>3, <3>4, <1>1 DEF i
      <4> QED BY <4>1, <4>2, <4>3
    <3>6. \/ s = Deliver(r, r.buf \o t) /\ (p \notin h => Len(r.buf \o t) = size[p])
          \/ s = Keep(r, r.buf \o t) /\ Len(r.buf \o t) <= MaxSdu /\ (p \notin h => Len(r.buf \o t) # size[p])
          \/ s = Shut(r) /\ (p \notin h => Excused(r, p))
      BY <3>5 DEF i
    <3>7. Handled(r, fr, s, h)
      BY <3>6, <2>2, <2>3, <2>5, <1>4, JoinedHandled
    <3> QED BY <3>7 DEF s
  <2> QED BY <2>4, <2>5, <1>3
<1>5. CASE fr.ptr = 0
  <2> DEFINE d == fr.data[1][1]
             data == fr.data
             v == [Deliver(r, SubSeq(fr.data, 1, n)) EXCEPT !.exp = n]
  <2>1. fr.data[1][2] = 1
    BY <1>1, <1>5, PointerAtBorder
  <2>2. 0 \in Begins(fr.data) /\ 0 + 1 = 1
    BY <2>1, <1>1 DEF Begins
  <2>3. /\ d \in 1 .. Len(size) /\ data[1] = <<d, 1>> /\ size[d] \in Nat /\ size[d] >= LenAt /\ size[d] >= 1
        /\ size[d] <= MaxSdu
        /\ \A k \in 1 .. size[d] : 0 + k <= MaxData => data[0 + k] = <<d, k>>
    BY <2>2, PacketAt, ZenonT(60)
  <2>4. data \in Seq(Octet \cup {Idle}) /\ Len(data) = MaxData
    BY FrameFacts
  <2> HIDE DEF d, data
  <2>5. \A k \in 1 .. size[d] : k <= MaxData => data[k] = <<d, k>>
    <3> TAKE k \in 1 .. size[d]
    <3>1. 0 + k = k
      BY <2>3
    <3> QED BY <3>1, <2>3
  <2>6. n = size[d]
    <3>1. ~ (Len(data) < LenAt) /\ data[1][1] = d
      BY <2>3, <2>4, <1>1
    <3>2. \A k \in 1 .. LenAt : data[k] = <<data[1][1], k>>
      <4> TAKE k \in 1 .. LenAt
      <4>1. k \in 1 .. size[d] /\ k <= MaxData
        BY <2>3, <1>1
      <4> QED BY <4>1, <3>1, <2>5
    <3> QED BY <3>1, <3>2 DEF PacketLen, n, data
  <2>7. n \in Nat /\ n >= 1 /\ n <= MaxSdu /\ n \in 0 .. MaxSdu /\ n # 0
    BY <2>3, <2>6, <1>1
  <2>8. ~ (r.loop = "OPEN" /\ p \notin h)
    <3>1. Live(fr)
      OBVIOUS
    <3> QED BY <3>1, <1>5, CleanJoin
  <2>9. Holds(fr, <<d, 1>>) /\ (n <= MaxData => Holds(fr, <<d, n>>))
    <3>1. n <= MaxData => n \in 1 .. MaxData /\ data[n] = <<d, n>>
      BY <2>5, <2>6, <2>7, <1>1
    <3> QED BY <3>1, <2>3, <1>1 DEF Holds, data
  <2>10. ASSUME NEW e \in 1 .. Len(size), Holds(fr, <<e, 1>>) PROVE e = d
    <3>1. PICK a \in 1 .. MaxData : fr.data[a] = <<e, 1>>
      BY <2>10 DEF Holds
    <3>2. fr.data[a] # Idle /\ fr.data[a][1] = e
      BY <3>1 DEF Idle
    <3> QED BY <3>2 DEF d
  <2>11. CASE n > MaxData
    <3>1. ~ (n \in 1 .. MaxData)
      BY <2>11, <2>7, <1>1
    <3>2. s = [Keep(r, data) EXCEPT !.exp = n]
      BY <3>1, <2>7, <2>11, <1>2, <1>5 DEF data
    <3>3. Keep(r, data) \in Receiver /\ Keep(r, data).loop = "OPEN" /\ Keep(r, data).buf = data /\ Keep(r, data).rx = r.rx
      BY <2>4, <1>3, LoopEnds
    <3>4. s \in Receiver /\ s.loop = "OPEN" /\ s.buf = data /\ s.rx = r.rx /\ s.exp = n
      BY <3>2, <3>3, <2>7 DEF Receiver
    <3>5. /\ Len(s.buf) <= MaxSdu /\ Len(s.buf) = MaxData /\ s.buf # <<>>
          /\ Len(r.rx) + 1 .. Len(s.rx) = {} /\ Len(r.rx) <= Len(s.rx) /\ Len(s.rx) <= RxCap
      BY <3>4, <2>4, <2>7, <2>11, <1>1, <1>3
    <3>6. Opener(s) = <<d, 1>> /\ Opener(s)[1] = d
      BY <3>4, <2>3 DEF Opener
    <3>7. \A k \in 1 .. MaxData : data[k] = <<d, k>>
      <4> TAKE k \in 1 .. MaxData
      <4>1. k \in 1 .. size[d] /\ k <= MaxData
        BY <2>3, <2>6, <2>11, <1>1
      <4> QED BY <4>1, <2>5
    <3>8. /\ \A k \in 1 .. Len(s.buf) : s.buf[k] = <<d, k>>
          /\ Len(s.buf) < size[d] /\ s.exp = size[d] /\ fr.data[MaxData] = <<d, Len(s.buf)>>
      <4>1. fr.data[MaxData] = <<d, MaxData>>
        BY <3>7, <1>1 DEF data
      <4> QED BY <4>1, <3>4, <3>5, <3>7, <2>6, <2>11
    <3>9. \A e \in 1 .. Len(size) :
             e \notin h /\ (Holds(fr, <<e, 1>>) \/ (r.loop = "OPEN" /\ p = e)) => Got(r.rx, s, e)
      BY <3>4, <3>6, <2>8, <2>10 DEF Got
    <3>10. Handled(r, fr, s, h)
      BY <3>4, <3>5, <3>6, <3>8, <3>9, <2>3, <2>9 DEF Handled
    <3> QED BY <3>10 DEF s
  <2>12. CASE n <= MaxData
    <3> DEFINE w == SubSeq(data, 1, n)
               u == Deliver(r, w)
    <3>1. n \in 1 .. MaxData /\ ~ (n > MaxData)
      BY <2>7, <2>12, <1>1
    <3>2. s = [u EXCEPT !.exp = n]
      BY <3>1, <2>7, <1>2, <1>5 DEF data
    <3>3. w = WholePkt(d)
      <4>1. 0 + n <= Len(data) /\ 0 \in Nat /\ 0 + 1 = 1 /\ 0 + n = n /\ \A k \in 1 .. n : 0 + k = k
        BY <2>4, <2>7, <2>12
      <4>2. LET x == SubSeq(data, 0 + 1, 0 + n)
            IN  x \in Seq(Octet \cup {Idle}) /\ Len(x) = n /\ \A k \in 1 .. n : x[k] = data[0 + k]
        BY <4>1, <2>4, <2>7, SubSeqAt
      <4>3. w \in Seq(Octet \cup {Idle}) /\ Len(w) = n /\ \A k \in 1 .. n : w[k] = data[k]
        BY <4>1, <4>2
      <4> HIDE DEF w
      <4>4. \A k \in 1 .. Len(w) : w[k] = <<d, k>>
        <5> TAKE k \in 1 .. Len(w)
        <5>1. k \in 1 .. n /\ k \in 1 .. size[d] /\ k <= MaxData
          BY <4>3, <2>6, <2>7, <2>12, <1>1
        <5> QED BY <5>1, <4>3, <2>5
      <4>5. w # <<>>
        BY <4>3, <2>7
      <4> QED BY <4>3, <4>4, <4>5, <2>3, <2>6, PrefixSays
    <3>4. w \in Seq(Octet \cup {Idle}) /\ Named(w) = d
      BY <3>3, <2>3, WholePackets
    <3> HIDE DEF w
    <3>5. /\ u \in Receiver /\ u.loop = "CLOSED" /\ u.buf = <<>>
          /\ Len(r.rx) < RxCap => u.rx = Append(r.rx, w)
          /\ ~ (Len(r.rx) < RxCap) => u.rx = r.rx /\ u.denied
      BY <3>4, <1>3, LoopEnds
    <3> HIDE DEF u
    <3>6. /\ s \in Receiver /\ s.loop = "CLOSED" /\ s.buf = <<>> /\ s.rx = u.rx /\ s.denied = u.denied
      BY <3>2, <3>5, <2>7 DEF Receiver
    <3>7. Len(s.buf) <= MaxSdu /\ s.loop # "OPEN"
      BY <3>6, <1>1
    <3>8. CASE ~ (Len(r.rx) < RxCap)
      <4>1. s.rx = r.rx /\ s.denied
        BY <3>5, <3>6, <3>8
      <4>2. Len(r.rx) + 1 .. Len(s.rx) = {} /\ Len(r.rx) <= Len(s.rx) /\ Len(s.rx) <= RxCap
        BY <4>1, <1>3
      <4>3. Handled(r, fr, s, h)
        BY <4>1, <4>2, <3>6, <3>7 DEF Handled
      <4> QED BY <4>3 DEF s
    <3>9. CASE Len(r.rx) < RxCap
      <4> DEFINE b == Len(r.rx)
                 new == Len(r.rx) + 1 .. Len(s.rx)
      <4>1. s.rx = Append(r.rx, w)
        BY <3>5, <3>6, <3>9
      <4>2. /\ Len(s.rx) = b + 1 /\ s.rx[b + 1] = w /\ \A i \in 1 .. b : s.rx[i] = r.rx[i]
            /\ b + 1 \in new /\ \A i \in new : i = b + 1
        BY <4>1, <3>4, <1>3
      <4>3. Len(r.rx) <= Len(s.rx) /\ Len(s.rx) <= RxCap
        BY <4>2, <3>9, <1>1, <1>3
      <4>4. \A i, k \in new : ~ (i < k)
        BY <4>2, <1>3
      <4>5. Named(s.rx[b + 1]) = d
        BY <4>2, <3>4
      <4>6. ASSUME NEW i \in new
            PROVE  LET e == Named(s.rx[i])
                   IN  /\ e \in 1 .. Len(size) /\ s.rx[i] = WholePkt(e)
                       /\ Holds(fr, <<e, size[e]>>) /\ Holds(fr, <<e, 1>>)
        BY <4>2, <4>5, <3>3, <2>3, <2>6, <2>9, <2>12
      <4>7. \A e \in 1 .. Len(size) :
               e \notin h /\ (Holds(fr, <<e, 1>>) \/ (r.loop = "OPEN" /\ p = e)) => Got(r.rx, s, e)
        BY <4>2, <4>5, <2>8, <2>10 DEF Got
      <4>8. Handled(r, fr, s, h)
        BY <4>2, <4>3, <4>4, <4>6, <4>7, <3>6, <3>7 DEF Handled
      <4> QED BY <4>8 DEF s
    <3> QED BY <3>8, <3>9
  <2> QED BY <2>11, <2>12, <2>7, <1>1
<1> QED BY <1>4, <1>5

LEMMA ReceiveHandled ==
    ASSUME size \in Seq(Sizes), Len(size) <= MaxPkts, stuffs \in BOOLEAN,
           NEW fr \in Frame, Shaped(fr, size), Live(fr),
           ~ stuffs => \A a \in 1 .. MaxData : fr.data[a] # Idle => fr.data[a][1] = fr.data[1][1],
           NEW h, NEW garbage,
           LET r == [loop |-> rcv.loop, exp |-> rcv.exp, buf |-> rcv.buf, rx |-> rx, denied |-> FALSE]
           IN  Meets(r, fr, h)
    PROVE  LET r == [loop |-> rcv.loop, exp |-> rcv.exp, buf |-> rcv.buf, rx |-> rx, denied |-> FALSE]
           IN  Handled(r, fr, Receive(fr, garbage), h)
<1> DEFINE r == [loop |-> rcv.loop, exp |-> rcv.exp, buf |-> rcv.buf, rx |-> rx, denied |-> FALSE]
<1>1. /\ fr.ptr # Oid /\ fr.ptr \in (0 .. MaxData - 1) \cup {NoPkt} /\ MaxData \in Nat /\ MaxData >= 1
      /\ NoPkt = MaxData + 1
  BY FrameFacts, LengthsAreNumbers DEF Live, NoPkt
<1>2. Receive(fr, garbage) = CASE fr.ptr = Oid            -> r
                               [] fr.ptr # Oid /\ stuffs  -> ReceiveStuffed(r, fr, garbage)
                               [] fr.ptr # Oid /\ ~stuffs -> ReceivePlain(r, fr)
  BY DEF Receive
<1>3. Meets(r, fr, h)
  OBVIOUS
<1> HIDE DEF r
<1>4. CASE ~ stuffs
  <2>1. Receive(fr, garbage) = ReceivePlain(r, fr)
    BY <1>1, <1>2, <1>4
  <2>2. Handled(r, fr, ReceivePlain(r, fr), h)
    BY <1>3, <1>4, PlainHandled
  <2> QED BY <2>1, <2>2 DEF r
<1>5. CASE stuffs
  <2>1. Receive(fr, garbage) = ReceiveStuffed(r, fr, garbage)
    BY <1>1, <1>2, <1>5
  <2>2. ReceiveStuffed(r, fr, garbage) =
          CASE fr.ptr = 0              -> Explore(r, fr.data, 0)
            [] fr.ptr = NoPkt          -> JoinFrame(r, fr.data, garbage)
            [] fr.ptr \in 1 .. MaxData -> JoinTail(r, fr, garbage)
    BY DEF ReceiveStuffed
  <2>3. CASE fr.ptr = 0
    <3>1. Receive(fr, garbage) = Explore(r, fr.data, 0)
      BY <2>1, <2>2, <2>3, <1>1
    <3> QED BY <3>1, <2>3, <1>3, <1>5, PtrZeroHandled DEF r
  <2>4. CASE fr.ptr = NoPkt
    <3>1. Receive(fr, garbage) = JoinFrame(r, fr.data, garbage)
      BY <2>1, <2>2, <2>4, <1>1
    <3>2. Handled(r, fr, JoinFrame(r, fr.data, garbage), h)
      BY <2>4, <1>3, JoinFrameHandled
    <3> QED BY <3>1, <3>2 DEF r
  <2>5. CASE fr.ptr \in 1 .. MaxData - 1
    <3>1. fr.ptr \in 1 .. MaxData /\ fr.ptr # 0 /\ fr.ptr # NoPkt
      BY <2>5, <1>1
    <3>2. Receive(fr, garbage) = JoinTail(r, fr, garbage)
      BY <3>1, <2>1, <2>2
    <3>3. Handled(r, fr, JoinTail(r, fr, garbage), h)
      BY <2>5, <1>3, <1>5, JoinTailHandled
    <3> QED BY <3>2, <3>3 DEF r
  <2>6. fr.ptr = 0 \/ fr.ptr = NoPkt \/ fr.ptr \in 1 .. MaxData - 1
    BY <1>1
  <2> QED BY <2>3, <2>4, <2>5, <2>6
<1> QED BY <1>4, <1>5

-----------------------------------------------------------------------------
(* The steps of the receiver. *)

(* The receiver's state as osdlp_tm_receive finds it. *)
Arriving == [loop |-> rcv.loop, exp |-> rcv.exp, buf |-> rcv.buf, rx |-> rx, denied |-> FALSE]

LEMMA StreamedTypes ==
    ASSUME Streamed
    PROVE  /\ RowTypes(link, size, snd, rcv, arrived) /\ OnRow(link, size, snd, hurt, rcv, arrived, stuffs)
           /\ Arriving \in Receiver /\ Arriving.loop = rcv.loop /\ Arriving.exp = rcv.exp /\ Arriving.buf = rcv.buf
           /\ Arriving.rx = rx /\ Arriving.denied = FALSE /\ Opener(Arriving) = Opener(rcv)
<1>1. RowTypes(link, size, snd, rcv, arrived)
  BY DEF Streamed, TmTypeOK, RowTypes, SenderLoop
<1>2. Arriving \in Receiver
  BY DEF Streamed, TmTypeOK, Arriving, Receiver
<1>3. OnRow(link, size, snd, hurt, rcv, arrived, stuffs)
  BY DEF Streamed
<1> QED BY <1>1, <1>2, <1>3 DEF Arriving, Opener

LEMMA MeetsRow ==
    ASSUME Streamed, link # <<>>, Live(Head(link))
    PROVE  /\ Meets(Arriving, Head(link), hurt) /\ Shaped(Head(link), size) /\ Head(link) \in Frame
           /\ ~ stuffs => \A a \in 1 .. MaxData :
                             Head(link).data[a] # Idle => Head(link).data[a][1] = Head(link).data[1][1]
<1> DEFINE fr == Head(link)
           p == Opener(rcv)[1]
<1>1. /\ RowTypes(link, size, snd, rcv, arrived) /\ OnRow(link, size, snd, hurt, rcv, arrived, stuffs)
      /\ Arriving \in Receiver /\ Arriving.loop = rcv.loop /\ Arriving.exp = rcv.exp /\ Arriving.buf = rcv.buf
      /\ Arriving.rx = rx /\ Arriving.denied = FALSE /\ Opener(Arriving) = Opener(rcv)
  BY StreamedTypes
<1>2. Len(rcv.buf) <= MaxSdu /\ Len(rx) <= RxCap
  BY DEF Streamed, TmTypeOK
<1>3. /\ fr \in Frame /\ Shaped(fr, size)
      /\ \A a \in 1 .. MaxData : fr.data[a] # Idle => fr.data[a] \in Row(link)
      /\ \A d, m : GoesOn(link, size, snd, d, m, 1) => fr.data[1] = <<d, m + 1>>
  <2>1. Rested(link, size, snd, hurt, stuffs, hurt)
    BY <1>1, RestOfRow
  <2> QED BY <2>1 DEF Rested
<1>4. ASSUME rcv.loop = "OPEN"
      PROVE  /\ rcv.buf # <<>> /\ IsOctet(Opener(rcv), size) /\ Opener(rcv)[2] = 1
             /\ \A a \in 1 .. MaxData : fr.data[a] # Idle => Before(Opener(rcv), fr.data[a])
  BY <1>1, <1>3, <1>4 DEF OnRow, Ahead
<1>5. ASSUME rcv.loop = "OPEN", p \notin hurt
      PROVE  /\ \A k \in 1 .. Len(rcv.buf) : rcv.buf[k] = <<p, k>>
             /\ Len(rcv.buf) < size[p] /\ (rcv.exp = size[p] \/ (stuffs /\ rcv.exp = 0))
             /\ fr.data[1] = <<p, Len(rcv.buf) + 1>>
  BY <1>1, <1>3, <1>5 DEF OnRow, Joining
<1>6. Meets(Arriving, fr, hurt)
  BY <1>1, <1>2, <1>4, <1>5 DEF Meets
<1>7. ~ stuffs => \A a \in 1 .. MaxData : fr.data[a] # Idle => fr.data[a][1] = fr.data[1][1]
  <2>1. link \in Seq(Frame) /\ Plain(link, stuffs)
    BY <1>1 DEF RowTypes, OnRow
  <2>2. 1 \in 1 .. Len(link) /\ fr = link[1]
    BY <2>1
  <2> QED BY <2>1, <2>2 DEF Plain
<1> QED BY <1>3, <1>6, <1>7

(* What arrives is named behind what arrived before. *)
Lengthened(arr2, s) ==
    LET A == Len(arrived)
        K == Len(s.rx) - Len(rx)
    IN  /\ K \in Nat /\ arr2 \in Seq(0 .. MaxPkts) /\ Len(arr2) = A + K /\ DOMAIN arr2 = 1 .. Len(arr2)
        /\ \A i \in 1 .. A : arr2[i] = arrived[i] /\ i \in 1 .. Len(arr2)
        /\ \A i \in 1 .. K : arr2[A + i] = Named(s.rx[Len(rx) + i]) /\ A + i \in 1 .. Len(arr2)
        /\ \A i \in 1 .. Len(arr2) : i \in 1 .. A \/ \E j \in 1 .. K : i = A + j

LEMMA ArrivedLengthened ==
    ASSUME Streamed, NEW s, NEW fr, Handled(Arriving, fr, s, hurt)
    PROVE  Lengthened(arrived \o [i \in 1 .. Len(s.rx) - Len(rx) |-> Named(s.rx[Len(rx) + i])], s)
<1> DEFINE b == Len(rx)
           m == Len(s.rx)
           K == m - b
           S == 0 .. MaxPkts
           names == [i \in 1 .. K |-> Named(s.rx[b + i])]
           u == arrived \o names
<1>1. Arriving.rx = rx
  BY StreamedTypes
<1>2. /\ s \in Receiver /\ b <= m
      /\ \A i \in b + 1 .. m : LET p == Named(s.rx[i]) IN p # 0 => p \in 1 .. Len(size)
  BY <1>1 DEF Handled
<1>3. /\ b \in Nat /\ arrived \in Seq(S) /\ size \in Seq(Sizes) /\ Len(size) <= MaxPkts
  BY DEF Streamed, TmTypeOK
<1>4. m \in Nat
  <2>1. s.rx \in Seq(Seq(Octet \cup {Idle}))
    BY <1>2 DEF Receiver
  <2> QED BY <2>1
<1> HIDE DEF b, m
<1>5. K \in Nat /\ \A i \in 1 .. K : b + i \in b + 1 .. m
  BY <1>2, <1>3, <1>4
<1> HIDE DEF K
<1>6. ASSUME NEW i \in 1 .. K PROVE Named(s.rx[b + i]) \in S
  <2>1. LET p == Named(s.rx[b + i]) IN p # 0 => p \in 1 .. Len(size)
    BY <1>2, <1>5
  <2> QED BY <2>1, <1>3, LengthsAreNumbers
<1> HIDE DEF S
<1>7. names \in Seq(S) /\ Len(names) = K /\ \A i \in 1 .. K : names[i] = Named(s.rx[b + i])
  BY <1>5, <1>6
<1> HIDE DEF names
<1>8. /\ u \in Seq(S) /\ Len(u) = Len(arrived) + K
      /\ \A i \in 1 .. Len(arrived) : u[i] = arrived[i] /\ i \in 1 .. Len(u)
      /\ \A i \in 1 .. K : u[Len(arrived) + i] = names[i] /\ Len(arrived) + i \in 1 .. Len(u)
      /\ \A i \in 1 .. Len(u) : i \in 1 .. Len(arrived) \/ \E j \in 1 .. K : i = Len(arrived) + j
  <2>1. u \in Seq(S) /\ Len(u) = Len(arrived) + Len(names)
    <3>1. arrived \in Seq(S) /\ names \in Seq(S)
      BY <1>3, <1>7
    <3> QED BY <3>1
  <2>2. \A i \in 1 .. Len(arrived) : (arrived \o names)[i] = arrived[i] /\ i \in 1 .. Len(arrived \o names)
    BY <1>3, <1>7, TwoSequences
  <2>3. \A i \in 1 .. Len(names) : (arrived \o names)[Len(arrived) + i] = names[i]
                                  /\ Len(arrived) + i \in 1 .. Len(arrived \o names)
    BY <1>3, <1>7, TwoSequences
  <2>4. \A i \in 1 .. Len(arrived \o names) :
           i \in 1 .. Len(arrived) \/ \E j \in 1 .. Len(names) : i = Len(arrived) + j
    BY <1>3, <1>7, TwoSequences
  <2> HIDE DEF u
  <2> QED BY <2>1, <2>2, <2>3, <2>4, <1>7 DEF u
<1> HIDE DEF u
<1>9. DOMAIN u = 1 .. Len(u)
  BY <1>8
<1>10. Lengthened(u, s)
  BY <1>5, <1>7, <1>8, <1>9 DEF Lengthened, b, m, K, S
<1> QED BY <1>10 DEF u, names, K, m, b

(* What is heard leaves the row behind what arrives. *)
LEMMA HeardOnRow ==
    ASSUME Streamed, link # <<>>, Live(Head(link)), NEW s, Handled(Arriving, Head(link), s, hurt),
           NEW rc2, rc2 = [loop |-> s.loop, exp |-> s.exp, buf |-> s.buf],
           NEW arr2, Lengthened(arr2, s),
           NEW h2, h2 = IF s.denied THEN hurt \cup (PktsOf(Head(link).data) \ ToSet(arr2)) ELSE hurt
    PROVE  /\ RowTypes(Tail(link), size, snd, rc2, arr2)
           /\ OnRow(Tail(link), size, snd, h2, rc2, arr2, stuffs) /\ LastSound(Tail(link), size)
           /\ \A i, j \in DOMAIN arr2 : i < j /\ arr2[i] # 0 /\ arr2[j] # 0 => arr2[i] < arr2[j]
<1> DEFINE fr == Head(link)
           q2 == Tail(link)
           b == Len(rx)
           K == Len(s.rx) - Len(rx)
           A == Len(arrived)
           new == b + 1 .. Len(s.rx)
           C == Coming(size, snd)
<1>1. /\ RowTypes(link, size, snd, rcv, arrived) /\ OnRow(link, size, snd, hurt, rcv, arrived, stuffs)
      /\ Arriving \in Receiver /\ Arriving.loop = rcv.loop /\ Arriving.exp = rcv.exp /\ Arriving.buf = rcv.buf
      /\ Arriving.rx = rx /\ Arriving.denied = FALSE /\ Opener(Arriving) = Opener(rcv)
  BY StreamedTypes
<1>2. /\ link \in Seq(Frame) /\ size \in Seq(Sizes) /\ Len(size) <= MaxPkts /\ snd \in SenderLoop
      /\ arrived \in Seq(0 .. MaxPkts) /\ Ahead(link, size, snd, rcv, arrived)
      /\ Kept(link, size, snd, hurt, rcv, arrived, stuffs) /\ Frames(link, size, hurt)
      /\ LastSound(link, size) /\ InOrderOnce
      /\ \A p \in 1 .. Len(size) : p \in 1 .. MaxPkts /\ p \in Nat /\ p >= 1
      /\ MaxData \in Nat /\ MaxData \in 1 .. MaxData
  BY <1>1, LengthsAreNumbers DEF RowTypes, OnRow, Streamed
<1>3. /\ s \in Receiver /\ Len(s.buf) <= MaxSdu /\ b <= Len(s.rx) /\ Len(s.rx) <= RxCap
      /\ \A i \in 1 .. b : s.rx[i] = rx[i]
      /\ \A i \in new :
            LET p == Named(s.rx[i])
            IN  p # 0 => /\ p \in 1 .. Len(size) /\ Holds(fr, <<p, size[p]>>)
                         /\ Holds(fr, <<p, 1>>) \/ (rcv.loop = "OPEN" /\ p = Opener(rcv)[1])
      /\ \A i, j \in new :
            i < j /\ Named(s.rx[i]) # 0 /\ Named(s.rx[j]) # 0 => Named(s.rx[i]) < Named(s.rx[j])
  BY <1>1 DEF Handled
<1>4. s.loop = "OPEN" =>
        /\ s.buf # <<>>
        /\ \/ rcv.loop = "OPEN" /\ Opener(s) = Opener(rcv) /\ Len(s.rx) = b
           \/ LET p == Opener(s)[1]
              IN  /\ p \in 1 .. Len(size) /\ Opener(s) = <<p, 1>> /\ Holds(fr, <<p, 1>>)
                  /\ \A i \in new : Named(s.rx[i]) < p
  BY <1>1 DEF Handled
<1>5. s.loop = "OPEN" /\ Opener(s)[1] \notin hurt =>
        LET p == Opener(s)[1]
        IN  /\ \A k \in 1 .. Len(s.buf) : s.buf[k] = <<p, k>>
            /\ Len(s.buf) < size[p] /\ (s.exp = size[p] \/ (stuffs /\ s.exp = 0))
            /\ fr.data[MaxData] = <<p, Len(s.buf)>>
  BY <1>1 DEF Handled
<1>6. ~ s.denied =>
        \A p \in 1 .. Len(size) :
            p \notin hurt /\ ~ (stuffs /\ size[p] = MaxSdu)
            /\ (Holds(fr, <<p, 1>>) \/ (rcv.loop = "OPEN" /\ Opener(rcv)[1] = p)) => Got(rx, s, p)
  BY <1>1 DEF Handled, Excused
<1>7. rc2.loop = s.loop /\ rc2.exp = s.exp /\ rc2.buf = s.buf /\ Opener(rc2) = Opener(s) /\ hurt \subseteq h2
      /\ s.buf \in Seq(Octet \cup {Idle}) /\ s.rx \in Seq(Seq(Octet \cup {Idle})) /\ Len(s.rx) \in Nat
  BY <1>3 DEF Opener, Receiver
<1>8. /\ fr \in Frame /\ q2 \in Seq(Frame) /\ Len(q2) = Len(link) - 1 /\ Shaped(fr, size)
      /\ Frames(q2, size, h2) /\ Sorted(q2) /\ Unbroken(q2, size, snd, h2) /\ Plain(q2, stuffs)
      /\ Row(q2) \subseteq Row(link)
      /\ \A o \in Row(link) : o \in Row(q2) \/ \E a \in 1 .. MaxData : fr.data[a] = o
      /\ \A a \in 1 .. MaxData : fr.data[a] # Idle =>
            fr.data[a] \in Row(link) /\ \A o \in Row(q2) : Before(fr.data[a], o)
      /\ LastSound(q2, size)
      /\ fr.data[MaxData] # Idle /\ fr.data[MaxData][1] \notin hurt /\ LeftOf(fr.data[MaxData], size) > 0 =>
            GoesOn(q2, size, snd, fr.data[MaxData][1], fr.data[MaxData][2], 1)
  <2>1. Rested(link, size, snd, hurt, stuffs, h2)
    BY <1>1, <1>7, RestOfRow
  <2> QED BY <2>1, <1>2 DEF Rested
<1>9. rx \in Seq(Seq(Octet \cup {Idle})) /\ b \in Nat /\ K \in Nat /\ A \in Nat
  <2>1. rx \in Seq(Seq(Octet \cup {Idle}))
    BY DEF Streamed, TmTypeOK
  <2>2. b \in Nat /\ A \in Nat
    BY <2>1, <1>2
  <2> QED BY <2>1, <2>2, <1>3, <1>7
<1>10. /\ \A i \in 1 .. K : b + i \in new
       /\ \A i \in new : i - b \in 1 .. K /\ b + (i - b) = i
  <2> DEFINE m == Len(s.rx)
  <2>1. m \in Nat /\ b \in Nat /\ K = m - b
    BY <1>7, <1>9
  <2> HIDE DEF m, b, K
  <2>2. /\ \A i \in 1 .. K : b + i \in b + 1 .. m
        /\ \A i \in b + 1 .. m : i - b \in 1 .. K /\ b + (i - b) = i
    BY <2>1
  <2> QED BY <2>2 DEF m
<1>13. /\ arr2 \in Seq(0 .. MaxPkts) /\ Len(arr2) = A + K /\ DOMAIN arr2 = 1 .. Len(arr2)
       /\ \A i \in 1 .. A : arr2[i] = arrived[i] /\ i \in 1 .. Len(arr2)
       /\ \A i \in 1 .. K : arr2[A + i] = Named(s.rx[b + i]) /\ A + i \in 1 .. Len(arr2)
       /\ \A i \in 1 .. Len(arr2) : i \in 1 .. A \/ \E j \in 1 .. K : i = A + j
  BY DEF Lengthened
<1> HIDE DEF fr, q2, b, K, A, new, C
<1>14. RowTypes(q2, size, snd, rc2, arr2)
  BY <1>2, <1>7, <1>8, <1>13 DEF RowTypes
<1>15. ASSUME NEW p \in 1 .. Len(size), NEW k \in Nat, Holds(fr, <<p, k>>)
       PROVE  <<p, k>> \in Row(link) /\ \A o \in Row(q2) : Before(<<p, k>>, o)
  <2>1. PICK a \in 1 .. MaxData : fr.data[a] = <<p, k>>
    BY <1>15 DEF Holds
  <2>2. <<p, k>> # Idle
    BY <1>2 DEF Idle
  <2> QED BY <2>1, <2>2, <1>8
<1>16. C[1] \in Nat /\ C[2] \in Nat /\ C[1] >= 1
       /\ (snd.loop = "OPEN" => C[1] = Len(size) /\ C[2] <= size[Len(size)])
       /\ (snd.loop # "OPEN" => C[1] = Len(size) + 1) /\ Len(size) \in Nat
  <2>1. /\ C[1] \in Nat /\ C[2] \in Nat /\ Len(size) \in Nat
        /\ snd.loop = "OPEN" => C[1] = Len(size) /\ C[2] = snd.done + 1
        /\ snd.loop # "OPEN" => C[1] = Len(size) + 1
    BY <1>2, ComingIs DEF C
  <2>2. snd.loop = "OPEN" => size # <<>> /\ snd.done < size[Len(size)]
    BY <1>2 DEF Ahead
  <2>3. snd.loop = "OPEN" => Len(size) >= 1 /\ Len(size) \in 1 .. Len(size)
    BY <2>2, <1>2
  <2>4. snd.loop = "OPEN" => size[Len(size)] \in Nat
    BY <2>3, <1>2, SizeFacts
  <2>5. snd.done \in Nat
    BY <1>2, LengthsAreNumbers DEF SenderLoop
  <2> QED BY <2>1, <2>2, <2>3, <2>4, <2>5
<1>17. ASSUME NEW o \in Row(q2)
       PROVE  o \in Row(link) /\ IsOctet(o, size) /\ o[1] \in Nat /\ o[2] \in Nat /\ o[1] >= 1
              /\ o[1] \in 1 .. Len(size) /\ o[2] <= size[o[1]]
  <2>1. o \in Row(link) /\ IsOctet(o, size)
    BY <1>2, <1>8, RowIsOctets
  <2>2. o[1] \in Nat /\ o[2] \in Nat
    BY <1>8, RowOctets
  <2>3. o[1] \in 1 .. Len(size) /\ o[2] \in 1 .. size[o[1]]
    BY <2>1 DEF IsOctet
  <2>4. size[o[1]] \in Nat
    BY <2>3, <1>2, SizeFacts
  <2> QED BY <2>1, <2>2, <2>3, <2>4, <1>2
(* A packet that arrives has left the row. *)
<1>18. ASSUME NEW p \in 1 .. Len(size), Holds(fr, <<p, size[p]>>)
       PROVE  p < C[1] /\ \A o \in Row(q2) : p < o[1]
  <2>1. size[p] \in Nat /\ p \in Nat
    BY <1>2, SizeFacts
  <2>2. <<p, size[p]>> \in Row(link) /\ \A o \in Row(q2) : Before(<<p, size[p]>>, o)
    BY <2>1, <1>15, <1>18
  <2>3. Before(<<p, size[p]>>, C)
    BY <2>2, <1>2 DEF Ahead, C
  <2>4. p < C[1]
    <3>1. p < C[1] \/ (p = C[1] /\ size[p] < C[2])
      BY <2>3 DEF Before
    <3>2. CASE p = C[1] /\ size[p] < C[2]
      <4>1. snd.loop = "OPEN" /\ p = Len(size)
        BY <3>2, <1>16, <2>1
      <4> QED BY <4>1, <3>2, <1>16, <2>1
    <3> QED BY <3>1, <3>2
  <2>5. ASSUME NEW o \in Row(q2) PROVE p < o[1]
    <3>1. p < o[1] \/ (p = o[1] /\ size[p] < o[2])
      BY <2>2 DEF Before
    <3>2. ~ (p = o[1] /\ size[p] < o[2])
      BY <2>1, <1>17
    <3> QED BY <3>1, <3>2
  <2> QED BY <2>4, <2>5
<1>19. ASSUME NEW i \in 1 .. K
       PROVE  LET p == Named(s.rx[b + i])
              IN  /\ p \in Nat
                  /\ p # 0 => /\ p \in 1 .. Len(size) /\ Holds(fr, <<p, size[p]>>)
                              /\ Holds(fr, <<p, 1>>) \/ (rcv.loop = "OPEN" /\ p = Opener(rcv)[1])
  BY <1>2, <1>3, <1>10
<1>20. ASSUME NEW i \in 1 .. A
       PROVE  /\ arrived[i] \in Nat /\ arrived[i] < C[1] /\ \A o \in Row(link) : arrived[i] < o[1]
              /\ rcv.loop = "OPEN" => arrived[i] < Opener(rcv)[1]
  <2>1. i \in 1 .. Len(arrived)
    BY DEF A
  <2>2. arrived[i] \in 0 .. MaxPkts /\ 0 .. MaxPkts \subseteq Nat
    BY <2>1, <1>2, LengthsAreNumbers
  <2> QED BY <2>1, <2>2, <1>2 DEF Ahead, C
<1>21. ASSUME NEW i \in 1 .. A, NEW p \in 1 .. Len(size), Holds(fr, <<p, 1>>) PROVE arrived[i] < p
  <2>1. <<p, 1>> \in Row(link)
    BY <1>15, <1>21
  <2> QED BY <2>1, <1>20
<1>22. Ahead(q2, size, snd, rc2, arr2)
  <2>1. snd.loop = "OPEN" => size # <<>> /\ snd.done < size[Len(size)]
    BY <1>2 DEF Ahead
  <2>2. \A o \in Row(q2) : Before(o, C)
    BY <1>2, <1>8 DEF Ahead, C
  <2>3. ASSUME s.loop = "OPEN"
        PROVE  /\ rc2.buf # <<>> /\ IsOctet(Opener(rc2), size) /\ Opener(rc2)[2] = 1
               /\ Before(Opener(rc2), C)
               /\ \A o \in Row(q2) : Before(Opener(rc2), o)
               /\ \A i \in 1 .. Len(arr2) : arr2[i] < Opener(rc2)[1]
    <3>1. CASE rcv.loop = "OPEN" /\ Opener(s) = Opener(rcv) /\ Len(s.rx) = b
      <4>1. K = 0 /\ Len(arr2) = A
        BY <3>1, <1>9, <1>13 DEF K, b
      <4>2. \A i \in 1 .. Len(arr2) : arr2[i] < Opener(rc2)[1]
        BY <4>1, <3>1, <1>7, <1>13, <1>20
      <4>3. /\ IsOctet(Opener(rcv), size) /\ Opener(rcv)[2] = 1 /\ Before(Opener(rcv), C)
            /\ \A o \in Row(link) : Before(Opener(rcv), o)
        BY <3>1, <1>2 DEF Ahead, C
      <4> QED BY <4>2, <4>3, <3>1, <2>3, <1>4, <1>7, <1>8
    <3>2. CASE LET p == Opener(s)[1]
               IN  /\ p \in 1 .. Len(size) /\ Opener(s) = <<p, 1>> /\ Holds(fr, <<p, 1>>)
                   /\ \A i \in new : Named(s.rx[i]) < p
      <4> DEFINE p == Opener(s)[1]
      <4>1. /\ p \in 1 .. Len(size) /\ Opener(s) = <<p, 1>> /\ Holds(fr, <<p, 1>>)
            /\ \A i \in new : Named(s.rx[i]) < p
        BY <3>2
      <4> HIDE DEF p
      <4>2. <<p, 1>> \in Row(link) /\ \A o \in Row(q2) : Before(<<p, 1>>, o)
        BY <4>1, <1>15
      <4>3. IsOctet(<<p, 1>>, size)
        <5>1. 1 \in 1 .. size[p]
          BY <4>1, <1>2, SizeFacts
        <5> QED BY <5>1, <4>1 DEF IsOctet
      <4>4. Before(<<p, 1>>, C)
        BY <4>2, <1>2 DEF Ahead, C
      <4>5. ASSUME NEW i \in 1 .. Len(arr2) PROVE arr2[i] < p
        <5>1. CASE i \in 1 .. A
          BY <5>1, <4>1, <1>13, <1>21
        <5>2. CASE \E j \in 1 .. K : i = A + j
          BY <5>2, <4>1, <1>10, <1>13
        <5> QED BY <5>1, <5>2, <1>13
      <4>6. rc2.buf # <<>> /\ Opener(rc2) = <<p, 1>>
        BY <4>1, <2>3, <1>4, <1>7
      <4>7. Opener(rc2)[1] = p /\ Opener(rc2)[2] = 1
        BY <4>6
      <4> QED BY <4>2, <4>3, <4>4, <4>5, <4>6, <4>7
    <3> QED BY <3>1, <3>2, <2>3, <1>4
  <2>4. ASSUME NEW i \in 1 .. Len(arr2) PROVE arr2[i] < C[1] /\ \A o \in Row(q2) : arr2[i] < o[1]
    <3>1. CASE i \in 1 .. A
      BY <3>1, <1>8, <1>13, <1>20
    <3>2. CASE \E j \in 1 .. K : i = A + j
      <4>1. PICK j \in 1 .. K : i = A + j
        BY <3>2
      <4> DEFINE p == Named(s.rx[b + j])
      <4>2. arr2[i] = p /\ p \in Nat /\ (p # 0 => p \in 1 .. Len(size) /\ Holds(fr, <<p, size[p]>>))
        BY <4>1, <1>13, <1>19
      <4> HIDE DEF p
      <4>3. CASE p = 0
        <5>1. arr2[i] = 0 /\ C[1] \in Nat /\ C[1] >= 1 /\ \A o \in Row(q2) : o[1] \in Nat /\ o[1] >= 1
          BY <4>2, <4>3, <1>16, <1>17
        <5> QED BY <5>1
      <4>4. CASE p # 0
        BY <4>2, <4>4, <1>18
      <4> QED BY <4>3, <4>4
    <3> QED BY <3>1, <3>2, <1>13
  <2> QED BY <2>1, <2>2, <2>3, <2>4, <1>7 DEF Ahead, C
<1>23. Joining(q2, size, snd, h2, rc2, stuffs)
  <2> DEFINE p == Opener(rc2)[1]
  <2> SUFFICES ASSUME rc2.loop = "OPEN", p \notin h2
               PROVE  /\ \A k \in 1 .. Len(rc2.buf) : rc2.buf[k] = <<p, k>>
                      /\ Len(rc2.buf) < size[p] /\ (rc2.exp = size[p] \/ (stuffs /\ rc2.exp = 0))
                      /\ GoesOn(q2, size, snd, p, Len(rc2.buf), 1)
    BY DEF Joining
  <2>1. /\ \A k \in 1 .. Len(rc2.buf) : rc2.buf[k] = <<p, k>>
        /\ Len(rc2.buf) < size[p] /\ (rc2.exp = size[p] \/ (stuffs /\ rc2.exp = 0))
        /\ fr.data[MaxData] = <<p, Len(rc2.buf)>> /\ p \notin hurt
    BY <1>5, <1>7
  <2>2. Len(rc2.buf) \in Nat /\ Len(rc2.buf) >= 1
    BY <1>4, <1>7
  <2>3. p \in 1 .. Len(size)
    <3>1. IsOctet(Opener(rc2), size)
      BY <1>22 DEF Ahead
    <3> QED BY <3>1 DEF IsOctet
  <2> DEFINE l == Len(rc2.buf)
             o == fr.data[MaxData]
  <2> HIDE DEF l, p, o
  <2>4. size[p] \in Nat
    BY <2>3, <1>2, SizeFacts
  <2>5. o # Idle /\ o[1] = p /\ o[2] = l /\ LeftOf(o, size) > 0
    BY <2>1, <2>2, <2>4 DEF Idle, LeftOf, l, o
  <2>6. GoesOn(q2, size, snd, p, l, 1)
    BY <2>1, <2>5, <1>8 DEF o
  <2> QED BY <2>1, <2>6 DEF l
<1>24. Kept(q2, size, snd, h2, rc2, arr2, stuffs)
  <2> SUFFICES ASSUME NEW d \in 1 .. Len(size), d \notin h2, ~ (stuffs /\ size[d] = MaxSdu)
               PROVE  \/ d \in ToSet(arr2) \/ (rc2.loop = "OPEN" /\ Opener(rc2)[1] = d)
                      \/ <<d, 1>> \in Row(q2) \/ (snd.loop = "OPEN" /\ d = Len(size) /\ snd.done = 0)
    BY DEF Kept
  <2>1. d \notin hurt
    BY <1>7
  <2>2. \/ d \in ToSet(arrived) \/ (rcv.loop = "OPEN" /\ Opener(rcv)[1] = d)
        \/ <<d, 1>> \in Row(link) \/ (snd.loop = "OPEN" /\ d = Len(size) /\ snd.done = 0)
    BY <2>1, <1>2 DEF Kept
  <2>3. CASE d \in ToSet(arrived)
    <3>1. PICK i \in 1 .. A : arrived[i] = d
      BY <2>3, <1>2 DEF ToSet, A
    <3>2. i \in DOMAIN arr2 /\ arr2[i] = d
      BY <3>1, <1>13
    <3>3. d \in ToSet(arr2)
      BY <3>2 DEF ToSet
    <3> QED BY <3>3
  <2>4. ASSUME Holds(fr, <<d, 1>>) \/ (rcv.loop = "OPEN" /\ Opener(rcv)[1] = d)
        PROVE  d \in ToSet(arr2) \/ (rc2.loop = "OPEN" /\ Opener(rc2)[1] = d)
    <3>1. CASE s.denied
      <4>1. d \in PktsOf(fr.data)
        <5>1. PICK a \in 1 .. MaxData : fr.data[a] # Idle /\ fr.data[a][1] = d
          <6>1. CASE Holds(fr, <<d, 1>>)
            <7>1. <<d, 1>> # Idle
              BY <1>2 DEF Idle
            <7>2. PICK a \in 1 .. MaxData : fr.data[a] = <<d, 1>>
              BY <6>1 DEF Holds
            <7>3. fr.data[a] # Idle /\ fr.data[a][1] = d
              BY <7>1, <7>2
            <7> QED BY <7>3
          <6>2. CASE rcv.loop = "OPEN" /\ Opener(rcv)[1] = d
            <7>1. Meets(Arriving, fr, hurt) /\ Live(fr)
              BY MeetsRow DEF fr
            <7>2. fr.data[1][1] = d
              BY <7>1, <6>2, <2>1, <1>1, <1>2, <1>8, CleanJoin
            <7>3. 1 \in 1 .. MaxData /\ fr.data[1] # Idle
              BY <1>2, <1>8, LengthsAreNumbers DEF Shaped
            <7> QED BY <7>2, <7>3
          <6> QED BY <6>1, <6>2, <2>4
        <5>2. DOMAIN fr.data = 1 .. MaxData
          BY <1>8, FrameFacts
        <5>3. fr.data[a] \in ToSet(fr.data) \ {Idle}
          BY <5>1, <5>2 DEF ToSet
        <5> QED BY <5>1, <5>3 DEF PktsOf
      <4>2. h2 = hurt \cup (PktsOf(fr.data) \ ToSet(arr2))
        BY <3>1 DEF fr
      <4> QED BY <4>1, <4>2
    <3>2. CASE ~ s.denied
      <4>1. Got(rx, s, d)
        BY <3>2, <2>1, <2>4, <1>6
      <4>2. CASE \E i \in Len(rx) + 1 .. Len(s.rx) : Named(s.rx[i]) = d
        <5>1. PICK i \in new : Named(s.rx[i]) = d
          BY <4>2 DEF new, b
        <5>2. A + (i - b) \in 1 .. Len(arr2) /\ arr2[A + (i - b)] = d
          BY <5>1, <1>10, <1>13
        <5>3. A + (i - b) \in DOMAIN arr2
          BY <5>2, <1>13
        <5> QED BY <5>2, <5>3 DEF ToSet
      <4>3. CASE s.loop = "OPEN" /\ Opener(s)[1] = d
        BY <4>3, <1>7
      <4> QED BY <4>1, <4>2, <4>3 DEF Got
    <3> QED BY <3>1, <3>2
  <2>5. CASE <<d, 1>> \in Row(link)
    <3>1. <<d, 1>> \in Row(q2) \/ Holds(fr, <<d, 1>>)
      BY <2>5, <1>8 DEF Holds
    <3> QED BY <3>1, <2>4
  <2> QED BY <2>2, <2>3, <2>4, <2>5
<1>25. ASSUME NEW i \in DOMAIN arr2, NEW j \in DOMAIN arr2, i < j, arr2[i] # 0, arr2[j] # 0
       PROVE  arr2[i] < arr2[j]
  <2>1. i \in 1 .. Len(arr2) /\ j \in 1 .. Len(arr2) /\ i \in Nat /\ j \in Nat
    <3>1. i \in 1 .. Len(arr2) /\ j \in 1 .. Len(arr2)
      BY <1>13
    <3> QED BY <3>1
  <2>2. CASE i \in 1 .. A /\ j \in 1 .. A
    BY <2>2, <1>2, <1>13, <1>25 DEF InOrderOnce, A
  <2>3. CASE i \in 1 .. A /\ j \notin 1 .. A
    <3>1. PICK m \in 1 .. K : j = A + m
      BY <2>1, <2>3, <1>13
    <3> DEFINE p == Named(s.rx[b + m])
    <3>2. /\ arr2[i] = arrived[i] /\ arr2[j] = p /\ p \in 1 .. Len(size)
          /\ Holds(fr, <<p, 1>>) \/ (rcv.loop = "OPEN" /\ p = Opener(rcv)[1])
      BY <2>3, <3>1, <1>13, <1>19, <1>25
    <3> HIDE DEF p
    <3> QED BY <3>2, <2>3, <1>20, <1>21
  <2>4. CASE i \notin 1 .. A /\ j \notin 1 .. A
    <3>1. PICK m \in 1 .. K : i = A + m
      BY <2>1, <2>4, <1>13
    <3>2. PICK n \in 1 .. K : j = A + n
      BY <2>1, <2>4, <1>13
    <3>3. b + m < b + n
      <4>1. m \in Nat /\ n \in Nat
        BY <1>9
      <4>2. A + m < A + n
        BY <3>1, <3>2, <1>25
      <4> QED BY <4>1, <4>2, <1>9
    <3>4. b + m \in new /\ b + n \in new
      BY <1>10
    <3>5. arr2[i] = Named(s.rx[b + m]) /\ arr2[j] = Named(s.rx[b + n])
      BY <3>1, <3>2, <1>13
    <3> QED BY <3>3, <3>4, <3>5, <1>3, <1>25
  <2>5. ~ (i \notin 1 .. A /\ j \in 1 .. A)
    BY <2>1, <1>9, <1>25
  <2> QED BY <2>2, <2>3, <2>4, <2>5
<1>26. OnRow(q2, size, snd, h2, rc2, arr2, stuffs)
  BY <1>8, <1>22, <1>23, <1>24 DEF OnRow
<1> QED BY <1>8, <1>14, <1>25, <1>26 DEF q2

-----------------------------------------------------------------------------
(* A frame that is not heard, one on the way to a closed loop, and the row it leaves. *)

LEMMA PktsInRange ==
    ASSUME NEW octets \in Seq(Octet \cup {Idle})
    PROVE  PktsOf(octets) \subseteq 1 .. MaxPkts
<1> SUFFICES ASSUME NEW p \in PktsOf(octets) PROVE p \in 1 .. MaxPkts
  OBVIOUS
<1>1. PICK i \in DOMAIN octets : octets[i] # Idle /\ octets[i][1] = p
  BY DEF PktsOf, ToSet
<1>2. octets[i] \in Octet \cup {Idle}
  OBVIOUS
<1> QED BY <1>1, <1>2, OctetFacts

LEMMA PktsOfFrame ==
    ASSUME NEW fr \in Frame, NEW a \in 1 .. MaxData, fr.data[a] # Idle
    PROVE  fr.data[a][1] \in PktsOf(fr.data)
<1>1. a \in DOMAIN fr.data
  BY FrameFacts
<1> QED BY <1>1 DEF PktsOf, ToSet

(* A frame that is not heard leaves the row, and what it held is hurt. *)
LEMMA UnheardOnRow ==
    ASSUME NEW q, NEW sz, NEW sn, NEW h, NEW rc, NEW arr, NEW st, NEW h2, NEW rc2, h \subseteq h2,
           RowTypes(q, sz, sn, rc, arr), OnRow(q, sz, sn, h, rc, arr, st), q # <<>>,
           Live(Head(q)) => PktsOf(Head(q).data) \subseteq h2,
           rc2.loop = rc.loop, rc2.exp = rc.exp, rc2.buf = rc.buf
    PROVE  /\ RowTypes(Tail(q), sz, sn, rc2, arr) /\ OnRow(Tail(q), sz, sn, h2, rc2, arr, st)
           /\ LastSound(q, sz) => LastSound(Tail(q), sz)
           /\ Tail(q) \in Seq(Frame) /\ Len(Tail(q)) = Len(q) - 1
<1> DEFINE q2 == Tail(q)
           fr == Head(q)
<1>1. Rested(q, sz, sn, h, st, h2)
  BY RestOfRow
<1>2. /\ fr \in Frame /\ q2 \in Seq(Frame) /\ Len(q2) = Len(q) - 1
      /\ Live(fr) => Shaped(fr, sz)
      /\ Frames(q2, sz, h2) /\ Sorted(q2) /\ Unbroken(q2, sz, sn, h2) /\ Plain(q2, st)
      /\ Row(q2) \subseteq Row(q)
      /\ \A o \in Row(q) : o \in Row(q2) \/ (Live(fr) /\ \E a \in 1 .. MaxData : fr.data[a] = o)
      /\ LastSound(q, sz) => LastSound(q2, sz)
  BY <1>1 DEF Rested
<1>3. \A d, m : GoesOn(q, sz, sn, d, m, 1) =>
         IF Live(fr) THEN fr.data[1] = <<d, m + 1>> ELSE GoesOn(q2, sz, sn, d, m, 1)
  BY <1>1 DEF Rested
<1>4. /\ Ahead(q, sz, sn, rc, arr) /\ Joining(q, sz, sn, h, rc, st) /\ Kept(q, sz, sn, h, rc, arr, st)
      /\ q \in Seq(Frame) /\ sz \in Seq(Sizes)
  BY DEF OnRow, RowTypes
<1>5. ASSUME Live(fr), NEW a \in 1 .. MaxData, fr.data[a] # Idle
      PROVE  fr.data[a][1] \in h2
  BY <1>2, <1>5, PktsOfFrame
<1>6. Opener(rc2) = Opener(rc)
  BY DEF Opener
<1> HIDE DEF q2, fr
<1>7. Ahead(q2, sz, sn, rc2, arr)
  BY <1>2, <1>4, <1>6 DEF Ahead
<1>8. Joining(q2, sz, sn, h2, rc2, st)
  <2> DEFINE p == Opener(rc)[1]
             l == Len(rc.buf)
  <2> SUFFICES ASSUME rc.loop = "OPEN", p \notin h2
               PROVE  /\ \A k \in 1 .. l : rc.buf[k] = <<p, k>>
                      /\ l < sz[p] /\ (rc.exp = sz[p] \/ (st /\ rc.exp = 0))
                      /\ GoesOn(q2, sz, sn, p, l, 1)
    BY <1>6 DEF Joining
  <2>1. /\ \A k \in 1 .. l : rc.buf[k] = <<p, k>>
        /\ l < sz[p] /\ (rc.exp = sz[p] \/ (st /\ rc.exp = 0))
        /\ GoesOn(q, sz, sn, p, l, 1)
    BY <1>4 DEF Joining
  <2> HIDE DEF p, l
  <2>2. ASSUME Live(fr) PROVE FALSE
    <3>1. fr.data[1] = <<p, l + 1>>
      BY <2>1, <2>2, <1>3
    <3>2. 1 \in 1 .. MaxData /\ fr.data[1] # Idle
      BY <2>2, <1>2, LengthsAreNumbers DEF Shaped
    <3>3. fr.data[1][1] \in h2
      BY <3>2, <2>2, <1>5
    <3> QED BY <3>1, <3>3
  <2> QED BY <2>1, <2>2, <1>3
<1>9. Kept(q2, sz, sn, h2, rc2, arr, st)
  <2> SUFFICES ASSUME NEW p \in 1 .. Len(sz), p \notin h2, ~ (st /\ sz[p] = MaxSdu)
               PROVE  \/ p \in ToSet(arr) \/ (rc.loop = "OPEN" /\ Opener(rc)[1] = p)
                      \/ <<p, 1>> \in Row(q2) \/ (sn.loop = "OPEN" /\ p = Len(sz) /\ sn.done = 0)
    BY <1>6 DEF Kept
  <2>1. \/ p \in ToSet(arr) \/ (rc.loop = "OPEN" /\ Opener(rc)[1] = p)
        \/ <<p, 1>> \in Row(q) \/ (sn.loop = "OPEN" /\ p = Len(sz) /\ sn.done = 0)
    BY <1>4 DEF Kept
  <2>2. ASSUME <<p, 1>> \in Row(q), <<p, 1>> \notin Row(q2) PROVE FALSE
    <3>1. PICK a \in 1 .. MaxData : Live(fr) /\ fr.data[a] = <<p, 1>>
      BY <2>2, <1>2
    <3>2. fr.data[a] # Idle
      BY <3>1 DEF Idle
    <3>3. fr.data[a][1] \in h2
      BY <3>1, <3>2, <1>5
    <3> QED BY <3>1, <3>3
  <2> QED BY <2>1, <2>2
<1>10. RowTypes(q2, sz, sn, rc2, arr)
  BY <1>2 DEF RowTypes
<1>11. OnRow(q2, sz, sn, h2, rc2, arr, st)
  BY <1>2, <1>7, <1>8, <1>9 DEF OnRow
<1> QED BY <1>2, <1>10, <1>11 DEF q2

(* An item of the receive queue that is a packet as it was sent, or has octets of a hurt one. *)
Sent(item, sz, h) ==
    \/ \E p \in 1 .. Len(sz) : item = [k \in 1 .. sz[p] |-> <<p, k>>]
    \/ PktsOf(item) \cap h # {}

LEMMA SentSays ==
    /\ WholeOrHurt <=> \A i \in DOMAIN rx : Sent(rx[i], size, hurt)
    /\ WholeOrHurt' <=> \A i \in DOMAIN rx' : Sent(rx'[i], size', hurt')
BY DEF WholeOrHurt, WholePkt, Sent, PktsOf

LEMMA SentStays ==
    ASSUME NEW item, NEW sz, NEW h, Sent(item, sz, h), NEW h2, h \subseteq h2
    PROVE  Sent(item, sz, h2)
BY DEF Sent

LEMMA SentGrows ==
    ASSUME NEW item, NEW sz \in Seq(Sizes), NEW h, Sent(item, sz, h), NEW h2, h \subseteq h2, NEW n \in Sizes
    PROVE  Sent(item, Append(sz, n), h2)
<1> DEFINE sz2 == Append(sz, n)
<1>1. CASE PktsOf(item) \cap h # {}
  BY <1>1 DEF Sent
<1>2. CASE \E p \in 1 .. Len(sz) : item = [k \in 1 .. sz[p] |-> <<p, k>>]
  <2>1. PICK p \in 1 .. Len(sz) : item = [k \in 1 .. sz[p] |-> <<p, k>>]
    BY <1>2
  <2>2. p \in 1 .. Len(sz2) /\ sz2[p] = sz[p]
    OBVIOUS
  <2> HIDE DEF sz2
  <2>3. item = [k \in 1 .. sz2[p] |-> <<p, k>>]
    BY <2>1, <2>2
  <2>4. Sent(item, sz2, h2)
    BY <2>2, <2>3 DEF Sent
  <2> QED BY <2>4 DEF sz2
<1> QED BY <1>1, <1>2 DEF Sent

LEMMA LoseKeeps ==
    ASSUME Streamed, Lose PROVE Streamed'
<1>1. /\ link # <<>> /\ link' = Tail(link) /\ hurt' = hurt \cup PktsOf(Head(link).data)
      /\ size' = size /\ stuffs' = stuffs /\ stuffing' = stuffing /\ snd' = snd /\ rcv' = rcv
      /\ rx' = rx /\ idles' = idles /\ arrived' = arrived
  BY DEF Lose
<1>2. /\ TmTypeOK /\ RowTypes(link, size, snd, rcv, arrived)
      /\ OnRow(link, size, snd, hurt, rcv, arrived, stuffs)
      /\ LastSound(link, size) /\ (stuffing => stuffs) /\ InOrderOnce /\ WholeOrHurt
  BY StreamedTypes DEF Streamed
<1>3. hurt \subseteq hurt' /\ PktsOf(Head(link).data) \subseteq hurt'
  BY <1>1
<1>4. /\ OnRow(link', size, snd, hurt', rcv, arrived, stuffs) /\ LastSound(link', size)
      /\ link' \in Seq(Frame) /\ Len(link') = Len(link) - 1
  BY <1>1, <1>2, <1>3, UnheardOnRow
<1>5. PktsOf(Head(link).data) \subseteq 1 .. MaxPkts
  <2>1. Head(link) \in Frame
    BY <1>1, <1>2 DEF TmTypeOK
  <2> QED BY <2>1, FrameFacts, PktsInRange
<1>6. Len(link') <= TxCap
  <2>1. Len(link) \in Nat /\ Len(link) <= TxCap /\ TxCap \in Nat
    BY <1>2, TmCapsAssumption DEF TmTypeOK
  <2> QED BY <2>1, <1>4
<1>7. TmTypeOK'
  BY <1>1, <1>2, <1>4, <1>5, <1>6 DEF TmTypeOK
<1>8. InOrderOnce'
  BY <1>1, <1>2 DEF InOrderOnce
<1>9. WholeOrHurt'
  <2>1. \A i \in DOMAIN rx : Sent(rx[i], size, hurt)
    BY <1>2, SentSays
  <2>2. \A i \in DOMAIN rx' : Sent(rx'[i], size', hurt')
    BY <2>1, <1>1, <1>3, SentStays
  <2> QED BY <2>2, SentSays
<1>10. OnRow(link', size', snd', hurt', rcv', arrived', stuffs')
  BY <1>1, <1>4
<1>11. LastSound(link', size') /\ (stuffing' => stuffs')
  BY <1>1, <1>2, <1>4
<1> QED BY <1>7, <1>8, <1>9, <1>10, <1>11 DEF Streamed

LEMMA TakeKeeps ==
    ASSUME Streamed, Take PROVE Streamed'
<1>1. /\ rx # <<>> /\ rx' = Tail(rx) /\ link' = link /\ hurt' = hurt
      /\ size' = size /\ stuffs' = stuffs /\ stuffing' = stuffing /\ snd' = snd /\ rcv' = rcv
      /\ idles' = idles /\ arrived' = arrived
  BY DEF Take
<1>2. /\ TmTypeOK /\ OnRow(link, size, snd, hurt, rcv, arrived, stuffs)
      /\ LastSound(link, size) /\ (stuffing => stuffs) /\ InOrderOnce /\ WholeOrHurt
  BY DEF Streamed
<1>3. /\ rx' \in Seq(Seq(Octet \cup {Idle})) /\ Len(rx') = Len(rx) - 1 /\ Len(rx) \in Nat
      /\ \A i \in 1 .. Len(rx) - 1 : rx'[i] = rx[i + 1] /\ i + 1 \in 1 .. Len(rx)
  <2> DEFINE S == Seq(Octet \cup {Idle})
  <2>1. rx \in Seq(S)
    BY <1>2 DEF TmTypeOK
  <2> HIDE DEF S
  <2>2. rx' \in Seq(S) /\ Len(rx') = Len(rx) - 1 /\ Len(rx) \in Nat
    BY <2>1, <1>1
  <2>3. \A i \in 1 .. Len(rx) - 1 : Tail(rx)[i] = rx[i + 1] /\ i + 1 \in 1 .. Len(rx)
    BY <2>1, <1>1
  <2> QED BY <2>2, <2>3, <1>1 DEF S
<1>4. Len(rx') <= RxCap
  <2>1. Len(rx) <= RxCap /\ RxCap \in Nat
    BY <1>2, TmCapsAssumption DEF TmTypeOK
  <2> QED BY <2>1, <1>3
<1>5. TmTypeOK'
  BY <1>1, <1>2, <1>3, <1>4 DEF TmTypeOK
<1>6. InOrderOnce'
  BY <1>1, <1>2 DEF InOrderOnce
<1>7. WholeOrHurt'
  <2>1. DOMAIN rx = 1 .. Len(rx) /\ DOMAIN rx' = 1 .. Len(rx) - 1
    <3>1. rx \in Seq(Seq(Octet \cup {Idle}))
      BY <1>2 DEF TmTypeOK
    <3> QED BY <3>1, <1>3
  <2>2. \A i \in DOMAIN rx : Sent(rx[i], size, hurt)
    BY <1>2, SentSays
  <2>3. \A i \in DOMAIN rx' : Sent(rx'[i], size', hurt')
    BY <2>1, <2>2, <1>1, <1>3
  <2> QED BY <2>3, SentSays
<1>8. OnRow(link', size', snd', hurt', rcv', arrived', stuffs') /\ LastSound(link', size')
      /\ (stuffing' => stuffs')
  BY <1>1, <1>2
<1> QED BY <1>5, <1>6, <1>7, <1>8 DEF Streamed

(* osdlp_tm_receive of a frame that holds packets. *)
LEMMA HearLiveKeeps ==
    ASSUME Streamed, link # <<>>, Live(Head(link)), NEW garbage,
           NEW s, s = Receive(Head(link), garbage),
           rcv' = [loop |-> s.loop, exp |-> s.exp, buf |-> s.buf], rx' = s.rx,
           Lengthened(arrived', s),
           hurt' = IF s.denied THEN hurt \cup (PktsOf(Head(link).data) \ ToSet(arrived')) ELSE hurt,
           link' = Tail(link), UNCHANGED <<size, stuffs, stuffing, snd, idles>>
    PROVE  Streamed'
<1> DEFINE fr == Head(link)
           b == Len(rx)
           m == Len(s.rx)
<1>1. /\ TmTypeOK /\ WholeOrHurt /\ (stuffing => stuffs) /\ link \in Seq(Frame)
      /\ size \in Seq(Sizes) /\ Len(size) <= MaxPkts /\ stuffs \in BOOLEAN
  BY DEF Streamed, TmTypeOK
<1>2. /\ Meets(Arriving, fr, hurt) /\ Shaped(fr, size) /\ fr \in Frame
      /\ ~ stuffs => \A a \in 1 .. MaxData : fr.data[a] # Idle => fr.data[a][1] = fr.data[1][1]
  BY MeetsRow
<1>3. Handled(Arriving, fr, s, hurt)
  BY <1>1, <1>2, ReceiveHandled DEF Arriving
<1>4. /\ OnRow(link', size, snd, hurt', rcv', arrived', stuffs) /\ LastSound(link', size)
      /\ \A i, j \in DOMAIN arrived' :
            i < j /\ arrived'[i] # 0 /\ arrived'[j] # 0 => arrived'[i] < arrived'[j]
  BY <1>3, HeardOnRow
<1>5. Arriving.rx = rx
  BY StreamedTypes
<1>6. /\ s \in Receiver /\ Len(s.buf) <= MaxSdu /\ b <= m /\ m <= RxCap
      /\ \A i \in 1 .. b : s.rx[i] = rx[i]
      /\ \A i \in b + 1 .. m :
            LET p == Named(s.rx[i])
            IN  (p \in 1 .. Len(size) /\ s.rx[i] = WholePkt(p)) \/ PktsOf(s.rx[i]) \cap hurt # {}
  BY <1>3, <1>5 DEF Handled
<1>7. /\ s.loop \in {"OPEN", "CLOSED"} /\ s.exp \in 0 .. MaxSdu /\ s.buf \in Seq(Octet \cup {Idle})
      /\ s.rx \in Seq(Seq(Octet \cup {Idle}))
  BY <1>6 DEF Receiver
<1>8. hurt \subseteq hurt' /\ hurt' \subseteq 1 .. MaxPkts
  <2>1. PktsOf(fr.data) \subseteq 1 .. MaxPkts /\ hurt \subseteq 1 .. MaxPkts
    BY <1>1, <1>2, FrameFacts, PktsInRange DEF TmTypeOK
  <2> QED BY <2>1
<1>9. arrived' \in Seq(0 .. MaxPkts)
  BY DEF Lengthened
<1>10. link' \in Seq(Frame) /\ Len(link') <= TxCap
  <2>1. link' \in Seq(Frame) /\ Len(link') = Len(link) - 1 /\ Len(link) \in Nat
    BY <1>1
  <2>2. Len(link) <= TxCap /\ TxCap \in Nat
    BY <1>1, TmCapsAssumption DEF TmTypeOK
  <2> QED BY <2>1, <2>2
<1>11. rcv'.loop = s.loop /\ rcv'.exp = s.exp /\ rcv'.buf = s.buf
  OBVIOUS
<1>12. TmTypeOK'
  BY <1>1, <1>6, <1>7, <1>8, <1>9, <1>10, <1>11 DEF TmTypeOK
<1>13. InOrderOnce'
  BY <1>4 DEF InOrderOnce
<1>14. WholeOrHurt'
  <2>1. rx \in Seq(Seq(Octet \cup {Idle})) /\ DOMAIN rx = 1 .. b /\ DOMAIN rx' = 1 .. m /\ b \in Nat /\ m \in Nat
    <3>1. rx \in Seq(Seq(Octet \cup {Idle}))
      BY <1>1 DEF TmTypeOK
    <3>2. rx' \in Seq(Seq(Octet \cup {Idle}))
      BY <1>7
    <3> QED BY <3>1, <3>2
  <2>2. \A i \in 1 .. b : Sent(rx[i], size, hurt)
    BY <2>1, <1>1, SentSays
  <2> HIDE DEF b, m
  <2>3. ASSUME NEW i \in 1 .. m PROVE Sent(s.rx[i], size, hurt)
    <3>1. CASE i \in 1 .. b
      BY <3>1, <2>2, <1>6
    <3>2. CASE i \notin 1 .. b
      <4>1. i \in b + 1 .. m
        BY <3>2, <2>1
      <4>2. \/ \E p \in 1 .. Len(size) : s.rx[i] = WholePkt(p)
            \/ PktsOf(s.rx[i]) \cap hurt # {}
        BY <4>1, <1>6
      <4> QED BY <4>2 DEF Sent, WholePkt
    <3> QED BY <3>1, <3>2
  <2>4. ASSUME NEW i \in DOMAIN rx' PROVE Sent(rx'[i], size', hurt')
    <3>1. Sent(s.rx[i], size, hurt')
      BY <2>1, <2>3, <1>8, SentStays
    <3> QED BY <3>1
  <2> QED BY <2>4, SentSays
<1>15. OnRow(link', size', snd', hurt', rcv', arrived', stuffs')
  BY <1>4
<1>16. LastSound(link', size') /\ (stuffing' => stuffs')
  BY <1>1, <1>4
<1> QED BY <1>12, <1>13, <1>14, <1>15, <1>16 DEF Streamed

(* Of a frame of idle data nothing is heard. *)
LEMMA HearIdleKeeps ==
    ASSUME Streamed, link # <<>>, ~ Live(Head(link)), NEW s, s = Arriving,
           rcv' = [loop |-> s.loop, exp |-> s.exp, buf |-> s.buf], rx' = s.rx,
           arrived' = arrived, hurt' = hurt,
           link' = Tail(link), UNCHANGED <<size, stuffs, stuffing, snd, idles>>
    PROVE  Streamed'
<1>1. /\ RowTypes(link, size, snd, rcv, arrived) /\ OnRow(link, size, snd, hurt, rcv, arrived, stuffs)
      /\ Arriving \in Receiver /\ Arriving.loop = rcv.loop /\ Arriving.exp = rcv.exp /\ Arriving.buf = rcv.buf
      /\ Arriving.rx = rx
  BY StreamedTypes
<1>2. rcv'.loop = rcv.loop /\ rcv'.exp = rcv.exp /\ rcv'.buf = rcv.buf /\ rx' = rx
  BY <1>1
<1>3. /\ TmTypeOK /\ LastSound(link, size) /\ (stuffing => stuffs) /\ InOrderOnce /\ WholeOrHurt
  BY DEF Streamed
<1>4. /\ OnRow(link', size, snd, hurt', rcv', arrived, stuffs) /\ LastSound(link', size)
      /\ link' \in Seq(Frame) /\ Len(link') = Len(link) - 1
  BY <1>1, <1>2, <1>3, UnheardOnRow
<1>5. Len(link') <= TxCap
  <2>1. Len(link) \in Nat /\ Len(link) <= TxCap /\ TxCap \in Nat
    BY <1>3, TmCapsAssumption DEF TmTypeOK
  <2> QED BY <2>1, <1>4
<1>6. TmTypeOK'
  BY <1>2, <1>3, <1>4, <1>5 DEF TmTypeOK
<1>7. InOrderOnce'
  BY <1>3 DEF InOrderOnce
<1>8. WholeOrHurt'
  BY <1>2, <1>3, SentSays
<1>9. OnRow(link', size', snd', hurt', rcv', arrived', stuffs') /\ LastSound(link', size') /\ (stuffing' => stuffs')
  BY <1>3, <1>4
<1> QED BY <1>6, <1>7, <1>8, <1>9 DEF Streamed

LEMMA HearKeeps ==
    ASSUME Streamed, Hear PROVE Streamed'
<1>1. PICK garbage :
         LET fr == Head(link)
             s  == Receive(fr, garbage)
         IN  /\ rcv' = [loop |-> s.loop, exp |-> s.exp, buf |-> s.buf]
             /\ rx' = s.rx
             /\ arrived' = arrived \o [i \in 1 .. Len(s.rx) - Len(rx) |-> Named(s.rx[Len(rx) + i])]
             /\ hurt' = IF s.denied THEN hurt \cup (PktsOf(fr.data) \ ToSet(arrived')) ELSE hurt
  BY DEF Hear
<1>2. link # <<>> /\ link' = Tail(link) /\ UNCHANGED <<size, stuffs, stuffing, snd, idles>>
  BY DEF Hear
<1> DEFINE fr == Head(link)
           s == Receive(fr, garbage)
           names == [i \in 1 .. Len(s.rx) - Len(rx) |-> Named(s.rx[Len(rx) + i])]
<1>3. /\ rcv' = [loop |-> s.loop, exp |-> s.exp, buf |-> s.buf] /\ rx' = s.rx
      /\ arrived' = arrived \o names
      /\ hurt' = IF s.denied THEN hurt \cup (PktsOf(fr.data) \ ToSet(arrived')) ELSE hurt
  BY <1>1
<1>4. CASE Live(fr)
  <2>1. /\ Meets(Arriving, fr, hurt) /\ Shaped(fr, size) /\ fr \in Frame
        /\ ~ stuffs => \A a \in 1 .. MaxData : fr.data[a] # Idle => fr.data[a][1] = fr.data[1][1]
    BY <1>2, <1>4, MeetsRow
  <2>2. size \in Seq(Sizes) /\ Len(size) <= MaxPkts /\ stuffs \in BOOLEAN
    BY DEF Streamed, TmTypeOK
  <2>3. Handled(Arriving, fr, s, hurt)
    BY <2>1, <2>2, <1>4, ReceiveHandled DEF Arriving
  <2> HIDE DEF s, names, fr
  <2>4. Lengthened(arrived \o names, s)
    BY <2>3, ArrivedLengthened DEF names
  <2>5. Lengthened(arrived', s)
    BY <2>4, <1>3
  <2> QED BY <2>5, <1>2, <1>3, <1>4, HearLiveKeeps DEF s, fr
<1>5. CASE ~ Live(fr)
  <2>1. s = Arriving
    BY <1>5 DEF Receive, Live, Arriving
  <2> HIDE DEF s, fr, names
  <2>2. Arriving.rx = rx /\ Arriving.denied = FALSE /\ arrived \in Seq(0 .. MaxPkts) /\ Len(rx) \in Nat
    <3>1. arrived \in Seq(0 .. MaxPkts) /\ rx \in Seq(Seq(Octet \cup {Idle}))
      BY DEF Streamed, TmTypeOK
    <3>2. Len(rx) \in Nat
      BY <3>1
    <3>3. Arriving.rx = rx /\ Arriving.denied = FALSE
      BY DEF Arriving
    <3> QED BY <3>1, <3>2, <3>3
  <2>3. names = <<>>
    <3>1. Len(s.rx) - Len(rx) = 0
      <4>1. s.rx = rx
        BY <2>1, <2>2
      <4>2. Len(s.rx) = Len(rx)
        BY <4>1
      <4> QED BY <4>2, <2>2
    <3>2. names = [i \in 1 .. 0 |-> Named(s.rx[Len(rx) + i])]
      BY <3>1 DEF names
    <3> QED BY <3>2
  <2>4. arrived' = arrived
    <3>1. arrived \o <<>> = arrived
      BY <2>2
    <3> QED BY <3>1, <2>3, <1>3
  <2>5. hurt' = hurt
    <3>1. s.denied = FALSE
      BY <2>1, <2>2
    <3> QED BY <3>1, <1>3
  <2> QED BY <2>1, <2>4, <2>5, <1>2, <1>3, <1>5, HearIdleKeeps DEF fr
<1> QED BY <1>4, <1>5

-----------------------------------------------------------------------------
(* The steps of the sender. *)

LEMMA SenderKeeps ==
    ASSUME Streamed,
           RowTypes(link', size', snd', rcv, arrived),
           OnRow(link', size', snd', hurt', rcv, arrived, stuffs),
           LastSound(link', size'), Len(link') <= TxCap,
           hurt \subseteq hurt', hurt' \subseteq 1 .. MaxPkts,
           size' = size \/ \E n \in Sizes : size' = Append(size, n),
           UNCHANGED <<stuffs, rcv, rx, arrived>>,
           stuffing' \in BOOLEAN, stuffing' => stuffs, idles' \in 0 .. MaxIdles
    PROVE  Streamed'
<1>1. /\ TmTypeOK /\ InOrderOnce /\ WholeOrHurt /\ size \in Seq(Sizes)
  BY DEF Streamed, TmTypeOK
<1>2. TmTypeOK'
  <2>1. /\ link' \in Seq(Frame) /\ size' \in Seq(Sizes) /\ Len(size') <= MaxPkts
        /\ snd' \in [loop : {"OPEN", "CLOSED"}, done : 0 .. MaxSdu]
    BY DEF RowTypes, SenderLoop
  <2> QED BY <2>1, <1>1 DEF TmTypeOK
<1>3. InOrderOnce'
  BY <1>1 DEF InOrderOnce
<1>4. WholeOrHurt'
  <2>1. ASSUME NEW i \in DOMAIN rx PROVE Sent(rx[i], size', hurt')
    <3>1. Sent(rx[i], size, hurt)
      BY <1>1, SentSays
    <3> QED BY <3>1, <1>1, SentStays, SentGrows
  <2> QED BY <2>1, SentSays
<1>5. OnRow(link', size', snd', hurt', rcv', arrived', stuffs') /\ (stuffing' => stuffs')
  OBVIOUS
<1> QED BY <1>2, <1>3, <1>4, <1>5 DEF Streamed

(* The frames of a packet are queued as far as the queue has room. *)
LEMMA EnqueueOnRow ==
    ASSUME NEW q, NEW sz, NEW sn, NEW h,
           RowTypes(q, sz, sn, rcv, arrived), OnRow(q, sz, sn, h, rcv, arrived, stuffs), sn.loop = "OPEN",
           Len(q) <= TxCap, LastSound(q, sz) \/ Len(q) < TxCap,
           Enqueue(q, Len(sz), sn.done, sz[Len(sz)])
    PROVE  /\ RowTypes(link', sz, snd', rcv, arrived) /\ OnRow(link', sz, snd', h, rcv, arrived, stuffs)
           /\ LastSound(link', sz) /\ Len(link') <= TxCap
<1> DEFINE p == Len(sz)
           from == sn.done
           n == sz[p]
           c == FramesLeft(from, n)
           L == Len(q)
           k == Min({c, TxCap - L})
<1>1. q \in Seq(Frame) /\ sz \in Seq(Sizes) /\ sn \in SenderLoop /\ sz # <<>> /\ from < n
  BY DEF RowTypes, OnRow, Ahead
<1>2. L \in Nat /\ p \in 1 .. Len(sz) /\ from \in Nat /\ TxCap \in Nat
  BY <1>1, LengthsAreNumbers, TmCapsAssumption DEF SenderLoop
<1>3. n \in Nat /\ from \in 0 .. n - 1
  <2>1. n \in Nat
    BY <1>1, <1>2, SizeFacts
  <2> QED BY <2>1, <1>1, <1>2
<1>4. c \in Nat /\ c >= 1
  BY <1>3, FramesCounted, SMTT(30)
<1>5. /\ link' = q \o [i \in 1 .. k |-> FrameFrom(p, from + (i - 1) * MaxData, n)]
      /\ snd' = IF k < c THEN [loop |-> "OPEN", done |-> from + k * MaxData]
                ELSE [loop |-> "CLOSED", done |-> 0]
  BY DEF Enqueue, FramesLeft
<1> HIDE DEF c, L
<1>6. k \in 0 .. c /\ k <= TxCap - L /\ (k = 0 => L = TxCap)
  <2>1. TxCap - L \in Nat
    BY <1>2 DEF L
  <2>2. k = IF c <= TxCap - L THEN c ELSE TxCap - L
    BY <2>1, <1>4, MinOfTwo
  <2> HIDE DEF k
  <2> QED BY <2>1, <2>2, <1>2, <1>4
<1> HIDE DEF k
<1>7. CASE k = 0
  <2>1. link' = q
    <3>1. [i \in 1 .. k |-> FrameFrom(p, from + (i - 1) * MaxData, n)] = <<>>
      BY <1>7
    <3>2. q \o <<>> = q
      BY <1>1
    <3> QED BY <3>1, <3>2, <1>5
  <2>2. snd' = sn
    <3>1. k < c /\ from + k * MaxData = from
      <4>1. 0 * MaxData = 0
        BY Multiples
      <4>2. k * MaxData = 0
        BY <4>1, <1>7
      <4> HIDE DEF from
      <4> QED BY <4>2, <1>2, <1>4, <1>7
    <3>2. sn = [loop |-> "OPEN", done |-> from]
      BY <1>1 DEF SenderLoop
    <3> QED BY <3>1, <3>2, <1>5
  <2>3. LastSound(q, sz)
    BY <1>2, <1>6, <1>7 DEF L
  <2> QED BY <2>1, <2>2, <2>3
<1>8. CASE k # 0
  <2> DEFINE q2 == q \o Cuts(Len(sz), sn.done, sz[Len(sz)], k)
             sn2 == IF k < FramesLeft(sn.done, sz[Len(sz)])
                    THEN [loop |-> "OPEN", done |-> sn.done + k * MaxData]
                    ELSE [loop |-> "CLOSED", done |-> 0]
  <2>1. link' = q2 /\ snd' = sn2
    BY <1>5 DEF Cuts, c
  <2>2. /\ RowTypes(q2, sz, sn2, rcv, arrived) /\ OnRow(q2, sz, sn2, h, rcv, arrived, stuffs)
        /\ LastSound(q2, sz) /\ Len(q2) = Len(q) + k
    BY <1>6, <1>8, QueuedOnRow DEF c
  <2> HIDE DEF q2, sn2
  <2>3. Len(link') <= TxCap
    BY <2>1, <2>2, <1>2, <1>6 DEF L
  <2> QED BY <2>1, <2>2, <2>3
<1> QED BY <1>7, <1>8

LEMMA SoundGrows ==
    ASSUME NEW q \in Seq(Frame), NEW sz \in Seq(Sizes), NEW h, Frames(q, sz, h), LastSound(q, sz), NEW n \in Sizes
    PROVE  LastSound(q, Append(sz, n))
<1> DEFINE fr == Last(q)
           sz2 == Append(sz, n)
<1> SUFFICES ASSUME q # <<>>, Live(fr) PROVE HoldsLengths(fr) /\ EndsWhole(fr, sz2)
  BY DEF LastSound
<1>1. HoldsLengths(fr) /\ EndsWhole(fr, sz)
  BY DEF LastSound
<1>2. Len(q) \in 1 .. Len(q) /\ fr = q[Len(q)]
  BY DEF Last
<1>3. Shaped(fr, sz)
  BY <1>2 DEF Frames
<1> HIDE DEF fr, sz2
<1>4. fr.data[MaxData] # Idle => LeftOf(fr.data[MaxData], sz2) = LeftOf(fr.data[MaxData], sz)
  <2>1. MaxData \in 1 .. MaxData
    BY LengthsAreNumbers
  <2>2. fr.data[MaxData] # Idle => IsOctet(fr.data[MaxData], sz)
    BY <2>1, <1>3 DEF Shaped
  <2> QED BY <2>2, OctetGrows DEF sz2
<1> QED BY <1>1, <1>4 DEF EndsWhole

LEMMA ResumeKeeps ==
    ASSUME Streamed, Resume PROVE Streamed'
<1>1. /\ snd.loop = "OPEN" /\ Len(link) < TxCap /\ Enqueue(link, Len(size), snd.done, size[Len(size)])
      /\ UNCHANGED <<size, stuffs, stuffing, rcv, rx, idles, hurt, arrived>>
  BY DEF Resume
<1>2. /\ RowTypes(link, size, snd, rcv, arrived) /\ OnRow(link, size, snd, hurt, rcv, arrived, stuffs)
  BY StreamedTypes
<1>3. /\ Len(link) <= TxCap /\ hurt \subseteq 1 .. MaxPkts /\ stuffing \in BOOLEAN /\ (stuffing => stuffs)
      /\ idles \in 0 .. MaxIdles
  BY DEF Streamed, TmTypeOK
<1>4. /\ RowTypes(link', size, snd', rcv, arrived) /\ OnRow(link', size, snd', hurt, rcv, arrived, stuffs)
      /\ LastSound(link', size) /\ Len(link') <= TxCap
  BY <1>1, <1>2, <1>3, EnqueueOnRow
<1> QED BY <1>1, <1>3, <1>4, SenderKeeps

LEMMA AbortKeeps ==
    ASSUME Streamed, Abort PROVE Streamed'
<1>1. /\ snd.loop = "OPEN" /\ snd' = [loop |-> "CLOSED", done |-> 0] /\ hurt' = hurt \cup {Len(size)}
      /\ UNCHANGED <<size, stuffs, stuffing, link, rcv, rx, idles, arrived>>
  BY DEF Abort
<1>2. /\ RowTypes(link, size, snd, rcv, arrived) /\ OnRow(link, size, snd, hurt, rcv, arrived, stuffs)
  BY StreamedTypes
<1>3. /\ Len(link) <= TxCap /\ hurt \subseteq 1 .. MaxPkts /\ stuffing \in BOOLEAN /\ (stuffing => stuffs)
      /\ idles \in 0 .. MaxIdles /\ LastSound(link, size) /\ size \in Seq(Sizes) /\ Len(size) <= MaxPkts
  BY DEF Streamed, TmTypeOK
<1>4. RowTypes(link, size, snd', rcv, arrived) /\ OnRow(link, size, snd', hurt', rcv, arrived, stuffs)
  BY <1>1, <1>2, GivenUpOnRow
<1>5. Len(size) \in 1 .. MaxPkts
  <2>1. size # <<>>
    BY <1>1, <1>2 DEF OnRow, Ahead
  <2> QED BY <2>1, <1>3, LengthsAreNumbers
<1>6. hurt \subseteq hurt' /\ hurt' \subseteq 1 .. MaxPkts
  BY <1>1, <1>3, <1>5
<1> QED BY <1>1, <1>3, <1>4, <1>6, SenderKeeps

LEMMA TransmitIdleKeeps ==
    ASSUME Streamed, TransmitIdle PROVE Streamed'
<1>1. /\ idles < MaxIdles /\ Len(link) < TxCap /\ link' = Append(link, Pack(Oid, <<>>)) /\ idles' = idles + 1
      /\ UNCHANGED <<size, stuffs, stuffing, snd, rcv, rx, hurt, arrived>>
  BY DEF TransmitIdle
<1>2. /\ RowTypes(link, size, snd, rcv, arrived) /\ OnRow(link, size, snd, hurt, rcv, arrived, stuffs)
  BY StreamedTypes
<1>3. /\ hurt \subseteq 1 .. MaxPkts /\ stuffing \in BOOLEAN /\ (stuffing => stuffs)
      /\ idles \in 0 .. MaxIdles /\ link \in Seq(Frame)
  BY DEF Streamed, TmTypeOK
<1>4. /\ RowTypes(link', size, snd, rcv, arrived) /\ OnRow(link', size, snd, hurt, rcv, arrived, stuffs)
      /\ LastSound(link', size) /\ Len(link') = Len(link) + 1
  BY <1>1, <1>2, IdleOnRow
<1>5. Len(link') <= TxCap /\ idles' \in 0 .. MaxIdles
  <2>1. Len(link) \in Nat
    BY <1>3
  <2> QED BY <2>1, <1>1, <1>3, <1>4, TmCapsAssumption
<1> QED BY <1>1, <1>3, <1>4, <1>5, SenderKeeps

LEMMA SwitchStuffingKeeps ==
    ASSUME Streamed, SwitchStuffing PROVE Streamed'
<1>1. /\ stuffs /\ stuffing' = ~ stuffing
      /\ UNCHANGED <<size, stuffs, snd, link, rcv, rx, idles, hurt, arrived>>
  BY DEF SwitchStuffing
<1>2. /\ RowTypes(link, size, snd, rcv, arrived) /\ OnRow(link, size, snd, hurt, rcv, arrived, stuffs)
  BY StreamedTypes
<1>3. /\ hurt \subseteq 1 .. MaxPkts /\ stuffing \in BOOLEAN /\ idles \in 0 .. MaxIdles /\ Len(link) <= TxCap
      /\ LastSound(link, size)
  BY DEF Streamed, TmTypeOK
<1> QED BY <1>1, <1>2, <1>3, SenderKeeps

(* A packet is begun in frames of its own. *)
LEMMA TransmitWithoutRoom ==
    ASSUME Streamed, NEW length \in Sizes, Len(size) + 1 <= MaxPkts, snd.loop = "CLOSED",
           Enqueue(link, Len(size) + 1, 0, length)
    PROVE  LET sz == Append(size, length)
           IN  /\ RowTypes(link', sz, snd', rcv, arrived) /\ OnRow(link', sz, snd', hurt, rcv, arrived, stuffs)
               /\ LastSound(link', sz) /\ Len(link') <= TxCap
<1> DEFINE sz == Append(size, length)
           sn == [loop |-> "OPEN", done |-> 0]
<1>1. /\ RowTypes(link, size, snd, rcv, arrived) /\ OnRow(link, size, snd, hurt, rcv, arrived, stuffs)
  BY StreamedTypes
<1>2. /\ Len(link) <= TxCap /\ LastSound(link, size) /\ size \in Seq(Sizes) /\ Len(size) <= MaxPkts
      /\ link \in Seq(Frame) /\ Frames(link, size, hurt)
  BY DEF Streamed, TmTypeOK, OnRow
<1>3. Len(size) \in Nat /\ Len(size) < MaxPkts
  BY <1>2, LengthsAreNumbers
<1>4. Len(sz) = Len(size) + 1 /\ sz[Len(sz)] = length
  BY <1>2, SizesGrow
<1>5. RowTypes(link, sz, sn, rcv, arrived) /\ OnRow(link, sz, sn, hurt, rcv, arrived, stuffs)
  BY <1>1, <1>3, BegunOnRow
<1>6. LastSound(link, sz)
  BY <1>2, SoundGrows
<1>7. sn.loop = "OPEN" /\ sn.done = 0
  OBVIOUS
<1> HIDE DEF sz, sn
<1>8. Enqueue(link, Len(sz), sn.done, sz[Len(sz)])
  BY <1>4, <1>7
<1>9. /\ RowTypes(link', sz, snd', rcv, arrived) /\ OnRow(link', sz, snd', hurt, rcv, arrived, stuffs)
      /\ LastSound(link', sz) /\ Len(link') <= TxCap
  BY <1>2, <1>5, <1>6, <1>7, <1>8, EnqueueOnRow
<1> QED BY <1>9 DEF sz

(* Where the stuffing begins. *)
LEMMA RoomFound ==
    ASSUME Streamed, HasRoom
    PROVE  LET fr == Last(link)
               r == ResidueLen(fr)
           IN  /\ fr \in Frame /\ r \in 0 .. MaxData - 1 /\ stuffs
               /\ Live(fr) => /\ Shaped(fr, size) /\ r >= 1 /\ fr.data[r] # Idle /\ LeftOf(fr.data[r], size) = 0
                              /\ r + HdrLen >= MaxData \/ fr.data[r + 1] = Idle
               /\ ~ Live(fr) => r = 0
<1> DEFINE fr == Last(link)
           r == ResidueLen(fr)
<1>1. /\ link # <<>> /\ r < MaxData /\ stuffing /\ link \in Seq(Frame) /\ size \in Seq(Sizes)
      /\ Frames(link, size, hurt) /\ (stuffing => stuffs)
  BY DEF HasRoom, Streamed, TmTypeOK, OnRow
<1>2. Len(link) \in 1 .. Len(link) /\ fr = link[Len(link)] /\ fr \in Frame
  BY <1>1 DEF Last
<1>3. Live(fr) => Shaped(fr, size)
  BY <1>1, <1>2 DEF Frames
<1>4. ASSUME ~ Live(fr) PROVE r = 0
  <2>1. fr.ptr = Oid /\ Oid # NoPkt
    BY <1>4, LengthsAreNumbers DEF Live, Oid, NoPkt
  <2> QED BY <2>1 DEF ResidueLen
<1> HIDE DEF fr
<1>5. ASSUME Live(fr)
      PROVE  /\ r \in 1 .. MaxData - 1 /\ fr.data[r] # Idle /\ LeftOf(fr.data[r], size) = 0
             /\ r + HdrLen >= MaxData \/ fr.data[r + 1] = Idle
  BY <1>1, <1>2, <1>3, <1>5, ResidueFound
<1> HIDE DEF r
<1>6. r \in 0 .. MaxData - 1
  BY <1>4, <1>5, LengthsAreNumbers
<1>7. Live(fr) => r >= 1
  BY <1>5, LengthsAreNumbers
<1> QED BY <1>1, <1>2, <1>3, <1>4, <1>5, <1>6, <1>7 DEF fr, r

(* A packet is begun behind the last octet of the last frame. *)
LEMMA TransmitWithRoom ==
    ASSUME Streamed, NEW length \in Sizes, Len(size) + 1 <= MaxPkts, snd.loop = "CLOSED", HasRoom,
           NEW r, r = ResidueLen(Last(link)), NEW p, p = Len(size) + 1,
           Enqueue([link EXCEPT ![Len(link)] = Stuffed(@, r, p, length)], p, RestFrom(length, r), length)
    PROVE  LET sz == Append(size, length)
               h == hurt \cup WrittenOver(Last(link), r, p)
           IN  /\ RowTypes(link', sz, snd', rcv, arrived) /\ OnRow(link', sz, snd', h, rcv, arrived, stuffs)
               /\ LastSound(link', sz) /\ Len(link') <= TxCap
<1> DEFINE sz == Append(size, length)
           h == hurt \cup WrittenOver(Last(link), r, p)
           from == RestFrom(length, r)
           q == [link EXCEPT ![Len(link)] = Stuffed(@, r, p, length)]
           sn == IF from < length THEN [loop |-> "OPEN", done |-> from] ELSE [loop |-> "CLOSED", done |-> 0]
<1>1. /\ RowTypes(link, size, snd, rcv, arrived) /\ OnRow(link, size, snd, hurt, rcv, arrived, stuffs)
      /\ LastSound(link, size) /\ size \in Seq(Sizes) /\ Len(size) <= MaxPkts /\ stuffs \in BOOLEAN
  BY StreamedTypes DEF Streamed, TmTypeOK
<1>2. /\ r \in 0 .. MaxData - 1 /\ stuffs = TRUE
      /\ Live(Last(link)) => r >= 1 /\ Last(link).data[r] # Idle /\ LeftOf(Last(link).data[r], size) = 0
      /\ ~ Live(Last(link)) => r = 0
  BY <1>1, RoomFound
<1>3. link # <<>> /\ Len(link) < TxCap
  BY DEF HasRoom
<1>4. Len(size) \in Nat /\ Len(size) < MaxPkts /\ length \in Nat /\ length >= 1
  BY <1>1, LengthsAreNumbers
<1>5. from = IF length <= MaxData - r THEN length ELSE MaxData - r
  <2>1. MaxData - r \in Int
    BY <1>2, LengthsAreNumbers
  <2> QED BY <2>1, <1>4, MinOfTwo DEF RestFrom
<1>6. Len(sz) = p /\ sz[Len(sz)] = length
  BY <1>1, SizesGrow
<1> HIDE DEF from
<1>7. /\ RowTypes(q, sz, sn, rcv, arrived) /\ OnRow(q, sz, sn, h, rcv, arrived, TRUE)
      /\ Len(q) = Len(link) /\ (from = length => LastSound(q, sz))
  <2>1. OnRow(link, size, snd, hurt, rcv, arrived, TRUE)
    BY <1>1, <1>2
  <2>2. StuffedIn(link, size, hurt, rcv, arrived, length, r, from)
    BY <2>1, <1>1, <1>2, <1>3, <1>4, <1>5, StuffedOnRow
  <2> QED BY <2>2 DEF StuffedIn
<1>8. Enqueue(q, p, from, length)
  BY DEF from
<1> HIDE DEF q, sz, h
<1>9. CASE from < length
  <2>1. sn.loop = "OPEN" /\ sn.done = from
    BY <1>9
  <2> HIDE DEF sn
  <2>2. Enqueue(q, Len(sz), sn.done, sz[Len(sz)])
    BY <2>1, <1>6, <1>8
  <2>3. Len(q) < TxCap /\ Len(q) <= TxCap
    <3>1. q \in Seq(Frame)
      BY <1>7 DEF RowTypes
    <3>2. Len(q) \in Nat /\ TxCap \in Nat
      BY <3>1, TmCapsAssumption
    <3> QED BY <3>2, <1>3, <1>7
  <2>4. OnRow(q, sz, sn, h, rcv, arrived, stuffs)
    BY <1>2, <1>7
  <2>5. /\ RowTypes(link', sz, snd', rcv, arrived) /\ OnRow(link', sz, snd', h, rcv, arrived, stuffs)
        /\ LastSound(link', sz) /\ Len(link') <= TxCap
    BY <2>1, <2>2, <2>3, <2>4, <1>7, EnqueueOnRow
  <2> QED BY <2>5 DEF sz, h
<1>10. CASE ~ (from < length)
  <2>1. from = length /\ sn = [loop |-> "CLOSED", done |-> 0]
    BY <1>2, <1>4, <1>5, <1>10, LengthsAreNumbers
  <2> HIDE DEF sn
  <2> DEFINE c == (length - from + MaxData - 1) \div MaxData
             k == Min({c, TxCap - Len(q)})
  <2>2. /\ link' = q \o [i \in 1 .. k |-> FrameFrom(p, from + (i - 1) * MaxData, length)]
        /\ snd' = IF k < c THEN [loop |-> "OPEN", done |-> from + k * MaxData]
                  ELSE [loop |-> "CLOSED", done |-> 0]
    BY <1>8 DEF Enqueue
  <2>3. c = 0
    <3>1. length - from + MaxData - 1 = MaxData - 1
      BY <2>1, <1>4, LengthsAreNumbers
    <3>2. (MaxData - 1) \div MaxData = 0
      BY LengthsAreNumbers
    <3> QED BY <3>1, <3>2
  <2> HIDE DEF c
  <2>4. q \in Seq(Frame) /\ TxCap - Len(q) \in Nat /\ TxCap - Len(q) >= 1 /\ Len(q) <= TxCap
    <3>1. q \in Seq(Frame)
      BY <1>7 DEF RowTypes
    <3>2. Len(q) \in Nat /\ TxCap \in Nat
      BY <3>1, TmCapsAssumption
    <3> QED BY <3>1, <3>2, <1>3, <1>7
  <2>5. k = 0
    BY <2>3, <2>4, MinOfTwo
  <2> HIDE DEF k
  <2>6. link' = q
    <3>1. [i \in 1 .. k |-> FrameFrom(p, from + (i - 1) * MaxData, length)] = <<>>
      BY <2>5
    <3>2. q \o <<>> = q
      BY <2>4
    <3> QED BY <3>1, <3>2, <2>2
  <2>7. snd' = sn
    BY <2>1, <2>2, <2>3, <2>5
  <2>8. /\ RowTypes(link', sz, snd', rcv, arrived) /\ OnRow(link', sz, snd', h, rcv, arrived, stuffs)
        /\ LastSound(link', sz) /\ Len(link') <= TxCap
    BY <2>1, <2>4, <2>6, <2>7, <1>2, <1>7
  <2> QED BY <2>8 DEF sz, h
<1> QED BY <1>9, <1>10

LEMMA TransmitKeeps ==
    ASSUME Streamed, NEW length \in Sizes, Transmit(length) PROVE Streamed'
<1> DEFINE p == Len(size) + 1
           r == ResidueLen(Last(link))
           h == hurt \cup WrittenOver(Last(link), r, p)
<1>1. /\ p <= MaxPkts /\ snd.loop = "CLOSED" /\ size' = Append(size, length)
      /\ UNCHANGED <<stuffs, stuffing, rcv, rx, idles, arrived>>
      /\ HasRoom => /\ Enqueue([link EXCEPT ![Len(link)] = Stuffed(@, r, p, length)],
                               p, RestFrom(length, r), length)
                    /\ hurt' = h
      /\ ~ HasRoom => Enqueue(link, p, 0, length) /\ hurt' = hurt
  BY DEF Transmit
<1>2. /\ hurt \subseteq 1 .. MaxPkts /\ stuffing \in BOOLEAN /\ (stuffing => stuffs)
      /\ idles \in 0 .. MaxIdles /\ size \in Seq(Sizes)
  BY DEF Streamed, TmTypeOK
<1>3. /\ RowTypes(link', size', snd', rcv, arrived) /\ OnRow(link', size', snd', hurt', rcv, arrived, stuffs)
      /\ LastSound(link', size') /\ Len(link') <= TxCap
  <2>1. CASE HasRoom
    BY <2>1, <1>1, TransmitWithRoom
  <2>2. CASE ~ HasRoom
    BY <2>2, <1>1, TransmitWithoutRoom
  <2> QED BY <2>1, <2>2
<1>4. hurt \subseteq hurt' /\ hurt' \subseteq 1 .. MaxPkts
  <2>1. CASE ~ HasRoom
    BY <2>1, <1>1, <1>2
  <2>2. CASE HasRoom
    <3>1. Last(link) \in Frame /\ r \in 0 .. MaxData - 1
      BY <2>2, RoomFound
    <3> DEFINE S == Octet \cup {Idle}
               data == Last(link).data
    <3>2. data \in Seq(S) /\ Len(data) = MaxData
      BY <3>1, FrameFacts
    <3>3. r + 1 \in Nat /\ r + 1 >= 1 /\ MaxData \in Nat
      BY <3>1, LengthsAreNumbers
    <3> HIDE DEF S, data
    <3>4. SubSeq(data, r + 1, MaxData) \in Seq(S)
      BY <3>1, <3>2, <3>3
    <3>5. PktsOf(SubSeq(data, r + 1, MaxData)) \subseteq 1 .. MaxPkts
      BY <3>4, PktsInRange DEF S
    <3>6. p \in 1 .. MaxPkts
      BY <1>1, <1>2, LengthsAreNumbers
    <3>7. WrittenOver(Last(link), r, p) \subseteq 1 .. MaxPkts
      BY <3>5, <3>6 DEF WrittenOver, data
    <3> QED BY <3>7, <2>2, <1>1, <1>2
  <2> QED BY <2>1, <2>2
<1> QED BY <1>1, <1>2, <1>3, <1>4, SenderKeeps

LEMMA StreamedInit ==
    ASSUME TmInit PROVE Streamed
<1>1. /\ size = <<>> /\ stuffs \in BOOLEAN /\ stuffing = stuffs /\ snd.loop = "CLOSED" /\ snd.done = 0
      /\ snd = [loop |-> "CLOSED", done |-> 0] /\ link = <<>>
      /\ rcv.loop = "CLOSED" /\ rcv.exp = 0 /\ rcv.buf = <<>> /\ rx = <<>> /\ idles = 0
      /\ hurt = {} /\ arrived = <<>>
  BY DEF TmInit
<1>2. /\ Len(size) = 0 /\ Len(link) = 0 /\ Len(arrived) = 0 /\ Len(rx) = 0 /\ Len(rcv.buf) = 0
      /\ 1 .. 0 = {} /\ DOMAIN rx = {} /\ DOMAIN arrived = {}
  BY <1>1
<1>3. TmTypeOK
  <2>1. 0 \in 0 .. MaxSdu /\ 0 \in 0 .. MaxIdles /\ 0 <= MaxPkts /\ 0 <= TxCap /\ 0 <= MaxSdu /\ 0 <= RxCap
    BY LengthsAreNumbers, TmCapsAssumption
  <2>2. /\ size \in Seq(Sizes) /\ link \in Seq(Frame) /\ rcv.buf \in Seq(Octet \cup {Idle})
        /\ rx \in Seq(Seq(Octet \cup {Idle})) /\ arrived \in Seq(0 .. MaxPkts)
    BY <1>1
  <2>3. snd \in [loop : {"OPEN", "CLOSED"}, done : 0 .. MaxSdu]
    BY <1>1, <2>1
  <2> QED BY <2>1, <2>2, <2>3, <1>1, <1>2 DEF TmTypeOK
<1>4. Row(link) = {}
  BY <1>2 DEF Row
<1>5. Frames(link, size, hurt) /\ Sorted(link) /\ Unbroken(link, size, snd, hurt) /\ Plain(link, stuffs)
  BY <1>2 DEF Frames, Sorted, Unbroken, Plain
<1>6. Ahead(link, size, snd, rcv, arrived)
  BY <1>1, <1>2, <1>4 DEF Ahead
<1>7. Joining(link, size, snd, hurt, rcv, stuffs) /\ Kept(link, size, snd, hurt, rcv, arrived, stuffs)
  BY <1>1, <1>2 DEF Joining, Kept
<1>8. OnRow(link, size, snd, hurt, rcv, arrived, stuffs)
  BY <1>5, <1>6, <1>7 DEF OnRow
<1>9. LastSound(link, size) /\ InOrderOnce /\ WholeOrHurt
  BY <1>1, <1>2 DEF LastSound, InOrderOnce, WholeOrHurt
<1> QED BY <1>1, <1>3, <1>8, <1>9 DEF Streamed

LEMMA StreamedStep ==
    ASSUME Streamed, [TmNext]_tmVars PROVE Streamed'
<1>1. ASSUME NEW length \in Sizes, Transmit(length) PROVE Streamed'
  BY <1>1, TransmitKeeps
<1>2. CASE Resume
  BY <1>2, ResumeKeeps
<1>3. CASE Abort
  BY <1>3, AbortKeeps
<1>4. CASE TransmitIdle
  BY <1>4, TransmitIdleKeeps
<1>5. CASE SwitchStuffing
  BY <1>5, SwitchStuffingKeeps
<1>6. CASE Hear
  BY <1>6, HearKeeps
<1>7. CASE Lose
  BY <1>7, LoseKeeps
<1>8. CASE Take
  BY <1>8, TakeKeeps
<1>9. CASE UNCHANGED tmVars
  <2>1. /\ size' = size /\ stuffs' = stuffs /\ stuffing' = stuffing /\ snd' = snd /\ link' = link
        /\ rcv' = rcv /\ rx' = rx /\ idles' = idles /\ hurt' = hurt /\ arrived' = arrived
    BY <1>9 DEF tmVars
  <2>2. TmTypeOK' /\ InOrderOnce' /\ WholeOrHurt'
    <3>1. TmTypeOK /\ InOrderOnce /\ WholeOrHurt
      BY DEF Streamed
    <3>2. TmTypeOK'
      BY <2>1, <3>1 DEF TmTypeOK
    <3>3. InOrderOnce'
      BY <2>1, <3>1 DEF InOrderOnce
    <3>4. WholeOrHurt'
      BY <2>1, <3>1, SentSays
    <3> QED BY <3>2, <3>3, <3>4
  <2>3. OnRow(link', size', snd', hurt', rcv', arrived', stuffs') /\ LastSound(link', size') /\ (stuffing' => stuffs')
    BY <2>1 DEF Streamed
  <2> QED BY <2>2, <2>3 DEF Streamed
<1> QED BY <1>1, <1>2, <1>3, <1>4, <1>5, <1>6, <1>7, <1>8, <1>9 DEF TmNext

-----------------------------------------------------------------------------
(* What follows of a state. *)

LEMMA CleanArriveHolds ==
    ASSUME Streamed PROVE CleanArrive
<1> SUFFICES ASSUME NEW p \in 1 .. Len(size), Passed(p), p \notin hurt, ~ Longest(p)
             PROVE  p \in ToSet(arrived)
  BY DEF CleanArrive
<1>1. /\ link \in Seq(Frame) /\ Joining(link, size, snd, hurt, rcv, stuffs)
      /\ Kept(link, size, snd, hurt, rcv, arrived, stuffs)
  BY DEF Streamed, TmTypeOK, OnRow
<1>2. ~ (snd.loop = "OPEN" /\ p = Len(size))
  BY DEF Passed
<1>3. ASSUME NEW i \in 1 .. Len(link), NEW a \in 1 .. MaxData, NEW k,
             link[i].data[a] = <<p, k>>, <<p, k>> # Idle
      PROVE  FALSE
  <2>1. link[i] \in Frame /\ i \in DOMAIN link
    BY <1>1
  <2>2. p \in PktsOf(link[i].data)
    <3>1. link[i].data[a][1] \in PktsOf(link[i].data)
      BY <2>1, <1>3, PktsOfFrame
    <3> QED BY <3>1, <1>3
  <2> QED BY <2>1, <2>2 DEF Passed
<1>4. \A k : <<p, k>> # Idle
  <2>1. p # 0
    OBVIOUS
  <2> QED BY <2>1 DEF Idle
<1>5. \/ p \in ToSet(arrived) \/ (rcv.loop = "OPEN" /\ Opener(rcv)[1] = p) \/ <<p, 1>> \in Row(link)
  BY <1>1, <1>2 DEF Kept, Longest
<1>6. <<p, 1>> \notin Row(link)
  <2> SUFFICES ASSUME <<p, 1>> \in Row(link) PROVE FALSE
    OBVIOUS
  <2>1. PICK i \in 1 .. Len(link), a \in 1 .. MaxData : link[i].data[a] = <<p, 1>>
    BY DEF Row
  <2> QED BY <2>1, <1>3, <1>4
<1>7. ASSUME rcv.loop = "OPEN", Opener(rcv)[1] = p PROVE FALSE
  <2>1. GoesOn(link, size, snd, p, Len(rcv.buf), 1)
    BY <1>1, <1>7 DEF Joining
  <2>2. PICK j \in 1 .. Len(link) : link[j].data[1] = <<p, Len(rcv.buf) + 1>>
    BY <2>1, <1>2 DEF GoesOn
  <2>3. 1 \in 1 .. MaxData
    BY LengthsAreNumbers
  <2> QED BY <2>2, <2>3, <1>3, <1>4
<1> QED BY <1>5, <1>6, <1>7

LEMMA LengthsReadHolds ==
    ASSUME Streamed PROVE LengthsRead
<1> DEFINE fr == Last(link)
<1> SUFFICES ASSUME link # <<>>, fr.ptr < MaxData, fr.data[fr.ptr + 1] # Idle,
                    NEW x \in ToSet(PktsFrom(fr.data, fr.ptr))
             PROVE  x + LenAt <= MaxData
  BY DEF LengthsRead
<1>1. /\ link \in Seq(Frame) /\ size \in Seq(Sizes) /\ Frames(link, size, hurt) /\ LastSound(link, size)
  BY DEF Streamed, TmTypeOK, OnRow
<1>2. Len(link) \in 1 .. Len(link) /\ fr = link[Len(link)] /\ fr \in Frame
  BY <1>1 DEF Last
<1>3. Live(fr)
  BY LengthsAreNumbers DEF Live, Oid
<1>4. Shaped(fr, size) /\ HoldsLengths(fr)
  BY <1>1, <1>2, <1>3 DEF Frames, LastSound
<1> HIDE DEF fr
<1>5. fr.ptr \in Begins(fr.data)
  BY <1>1, <1>2, <1>4, PointerAtBorder DEF Border, Begins
<1>6. PktsFrom(fr.data, fr.ptr) \in Seq(Begins(fr.data))
  BY <1>1, <1>2, <1>4, <1>5, PacketsPassed
<1>7. x \in Begins(fr.data)
  <2> DEFINE w == PktsFrom(fr.data, fr.ptr)
             C == Begins(fr.data)
  <2>1. w \in Seq(C)
    BY <1>6
  <2> HIDE DEF w, C
  <2>2. \E i \in DOMAIN w : x = w[i]
    BY DEF ToSet, w
  <2> QED BY <2>1, <2>2 DEF C
<1>8. x \in Nat /\ x + 1 \in 1 .. MaxData /\ fr.data[x + 1] # Idle /\ fr.data[x + 1][2] = 1
  BY <1>7, LengthsAreNumbers DEF Begins
<1>9. (x + 1) - 1 + LenAt <= MaxData
  BY <1>4, <1>8 DEF HoldsLengths
<1> QED BY <1>8, <1>9, LengthsAreNumbers

(***************************************************************************)
(* A packet eval_residue_len overlooks behind the one it takes for the     *)
(* last has no more octets than the header of a frame, and lies in the     *)
(* last octets of the frame, no more than that header has.                 *)
(***************************************************************************)
LEMMA OverlookedShort ==
    ASSUME size \in Seq(Sizes), NEW fr \in Frame, Shaped(fr, size), EndsWhole(fr, size),
           NEW r \in 1 .. MaxData - 1, fr.data[r] # Idle, LeftOf(fr.data[r], size) = 0,
           r + HdrLen >= MaxData \/ fr.data[r + 1] = Idle,
           NEW i \in 1 .. MaxData, i > r, fr.data[i] # Idle
    PROVE  size[fr.data[i][1]] <= HdrLen /\ i + HdrLen > MaxData
<1> DEFINE data == fr.data
           e == data[i][1]
           T == {j \in r + 1 .. MaxData : data[j] # Idle /\ data[j][1] = e}
<1>1. /\ MaxData \in Nat /\ r \in Nat /\ r >= 1 /\ r + 1 \in 1 .. MaxData /\ HdrLen \in Nat /\ i \in r + 1 .. MaxData
      /\ r \in 1 .. MaxData /\ 1 \in 1 .. MaxData /\ MaxData \in 1 .. MaxData /\ r < MaxData
  BY LengthsAreNumbers
<1>2. PICK j \in T : \A l \in T : j <= l
  <2>1. i \in T /\ T \subseteq Nat
    BY <1>1
  <2> HIDE DEF T
  <2> QED BY <2>1, LeastNatural
<1>3. /\ j \in 1 .. MaxData /\ j \in Nat /\ j > r /\ data[j] # Idle /\ data[j][1] = e
      /\ \A l \in r + 1 .. MaxData : data[l] # Idle /\ data[l][1] = e => j <= l
  BY <1>1, <1>2
<1> HIDE DEF T, data, e
<1>4. data[r + 1] # Idle
  <2>1. CASE i = r + 1
    BY <2>1 DEF data
  <2>2. CASE i # r + 1
    <3>1. r + 1 < i
      BY <2>2, <1>1
    <3> QED BY <3>1, <1>1 DEF Shaped, InOrder, data
  <2> QED BY <2>1, <2>2
<1>5. MaxData - r <= HdrLen
  BY <1>1, <1>4 DEF data
<1>6. ASSUME NEW a \in 1 .. MaxData, a + 1 \in 1 .. MaxData, data[a] # Idle, data[a + 1] # Idle
      PROVE  data[a + 1][2] = 1 \/ data[a + 1][1] = data[a][1]
  <2>1. /\ \A l \in a .. MaxData : l - a <= LeftOf(data[a], size) =>
              data[l] = <<data[a][1], data[a][2] + (l - a)>>
        /\ LeftOf(data[a], size) \in Nat
        /\ a + LeftOf(data[a], size) + 1 <= MaxData =>
              data[a + LeftOf(data[a], size) + 1] = Idle \/ data[a + LeftOf(data[a], size) + 1][2] = 1
    BY <1>6, RunFrom DEF data
  <2> DEFINE l == LeftOf(data[a], size)
  <2> HIDE DEF l
  <2>2. CASE l = 0
    <3>1. a + l + 1 = a + 1 /\ a + 1 <= MaxData
      BY <2>2, <1>1, <1>6
    <3> QED BY <3>1, <2>1, <1>6 DEF l
  <2>3. CASE l # 0
    <3>1. a + 1 \in a .. MaxData /\ (a + 1) - a <= l
      BY <2>1, <2>3, <1>1, <1>6 DEF l
    <3>2. data[a + 1] = <<data[a][1], data[a][2] + ((a + 1) - a)>>
      BY <2>1, <3>1 DEF l
    <3> QED BY <3>2
  <2> QED BY <2>2, <2>3
<1>7. data[r + 1][2] = 1
  <2>1. r + 0 + 1 <= MaxData => data[r + 0 + 1] = Idle \/ data[r + 0 + 1][2] = 1
    BY <1>1, RunFrom DEF data
  <2>2. r + 0 + 1 = r + 1 /\ r + 1 <= MaxData
    BY <1>1
  <2> QED BY <2>1, <2>2, <1>4
<1>8. data[j][2] = 1
  <2>1. CASE j = r + 1
    BY <2>1, <1>7
  <2>2. CASE j # r + 1
    <3> DEFINE a == j - 1
    <3>1. a \in r + 1 .. MaxData /\ a \in 1 .. MaxData /\ a + 1 = j /\ a < j /\ ~ (j <= a)
      BY <2>2, <1>1, <1>3
    <3> HIDE DEF a
    <3>2. data[a] # Idle
      BY <3>1, <1>3 DEF Shaped, InOrder, data
    <3>3. data[a][1] # e
      BY <3>1, <3>2, <1>3
    <3> QED BY <3>1, <3>2, <3>3, <1>3, <1>6
  <2> QED BY <2>1, <2>2
<1> DEFINE x == j - 1
           n == size[e]
<1>9. x \in Begins(data) /\ x + 1 = j /\ x \in Nat /\ x >= r
  BY <1>1, <1>3, <1>8 DEF Begins
<1> HIDE DEF x
<1>10. n \in Nat /\ \A k \in 1 .. n : x + k <= MaxData => data[x + k] = <<e, k>>
  BY <1>3, <1>9, PacketAt DEF data
<1> HIDE DEF n
<1>11. ASSUME ~ (x + n <= MaxData) PROVE FALSE
  <2> DEFINE k == MaxData - x
             o == data[MaxData]
             u == data[r]
  <2>1. k \in 1 .. n /\ k < n /\ x + k = MaxData /\ k \in Nat
    BY <1>1, <1>3, <1>9, <1>10, <1>11
  <2> HIDE DEF k
  <2>2. o = <<e, k>>
    <3>1. data[x + k] = <<e, k>>
      BY <2>1, <1>1, <1>10
    <3> QED BY <3>1, <2>1
  <2>3. o # Idle
    <3>1. data[j] # Idle /\ data[j][1] = e /\ j <= MaxData /\ x + 1 = j
      BY <1>1, <1>3, <1>9
    <3>2. k # 0
      BY <2>1
    <3> QED BY <2>2, <3>2 DEF Idle
  <2>4. LeftOf(o, size) > 0
    BY <2>1, <2>2, <1>10 DEF LeftOf, n
  <2>5. data[1][1] = e
    BY <2>2, <2>3, <2>4 DEF EndsWhole, data
  <2>6. Before(u, o)
    BY <2>3, <1>1 DEF Shaped, InOrder, data
  <2>7. r = 1 \/ Before(data[1], u)
    BY <1>1 DEF Shaped, InOrder, data
  <2>8. u[1] \in Nat /\ e \in Nat
    <3>1. u \in Octet \cup {Idle} /\ data[1] \in Octet \cup {Idle}
      BY <1>1, FrameFacts DEF data
    <3> QED BY <3>1, <2>5, OctetFacts
  <2>9. u[1] = e
    BY <2>2, <2>5, <2>6, <2>7, <2>8 DEF Before
  <2>10. u[2] = n
    <3>1. u[2] \in Nat /\ size[u[1]] - u[2] = 0
      <4>1. u \in Octet \cup {Idle}
        BY <1>1, FrameFacts DEF data
      <4> QED BY <4>1, OctetFacts DEF LeftOf, data
    <3> QED BY <3>1, <2>9, <1>10 DEF n
  <2>11. o[1] = e /\ o[2] = k
    BY <2>2
  <2> HIDE DEF u, o
  <2> QED BY <2>1, <2>6, <2>8, <2>9, <2>10, <2>11, <1>10 DEF Before
<1>12. n <= HdrLen
  BY <1>1, <1>5, <1>9, <1>10, <1>11
<1>13. i + HdrLen > MaxData
  BY <1>1, <1>5
<1> QED BY <1>12, <1>13 DEF n, e, data

(* The last frame of the queue after a step that does not take one. *)
LEMMA StuffingSparesStep ==
    ASSUME Streamed, [TmNext]_tmVars, Len(link') >= Len(link), link # <<>>, Last(link).ptr # Oid,
           NEW i \in 1 .. MaxData, Last(link).data[i] # Idle,
           size[Last(link).data[i][1]] > HdrLen \/ i + HdrLen <= MaxData
    PROVE  link'[Len(link)].data[i] = Last(link).data[i]
<1> DEFINE fr == Last(link)
           L == Len(link)
<1>1. /\ link \in Seq(Frame) /\ size \in Seq(Sizes) /\ L \in Nat /\ L \in 1 .. L /\ L >= 1 /\ fr = link[L]
      /\ LastSound(link, size) /\ Live(fr)
  BY DEF Streamed, TmTypeOK, Last, Live
<1>2. ASSUME NEW S, NEW q \in Seq(S), Len(q) = L, q[L].data[i] = fr.data[i],
             NEW p, NEW from, NEW n, Enqueue(q, p, from, n)
      PROVE  link'[L].data[i] = fr.data[i]
  <2>1. \E k : link' = q \o [m \in 1 .. k |-> FrameFrom(p, from + (m - 1) * MaxData, n)]
    BY <1>2 DEF Enqueue
  <2>2. PICK k : link' = q \o [m \in 1 .. k |-> FrameFrom(p, from + (m - 1) * MaxData, n)]
    BY <2>1
  <2> DEFINE t == [m \in 1 .. k |-> FrameFrom(p, from + (m - 1) * MaxData, n)]
  <2>3. link'[L] = q[L]
    BY <2>2, <1>1, <1>2
  <2> QED BY <2>3, <1>2
<1>3. link \in Seq(Frame) /\ Len(link) = L /\ link[L].data[i] = fr.data[i]
  BY <1>1
<1> HIDE DEF fr, L
<1>4. CASE Hear \/ Lose
  <2>1. link' = Tail(link)
    BY <1>4 DEF Hear, Lose
  <2>2. Len(link') = L - 1
    BY <2>1, <1>1 DEF L
  <2> QED BY <2>2, <1>1 DEF L
<1>5. CASE Abort \/ SwitchStuffing \/ Take \/ UNCHANGED tmVars
  <2>1. link' = link
    BY <1>5 DEF Abort, SwitchStuffing, Take, tmVars
  <2> QED BY <2>1, <1>1 DEF fr, L
<1>6. CASE TransmitIdle
  <2>1. link' = Append(link, Pack(Oid, <<>>))
    BY <1>6 DEF TransmitIdle
  <2>2. link'[L] = link[L]
    BY <2>1, <1>1 DEF L
  <2> QED BY <2>2, <1>1 DEF fr, L
<1>7. CASE Resume
  <2>1. Enqueue(link, Len(size), snd.done, size[Len(size)])
    BY <1>7 DEF Resume
  <2> QED BY <2>1, <1>2, <1>3 DEF fr, L
<1>8. ASSUME NEW length \in Sizes, Transmit(length) PROVE link'[L].data[i] = fr.data[i]
  <2> DEFINE p == Len(size) + 1
             r == ResidueLen(fr)
  <2>1. CASE ~ HasRoom
    <3>1. Enqueue(link, p, 0, length)
      BY <1>8, <2>1 DEF Transmit
    <3> QED BY <3>1, <1>2, <1>3
  <2>2. CASE HasRoom
    <3> DEFINE q == [link EXCEPT ![Len(link)] = Stuffed(@, r, p, length)]
    <3>1. Enqueue(q, p, RestFrom(length, r), length)
      BY <1>8, <2>2 DEF Transmit, fr
    <3>2. /\ fr \in Frame /\ r \in 0 .. MaxData - 1 /\ Shaped(fr, size) /\ r >= 1 /\ fr.data[r] # Idle
          /\ LeftOf(fr.data[r], size) = 0 /\ (r + HdrLen >= MaxData \/ fr.data[r + 1] = Idle)
      BY <2>2, <1>1, RoomFound DEF fr
    <3>3. EndsWhole(fr, size)
      BY <1>1 DEF LastSound, fr
    <3> HIDE DEF r, p
    <3>4. i <= r
      <4> SUFFICES ASSUME i > r PROVE FALSE
        BY <3>2, LengthsAreNumbers
      <4>1. r \in 1 .. MaxData - 1 /\ fr.data[i] # Idle
        BY <3>2, LengthsAreNumbers DEF fr
      <4>2. size[fr.data[i][1]] <= HdrLen /\ i + HdrLen > MaxData
        BY <4>1, <3>2, <3>3, <1>1, OverlookedShort
      <4>3. size[fr.data[i][1]] \in Nat /\ HdrLen \in Nat
        BY <4>1, <3>2, <1>1, RunFrom, LengthsAreNumbers DEF fr
      <4>4. MaxData \in Nat /\ i \in Nat
        BY LengthsAreNumbers
      <4>5. size[fr.data[i][1]] > HdrLen \/ i + HdrLen <= MaxData
        BY DEF fr
      <4> DEFINE m == size[fr.data[i][1]]
      <4> HIDE DEF m
      <4> QED BY <4>2, <4>3, <4>4, <4>5 DEF m
    <3> DEFINE f == Stuffed(fr, r, p, length)
               S == Frame \cup {f}
    <3>5. f.data[i] = fr.data[i]
      <4>1. p \in 1 .. MaxPkts /\ length \in 1 .. MaxSdu
        BY <1>1, <1>8, LengthsAreNumbers DEF Transmit, p
      <4>2. \A a \in 1 .. MaxData :
               f.data[a] = IF a <= r THEN fr.data[a] ELSE IF a - r <= length THEN <<p, a - r>> ELSE Idle
        BY <4>1, <3>2, StuffedFrame
      <4> QED BY <3>4, <4>2
    <3> HIDE DEF f
    <3>6. q = [link EXCEPT ![L] = f]
      BY <1>1 DEF f, L, fr, Last
    <3> HIDE DEF q
    <3>7. q \in Seq(S) /\ Len(q) = L /\ q[L] = f
      <4>1. link \in Seq(S) /\ f \in S /\ L = Len(link) /\ L \in 1 .. L
        BY <1>1 DEF L
      <4> HIDE DEF S, L
      <4> QED BY <4>1, <3>6
    <3> QED BY <3>1, <3>5, <3>7, <1>2
  <2> QED BY <2>1, <2>2
<1> QED BY <1>4, <1>5, <1>6, <1>7, <1>8 DEF TmNext, fr, L

(* The packet the loop holds before a frame is heard, and after. *)
LEMMA HearGivesUp ==
    ASSUME Streamed, Hear, NEW p \in 1 .. Len(size), InProgress(rcv, p), ~ InProgress(rcv', p), p \notin hurt'
    PROVE  p \in ToSet(arrived') \/ (Longest(p) /\ rcv.exp = 0)
<1>1. PICK garbage :
         LET fr == Head(link)
             s  == Receive(fr, garbage)
         IN  /\ rcv' = [loop |-> s.loop, exp |-> s.exp, buf |-> s.buf]
             /\ rx' = s.rx
             /\ arrived' = arrived \o [i \in 1 .. Len(s.rx) - Len(rx) |-> Named(s.rx[Len(rx) + i])]
             /\ hurt' = IF s.denied THEN hurt \cup (PktsOf(fr.data) \ ToSet(arrived')) ELSE hurt
  BY DEF Hear
<1> DEFINE fr == Head(link)
           s == Receive(fr, garbage)
           b == Len(rx)
           names == [i \in 1 .. Len(s.rx) - Len(rx) |-> Named(s.rx[Len(rx) + i])]
<1>2. /\ rcv'.loop = s.loop /\ rcv'.buf = s.buf /\ arrived' = arrived \o names
      /\ hurt' = IF s.denied THEN hurt \cup (PktsOf(fr.data) \ ToSet(arrived')) ELSE hurt
  BY <1>1
<1>3. link # <<>> /\ p \notin hurt
  BY <1>2 DEF Hear
<1>4. /\ rcv.loop = "OPEN" /\ rcv.buf # <<>> /\ Opener(rcv)[1] = p /\ Opener(rcv) = <<p, 1>>
      /\ Arriving.loop = rcv.loop /\ Arriving.exp = rcv.exp /\ Arriving.buf = rcv.buf
      /\ Arriving.rx = rx /\ Opener(Arriving) = Opener(rcv)
  BY StreamedTypes DEF InProgress, Opener
<1>5. Live(fr)
  <2> SUFFICES ASSUME ~ Live(fr) PROVE FALSE
    OBVIOUS
  <2>1. s = Arriving
    BY DEF Receive, Live, Arriving
  <2> HIDE DEF s
  <2>2. rcv'.loop = rcv.loop /\ rcv'.buf = rcv.buf
    BY <2>1, <1>2, <1>4
  <2> QED BY <2>2 DEF InProgress
<1>6. /\ Meets(Arriving, fr, hurt) /\ Shaped(fr, size) /\ fr \in Frame
      /\ ~ stuffs => \A a \in 1 .. MaxData : fr.data[a] # Idle => fr.data[a][1] = fr.data[1][1]
  BY <1>3, <1>5, MeetsRow
<1>7. Handled(Arriving, fr, s, hurt)
  <2>1. size \in Seq(Sizes) /\ Len(size) <= MaxPkts /\ stuffs \in BOOLEAN
    BY DEF Streamed, TmTypeOK
  <2> QED BY <2>1, <1>5, <1>6, ReceiveHandled DEF Arriving
<1> HIDE DEF s, fr
<1>8. Lengthened(arrived', s)
  BY <1>2, <1>7, ArrivedLengthened
<1> HIDE DEF names
<1>9. CASE s.denied
  <2>1. fr.data[1] = <<p, Len(rcv.buf) + 1>> /\ 1 \in 1 .. MaxData
    BY <1>3, <1>4, <1>6, LengthsAreNumbers DEF Meets
  <2>2. fr.data[1] \in ToSet(fr.data) \ {Idle} /\ fr.data[1][1] = p
    <3>1. DOMAIN fr.data = 1 .. MaxData /\ p >= 1
      BY <1>6, FrameFacts
    <3> QED BY <3>1, <2>1 DEF ToSet, Idle
  <2>3. p \in PktsOf(fr.data)
    BY <2>2 DEF PktsOf
  <2> QED BY <2>3, <1>2, <1>9
<1>10. CASE ~ s.denied /\ ~ Excused(Arriving, p)
  <2>1. Got(rx, s, p)
    BY <1>3, <1>4, <1>7, <1>10 DEF Handled
  <2>2. CASE \E i \in b + 1 .. Len(s.rx) : Named(s.rx[i]) = p
    <3>1. PICK i \in b + 1 .. Len(s.rx) : Named(s.rx[i]) = p
      BY <2>2
    <3>2. b \in Nat /\ Len(s.rx) \in Nat
      <4>1. rx \in Seq(Seq(Octet \cup {Idle})) /\ s.rx \in Seq(Seq(Octet \cup {Idle}))
        BY <1>7 DEF Streamed, TmTypeOK, Handled, Receiver
      <4> QED BY <4>1
    <3> DEFINE m == Len(s.rx)
    <3> HIDE DEF b, m
    <3>3. i - b \in 1 .. m - b /\ b + (i - b) = i
      BY <3>1, <3>2 DEF m
    <3>4. arrived'[Len(arrived) + (i - b)] = p /\ Len(arrived) + (i - b) \in DOMAIN arrived'
      BY <3>1, <3>3, <1>8 DEF Lengthened, b, m
    <3> QED BY <3>4 DEF ToSet
  <2>3. CASE s.loop = "OPEN" /\ Opener(s)[1] = p
    <3>1. s.buf # <<>> /\ Opener(s) = <<p, 1>>
      BY <2>3, <1>4, <1>7 DEF Handled
    <3> QED BY <3>1, <2>3, <1>2 DEF InProgress, Opener
  <2> QED BY <2>1, <2>2, <2>3 DEF Got
<1>11. CASE Excused(Arriving, p)
  BY <1>4, <1>11 DEF Excused, Longest
<1> QED BY <1>9, <1>10, <1>11

(* No other step changes what the loop holds. *)
LEMMA GivenUpStep ==
    ASSUME Streamed, [TmNext]_tmVars
    PROVE  \A p \in 1 .. Len(size) :
              InProgress(rcv, p) /\ ~InProgress(rcv', p) /\ p \notin hurt' =>
                 p \in ToSet(arrived') \/ (Longest(p) /\ rcv.exp = 0)
<1>1. CASE Hear
  BY <1>1, HearGivesUp
<1>2. CASE ~ Hear
  <2>1. rcv' = rcv
    BY <1>2 DEF TmNext, tmVars, Transmit, Resume, Abort, TransmitIdle, SwitchStuffing, Lose, Take
  <2> QED BY <2>1
<1> QED BY <1>1, <1>2

-----------------------------------------------------------------------------
(* Theorems. *)

(***************************************************************************)
(* The row of octets between osdlp_tm_transmit and osdlp_tm_receive is in  *)
(* order and unbroken but for packets that were hurt, and every packet     *)
(* that was not is on it somewhere or arrived: the inductive invariant.    *)
(***************************************************************************)
THEOREM RowIsTracked == TmSpec => []Streamed
<1>1. TmInit => Streamed
  BY StreamedInit
<1>2. Streamed /\ [TmNext]_tmVars => Streamed'
  BY StreamedStep
<1> QED BY <1>1, <1>2, PTL DEF TmSpec

(***************************************************************************)
(* Every variable of the virtual channel keeps its type: what is buffered  *)
(* never exceeds max_sdu_len, and no queue its capacity.                   *)
(***************************************************************************)
THEOREM TmTypeCorrect == TmSpec => []TmTypeOK
<1>1. Streamed => TmTypeOK
  BY DEF Streamed
<1> QED BY <1>1, RowIsTracked, PTL

(***************************************************************************)
(* osdlp_tm_receive delivers every packet of which no octet was lost,      *)
(* whatever happened to those around it.                                   *)
(***************************************************************************)
THEOREM CleanPacketsArrive == TmSpec => []CleanArrive
<1>1. Streamed => CleanArrive
  BY CleanArriveHolds
<1> QED BY <1>1, RowIsTracked, PTL

(***************************************************************************)
(* Packets arrive in the order they were sent and none arrives twice.      *)
(***************************************************************************)
THEOREM PacketsInOrder == TmSpec => []InOrderOnce
<1>1. Streamed => InOrderOnce
  BY DEF Streamed
<1> QED BY <1>1, RowIsTracked, PTL

(***************************************************************************)
(* An item osdlp_tm_receive queues is a packet as it was sent, or has      *)
(* octets of one that was hurt.                                            *)
(***************************************************************************)
THEOREM OnlyHurtDamaged == TmSpec => []WholeOrHurt
<1>1. Streamed => WholeOrHurt
  BY DEF Streamed
<1> QED BY <1>1, RowIsTracked, PTL

(***************************************************************************)
(* eval_residue_len asks for no length of a packet that lies behind the    *)
(* data field.                                                             *)
(***************************************************************************)
THEOREM LengthsInside == TmSpec => []LengthsRead
<1>1. Streamed => LengthsRead
  BY LengthsReadHolds
<1> QED BY <1>1, RowIsTracked, PTL

(***************************************************************************)
(* handle_pkt_stuffing writes over no octet of a packet, but in an idle    *)
(* frame, and of packets no longer than the header of a frame in the last  *)
(* octets of the frame, no more than that header has.                      *)
(***************************************************************************)
THEOREM PacketsSpared == TmSpec => StuffingSpares
<1>1. Streamed /\ [TmNext]_tmVars =>
         [Len(link') >= Len(link) /\ link # <<>> /\ Last(link).ptr # Oid =>
             \A i \in 1 .. MaxData :
                LET o == Last(link).data[i]
                IN  o # Idle /\ (size[o[1]] > HdrLen \/ i + HdrLen <= MaxData) => link'[Len(link)].data[i] = o]_tmVars
  BY StuffingSparesStep
<1> QED BY <1>1, RowIsTracked, PTL DEF TmSpec, StuffingSpares

(***************************************************************************)
(* osdlp_tm_receive gives up a packet of which no octet was lost only when *)
(* it is of the maximal length and its length has not been read.           *)
(***************************************************************************)
THEOREM OnlyUnmeasuredGivenUp == TmSpec => GivenUpUnmeasured
<1>1. Streamed /\ [TmNext]_tmVars =>
         [\A p \in 1 .. Len(size) :
             InProgress(rcv, p) /\ ~InProgress(rcv', p) /\ p \notin hurt' =>
                p \in ToSet(arrived') \/ (Longest(p) /\ rcv.exp = 0)]_tmVars
  BY GivenUpStep
<1> QED BY <1>1, RowIsTracked, PTL DEF TmSpec, GivenUpUnmeasured
=============================================================================
