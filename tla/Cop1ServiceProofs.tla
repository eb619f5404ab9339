--------------------------- MODULE Cop1ServiceProofs ---------------------------
(***************************************************************************)
(* The two ends of COP-1 together: NumbersAgree, and that COP-1 implements *)
(* AdService, for every modulus, window, capacity and number of SDUs, as   *)
(* long as an error of the sender ends its service.  The numbers are those *)
(* of Cop1Proofs; here the book of a service also says which of its        *)
(* SDUs have arrived.                                                      *)
(***************************************************************************)
EXTENDS Cop1Proofs

-----------------------------------------------------------------------------
(* The agreement. *)

(* A service in use or suspended, one being initialised or suspended then, and none. *)
Serves(f) == f.state \in AdStates \/ f.ss \in 1 .. 3
Begins(f) == f.state \in {"INIT_NO_BC", "INIT_BC"} \/ f.ss = 4
Ended(f) == f.state = "INIT" /\ f.ss = 0

(***************************************************************************)
(* N, R and V stand behind NN(R), V(R) and V(S), in this order, and their  *)
(* like behind all numbers under way.                                      *)
(***************************************************************************)
InService(f, vr, d, N, R, B) ==
    /\ Run(f, N, B) /\ R \in N .. N + Len(f.sent) /\ vr = Num(R)
    /\ Up(f.tx, f.wnd, N + Len(f.sent), R, B) /\ Down(d, N, R)

(* The SDUs of R up to X are accepted, later than all that has arrived, and in order. *)
Rising(B, R, X, acc, arr) ==
    \A p \in R .. X - 1 :
        /\ B.sdu[p] \in 1 .. acc
        /\ \A i \in DOMAIN arr : arr[i] < B.sdu[p]
        /\ \A q \in R .. p - 1 : B.sdu[q] < B.sdu[p]

(* So are those of R on, and those before have arrived. *)
Booked(B, N, R, acc, arr) ==
    /\ Rising(B, R, B.end, acc, arr)
    /\ \A p \in N .. R - 1 : \E i \in DOMAIN arr : arr[i] = B.sdu[p]

(***************************************************************************)
(* Before the service, at most the control frame is on its way up; once a  *)
(* report says V(S), the receiver stands there, and so do later reports.   *)
(***************************************************************************)
ControlOnly(q) == \A i \in 1 .. Len(q) : q[i].code \in {"UNLOCK", "SETVR"}

AtStart(f, vr, d) ==
    /\ Len(f.tx) <= 1 /\ ControlOnly(f.tx) /\ ControlOnly(f.sent)
    /\ \A i \in 1 .. Len(f.tx) : f.tx[i].code = "SETVR" => f.tx[i].num = f.vs
    /\ \A i \in 1 .. Len(d) :
          d[i].nr = f.vs => vr = f.vs /\ \A j \in i .. Len(d) : d[j].nr = f.vs

(* After it, what it has sent may still be on its way up. *)
Leftover(f, vr, acc, arr) ==
    \/ ControlOnly(f.tx)
    \/ \E R, V \in Int : \E B :
          /\ vr = Num(R) /\ R <= V /\ V - R <= f.wnd
          /\ Up(f.tx, f.wnd, V, R, B) /\ Rising(B, R, V, acc, arr)

(* Before the first start nothing has been sent. *)
Fresh(f, vr) ==
    f.state = "INIT" /\ f.ss = 0 /\ f.vs = 0 /\ f.nnr = 0 /\ f.tx = <<>> /\ vr = 0

(* SDUs are numbered as they are accepted, and accepted before they arrive. *)
Accounted(acc, arr) == acc \in Nat /\ 1 .. acc \subseteq SDU /\ arr \in Seq(1 .. acc)

(* The inductive invariant, s starts after the first, acc SDUs accepted and arr arrived. *)
Agreed(f, vr, d, s, acc, arr) ==
    /\ Accounted(acc, arr)
    /\ s = 0 => Fresh(f, vr)
    /\ Begins(f) => AtStart(f, vr, d)
    /\ Serves(f) => \E N, R \in Int : \E B :
                       InService(f, vr, d, N, R, B) /\ Booked(B, N, R, acc, arr)
    /\ Ended(f) => Leftover(f, vr, acc, arr)

(* An error ends the service, as the theorem assumes of every step. *)
ErrorEnds(f) == f.signal = "UNDEF_ERROR" => f.state = "INIT"

(* From f to g nothing the service owes is lost, but with the service; a new one owes nothing. *)
Keeps(f, g, arr) ==
    /\ Serves(f) /\ Serves(g) => Owed(g, arr) = Owed(f, arr)
    /\ ~ Serves(f) /\ Serves(g) => g.sent = <<>> /\ g.wait = <<>>

-----------------------------------------------------------------------------
(* What a service owes. *)

(* What the sender holds is what the book has from N on. *)
LEMMA HeldRun ==
    ASSUME NEW f, Fits(f), NEW B, NEW N, Run(f, N, B)
    PROVE  /\ Held(f) \in Seq(SDU \cup {NoSDU}) /\ Len(Held(f)) = B.end - N
           /\ \A i \in 1 .. B.end - N : Held(f)[i] = B.sdu[N + i - 1]
<1> DEFINE a == [i \in DOMAIN f.sent |-> f.sent[i].sdu]
           n == Len(f.sent)
           D == SDU \cup {NoSDU}
           h == a \o f.wait
<1>1. /\ f.sent \in Seq(Item) /\ n \in Nat /\ f.wait \in Seq(SDU) /\ Len(f.wait) \in Nat
      /\ N \in Int /\ N + n \in Int /\ B.end \in Int /\ Len(f.wait) = B.end - (N + n)
      /\ Len(f.wait) <= 1
  BY FitsFacts, BookEnd DEF Fits
<1>2. a \in Seq(D) /\ Len(a) = n /\ \A i \in 1 .. n : a[i] = f.sent[i].sdu
  <2>1. DOMAIN f.sent = 1 .. n /\ \A i \in 1 .. n : f.sent[i].sdu \in D
    <3>1. DOMAIN f.sent = 1 .. n /\ \A i \in 1 .. n : f.sent[i] \in Item
      BY <1>1
    <3> HIDE DEF n
    <3> QED BY <3>1 DEF Item
  <2> HIDE DEF D, n
  <2>2. a = [i \in 1 .. n |-> f.sent[i].sdu]
    BY <2>1
  <2> HIDE DEF a
  <2>3. a \in [1 .. n -> D] /\ \A i \in 1 .. n : a[i] = f.sent[i].sdu
    BY <2>1, <2>2
  <2> QED BY <1>1, <2>3
<1>3. f.wait \in Seq(D)
  BY <1>1
<1> HIDE DEF a, D
<1>4. /\ h \in Seq(D) /\ Len(h) = n + Len(f.wait)
      /\ \A i \in 1 .. n + Len(f.wait) : h[i] = IF i <= n THEN a[i] ELSE f.wait[i - n]
  <2>1. h \in Seq(D) /\ Len(h) = Len(a) + Len(f.wait)
    BY <1>2, <1>3, ConcatProperties
  <2>2. \A i \in 1 .. Len(a) + Len(f.wait) : h[i] = IF i <= Len(a) THEN a[i] ELSE f.wait[i - Len(a)]
    BY <1>2, <1>3, ConcatProperties
  <2> HIDE DEF h
  <2> QED BY <1>2, <2>1, <2>2
<1> HIDE DEF h
<1>5. Len(h) = B.end - N
  <2> HIDE DEF n
  <2> QED BY <1>1, <1>4
<1>6. ASSUME NEW i \in 1 .. B.end - N PROVE h[i] = B.sdu[N + i - 1]
  <2>1. i \in 1 .. n + Len(f.wait) /\ i \in Int
    <3> HIDE DEF n
    <3> QED BY <1>1
  <2>2. CASE i <= n
    <3>1. i \in 1 .. n
      BY <2>1, <2>2
    <3>2. f.sent[i].sdu = B.sdu[N + i - 1]
      BY <3>1 DEF Run
    <3> QED BY <1>2, <1>4, <2>1, <2>2, <3>1, <3>2
  <2>3. CASE ~ (i <= n)
    <3>1. i - n = 1 /\ Len(f.wait) # 0
      <4> HIDE DEF n
      <4> QED BY <1>1, <2>1, <2>3
    <3>2. f.wait # <<>>
      <4>1. Len(<<>>) = 0
        OBVIOUS
      <4> QED BY <3>1, <4>1
    <3>3. N + i - 1 = N + n
      <4> HIDE DEF n
      <4> QED BY <1>1, <2>1, <3>1
    <3>4. f.wait[1] = B.sdu[N + n]
      BY <3>2 DEF Run
    <3>5. h[i] = f.wait[1]
      <4> HIDE DEF n
      <4> QED BY <1>4, <2>1, <2>3, <3>1
    <3> QED BY <3>3, <3>4, <3>5
  <2> QED BY <2>2, <2>3
<1> QED BY <1>4, <1>5, <1>6 DEF Held, h, a, D

(* What of the book is still to arrive. *)
Remaining(B, R) == [i \in 1 .. B.end - R |-> B.sdu[R + i - 1]]

(* The SDUs from the receiver's R on are owed. *)
LEMMA OwedRun ==
    ASSUME NEW f, Fits(f), NEW B, NEW N, Run(f, N, B), NEW R \in N .. B.end,
           NEW acc \in Nat, 1 .. acc \subseteq SDU, NEW arr, Booked(B, N, R, acc, arr)
    PROVE  Owed(f, arr) = Remaining(B, R)
<1> DEFINE h == Held(f)
           m == B.end - N
           r == R - N + 1
           P(k) == /\ \A i \in 1 .. k - 1 : ~ Due(h[i], arr)
                   /\ k <= Len(h) => Due(h[k], arr)
<1>1. N \in Int /\ B.end \in Int /\ N <= B.end
  <2>1. /\ N \in Int /\ N + Len(f.sent) \in Int /\ B.end \in Int
        /\ N <= N + Len(f.sent) /\ N + Len(f.sent) <= B.end
    BY BookEnd
  <2> QED BY <2>1
<1>2. h \in Seq(SDU \cup {NoSDU}) /\ Len(h) = m /\ \A i \in 1 .. m : h[i] = B.sdu[N + i - 1]
  BY HeldRun
<1>3. m \in Nat /\ r \in 1 .. m + 1 /\ R \in Int /\ N <= R /\ R <= B.end
  BY <1>1
<1>4. ASSUME NEW i \in 1 .. r - 1 PROVE ~ Due(h[i], arr)
  <2>1. i \in 1 .. m /\ N + i - 1 \in N .. R - 1
    BY <1>1, <1>3
  <2>2. \E j \in DOMAIN arr : arr[j] = h[i]
    BY <1>2, <2>1 DEF Booked
  <2> HIDE DEF h
  <2> QED BY <2>2 DEF Due
<1>5. ASSUME NEW i \in r .. m PROVE Due(h[i], arr)
  <2>1. i \in 1 .. m /\ N + i - 1 \in R .. B.end - 1
    BY <1>1, <1>3
  <2>2. h[i] \in 1 .. acc /\ \A j \in DOMAIN arr : arr[j] < h[i]
    BY <1>2, <2>1 DEF Booked, Rising
  <2>3. h[i] # NoSDU
    BY <2>2, SDUAssumption
  <2>4. \A j \in DOMAIN arr : arr[j] # h[i]
    BY <2>2
  <2> HIDE DEF h
  <2> QED BY <2>3, <2>4 DEF Due
<1> HIDE DEF h, r
<1>6. r \in 1 .. m + 1 /\ P(r)
  <2>1. r <= m => r \in r .. m
    BY <1>3
  <2> QED BY <1>2, <1>3, <1>4, <1>5, <2>1
<1>7. ASSUME NEW k \in 1 .. m + 1, P(k) PROVE k = r
  <2>1. ~ (k < r)
    <3> SUFFICES ASSUME k < r PROVE FALSE
      OBVIOUS
    <3>1. k \in 1 .. r - 1 /\ k <= m
      BY <1>3
    <3> QED BY <1>2, <1>4, <1>7, <3>1
  <2>2. ~ (r < k)
    <3> SUFFICES ASSUME r < k PROVE FALSE
      OBVIOUS
    <3>1. r \in 1 .. k - 1 /\ r \in r .. m
      BY <1>3
    <3> QED BY <1>5, <1>7, <3>1
  <2> QED BY <1>3, <2>1, <2>2
<1> HIDE DEF m, P
<1>8. (CHOOSE k \in 1 .. m + 1 : P(k)) = r
  BY <1>6, <1>7
<1>9. Owed(f, arr) = SubSeq(h, r, m)
  BY <1>2, <1>8 DEF Owed, P, h
<1>10. SubSeq(h, r, m) = Remaining(B, R)
  <2>1. DOMAIN SubSeq(h, r, m) = 1 .. m - r + 1 /\ m - r + 1 = B.end - R
    BY <1>1, <1>2, <1>3, SMTT(30) DEF m, r
  <2>2. ASSUME NEW i \in 1 .. m - r + 1 PROVE SubSeq(h, r, m)[i] = B.sdu[R + i - 1]
    <3>1. r + i - 1 \in 1 .. m /\ N + (r + i - 1) - 1 = R + i - 1
      BY <1>1, <1>3 DEF m, r
    <3>2. \A j \in r .. m : h[j] \in SDU \cup {NoSDU}
      BY <1>2, <1>3
    <3>3. SubSeq(h, r, m)[i] = h[r + i - 1]
      BY <1>3, <3>2, SubSeqProperties
    <3> QED BY <1>2, <3>1, <3>3
  <2> DEFINE q == SubSeq(h, r, m)
  <2>3. q \in Seq(SDU \cup {NoSDU})
    <3>1. \A j \in r .. m : h[j] \in SDU \cup {NoSDU}
      BY <1>2, <1>3
    <3> QED BY <1>3, <3>1, SubSeqProperties
  <2>4. q = [i \in 1 .. B.end - R |-> B.sdu[R + i - 1]]
    <3>1. DOMAIN q = 1 .. B.end - R /\ \A i \in 1 .. B.end - R : q[i] = B.sdu[R + i - 1]
      BY <2>1, <2>2
    <3> HIDE DEF q
    <3>2. q = [i \in DOMAIN q |-> q[i]]
      BY <2>3
    <3> QED BY <3>1, <3>2
  <2> QED BY <2>4 DEF Remaining
<1> QED BY <1>9, <1>10

(* Who holds nothing owes nothing. *)
LEMMA OwedNothing ==
    ASSUME NEW f, f.sent \in Seq(Item), f.wait = <<>>, NEW arr,
           \A i \in 1 .. Len(f.sent) : f.sent[i].sdu = NoSDU
    PROVE  Owed(f, arr) = <<>>
<1> DEFINE a == [i \in DOMAIN f.sent |-> f.sent[i].sdu]
           h == Held(f)
           m == Len(f.sent)
           P(k) == /\ \A i \in 1 .. k - 1 : ~ Due(h[i], arr)
                   /\ k <= Len(h) => Due(h[k], arr)
<1>1. a \in Seq({NoSDU}) /\ Len(a) = m /\ m \in Nat
  <2>1. DOMAIN f.sent = 1 .. m /\ m \in Nat
    OBVIOUS
  <2> HIDE DEF m
  <2>2. a = [i \in 1 .. m |-> f.sent[i].sdu]
    BY <2>1
  <2> HIDE DEF a
  <2>3. a \in [1 .. m -> {NoSDU}]
    BY <2>1, <2>2 DEF m
  <2> QED BY <2>1, <2>3
<1> HIDE DEF a
<1>2. h = a
  <2>1. h = a \o <<>>
    BY DEF Held, a
  <2> QED BY <1>1, <2>1
<1> HIDE DEF h, m
<1>3. h \in Seq({NoSDU}) /\ Len(h) = m
  BY <1>1, <1>2
<1>4. \A i \in 1 .. m : ~ Due(h[i], arr)
  BY <1>3 DEF Due
<1>5. ASSUME NEW k \in 1 .. m + 1, P(k) PROVE k = m + 1
  <2>1. k <= m => k \in 1 .. m
    BY <1>1
  <2>2. ~ (k <= m)
    BY <1>3, <1>4, <1>5, <2>1
  <2> QED BY <1>1, <2>2
<1>6. m + 1 \in 1 .. m + 1 /\ P(m + 1)
  <2>1. (m + 1) - 1 = m /\ ~ (m + 1 <= m) /\ m + 1 \in 1 .. m + 1
    BY <1>1
  <2> QED BY <1>3, <1>4, <2>1
<1> HIDE DEF P
<1>7. (CHOOSE k \in 1 .. m + 1 : P(k)) = m + 1
  BY <1>5, <1>6
<1>8. Owed(f, arr) = SubSeq(h, m + 1, m)
  BY <1>3, <1>7 DEF Owed, P, h
<1>9. SubSeq(h, m + 1, m) = <<>>
  BY <1>1, SubSeqEmpty
<1> QED BY <1>8, <1>9

(* Control frames carry no SDU. *)
LEMMA ControlOwesNothing ==
    ASSUME NEW f, Labelled(f), ControlOnly(f.sent), f.wait = <<>>, NEW arr
    PROVE  Owed(f, arr) = <<>>
<1>1. f.sent \in Seq(PackedItem) /\ PackedItem \subseteq Item
  BY DEF Labelled, PackedItem
<1>2. f.sent \in Seq(Item)
  BY <1>1
<1>3. ASSUME NEW i \in 1 .. Len(f.sent) PROVE f.sent[i].sdu = NoSDU
  <2>1. f.sent[i] \in PackedItem /\ f.sent[i].code \in {"UNLOCK", "SETVR"}
    BY <1>1 DEF ControlOnly
  <2>2. f.sent[i].code \notin DataCodes
    BY <2>1 DEF DataCodes
  <2> QED BY <2>1, <2>2 DEF PackedItem, Item
<1> QED BY <1>2, <1>3, OwedNothing

(* Out of service nothing is owed. *)
LEMMA OwedNone ==
    ASSUME NEW f, Sound(f), Labelled(f), NEW vr, NEW d, NEW s, NEW acc, NEW arr,
           Agreed(f, vr, d, s, acc, arr), ~ Serves(f)
    PROVE  Owed(f, arr) = <<>>
<1>1. f.state \in FopStates /\ f.ss \in 0 .. 4 /\ f.ss \in {0, 4}
  <2>1. f.state \in FopStates /\ f.ss \in 0 .. 4
    BY DEF Sound, Fits, FopRecord
  <2> QED BY <2>1 DEF Serves
<1>2. f.state \in {"INIT", "INIT_NO_BC", "INIT_BC"}
  BY <1>1 DEF Serves, FopStates
<1>3. f.wait = <<>> /\ (f.state = "INIT_BC" \/ f.sent = <<>>)
  BY <1>1, <1>2 DEF Sound, Matched
<1>4. ControlOnly(f.sent)
  <2>1. CASE f.state = "INIT_BC"
    BY <2>1 DEF Agreed, Begins, AtStart
  <2>2. CASE f.sent = <<>>
    <3>1. 1 .. Len(<<>>) = {}
      OBVIOUS
    <3> QED BY <2>2, <3>1 DEF ControlOnly
  <2> QED BY <1>3, <2>1, <2>2
<1> QED BY <1>3, <1>4, ControlOwesNothing

(* An empty service owes nothing. *)
LEMMA EmptyOwesNothing ==
    ASSUME NEW f, f.sent = <<>>, f.wait = <<>>, NEW arr
    PROVE  Owed(f, arr) = <<>>
<1>1. f.sent \in Seq(Item) /\ 1 .. Len(f.sent) = {}
  <2>1. <<>> \in Seq(Item) /\ 1 .. Len(<<>>) = {}
    OBVIOUS
  <2> QED BY <2>1
<1> QED BY <1>1, OwedNothing

-----------------------------------------------------------------------------
(* The book. *)

(* The next SDU of the book is the first that is owed. *)
LEMMA RemainingNext ==
    ASSUME NEW B, NEW R \in Int, B.end \in Int, R < B.end
    PROVE  /\ Remaining(B, R) # <<>> /\ Head(Remaining(B, R)) = B.sdu[R]
           /\ Tail(Remaining(B, R)) = Remaining(B, R + 1)
<1> DEFINE q == Remaining(B, R)
           n == B.end - R
           S == {B.sdu[p] : p \in Int}
           u == Tail(q)
<1>1. n \in Nat /\ n >= 1 /\ B.end - (R + 1) = n - 1
  OBVIOUS
<1> HIDE DEF n
<1>2. q = [i \in 1 .. n |-> B.sdu[R + i - 1]]
  BY DEF Remaining, n
<1>3. q \in Seq(S) /\ Len(q) = n /\ \A i \in 1 .. n : q[i] = B.sdu[R + i - 1]
  <2>1. \A i \in 1 .. n : R + i - 1 \in Int
    BY <1>1
  <2>2. \A i \in 1 .. n : B.sdu[R + i - 1] \in S
    BY <2>1
  <2> HIDE DEF q, S
  <2>3. q \in [1 .. n -> S] /\ \A i \in 1 .. n : q[i] = B.sdu[R + i - 1]
    BY <1>2, <2>2
  <2> QED BY <1>1, <2>3
<1> HIDE DEF q, S
<1>4. q # <<>>
  <2>1. Len(<<>>) = 0
    OBVIOUS
  <2> QED BY <1>1, <1>3, <2>1
<1>5. Head(q) = B.sdu[R]
  <2>1. Head(q) = q[1] /\ 1 \in 1 .. n /\ R + 1 - 1 = R
    BY <1>1, <1>3, <1>4, HeadTailProperties
  <2> QED BY <1>3, <2>1
<1>6. /\ u \in Seq(S) /\ Len(u) = n - 1 /\ \A i \in 1 .. n - 1 : u[i] = q[i + 1]
  <2>1. u \in Seq(S) /\ Len(u) = Len(q) - 1 /\ \A i \in 1 .. Len(u) : u[i] = q[i + 1]
    BY <1>3, <1>4, HeadTailProperties
  <2> QED BY <1>3, <2>1
<1> HIDE DEF u
<1>7. u = [i \in 1 .. n - 1 |-> B.sdu[R + 1 + i - 1]]
  <2>1. ASSUME NEW i \in 1 .. n - 1 PROVE u[i] = B.sdu[R + 1 + i - 1]
    <3>1. i + 1 \in 1 .. n /\ R + (i + 1) - 1 = R + 1 + i - 1
      BY <1>1
    <3> QED BY <1>3, <1>6, <3>1
  <2>2. DOMAIN u = 1 .. n - 1 /\ u = [i \in DOMAIN u |-> u[i]]
    BY <1>1, <1>6
  <2> QED BY <2>1, <2>2
<1>8. u = Remaining(B, R + 1)
  BY <1>1, <1>7 DEF Remaining
<1> QED BY <1>4, <1>5, <1>8 DEF q, u

(* An accepted SDU is the last that is owed. *)
LEMMA RemainingEntered ==
    ASSUME NEW B, NEW R \in Int, B.end \in Int, R <= B.end, NEW d
    PROVE  Remaining(Entered(B, d), R) = Append(Remaining(B, R), d)
<1> DEFINE C == Entered(B, d)
           q == Remaining(B, R)
           n == B.end - R
           S == {B.sdu[p] : p \in Int} \cup {d}
           u == Append(q, d)
<1>1. n \in Nat /\ C.end - R = n + 1 /\ R + (n + 1) - 1 = B.end
  BY DEF Entered
<1>2. \A p \in Int : C.sdu[p] = IF p = B.end THEN d ELSE B.sdu[p]
  BY DEF Entered
<1> HIDE DEF n, C
<1>3. q \in Seq(S) /\ Len(q) = n /\ (\A i \in 1 .. n : q[i] = B.sdu[R + i - 1]) /\ d \in S
  <2>1. q = [i \in 1 .. n |-> B.sdu[R + i - 1]]
    BY DEF Remaining, n
  <2>2. \A i \in 1 .. n : R + i - 1 \in Int
    BY <1>1
  <2>3. d \in S /\ \A i \in 1 .. n : B.sdu[R + i - 1] \in S
    BY <2>2
  <2> HIDE DEF q, S
  <2>4. q \in [1 .. n -> S] /\ \A i \in 1 .. n : q[i] = B.sdu[R + i - 1]
    BY <2>1, <2>3
  <2> QED BY <1>1, <2>3, <2>4
<1> HIDE DEF q, S
<1>4. /\ u \in Seq(S) /\ Len(u) = n + 1 /\ u[n + 1] = d
      /\ \A i \in 1 .. n : u[i] = q[i]
  BY <1>3, AppendProperties
<1> HIDE DEF u
<1>5. ASSUME NEW i \in 1 .. n + 1 PROVE u[i] = C.sdu[R + i - 1]
  <2>1. CASE i = n + 1
    <3>1. R + i - 1 = B.end
      BY <1>1, <2>1
    <3> QED BY <1>2, <1>4, <2>1, <3>1
  <2>2. CASE i # n + 1
    <3>1. i \in 1 .. n /\ R + i - 1 \in Int /\ R + i - 1 # B.end
      BY <1>1, <2>2
    <3> QED BY <1>2, <1>3, <1>4, <3>1
  <2> QED BY <2>1, <2>2
<1>6. DOMAIN u = 1 .. n + 1 /\ u = [i \in DOMAIN u |-> u[i]]
  BY <1>1, <1>4
<1>7. u = [i \in 1 .. n + 1 |-> C.sdu[R + i - 1]]
  BY <1>5, <1>6
<1>8. u = Remaining(C, R)
  BY <1>1, <1>7 DEF Remaining
<1> QED BY <1>8 DEF u, q, C

(* A book with an SDU more has the same frames under way. *)
LEMMA UpEntered ==
    ASSUME NEW t, NEW w, NEW V \in Int, NEW R, NEW B, V <= B.end, B.end \in Int, NEW d,
           Up(t, w, V, R, B)
    PROVE  Up(t, w, V, R, Entered(B, d))
<1>1. PICK pos \in [1 .. Len(t) -> Int] : UpAt(t, w, V, R, pos, B)
  BY DEF Up
<1>2. \A p \in Int : p < V => Entered(B, d).sdu[p] = B.sdu[p]
  BY DEF Entered
<1>3. \A i \in 1 .. Len(t) : AdAt(t, w, V, R, pos, i, B) => AdAt(t, w, V, R, pos, i, Entered(B, d))
  <2> HIDE DEF Num
  <2> QED BY <1>1, <1>2 DEF AdAt
<1>4. UpAt(t, w, V, R, pos, Entered(B, d))
  BY <1>1, <1>3 DEF UpAt
<1> QED BY <1>1, <1>4 DEF Up

(* It is the next to be accepted. *)
LEMMA BookedEntered ==
    ASSUME NEW B, NEW N \in Int, NEW R \in Int, R <= B.end, B.end \in Int,
           NEW acc \in Nat, NEW arr \in Seq(1 .. acc), Booked(B, N, R, acc, arr)
    PROVE  Booked(Entered(B, acc + 1), N, R, acc + 1, arr)
<1> DEFINE C == Entered(B, acc + 1)
<1>1. C.end = B.end + 1 /\ \A p \in Int : C.sdu[p] = IF p = B.end THEN acc + 1 ELSE B.sdu[p]
  BY DEF Entered
<1> HIDE DEF C
<1>2. \A i \in DOMAIN arr : arr[i] \in 1 .. acc
  OBVIOUS
<1>3. ASSUME NEW p \in R .. C.end - 1
      PROVE  /\ C.sdu[p] \in 1 .. acc + 1
             /\ \A i \in DOMAIN arr : arr[i] < C.sdu[p]
             /\ \A q \in R .. p - 1 : C.sdu[q] < C.sdu[p]
  <2>1. CASE p = B.end
    <3>1. C.sdu[p] = acc + 1
      BY <1>1, <2>1
    <3>2. ASSUME NEW q \in R .. p - 1 PROVE C.sdu[q] \in 1 .. acc
      <4>1. q \in R .. B.end - 1 /\ q # B.end /\ q \in Int
        BY <2>1
      <4> QED BY <1>1, <4>1 DEF Booked, Rising
    <3> QED BY <1>2, <3>1, <3>2, SMTT(30)
  <2>2. CASE p # B.end
    <3>1. p \in R .. B.end - 1 /\ p \in Int /\ \A q \in R .. p - 1 : q # B.end /\ q \in Int
      BY <1>1, <2>2
    <3>2. C.sdu[p] = B.sdu[p] /\ \A q \in R .. p - 1 : C.sdu[q] = B.sdu[q]
      BY <1>1, <2>2, <3>1
    <3>3. /\ B.sdu[p] \in 1 .. acc
          /\ \A i \in DOMAIN arr : arr[i] < B.sdu[p]
          /\ \A q \in R .. p - 1 : B.sdu[q] < B.sdu[p]
      BY <3>1 DEF Booked, Rising
    <3> QED BY <3>2, <3>3
  <2> QED BY <2>1, <2>2
<1>4. ASSUME NEW p \in N .. R - 1 PROVE \E i \in DOMAIN arr : arr[i] = C.sdu[p]
  <2>1. p \in Int /\ p # B.end
    OBVIOUS
  <2> QED BY <1>1, <2>1 DEF Booked
<1>5. Booked(C, N, R, acc + 1, arr)
  BY <1>3, <1>4 DEF Booked, Rising
<1> QED BY <1>5 DEF C

(* It arrives. *)
LEMMA RisingArrived ==
    ASSUME NEW B, NEW R \in Int, NEW X \in Int, R < X,
           NEW acc \in Nat, NEW arr \in Seq(1 .. acc), Rising(B, R, X, acc, arr)
    PROVE  /\ Append(arr, B.sdu[R]) \in Seq(1 .. acc) /\ B.sdu[R] \in 1 .. acc
           /\ \A i \in DOMAIN arr : arr[i] < B.sdu[R]
           /\ Rising(B, R + 1, X, acc, Append(arr, B.sdu[R]))
<1> DEFINE e == B.sdu[R]
           a == Append(arr, e)
<1>1. R \in R .. X - 1
  OBVIOUS
<1>2. e \in 1 .. acc /\ \A i \in DOMAIN arr : arr[i] < e
  BY <1>1 DEF Rising
<1> HIDE DEF e
<1>3. /\ a \in Seq(1 .. acc) /\ Len(a) = Len(arr) + 1 /\ a[Len(arr) + 1] = e /\ Len(arr) \in Nat
      /\ \A i \in 1 .. Len(arr) : a[i] = arr[i]
  BY <1>2, AppendProperties
<1> HIDE DEF a
<1>4. \A i \in DOMAIN a : a[i] = e \/ \E j \in DOMAIN arr : a[i] = arr[j]
  <2>1. DOMAIN a = 1 .. Len(arr) + 1 /\ DOMAIN arr = 1 .. Len(arr)
    BY <1>3
  <2>2. ASSUME NEW i \in 1 .. Len(arr) + 1 PROVE i \in 1 .. Len(arr) \/ i = Len(arr) + 1
    BY <1>3
  <2> QED BY <1>3, <2>1, <2>2
<1>5. ASSUME NEW p \in R + 1 .. X - 1
      PROVE  /\ B.sdu[p] \in 1 .. acc
             /\ \A i \in DOMAIN a : a[i] < B.sdu[p]
             /\ \A q \in R + 1 .. p - 1 : B.sdu[q] < B.sdu[p]
  <2>1. p \in R .. X - 1 /\ R \in R .. p - 1 /\ R + 1 .. p - 1 \subseteq R .. p - 1
    OBVIOUS
  <2>2. /\ B.sdu[p] \in 1 .. acc /\ e < B.sdu[p]
        /\ \A i \in DOMAIN arr : arr[i] < B.sdu[p]
        /\ \A q \in R + 1 .. p - 1 : B.sdu[q] < B.sdu[p]
    BY <2>1 DEF Rising, e
  <2> QED BY <1>4, <2>2
<1>6. Rising(B, R + 1, X, acc, a)
  BY <1>5 DEF Rising
<1> QED BY <1>2, <1>3, <1>6 DEF a, e

LEMMA BookedArrived ==
    ASSUME NEW B, NEW N \in Int, NEW R \in Int, N <= R, R < B.end, B.end \in Int,
           NEW acc \in Nat, NEW arr \in Seq(1 .. acc), Booked(B, N, R, acc, arr)
    PROVE  /\ Append(arr, B.sdu[R]) \in Seq(1 .. acc)
           /\ Booked(B, N, R + 1, acc, Append(arr, B.sdu[R]))
<1> DEFINE e == B.sdu[R]
           a == Append(arr, e)
<1>1. /\ a \in Seq(1 .. acc) /\ e \in 1 .. acc /\ Rising(B, R + 1, B.end, acc, a)
  BY RisingArrived DEF Booked
<1>2. /\ Len(a) = Len(arr) + 1 /\ a[Len(arr) + 1] = e /\ Len(arr) \in Nat
      /\ \A i \in 1 .. Len(arr) : a[i] = arr[i]
  BY <1>1, AppendProperties
<1> HIDE DEF a
<1>3. DOMAIN a = 1 .. Len(arr) + 1 /\ DOMAIN arr = 1 .. Len(arr)
  BY <1>1, <1>2
<1>4. ASSUME NEW p \in N .. (R + 1) - 1 PROVE \E i \in DOMAIN a : a[i] = B.sdu[p]
  <2>1. CASE p = R
    <3>1. Len(arr) + 1 \in DOMAIN a
      BY <1>2, <1>3
    <3> QED BY <1>2, <2>1, <3>1
  <2>2. CASE p # R
    <3>1. p \in N .. R - 1
      BY <2>2
    <3>2. PICK i \in DOMAIN arr : arr[i] = B.sdu[p]
      BY <3>1 DEF Booked
    <3>3. i \in DOMAIN a /\ a[i] = arr[i]
      BY <1>2, <1>3
    <3> QED BY <3>2, <3>3
  <2> QED BY <2>1, <2>2
<1>5. Booked(B, N, R + 1, acc, a)
  BY <1>1, <1>4 DEF Booked
<1> QED BY <1>1, <1>5 DEF a

-----------------------------------------------------------------------------
(* The steps of the sender. *)

(* A call that answers, and changes nothing else that counts. *)
Rests(f, g) ==
    /\ g.state = f.state /\ g.ss = f.ss
    /\ g.sent = f.sent /\ g.vs = f.vs /\ g.nnr = f.nnr /\ g.wnd = f.wnd /\ g.tx = f.tx
    /\ g.wait = f.wait /\ g.hdr \in {f.hdr, "AD"}

LEMMA RestsAgreed ==
    ASSUME NEW f, NEW g, NEW vr, NEW d, NEW s, NEW acc, NEW arr,
           Agreed(f, vr, d, s, acc, arr), Rests(f, g)
    PROVE  Agreed(g, vr, d, s, acc, arr) /\ Keeps(f, g, arr)
<1>1. \A N, R \in Int : \A B : InService(f, vr, d, N, R, B) => InService(g, vr, d, N, R, B)
  <2>1. \A N \in Int : \A B : Run(f, N, B) => Run(g, N, B)
    BY DEF Rests, Run
  <2> QED BY <2>1 DEF Rests, InService
<1>2. Begins(g) = Begins(f) /\ Serves(g) = Serves(f) /\ Ended(g) = Ended(f)
  BY DEF Rests, Begins, Serves, Ended
<1>3. AtStart(f, vr, d) => AtStart(g, vr, d)
  BY DEF Rests, AtStart
<1>4. Fresh(f, vr) => Fresh(g, vr)
  BY DEF Rests, Fresh
<1>5. Leftover(f, vr, acc, arr) => Leftover(g, vr, acc, arr)
  BY DEF Rests, Leftover
<1>6. Owed(g, arr) = Owed(f, arr)
  BY DEF Rests, Owed, Held
<1>7. Keeps(f, g, arr)
  BY <1>2, <1>6 DEF Keeps
<1> QED BY <1>1, <1>2, <1>3, <1>4, <1>5, <1>7 DEF Agreed

(* A service in use has been started. *)
LEMMA ServesStarted ==
    ASSUME NEW f, NEW vr, NEW d, NEW s, NEW acc, NEW arr,
           Agreed(f, vr, d, s, acc, arr), Serves(f) \/ Begins(f)
    PROVE  s # 0
BY DEF Agreed, Fresh, Serves, Begins, AdStates, OpenStates

(* A shorter part of the book. *)
LEMMA RisingShorter ==
    ASSUME NEW B, NEW R \in Int, NEW X \in Int, NEW Y \in Int, X <= Y, NEW acc, NEW arr,
           Rising(B, R, Y, acc, arr)
    PROVE  Rising(B, R, X, acc, arr)
<1>1. R .. X - 1 \subseteq R .. Y - 1
  OBVIOUS
<1> QED BY <1>1 DEF Rising

(* A step of the sender in service. *)
LEMMA OutcomeAgreed ==
    ASSUME NEW f, NEW g, Fits(f), Fits(g), ErrorEnds(g), NEW vr, NEW d, NEW e,
           NEW s, s # 0, NEW acc, NEW arr, Accounted(acc, arr), Serves(f),
           NEW N \in Int, NEW R \in Int, NEW B, InService(f, vr, d, N, R, B),
           Booked(B, N, R, acc, arr),
           NEW M \in N .. R, Down(e, M, R), Outcome(f, g, M, N + Len(f.sent), B)
    PROVE  Agreed(g, vr, e, s, acc, arr) /\ Keeps(f, g, arr)
<1> DEFINE V == N + Len(f.sent)
           X == M + Len(g.sent)
<1>1. /\ Len(f.tx) \in Nat /\ Len(g.tx) \in Nat /\ f.wnd \in Int
      /\ Len(f.sent) \in Nat /\ Len(g.sent) \in Nat /\ Len(f.sent) <= f.wnd
  BY FitsFacts DEF InService, Run
<1>2. M \in Int /\ V \in Int /\ X \in Int /\ N <= M /\ M <= R /\ R <= V /\ V - M <= f.wnd
  BY <1>1 DEF InService
<1>3. B.end \in Int /\ V <= B.end /\ Run(f, N, B)
  BY BookEnd DEF InService
<1>4. Up(f.tx, f.wnd, V, R, B) /\ vr = Num(R) /\ Rising(B, R, B.end, acc, arr)
  BY DEF InService, Booked
<1>5. CASE Left(f, g, M, V, B)
  <2>1. g.state = "INIT" /\ g.ss = 0 /\ Drops(f, g, M, V, B)
    BY <1>5 DEF Left, ErrorEnds
  <2>2. ~ Serves(g) /\ ~ Begins(g) /\ Ended(g)
    BY <2>1 DEF Serves, Begins, Ended, AdStates, OpenStates
  <2> HIDE DEF V, X
  <2>3. Sends(f.tx, g.tx, M, V, B) /\ g.wnd = f.wnd
    BY <2>1 DEF Drops
  <2>4. Up(g.tx, f.wnd, V, R, B)
    <3>1. V <= V
      BY <1>2
    <3> QED BY <1>1, <1>2, <1>4, <2>3, <3>1, UpSends
  <2>5. Rising(B, R, V, acc, arr)
    BY <1>2, <1>3, <1>4, RisingShorter
  <2>6. V - R <= f.wnd
    BY <1>1, <1>2
  <2>7. Leftover(g, vr, acc, arr)
    BY <1>2, <1>4, <2>3, <2>4, <2>5, <2>6 DEF Leftover
  <2> QED BY <2>2, <2>7 DEF Agreed, Keeps
<1>6. CASE g.state \notin {"INIT_NO_BC", "INIT_BC"} /\ g.ss # 4 /\ Goes(f, g, M, V, B)
  <2>1. /\ Run(g, M, B) /\ g.wnd = f.wnd /\ V <= X /\ Sends(f.tx, g.tx, M, X, B)
        /\ Len(g.sent) <= f.wnd
    BY <1>6 DEF Goes, Run
  <2>2. X - M <= f.wnd
    BY <1>1, <1>2, <2>1
  <2>3. B.end \in Int /\ X <= B.end
    BY <2>1, BookEnd
  <2> HIDE DEF V, X
  <2>4. Up(g.tx, g.wnd, X, R, B)
    BY <1>1, <1>2, <1>4, <2>1, <2>2, UpSends
  <2>5. R \in M .. X
    BY <1>2, <2>1
  <2>6. InService(g, vr, e, M, R, B)
    BY <1>4, <2>1, <2>4, <2>5 DEF InService, X
  <2>7. Booked(B, M, R, acc, arr)
    <3>1. M .. R - 1 \subseteq N .. R - 1
      BY <1>2
    <3> QED BY <1>4, <3>1 DEF Booked
  <2>8. Leftover(g, vr, acc, arr)
    <3>1. X - R <= g.wnd /\ R <= X
      BY <1>1, <1>2, <2>1, <2>2, SMTT(30)
    <3>2. Rising(B, R, X, acc, arr)
      BY <1>2, <1>4, <2>3, RisingShorter
    <3> QED BY <1>2, <1>4, <2>4, <3>1, <3>2 DEF Leftover
  <2>9. Owed(g, arr) = Owed(f, arr)
    <3>1. R \in N .. B.end /\ R \in M .. B.end
      BY <1>2, <1>3
    <3>2. Owed(f, arr) = Remaining(B, R)
      BY <1>3, <3>1, OwedRun, ZenonT(60) DEF Accounted
    <3>3. Owed(g, arr) = Remaining(B, R)
      BY <2>1, <2>7, <3>1, OwedRun DEF Accounted
    <3> QED BY <3>2, <3>3
  <2>10. ~ Begins(g) /\ Keeps(f, g, arr)
    BY <1>6, <2>9 DEF Begins, Keeps
  <2> QED BY <1>2, <2>6, <2>7, <2>8, <2>10 DEF Agreed
<1> QED BY <1>5, <1>6 DEF Outcome

(* A service in use keeps to the window or is left, when it makes no use of a report. *)
LEMMA ServingAgreed ==
    ASSUME NEW f, NEW g, Open(f), Fits(g), ErrorEnds(g), NEW vr, NEW d, NEW s,
           NEW acc, NEW arr, Agreed(f, vr, d, s, acc, arr),
           \A N \in Int : \A B : Run(f, N, B) => Outcome(f, g, N, N + Len(f.sent), B)
    PROVE  Agreed(g, vr, d, s, acc, arr) /\ Keeps(f, g, arr)
<1>1. Serves(f) /\ Fits(f) /\ Accounted(acc, arr)
  BY DEF Serves, Open, Sound, Agreed
<1>2. PICK N \in Int, R \in Int : \E B : InService(f, vr, d, N, R, B) /\ Booked(B, N, R, acc, arr)
  BY <1>1 DEF Agreed
<1>3. PICK B : InService(f, vr, d, N, R, B) /\ Booked(B, N, R, acc, arr)
  BY <1>2
<1>4. Outcome(f, g, N, N + Len(f.sent), B) /\ N \in N .. R /\ Down(d, N, R)
  BY <1>3 DEF InService
<1>5. s # 0
  BY <1>1, ServesStarted
<1> QED BY <1>1, <1>3, <1>4, <1>5, OutcomeAgreed

(* A report is lost. *)
LEMMA LosesReport ==
    ASSUME NEW f, NEW vr, NEW d \in Seq(Clcw), d # <<>>, NEW s, NEW acc, NEW arr,
           Agreed(f, vr, d, s, acc, arr)
    PROVE  Agreed(f, vr, Tail(d), s, acc, arr)
<1>1. /\ Tail(d) \in Seq(Clcw) /\ Len(Tail(d)) \in Nat /\ Len(d) \in Nat
      /\ Len(Tail(d)) = Len(d) - 1
      /\ \A i \in 1 .. Len(Tail(d)) : Tail(d)[i] = d[i + 1]
  BY HeadTailProperties
<1>2. ASSUME NEW N \in Int, NEW R \in Int, NEW B, InService(f, vr, d, N, R, B)
      PROVE  InService(f, vr, Tail(d), N, R, B)
  <2>1. PICK r \in N .. R : Down(Tail(d), r, R)
    BY <1>2, DownTail DEF InService
  <2>2. Down(Tail(d), N, R)
    BY <1>1, <2>1, DownWider
  <2> QED BY <1>2, <2>2 DEF InService
<1>3. ASSUME AtStart(f, vr, d) PROVE AtStart(f, vr, Tail(d))
  <2>1. ASSUME NEW i \in 1 .. Len(Tail(d)), Tail(d)[i].nr = f.vs
        PROVE  vr = f.vs /\ \A j \in i .. Len(Tail(d)) : Tail(d)[j].nr = f.vs
    <3>1. i + 1 \in 1 .. Len(d) /\ d[i + 1].nr = f.vs
      BY <1>1, <2>1
    <3>2. vr = f.vs /\ \A j \in i + 1 .. Len(d) : d[j].nr = f.vs
      BY <1>3, <3>1 DEF AtStart
    <3>3. ASSUME NEW j \in i .. Len(Tail(d)) PROVE Tail(d)[j].nr = f.vs
      <4>1. j + 1 \in i + 1 .. Len(d) /\ j \in 1 .. Len(Tail(d))
        BY <1>1
      <4> QED BY <1>1, <3>2, <4>1
    <3> QED BY <3>2, <3>3
  <2> QED BY <1>3, <2>1 DEF AtStart
<1> QED BY <1>2, <1>3 DEF Agreed

(* Out of service a control word, an expiry or a request is answered at most. *)
LEMMA IdleRests ==
    ASSUME NEW f, f \in FopRecord, f.state = "INIT", NEW c
    PROVE  Rests(f, OnClcw(f, c)) /\ OnTimer(f) = f
<1> DEFINE s == Say(f, "UNDEF_ERROR")
<1>1. Rests(f, f)
  BY DEF Rests
<1>2. Rests(f, s)
  BY DEF Rests, Say, FopRecord
<1>3. f.state \notin AdStates /\ f.state \notin OpenStates
  BY DEF AdStates, OpenStates
<1>4. /\ FopE1(f) = f /\ FopE2(f, c.nr) = f /\ FopE3(f) = f /\ FopE4(f) = f /\ FopE5(f) = f
      /\ FopE6(f, c.nr) = f /\ FopE7(f) = f /\ FopE8(f, c.nr) = f /\ FopE9(f, c.nr) = f
  BY <1>3 DEF FopE1, FopE2, FopE3, FopE4, FopE5, FopE6, FopE7, FopE8, FopE9, AlertIn
<1>5. /\ FopE10(f) = f /\ FopE11(f) = f /\ FopE12(f) = f /\ FopE103(f) = f
      /\ FopE13(f) = f /\ FopE14(f) = f /\ FopE101(f, c.nr) = f /\ FopE102(f) = f
  BY <1>3 DEF FopE10, FopE11, FopE12, FopE103, FopE13, FopE14, FopE101, FopE102, AlertIn
<1> HIDE DEF s
<1>6. ClcwEvent(f, c) \in Events => OnClcw(f, c) \in {f, s}
  BY <1>4, <1>5 DEF OnClcw, Events, s
<1>7. ClcwEvent(f, c) \in Events
  <2>1. f.lim \in Nat /\ f.txCnt \in Nat
    <3>1. f.lim \in 0 .. CntMod - 1 /\ f.txCnt \in 0 .. CntMod - 1
      BY LimitsAssumption DEF FopRecord
    <3> QED BY <3>1, CntModAssumption
  <2>2. RetransmitEvent(f, c) \in Events
    <3>1. f.lim = 0 \/ f.lim = 1 \/ f.lim > 1
      BY <2>1
    <3>2. f.txCnt < f.lim \/ f.txCnt >= f.lim
      BY <2>1
    <3> QED BY <3>1, <3>2 DEF RetransmitEvent, Events
  <2> QED BY <2>2 DEF ClcwEvent, Events
<1>8. OnTimer(f) = f
  BY <1>3 DEF OnTimer, FopE16, FopE104, FopE17, FopE18, AlertIn
<1> QED BY <1>1, <1>2, <1>6, <1>7, <1>8

(* A transmit request outside an open service is refused and changes no number. *)
LEMMA RequestRests ==
    ASSUME NEW f, f \in FopRecord, f.state \notin AdStates, NEW d
    PROVE  Rests(f, TransmitAd(f, d)) /\ TransmitAd(f, d).signal = "REJECT_TX"
<1> DEFINE a == [f EXCEPT !.hdr = "AD"]
           r == Say(a, "REJECT_TX")
<1>1. a.state = f.state
  BY DEF FopRecord
<1>2. Rests(f, r) /\ r.signal = "REJECT_TX"
  BY DEF Rests, Say, FopRecord
<1> HIDE DEF a
<1>3. FopE19(a, d) = r
  BY <1>1 DEF FopE19, AdStates
<1> HIDE DEF r
<1>4. TransmitAd(f, d) = r
  BY <1>3 DEF TransmitAd, FopE20, a, r
<1> QED BY <1>2, <1>4

(* The sender opens the service where the receiver stands. *)
LEMMA FirstRun ==
    ASSUME NEW g, Fits(g), g.sent = <<>>, g.wait = <<>>, g.nnr = g.vs,
           NEW vr, NEW d \in Seq(Clcw), AtStart(g, vr, d), vr = g.vs,
           \A i \in 1 .. Len(d) : d[i].nr = g.vs, NEW acc, NEW arr
    PROVE  \E N, R \in Int : \E B : InService(g, vr, d, N, R, B) /\ Booked(B, N, R, acc, arr)
<1> DEFINE v == g.vs
           V == v + Len(g.sent)
           B == [end |-> v, sdu |-> [p \in Int |-> NoSDU]]
           pos == [i \in 1 .. Len(g.tx) |-> 0]
           rep == [i \in 1 .. Len(d) |-> v]
<1>1. v \in SeqNum /\ Len(g.tx) \in Nat /\ Len(d) \in Nat /\ g.wnd \in 1 .. SeqMod - 1
  <2>1. v \in SeqNum
    BY DEF Fits, FopRecord
  <2> HIDE DEF v
  <2> QED BY <2>1, FitsFacts
<1>2. v \in Int /\ Num(v) = v
  <2> HIDE DEF v
  <2>1. v \in 0 .. SeqMod - 1
    BY <1>1 DEF SeqNum
  <2>2. v \in Int /\ -SeqMod < v /\ v < 2 * SeqMod /\ ~ (v < 0) /\ v < SeqMod
    BY <2>1, SeqModAssumption
  <2>3. v % SeqMod = v
    BY <2>2, ModOnce
  <2> QED BY <2>2, <2>3 DEF Num
<1>3. Len(g.sent) = 0 /\ 1 .. Len(g.sent) = {}
  OBVIOUS
<1>4. V = v
  <2> HIDE DEF v
  <2> QED BY <1>2, <1>3
<1>5. Run(g, v, B)
  <2>1. 0 <= g.wnd
    BY <1>1, SeqModAssumption
  <2>2. g.nnr = v /\ B.end = v
    OBVIOUS
  <2>3. Len(g.wait) = 0
    OBVIOUS
  <2>4. v = v + 0 + 0
    <3> HIDE DEF v
    <3> QED BY <1>2
  <2> HIDE DEF Num, v, B
  <2> QED BY <1>2, <1>3, <1>4, <2>1, <2>2, <2>3, <2>4 DEF Run, V, v
<1> HIDE DEF B
<1>6. Up(g.tx, g.wnd, v, v, B)
  <2>1. pos \in [1 .. Len(g.tx) -> Int]
    OBVIOUS
  <2>2. ASSUME NEW i \in 1 .. Len(g.tx)
        PROVE  i = 1 /\ g.tx[i].code # "AD" /\ BcAt(g.tx, v, i)
    <3>1. Len(g.tx) <= 1 /\ g.tx[i].code \in {"UNLOCK", "SETVR"}
          /\ (g.tx[i].code = "SETVR" => g.tx[i].num = v)
      BY DEF AtStart, ControlOnly
    <3>2. i = 1
      BY <1>1, <3>1
    <3> HIDE DEF v, Num
    <3> QED BY <1>2, <3>1, <3>2 DEF BcAt
  <2> HIDE DEF pos
  <2>3. UpAt(g.tx, g.wnd, v, v, pos, B)
    BY <2>2 DEF UpAt
  <2> QED BY <2>1, <2>3 DEF Up
<1>7. Down(d, v, v)
  <2>1. rep \in [1 .. Len(d) -> Int] /\ \A i \in 1 .. Len(d) : rep[i] = v
    <3> HIDE DEF v
    <3> QED BY <1>2
  <2>2. \A i \in 1 .. Len(d) : d[i].nr = v
    OBVIOUS
  <2> HIDE DEF rep, v, Num
  <2>3. DownAt(d, v, v, rep)
    <3>1. ASSUME NEW i \in 1 .. Len(d)
          PROVE  /\ v <= rep[i] /\ rep[i] <= v /\ d[i].nr = Num(rep[i])
                 /\ \A j \in 1 .. i - 1 : rep[j] <= rep[i]
      <4>1. rep[i] = v /\ \A j \in 1 .. i - 1 : j \in 1 .. Len(d)
        BY <1>1, <2>1
      <4>2. \A j \in 1 .. i - 1 : rep[j] = v
        BY <2>1, <4>1
      <4> QED BY <1>2, <2>2, <4>1, <4>2
    <3> QED BY <3>1 DEF DownAt
  <2> QED BY <2>1, <2>3 DEF Down
<1>8. v \in v .. V
  <2> HIDE DEF v, V
  <2> QED BY <1>2, <1>4
<1>9. InService(g, vr, d, v, v, B)
  <2> HIDE DEF Num
  <2> QED BY <1>2, <1>4, <1>5, <1>6, <1>7, <1>8 DEF InService
<1>10. Booked(B, v, v, acc, arr)
  <2>1. B.end = v
    BY DEF B
  <2> HIDE DEF v
  <2>2. v .. v - 1 = {}
    BY <1>2
  <2> QED BY <2>1, <2>2 DEF Booked, Rising
<1> HIDE DEF v
<1> QED BY <1>2, <1>9, <1>10

(* fop_e1 of a service being initialised. *)
LEMMA FopE1Opens ==
    ASSUME NEW f, Sound(f), f.state \in {"INIT_NO_BC", "INIT_BC"}
    PROVE  LET g == FopE1(f)
           IN  /\ g.state = "ACTIVE" /\ g.ss = 0 /\ g.sent = <<>> /\ g.wait = <<>>
               /\ g.vs = f.vs /\ g.nnr = f.nnr /\ g.wnd = f.wnd /\ g.tx = f.tx
<1> DEFINE h == IF f.state = "INIT_BC" THEN ReleaseCopyOfBc(f) ELSE f
           r == [h EXCEPT !.state = "ACTIVE", !.armed = FALSE, !.signal = "POSITIVE_DIR"]
<1>1. f \in FopRecord /\ f.ss = 0 /\ f.sent \in Seq(Item)
  BY DEF Sound, Fits, Matched, FopRecord
<1>2. f.wait = <<>>
  BY <1>1 DEF Sound, Matched
<1>3. /\ h \in FopRecord /\ h.sent = <<>> /\ h.wait = <<>> /\ h.ss = 0
      /\ h.vs = f.vs /\ h.nnr = f.nnr /\ h.wnd = f.wnd /\ h.tx = f.tx
  <2>1. CASE f.state = "INIT_NO_BC"
    <3>1. f.sent = <<>> /\ h = f
      BY <1>1, <2>1 DEF Sound, Matched
    <3> HIDE DEF h
    <3> QED BY <1>1, <1>2, <3>1
  <2>2. CASE f.state = "INIT_BC"
    <3>1. Len(f.sent) = 1 /\ f.sent[1].type = "B"
      BY <2>2 DEF Sound, Matched
    <3>2. f.sent # <<>> /\ Tail(f.sent) \in Seq(Item) /\ Len(Tail(f.sent)) = 0
      BY <1>1, <3>1, HeadTailProperties
    <3>3. Tail(f.sent) = <<>> /\ Head(f.sent) = f.sent[1] /\ <<>> \in Seq(Item)
      <4>1. Tail(f.sent) = <<>>
        BY <3>2, EmptySeq
      <4>2. Head(f.sent) = f.sent[1]
        BY <1>1, <3>2
      <4> QED BY <4>1, <4>2
    <3>4. h = [f EXCEPT !.sent = <<>>]
      BY <1>1, <2>2, <3>1, <3>3 DEF ReleaseCopyOfBc, FopRecord
    <3> HIDE DEF h
    <3> QED BY <1>1, <1>2, <3>3, <3>4 DEF FopRecord
  <2> QED BY <2>1, <2>2
<1>4. FopE1(f) = r
  BY DEF FopE1
<1> HIDE DEF h
<1>5. /\ r.state = "ACTIVE" /\ r.ss = 0 /\ r.sent = <<>> /\ r.wait = <<>>
      /\ r.vs = f.vs /\ r.nnr = f.nnr /\ r.wnd = f.wnd /\ r.tx = f.tx
  BY <1>3 DEF FopRecord
<1> QED BY <1>4, <1>5

(* Another state before the service. *)
LEMMA BeginsAgreed ==
    ASSUME NEW f, NEW g, NEW vr, NEW d, NEW s, s # 0, NEW acc, NEW arr, Accounted(acc, arr),
           AtStart(f, vr, d), g.vs = f.vs, g.tx \in {f.tx, <<>>}, ControlOnly(g.sent),
           g.state \notin AdStates, g.ss \in {0, 4}, Begins(g)
    PROVE  Agreed(g, vr, d, s, acc, arr) /\ Keeps(f, g, arr)
<1>1. ~ Serves(g) /\ ~ Ended(g)
  BY DEF Serves, Ended, Begins
<1>2. AtStart(g, vr, d)
  <2>1. Len(<<>>) = 0 /\ 1 .. 0 = {}
    OBVIOUS
  <2> QED BY <2>1 DEF AtStart, ControlOnly
<1> QED BY <1>1, <1>2 DEF Agreed, Keeps

(* It ends before it has begun. *)
LEMMA BeginsLeft ==
    ASSUME NEW f, NEW g, NEW vr, NEW d, NEW s, s # 0, NEW acc, NEW arr, Accounted(acc, arr),
           g.state = "INIT", g.ss = 0, ControlOnly(g.tx)
    PROVE  Agreed(g, vr, d, s, acc, arr) /\ Keeps(f, g, arr)
BY DEF Agreed, Keeps, Serves, Begins, Leftover, AdStates, OpenStates

(* What an alert leaves of a sender. *)
LEMMA AlertLeaves ==
    ASSUME NEW f, f \in FopRecord, NEW sig
    PROVE  Alert(f, sig).state = "INIT" /\ Alert(f, sig).ss = f.ss /\ Alert(f, sig).tx = f.tx
BY DEF Alert, FopRecord

(* The retransmit flag is an error only to a FOP whose transmission limit is 0. *)
LEMMA NoLimit ==
    ASSUME NEW f, Sound(f), NEW c \in Clcw, ClcwEvent(f, c) = "NO_LIMIT"
    PROVE  f.lim = 0
<1>1. f.lim \in 0 .. CntMod - 1 /\ f.txCnt \in 0 .. CntMod - 1
  BY LimitsAssumption DEF Sound, Fits, FopRecord
<1>2. f.lim \in Nat /\ f.txCnt \in Nat
  BY <1>1, CntModAssumption
<1>3. RetransmitEvent(f, c) = "NO_LIMIT" => f.lim = 0
  <2>1. f.lim = 0 \/ f.lim = 1 \/ f.lim > 1
    BY <1>2
  <2>2. f.txCnt < f.lim \/ f.txCnt >= f.lim
    BY <1>2
  <2> QED BY <2>1, <2>2 DEF RetransmitEvent
<1>4. RetransmitEvent(f, c) = "NO_LIMIT"
  BY DEF ClcwEvent
<1> QED BY <1>3, <1>4

(* A control word to a service being initialised: an alert, or V(R) where V(S) is. *)
LEMMA ClcwBefore ==
    ASSUME NEW f, Sound(f), f.state \in {"INIT_NO_BC", "INIT_BC"}, NEW c \in Clcw
    PROVE  \/ OnClcw(f, c) = f
           \/ f.lim = 0 /\ OnClcw(f, c) = Say(f, "UNDEF_ERROR")
           \/ \E sig \in Alerts : OnClcw(f, c) = Alert(f, sig)
           \/ c.nr = f.vs /\ c.nr = f.nnr /\ OnClcw(f, c) = FopE1(f)
<1> DEFINE e == ClcwEvent(f, c)
           s == Say(f, "UNDEF_ERROR")
           P(g) == g = f \/ \E sig \in Alerts : g = Alert(f, sig)
<1>1. e \in Events
  BY ClcwEventKnown
<1>2. f.state \notin AdStates /\ f.state \notin OpenStates
  BY DEF AdStates, OpenStates
<1>3. \A states, sig \in Alerts : P(AlertIn(f, states, sig))
  BY DEF AlertIn
<1>4. {"ALERT_LOCKOUT", "ALERT_SYNCH", "ALERT_NNR", "ALERT_CLCW", "ALERT_LIMIT"} \subseteq Alerts
  BY DEF Alerts
<1>5. /\ P(FopE3(f)) /\ P(FopE4(f)) /\ P(FopE5(f)) /\ P(FopE7(f))
      /\ P(FopE13(f)) /\ P(FopE14(f)) /\ P(FopE102(f))
  <2>1. \A states, sig : sig \in Alerts => P(AlertIn(f, states, sig))
    BY DEF AlertIn
  <2> HIDE DEF P
  <2> QED BY <1>4, <2>1 DEF FopE3, FopE4, FopE5, FopE7, FopE13, FopE14, FopE102
<1>6. /\ FopE2(f, c.nr) = f /\ FopE6(f, c.nr) = f /\ FopE8(f, c.nr) = f /\ FopE9(f, c.nr) = f
      /\ FopE10(f) = f /\ FopE11(f) = f /\ FopE12(f) = f /\ FopE103(f) = f /\ FopE101(f, c.nr) = f
  BY <1>2 DEF FopE2, FopE6, FopE8, FopE9, FopE10, FopE11, FopE12, FopE103, FopE101
<1>7. e = "E1" => c.nr = f.vs /\ c.nr = f.nnr
  <2>1. f.lim \in Nat /\ f.txCnt \in Nat
    <3>1. f.lim \in 0 .. CntMod - 1 /\ f.txCnt \in 0 .. CntMod - 1
      BY LimitsAssumption DEF Sound, Fits, FopRecord
    <3> QED BY <3>1, CntModAssumption
  <2>2. RetransmitEvent(f, c) # "E1"
    <3>1. f.lim = 0 \/ f.lim = 1 \/ f.lim > 1
      BY <2>1
    <3>2. f.txCnt < f.lim \/ f.txCnt >= f.lim
      BY <2>1
    <3> QED BY <3>1, <3>2 DEF RetransmitEvent
  <2> QED BY <2>2 DEF ClcwEvent
<1> HIDE DEF e, s, P
<1>8. P(f)
  BY DEF P
<1>9. CASE e = "E1"
  BY <1>7, <1>9 DEF OnClcw, e
<1>10. CASE e \in {"E2", "E6", "E8", "E9", "E10", "E11", "E12", "E103", "E101"}
  <2>1. OnClcw(f, c) = f
    BY <1>6, <1>10 DEF OnClcw, e
  <2> QED BY <2>1
<1>11. CASE e \in {"E3", "E4", "E5", "E7", "E13", "E14", "E102"}
  <2>1. P(OnClcw(f, c))
    BY <1>5, <1>11 DEF OnClcw, e
  <2> QED BY <2>1 DEF P
<1>12. CASE e = "NO_LIMIT"
  BY <1>12, NoLimit DEF OnClcw, e
<1> QED BY <1>1, <1>9, <1>10, <1>11, <1>12 DEF Events

(* osdlp_handle_clcw with the oldest control word under way. *)
LEMMA ClcwAgreed ==
    ASSUME NEW f, Sound(f), NEW vr, NEW d \in Seq(Clcw), d # <<>>, NEW s,
           NEW acc, NEW arr, Agreed(f, vr, d, s, acc, arr), ErrorEnds(OnClcw(f, Head(d)))
    PROVE  /\ Agreed(OnClcw(f, Head(d)), vr, Tail(d), s, acc, arr)
           /\ Keeps(f, OnClcw(f, Head(d)), arr)
<1> DEFINE c == Head(d)
           u == Tail(d)
           g == OnClcw(f, c)
<1>1. /\ c \in Clcw /\ u \in Seq(Clcw) /\ Len(u) \in Nat /\ Len(d) \in Nat
      /\ 1 \in 1 .. Len(d) /\ c = d[1] /\ Len(u) = Len(d) - 1
      /\ \A i \in 1 .. Len(u) : u[i] = d[i + 1]
  BY HeadTailProperties
<1>2. f \in FopRecord /\ Fits(f) /\ f.state \in FopStates /\ Sound(g) /\ Fits(g)
  BY <1>1, OnClcwSound DEF Sound, Fits, FopRecord
<1>3. Agreed(f, vr, u, s, acc, arr) /\ Accounted(acc, arr) /\ Keeps(f, f, arr)
  BY LosesReport DEF Agreed, Keeps
<1> HIDE DEF u, c
<1>4. CASE f.state = "INIT"
  <2>1. Rests(f, g)
    BY <1>2, <1>4, IdleRests
  <2>2. Agreed(g, vr, u, s, acc, arr) /\ Keeps(f, g, arr)
    BY <1>3, <2>1, RestsAgreed
  <2> QED BY <2>2 DEF c, u
<1>5. CASE f.state \in AdStates
  <2>1. Open(f) /\ Serves(f) /\ s # 0
    BY <1>5, ServesStarted DEF Open, Serves
  <2>2. PICK N \in Int, R \in Int :
                \E B : InService(f, vr, d, N, R, B) /\ Booked(B, N, R, acc, arr)
    BY <2>1 DEF Agreed
  <2>9. PICK B : InService(f, vr, d, N, R, B) /\ Booked(B, N, R, acc, arr)
    BY <2>2
  <2>3. PICK r \in N .. R : c.nr = Num(r) /\ Down(u, r, R)
    BY <2>9, DownTail DEF InService, c, u
  <2>4. r \in N .. N + Len(f.sent) /\ r \in Int /\ N <= r /\ r <= R /\ N \in N .. R
    <3>1. R \in N .. N + Len(f.sent) /\ Len(f.sent) \in Nat
      BY <1>2, <2>9, FitsFacts DEF InService
    <3> QED BY <3>1
  <2>5. Down(u, N, R)
    BY <1>1, <2>3, <2>4, DownWider
  <2>10. Run(f, N, B) /\ Open(f) /\ c \in Clcw /\ c.nr = Num(r)
    BY <1>1, <2>1, <2>3, <2>9 DEF InService
  <2> HIDE DEF g
  <2>11. \E M \in {N, r} : Outcome(f, OnClcw(f, c), M, N + Len(f.sent), B)
    BY <2>4, <2>10, OnClcwRun
  <2>6. PICK M \in {N, r} : Outcome(f, g, M, N + Len(f.sent), B)
    BY <2>11 DEF g
  <2>7. M \in N .. R /\ Down(u, M, R)
    BY <2>3, <2>4, <2>5, <2>6
  <2> HIDE DEF g
  <2>8. Agreed(g, vr, u, s, acc, arr) /\ Keeps(f, g, arr)
    BY <1>2, <1>3, <2>1, <2>6, <2>7, <2>9, OutcomeAgreed DEF g, c
  <2> QED BY <2>8 DEF g, c, u
<1>6. CASE f.state \in {"INIT_NO_BC", "INIT_BC"}
  <2>1. s # 0 /\ Begins(f) /\ f.ss = 0
    BY <1>6, ServesStarted DEF Begins, Sound, Matched
  <2>2. AtStart(f, vr, d) /\ AtStart(f, vr, u)
    BY <1>3, <2>1 DEF Agreed
  <2>3. CASE g = f
    BY <1>3, <2>3 DEF c, u
  <2>4. CASE g = Say(f, "UNDEF_ERROR")
    <3>1. g.signal = "UNDEF_ERROR" /\ g.state # "INIT"
      BY <1>2, <1>6, <2>4 DEF Say, FopRecord
    <3> QED BY <3>1 DEF ErrorEnds, c
  <2>5. CASE \E sig \in Alerts : g = Alert(f, sig)
    <3>1. g.state = "INIT" /\ g.ss = 0 /\ ControlOnly(g.tx)
      BY <1>2, <2>1, <2>2, <2>5, AlertLeaves DEF AtStart
    <3> HIDE DEF g
    <3>2. Agreed(g, vr, u, s, acc, arr) /\ Keeps(f, g, arr)
      BY <1>3, <2>1, <3>1, BeginsLeft
    <3> QED BY <3>2 DEF g, c, u
  <2>6. CASE c.nr = f.vs /\ c.nr = f.nnr /\ g = FopE1(f)
    <3>1. /\ g.state = "ACTIVE" /\ g.ss = 0 /\ g.sent = <<>> /\ g.wait = <<>>
          /\ g.vs = f.vs /\ g.nnr = f.vs /\ g.wnd = f.wnd /\ g.tx = f.tx
      BY <1>6, <2>6, FopE1Opens
    <3> HIDE DEF g
    <3>2. vr = f.vs /\ \A j \in 1 .. Len(d) : d[j].nr = f.vs
      BY <1>1, <2>2, <2>6 DEF AtStart
    <3>3. \A i \in 1 .. Len(u) : u[i].nr = f.vs
      <4>1. \A i \in 1 .. Len(u) : i + 1 \in 1 .. Len(d)
        BY <1>1
      <4> QED BY <1>1, <3>2, <4>1
    <3>4. AtStart(g, vr, u)
      <4>1. 1 .. Len(<<>>) = {}
        OBVIOUS
      <4> QED BY <2>2, <3>1, <4>1 DEF AtStart, ControlOnly
    <3>5. \E N, R \in Int : \E B : InService(g, vr, u, N, R, B) /\ Booked(B, N, R, acc, arr)
      BY <1>1, <1>2, <3>1, <3>2, <3>3, <3>4, FirstRun
    <3>6. ~ Begins(g) /\ ~ Ended(g)
      BY <3>1 DEF Begins, Ended
    <3>8. ~ Serves(f)
      BY <1>6, <2>1 DEF Serves, AdStates, OpenStates
    <3>7. Agreed(g, vr, u, s, acc, arr) /\ Keeps(f, g, arr)
      BY <1>3, <2>1, <3>1, <3>5, <3>6, <3>8 DEF Agreed, Keeps
    <3> QED BY <3>7 DEF g, c, u
  <2> QED BY <1>1, <1>6, <2>3, <2>4, <2>5, <2>6, ClcwBefore
<1> QED BY <1>2, <1>4, <1>5, <1>6 DEF FopStates

(* osdlp_handle_timer_expired. *)
LEMMA TimerAgreed ==
    ASSUME NEW f, Sound(f), NEW vr, NEW d, NEW s, NEW acc, NEW arr,
           Agreed(f, vr, d, s, acc, arr), ErrorEnds(OnTimer(f))
    PROVE  Agreed(OnTimer(f), vr, d, s, acc, arr) /\ Keeps(f, OnTimer(f), arr)
<1> DEFINE g == OnTimer(f)
<1>1. f \in FopRecord /\ Fits(f) /\ f.state \in FopStates /\ Sound(g) /\ Fits(g)
  BY OnTimerSound DEF Sound, Fits, FopRecord
<1>6. Accounted(acc, arr)
  BY DEF Agreed
<1>2. CASE f.state = "INIT"
  <2>1. OnTimer(f) = f
    BY <1>1, <1>2, IdleRests
  <2> QED BY <2>1 DEF Keeps
<1>3. CASE f.state \in AdStates
  <2>1. Open(f) /\ \A N \in Int : \A B :
                       Run(f, N, B) => Outcome(f, g, N, N + Len(f.sent), B)
    BY <1>3, OnTimerRun DEF Open
  <2> HIDE DEF g
  <2>2. Agreed(g, vr, d, s, acc, arr) /\ Keeps(f, g, arr)
    BY <1>1, <2>1, ServingAgreed DEF g
  <2> QED BY <2>2 DEF g
<1>4. CASE f.state = "INIT_NO_BC"
  <2> DEFINE h == [f EXCEPT !.ss = 4, !.state = "INIT"]
             a == Alert(f, "ALERT_T1")
  <2>1. s # 0 /\ AtStart(f, vr, d) /\ f.ss = 0
    BY <1>4, ServesStarted DEF Agreed, Begins, Sound, Matched
  <2>2. g = a \/ g = h
    BY <1>4 DEF OnTimer, FopE16, FopE104, FopE17, FopE18, OpenStates, AlertIn, FopStates
  <2>3. a.state = "INIT" /\ a.ss = 0 /\ ControlOnly(a.tx)
    BY <1>1, <2>1, AlertLeaves DEF AtStart
  <2>4. h.vs = f.vs /\ h.tx = f.tx /\ h.sent = f.sent /\ h.state = "INIT" /\ h.ss = 4
    BY <1>1 DEF FopRecord
  <2> HIDE DEF h, a
  <2>5. Agreed(h, vr, d, s, acc, arr) /\ Keeps(f, h, arr)
    <3>1. ControlOnly(h.sent) /\ Begins(h)
      BY <2>1, <2>4 DEF AtStart, Begins
    <3> QED BY <1>6, <2>1, <2>4, <3>1, BeginsAgreed DEF AdStates, OpenStates
  <2>6. Agreed(a, vr, d, s, acc, arr) /\ Keeps(f, a, arr)
    BY <1>6, <2>1, <2>3, BeginsLeft
  <2> HIDE DEF g
  <2>7. Agreed(g, vr, d, s, acc, arr) /\ Keeps(f, g, arr)
    BY <2>2, <2>5, <2>6
  <2> QED BY <2>7 DEF g
<1>5. CASE f.state = "INIT_BC"
  <2> DEFINE n == (f.txCnt + 1) % CntMod
             h == [f EXCEPT !.tx = <<>>, !.txCnt = n, !.armed = TRUE]
             a == Alert(f, "ALERT_T1")
             b == Alert(h, "UNDEF_ERROR")
             x == [i \in 1 .. TxCap |-> FrameOf(Head(f.sent))]
             r == [b EXCEPT !.tx = x]
             k == Say(h, "ACCEPT_DIR")
  <2>1. s # 0 /\ AtStart(f, vr, d) /\ f.ss = 0
    BY <1>5, ServesStarted DEF Agreed, Begins, Sound, Matched
  <2>2. g = a \/ g = RetransmitBc(f)
    BY <1>5 DEF OnTimer, FopE16, FopE104, FopE17, FopE18, OpenStates, AlertIn, FopStates
  <2>3. RetransmitBc(f) = r \/ RetransmitBc(f) = k
    <3>1. h.sent = f.sent
      BY <1>1 DEF FopRecord
    <3>2. h = [f EXCEPT !.tx = <<>>, !.txCnt = (@ + 1) % CntMod, !.armed = TRUE]
      BY <1>1 DEF FopRecord
    <3> QED BY <3>1, <3>2 DEF RetransmitBc
  <2>10. ControlOnly(x)
    <3>1. f.sent # <<>> /\ 1 \in 1 .. Len(f.sent) /\ Head(f.sent) = f.sent[1]
      <4>1. Len(f.sent) = 1 /\ f.sent \in Seq(Item)
        BY <1>1, <1>5 DEF Sound, Matched, FopRecord
      <4> QED BY <4>1
    <3>2. Head(f.sent).code \in {"UNLOCK", "SETVR"}
      BY <2>1, <3>1 DEF AtStart, ControlOnly
    <3>3. FrameOf(Head(f.sent)).code = Head(f.sent).code
      BY DEF FrameOf
    <3> DEFINE fr == FrameOf(Head(f.sent))
    <3>4. TxCap \in Nat /\ Len(x) = TxCap /\ \A i \in 1 .. TxCap : x[i] = fr
      <4> HIDE DEF fr
      <4>1. TxCap \in Nat /\ x = [i \in 1 .. TxCap |-> fr]
        BY TxCapAssumption DEF fr
      <4>2. x \in [1 .. TxCap -> {fr}]
        BY <4>1
      <4> HIDE DEF x
      <4> QED BY <4>1, <4>2
    <3> HIDE DEF x, fr
    <3> QED BY <3>2, <3>3, <3>4 DEF ControlOnly, fr
  <2> HIDE DEF n, x
  <2>4. /\ h.vs = f.vs /\ h.nnr = f.nnr /\ h.tx = <<>> /\ h.state = "INIT_BC" /\ h.ss = 0
        /\ h.sent = f.sent
    BY <1>1, <1>5, <2>1 DEF FopRecord
  <2>5. /\ DOMAIN h = DOMAIN f /\ h = [i \in DOMAIN h |-> h[i]]
        /\ "signal" \in DOMAIN f /\ "state" \in DOMAIN f /\ "ss" \in DOMAIN f
        /\ "vs" \in DOMAIN f /\ "sent" \in DOMAIN f /\ "tx" \in DOMAIN f
    BY <1>1 DEF FopRecord
  <2> HIDE DEF h
  <2>6. k.vs = f.vs /\ k.sent = f.sent /\ k.tx = <<>> /\ k.state = "INIT_BC" /\ k.ss = 0
    BY <2>4, <2>5 DEF Say
  <2>7. r.state = "INIT" /\ r.ss = 0 /\ r.tx = x
    BY <2>4, <2>5 DEF Alert
  <2>8. a.state = "INIT" /\ a.ss = 0 /\ ControlOnly(a.tx)
    BY <1>1, <2>1, AlertLeaves DEF AtStart
  <2> HIDE DEF a, r, k
  <2>9. Agreed(k, vr, d, s, acc, arr) /\ Keeps(f, k, arr)
    <3>1. ControlOnly(k.sent) /\ Begins(k)
      BY <2>1, <2>6 DEF AtStart, Begins
    <3> QED BY <1>6, <2>1, <2>6, <3>1, BeginsAgreed, SMTT(30) DEF AdStates, OpenStates
  <2>11. Agreed(a, vr, d, s, acc, arr) /\ Keeps(f, a, arr)
    BY <1>6, <2>1, <2>8, BeginsLeft
  <2>12. Agreed(r, vr, d, s, acc, arr) /\ Keeps(f, r, arr)
    BY <1>6, <2>1, <2>7, <2>10, BeginsLeft
  <2> HIDE DEF g
  <2>13. Agreed(g, vr, d, s, acc, arr) /\ Keeps(f, g, arr)
    BY <2>2, <2>3, <2>9, <2>11, <2>12
  <2> QED BY <2>13 DEF g
<1> QED BY <1>1, <1>2, <1>3, <1>4, <1>5 DEF FopStates

(* A request for the AD service: accepted, the SDU is the last that is owed. *)
LEMMA RequestAgreed ==
    ASSUME NEW f, Sound(f), NEW vr, NEW d, NEW s, NEW acc, NEW arr,
           Agreed(f, vr, d, s, acc, arr), acc + 1 \in SDU, ErrorEnds(TransmitAd(f, acc + 1))
    PROVE  LET g == TransmitAd(f, acc + 1)
           IN  IF g.signal \in {"ACCEPT_TX", "DELAY_RESP"}
               THEN /\ Agreed(g, vr, d, s, acc + 1, arr)
                    /\ Serves(f) /\ Serves(g) /\ Owed(g, arr) = Append(Owed(f, arr), acc + 1)
               ELSE Agreed(g, vr, d, s, acc, arr) /\ Keeps(f, g, arr)
<1> DEFINE e == acc + 1
           g == TransmitAd(f, e)
<1>1. f \in FopRecord /\ Fits(f) /\ Sound(g) /\ Fits(g) /\ Accounted(acc, arr)
  BY TransmitAdSound DEF Sound, Fits, Agreed
<1>2. CASE f.state \notin AdStates
  <2>1. Rests(f, g) /\ g.signal = "REJECT_TX"
    BY <1>1, <1>2, RequestRests
  <2> HIDE DEF g
  <2>2. Agreed(g, vr, d, s, acc, arr) /\ Keeps(f, g, arr)
    BY <2>1, RestsAgreed
  <2> QED BY <2>1, <2>2 DEF g
<1>3. CASE f.state \in AdStates /\ g.signal \notin {"ACCEPT_TX", "DELAY_RESP"}
  <2>1. Open(f) /\ \A N \in Int : \A B :
                       Run(f, N, B) => Outcome(f, g, N, N + Len(f.sent), B)
    BY <1>3, TransmitAdRun DEF Open
  <2> HIDE DEF g
  <2>2. Agreed(g, vr, d, s, acc, arr) /\ Keeps(f, g, arr)
    BY <1>1, <2>1, ServingAgreed DEF g
  <2> QED BY <1>3, <2>2 DEF g
<1>4. CASE f.state \in AdStates /\ g.signal \in {"ACCEPT_TX", "DELAY_RESP"}
  <2>1. Open(f) /\ Serves(f) /\ s # 0
    BY <1>4, ServesStarted DEF Open, Serves
  <2>2. PICK N \in Int, R \in Int :
                \E B : InService(f, vr, d, N, R, B) /\ Booked(B, N, R, acc, arr)
    BY <2>1 DEF Agreed
  <2>3. PICK B : InService(f, vr, d, N, R, B) /\ Booked(B, N, R, acc, arr)
    BY <2>2
  <2> DEFINE V == N + Len(f.sent)
             X == N + Len(g.sent)
             C == Entered(B, e)
  <2>4. g.state \in AdStates /\ g.ss = 0 /\ Goes(f, g, N, V, C)
    BY <1>4, <2>1, <2>3, TransmitAdRun DEF InService
  <2>5. /\ Run(g, N, C) /\ g.wnd = f.wnd /\ V <= X /\ Sends(f.tx, g.tx, N, X, C)
        /\ Len(g.sent) <= f.wnd
    BY <2>4 DEF Goes, Run
  <2>6. /\ Len(f.tx) \in Nat /\ Len(g.tx) \in Nat /\ f.wnd \in Int
        /\ Len(f.sent) \in Nat /\ Len(g.sent) \in Nat
    BY <1>1, FitsFacts
  <2>7. /\ V \in Int /\ X \in Int /\ N <= R /\ R <= V /\ X - N <= f.wnd
    BY <2>3, <2>5, <2>6 DEF InService
  <2>8. B.end \in Int /\ V <= B.end /\ Run(f, N, B)
    BY <1>1, <2>3, BookEnd DEF InService
  <2>9. C.end = B.end + 1
    BY DEF Entered
  <2>10. Up(f.tx, f.wnd, V, R, B) /\ vr = Num(R) /\ Down(d, N, R)
    BY <2>3 DEF InService
  <2>11. acc \in Nat /\ 1 .. acc \subseteq SDU /\ arr \in Seq(1 .. acc)
    BY <1>1 DEF Accounted
  <2>12. Accounted(e, arr)
    <3>1. 1 .. acc + 1 = 1 .. acc \cup {acc + 1} /\ acc + 1 \in Nat
      BY <2>11
    <3>2. arr \in Seq(1 .. acc + 1)
      BY <2>11, <3>1
    <3> QED BY <2>11, <3>1, <3>2 DEF Accounted
  <2>13. Booked(C, N, R, e, arr)
    <3>1. R <= B.end
      BY <2>7, <2>8
    <3> QED BY <2>3, <2>8, <2>11, <3>1, BookedEntered
  <2> HIDE DEF V, X, C
  <2>14. Up(f.tx, f.wnd, V, R, C)
    BY <2>7, <2>8, <2>10, UpEntered DEF C
  <2>15. Up(g.tx, g.wnd, X, R, C)
    BY <2>5, <2>6, <2>7, <2>14, UpSends
  <2>16. R \in N .. X
    BY <2>5, <2>7
  <2> HIDE DEF g, e
  <2>17. InService(g, vr, d, N, R, C)
    BY <2>5, <2>10, <2>15, <2>16 DEF InService, X
  <2>18. ~ Begins(g) /\ ~ Ended(g) /\ Serves(g)
    BY <2>4 DEF Begins, Ended, Serves, AdStates, OpenStates
  <2>19. Agreed(g, vr, d, s, e, arr)
    BY <2>1, <2>12, <2>13, <2>17, <2>18 DEF Agreed
  <2>20. Owed(g, arr) = Append(Owed(f, arr), e)
    <3>1. R \in N .. B.end /\ R \in N .. C.end /\ R <= B.end
      BY <2>7, <2>8, <2>9
    <3>2. Owed(f, arr) = Remaining(B, R)
      BY <1>1, <2>3, <2>8, <2>11, <3>1, OwedRun
    <3>3. Owed(g, arr) = Remaining(C, R)
      BY <1>1, <2>5, <2>12, <2>13, <3>1, OwedRun DEF Accounted
    <3>4. Remaining(C, R) = Append(Remaining(B, R), e)
      BY <2>8, <3>1, RemainingEntered DEF C
    <3> QED BY <3>2, <3>3, <3>4
  <2> QED BY <1>4, <2>1, <2>18, <2>19, <2>20 DEF g, e
<1> QED BY <1>2, <1>3, <1>4

-----------------------------------------------------------------------------
(* The channels. *)

(* A frame leaves the tx queue; w is V(R) and b what has arrived after it is heard or lost. *)
Hears(f, vr, arr, w, b) ==
    \/ w = vr /\ b = arr
    \/ Head(f.tx).code = "AD" /\ Head(f.tx).num = vr /\ w = Inc(vr) /\ b = Append(arr, Head(f.tx).sdu)
    \/ Head(f.tx).code = "SETVR" /\ w = Head(f.tx).num /\ b = arr
    \/ Head(f.tx).code = "BD"

(* What arrives is the first that is owed, or it is left from a service that has ended. *)
Arrives(f, g, acc, arr, b) ==
    \/ b = arr /\ Owed(g, b) = Owed(f, arr)
    \/ /\ Owed(f, arr) # <<>> /\ b = Append(arr, Head(Owed(f, arr)))
       /\ Owed(g, b) = Tail(Owed(f, arr))
    \/ /\ Owed(f, arr) = <<>> /\ Owed(g, b) = <<>>
       /\ \E e \in 1 .. acc : b = Append(arr, e) /\ \A i \in DOMAIN arr : arr[i] < e

(* Nothing arrives when V(R) stays. *)
LEMMA ArrivesNothing ==
    ASSUME NEW f, NEW g, g.sent = f.sent, g.wait = f.wait, NEW acc, NEW arr
    PROVE  Arrives(f, g, acc, arr, arr)
BY DEF Arrives, Owed, Held

(* To a service that has not begun. *)
LEMMA UplinkBegins ==
    ASSUME NEW f, Fits(f), f.tx # <<>>, NEW vr, NEW d \in Seq(Clcw), NEW s, NEW acc, NEW arr,
           Agreed(f, vr, d, s, acc, arr), Begins(f), ~ Serves(f), ~ Ended(f),
           NEW w, NEW b, Hears(f, vr, arr, w, b),
           NEW g, g.state = f.state, g.ss = f.ss, g.sent = f.sent, g.vs = f.vs, g.wait = f.wait,
           g.tx = Tail(f.tx)
    PROVE  Agreed(g, w, d, s, acc, b) /\ Arrives(f, g, acc, arr, b)
<1>1. AtStart(f, vr, d) /\ s # 0 /\ Accounted(acc, arr)
  BY ServesStarted DEF Agreed
<1>2. /\ Len(f.tx) \in Nat /\ 1 \in 1 .. Len(f.tx) /\ Head(f.tx) = f.tx[1]
      /\ Len(g.tx) = Len(f.tx) - 1
  BY FitsFacts, HeadTailProperties
<1>3. Head(f.tx).code \in {"UNLOCK", "SETVR"} /\ (Head(f.tx).code = "SETVR" => Head(f.tx).num = f.vs)
  BY <1>1, <1>2 DEF AtStart, ControlOnly
<1>4. b = arr /\ (w = vr \/ w = f.vs)
  BY <1>3 DEF Hears
<1>5. AtStart(g, w, d)
  <2>1. Len(g.tx) = 0 /\ 1 .. 0 = {} /\ 0 <= 1
    <3>1. Len(f.tx) <= 1
      BY <1>1 DEF AtStart
    <3>2. Len(f.tx) = 1
      <4> DEFINE n == Len(f.tx)
      <4>1. n \in Nat /\ 1 \in 1 .. n /\ n <= 1
        BY <1>2, <3>1
      <4> HIDE DEF n
      <4>2. n = 1
        BY <4>1
      <4> QED BY <4>2 DEF n
    <3>3. Len(g.tx) = 0
      BY <1>2, <3>2
    <3> QED BY <3>3
  <2> QED BY <1>1, <1>4, <2>1 DEF AtStart, ControlOnly
<1>6. Begins(g) /\ ~ Serves(g) /\ ~ Ended(g)
  BY DEF Begins, Serves, Ended
<1>7. Agreed(g, w, d, s, acc, b)
  BY <1>1, <1>4, <1>5, <1>6 DEF Agreed
<1> QED BY <1>4, <1>7, ArrivesNothing

(* What the head of the tx queue can be. *)
LEMMA HeadOfTx ==
    ASSUME NEW f, Fits(f), f.tx # <<>>, NEW R \in Int, NEW V \in Int, NEW B,
           R <= V, V - R <= f.wnd, Up(f.tx, f.wnd, V, R, B)
    PROVE  /\ Up(Tail(f.tx), f.wnd, V, R, B)
           /\ Head(f.tx).code = "AD" /\ Head(f.tx).num = Num(R) =>
                 R < V /\ Up(Tail(f.tx), f.wnd, V, R + 1, B) /\ Head(f.tx).sdu = B.sdu[R]
           /\ Head(f.tx).code \in {"AD", "UNLOCK", "SETVR"}
           /\ Head(f.tx).code = "SETVR" => Head(f.tx).num = Num(R)
<1> DEFINE t == f.tx
           w == f.wnd
<1>1. t \in Seq(Frame) /\ t # <<>> /\ w \in 1 .. SeqMod - 1 /\ Up(t, w, V, R, B) /\ V - R <= w
  BY FitsFacts
<1> HIDE DEF t, w
<1>2. w \in Int /\ w < SeqMod
  BY <1>1, SeqModAssumption
<1>3. /\ Up(Tail(t), w, V, R, B)
      /\ Head(t).code = "AD" /\ Head(t).num = Num(R) =>
            R < V /\ Up(Tail(t), w, V, R + 1, B) /\ Head(t).sdu = B.sdu[R]
      /\ Head(t).code \in {"AD", "UNLOCK", "SETVR"}
      /\ Head(t).code = "SETVR" => Head(t).num = Num(R)
  BY <1>1, <1>2, UpTail, ZenonT(60)
<1> QED BY <1>3 DEF t, w

(* To a receiver whose sender has left its service. *)
LEMMA UplinkEnded ==
    ASSUME NEW f, Sound(f), f.tx # <<>>, NEW vr, NEW d \in Seq(Clcw), NEW s, NEW acc, NEW arr,
           Agreed(f, vr, d, s, acc, arr), Ended(f), ~ Serves(f), ~ Begins(f),
           NEW w, NEW b, Hears(f, vr, arr, w, b),
           NEW g, g.state = f.state, g.ss = f.ss, g.sent = f.sent, g.wnd = f.wnd, g.wait = f.wait,
           g.tx = Tail(f.tx)
    PROVE  Agreed(g, w, d, s, acc, b) /\ Arrives(f, g, acc, arr, b)
<1> DEFINE fr == Head(f.tx)
<1>1. Fits(f) /\ s # 0 /\ Accounted(acc, arr) /\ Leftover(f, vr, acc, arr)
  BY DEF Sound, Agreed, Fresh
<1>2. f.sent = <<>> /\ f.wait = <<>>
  BY DEF Sound, Matched, Ended
<1>3. \A a : Owed(f, a) = <<>> /\ Owed(g, a) = <<>>
  BY <1>2, EmptyOwesNothing
<1>4. Ended(g) /\ ~ Serves(g) /\ ~ Begins(g)
  BY DEF Begins, Serves, Ended
<1>5. /\ f.tx \in Seq(Frame) /\ Len(f.tx) \in Nat /\ 1 \in 1 .. Len(f.tx) /\ fr = f.tx[1]
      /\ Len(g.tx) = Len(f.tx) - 1 /\ \A i \in 1 .. Len(g.tx) : g.tx[i] = f.tx[i + 1]
  BY <1>1, FitsFacts, HeadTailProperties
<1> HIDE DEF fr
<1>6. CASE ControlOnly(f.tx)
  <2>1. fr.code \in {"UNLOCK", "SETVR"}
    BY <1>5, <1>6 DEF ControlOnly
  <2>2. b = arr
    BY <2>1 DEF Hears, fr
  <2>3. ControlOnly(g.tx)
    <3>1. \A i \in 1 .. Len(g.tx) : i + 1 \in 1 .. Len(f.tx)
      BY <1>5
    <3> QED BY <1>5, <1>6, <3>1 DEF ControlOnly
  <2>4. Agreed(g, w, d, s, acc, b)
    BY <1>1, <1>4, <2>2, <2>3 DEF Agreed, Leftover
  <2> QED BY <2>2, <2>4, ArrivesNothing
<1>7. CASE ~ ControlOnly(f.tx)
  <2>1. PICK R \in Int, V \in Int :
                \E B : /\ vr = Num(R) /\ R <= V /\ V - R <= f.wnd
                      /\ Up(f.tx, f.wnd, V, R, B) /\ Rising(B, R, V, acc, arr)
    BY <1>1, <1>7 DEF Leftover
  <2>2. PICK B : /\ vr = Num(R) /\ R <= V /\ V - R <= f.wnd
                 /\ Up(f.tx, f.wnd, V, R, B) /\ Rising(B, R, V, acc, arr)
    BY <2>1
  <2>3. f.wnd \in Int
    BY <1>1, FitsFacts
  <2>4. /\ Up(g.tx, f.wnd, V, R, B)
        /\ fr.code = "AD" /\ fr.num = Num(R) =>
              R < V /\ Up(g.tx, f.wnd, V, R + 1, B) /\ fr.sdu = B.sdu[R]
        /\ fr.code \in {"AD", "UNLOCK", "SETVR"}
        /\ fr.code = "SETVR" => fr.num = Num(R)
    BY <1>1, <2>2, HeadOfTx DEF fr
  <2>5. CASE w = vr /\ b = arr
    <3>1. Leftover(g, w, acc, b)
      BY <2>2, <2>4, <2>5 DEF Leftover
    <3>2. Agreed(g, w, d, s, acc, b)
      BY <1>1, <1>4, <2>5, <3>1 DEF Agreed
    <3> QED BY <2>5, <3>2, ArrivesNothing
  <2>6. CASE fr.code = "AD" /\ fr.num = vr /\ w = Inc(vr) /\ b = Append(arr, fr.sdu)
    <3> DEFINE e == B.sdu[R]
               S == R + 1
    <3>1. R < V /\ Up(g.tx, f.wnd, V, S, B) /\ fr.sdu = e
      BY <2>2, <2>4, <2>6
    <3>2. acc \in Nat /\ 1 .. acc \subseteq SDU /\ arr \in Seq(1 .. acc)
      BY <1>1 DEF Accounted
    <3>3. /\ b \in Seq(1 .. acc) /\ e \in 1 .. acc /\ b = Append(arr, e)
          /\ (\A i \in DOMAIN arr : arr[i] < e) /\ Rising(B, S, V, acc, b)
      BY <2>2, <2>6, <3>1, <3>2, RisingArrived
    <3> HIDE DEF e
    <3>4. w = Num(S)
      BY <2>2, <2>6, NumNext
    <3>5. S \in Int /\ S <= V /\ V - S <= f.wnd
      BY <2>2, <2>3, <3>1
    <3> HIDE DEF S
    <3>6. Leftover(g, w, acc, b)
      BY <3>1, <3>3, <3>4, <3>5 DEF Leftover
    <3>7. Accounted(acc, b)
      BY <3>2, <3>3 DEF Accounted
    <3>8. Agreed(g, w, d, s, acc, b)
      BY <1>1, <1>4, <3>6, <3>7 DEF Agreed
    <3> QED BY <1>3, <3>3, <3>8 DEF Arrives
  <2>7. (w = vr /\ b = arr) \/ (fr.code = "AD" /\ fr.num = vr /\ w = Inc(vr) /\ b = Append(arr, fr.sdu))
    BY <2>2, <2>4 DEF Hears, fr
  <2> QED BY <2>5, <2>6, <2>7
<1> QED BY <1>6, <1>7

(* To a receiver in service. *)
LEMMA UplinkServes ==
    ASSUME NEW f, Fits(f), f.tx # <<>>, NEW vr, NEW d \in Seq(Clcw), NEW s, NEW acc, NEW arr,
           Agreed(f, vr, d, s, acc, arr), Serves(f), ~ Begins(f), ~ Ended(f),
           NEW w, NEW b, Hears(f, vr, arr, w, b),
           NEW g, Fits(g), g.state = f.state, g.ss = f.ss, g.sent = f.sent, g.vs = f.vs,
           g.nnr = f.nnr, g.wnd = f.wnd, g.wait = f.wait, g.hdr = f.hdr, g.tx = Tail(f.tx)
    PROVE  Agreed(g, w, d, s, acc, b) /\ Arrives(f, g, acc, arr, b)
<1> DEFINE fr == Head(f.tx)
<1>1. s # 0 /\ Accounted(acc, arr)
  BY ServesStarted DEF Agreed
<1>2. acc \in Nat /\ 1 .. acc \subseteq SDU /\ arr \in Seq(1 .. acc)
  BY <1>1 DEF Accounted
<1>3. PICK N \in Int, R \in Int : \E B : InService(f, vr, d, N, R, B) /\ Booked(B, N, R, acc, arr)
  BY DEF Agreed
<1>4. PICK B : InService(f, vr, d, N, R, B) /\ Booked(B, N, R, acc, arr)
  BY <1>3
<1> DEFINE V == N + Len(f.sent)
<1>5. /\ Len(f.sent) \in Nat /\ V \in Int /\ R \in N .. V /\ f.wnd \in 1 .. SeqMod - 1
      /\ Len(f.sent) <= f.wnd /\ vr = Num(R) /\ Up(f.tx, f.wnd, V, R, B) /\ Down(d, N, R)
      /\ Run(f, N, B) /\ f.tx \in Seq(Frame) /\ Len(d) \in Nat
  BY <1>4, FitsFacts DEF InService, Run
<1>6. R <= V /\ V - R <= f.wnd /\ f.wnd \in Int /\ f.wnd < SeqMod
  <2>1. /\ Len(f.sent) \in Nat /\ R \in N .. N + Len(f.sent)
        /\ f.wnd \in 1 .. SeqMod - 1 /\ Len(f.sent) <= f.wnd
    BY <1>5
  <2>2. R <= N + Len(f.sent) /\ N + Len(f.sent) - R <= f.wnd
    BY <2>1, SeqModAssumption
  <2> QED BY <2>1, <2>2, SeqModAssumption, SMTT(30)
<1>7. Run(g, N, B)
  BY <1>5 DEF Run
<1>8. B.end \in Int /\ V <= B.end
  BY <1>5, BookEnd
<1>9. ~ Begins(g) /\ ~ Ended(g)
  BY DEF Begins, Ended
<1> HIDE DEF V, Num, fr
<1>10. /\ Up(g.tx, f.wnd, V, R, B)
       /\ fr.code = "AD" /\ fr.num = Num(R) =>
             R < V /\ Up(g.tx, f.wnd, V, R + 1, B) /\ fr.sdu = B.sdu[R]
       /\ fr.code \in {"AD", "UNLOCK", "SETVR"}
       /\ fr.code = "SETVR" => fr.num = Num(R)
  BY <1>5, <1>6, HeadOfTx, ZenonT(60) DEF fr
<1>11. CASE w = vr /\ b = arr
  <2>1. InService(g, w, d, N, R, B)
    BY <1>5, <1>7, <1>10, <1>11 DEF InService, V
  <2>2. Agreed(g, w, d, s, acc, b)
    BY <1>1, <1>4, <1>9, <1>11, <2>1 DEF Agreed
  <2> QED BY <1>11, <2>2, ArrivesNothing
<1>12. CASE fr.code = "AD" /\ fr.num = vr /\ w = Inc(vr) /\ b = Append(arr, fr.sdu)
  <2> DEFINE e == B.sdu[R]
             S == R + 1
  <2>1. R < V /\ Up(g.tx, f.wnd, V, S, B) /\ fr.sdu = e
    BY <1>5, <1>10, <1>12
  <2>2. S \in Int /\ S \in N .. V /\ R <= S /\ N <= R /\ R < B.end /\ S \in N .. B.end
        /\ R \in N .. B.end
    BY <1>5, <1>8, <2>1, SMTT(30)
  <2>3. b \in Seq(1 .. acc) /\ Booked(B, N, S, acc, b)
    BY <1>2, <1>4, <1>8, <1>12, <2>1, <2>2, BookedArrived
  <2>4. w = Num(S)
    BY <1>5, <1>12, NumNext
  <2>5. Owed(f, arr) = Remaining(B, R)
    <3>1. Run(f, N, B) /\ Booked(B, N, R, acc, arr) /\ R \in N .. B.end
      BY <1>4, <1>5, <2>2
    <3> QED BY <1>2, <3>1, OwedRun, ZenonT(60)
  <2>6. /\ Owed(f, arr) # <<>> /\ Head(Owed(f, arr)) = e
        /\ Tail(Owed(f, arr)) = Remaining(B, S)
    BY <1>8, <2>2, <2>5, RemainingNext
  <2> HIDE DEF S, e
  <2>7. Down(d, N, S)
    BY <1>5, <2>2, DownWider
  <2>8. InService(g, w, d, N, S, B)
    BY <1>7, <2>1, <2>2, <2>4, <2>7 DEF InService, V
  <2>9. Accounted(acc, b)
    BY <1>2, <2>3 DEF Accounted
  <2>10. Agreed(g, w, d, s, acc, b)
    BY <1>1, <1>9, <2>2, <2>3, <2>8, <2>9 DEF Agreed
  <2>11. Owed(g, b) = Remaining(B, S)
    BY <1>2, <1>7, <2>2, <2>3, OwedRun, ZenonT(60)
  <2> QED BY <1>12, <2>1, <2>6, <2>10, <2>11 DEF Arrives
<1>13. (w = vr /\ b = arr) \/ (fr.code = "AD" /\ fr.num = vr /\ w = Inc(vr) /\ b = Append(arr, fr.sdu))
  BY <1>5, <1>10 DEF Hears, fr
<1> QED BY <1>11, <1>12, <1>13

LEMMA UplinkAgreed ==
    ASSUME NEW f, Sound(f), f.tx # <<>>, NEW vr, NEW d \in Seq(Clcw), NEW s, NEW acc, NEW arr,
           Agreed(f, vr, d, s, acc, arr), NEW w, NEW b, Hears(f, vr, arr, w, b)
    PROVE  LET g == [f EXCEPT !.tx = Tail(@)]
           IN  /\ Agreed(g, w, d, s, acc, b) /\ Arrives(f, g, acc, arr, b)
               /\ Serves(g) = Serves(f)
<1> DEFINE x == Tail(f.tx)
           g == [f EXCEPT !.tx = x]
<1>1. f \in FopRecord /\ f.tx \in Seq(Frame) /\ Fits(f) /\ Len(f.tx) <= TxCap
  BY DEF Sound, Fits, FopRecord
<1>2. x \in Seq(Frame) /\ Len(x) = Len(f.tx) - 1 /\ Len(f.tx) \in Nat /\ Len(x) \in Nat
  BY <1>1, HeadTailProperties
<1>3. [f EXCEPT !.tx = Tail(@)] = g
  BY <1>1 DEF FopRecord
<1>4. Len(x) <= TxCap
  <2> HIDE DEF x
  <2> QED BY <1>1, <1>2, TxCapAssumption
<1> HIDE DEF x
<1>5. /\ g.state = f.state /\ g.ss = f.ss /\ g.sent = f.sent /\ g.vs = f.vs /\ g.nnr = f.nnr
      /\ g.wnd = f.wnd /\ g.wait = f.wait /\ g.hdr = f.hdr /\ g.tx = x /\ g \in FopRecord
  BY <1>1, <1>2 DEF FopRecord
<1> HIDE DEF g
<1>6. Fits(g)
  BY <1>1, <1>4, <1>5 DEF Fits
<1>7. f.state \in FopStates /\ f.ss \in 0 .. 4 /\ (f.ss # 0 => f.state = "INIT")
  BY <1>1 DEF FopRecord, Sound, Matched
<1>8. /\ Serves(f) \/ Begins(f) \/ Ended(f)
      /\ Serves(f) => ~ Begins(f) /\ ~ Ended(f)
      /\ Begins(f) => ~ Ended(f)
  <2>1. f.ss \in {0, 1, 2, 3, 4}
    BY <1>7
  <2> QED BY <1>7, <2>1 DEF Serves, Begins, Ended, FopStates, AdStates, OpenStates
<1>9. Serves(g) = Serves(f)
  BY <1>5 DEF Serves
<1>10. Agreed(g, w, d, s, acc, b) /\ Arrives(f, g, acc, arr, b)
  <2>1. CASE Serves(f)
    BY <1>1, <1>5, <1>6, <1>8, <2>1, UplinkServes DEF x
  <2>2. CASE ~ Serves(f) /\ Begins(f)
    BY <1>1, <1>5, <1>8, <2>2, UplinkBegins DEF x
  <2>3. CASE ~ Serves(f) /\ ~ Begins(f)
    BY <1>5, <1>8, <2>3, UplinkEnded DEF x
  <2> QED BY <2>1, <2>2, <2>3
<1> QED BY <1>3, <1>9, <1>10 DEF g

(* The receiver sends a control word. *)
LEMMA ReportAgreed ==
    ASSUME NEW f, NEW vr, NEW d \in Seq(Clcw), NEW s, NEW acc, NEW arr,
           Agreed(f, vr, d, s, acc, arr), NEW c \in Clcw, c.nr = vr
    PROVE  Agreed(f, vr, Append(d, c), s, acc, arr)
<1> DEFINE u == Append(d, c)
<1>1. /\ Len(d) \in Nat /\ Len(u) = Len(d) + 1 /\ u[Len(d) + 1] = c
      /\ \A i \in 1 .. Len(d) : u[i] = d[i]
  BY AppendProperties
<1>2. ASSUME NEW N \in Int, NEW R \in Int, NEW B, InService(f, vr, d, N, R, B)
      PROVE  InService(f, vr, u, N, R, B)
  <2>1. R \in N .. N + Len(f.sent) /\ c.nr = Num(R) /\ Down(d, N, R)
    BY <1>2 DEF InService
  <2>2. Down(u, N, R)
    BY <2>1, DownReport
  <2> HIDE DEF u
  <2> QED BY <1>2, <2>2 DEF InService
<1> HIDE DEF u
<1>3. ASSUME AtStart(f, vr, d) PROVE AtStart(f, vr, u)
  <2>1. ASSUME NEW i \in 1 .. Len(u), u[i].nr = f.vs
        PROVE  vr = f.vs /\ \A j \in i .. Len(u) : u[j].nr = f.vs
    <3>1. CASE i = Len(d) + 1
      <4>1. \A j \in i .. Len(u) : j = i
        BY <1>1, <3>1
      <4> QED BY <1>1, <2>1, <3>1, <4>1
    <3>2. CASE i # Len(d) + 1
      <4>1. i \in 1 .. Len(d)
        BY <1>1, <3>2
      <4>2. vr = f.vs /\ \A j \in i .. Len(d) : d[j].nr = f.vs
        BY <1>1, <1>3, <2>1, <4>1 DEF AtStart
      <4>3. \A j \in i .. Len(u) : j = Len(d) + 1 \/ (j \in i .. Len(d) /\ j \in 1 .. Len(d))
        BY <1>1, <4>1
      <4> QED BY <1>1, <4>2, <4>3
    <3> QED BY <3>1, <3>2
  <2> QED BY <1>3, <2>1 DEF AtStart
<1>4. Agreed(f, vr, u, s, acc, arr)
  BY <1>2, <1>3 DEF Agreed
<1> QED BY <1>4 DEF u

(* What a frame does to V(R) and to the receive queue. *)
LEMMA ReceivedVr ==
    ASSUME FarmTypeOK, NEW fr \in Frame, Receive(fr)
    PROVE  \/ farm'.vr = farm.vr /\ rx' = rx
           \/ /\ fr.code = "AD" /\ fr.num = farm.vr /\ farm'.vr = Inc(farm.vr)
              /\ rx' = Append(rx, fr.sdu)
           \/ fr.code = "SETVR" /\ farm'.vr = fr.num /\ rx' = rx
           \/ fr.code = "BD"
<1>1. farm \in FarmConfig
  BY DEF FarmTypeOK
<1>2. CASE fr.code = "AD" /\ FarmE1(fr)
  BY <1>1, <1>2 DEF FarmE1, FarmConfig
<1>3. CASE FarmE2(fr) \/ FarmE3(fr) \/ FarmE4(fr) \/ FarmE5(fr)
  BY <1>1, <1>3 DEF FarmE2, FarmE3, FarmE4, FarmE5, FarmConfig
<1>4. CASE fr.code = "BD"
  BY <1>4
<1>5. CASE FarmE7
  <2> DEFINE n == (farm.farmb + 1) % 4
             f == [farm EXCEPT !.farmb = n, !.retransmit = FALSE]
  <2>1. f.vr = farm.vr /\ DOMAIN f = DOMAIN farm /\ f = [k \in DOMAIN f |-> f[k]]
    BY <1>1 DEF FarmConfig
  <2>2. /\ [f EXCEPT !.wait = FALSE, !.state = "OPEN"].vr = f.vr
        /\ [f EXCEPT !.wait = FALSE, !.lockout = FALSE, !.state = "OPEN"].vr = f.vr
    BY <1>1, <2>1 DEF FarmConfig
  <2>3. farm.state \in {"OPEN", "WAIT", "LOCKOUT"}
    BY <1>1 DEF FarmConfig
  <2>4. [CountB(farm) EXCEPT !.retransmit = FALSE] = f
    BY <1>1 DEF CountB, FarmConfig
  <2> HIDE DEF f
  <2> QED BY <1>5, <2>1, <2>2, <2>3, <2>4 DEF FarmE7
<1>6. CASE fr.code = "SETVR" /\ FarmE8(fr)
  <2> DEFINE n == (farm.farmb + 1) % 4
             f == [farm EXCEPT !.farmb = n, !.vr = fr.num, !.retransmit = FALSE]
  <2>1. f.vr = fr.num /\ DOMAIN f = DOMAIN farm /\ f = [k \in DOMAIN f |-> f[k]]
    BY <1>1 DEF FarmConfig
  <2>2. [f EXCEPT !.wait = FALSE, !.state = "OPEN"].vr = f.vr /\ CountB(farm).vr = farm.vr
    BY <1>1, <2>1 DEF FarmConfig, CountB
  <2>3. farm.state \in {"OPEN", "WAIT", "LOCKOUT"}
    BY <1>1 DEF FarmConfig
  <2>4. [CountB(farm) EXCEPT !.vr = fr.num, !.retransmit = FALSE] = f
    BY <1>1 DEF CountB, FarmConfig
  <2> HIDE DEF f
  <2> QED BY <1>6, <2>1, <2>2, <2>3, <2>4 DEF FarmE8
<1> QED BY <1>2, <1>3, <1>4, <1>5, <1>6 DEF Receive

-----------------------------------------------------------------------------
(* The directives. *)

(* The sender resumes or terminates the service. *)
LEMMA ManageAgreed ==
    ASSUME Sound(fop), Sound(fop'), NEW vr, NEW d, NEW s, NEW acc, NEW arr,
           Agreed(fop, vr, d, s, acc, arr), ErrorEnds(fop'), Manage
    PROVE  Agreed(fop', vr, d, s, acc, arr) /\ Keeps(fop, fop', arr)
<1>1. fop \in FopRecord /\ fop.ss \in 0 .. 4 /\ fop.state \in FopStates
  BY DEF Sound, Fits, FopRecord
<1>5. Fits(fop) /\ Fits(fop') /\ Accounted(acc, arr)
  BY DEF Sound, Agreed
<1>2. CASE TerminateAd /\ fop.state = "INIT"
  <2>1. fop' = Say(fop, "POSITIVE_DIR")
    BY <1>2 DEF TerminateAd
  <2>2. Rests(fop, fop')
    BY <1>1, <2>1 DEF Rests, Say, FopRecord
  <2> QED BY <2>2, RestsAgreed
<1>3. CASE TerminateAd /\ fop.state # "INIT"
  <2>1. fop' = Alert(fop, "POSITIVE_DIR") /\ fop.ss = 0
    BY <1>3 DEF TerminateAd, Sound, Matched
  <2>2. CASE fop.state \in AdStates
    <3>1. Open(fop)
      BY <2>2 DEF Open
    <3>2. ASSUME NEW N \in Int, NEW B, Run(fop, N, B)
          PROVE  Outcome(fop, fop', N, N + Len(fop.sent), B)
      BY <1>5, <2>1, <3>2, AlertLeft DEF Outcome
    <3> QED BY <1>5, <3>1, <3>2, ServingAgreed
  <2>3. CASE fop.state \notin AdStates
    <3>1. Begins(fop)
      BY <1>1, <1>3, <2>3 DEF Begins, FopStates
    <3>2. s # 0 /\ ControlOnly(fop.tx)
      BY <3>1, ServesStarted DEF Agreed, AtStart
    <3>3. fop'.state = "INIT" /\ fop'.ss = 0 /\ fop'.tx = fop.tx
      BY <1>1, <2>1, AlertLeaves
    <3> QED BY <1>5, <3>2, <3>3, BeginsLeft
  <2> QED BY <2>2, <2>3
<1>4. CASE ResumeAd
  <2> DEFINE q == Resumed[fop.ss]
             g == [fop EXCEPT !.armed = TRUE, !.ss = 0, !.state = q, !.signal = "POSITIVE_DIR"]
  <2>1. fop' = g /\ fop.ss \in 1 .. 4 /\ fop.state = "INIT"
    BY <1>1, <1>4 DEF ResumeAd, Start, FopRecord
  <2>2. /\ fop.ss \in 1 .. 3 => q \in AdStates
        /\ fop.ss = 4 => q = "INIT_NO_BC"
    BY <2>1 DEF Resumed, AdStates, OpenStates
  <2> HIDE DEF q
  <2>3. /\ g.sent = fop.sent /\ g.vs = fop.vs /\ g.nnr = fop.nnr /\ g.wnd = fop.wnd
        /\ g.tx = fop.tx /\ g.wait = fop.wait /\ g.hdr = fop.hdr /\ g.state = q /\ g.ss = 0
    BY <1>1 DEF FopRecord
  <2> HIDE DEF g
  <2>4. CASE fop.ss \in 1 .. 3
    <3>1. Serves(fop)
      BY <2>4 DEF Serves
    <3>2. PICK N \in Int, R \in Int :
                  \E B : InService(fop, vr, d, N, R, B) /\ Booked(B, N, R, acc, arr)
      BY <3>1 DEF Agreed
    <3>3. PICK B : InService(fop, vr, d, N, R, B) /\ Booked(B, N, R, acc, arr)
      BY <3>2
    <3>4. InService(g, vr, d, N, R, B)
      BY <2>3, <3>3 DEF InService, Run
    <3>5. ~ Begins(g) /\ ~ Ended(g)
      BY <2>2, <2>3, <2>4 DEF Begins, Ended, AdStates, OpenStates
    <3>6. s # 0
      BY <3>1, ServesStarted
    <3>7. Agreed(g, vr, d, s, acc, arr)
      BY <1>5, <3>3, <3>4, <3>5, <3>6 DEF Agreed
    <3>8. Keeps(fop, g, arr)
      BY <2>3, <3>1 DEF Keeps, Owed, Held
    <3> QED BY <2>1, <3>7, <3>8 DEF g
  <2>5. CASE fop.ss = 4
    <3>1. Begins(fop)
      BY <2>5 DEF Begins
    <3>2. s # 0 /\ AtStart(fop, vr, d)
      BY <3>1, ServesStarted DEF Agreed
    <3>3. g.state \notin AdStates /\ Begins(g) /\ ControlOnly(g.sent)
      BY <2>2, <2>3, <2>5, <3>2 DEF AdStates, OpenStates, Begins, AtStart
    <3>4. Agreed(g, vr, d, s, acc, arr) /\ Keeps(fop, g, arr)
      BY <1>5, <2>3, <3>2, <3>3, BeginsAgreed
    <3> QED BY <2>1, <3>4 DEF g
  <2> QED BY <2>1, <2>4, <2>5
<1> QED BY <1>2, <1>3, <1>4 DEF Manage

(* What osdlp_initialize_cop leaves alone. *)
LEMMA InitializeCopKeeps ==
    ASSUME NEW f, f \in FopRecord
    PROVE  LET g == InitializeCop(f) IN g.vs = f.vs /\ g.nnr = f.nnr
BY DEF InitializeCop, FopRecord

(* A directive that sends a control frame on a quiet channel. *)
LEMMA ControlFrameStarts ==
    ASSUME NEW f, Fits(f), f.ss = 0, f.sent = <<>>, f.wait = <<>>, f.tx = <<>>,
           NEW code \in {"UNLOCK", "SETVR"}, NEW vr, NEW s, s # 0,
           NEW acc, NEW arr, Accounted(acc, arr)
    PROVE  Agreed(TransmitTypeBc(f, code), vr, <<>>, s, acc, arr) /\ ~ Serves(TransmitTypeBc(f, code))
<1> DEFINE it == [type |-> "B", seq |-> f.vs, rt |-> FALSE, code |-> code, sdu |-> NoSDU]
           fr == FrameOf(it)
           g == [f EXCEPT !.hdr = code, !.txCnt = 1, !.armed = TRUE]
           x == Append(f.tx, fr)
           y == Append(f.sent, it)
           r == [g EXCEPT !.sent = y, !.tx = x, !.state = "INIT_BC", !.signal = "ACCEPT_DIR"]
<1>1. f \in FopRecord
  BY DEF Fits
<1>2. TransmitTypeBc(f, code) = r
  <2>1. ~ TxFull(f)
    BY TxCapAssumption DEF TxFull
  <2>2. g.sent = f.sent /\ g.tx = f.tx
    BY <1>1 DEF FopRecord
  <2>3. r = [g EXCEPT !.sent = Append(@, it), !.tx = Append(@, FrameOf(it)),
                      !.state = "INIT_BC", !.signal = "ACCEPT_DIR"]
    <3> HIDE DEF it
    <3> QED BY <1>1, <2>2 DEF FopRecord
  <2> QED BY <2>1, <2>3 DEF TransmitTypeBc
<1>3. it.code = code /\ fr.code = code /\ (code = "SETVR" => fr.num = f.vs)
  BY DEF FrameOf
<1>4. Len(x) = 1 /\ x[1] = fr
  <2> HIDE DEF fr
  <2> QED OBVIOUS
<1>8. Len(y) = 1 /\ y[1] = it
  <2> HIDE DEF it
  <2> QED OBVIOUS
<1> HIDE DEF x, y, fr, it
<1>5. r.tx = x /\ r.sent = y /\ r.state = "INIT_BC" /\ r.ss = 0 /\ r.vs = f.vs
  BY <1>1 DEF FopRecord
<1> HIDE DEF r
<1>6. AtStart(r, vr, <<>>)
  <2>1. \A i \in 1 .. Len(x) : i = 1
    BY <1>4
  <2>2. 1 .. Len(<<>>) = {}
    OBVIOUS
  <2>3. \A i \in 1 .. Len(x) : x[i].code = code /\ (code = "SETVR" => x[i].num = f.vs)
    BY <1>3, <1>4, <2>1
  <2>4. Len(r.tx) <= 1
    <3>1. Len(r.tx) = 1
      BY <1>4, <1>5
    <3> QED BY <3>1
  <2>5. ControlOnly(r.sent)
    <3>1. \A i \in 1 .. Len(y) : i = 1
      BY <1>8
    <3> QED BY <1>3, <1>5, <1>8, <3>1 DEF ControlOnly
  <2>6. ControlOnly(r.tx)
    BY <1>5, <2>3 DEF ControlOnly
  <2> QED BY <1>5, <2>2, <2>3, <2>4, <2>5, <2>6 DEF AtStart
<1>7. ~ Serves(r) /\ ~ Ended(r)
  BY <1>5 DEF Serves, Ended, AdStates, OpenStates
<1> QED BY <1>2, <1>6, <1>7 DEF Agreed

(* The initiating directives, on quiet channels. *)
LEMMA InitiateAgreed ==
    ASSUME CopSound, NEW vr, NEW acc, NEW arr, Agreed(fop, vr, down, starts, acc, arr), Initiate
    PROVE  Agreed(fop', vr, down', starts', acc, arr) /\ Keeps(fop, fop', arr)
<1> DEFINE f == InitializeCop(fop)
           s == starts'
<1>1. fop \in FopRecord /\ Fits(f) /\ f \in FopRecord /\ f.ss = 0 /\ f.sent = <<>> /\ f.wait = <<>>
      /\ f.tx = <<>> /\ f.vs = fop.vs /\ f.nnr = fop.nnr
  <2>1. Sound(fop) /\ fop \in FopRecord /\ fop.tx = <<>>
    BY DEF CopSound, Sound, Fits, Initiate, Quiet
  <2>2. Fits(f) /\ f.ss = 0 /\ f.sent = <<>> /\ f.wait = <<>> /\ f.tx = fop.tx
    BY <2>1, InitializeCopPurges
  <2>3. f.vs = fop.vs /\ f.nnr = fop.nnr
    BY <2>1, InitializeCopKeeps
  <2> HIDE DEF f
  <2> QED BY <2>1, <2>2, <2>3 DEF Fits
<1>2. down' = <<>> /\ down = <<>> /\ s # 0 /\ s = starts + 1 /\ starts \in Nat
  <2>1. starts \in Nat
    BY MaxStartsAssumption DEF CopSound
  <2> QED BY <2>1 DEF Initiate, Quiet
<1>9. Accounted(acc, arr)
  BY DEF Agreed
<1> HIDE DEF f, s
<1>3. ASSUME fop.state # "INIT", fop' = Say(fop, "REJECT_DIR") 
      PROVE  Agreed(fop', vr, <<>>, s, acc, arr) /\ Keeps(fop, fop', arr)
  <2>1. Rests(fop, fop')
    BY <1>1, <1>3 DEF Rests, Say, FopRecord
  <2>2. starts # 0
    BY <1>3 DEF Agreed, Fresh
  <2>3. Agreed(fop, vr, <<>>, s, acc, arr)
    BY <1>2, <2>2 DEF Agreed
  <2> QED BY <2>1, <2>3, RestsAgreed
<1>4. 1 .. Len(<<>>) = {} /\ Len(<<>>) = 0 /\ <<>> \in Seq(Clcw)
  OBVIOUS
<1>5. CASE starts = 0 /\ InitiateNoClcw
  <2> DEFINE g == [f EXCEPT !.state = "ACTIVE", !.signal = "POSITIVE_DIR"]
  <2>1. Fresh(fop, vr)
    BY <1>5 DEF Agreed
  <2>2. fop' = g
    BY <1>5, <2>1 DEF InitiateNoClcw, Fresh, f
  <2>3. /\ g.state = "ACTIVE" /\ g.ss = 0 /\ g.sent = <<>> /\ g.wait = <<>> /\ g.tx = <<>>
        /\ g.vs = 0 /\ g.nnr = 0
    BY <1>1, <2>1 DEF FopRecord, Fresh
  <2>4. g \in FopRecord
    BY <1>1, ZenonT(60) DEF FopRecord, FopStates, AdStates, OpenStates, Signals
  <2> HIDE DEF g
  <2>5. Fits(g)
    BY <1>4, <2>3, <2>4, SentCapAssumption, TxCapAssumption DEF Fits
  <2>6. AtStart(g, vr, <<>>) /\ vr = g.vs
    <3>1. 0 <= 1
      OBVIOUS
    <3> QED BY <1>4, <2>1, <2>3, <3>1 DEF AtStart, ControlOnly, Fresh
  <2>7. \E N, R \in Int : \E B : InService(g, vr, <<>>, N, R, B) /\ Booked(B, N, R, acc, arr)
    BY <1>4, <2>3, <2>5, <2>6, FirstRun
  <2>8. ~ Begins(g) /\ ~ Ended(g)
    BY <2>3 DEF Begins, Ended
  <2>9. ~ Serves(fop)
    BY <2>1 DEF Fresh, Serves, AdStates, OpenStates
  <2>10. Keeps(fop, g, arr)
    BY <2>3, <2>9 DEF Keeps
  <2>11. Agreed(g, vr, <<>>, s, acc, arr)
    BY <1>2, <1>9, <2>7, <2>8 DEF Agreed
  <2> QED BY <1>2, <2>2, <2>10, <2>11 DEF s
<1>6. CASE InitiateWithClcw
  <2> DEFINE g == [f EXCEPT !.armed = TRUE, !.state = "INIT_NO_BC", !.signal = "ACCEPT_DIR"]
  <2>1. IF fop.state = "INIT" THEN fop' = g ELSE fop' = Say(fop, "REJECT_DIR")
    <3>1. [Start(f) EXCEPT !.state = "INIT_NO_BC", !.signal = "ACCEPT_DIR"] = g
      BY <1>1 DEF Start, FopRecord
    <3> HIDE DEF g
    <3> QED BY <1>6, <3>1 DEF InitiateWithClcw, f
  <2>2. g.state = "INIT_NO_BC" /\ g.ss = 0 /\ g.tx = <<>> /\ g.sent = <<>>
    BY <1>1 DEF FopRecord
  <2> HIDE DEF g
  <2>3. AtStart(g, vr, <<>>)
    <3>1. 0 <= 1
      OBVIOUS
    <3> QED BY <1>4, <2>2, <3>1 DEF AtStart, ControlOnly
  <2>4. ~ Serves(g) /\ ~ Ended(g)
    BY <2>2 DEF Serves, Ended, AdStates, OpenStates
  <2>5. Agreed(g, vr, <<>>, s, acc, arr) /\ Keeps(fop, g, arr)
    BY <1>2, <1>9, <2>3, <2>4 DEF Agreed, Keeps
  <2> QED BY <1>2, <1>3, <2>1, <2>5 DEF s
<1>7. CASE InitiateWithUnlock
  <2>1. fop' = TransmitTypeBc(f, "UNLOCK")
    BY <1>7 DEF InitiateWithUnlock, f
  <2>2. Agreed(fop', vr, <<>>, s, acc, arr) /\ Keeps(fop, fop', arr)
    BY <1>1, <1>2, <1>9, <2>1, ControlFrameStarts DEF Keeps
  <2> QED BY <1>2, <2>2 DEF s
<1>8. CASE \E v \in NewVrs : InitiateWithSetvr(v)
  <2>1. PICK v \in NewVrs : InitiateWithSetvr(v)
    BY <1>8
  <2> DEFINE h == [f EXCEPT !.vs = v, !.nnr = v]
  <2>2. fop' = TransmitTypeBc(h, "SETVR")
    BY <2>1 DEF InitiateWithSetvr, f
  <2>3. v \in SeqNum
    BY NewVrsAssumption
  <2>4. /\ h \in FopRecord /\ h.ss = 0 /\ h.sent = <<>> /\ h.wait = <<>> /\ h.tx = <<>>
    BY <1>1, <2>3 DEF FopRecord
  <2> HIDE DEF h
  <2>5. Fits(h)
    BY <1>4, <2>4, SentCapAssumption, TxCapAssumption DEF Fits
  <2>6. Agreed(fop', vr, <<>>, s, acc, arr) /\ Keeps(fop, fop', arr)
    BY <1>2, <1>9, <2>2, <2>4, <2>5, ControlFrameStarts DEF Keeps
  <2> QED BY <1>2, <2>6 DEF s
<1> QED BY <1>5, <1>6, <1>7, <1>8 DEF Initiate

-----------------------------------------------------------------------------
(* The theorems. *)

AgreedNow == Agreed(fop, farm.vr, down, starts, accepted, Arrived)

(* Before the first start. *)
LEMMA AgreedInit == CopInit => AgreedNow
<1> SUFFICES ASSUME CopInit PROVE AgreedNow
  OBVIOUS
<1>1. Fresh(fop, farm.vr) /\ fop.tx = <<>> /\ accepted = 0
  BY DEF CopInit, FopInit, FarmInit, Fresh
<1>2. Arrived = <<>>
  BY DEF CopInit, FarmInit, Arrived
<1>3. Accounted(accepted, Arrived)
  BY <1>1, <1>2 DEF Accounted
<1>4. ControlOnly(fop.tx)
  BY <1>1 DEF ControlOnly
<1> QED BY <1>1, <1>3, <1>4 DEF AgreedNow, Agreed, Fresh, Serves, Begins, Leftover, AdStates, OpenStates

(* What a step of the whole is to the two applications. *)
Rest == accepted' = accepted /\ Arrived' = Arrived /\ Keeps(fop, fop', Arrived)

Accepts ==
    /\ accepted + 1 \in SDU /\ accepted' = accepted + 1 /\ Arrived' = Arrived
    /\ Serves(fop) /\ Serves(fop')
    /\ Owed(fop', Arrived) = Append(Owed(fop, Arrived), accepted + 1)

Moves ==
    /\ accepted' = accepted /\ Serves(fop') = Serves(fop)
    /\ Arrives(fop, fop', accepted, Arrived, Arrived')

(* A step that takes nothing from the channels to the receiver. *)
LEMMA SenderStep ==
    ASSUME CopSound, AgreedNow, ErrorEnds(fop'), UNCHANGED farmVars, UNCHANGED taken,
           Agreed(fop', farm.vr, down', starts', accepted, Arrived), accepted' = accepted,
           Keeps(fop, fop', Arrived)
    PROVE  AgreedNow' /\ Rest
<1>1. farm' = farm /\ Arrived' = Arrived
  BY DEF farmVars, Arrived
<1> QED BY <1>1 DEF AgreedNow, Rest

(* The application takes what is in the queue; nothing arrives by it. *)
LEMMA TakeArrives ==
    ASSUME NEW S, NEW t \in Seq(S), NEW q \in Seq(S), NEW n \in 1 .. Len(q)
    PROVE  (t \o SubSeq(q, 1, n)) \o SubSeq(q, n + 1, Len(q)) = t \o q
<1> DEFINE a == SubSeq(q, 1, n)
           b == SubSeq(q, n + 1, Len(q))
           l == Len(q)
           k == Len(t)
<1>1. l \in Nat /\ k \in Nat /\ n \in 1 .. l /\ DOMAIN q = 1 .. l /\ DOMAIN t = 1 .. k
  OBVIOUS
<1>2. a \in Seq(S) /\ Len(a) = n /\ \A i \in 1 .. n : a[i] = q[i]
  OBVIOUS
<1>3. b \in Seq(S) /\ Len(b) = l - n /\ \A i \in 1 .. l - n : b[i] = q[n + i]
  OBVIOUS
<1> HIDE DEF a, b
<1> DEFINE m == t \o a
           x == m \o b
           y == t \o q
<1>4. m \in Seq(S) /\ Len(m) = k + n /\ \A i \in 1 .. k + n : m[i] = IF i <= k THEN t[i] ELSE q[i - k]
  <2>1. m \in Seq(S) /\ Len(m) = k + Len(a)
        /\ \A i \in 1 .. k + Len(a) : m[i] = IF i <= k THEN t[i] ELSE a[i - k]
    BY <1>2, ConcatProperties
  <2> HIDE DEF m, k, l
  <2>2. \A i \in 1 .. k + n : ~ (i <= k) => a[i - k] = q[i - k]
    BY <1>1, <1>2
  <2> QED BY <1>2, <2>1, <2>2
<1>5. x \in Seq(S) /\ Len(x) = k + l /\ \A i \in 1 .. k + l : x[i] = IF i <= k THEN t[i] ELSE q[i - k]
  <2> HIDE DEF m
  <2>1. x \in Seq(S) /\ Len(x) = Len(m) + Len(b)
        /\ \A i \in 1 .. Len(m) + Len(b) : x[i] = IF i <= Len(m) THEN m[i] ELSE b[i - Len(m)]
    BY <1>3, <1>4, ConcatProperties
  <2> HIDE DEF x, k, l
  <2>2. Len(x) = k + l /\ \A i \in 1 .. k + l : x[i] = IF i <= k + n THEN m[i] ELSE b[i - (k + n)]
    BY <1>1, <1>3, <1>4, <2>1
  <2>3. ASSUME NEW i \in 1 .. k + l PROVE x[i] = IF i <= k THEN t[i] ELSE q[i - k]
    <3>1. CASE i <= k + n
      BY <1>1, <1>4, <2>2, <3>1
    <3>2. CASE ~ (i <= k + n)
      <4>1. i - (k + n) \in 1 .. l - n /\ n + (i - (k + n)) = i - k /\ ~ (i <= k)
        BY <1>1, <3>2
      <4> QED BY <1>3, <2>2, <3>2, <4>1
    <3> QED BY <3>1, <3>2
  <2> QED BY <2>1, <2>2, <2>3
<1>6. y \in Seq(S) /\ Len(y) = k + l /\ \A i \in 1 .. k + l : y[i] = IF i <= k THEN t[i] ELSE q[i - k]
  BY ConcatProperties
<1> HIDE DEF x, y, k, l
<1>7. DOMAIN x = 1 .. k + l /\ DOMAIN y = 1 .. k + l /\ \A i \in 1 .. k + l : x[i] = y[i]
  BY <1>5, <1>6
<1>8. x = [i \in DOMAIN x |-> x[i]] /\ y = [i \in DOMAIN y |-> y[i]]
  BY <1>5, <1>6
<1>9. x = y
  BY <1>7, <1>8
<1> QED BY <1>9 DEF x, y, m, a, b

(* What is appended to the queue is appended to what has arrived. *)
LEMMA AppendArrives ==
    ASSUME NEW S, NEW t \in Seq(S), NEW q \in Seq(S), NEW e
    PROVE  t \o Append(q, e) = Append(t \o q, e)
OBVIOUS

(* The receiver hears the frame, or it is lost. *)
LEMMA HearsFrame ==
    ASSUME CopSound, HearFrame \/ LoseFrame
    PROVE  /\ fop.tx # <<>> /\ fop' = [fop EXCEPT !.tx = Tail(@)]
           /\ Hears(fop, farm.vr, Arrived, farm'.vr, Arrived')
<1>1. /\ fop.tx # <<>> /\ fop' = [fop EXCEPT !.tx = Tail(@)] /\ taken' = taken
  BY DEF HearFrame, LoseFrame, Uplink
<1>2. FarmTypeOK /\ rx \in Seq(SDU) /\ taken \in Seq(SDU) /\ fop.tx \in Seq(Frame)
  BY DEF CopSound, FarmTypeOK, Sound, Fits, FopRecord
<1>3. Head(fop.tx) \in Frame
  BY <1>1, <1>2, Popped
<1>4. CASE LoseFrame
  <2>1. farm' = farm /\ Arrived' = Arrived
    BY <1>1, <1>4 DEF LoseFrame, farmVars, Arrived
  <2> QED BY <1>1, <2>1 DEF Hears
<1>5. CASE HearFrame
  <2>1. Receive(Head(fop.tx))
    BY <1>5 DEF HearFrame
  <2>2. ASSUME rx' = rx PROVE Arrived' = Arrived
    BY <1>1, <2>2 DEF Arrived
  <2>3. ASSUME NEW e, rx' = Append(rx, e) PROVE Arrived' = Append(Arrived, e)
    <3>1. taken \o Append(rx, e) = Append(taken \o rx, e)
      BY <1>2, AppendArrives
    <3> QED BY <1>1, <2>3, <3>1 DEF Arrived
  <2> QED BY <1>1, <1>2, <1>3, <2>1, <2>2, <2>3, ReceivedVr DEF Hears
<1> QED BY <1>4, <1>5

(* Every step that ends the service with its error. *)
LEMMA AgreedStep ==
    ASSUME CopSound, CopSound', AgreedNow, [CopNext]_copVars, ErrorEnds(fop')
    PROVE  AgreedNow' /\ (Rest \/ Accepts \/ Moves)
<1>1. /\ Sound(fop) /\ Sound(fop') /\ down \in Seq(Clcw) /\ FarmTypeOK
      /\ Agreed(fop, farm.vr, down, starts, accepted, Arrived)
  BY DEF CopSound, AgreedNow
<1>2. farm \in FarmConfig /\ rx \in Seq(SDU) /\ taken \in Seq(SDU)
  BY DEF CopSound, FarmTypeOK
<1>3. CASE Offer
  <2>1. /\ accepted + 1 \in SDU /\ fop' = TransmitAd(fop, accepted + 1)
        /\ farm' = farm /\ down' = down /\ starts' = starts /\ Arrived' = Arrived
    BY <1>3 DEF Offer, RequestAd, farmVars, Arrived
  <2>2. CASE fop'.signal \in {"ACCEPT_TX", "DELAY_RESP"}
    <3>1. accepted' = accepted + 1
      BY <1>3, <2>2 DEF Offer
    <3>2. Accepts /\ Agreed(fop', farm.vr, down, starts, accepted + 1, Arrived)
      BY <1>1, <2>1, <2>2, <3>1, RequestAgreed DEF Accepts
    <3> QED BY <2>1, <3>1, <3>2 DEF AgreedNow
  <2>3. CASE fop'.signal \notin {"ACCEPT_TX", "DELAY_RESP"}
    <3>1. accepted' = accepted
      BY <1>3, <2>3 DEF Offer
    <3>2. Keeps(fop, fop', Arrived) /\ Agreed(fop', farm.vr, down, starts, accepted, Arrived)
      BY <1>1, <2>1, <2>3, RequestAgreed
    <3> QED BY <2>1, <3>1, <3>2 DEF AgreedNow, Rest
  <2> QED BY <2>2, <2>3
<1>4. CASE TakeClcw
  <2>1. /\ down # <<>> /\ fop' = OnClcw(fop, Head(down)) /\ down' = Tail(down)
        /\ UNCHANGED farmVars /\ UNCHANGED taken /\ starts' = starts /\ accepted' = accepted
    BY <1>4 DEF TakeClcw, HandleClcw
  <2>2. /\ Agreed(fop', farm.vr, down', starts', accepted, Arrived)
        /\ Keeps(fop, fop', Arrived)
    BY <1>1, <2>1, ClcwAgreed
  <2> QED BY <2>1, <2>2, SenderStep
<1>5. CASE Timer
  <2>1. /\ UNCHANGED farmVars /\ UNCHANGED taken /\ accepted' = accepted
        /\ down' = down /\ starts' = starts
    BY <1>5 DEF Timer
  <2>2. CASE Expire
    <3>1. Rests(fop, fop')
      BY <1>1, <2>2 DEF Expire, Cancel, Rests, Sound, Fits, FopRecord
    <3>2. /\ Agreed(fop', farm.vr, down, starts, accepted, Arrived)
          /\ Keeps(fop, fop', Arrived)
      BY <1>1, <3>1, RestsAgreed
    <3> QED BY <2>1, <3>2, SenderStep
  <2>3. CASE HandleTimerExpired
    <3>1. fop' = OnTimer(fop)
      BY <2>3 DEF HandleTimerExpired
    <3>2. /\ Agreed(fop', farm.vr, down, starts, accepted, Arrived)
          /\ Keeps(fop, fop', Arrived)
      BY <1>1, <3>1, TimerAgreed
    <3> QED BY <2>1, <3>2, SenderStep
  <2> QED BY <1>5, <2>2, <2>3 DEF Timer
<1>6. CASE Initiate
  <2>1. UNCHANGED farmVars /\ UNCHANGED taken /\ accepted' = accepted
    BY <1>6 DEF Initiate
  <2>2. /\ Agreed(fop', farm.vr, down', starts', accepted, Arrived)
        /\ Keeps(fop, fop', Arrived)
    BY <1>1, <1>6, InitiateAgreed
  <2> QED BY <2>1, <2>2, SenderStep
<1>7. CASE Manage
  <2>1. /\ UNCHANGED farmVars /\ UNCHANGED taken /\ accepted' = accepted
        /\ down' = down /\ starts' = starts
    BY <1>7 DEF Manage
  <2>2. /\ Agreed(fop', farm.vr, down, starts, accepted, Arrived)
        /\ Keeps(fop, fop', Arrived)
    BY <1>1, <1>7, ManageAgreed
  <2> QED BY <2>1, <2>2, SenderStep
<1>8. CASE HearFrame \/ LoseFrame
  <2>1. down' = down /\ accepted' = accepted /\ starts' = starts
    BY <1>8 DEF HearFrame, LoseFrame
  <2>2. /\ fop.tx # <<>> /\ fop' = [fop EXCEPT !.tx = Tail(@)]
        /\ Hears(fop, farm.vr, Arrived, farm'.vr, Arrived')
    BY <1>8, HearsFrame
  <2>3. /\ Agreed(fop', farm'.vr, down, starts, accepted, Arrived')
        /\ Arrives(fop, fop', accepted, Arrived, Arrived') /\ Serves(fop') = Serves(fop)
    BY <1>1, <2>2, UplinkAgreed
  <2> QED BY <2>1, <2>3 DEF AgreedNow, Moves
<1>9. CASE Report
  <2>1. /\ down' = Append(down, ClcwReport) /\ fop' = fop /\ starts' = starts
        /\ UNCHANGED farmVars /\ UNCHANGED taken /\ accepted' = accepted
    BY <1>9 DEF Report, fopVars
  <2>2. ClcwReport \in Clcw /\ ClcwReport.nr = farm.vr
    BY <1>2 DEF ClcwReport, Clcw, FarmConfig
  <2>3. Agreed(fop', farm.vr, down', starts', accepted, Arrived)
    BY <1>1, <2>1, <2>2, ReportAgreed
  <2> QED BY <2>1, <2>3, SenderStep DEF Keeps
<1>10. CASE LoseClcw
  <2>1. /\ down # <<>> /\ down' = Tail(down) /\ fop' = fop /\ starts' = starts
        /\ UNCHANGED farmVars /\ UNCHANGED taken /\ accepted' = accepted
    BY <1>10 DEF LoseClcw, fopVars
  <2>2. Agreed(fop', farm.vr, down', starts', accepted, Arrived)
    BY <1>1, <2>1, LosesReport
  <2> QED BY <2>1, <2>2, SenderStep DEF Keeps
<1>11. CASE (\E n \in 1 .. RxCap : Take(n)) \/ Release
  <2>1. fop' = fop /\ down' = down /\ starts' = starts /\ accepted' = accepted
    BY <1>11 DEF Take, Release, fopVars
  <2>2. farm'.vr = farm.vr
    BY <1>2, <1>11 DEF Take, Consume, Release, BufferRelease, ResetWait, FarmConfig
  <2>3. Arrived' = Arrived
    <3>1. CASE Release
      BY <3>1 DEF Release, BufferRelease, Arrived
    <3>2. ASSUME NEW n \in 1 .. RxCap, Take(n) PROVE Arrived' = Arrived
      <4>1. /\ n \in 1 .. Len(rx) /\ rx' = SubSeq(rx, n + 1, Len(rx))
            /\ taken' = taken \o SubSeq(rx, 1, n)
        BY <3>2 DEF Take, Consume
      <4> QED BY <1>2, <4>1, TakeArrives DEF Arrived
    <3> QED BY <1>11, <3>1, <3>2
  <2> QED BY <1>1, <2>1, <2>2, <2>3 DEF AgreedNow, Rest, Keeps
<1>12. CASE UNCHANGED copVars
  <2>1. /\ fop' = fop /\ farm' = farm /\ down' = down /\ starts' = starts
        /\ accepted' = accepted /\ Arrived' = Arrived
    BY <1>12 DEF copVars, Arrived
  <2> QED BY <1>1, <2>1 DEF AgreedNow, Rest, Keeps
<1> QED BY <1>3, <1>4, <1>5, <1>6, <1>7, <1>8, <1>9, <1>10, <1>11, <1>12 DEF CopNext

(* Such a step is one of the abstract service, or none. *)
LEMMA ServiceStep ==
    ASSUME CopSound, CopSound', AgreedNow, AgreedNow', Rest \/ Accepts \/ Moves
    PROVE  [Service!AdNext]_(Service!adVars)
<1>1. Serving = Serves(fop) /\ Serving' = Serves(fop')
  BY DEF Serving, Serves
<1>2. OwedSdus = Owed(fop, Arrived) /\ OwedSdus' = Owed(fop', Arrived')
  BY DEF OwedSdus
<1>3. ~ Serves(fop) => Owed(fop, Arrived) = <<>>
  BY OwedNone DEF CopSound, AgreedNow
<1>4. ~ Serves(fop') => Owed(fop', Arrived') = <<>>
  BY OwedNone DEF CopSound, AgreedNow
<1>5. CASE Rest
  <2>1. accepted' = accepted /\ Arrived' = Arrived
    BY <1>5 DEF Rest
  <2>2. CASE Serves(fop) /\ Serves(fop')
    <3>1. OwedSdus' = OwedSdus /\ Serving' = Serving
      BY <1>1, <1>2, <1>5, <2>1, <2>2 DEF Rest, Keeps
    <3> QED BY <2>1, <3>1 DEF Service!adVars
  <2>3. CASE ~ Serves(fop) /\ Serves(fop')
    <3>1. fop'.sent = <<>> /\ fop'.wait = <<>>
      BY <1>5, <2>3 DEF Rest, Keeps
    <3>2. OwedSdus' = <<>> /\ OwedSdus = <<>>
      BY <1>2, <1>3, <2>3, <3>1, EmptyOwesNothing
    <3>3. Service!Begin
      BY <1>1, <2>1, <2>3, <3>2 DEF Service!Begin, Serves
    <3> QED BY <3>3 DEF Service!AdNext
  <2>4. CASE Serves(fop) /\ ~ Serves(fop')
    <3>1. OwedSdus' = <<>>
      BY <1>2, <1>4, <2>4
    <3>2. Service!End
      BY <1>1, <2>1, <2>4, <3>1 DEF Service!End, Serves
    <3> QED BY <3>2 DEF Service!AdNext
  <2>5. CASE ~ Serves(fop) /\ ~ Serves(fop')
    <3>1. OwedSdus' = OwedSdus
      BY <1>2, <1>3, <1>4, <2>5
    <3>2. Serving' = Serving
      BY <2>5 DEF Serving, Serves
    <3> QED BY <2>1, <3>1, <3>2 DEF Service!adVars
  <2> QED BY <2>2, <2>3, <2>4, <2>5
<1>6. CASE Accepts
  <2>1. /\ accepted + 1 \in SDU /\ accepted' = accepted + 1 /\ Arrived' = Arrived
        /\ OwedSdus' = Append(OwedSdus, accepted + 1)
    BY <1>2, <1>6 DEF Accepts
  <2>2. Serving /\ Serving'
    BY <1>6 DEF Accepts, Serving, Serves
  <2>3. Service!Accept
    <3>1. Serving' = Serving
      BY <2>2 DEF Serving
    <3> QED BY <2>1, <2>2, <3>1 DEF Service!Accept
  <2> QED BY <2>3 DEF Service!AdNext
<1>7. CASE Moves
  <2>1. accepted' = accepted /\ Serving' = Serving
    BY <1>1, <1>7 DEF Moves
  <2>2. CASE Arrived' = Arrived /\ OwedSdus' = OwedSdus
    BY <2>1, <2>2 DEF Service!adVars
  <2>3. CASE /\ OwedSdus # <<>> /\ Arrived' = Append(Arrived, Head(OwedSdus))
             /\ OwedSdus' = Tail(OwedSdus)
    BY <2>1, <2>3 DEF Service!AdNext, Service!Deliver
  <2>4. CASE /\ OwedSdus = <<>> /\ OwedSdus' = <<>>
             /\ \E e \in 1 .. accepted :
                   Arrived' = Append(Arrived, e) /\ \A i \in DOMAIN Arrived : Arrived[i] < e
    <3>1. PICK e \in 1 .. accepted :
                  Arrived' = Append(Arrived, e) /\ \A i \in DOMAIN Arrived : Arrived[i] < e
      BY <2>4
    <3>2. Arrived \in Seq(1 .. accepted)
      BY DEF AgreedNow, Agreed, Accounted
    <3>3. e > Service!Latest
      <4>1. CASE Arrived = <<>>
        BY <4>1 DEF Service!Latest
      <4>2. CASE Arrived # <<>>
        <5>1. Len(Arrived) \in DOMAIN Arrived
          BY <3>2, <4>2
        <5>2. Arrived[Len(Arrived)] \in 1 .. accepted
          <6>1. \A S : Arrived \in Seq(S) => Arrived[Len(Arrived)] \in S
            BY <5>1
          <6> QED BY <3>2, <6>1
        <5>3. Arrived[Len(Arrived)] < e
          BY <3>1, <5>1
        <5> QED BY <4>2, <5>2, <5>3 DEF Service!Latest
      <4> QED BY <4>1, <4>2
    <3>4. DOMAIN OwedSdus = {}
      BY <2>4
    <3>5. e \in Service!Past
      BY <3>3, <3>4 DEF Service!Past
    <3>6. \A i \in DOMAIN OwedSdus : e < OwedSdus[i]
      BY <3>4
    <3>7. Service!DeliverPast
      BY <2>1, <2>4, <3>1, <3>5, <3>6 DEF Service!DeliverPast
    <3> QED BY <3>7 DEF Service!AdNext
  <2> QED BY <1>2, <1>7, <2>2, <2>3, <2>4 DEF Moves, Arrives
<1> QED BY <1>5, <1>6, <1>7

(* The distance of V(R) from V(S). *)
LEMMA AgreedWindow == CopSound /\ AgreedNow => NumbersAgree
<1> SUFFICES ASSUME CopSound, AgreedNow, Serving
             PROVE  (fop.vs - farm.vr) % SeqMod <= Len(fop.sent)
  BY DEF NumbersAgree
<1>1. Fits(fop) /\ Serves(fop)
  BY DEF CopSound, Sound, Serving, Serves
<1>2. \E N, R \in Int : \E B : InService(fop, farm.vr, down, N, R, B)
  BY <1>1 DEF AgreedNow, Agreed
<1>3. PICK N \in Int, R \in Int : \E B : InService(fop, farm.vr, down, N, R, B)
  BY <1>2
<1>4. PICK B : InService(fop, farm.vr, down, N, R, B)
  BY <1>3
<1> DEFINE n == Len(fop.sent)
           d == N + n - R
<1>5. /\ n \in Nat /\ n <= fop.wnd /\ fop.wnd \in 1 .. SeqMod - 1 /\ R \in N .. N + n
      /\ fop.vs = Num(N + n) /\ farm.vr = Num(R)
  BY <1>1, <1>4, FitsFacts DEF InService, Run
<1>6. d \in 0 .. SeqMod - 1 /\ d <= n /\ N + n = R + d
  <2> HIDE DEF n, Num
  <2> QED BY <1>5, SeqModAssumption
<1>7. (Num(R + d) - Num(R)) % SeqMod = d
  <2> HIDE DEF d
  <2> QED BY <1>6, NumDistance
<1> HIDE DEF d, Num, n
<1>8. (fop.vs - farm.vr) % SeqMod = d
  BY <1>5, <1>6, <1>7
<1> QED BY <1>6, <1>8 DEF n

(* A step of the whole, its error ending the service. *)
LEMMA AgreedNext ==
    CopSound /\ CopSound' /\ AgreedNow /\ ErrorEndsService' /\ [CopNext]_copVars
      => AgreedNow' /\ [Service!AdNext]_(Service!adVars)
<1>1. ErrorEndsService' => ErrorEnds(fop')
  BY DEF ErrorEndsService, ErrorEnds
<1> QED BY <1>1, AgreedStep, ServiceStep

(***************************************************************************)
(* As long as an error of the sender ends its service (ErrorEndsService,   *)
(* which a sent or tx queue that is too small for the window breaks), V(R) *)
(* stays between the oldest outstanding frame and V(S), whatever is lost,  *)
(* repeated or late, and for every modulus and window: an acknowledgement  *)
(* never means a frame the receiver has not got.                           *)
(***************************************************************************)
THEOREM WindowAgreed == CopSpec /\ []ErrorEndsService => []NumbersAgree
<1>1. CopInit => AgreedNow
  BY AgreedInit
<1>2. CopSound /\ CopSound' /\ AgreedNow /\ ErrorEndsService' /\ [CopNext]_copVars => AgreedNow'
  BY AgreedNext
<1>3. CopSound /\ AgreedNow => NumbersAgree
  BY AgreedWindow
<1> QED BY <1>1, <1>2, <1>3, CopSoundAlways, PTL DEF CopSpec

(***************************************************************************)
(* Under the same condition COP-1 implements AdService: every SDU that is  *)
(* accepted arrives in order and once as long as its service lives, and    *)
(* nothing a service that has ended still sends overtakes or repeats what  *)
(* another has delivered.                                                  *)
(***************************************************************************)
THEOREM ServiceImplemented == CopSpec /\ []ErrorEndsService => AdServiceKept
<1>1. CopInit => AgreedNow /\ Service!AdInit
  <2> SUFFICES ASSUME CopInit PROVE AgreedNow /\ Service!AdInit
    OBVIOUS
  <2>1. fop.sent = <<>> /\ fop.wait = <<>> /\ fop.state = "INIT" /\ fop.ss = 0 /\ accepted = 0
    BY DEF CopInit, FopInit
  <2>2. Arrived = <<>>
    BY DEF CopInit, FarmInit, Arrived
  <2>3. OwedSdus = <<>>
    BY <2>1, EmptyOwesNothing DEF OwedSdus
  <2>4. Serving = FALSE
    BY <2>1 DEF Serving, AdStates, OpenStates
  <2> QED BY <2>1, <2>2, <2>3, <2>4, AgreedInit DEF Service!AdInit
<1>2. CopSound /\ CopSound' /\ AgreedNow /\ ErrorEndsService' /\ [CopNext]_copVars
        => AgreedNow' /\ [Service!AdNext]_(Service!adVars)
  BY AgreedNext
<1> QED BY <1>1, <1>2, CopSoundAlways, PTL DEF CopSpec, AdServiceKept, Service!AdSpec
=============================================================================
