--------------------------- MODULE Cop1RoomProofs ---------------------------
(***************************************************************************)
(* With room for two windows in the tx queue no error of the sender leaves *)
(* its service open, so that COP-1 implements AdService without a further  *)
(* condition.  The argument counts the frames of the tx queue: none is     *)
(* there twice, and their numbers are within a window of the receiver's on *)
(* either side.                                                            *)
(***************************************************************************)
EXTENDS Cop1ServiceProofs

-----------------------------------------------------------------------------
(* What is queued, and how often. *)

(* No SDU is in a place twice; one that is to be sent, again or at all, is not in tx. *)
Distinct(f) ==
    /\ \A i, j \in 1 .. Len(f.sent) : i # j => f.sent[i].sdu # f.sent[j].sdu
    /\ \A i, j \in 1 .. Len(f.tx) :
          i # j /\ f.tx[i].code = "AD" /\ f.tx[j].code = "AD" => f.tx[i].sdu # f.tx[j].sdu
    /\ \A i \in Flagged(f), k \in 1 .. Len(f.tx) :
          f.tx[k].code = "AD" => f.tx[k].sdu # f.sent[i].sdu
    /\ f.wait # <<>> =>
          /\ \A i \in 1 .. Len(f.sent) : f.sent[i].sdu # f.wait[1]
          /\ \A k \in 1 .. Len(f.tx) : f.tx[k].code = "AD" => f.tx[k].sdu # f.wait[1]

(* All of them are accepted. *)
Known(f, acc) ==
    /\ \A i \in 1 .. Len(f.sent) : f.sent[i].sdu \in 1 .. acc
    /\ \A k \in 1 .. Len(f.tx) : f.tx[k].code = "AD" => f.tx[k].sdu \in 1 .. acc
    /\ f.wait # <<>> => f.wait[1] \in 1 .. acc

(* As long as the control frame of the start is in front, all else is new. *)
Led(t) == t # <<>> /\ t[1].code # "AD"

Lead(f, arr) ==
    Led(f.tx) =>
        /\ Flagged(f) = {} /\ Len(f.tx) <= 1 + Len(f.sent)
        /\ \A j \in DOMAIN arr :
              /\ \A i \in 1 .. Len(f.sent) : f.sent[i].sdu # arr[j]
              /\ f.wait # <<>> => f.wait[1] # arr[j]

Tidy(f, acc, arr) == Distinct(f) /\ Known(f, acc) /\ Lead(f, arr)

(* The signals of a service that has failed. *)
Failures == Alerts \cup {"UNDEF_ERROR"}

(* The queues as they are. *)
LEMMA TidySame ==
    ASSUME NEW f, NEW g, g.sent = f.sent, g.wait = f.wait, g.tx = f.tx,
           NEW acc, NEW arr, Tidy(f, acc, arr)
    PROVE  Tidy(g, acc, arr)
<1>1. Flagged(g) = Flagged(f)
  BY DEF Flagged
<1> QED BY <1>1 DEF Tidy, Distinct, Known, Lead

(* Empty queues, but for a control frame. *)
LEMMA TidyEmpty ==
    ASSUME NEW g, g.sent = <<>>, g.wait = <<>>, g.tx \in Seq(Frame), Len(g.tx) <= 1,
           ControlOnly(g.tx), NEW acc, NEW arr
    PROVE  Tidy(g, acc, arr)
<1>1. Len(g.sent) = 0 /\ 1 .. Len(g.sent) = {} /\ DOMAIN g.sent = {}
  OBVIOUS
<1>2. Flagged(g) = {}
  BY <1>1 DEF Flagged
<1>3. \A i \in 1 .. Len(g.tx) : g.tx[i].code # "AD"
  BY DEF ControlOnly
<1> QED BY <1>1, <1>2, <1>3 DEF Tidy, Distinct, Known, Lead

(* The same SDUs with other flags, and the tx queue is cleared. *)
LEMMA TidyCleared ==
    ASSUME NEW f, NEW g, Len(g.sent) = Len(f.sent),
           \A i \in 1 .. Len(f.sent) : g.sent[i].sdu = f.sent[i].sdu,
           g.wait = f.wait, g.tx = <<>>, NEW acc, NEW arr, Tidy(f, acc, arr)
    PROVE  Tidy(g, acc, arr)
<1>1. Len(g.tx) = 0 /\ 1 .. Len(g.tx) = {} /\ ~ Led(g.tx)
  BY DEF Led
<1> QED BY <1>1 DEF Tidy, Distinct, Known, Lead

(* The first frame is gone, the others are AD frames. *)
LEMMA TidyTail ==
    ASSUME NEW f, NEW g, g.sent = f.sent, g.wait = f.wait, f.tx \in Seq(Frame), f.tx # <<>>,
           g.tx = Tail(f.tx), \A i \in 2 .. Len(f.tx) : f.tx[i].code = "AD",
           NEW acc, NEW arr, Tidy(f, acc, arr), NEW b
    PROVE  Tidy(g, acc, b)
<1> DEFINE t == f.tx
           u == g.tx
<1>1. /\ Len(t) \in Nat /\ Len(t) >= 1 /\ Len(u) = Len(t) - 1 /\ u \in Seq(Frame)
      /\ \A i \in 1 .. Len(u) : u[i] = t[i + 1]
  BY HeadTailProperties
<1>2. Flagged(g) = Flagged(f)
  BY DEF Flagged
<1> HIDE DEF t, u
<1>3. \A i \in 1 .. Len(u) : i + 1 \in 1 .. Len(t) /\ u[i].code = "AD"
  BY <1>1 DEF t
<1>4. ~ Led(u)
  <2>1. u # <<>> => 1 \in 1 .. Len(u)
    BY <1>1
  <2> QED BY <1>3, <2>1 DEF Led
<1>5. \A i, j \in 1 .. Len(t) :
         i # j /\ t[i].code = "AD" /\ t[j].code = "AD" => t[i].sdu # t[j].sdu
  BY DEF Tidy, Distinct, t
<1>6. \A i \in Flagged(f), k \in 1 .. Len(t) : t[k].code = "AD" => t[k].sdu # f.sent[i].sdu
  BY DEF Tidy, Distinct, t
<1>7. \A i, j \in 1 .. Len(u) : i # j => u[i].sdu # u[j].sdu
  <2> SUFFICES ASSUME NEW i \in 1 .. Len(u), NEW j \in 1 .. Len(u), i # j
               PROVE  u[i].sdu # u[j].sdu
    OBVIOUS
  <2>1. i + 1 # j + 1
    BY <1>1
  <2> QED BY <1>1, <1>3, <1>5, <2>1
<1>8. \A i \in Flagged(g), k \in 1 .. Len(u) : u[k].sdu # f.sent[i].sdu
  BY <1>1, <1>2, <1>3, <1>6
<1>9. Distinct(g)
  <2>1. f.wait # <<>> => \A k \in 1 .. Len(u) : u[k].sdu # f.wait[1]
    BY <1>1, <1>3 DEF Tidy, Distinct, t
  <2> QED BY <1>7, <1>8, <2>1 DEF Tidy, Distinct, u
<1>10. Known(g, acc)
  <2>1. \A k \in 1 .. Len(u) : u[k].sdu \in 1 .. acc
    BY <1>1, <1>3 DEF Tidy, Known, t
  <2> QED BY <2>1 DEF Tidy, Known, u
<1> QED BY <1>4, <1>9, <1>10 DEF Tidy, Lead, u

(* The first k items are acknowledged, none while a control frame is in front. *)
LEMMA TidyFewer ==
    ASSUME NEW f, NEW g, f.sent \in Seq(Item), NEW k \in 0 .. Len(f.sent), Led(f.tx) => k = 0,
           g.sent = SubSeq(f.sent, k + 1, Len(f.sent)), g.wait = f.wait, g.tx = f.tx,
           NEW acc, NEW arr, Tidy(f, acc, arr)
    PROVE  Tidy(g, acc, arr)
<1> DEFINE s == f.sent
           q == g.sent
           n == Len(f.sent)
<1>1. n \in Nat /\ s \in Seq(Item) /\ DOMAIN s = 1 .. n /\ k \in Nat
  OBVIOUS
<1>2. q \in Seq(Item) /\ Len(q) = n - k /\ DOMAIN q = 1 .. n - k
  OBVIOUS
<1>3. \A i \in 1 .. n - k : q[i] = s[k + i] /\ k + i \in 1 .. n
  BY <1>1
<1>4. CASE k = 0
  <2>1. q = s
    <3>0. n - k = n /\ \A i \in 1 .. n : k + i = i
      BY <1>1, <1>4
    <3>1. DOMAIN q = DOMAIN s /\ \A i \in DOMAIN s : q[i] = s[i]
      <4> HIDE DEF q, s, n
      <4> QED BY <1>1, <1>2, <1>3, <3>0
    <3>2. q \in Seq(Item) /\ s \in Seq(Item)
      BY <1>1, <1>2
    <3> HIDE DEF q, s
    <3>3. q = [i \in DOMAIN q |-> q[i]] /\ s = [i \in DOMAIN s |-> s[i]]
      BY <3>2
    <3> QED BY <3>1, <3>3
  <2> QED BY <2>1, TidySame
<1>5. CASE k # 0
  <2>1. ~ Led(g.tx)
    BY <1>5
  <2> HIDE DEF s, q, n
  <2>2. \A i \in Flagged(g) : i \in 1 .. n - k /\ k + i \in Flagged(f)
    BY <1>1, <1>2, <1>3 DEF Flagged, s, q
  <2>3. \A i, j \in 1 .. n - k : i # j => q[i].sdu # q[j].sdu
    <3> SUFFICES ASSUME NEW i \in 1 .. n - k, NEW j \in 1 .. n - k, i # j
                 PROVE  q[i].sdu # q[j].sdu
      OBVIOUS
    <3>1. k + i # k + j
      BY <1>1
    <3>2. \A x, y \in 1 .. n : x # y => s[x].sdu # s[y].sdu
      BY DEF Tidy, Distinct, s, n
    <3> QED BY <1>3, <3>1, <3>2
  <2>4. \A i \in Flagged(g), j \in 1 .. Len(f.tx) : f.tx[j].code = "AD" => f.tx[j].sdu # q[i].sdu
    <3>1. \A i \in Flagged(f), j \in 1 .. Len(f.tx) : f.tx[j].code = "AD" => f.tx[j].sdu # s[i].sdu
      BY DEF Tidy, Distinct, s
    <3> QED BY <1>3, <2>2, <3>1
  <2>5. f.wait # <<>> => \A i \in 1 .. n - k : q[i].sdu # f.wait[1]
    BY <1>3 DEF Tidy, Distinct, s, n
  <2>6. \A i \in 1 .. n - k : q[i].sdu \in 1 .. acc
    BY <1>3 DEF Tidy, Known, s, n
  <2>7. Distinct(g)
    BY <1>2, <2>3, <2>4, <2>5, ZenonT(60) DEF Tidy, Distinct, q
  <2>8. Known(g, acc)
    BY <1>2, <2>6 DEF Tidy, Known, q
  <2> QED BY <2>1, <2>7, <2>8 DEF Tidy, Lead
<1> QED BY <1>4, <1>5

(* AD frames, each with an SDU of its own. *)
AllAd(t) == \A i \in 1 .. Len(t) : t[i].code = "AD"
Apart(t) == \A i, j \in 1 .. Len(t) : i # j => t[i].sdu # t[j].sdu

(***************************************************************************)
(* A queue of AD frames with distinct SDUs, numbered before V and not more *)
(* than w behind R, is as long as that at most.                            *)
(***************************************************************************)
LEMMA Crowd ==
    ASSUME NEW t, Len(t) \in Nat, NEW w \in Int, NEW V \in Int, NEW R \in Int, NEW B,
           0 <= V - R + w, Up(t, w, V, R, B), AllAd(t), Apart(t)
    PROVE  Len(t) <= V - R + w
<1> DEFINE n == Len(t)
           S == 1 .. n
           T == R - w .. V - 1
<1>1. PICK pos \in [S -> Int] : UpAt(t, w, V, R, pos, B)
  BY DEF Up
<1>2. \A i \in S : /\ t[i].sdu = B.sdu[pos[i]] /\ pos[i] < V /\ R - pos[i] <= w /\ pos[i] \in Int
  BY <1>1 DEF UpAt, AdAt, AllAd
<1>3. pos \in [S -> T]
  <2>1. \A i \in S : pos[i] \in T
    BY <1>2
  <2> HIDE DEF S, T
  <2> QED BY <1>1, <2>1
<1>4. \A i, j \in S : i # j => pos[i] # pos[j]
  <2> SUFFICES ASSUME NEW i \in S, NEW j \in S, i # j, pos[i] = pos[j]
               PROVE  FALSE
    OBVIOUS
  <2>1. t[i].sdu = t[j].sdu
    BY <1>2
  <2> QED BY <2>1 DEF Apart
<1>5. IsFiniteSet(S) /\ Cardinality(S) = n
  <2>1. 1 \in Int /\ n \in Int
    OBVIOUS
  <2>2. IsFiniteSet(1 .. n) /\ Cardinality(1 .. n) = IF 1 > n THEN 0 ELSE n - 1 + 1
    BY <2>1, FS_Interval
  <2> HIDE DEF n
  <2>3. (IF 1 > n THEN 0 ELSE n - 1 + 1) = n
    BY DEF n
  <2> QED BY <2>2, <2>3
<1>6. IsFiniteSet(T) /\ Cardinality(T) = V - R + w
  <2> DEFINE a == R - w
             b == V - 1
  <2>1. a \in Int /\ b \in Int
    OBVIOUS
  <2>2. (IF a > b THEN 0 ELSE b - a + 1) = V - R + w
    OBVIOUS
  <2> HIDE DEF a, b
  <2>3. IsFiniteSet(a .. b) /\ Cardinality(a .. b) = IF a > b THEN 0 ELSE b - a + 1
    BY <2>1, FS_Interval
  <2> QED BY <2>2, <2>3 DEF a, b
<1> HIDE DEF S, T
<1>7. ~ (Cardinality(T) < Cardinality(S))
  <2> SUFFICES ASSUME Cardinality(T) < Cardinality(S) PROVE FALSE
    OBVIOUS
  <2>1. \E x, y \in S : x # y /\ pos[x] = pos[y]
    BY <1>3, <1>5, <1>6, FS_PigeonHole
  <2> QED BY <1>4, <2>1
<1> HIDE DEF n
<1>8. n \in Nat
  BY DEF n
<1> QED BY <1>5, <1>6, <1>7, <1>8 DEF n

-----------------------------------------------------------------------------
(***************************************************************************)
(* Room for two windows: the sent queue holds a window, the tx queue two,  *)
(* and no transmission limit of zero is set.  The queues of the tests have *)
(* it: windows of 5 over queues of 10 frames (test_normal_op.c, 425-450).  *)
(***************************************************************************)
RoomForTwoWindows ==
    /\ 0 \notin Limits
    /\ \A w \in Windows : w <= SentCap /\ 2 * w <= TxCap

LEMMA RoomFacts ==
    ASSUME RoomForTwoWindows, NEW f, Fits(f)
    PROVE  /\ f.wnd \in 1 .. SeqMod - 1 /\ f.wnd <= SentCap /\ 2 * f.wnd <= TxCap
           /\ f.lim \in Nat /\ f.lim # 0
           /\ SentCap \in Nat /\ TxCap \in Nat
<1>1. f.wnd \in Windows /\ f.lim \in Limits
  BY DEF Fits, FopRecord
<1>2. f.wnd <= SentCap /\ 2 * f.wnd <= TxCap /\ f.lim # 0
  BY <1>1 DEF RoomForTwoWindows
<1>3. f.wnd \in 1 .. SeqMod - 1 /\ f.lim \in 0 .. CntMod - 1
  BY <1>1, WindowsAssumption, LimitsAssumption
<1>4. f.lim \in Nat /\ SentCap \in Nat /\ TxCap \in Nat
  BY <1>3, CntModAssumption, SentCapAssumption, TxCapAssumption
<1> QED BY <1>2, <1>3, <1>4

(* An open service, its numbers agreed and its queues tidy, without an error. *)
Good(f, N, R, B, acc, arr) ==
    /\ Open(f) /\ Run(f, N, B) /\ R \in N .. N + Len(f.sent)
    /\ Up(f.tx, f.wnd, N + Len(f.sent), R, B)
    /\ Tidy(f, acc, arr) /\ f.signal \notin Failures

LEMMA GoodFacts ==
    ASSUME NEW f, NEW N, NEW R, NEW B, NEW acc, NEW arr, Good(f, N, R, B, acc, arr)
    PROVE  /\ f \in FopRecord /\ Fits(f) /\ Adjacent(f) /\ f.ss = 0 /\ f.state \in AdStates
           /\ f.sent \in Seq(Item) /\ Len(f.sent) \in Nat /\ DOMAIN f.sent = 1 .. Len(f.sent)
           /\ f.tx \in Seq(Frame) /\ Len(f.tx) \in Nat /\ Len(f.tx) <= TxCap
           /\ N \in Int /\ R \in Int /\ N <= R /\ R <= N + Len(f.sent)
           /\ f.wnd \in Int /\ Len(f.sent) <= f.wnd
<1>1. Open(f) /\ Run(f, N, B) /\ R \in N .. N + Len(f.sent)
  BY DEF Good
<1>2. f \in FopRecord /\ Fits(f) /\ Adjacent(f) /\ f.ss = 0 /\ f.state \in AdStates
  BY <1>1, OpenNotSuspended DEF Open, Sound, Fits, Matched
<1>3. /\ f.sent \in Seq(Item) /\ Len(f.sent) \in Nat /\ DOMAIN f.sent = 1 .. Len(f.sent)
      /\ f.tx \in Seq(Frame) /\ Len(f.tx) \in Nat /\ f.wnd \in Int
  BY <1>2, FitsFacts
<1>4. N \in Int /\ Len(f.sent) <= f.wnd
  BY <1>1 DEF Run
<1>5. Len(f.tx) <= TxCap
  BY <1>2 DEF Fits
<1> QED BY <1>1, <1>2, <1>3, <1>4, <1>5

(* The sender goes on. *)
LEMMA GoodGoes ==
    ASSUME NEW f, NEW g, NEW N, NEW R, NEW B, NEW acc, NEW arr, Good(f, N, R, B, acc, arr),
           Open(g), Goes(f, g, N, N + Len(f.sent), B), Tidy(g, acc, arr), g.signal \notin Failures
    PROVE  Good(g, N, R, B, acc, arr)
<1> DEFINE V == N + Len(f.sent)
           X == N + Len(g.sent)
<1>1. /\ Len(f.tx) \in Nat /\ N \in Int /\ R \in Int /\ f.wnd \in Int /\ V \in Int
      /\ N <= R /\ R <= V
  BY GoodFacts
<1>2. Fits(g) /\ Run(g, N, B) /\ g.wnd = f.wnd /\ V <= X /\ Sends(f.tx, g.tx, N, X, B)
  BY DEF Open, Sound, Goes
<1>3. Len(g.tx) \in Nat /\ X \in Int /\ X - N <= f.wnd
  <2>1. Len(g.sent) \in Nat /\ Len(g.tx) \in Nat /\ Len(g.sent) <= g.wnd
    BY <1>2, FitsFacts DEF Run
  <2> QED BY <1>1, <1>2, <2>1
<1>4. Up(f.tx, f.wnd, V, R, B)
  BY DEF Good
<1> HIDE DEF V, X
<1>5. Up(g.tx, g.wnd, X, R, B)
  BY <1>1, <1>2, <1>3, <1>4, UpSends
<1>6. R \in N .. X
  BY <1>1, <1>2, <1>3
<1> QED BY <1>2, <1>5, <1>6 DEF Good, X

(* The queues as they are. *)
LEMMA GoodSame ==
    ASSUME NEW f, NEW g, NEW N, NEW R, NEW B, NEW acc, NEW arr, Good(f, N, R, B, acc, arr),
           Open(g), g.signal \notin Failures,
           g.sent = f.sent, g.vs = f.vs, g.nnr = f.nnr, g.wnd = f.wnd, g.tx = f.tx,
           g.wait = f.wait, g.hdr = f.hdr
    PROVE  Good(g, N, R, B, acc, arr)
<1>1. Fits(f) /\ Run(f, N, B) /\ Tidy(f, acc, arr)
  BY DEF Good, Open, Sound
<1>2. Goes(f, g, N, N + Len(f.sent), B)
  BY <1>1, GoesSame
<1>3. Tidy(g, acc, arr)
  BY <1>1, TidySame
<1> QED BY <1>2, <1>3, GoodGoes

(* How many frames are in the tx queue, of an open service or a suspended one. *)
LEMMA ServiceCrowd ==
    ASSUME NEW f, Fits(f), NEW N, NEW R, NEW B, Run(f, N, B), R \in N .. N + Len(f.sent),
           Up(f.tx, f.wnd, N + Len(f.sent), R, B), NEW acc, NEW arr, Tidy(f, acc, arr)
    PROVE  /\ \A i \in 2 .. Len(f.tx) : f.tx[i].code = "AD"
           /\ ~ Led(f.tx) => AllAd(f.tx)
           /\ Len(f.tx) <= f.wnd + Len(f.sent)
<1> DEFINE V == N + Len(f.sent)
<1>1. /\ f.tx \in Seq(Frame) /\ Len(f.tx) \in Nat /\ N \in Int /\ R \in Int /\ f.wnd \in Int
      /\ N <= R /\ R <= V /\ V \in Int /\ Len(f.sent) \in Nat /\ Len(f.sent) <= f.wnd
      /\ f.wnd >= 1
  BY FitsFacts DEF Run
<1>2. Up(f.tx, f.wnd, V, R, B) /\ Distinct(f) /\ Lead(f, arr)
  BY DEF Tidy
<1>3. \A i \in 1 .. Len(f.tx) : f.tx[i].code # "AD" => i = 1
  BY <1>2 DEF Up, UpAt, BcAt
<1>4. \A i \in 2 .. Len(f.tx) : f.tx[i].code = "AD"
  <2>1. \A i \in 2 .. Len(f.tx) : i \in 1 .. Len(f.tx) /\ i # 1
    BY <1>1
  <2> QED BY <1>3, <2>1
<1>5. ~ Led(f.tx) => AllAd(f.tx)
  <2>1. \A i \in 1 .. Len(f.tx) : i = 1 => f.tx # <<>>
    BY <1>1
  <2> QED BY <1>3, <2>1 DEF Led, AllAd
<1>6. CASE Led(f.tx)
  <2>1. Len(f.tx) <= 1 + Len(f.sent)
    BY <1>2, <1>6 DEF Lead
  <2> HIDE DEF V
  <2>2. Len(f.tx) <= f.wnd + Len(f.sent)
    BY <1>1, <2>1, SMTT(30)
  <2> QED BY <1>4, <1>6, <2>2
<1>7. CASE ~ Led(f.tx)
  <2>1. Apart(f.tx)
    BY <1>2, <1>5, <1>7 DEF Distinct, AllAd, Apart
  <2>2. 0 <= V - R + f.wnd
    BY <1>1
  <2> HIDE DEF V
  <2>3. Len(f.tx) <= V - R + f.wnd
    BY <1>1, <1>2, <1>5, <1>7, <2>1, <2>2, Crowd
  <2>4. V - R <= Len(f.sent)
    BY <1>1 DEF V
  <2>5. Len(f.tx) <= f.wnd + Len(f.sent)
    BY <1>1, <2>3, <2>4, SMTT(30)
  <2> QED BY <1>4, <1>5, <1>7, <2>5
<1> QED BY <1>6, <1>7

LEMMA GoodCrowd ==
    ASSUME NEW f, NEW N, NEW R, NEW B, NEW acc, NEW arr, Good(f, N, R, B, acc, arr)
    PROVE  /\ \A i \in 2 .. Len(f.tx) : f.tx[i].code = "AD"
           /\ ~ Led(f.tx) => AllAd(f.tx)
           /\ Len(f.tx) <= f.wnd + Len(f.sent)
<1>1. /\ Fits(f) /\ Run(f, N, B) /\ R \in N .. N + Len(f.sent)
      /\ Up(f.tx, f.wnd, N + Len(f.sent), R, B) /\ Tidy(f, acc, arr)
  BY GoodFacts DEF Good
<1> QED BY <1>1, ServiceCrowd

(* x is t, and behind it the frames of the items a to b of s. *)
Follows(x, t, s, a, b) ==
    /\ x \in Seq(Frame) /\ Len(x) = Len(t) + (b - a + 1)
    /\ \A i \in 1 .. Len(t) : x[i] = t[i]
    /\ \A i \in Len(t) + 1 .. Len(x) :
          \E k \in a .. b : k = i - Len(t) + a - 1 /\ x[i] = FrameOf(s[k])

LEMMA FramesBehind ==
    ASSUME NEW t \in Seq(Frame), NEW s \in Seq(Item), NEW a \in 1 .. Len(s), NEW b \in a .. Len(s)
    PROVE  Follows(t \o Frames(SubSeq(s, a, b)), t, s, a, b)
<1> DEFINE part == SubSeq(s, a, b)
           fs == Frames(part)
           n == b - a + 1
           m == Len(t)
           x == t \o fs
<1>1. a \in Int /\ b \in Int /\ n \in Nat /\ m \in Nat /\ a <= b /\ Len(s) \in Nat
  OBVIOUS
<1>2. part \in Seq(Item) /\ Len(part) = n /\ \A i \in 1 .. n : part[i] = s[a + i - 1]
  <2>1. \A i \in a .. b : s[i] \in Item
    <3>1. \A i \in a .. b : i \in 1 .. Len(s)
      BY <1>1
    <3> QED BY <3>1
  <2> QED BY <1>1, <2>1, SubSeqProperties
<1> HIDE DEF part
<1>3. fs \in Seq(Frame) /\ Len(fs) = n /\ \A i \in 1 .. n : fs[i] = FrameOf(part[i])
  <2>1. fs \in Seq(Frame) /\ Len(fs) = Len(part)
    BY <1>2, FramesTyped
  <2>2. DOMAIN part = 1 .. Len(part)
    BY <1>2
  <2> QED BY <1>2, <2>1, <2>2 DEF Frames
<1> HIDE DEF fs
<1>4. x \in Seq(Frame) /\ Len(x) = m + n
  <2>1. x \in Seq(Frame) /\ Len(x) = Len(t) + Len(fs)
    BY <1>3, ConcatProperties
  <2> QED BY <1>3, <2>1
<1>5. \A i \in 1 .. m + n : x[i] = IF i <= m THEN t[i] ELSE fs[i - m]
  BY <1>3, ConcatProperties
<1> HIDE DEF x, m, n
<1>6. \A i \in 1 .. m : x[i] = t[i]
  <2>1. \A i \in 1 .. m : i \in 1 .. m + n /\ i <= m
    BY <1>1
  <2> QED BY <1>5, <2>1
<1>7. ASSUME NEW i \in m + 1 .. m + n
      PROVE  \E k \in a .. b : k = i - m + a - 1 /\ x[i] = FrameOf(s[k])
  <2>1. i \in 1 .. m + n /\ ~ (i <= m) /\ i - m \in 1 .. n
    BY <1>1
  <2>2. x[i] = fs[i - m]
    BY <1>5, <2>1
  <2>3. fs[i - m] = FrameOf(s[a + (i - m) - 1])
    BY <1>2, <1>3, <2>1
  <2>4. a + (i - m) - 1 = i - m + a - 1
    BY <1>1
  <2>5. i - m + a - 1 \in a .. b
    BY <1>1, <2>1 DEF n
  <2> QED BY <2>2, <2>3, <2>4, <2>5
<1>8. Follows(x, t, s, a, b)
  BY <1>4, <1>6, <1>7 DEF Follows, m, n
<1> QED BY <1>8 DEF x, fs, part

(* The same items, with the flags from a to b reset. *)
Unflagged(q, s, a, b) ==
    /\ DOMAIN q = 1 .. Len(s) /\ Len(q) = Len(s)
    /\ \A i \in 1 .. Len(s) : q[i] = IF i \in a .. b THEN [s[i] EXCEPT !.rt = FALSE] ELSE s[i]

-----------------------------------------------------------------------------
(* What is sent again. *)

(* The flagged items from a to b are sent again. *)
LEMMA TidyResent ==
    ASSUME NEW f, NEW g, f.sent \in Seq(Item), f.tx \in Seq(Frame), ~ Led(f.tx),
           AllAd(f.tx),
           \A i \in 1 .. Len(f.sent) : f.sent[i].code = "AD",
           NEW a \in 1 .. Len(f.sent), NEW b \in a .. Len(f.sent), a .. b \subseteq Flagged(f),
           Unflagged(g.sent, f.sent, a, b), Follows(g.tx, f.tx, f.sent, a, b), g.wait = f.wait,
           NEW acc, NEW arr, Tidy(f, acc, arr)
    PROVE  /\ Tidy(g, acc, arr) /\ ~ Led(g.tx) /\ Len(g.tx) = Len(f.tx) + (b - a + 1)
           /\ AllAd(g.tx) /\ Apart(g.tx)
<1> DEFINE t == f.tx
           s == f.sent
           n == Len(s)
           m == Len(t)
           x == g.tx
           q == g.sent
<1>1. /\ n \in Nat /\ DOMAIN s = 1 .. n /\ m \in Nat /\ a \in Int /\ b \in Int /\ 1 <= a
      /\ a <= b /\ b <= n /\ s \in Seq(Item)
  OBVIOUS
<1>2. /\ x \in Seq(Frame) /\ Len(x) = m + (b - a + 1)
      /\ \A i \in 1 .. m : x[i] = t[i]
      /\ \A i \in m + 1 .. Len(x) :
            \E k \in a .. b : k = i - m + a - 1 /\ x[i] = FrameOf(s[k])
  BY DEF Follows
<1>3. /\ Len(q) = n /\ DOMAIN q = 1 .. n
      /\ \A i \in 1 .. n : q[i].sdu = s[i].sdu /\ q[i].type = s[i].type
      /\ \A i \in 1 .. n : q[i].rt => s[i].rt /\ i \notin a .. b
  <2>1. DOMAIN q = 1 .. n /\ Len(q) = n
    BY DEF Unflagged
  <2>2. \A i \in 1 .. n : s[i] \in Item
    BY <1>1
  <2>3. \A it \in Item : LET e == [it EXCEPT !.rt = FALSE]
                         IN  e.sdu = it.sdu /\ e.type = it.type /\ e.rt = FALSE
    BY DEF Item
  <2>4. \A i \in 1 .. n : q[i] = IF i \in a .. b THEN [s[i] EXCEPT !.rt = FALSE] ELSE s[i]
    BY DEF Unflagged
  <2> HIDE DEF q, s, n
  <2> QED BY <2>1, <2>2, <2>3, <2>4
<1>4. /\ \A i, j \in 1 .. n : i # j => s[i].sdu # s[j].sdu
      /\ \A i, j \in 1 .. m : i # j => t[i].sdu # t[j].sdu
      /\ \A i \in Flagged(f), k \in 1 .. m : t[k].sdu # s[i].sdu
      /\ f.wait # <<>> => /\ \A i \in 1 .. n : s[i].sdu # f.wait[1]
                          /\ \A k \in 1 .. m : t[k].sdu # f.wait[1]
  BY DEF Tidy, Distinct, AllAd
<1>5. /\ \A i \in 1 .. n : s[i].sdu \in 1 .. acc
      /\ \A k \in 1 .. m : t[k].sdu \in 1 .. acc
      /\ f.wait # <<>> => f.wait[1] \in 1 .. acc
  BY DEF Tidy, Known, AllAd
<1>6. \A i \in 1 .. n : s[i].code = "AD"
  OBVIOUS
<1>7. \A i \in 1 .. m : t[i].code = "AD"
  BY DEF AllAd
<1>8. a .. b \subseteq Flagged(f) /\ Flagged(f) \subseteq 1 .. n
  BY <1>1 DEF Flagged
<1>9. \A i \in Flagged(g) : i \in Flagged(f) /\ i \notin a .. b /\ i \in 1 .. n
  BY <1>1, <1>3 DEF Flagged
<1> HIDE DEF t, s, n, m, x, q
<1>10. \A i \in 1 .. Len(x) : \/ i \in 1 .. m /\ x[i] = t[i]
                              \/ \E k \in a .. b : k = i - m + a - 1 /\ x[i] = FrameOf(s[k])
  <2> SUFFICES ASSUME NEW i \in 1 .. Len(x), i \notin 1 .. m
               PROVE  \E k \in a .. b : k = i - m + a - 1 /\ x[i] = FrameOf(s[k])
    BY <1>2
  <2>1. i \in m + 1 .. Len(x)
    BY <1>1, <1>2
  <2> QED BY <1>2, <2>1
<1>11. \A k \in a .. b : k \in 1 .. n /\ k \in Flagged(f)
  BY <1>8
<1>12. \A i \in 1 .. n : FrameOf(s[i]).code = s[i].code /\ FrameOf(s[i]).sdu = s[i].sdu
  BY DEF FrameOf
<1>13. \A i \in 1 .. Len(x) : x[i].code = "AD"
  <2> SUFFICES ASSUME NEW i \in 1 .. Len(x) PROVE x[i].code = "AD"
    OBVIOUS
  <2>1. CASE i \in 1 .. m /\ x[i] = t[i]
    BY <1>7, <2>1
  <2>2. CASE \E k \in a .. b : x[i] = FrameOf(s[k])
    BY <1>6, <1>11, <1>12, <2>2
  <2> QED BY <1>10, <2>1, <2>2
<1>14. \A i \in 1 .. Len(x) : \/ i \in 1 .. m /\ x[i].sdu = t[i].sdu
                              \/ \E k \in a .. b : k = i - m + a - 1 /\ x[i].sdu = s[k].sdu
  BY <1>10, <1>11, <1>12
<1>15. \A i, j \in 1 .. Len(x) : i # j => x[i].sdu # x[j].sdu
  <2> SUFFICES ASSUME NEW i \in 1 .. Len(x), NEW j \in 1 .. Len(x), i # j
               PROVE  x[i].sdu # x[j].sdu
    OBVIOUS
  <2>1. i \in Int /\ j \in Int
    BY <1>2
  <2>2. CASE i \in 1 .. m /\ x[i].sdu = t[i].sdu
    <3>1. CASE j \in 1 .. m /\ x[j].sdu = t[j].sdu
      BY <1>4, <2>2, <3>1
    <3>2. CASE \E k \in a .. b : k = j - m + a - 1 /\ x[j].sdu = s[k].sdu
      BY <1>4, <1>11, <2>2, <3>2
    <3> QED BY <1>14, <3>1, <3>2
  <2>3. CASE \E k \in a .. b : k = i - m + a - 1 /\ x[i].sdu = s[k].sdu
    <3>1. PICK k \in a .. b : k = i - m + a - 1 /\ x[i].sdu = s[k].sdu
      BY <2>3
    <3>2. CASE j \in 1 .. m /\ x[j].sdu = t[j].sdu
      BY <1>4, <1>11, <3>1, <3>2
    <3>3. CASE \E l \in a .. b : l = j - m + a - 1 /\ x[j].sdu = s[l].sdu
      <4>1. PICK l \in a .. b : l = j - m + a - 1 /\ x[j].sdu = s[l].sdu
        BY <3>3
      <4>2. k # l
        BY <1>1, <2>1, <3>1, <4>1
      <4> QED BY <1>4, <1>11, <3>1, <4>1, <4>2
    <3> QED BY <1>14, <3>2, <3>3
  <2> QED BY <1>14, <2>2, <2>3
<1>16. ~ Led(x)
  <2>1. x # <<>> => 1 \in 1 .. Len(x)
    BY <1>2
  <2> QED BY <1>13, <2>1 DEF Led
<1>17. \A i \in Flagged(g), k \in 1 .. Len(x) : x[k].sdu # s[i].sdu
  <2> SUFFICES ASSUME NEW i \in Flagged(g), NEW k \in 1 .. Len(x) PROVE x[k].sdu # s[i].sdu
    OBVIOUS
  <2>1. i \in Flagged(f) /\ i \notin a .. b /\ i \in 1 .. n
    BY <1>9
  <2>2. CASE k \in 1 .. m /\ x[k].sdu = t[k].sdu
    BY <1>4, <2>1, <2>2
  <2>3. CASE \E l \in a .. b : x[k].sdu = s[l].sdu
    BY <1>4, <1>11, <2>1, <2>3
  <2> QED BY <1>14, <2>2, <2>3
<1>18. f.wait # <<>> => \A k \in 1 .. Len(x) : x[k].sdu # f.wait[1]
  BY <1>4, <1>11, <1>14
<1>19. \A k \in 1 .. Len(x) : x[k].sdu \in 1 .. acc
  BY <1>5, <1>11, <1>14
<1>20. Distinct(g)
  <2>1. \A i, j \in 1 .. Len(q) : i # j => q[i].sdu # q[j].sdu
    BY <1>3, <1>4
  <2>2. \A i \in Flagged(g), k \in 1 .. Len(x) : x[k].sdu # q[i].sdu
    BY <1>3, <1>9, <1>17
  <2>3. f.wait # <<>> => \A i \in 1 .. Len(q) : q[i].sdu # f.wait[1]
    BY <1>3, <1>4
  <2> QED BY <1>15, <1>18, <2>1, <2>2, <2>3 DEF Distinct, q, x
<1>21. Known(g, acc)
  <2>1. \A i \in 1 .. Len(q) : q[i].sdu \in 1 .. acc
    BY <1>3, <1>5
  <2> QED BY <1>5, <1>19, <2>1 DEF Known, q, x
<1>22. AllAd(x) /\ Apart(x)
  BY <1>13, <1>15 DEF AllAd, Apart
<1>23. Tidy(g, acc, arr)
  BY <1>16, <1>20, <1>21 DEF Tidy, Lead, x
<1> QED BY <1>2, <1>16, <1>22, <1>23 DEF x, m, t

(* The run that is sent again fits the tx queue. *)
LEMMA ResendGood ==
    ASSUME RoomForTwoWindows, NEW f, NEW N, NEW R, NEW B, NEW acc, NEW arr,
           Good(f, N, R, B, acc, arr)
    PROVE  LET g == Resend(f)
           IN  /\ Good(g, N, R, B, acc, arr) /\ g.state = f.state /\ g.wait = f.wait
               /\ Len(g.sent) = Len(f.sent)
               /\ f.state \in OpenStates => Flagged(g) = {}
<1>1. /\ f \in FopRecord /\ Fits(f) /\ Adjacent(f) /\ f.sent \in Seq(Item)
      /\ f.tx \in Seq(Frame) /\ Len(f.tx) \in Nat /\ Len(f.sent) \in Nat /\ N \in Int /\ R \in Int
      /\ DOMAIN f.sent = 1 .. Len(f.sent) /\ N <= R /\ Len(f.sent) <= f.wnd
      /\ R <= N + Len(f.sent) /\ f.wnd \in Int
  BY GoodFacts
<1>2. Open(f) /\ Run(f, N, B) /\ Tidy(f, acc, arr) /\ f.signal \notin Failures
  BY DEF Good
<1>3. CASE Flagged(f) = {}
  BY <1>3 DEF Resend
<1>4. CASE Flagged(f) # {}
  <2> DEFINE a == RunStart(f)
             b == RunEnd(f)
             V == N + Len(f.sent)
             x == f.tx \o Frames(SubSeq(f.sent, a, b))
             q == [i \in DOMAIN f.sent |->
                     IF i \in a .. b THEN [f.sent[i] EXCEPT !.rt = FALSE] ELSE f.sent[i]]
             g == [f EXCEPT !.tx = x, !.sent = q]
  <2>1. /\ a \in 1 .. Len(f.sent) /\ b \in 1 .. Len(f.sent) /\ a <= b /\ a .. b \subseteq Flagged(f)
    BY <1>1, <1>4, FlaggedBounds, RunDefined
  <2> HIDE DEF a, b
  <2>2. b \in a .. Len(f.sent) /\ b \in a - 1 .. Len(f.sent)
    BY <1>1, <2>1
  <2>3. \A i \in 1 .. Len(f.sent) : f.sent[i].code = "AD"
    BY <1>2 DEF Run
  <2>4. ~ Led(f.tx) /\ AllAd(f.tx)
    BY <1>2, <1>4, GoodCrowd DEF Tidy, Lead
  <2>5. g.sent = q /\ g.tx = x /\ g.wait = f.wait /\ g.signal = f.signal /\ g.state = f.state
    BY <1>1 DEF FopRecord
  <2>6. /\ Tidy(g, acc, arr) /\ ~ Led(x) /\ Len(x) = Len(f.tx) + (b - a + 1)
        /\ AllAd(x) /\ Apart(x)
    <3> HIDE DEF g
    <3>1. Unflagged(q, f.sent, a, b)
      <4>1. DOMAIN q = 1 .. Len(f.sent) /\ Len(q) = Len(f.sent)
        BY <1>1
      <4> QED BY <1>1, <4>1 DEF Unflagged
    <3>2. Follows(x, f.tx, f.sent, a, b)
      BY <1>1, <2>1, <2>2, FramesBehind
    <3> HIDE DEF x, q
    <3>3. Unflagged(g.sent, f.sent, a, b) /\ Follows(g.tx, f.tx, f.sent, a, b) /\ g.wait = f.wait
      BY <2>5, <3>1, <3>2
    <3>4. f.sent \in Seq(Item) /\ f.tx \in Seq(Frame) /\ Tidy(f, acc, arr)
      BY <1>1, <1>2
    <3>5. /\ Tidy(g, acc, arr) /\ ~ Led(g.tx) /\ Len(g.tx) = Len(f.tx) + (b - a + 1)
          /\ AllAd(g.tx) /\ Apart(g.tx)
      BY <2>1, <2>2, <2>3, <2>4, <3>3, <3>4, TidyResent
    <3> QED BY <2>5, <3>5
  <2>7. Up(x, f.wnd, V, R, B)
    <3>1. Sends(f.tx, x, N, V, B)
      BY <1>1, <1>2, <2>1, <2>2, SendsPart
    <3>2. Up(f.tx, f.wnd, V, R, B)
      BY DEF Good
    <3>3. V \in Int /\ V <= V /\ V - N <= f.wnd /\ R <= V
      BY <1>1
    <3>4. Len(x) \in Nat
      BY <1>1, <2>1, <2>6, SMTT(30)
    <3> HIDE DEF V, x
    <3> QED BY <1>1, <3>1, <3>2, <3>3, <3>4, UpSends
  <2> HIDE DEF x, q, g
  <2>8. Len(x) <= TxCap
    <3>1. V \in Int /\ 0 <= V - R + f.wnd /\ V - R <= f.wnd
      BY <1>1
    <3>2. Len(x) \in Nat
      BY <1>1, <2>1, <2>6
    <3> HIDE DEF V
    <3>3. Len(x) <= V - R + f.wnd
      BY <1>1, <2>6, <2>7, <3>1, <3>2, Crowd
    <3>4. 2 * f.wnd <= TxCap /\ TxCap \in Int
      BY <1>1, RoomFacts
    <3> QED BY <1>1, <3>1, <3>2, <3>3, <3>4
  <2>9. b - a + 1 <= TxCap - Len(f.tx)
    <3>1. TxCap \in Int
      BY TxCapAssumption
    <3> QED BY <1>1, <2>1, <2>6, <2>8, <3>1, SMTT(30)
  <2>10. Resend(f) = g
    <3>1. f.sent[b].code = "AD"
      BY <2>1, <2>3
    <3>2. Resend(f) = [f EXCEPT !.tx = x, !.sent = q,
                                !.signal = IF f.sent[b].code = "AD" THEN f.signal ELSE "ACCEPT_TX"]
      BY <1>4, <2>9 DEF Resend, a, b, x, q
    <3>3. Resend(f) = [f EXCEPT !.tx = x, !.sent = q, !.signal = f.signal]
      BY <3>1, <3>2
    <3> QED BY <1>1, <3>3 DEF FopRecord, g
  <2>11. /\ Open(g) /\ Goes(f, g, N, N + Len(f.sent), B) /\ Len(g.sent) = Len(f.sent)
         /\ f.state \in OpenStates => Flagged(g) = {}
    <3>1. g.signal # "UNDEF_ERROR"
      BY <1>2, <2>5 DEF Failures
    <3> QED BY <1>2, <2>10, <3>1, ResendRun
  <2>12. Good(g, N, R, B, acc, arr)
    BY <1>2, <2>5, <2>6, <2>11, GoodGoes
  <2> QED BY <2>5, <2>10, <2>11, <2>12
<1> QED BY <1>3, <1>4

-----------------------------------------------------------------------------
(* The waiting SDU is sent. *)

LEMMA TidySent ==
    ASSUME NEW f, NEW g, f.sent \in Seq(Item), f.tx \in Seq(Frame), f.wait # <<>>,
           NEW it \in Item, it.sdu = f.wait[1], it.rt = FALSE,
           NEW fr \in Frame, fr.code = "AD", fr.sdu = f.wait[1],
           g.sent = Append(f.sent, it), g.tx = Append(f.tx, fr), g.wait = <<>>,
           NEW acc, NEW arr, Tidy(f, acc, arr)
    PROVE  Tidy(g, acc, arr)
<1> DEFINE t == f.tx
           s == f.sent
           n == Len(s)
           m == Len(t)
           x == g.tx
           q == g.sent
           w == f.wait[1]
<1>1. n \in Nat /\ m \in Nat /\ DOMAIN s = 1 .. n
  OBVIOUS
<1>2. /\ Len(q) = n + 1 /\ DOMAIN q = 1 .. n + 1 /\ q[n + 1] = it
      /\ \A i \in 1 .. n : q[i] = s[i]
  BY AppendProperties
<1>3. Len(x) = m + 1 /\ x[m + 1] = fr /\ \A i \in 1 .. m : x[i] = t[i]
  BY AppendProperties
<1>4. /\ \A i, j \in 1 .. n : i # j => s[i].sdu # s[j].sdu
      /\ \A i, j \in 1 .. m : i # j /\ t[i].code = "AD" /\ t[j].code = "AD" => t[i].sdu # t[j].sdu
      /\ \A i \in Flagged(f), k \in 1 .. m : t[k].code = "AD" => t[k].sdu # s[i].sdu
      /\ \A i \in 1 .. n : s[i].sdu # w
      /\ \A k \in 1 .. m : t[k].code = "AD" => t[k].sdu # w
  BY DEF Tidy, Distinct
<1>5. /\ \A i \in 1 .. n : s[i].sdu \in 1 .. acc
      /\ \A k \in 1 .. m : t[k].code = "AD" => t[k].sdu \in 1 .. acc
      /\ w \in 1 .. acc
  BY DEF Tidy, Known
<1>6. Led(t) => /\ Flagged(f) = {} /\ m <= 1 + n
                /\ \A j \in DOMAIN arr : w # arr[j] /\ \A i \in 1 .. n : s[i].sdu # arr[j]
  BY DEF Tidy, Lead
<1>7. \A i \in 1 .. n + 1 : i \in 1 .. n \/ i = n + 1
  BY <1>1
<1>8. \A i \in 1 .. m + 1 : i \in 1 .. m \/ i = m + 1
  BY <1>1
<1>9. it.sdu = w /\ ~ it.rt /\ fr.code = "AD" /\ fr.sdu = w
  OBVIOUS
<1>10. Flagged(g) = Flagged(f)
  <2>1. \A i : i \in Flagged(g) <=> i \in 1 .. n + 1 /\ q[i].type = "A" /\ q[i].rt
    BY <1>2 DEF Flagged
  <2>2. \A i : i \in Flagged(f) <=> i \in 1 .. n /\ s[i].type = "A" /\ s[i].rt
    BY <1>1 DEF Flagged
  <2>3. \A i \in 1 .. n : i \in 1 .. n + 1
    BY <1>1
  <2> HIDE DEF q, s, n
  <2>4. \A i : i \in Flagged(g) <=> i \in Flagged(f)
    BY <1>2, <1>7, <1>9, <2>1, <2>2, <2>3, SMTT(30)
  <2> QED BY <2>4
<1>11. Led(x) => Led(t)
  <2>1. CASE t = <<>>
    <3>1. m = 0
      BY <2>1
    <3>2. x[1] = fr
      BY <1>3, <3>1
    <3> QED BY <1>9, <3>2 DEF Led
  <2>2. CASE t # <<>>
    <3>1. 1 \in 1 .. m
      BY <1>1, <2>2
    <3>2. x[1] = t[1]
      BY <1>3, <3>1
    <3> QED BY <2>2, <3>2 DEF Led
  <2> QED BY <2>1, <2>2
<1>12. g.wait = <<>>
  OBVIOUS
<1>13. Flagged(f) \subseteq 1 .. n
  BY <1>1 DEF Flagged
<1> HIDE DEF t, s, n, m, x, q, w
<1>14. \A i, j \in 1 .. n + 1 : i # j => q[i].sdu # q[j].sdu
  BY <1>2, <1>4, <1>7, <1>9
<1>15. \A i, j \in 1 .. m + 1 : i # j /\ x[i].code = "AD" /\ x[j].code = "AD" => x[i].sdu # x[j].sdu
  BY <1>3, <1>4, <1>8, <1>9
<1>16. \A i \in Flagged(f), k \in 1 .. m + 1 : x[k].code = "AD" => x[k].sdu # q[i].sdu
  <2> SUFFICES ASSUME NEW i \in Flagged(f), NEW k \in 1 .. m + 1, x[k].code = "AD"
               PROVE  x[k].sdu # q[i].sdu
    OBVIOUS
  <2>1. q[i] = s[i] /\ i \in 1 .. n
    BY <1>2, <1>13
  <2> QED BY <1>3, <1>4, <1>8, <1>9, <2>1
<1>17. Distinct(g)
  BY <1>2, <1>3, <1>10, <1>12, <1>14, <1>15, <1>16 DEF Distinct, x, q
<1>18. Known(g, acc)
  <2>1. \A i \in 1 .. n + 1 : q[i].sdu \in 1 .. acc
    BY <1>2, <1>5, <1>7, <1>9
  <2>2. \A k \in 1 .. m + 1 : x[k].code = "AD" => x[k].sdu \in 1 .. acc
    BY <1>3, <1>5, <1>8, <1>9
  <2> QED BY <1>2, <1>3, <1>12, <2>1, <2>2 DEF Known, x, q
<1>19. Lead(g, arr)
  <2> SUFFICES ASSUME Led(x)
               PROVE  /\ Flagged(g) = {} /\ Len(x) <= 1 + Len(q)
                      /\ \A j \in DOMAIN arr : \A i \in 1 .. Len(q) : q[i].sdu # arr[j]
    BY <1>12 DEF Lead, x, q
  <2>1. Len(x) <= 1 + Len(q)
    <3>1. n \in Nat /\ m \in Nat /\ m <= 1 + n
      BY <1>1, <1>6, <1>11
    <3> QED BY <1>2, <1>3, <3>1
  <2>2. \A j \in DOMAIN arr : \A i \in 1 .. n + 1 : q[i].sdu # arr[j]
    BY <1>2, <1>6, <1>7, <1>9, <1>11
  <2> QED BY <1>2, <1>6, <1>10, <1>11, <2>1, <2>2
<1> QED BY <1>17, <1>18, <1>19 DEF Tidy

(* osdlp_transmit_type_ad with room in both queues and no flag left. *)
LEMMA TransmitTypeAdSends ==
    ASSUME NEW f, Open(f), f.wait # <<>>, f.hdr = "AD", Len(f.sent) < SentCap, Len(f.tx) < TxCap,
           f.state \in OpenStates => Flagged(f) = {}
    PROVE  LET g  == TransmitTypeAd(f)
               it == [type |-> "A", seq |-> f.vs, rt |-> FALSE, code |-> f.hdr, sdu |-> Head(f.wait)]
           IN  /\ it \in Item /\ FrameOf(it) \in Frame
               /\ Open(g) /\ g.state = f.state /\ g.signal = "ACCEPT_TX" /\ g.wait = <<>>
               /\ g.sent = Append(f.sent, it) /\ g.tx = Append(f.tx, FrameOf(it))
<1> DEFINE it == [type |-> "A", seq |-> f.vs, rt |-> FALSE, code |-> f.hdr, sdu |-> Head(f.wait)]
           fr == FrameOf(it)
           n  == IF f.sent = <<>> THEN 1 ELSE f.txCnt
           g  == [f EXCEPT !.wait = <<>>, !.vs = Inc(@), !.armed = TRUE, !.txCnt = n]
           q  == Append(f.sent, it)
           x  == Append(f.tx, fr)
           h  == [g EXCEPT !.sent = Append(@, it), !.tx = Append(@, FrameOf(it))]
           r  == IF f.hdr = "AD" /\ f.state \in OpenStates THEN Resend(h) ELSE h
           last == Say(h, "ACCEPT_TX")
<1>1. /\ f \in FopRecord /\ f.vs \in SeqNum /\ f.wait \in Seq(SDU)
      /\ n \in 0 .. CntMod - 1 /\ f.sent \in Seq(Item) /\ f.tx \in Seq(Frame)
      /\ Len(f.sent) \in Nat /\ Len(f.tx) \in Nat /\ DOMAIN f.sent = 1 .. Len(f.sent)
  BY SeqNumFacts DEF Open, Sound, Fits, FopRecord
<1>2. it \in Item /\ it.type = "A" /\ it.rt = FALSE /\ fr \in Frame
  <2>1. Head(f.wait) \in SDU
    BY <1>1, HeadTailProperties
  <2> QED BY <1>1, <2>1 DEF Item, FrameOf, Frame, Codes, SeqNum
<1>3. TransmitTypeAd(f) = CASE Len(f.sent) = SentCap -> Say(g, "UNDEF_ERROR")
                            [] Len(f.sent) < SentCap /\ TxFull(f) -> Alert(g, "UNDEF_ERROR")
                            [] OTHER -> Say(r, "ACCEPT_TX")
  BY DEF TransmitTypeAd
<1>4. /\ q \in Seq(Item) /\ Len(q) = Len(f.sent) + 1 /\ DOMAIN q = 1 .. Len(f.sent) + 1
      /\ \A i \in 1 .. Len(f.sent) : q[i] = f.sent[i]
      /\ q[Len(f.sent) + 1] = it
  BY <1>1, <1>2, AppendProperties
<1> HIDE DEF n, it
<1>5. /\ Open(g) /\ g.state = f.state /\ g.ss = f.ss /\ g.sent = f.sent
      /\ g.tx = f.tx /\ g.wait = <<>>
  BY <1>1, DequeuedOpen
<1>6. g \in FopRecord
  BY <1>5 DEF Open, Sound, Fits
<1> HIDE DEF g
<1>7. TransmitTypeAd(f) = Say(r, "ACCEPT_TX")
  <2>1. Len(f.sent) # SentCap /\ ~ TxFull(f)
    BY <1>1, SentCapAssumption, TxCapAssumption DEF TxFull
  <2> QED BY <1>3, <2>1
<1>8. Open(h)
  BY <1>2, <1>5, EnqueuedOpen
<1>9. h.sent = q /\ h.tx = x /\ h.wait = <<>> /\ h.state = f.state
  <2>1. h = [g EXCEPT !.sent = q, !.tx = x]
    BY <1>5, <1>6 DEF FopRecord
  <2> HIDE DEF h, q, x
  <2> QED BY <1>5, <1>6, <2>1 DEF FopRecord
<1> HIDE DEF h
<1>10. r = h
  <2> SUFFICES ASSUME f.state \in OpenStates PROVE Flagged(h) = {}
    BY DEF Resend
  <2> HIDE DEF q
  <2>1. ASSUME NEW i \in 1 .. Len(f.sent) + 1 PROVE ~ (q[i].type = "A" /\ q[i].rt)
    <3>1. CASE i = Len(f.sent) + 1
      BY <1>2, <1>4, <3>1
    <3>2. CASE i # Len(f.sent) + 1
      <4>1. i \in 1 .. Len(f.sent)
        BY <1>1, <3>2
      <4> QED BY <1>1, <1>4, <4>1 DEF Flagged
    <3> QED BY <3>1, <3>2
  <2> QED BY <1>4, <1>9, <2>1 DEF Flagged
<1>11. /\ last.sent = q /\ last.tx = x /\ last.wait = <<>> /\ last.state = f.state
       /\ last.signal = "ACCEPT_TX"
  BY <1>8, <1>9 DEF Say, Open, Sound, Fits, FopRecord
<1>12. Open(last)
  <2>1. Sound(last) /\ last.state = h.state
    BY <1>8, SaySound DEF Open, Signals
  <2> QED BY <1>8, <2>1 DEF Open
<1> HIDE DEF last, r, q, x
<1>13. TransmitTypeAd(f) = last
  BY <1>7, <1>10 DEF last
<1> QED BY <1>2, <1>11, <1>12, <1>13 DEF q, x, fr, it

(* It goes out: there is room for it. *)
LEMMA TransmitTypeAdGood ==
    ASSUME RoomForTwoWindows, NEW f, NEW N, NEW R, NEW B, NEW acc, NEW arr,
           Good(f, N, R, B, acc, arr), f.wait # <<>>, Len(f.sent) < f.wnd,
           f.state \in OpenStates => Flagged(f) = {}
    PROVE  LET g == TransmitTypeAd(f) IN Good(g, N, R, B, acc, arr) /\ g.state = f.state
<1> DEFINE it == [type |-> "A", seq |-> f.vs, rt |-> FALSE, code |-> f.hdr, sdu |-> Head(f.wait)]
           fr == FrameOf(it)
           g  == TransmitTypeAd(f)
<1>1. /\ f \in FopRecord /\ Fits(f) /\ f.sent \in Seq(Item) /\ f.tx \in Seq(Frame)
      /\ Len(f.sent) \in Nat /\ Len(f.tx) \in Nat /\ f.wnd \in Int
  BY GoodFacts
<1>2. Open(f) /\ Run(f, N, B) /\ Tidy(f, acc, arr) /\ f.hdr = "AD"
  BY DEF Good, Run
<1>3. Len(f.sent) < SentCap /\ Len(f.tx) < TxCap
  <2>1. Len(f.tx) <= f.wnd + Len(f.sent)
    BY GoodCrowd
  <2>2. f.wnd <= SentCap /\ 2 * f.wnd <= TxCap /\ SentCap \in Nat /\ TxCap \in Nat
    BY <1>1, RoomFacts
  <2> QED BY <1>1, <2>1, <2>2, SMTT(30)
<1>4. /\ it \in Item /\ fr \in Frame
      /\ Open(g) /\ g.state = f.state /\ g.signal = "ACCEPT_TX" /\ g.wait = <<>>
      /\ g.sent = Append(f.sent, it) /\ g.tx = Append(f.tx, fr)
  BY <1>2, <1>3, TransmitTypeAdSends
<1>5. it.sdu = f.wait[1] /\ it.rt = FALSE /\ fr.code = "AD" /\ fr.sdu = f.wait[1]
  <2>1. Head(f.wait) = f.wait[1]
    BY <1>1 DEF FopRecord
  <2> QED BY <1>2, <2>1 DEF FrameOf
<1>6. g.signal # "UNDEF_ERROR" /\ g.signal \notin Failures
  BY <1>4 DEF Failures, Alerts
<1>7. Goes(f, g, N, N + Len(f.sent), B)
  BY <1>2, <1>6, TransmitTypeAdRun
<1> HIDE DEF it, fr, g
<1>8. Tidy(g, acc, arr)
  BY <1>1, <1>2, <1>4, <1>5, TidySent
<1>9. Good(g, N, R, B, acc, arr)
  BY <1>4, <1>6, <1>7, <1>8, GoodGoes
<1> QED BY <1>4, <1>9 DEF g

(* osdlp_look_for_fdu keeps a good service good, in its state. *)
LEMMA LookForFduGood ==
    ASSUME RoomForTwoWindows, NEW f, NEW N, NEW R, NEW B, NEW acc, NEW arr,
           Good(f, N, R, B, acc, arr)
    PROVE  LET g == LookForFdu(f) IN Good(g, N, R, B, acc, arr) /\ g.state = f.state
<1> DEFINE g == Resend(f)
           s == Say(g, "DELAY_RESP")
           t == TransmitTypeAd(g)
<1>2. LookForFdu(f) = IF g.wait = <<>> THEN g ELSE IF InWindow(g) THEN t ELSE s
  BY DEF LookForFdu
<1>3. g.state = f.state /\ Good(g, N, R, B, acc, arr)
  BY ResendGood
<1>4. f.state \in OpenStates => Flagged(g) = {}
  BY ResendGood
<1> HIDE DEF g
<1>5. Fits(g) /\ Run(g, N, B) /\ Open(g) /\ g \in FopRecord
  BY <1>3, GoodFacts DEF Good
<1>6. CASE g.wait # <<>> /\ InWindow(g)
  <2>1. Len(g.sent) < g.wnd
    BY <1>5, <1>6, InWindowRun
  <2>2. Good(t, N, R, B, acc, arr) /\ t.state = g.state
    BY <1>3, <1>4, <1>6, <2>1, TransmitTypeAdGood
  <2> QED BY <1>2, <1>3, <1>6, <2>2
<1>7. CASE g.wait # <<>> /\ ~ InWindow(g)
  <2>1. /\ s.sent = g.sent /\ s.vs = g.vs /\ s.nnr = g.nnr /\ s.wnd = g.wnd /\ s.tx = g.tx
        /\ s.wait = g.wait /\ s.hdr = g.hdr /\ s.state = g.state /\ s.signal = "DELAY_RESP"
    BY <1>5 DEF Say, FopRecord
  <2>2. Open(s)
    BY <1>5, SaySound DEF Open, Signals
  <2>3. s.signal \notin Failures
    BY <2>1 DEF Failures, Alerts
  <2> HIDE DEF s
  <2>4. Good(s, N, R, B, acc, arr)
    BY <1>3, <2>1, <2>2, <2>3, GoodSame
  <2> QED BY <1>2, <1>3, <1>7, <2>1, <2>4
<1> QED BY <1>2, <1>3, <1>6, <1>7

-----------------------------------------------------------------------------
(* The events of the sender. *)

(* Out of service or without an error, and tidy while in use. *)
Clean(g, acc, arr) ==
    /\ g.state # "INIT" => g.signal \notin Failures
    /\ Serves(g) => Tidy(g, acc, arr)

LEMMA GoodClean ==
    ASSUME NEW f, NEW N, NEW R, NEW B, NEW acc, NEW arr, Good(f, N, R, B, acc, arr)
    PROVE  Clean(f, acc, arr)
BY DEF Good, Clean

LEMMA AlertClean ==
    ASSUME NEW f, f \in FopRecord, f.ss \notin 1 .. 3, NEW sig, NEW acc, NEW arr
    PROVE  Clean(Alert(f, sig), acc, arr)
<1>1. Alert(f, sig).state = "INIT" /\ Alert(f, sig).ss = f.ss
  BY DEF Alert, FopRecord
<1> QED BY <1>1 DEF Clean, Serves, AdStates, OpenStates

(* Another state or timer, the queues as they are. *)
LEMMA GoodSet ==
    ASSUME NEW f, NEW N, NEW R, NEW B, NEW acc, NEW arr, Good(f, N, R, B, acc, arr)
    PROVE  /\ \A s \in AdStates : Good([f EXCEPT !.state = s], N, R, B, acc, arr)
           /\ Good([f EXCEPT !.armed = FALSE], N, R, B, acc, arr)
<1>1. f \in FopRecord /\ f.ss = 0 /\ f.state \in AdStates /\ Open(f) /\ f.signal \notin Failures
  BY GoodFacts DEF Good
<1>2. ASSUME NEW s \in AdStates PROVE Good([f EXCEPT !.state = s], N, R, B, acc, arr)
  <2> DEFINE g == [f EXCEPT !.state = s]
  <2>1. /\ g.sent = f.sent /\ g.vs = f.vs /\ g.nnr = f.nnr /\ g.wnd = f.wnd /\ g.tx = f.tx
        /\ g.wait = f.wait /\ g.hdr = f.hdr /\ g.signal = f.signal
    BY <1>1 DEF FopRecord
  <2>2. Open(g)
    BY <1>1, SetOpen DEF Open
  <2> HIDE DEF g
  <2>3. Good(g, N, R, B, acc, arr)
    BY <1>1, <2>1, <2>2, GoodSame
  <2> QED BY <2>3 DEF g
<1>3. Good([f EXCEPT !.armed = FALSE], N, R, B, acc, arr)
  <2> DEFINE g == [f EXCEPT !.armed = FALSE]
  <2>1. /\ g.sent = f.sent /\ g.vs = f.vs /\ g.nnr = f.nnr /\ g.wnd = f.wnd /\ g.tx = f.tx
        /\ g.wait = f.wait /\ g.hdr = f.hdr /\ g.signal = f.signal
    BY <1>1 DEF FopRecord
  <2>2. Open(g)
    BY <1>1, TimerSound DEF Open
  <2> HIDE DEF g
  <2>3. Good(g, N, R, B, acc, arr)
    BY <1>1, <2>1, <2>2, GoodSame
  <2> QED BY <2>3 DEF g
<1> QED BY <1>2, <1>3

(* osdlp_initiate_ad_retransmission flags the items and clears the tx queue. *)
LEMMA InitiateAdRetransmissionGood ==
    ASSUME NEW f, NEW N, NEW R, NEW B, NEW acc, NEW arr, Good(f, N, R, B, acc, arr)
    PROVE  LET g == InitiateAdRetransmission(f)
           IN  Good(g, N, R, B, acc, arr) /\ g.state = f.state
<1> DEFINE q == [i \in DOMAIN f.sent |->
                   IF f.sent[i].type = "A" THEN [f.sent[i] EXCEPT !.rt = TRUE] ELSE f.sent[i]]
           n == (f.txCnt + 1) % CntMod
           g == [f EXCEPT !.tx = <<>>, !.txCnt = n, !.armed = TRUE, !.sent = q]
<1>1. /\ f \in FopRecord /\ f.sent \in Seq(Item) /\ Len(f.sent) \in Nat
      /\ DOMAIN f.sent = 1 .. Len(f.sent)
  BY GoodFacts
<1>2. Open(f) /\ Run(f, N, B) /\ Tidy(f, acc, arr) /\ f.signal \notin Failures
  BY DEF Good
<1>3. InitiateAdRetransmission(f) = g
  BY <1>1 DEF InitiateAdRetransmission, FopRecord
<1>4. \A i \in 1 .. Len(f.sent) : q[i].sdu = f.sent[i].sdu
  <2>1. \A i \in 1 .. Len(f.sent) : f.sent[i] \in Item
    BY <1>1
  <2>2. \A it \in Item : [it EXCEPT !.rt = TRUE].sdu = it.sdu
    BY DEF Item
  <2> QED BY <1>1, <2>1, <2>2
<1> HIDE DEF q, n
<1>5. g.sent = q /\ g.wait = f.wait /\ g.tx = <<>> /\ g.signal = f.signal
  BY <1>1 DEF FopRecord
<1> HIDE DEF g
<1>6. Open(g) /\ g.state = f.state /\ Goes(f, g, N, N + Len(f.sent), B) /\ Len(g.sent) = Len(f.sent)
  BY <1>2, <1>3, InitiateAdRetransmissionRun
<1>7. Tidy(g, acc, arr)
  BY <1>2, <1>4, <1>5, <1>6, TidyCleared
<1>8. Good(g, N, R, B, acc, arr)
  BY <1>2, <1>5, <1>6, <1>7, GoodGoes
<1> QED BY <1>3, <1>6, <1>8

(* osdlp_remove_acked_frames, up to a number the receiver has reported. *)
LEMMA RemoveAckedGood ==
    ASSUME NEW f, NEW N, NEW R, NEW B, NEW acc, NEW arr, Good(f, N, R, B, acc, arr),
           NEW r \in N .. R, Led(f.tx) => r = N
    PROVE  LET g == RemoveAcked(f, Num(r)) IN Good(g, r, R, B, acc, arr) /\ g.state = f.state
<1> DEFINE d == r - N
           n == Len(f.sent)
           q == SubSeq(f.sent, d + 1, n)
           g == [f EXCEPT !.sent = q, !.nnr = Num(r), !.txCnt = 1]
           h == RemoveAcked(f, Num(r))
<1>1. /\ f \in FopRecord /\ Fits(f) /\ f.sent \in Seq(Item) /\ n \in Nat /\ N \in Int /\ R \in Int
      /\ r \in Int /\ N <= r /\ r <= R /\ R <= N + n
  BY GoodFacts
<1>2. Open(f) /\ Run(f, N, B) /\ Tidy(f, acc, arr) /\ f.signal \notin Failures
  BY DEF Good
<1>3. r \in N .. N + Len(f.sent) /\ d \in 0 .. n
  BY <1>1
<1>4. h = IF d = 0 THEN f ELSE g
  BY <1>1, <1>2, <1>3, AckedCountRun DEF RemoveAcked
<1>5. CASE d = 0
  <2>1. r = N
    BY <1>1, <1>5
  <2> QED BY <1>4, <1>5, <2>1
<1>6. CASE d # 0
  <2>1. /\ Open(h) /\ Run(h, r, B) /\ r + Len(h.sent) = N + Len(f.sent)
        /\ h.tx = f.tx /\ h.wnd = f.wnd /\ h.state = f.state
    BY <1>2, <1>3, RemoveAckedRun
  <2>2. h.sent = q /\ h.wait = f.wait /\ h.signal = f.signal
    <3> HIDE DEF q, d
    <3> QED BY <1>1, <1>4, <1>6 DEF FopRecord
  <2>3. Led(f.tx) => d = 0
    BY <1>1
  <2>4. h.sent = SubSeq(f.sent, d + 1, Len(f.sent))
    BY <2>2
  <2> HIDE DEF h, d
  <2>5. Tidy(h, acc, arr)
    BY <1>1, <1>2, <1>3, <2>1, <2>2, <2>3, <2>4, TidyFewer
  <2>6. R \in r .. r + Len(h.sent)
    BY <1>1, <2>1
  <2>7. Up(h.tx, h.wnd, r + Len(h.sent), R, B)
    BY <2>1 DEF Good
  <2>8. Good(h, r, R, B, acc, arr)
    BY <1>2, <2>1, <2>2, <2>5, <2>6, <2>7 DEF Good
  <2> QED BY <2>1, <2>8 DEF h
<1> QED BY <1>5, <1>6

(* Retransmission on a control word. *)
LEMMA RetransmitGood ==
    ASSUME RoomForTwoWindows, NEW f, NEW N, NEW R, NEW B, NEW acc, NEW arr,
           Good(f, N, R, B, acc, arr)
    PROVE  Good(Retransmit(f), N, R, B, acc, arr)
<1> DEFINE h == InitiateAdRetransmission(f)
           g == LookForFdu(h)
<1>1. Good(h, N, R, B, acc, arr)
  BY InitiateAdRetransmissionGood
<1> HIDE DEF h
<1>2. Good(g, N, R, B, acc, arr)
  BY <1>1, LookForFduGood
<1> HIDE DEF g
<1>3. Good([g EXCEPT !.state = "RT_NO_WAIT"], N, R, B, acc, arr)
  BY <1>2, GoodSet DEF AdStates, OpenStates
<1> QED BY <1>2, <1>3 DEF Retransmit, g, h

(* Every control word that reports a number of the window. *)
LEMMA OnClcwGood ==
    ASSUME RoomForTwoWindows, NEW f, NEW N, NEW R, NEW B, NEW acc, NEW arr,
           Good(f, N, R, B, acc, arr), NEW r \in N .. R, Led(f.tx) => r = N,
           NEW c \in Clcw, c.nr = Num(r)
    PROVE  Clean(OnClcw(f, c), acc, arr)
<1> DEFINE e == ClcwEvent(f, c)
           nr == Num(r)
           g == RemoveAcked(f, nr)
           l == LookForFdu(g)
           P(h) == Clean(h, acc, arr)
<1>1. /\ f \in FopRecord /\ Fits(f) /\ Sound(f) /\ f.ss = 0 /\ f.state \in AdStates
      /\ f.state \in {"ACTIVE", "RT_NO_WAIT", "RT_WAIT"}
  BY GoodFacts DEF Good, Open, AdStates, OpenStates
<1>2. e \in Events
  BY <1>1, ClcwEventKnown
<1>3. e # "NO_LIMIT"
  BY <1>1, RoomFacts, NoLimit
<1>4. Good(g, r, R, B, acc, arr) /\ g.state = f.state
  BY RemoveAckedGood
<1> HIDE DEF g
<1>5. g \in FopRecord /\ g.ss = 0
  BY <1>4, GoodFacts
<1>6. Good(l, r, R, B, acc, arr)
  BY <1>4, LookForFduGood
<1> HIDE DEF l
<1>7. \A h, M : Good(h, M, R, B, acc, arr) => P(h)
  BY GoodClean
<1>8. \A h, M : Good(h, M, R, B, acc, arr) => Good(LookForFdu(h), M, R, B, acc, arr)
  BY LookForFduGood
<1>9. {"ACTIVE", "RT_NO_WAIT", "RT_WAIT"} \subseteq AdStates
  BY DEF AdStates, OpenStates
<1>10. \A sig : P(Alert(f, sig)) /\ P(Alert(g, sig))
  BY <1>1, <1>5, AlertClean
<1>11. P(f) /\ P(Retransmit(f)) /\ P(Retransmit(g))
  BY <1>4, <1>7, RetransmitGood
<1> HIDE DEF P
<1>12. P(FopE2(f, nr))
  <2>1. Good(Cancel(g), r, R, B, acc, arr)
    BY <1>4, GoodSet DEF Cancel
  <2> QED BY <1>1, <1>7, <1>8, <2>1 DEF FopE2, g
<1>13. P(FopE6(f, nr))
  <2> DEFINE a == [g EXCEPT !.state = "ACTIVE"]
             m == [l EXCEPT !.state = "ACTIVE"]
  <2>1. Good(a, r, R, B, acc, arr) /\ Good(m, r, R, B, acc, arr)
    BY <1>4, <1>6, <1>9, GoodSet
  <2>2. FopE6(f, nr) = CASE f.state = "ACTIVE"     -> l
                         [] f.state = "RT_NO_WAIT" -> LookForFdu(a)
                         [] f.state = "RT_WAIT"    -> m
                         [] OTHER -> f
    BY DEF FopE6, g, l
  <2> HIDE DEF a, m
  <2> QED BY <1>1, <1>6, <1>7, <1>8, <2>1, <2>2
<1>14. P(FopE8(f, nr)) /\ P(FopE10(f))
  BY <1>1, <1>11 DEF FopE8, FopE10, g
<1>15. P(FopE9(f, nr))
  <2>1. Good([g EXCEPT !.state = "RT_WAIT"], r, R, B, acc, arr)
    BY <1>4, <1>9, GoodSet
  <2> QED BY <1>1, <1>7, <2>1 DEF FopE9, g
<1>16. P(FopE101(f, nr))
  BY <1>1, <1>10 DEF FopE101, g
<1>17. P(FopE11(f)) /\ P(FopE12(f)) /\ P(FopE103(f))
  <2>1. /\ Good([f EXCEPT !.state = "RT_WAIT"], N, R, B, acc, arr)
        /\ Good([f EXCEPT !.state = "RT_NO_WAIT"], N, R, B, acc, arr)
    BY <1>9, GoodSet
  <2> QED BY <1>1, <1>7, <2>1 DEF FopE11, FopE12, FopE103
<1>18. \A states, sig : P(AlertIn(f, states, sig))
  BY <1>10, <1>11 DEF AlertIn
<1>19. /\ P(FopE3(f)) /\ P(FopE4(f)) /\ P(FopE5(f)) /\ P(FopE7(f))
       /\ P(FopE13(f)) /\ P(FopE14(f)) /\ P(FopE102(f))
  BY <1>18 DEF FopE3, FopE4, FopE5, FopE7, FopE13, FopE14, FopE102
<1>20. P(FopE1(f))
  BY <1>1, <1>10, <1>11 DEF FopE1
<1> HIDE DEF e, nr
<1>21. CASE e \in {"E1", "E2", "E6", "E8", "E9", "E10", "E11", "E12", "E103", "E101"}
  <2>1. P(OnClcw(f, c))
    BY <1>12, <1>13, <1>14, <1>15, <1>16, <1>17, <1>20, <1>21 DEF OnClcw, e, nr
  <2> QED BY <2>1 DEF P
<1>22. CASE e \in {"E3", "E4", "E5", "E7", "E13", "E14", "E102"}
  <2>1. P(OnClcw(f, c))
    BY <1>19, <1>22 DEF OnClcw, e
  <2> QED BY <2>1 DEF P
<1> QED BY <1>2, <1>3, <1>21, <1>22 DEF Events

(* The timer. *)
LEMMA OnTimerGood ==
    ASSUME RoomForTwoWindows, NEW f, NEW N, NEW R, NEW B, NEW acc, NEW arr,
           Good(f, N, R, B, acc, arr)
    PROVE  Clean(OnTimer(f), acc, arr)
<1> DEFINE h == InitiateAdRetransmission(f)
           g == LookForFdu(h)
           P(x) == Clean(x, acc, arr)
<1>1. f \in FopRecord /\ f.ss = 0 /\ f.state \in {"ACTIVE", "RT_NO_WAIT", "RT_WAIT"}
  BY GoodFacts DEF AdStates, OpenStates
<1>2. P(f) /\ Tidy(f, acc, arr)
  BY GoodClean DEF Good
<1>3. P(g)
  <2>1. Good(h, N, R, B, acc, arr)
    BY InitiateAdRetransmissionGood
  <2> HIDE DEF h
  <2>2. Good(g, N, R, B, acc, arr)
    BY <2>1, LookForFduGood
  <2> QED BY <2>2, GoodClean
<1>4. \A sig : P(Alert(f, sig))
  BY <1>1, AlertClean
<1>5. ASSUME NEW n \in {1, 2, 3} PROVE P([f EXCEPT !.ss = n, !.state = "INIT"])
  <2> DEFINE s == [f EXCEPT !.ss = n, !.state = "INIT"]
  <2>1. s.sent = f.sent /\ s.tx = f.tx /\ s.wait = f.wait /\ s.state = "INIT"
    BY <1>1 DEF FopRecord
  <2> HIDE DEF s
  <2>2. Tidy(s, acc, arr)
    BY <1>2, <2>1, TidySame
  <2>3. P(s)
    BY <2>1, <2>2 DEF Clean
  <2> QED BY <2>3 DEF s
<1> HIDE DEF P, g
<1>6. P(FopE16(f)) /\ P(FopE104(f))
  <2>1. FopE16(f) = g \/ FopE16(f) = f
    BY <1>1 DEF FopE16, OpenStates, g, h
  <2>2. FopE104(f) = FopE16(f)
    BY <1>1 DEF FopE104
  <2> QED BY <1>2, <1>3, <2>1, <2>2
<1>7. P(FopE17(f))
  BY <1>2, <1>4 DEF FopE17, AlertIn
<1>8. P(FopE18(f))
  BY <1>1, <1>5 DEF FopE18
<1>9. P(OnTimer(f))
  BY <1>6, <1>7, <1>8 DEF OnTimer
<1> QED BY <1>9 DEF P

-----------------------------------------------------------------------------
(* The steps of the whole. *)

(* A failure is never the signal of a state in use. *)
LEMMA NotFailures ==
    /\ {"ACCEPT_TX", "DELAY_RESP", "REJECT_TX", "POSITIVE_DIR", "ACCEPT_DIR", "REJECT_DIR"}
          \cap Failures = {}
    /\ Alerts \subseteq Failures /\ "UNDEF_ERROR" \in Failures
BY DEF Failures, Alerts

(* The same queues, and no new error. *)
LEMMA CleanSame ==
    ASSUME NEW f, NEW g, NEW acc, NEW arr, Clean(f, acc, arr), Serves(g) => Serves(f),
           g.sent = f.sent, g.wait = f.wait, g.tx = f.tx,
           g.signal \notin Failures \/ g.state = "INIT" \/ (g.signal = f.signal /\ g.state = f.state)
    PROVE  Clean(g, acc, arr)
<1>1. Serves(g) => Tidy(g, acc, arr)
  BY TidySame DEF Clean
<1> QED BY <1>1 DEF Clean

(* Not in use, and no error. *)
LEMMA CleanUnused ==
    ASSUME NEW g, ~ Serves(g), g.state = "INIT" \/ g.signal \notin Failures, NEW acc, NEW arr
    PROVE  Clean(g, acc, arr)
BY DEF Clean

(* What is known of an open service. *)
LEMMA OpenGood ==
    ASSUME NEW f, Open(f), NEW vr, NEW d, NEW s, NEW acc, NEW arr,
           Agreed(f, vr, d, s, acc, arr), Clean(f, acc, arr)
    PROVE  \E N, R \in Int : \E B :
               /\ InService(f, vr, d, N, R, B) /\ Booked(B, N, R, acc, arr)
               /\ Good(f, N, R, B, acc, arr) /\ (Led(f.tx) => R = N)
<1>1. f.state \in AdStates /\ f.state # "INIT" /\ Serves(f)
  BY DEF Open, Serves, AdStates, OpenStates
<1>2. f.signal \notin Failures /\ Tidy(f, acc, arr)
  BY <1>1 DEF Clean
<1>3. PICK N \in Int, R \in Int :
              \E B : InService(f, vr, d, N, R, B) /\ Booked(B, N, R, acc, arr)
  BY <1>1 DEF Agreed
<1>4. PICK B : InService(f, vr, d, N, R, B) /\ Booked(B, N, R, acc, arr)
  BY <1>3
<1>5. Good(f, N, R, B, acc, arr)
  BY <1>2, <1>4 DEF InService, Good
<1>6. ASSUME Led(f.tx), R # N PROVE FALSE
  <2>1. N <= R /\ R <= N + Len(f.sent) /\ Len(f.sent) \in Nat
    BY <1>5, GoodFacts
  <2>2. 1 \in 1 .. Len(f.sent) /\ N \in N .. R - 1 /\ N + 1 - 1 = N
    BY <1>6, <2>1
  <2>3. f.sent[1].sdu = B.sdu[N]
    <3>1. f.sent[1].sdu = B.sdu[N + 1 - 1]
      BY <1>4, <2>2 DEF InService, Run
    <3> QED BY <2>2, <3>1
  <2>4. \E i \in DOMAIN arr : arr[i] = B.sdu[N]
    BY <1>4, <2>2 DEF Booked
  <2> QED BY <1>2, <1>6, <2>2, <2>3, <2>4 DEF Tidy, Lead
<1> QED BY <1>4, <1>5, <1>6

(* osdlp_handle_clcw, in every state. *)
LEMMA FopE1Answers ==
    ASSUME NEW f, f \in FopRecord, f.state \in {"INIT_NO_BC", "INIT_BC"}
    PROVE  FopE1(f).signal = "POSITIVE_DIR"
<1> DEFINE t == Tail(f.sent)
           r == [f EXCEPT !.sent = t]
<1>1. /\ [f EXCEPT !.state = "ACTIVE", !.armed = FALSE, !.signal = "POSITIVE_DIR"].signal
           = "POSITIVE_DIR"
      /\ [r EXCEPT !.state = "ACTIVE", !.armed = FALSE, !.signal = "POSITIVE_DIR"].signal
           = "POSITIVE_DIR"
  <2> HIDE DEF t
  <2> QED BY DEF FopRecord
<1>2. ReleaseCopyOfBc(f) = r \/ ReleaseCopyOfBc(f) = f
  BY DEF ReleaseCopyOfBc
<1> HIDE DEF r
<1> QED BY <1>1, <1>2 DEF FopE1

LEMMA ClcwClean ==
    ASSUME RoomForTwoWindows, NEW f, Sound(f), NEW vr, NEW d \in Seq(Clcw), d # <<>>, NEW s,
           NEW acc, NEW arr, Agreed(f, vr, d, s, acc, arr), Clean(f, acc, arr)
    PROVE  Clean(OnClcw(f, Head(d)), acc, arr)
<1> DEFINE c == Head(d)
           g == OnClcw(f, c)
<1>1. c \in Clcw /\ f \in FopRecord /\ Fits(f) /\ f.state \in FopStates
  BY Popped DEF Sound, Fits, FopRecord
<1>2. CASE f.state = "INIT"
  <2>1. Rests(f, g)
    BY <1>1, <1>2, IdleRests
  <2> HIDE DEF g
  <2>2. Clean(g, acc, arr)
    BY <1>2, <2>1, CleanSame DEF Rests, Serves
  <2> QED BY <2>2 DEF g
<1>3. CASE f.state \in AdStates
  <2>1. Open(f)
    BY <1>3 DEF Open
  <2>2. PICK N \in Int, R \in Int : \E B :
               /\ InService(f, vr, d, N, R, B) /\ Booked(B, N, R, acc, arr)
               /\ Good(f, N, R, B, acc, arr) /\ (Led(f.tx) => R = N)
    BY <2>1, OpenGood
  <2>3. PICK B : /\ InService(f, vr, d, N, R, B) /\ Good(f, N, R, B, acc, arr)
                 /\ (Led(f.tx) => R = N)
    BY <2>2
  <2>4. PICK r \in N .. R : c.nr = Num(r) /\ Down(Tail(d), r, R)
    BY <2>3, DownTail DEF InService
  <2>5. Led(f.tx) => r = N
    <3>1. R = N => r = N
      BY <2>4
    <3> QED BY <2>3, <3>1
  <2> HIDE DEF c
  <2> QED BY <1>1, <2>3, <2>4, <2>5, OnClcwGood DEF c
<1>4. CASE f.state \in {"INIT_NO_BC", "INIT_BC"}
  <2>1. Begins(f) /\ f.ss = 0
    BY <1>4 DEF Begins, Sound, Matched
  <2>2. AtStart(f, vr, d)
    BY <2>1 DEF Agreed
  <2>3. CASE g = f
    BY <2>3
  <2>4. f.lim # 0
    BY <1>1, RoomFacts
  <2>5. CASE \E sig \in Alerts : g = Alert(f, sig)
    BY <1>1, <2>1, <2>5, AlertClean
  <2>6. CASE g = FopE1(f)
    <3>1. /\ g.state = "ACTIVE" /\ g.sent = <<>> /\ g.wait = <<>> /\ g.tx = f.tx
      BY <1>4, <2>6, FopE1Opens
    <3>2. g.signal \notin Failures
      BY <1>1, <1>4, <2>6, FopE1Answers, NotFailures
    <3> HIDE DEF g
    <3>3. Tidy(g, acc, arr)
      BY <1>1, <2>2, <3>1, TidyEmpty DEF AtStart, FopRecord
    <3>4. Clean(g, acc, arr)
      BY <3>2, <3>3 DEF Clean
    <3> QED BY <3>4 DEF g
  <2> QED BY <1>1, <1>4, <2>3, <2>4, <2>5, <2>6, ClcwBefore
<1> QED BY <1>1, <1>2, <1>3, <1>4 DEF FopStates

(* osdlp_handle_timer_expired. *)
LEMMA TimerClean ==
    ASSUME RoomForTwoWindows, NEW f, Sound(f), NEW vr, NEW d, NEW s, NEW acc, NEW arr,
           Agreed(f, vr, d, s, acc, arr), Clean(f, acc, arr)
    PROVE  Clean(OnTimer(f), acc, arr)
<1>1. f \in FopRecord /\ Fits(f) /\ f.state \in FopStates
  BY DEF Sound, Fits, FopRecord
<1>2. CASE f.state = "INIT"
  <2>1. OnTimer(f) = f
    BY <1>1, <1>2, IdleRests
  <2> QED BY <2>1
<1>3. CASE f.state \in AdStates
  <2>1. Open(f)
    BY <1>3 DEF Open
  <2>2. \E N, R \in Int : \E B : Good(f, N, R, B, acc, arr)
    BY <2>1, OpenGood
  <2> QED BY <2>2, OnTimerGood
<1>4. CASE f.state = "INIT_NO_BC"
  <2> DEFINE h == [f EXCEPT !.ss = 4, !.state = "INIT"]
             a == Alert(f, "ALERT_T1")
  <2>1. f.ss = 0
    BY <1>4 DEF Sound, Matched
  <2>2. OnTimer(f) = a \/ OnTimer(f) = h
    BY <1>4 DEF OnTimer, FopE16, FopE104, FopE17, FopE18, OpenStates, AlertIn, FopStates
  <2>3. Clean(a, acc, arr)
    BY <1>1, <2>1, AlertClean
  <2>4. h.state = "INIT" /\ h.ss = 4
    BY <1>1 DEF FopRecord
  <2> HIDE DEF h, a
  <2>5. ~ Serves(h)
    BY <2>4 DEF Serves, AdStates, OpenStates
  <2>6. Clean(h, acc, arr)
    BY <2>4, <2>5, CleanUnused
  <2> QED BY <2>2, <2>3, <2>6
<1>5. CASE f.state = "INIT_BC"
  <2> DEFINE n == (f.txCnt + 1) % CntMod
             h == [f EXCEPT !.tx = <<>>, !.txCnt = n, !.armed = TRUE]
             b == Alert(h, "UNDEF_ERROR")
             x == [i \in 1 .. TxCap |-> FrameOf(Head(f.sent))]
             r == [b EXCEPT !.tx = x]
             k == Say(h, "ACCEPT_DIR")
  <2>1. f.ss = 0
    BY <1>5 DEF Sound, Matched
  <2>2. OnTimer(f) = Alert(f, "ALERT_T1") \/ OnTimer(f) = RetransmitBc(f)
    BY <1>5 DEF OnTimer, FopE16, FopE104, FopE17, FopE18, OpenStates, AlertIn, FopStates
  <2>3. RetransmitBc(f) = r \/ RetransmitBc(f) = k
    <3>1. h.sent = f.sent
      BY <1>1 DEF FopRecord
    <3>2. h = [f EXCEPT !.tx = <<>>, !.txCnt = (@ + 1) % CntMod, !.armed = TRUE]
      BY <1>1 DEF FopRecord
    <3> QED BY <3>1, <3>2 DEF RetransmitBc
  <2> HIDE DEF n, x
  <2>4. h.state = "INIT_BC" /\ h.ss = 0
    BY <1>1, <1>5, <2>1 DEF FopRecord
  <2>5. DOMAIN h = DOMAIN f /\ {"signal", "state", "ss"} \subseteq DOMAIN f
    BY <1>1 DEF FopRecord
  <2> HIDE DEF h
  <2>6. k.state = "INIT_BC" /\ k.ss = 0 /\ k.signal = "ACCEPT_DIR"
    BY <2>4, <2>5 DEF Say
  <2>7. r.state = "INIT" /\ r.ss = 0
    BY <2>4, <2>5 DEF Alert
  <2> HIDE DEF r, k
  <2>8. Clean(k, acc, arr)
    <3>1. ~ Serves(k) /\ k.signal \notin Failures
      BY <2>6, NotFailures DEF Serves, AdStates, OpenStates
    <3> QED BY <3>1, CleanUnused
  <2>9. Clean(r, acc, arr)
    <3>1. ~ Serves(r)
      BY <2>7 DEF Serves, AdStates, OpenStates
    <3> QED BY <2>7, <3>1, CleanUnused
  <2>10. Clean(Alert(f, "ALERT_T1"), acc, arr)
    BY <1>1, <2>1, AlertClean
  <2> QED BY <2>2, <2>3, <2>8, <2>9, <2>10
<1> QED BY <1>1, <1>2, <1>3, <1>4, <1>5 DEF FopStates

(* An SDU that is accepted is new. *)
LEMMA TidyEntered ==
    ASSUME NEW f, NEW g, g.sent = f.sent, g.tx = f.tx, f.sent \in Seq(Item), f.tx \in Seq(Frame),
           NEW acc \in Nat, g.wait = <<acc + 1>>, NEW arr \in Seq(1 .. acc), Tidy(f, acc, arr)
    PROVE  Tidy(g, acc + 1, arr)
<1> DEFINE e == acc + 1
<1>1. e \in 1 .. e /\ 1 .. acc \subseteq 1 .. e /\ e \notin 1 .. acc
  OBVIOUS
<1>2. g.wait[1] = e
  OBVIOUS
<1> HIDE DEF e
<1>3. \A j \in DOMAIN arr : arr[j] # e
  <2>1. \A j \in DOMAIN arr : arr[j] \in 1 .. acc
    OBVIOUS
  <2> QED BY <1>1, <2>1
<1>4. Flagged(g) = Flagged(f)
  BY DEF Flagged
<1>5. Distinct(f) /\ Known(f, acc) /\ Lead(f, arr)
  BY DEF Tidy
<1>6. Distinct(g)
  <2>1. /\ \A i \in 1 .. Len(f.sent) : f.sent[i].sdu # e
        /\ \A k \in 1 .. Len(f.tx) : f.tx[k].code = "AD" => f.tx[k].sdu # e
    BY <1>1, <1>5 DEF Known
  <2> QED BY <1>2, <1>4, <1>5, <2>1 DEF Distinct
<1>7. Known(g, e)
  BY <1>1, <1>2, <1>5 DEF Known
<1>8. Lead(g, arr)
  BY <1>2, <1>3, <1>4, <1>5 DEF Lead
<1> QED BY <1>6, <1>7, <1>8 DEF Tidy, e

(* osdlp_tc_transmit of the next SDU. *)
LEMMA RequestClean ==
    ASSUME RoomForTwoWindows, NEW f, Sound(f), NEW vr, NEW d, NEW s, NEW acc, NEW arr,
           Agreed(f, vr, d, s, acc, arr), Clean(f, acc, arr), acc + 1 \in SDU
    PROVE  LET g == TransmitAd(f, acc + 1)
           IN  IF g.signal \in {"ACCEPT_TX", "DELAY_RESP"}
               THEN Clean(g, acc + 1, arr) ELSE Clean(g, acc, arr)
<1> DEFINE e == acc + 1
           Answer(g) == IF g.signal \in {"ACCEPT_TX", "DELAY_RESP"}
                        THEN Clean(g, e, arr) ELSE Clean(g, acc, arr)
<1>1. f \in FopRecord /\ acc \in Nat /\ arr \in Seq(1 .. acc)
  BY DEF Sound, Fits, Agreed, Accounted
<1>2. CASE f.state \notin AdStates
  <2> DEFINE g == TransmitAd(f, e)
  <2>1. Rests(f, g) /\ g.signal = "REJECT_TX"
    BY <1>1, <1>2, RequestRests
  <2> HIDE DEF g, e
  <2>2. Clean(g, acc, arr)
    BY <2>1, NotFailures, CleanSame DEF Rests, Serves
  <2>3. Answer(g)
    BY <2>1, <2>2
  <2> QED BY <2>3 DEF g, e
<1>3. CASE f.state \in AdStates
  <2> DEFINE a == [f EXCEPT !.hdr = "AD"]
             w == <<e>>
             q == [a EXCEPT !.wait = w]
             p == [a EXCEPT !.wait = w, !.signal = "DELAY_RESP"]
             r == Say(a, "REJECT_TX")
             g == LookForFdu(q)
  <2>1. Open(f)
    BY <1>3 DEF Open
  <2>2. PICK N \in Int, R \in Int : \E B :
               InService(f, vr, d, N, R, B) /\ Good(f, N, R, B, acc, arr)
    BY <2>1, OpenGood
  <2>3. PICK B : InService(f, vr, d, N, R, B) /\ Good(f, N, R, B, acc, arr)
    BY <2>2
  <2> DEFINE V == N + Len(f.sent)
             C == Entered(B, e)
  <2>4. /\ Fits(f) /\ f.ss = 0 /\ f.sent \in Seq(Item) /\ f.tx \in Seq(Frame) /\ N \in Int
        /\ R \in Int /\ R \in N .. V /\ V \in Int
        /\ Run(f, N, B) /\ Up(f.tx, f.wnd, V, R, B) /\ Tidy(f, acc, arr)
    <3>1. /\ Fits(f) /\ f.ss = 0 /\ f.sent \in Seq(Item) /\ f.tx \in Seq(Frame) /\ N \in Int
          /\ R \in Int /\ Len(f.sent) \in Nat
      BY <2>3, GoodFacts
    <3>2. R \in N .. V /\ Run(f, N, B) /\ Up(f.tx, f.wnd, V, R, B) /\ Tidy(f, acc, arr)
      BY <2>3 DEF Good
    <3>3. V \in Int
      BY <3>1
    <3> HIDE DEF V
    <3> QED BY <3>1, <3>2, <3>3
  <2>5. B.end \in Int /\ V <= B.end
    BY <2>4, BookEnd
  <2>6. /\ a.sent = f.sent /\ a.vs = f.vs /\ a.nnr = f.nnr /\ a.wnd = f.wnd /\ a.tx = f.tx
        /\ a.wait = f.wait /\ a.hdr = "AD" /\ a.state = f.state /\ a.ss = 0 /\ a \in FopRecord
    BY <1>1, <2>4 DEF FopRecord, Codes
  <2>7. w \in Seq(SDU) /\ Len(w) = 1 /\ w = <<acc + 1>>
    OBVIOUS
  <2> HIDE DEF a, w
  <2>8. /\ r.sent = f.sent /\ r.tx = f.tx /\ r.wait = f.wait /\ r.state = f.state /\ r.ss = 0
        /\ r.signal = "REJECT_TX"
    BY <2>6 DEF Say, FopRecord
  <2>9. /\ p.sent = f.sent /\ p.tx = f.tx /\ p.state = f.state /\ p.ss = 0 /\ p.wait = w
        /\ p.signal = "DELAY_RESP"
    BY <2>6 DEF FopRecord
  <2>10. /\ q.sent = f.sent /\ q.vs = f.vs /\ q.nnr = f.nnr /\ q.wnd = f.wnd /\ q.tx = f.tx
         /\ q.hdr = "AD" /\ q.state = f.state /\ q.ss = 0 /\ q.wait = w /\ q \in FopRecord
         /\ q.signal = f.signal
    <3>1. a.signal = f.signal
      BY <1>1 DEF FopRecord, a
    <3> QED BY <2>6, <2>7, <3>1 DEF FopRecord
  <2> HIDE DEF r, p, q
  <2>11. Answer(r)
    <3>1. Clean(r, acc, arr)
      BY <2>4, <2>8, NotFailures, CleanSame DEF Serves
    <3> HIDE DEF e
    <3> QED BY <2>8, <3>1
  <2>12. ASSUME f.wait = <<>> PROVE Answer(p)
    <3>1. p.wait = <<acc + 1>>
      BY <2>7, <2>9
    <3>2. Tidy(p, e, arr)
      BY <1>1, <2>4, <2>9, <3>1, TidyEntered
    <3> HIDE DEF e
    <3>3. Clean(p, e, arr)
      BY <2>9, <3>2, NotFailures DEF Clean
    <3> QED BY <2>9, <3>3
  <2>13. ASSUME f.wait = <<>> PROVE Answer(g)
    <3>1. q.wait = <<acc + 1>> /\ q.wait = <<e>>
      BY <2>7, <2>10
    <3>2. Tidy(q, e, arr)
      BY <1>1, <2>4, <2>10, <3>1, TidyEntered
    <3> HIDE DEF e
    <3>3. Goes(f, q, N, V, C) /\ Len(q.sent) = Len(f.sent)
      BY <2>4, <2>10, <2>13, <3>1, EnteredRun
    <3>4. Open(q)
      <4>1. Len(q.wait) <= 1
        BY <2>7, <2>10
      <4>2. Fits(q)
        BY <2>4, <2>10, <4>1 DEF Fits
      <4>3. f.state \in AdStates /\ Matched(f)
        BY <2>1 DEF Open, Sound
      <4>4. Matched(q)
        BY <2>10, <4>3 DEF Matched, AllTypeA, Adjacent, Flagged, AdStates, OpenStates
      <4> QED BY <2>10, <4>2, <4>3, <4>4 DEF Open, Sound
    <3>5. Up(f.tx, f.wnd, V, R, C)
      <4> HIDE DEF V
      <4> QED BY <2>4, <2>5, UpEntered
    <3> HIDE DEF C
    <3>6. Run(q, N, C)
      BY <3>3 DEF Goes
    <3>7. q.signal \notin Failures
      BY <2>3, <2>10 DEF Good
    <3>8. Good(q, N, R, C, e, arr)
      <4>1. Up(q.tx, q.wnd, N + Len(q.sent), R, C) /\ R \in N .. N + Len(q.sent)
        BY <2>4, <2>10, <3>5
      <4> QED BY <3>2, <3>4, <3>6, <3>7, <4>1 DEF Good
    <3>9. Good(g, N, R, C, e, arr)
      BY <3>8, LookForFduGood
    <3>10. g.signal \in {"ACCEPT_TX", "DELAY_RESP", "UNDEF_ERROR"}
      <4>1. q.wait # <<>>
        BY <3>1
      <4> QED BY <3>4, <3>6, <4>1, LookForFduAnswers
    <3> HIDE DEF g
    <3>11. g.signal \in {"ACCEPT_TX", "DELAY_RESP"}
      BY <3>9, <3>10, NotFailures DEF Good
    <3>12. Clean(g, e, arr)
      BY <3>9, GoodClean
    <3> QED BY <3>11, <3>12
  <2> HIDE DEF V, C, e
  <2>14. f.state \in {"ACTIVE", "RT_NO_WAIT", "RT_WAIT"}
    BY <1>3 DEF AdStates, OpenStates
  <2>15. FopE19(a, e) = g \/ FopE19(a, e) = p
    BY <2>6, <2>14 DEF FopE19, OpenStates, g, q, p, w
  <2>16. TransmitAd(f, e) = r \/ (f.wait = <<>> /\ TransmitAd(f, e) = FopE19(a, e))
    BY <2>6 DEF TransmitAd, FopE20, r, a
  <2> HIDE DEF g, Answer
  <2>17. Answer(TransmitAd(f, e))
    BY <2>11, <2>12, <2>13, <2>15, <2>16
  <2> QED BY <2>17 DEF Answer, e
<1> QED BY <1>2, <1>3

(* A frame leaves the tx queue. *)
LEMMA UplinkClean ==
    ASSUME NEW f, Sound(f), f.tx # <<>>, NEW vr, NEW d, NEW s, NEW acc, NEW arr,
           Agreed(f, vr, d, s, acc, arr), Clean(f, acc, arr), NEW b
    PROVE  Clean([f EXCEPT !.tx = Tail(@)], acc, b)
<1> DEFINE g == [f EXCEPT !.tx = Tail(@)]
<1>1. f \in FopRecord /\ Fits(f) /\ f.tx \in Seq(Frame)
  BY DEF Sound, Fits, FopRecord
<1>2. /\ g.state = f.state /\ g.ss = f.ss /\ g.signal = f.signal
      /\ g.sent = f.sent /\ g.wait = f.wait /\ g.tx = Tail(f.tx)
  BY <1>1 DEF FopRecord
<1> HIDE DEF g
<1>3. ASSUME Serves(f) PROVE Tidy(g, acc, b)
  <2>1. Tidy(f, acc, arr)
    BY <1>3 DEF Clean
  <2>2. PICK N \in Int, R \in Int : \E B : InService(f, vr, d, N, R, B)
    BY <1>3 DEF Agreed
  <2>3. PICK B : InService(f, vr, d, N, R, B)
    BY <2>2
  <2>4. \A i \in 2 .. Len(f.tx) : f.tx[i].code = "AD"
    BY <1>1, <2>1, <2>3, ServiceCrowd DEF InService
  <2> QED BY <1>1, <1>2, <2>1, <2>4, TidyTail
<1>4. Clean(g, acc, b)
  BY <1>2, <1>3 DEF Clean, Serves
<1> QED BY <1>4 DEF g

(* A directive that sends a control frame, on a quiet channel. *)
LEMMA ControlFrameClean ==
    ASSUME NEW f, Fits(f), f.ss = 0, NEW code \in {"UNLOCK", "SETVR"}, NEW acc, NEW arr
    PROVE  Clean(TransmitTypeBc(f, code), acc, arr)
<1> DEFINE it == [type |-> "B", seq |-> f.vs, rt |-> FALSE, code |-> code, sdu |-> NoSDU]
           g == [f EXCEPT !.hdr = code, !.txCnt = 1, !.armed = TRUE]
           x == Append(g.tx, FrameOf(it))
           y == Append(g.sent, it)
           a == Alert(g, "UNDEF_ERROR")
           r == [g EXCEPT !.sent = y, !.tx = x, !.state = "INIT_BC", !.signal = "ACCEPT_DIR"]
<1>1. f \in FopRecord
  BY DEF Fits
<1>2. TransmitTypeBc(f, code) = a \/ TransmitTypeBc(f, code) = r
  BY DEF TransmitTypeBc
<1> HIDE DEF x, y, it
<1>3. a.state = "INIT" /\ a.ss = 0
  BY <1>1 DEF FopRecord, Alert
<1>4. r.state = "INIT_BC" /\ r.ss = 0 /\ r.signal = "ACCEPT_DIR"
  BY <1>1 DEF FopRecord
<1> HIDE DEF a, r
<1>5. ~ Serves(a) /\ ~ Serves(r) /\ r.signal \notin Failures
  BY <1>3, <1>4, NotFailures DEF Serves, AdStates, OpenStates
<1>6. Clean(a, acc, arr) /\ Clean(r, acc, arr)
  BY <1>3, <1>5, CleanUnused
<1> QED BY <1>2, <1>6

(* The initiating directives. *)
LEMMA InitiateClean ==
    ASSUME CopSound, NEW acc, NEW arr, Clean(fop, acc, arr), Initiate
    PROVE  Clean(fop', acc, arr)
<1> DEFINE f == InitializeCop(fop)
<1>1. /\ fop \in FopRecord /\ Fits(f) /\ f \in FopRecord /\ f.ss = 0
      /\ f.sent = <<>> /\ f.wait = <<>> /\ f.tx = <<>>
  <2>1. Sound(fop) /\ fop \in FopRecord /\ fop.tx = <<>>
    BY DEF CopSound, Sound, Fits, Initiate, Quiet
  <2>2. Fits(f) /\ f.ss = 0 /\ f.sent = <<>> /\ f.wait = <<>> /\ f.tx = fop.tx
    BY <2>1, InitializeCopPurges
  <2> HIDE DEF f
  <2> QED BY <2>1, <2>2 DEF Fits
<1> HIDE DEF f
<1>2. ASSUME fop' = Say(fop, "REJECT_DIR") PROVE Clean(fop', acc, arr)
  <2>1. /\ fop'.state = fop.state /\ fop'.ss = fop.ss /\ fop'.sent = fop.sent
        /\ fop'.wait = fop.wait /\ fop'.tx = fop.tx /\ fop'.signal = "REJECT_DIR"
    BY <1>1, <1>2 DEF Say, FopRecord
  <2> QED BY <2>1, CleanSame, NotFailures DEF Serves
<1>3. CASE InitiateNoClcw
  <2> DEFINE g == [f EXCEPT !.state = "ACTIVE", !.signal = "POSITIVE_DIR"]
  <2>1. fop' = g \/ fop' = Say(fop, "REJECT_DIR")
    BY <1>3 DEF InitiateNoClcw, f
  <2>2. g.sent = <<>> /\ g.wait = <<>> /\ g.tx = <<>> /\ g.signal = "POSITIVE_DIR"
    BY <1>1 DEF FopRecord
  <2> HIDE DEF g
  <2>3. Tidy(g, acc, arr)
    <3>1. Len(<<>>) = 0 /\ 1 .. Len(<<>>) = {} /\ <<>> \in Seq(Frame) /\ 0 <= 1
      OBVIOUS
    <3> QED BY <2>2, <3>1, TidyEmpty DEF ControlOnly
  <2>4. Clean(g, acc, arr)
    BY <2>2, <2>3, NotFailures DEF Clean
  <2> QED BY <1>2, <2>1, <2>4
<1>4. CASE InitiateWithClcw
  <2> DEFINE t == Start(f)
             g == [t EXCEPT !.state = "INIT_NO_BC", !.signal = "ACCEPT_DIR"]
  <2>1. fop' = g \/ fop' = Say(fop, "REJECT_DIR")
    BY <1>4 DEF InitiateWithClcw, f
  <2>2. g.state = "INIT_NO_BC" /\ g.ss = 0 /\ g.signal = "ACCEPT_DIR"
    BY <1>1 DEF FopRecord, Start
  <2> HIDE DEF g
  <2>3. ~ Serves(g) /\ g.signal \notin Failures
    BY <2>2, NotFailures DEF Serves, AdStates, OpenStates
  <2>4. Clean(g, acc, arr)
    BY <2>3, CleanUnused
  <2> QED BY <1>2, <2>1, <2>4
<1>5. CASE InitiateWithUnlock
  BY <1>1, <1>5, ControlFrameClean DEF InitiateWithUnlock, f
<1>6. CASE \E v \in NewVrs : InitiateWithSetvr(v)
  <2>1. PICK v \in NewVrs : InitiateWithSetvr(v)
    BY <1>6
  <2> DEFINE h == [f EXCEPT !.vs = v, !.nnr = v]
  <2>2. fop' = TransmitTypeBc(h, "SETVR")
    BY <2>1 DEF InitiateWithSetvr, f
  <2>3. v \in SeqNum
    BY NewVrsAssumption
  <2>4. h \in FopRecord /\ h.ss = 0 /\ h.sent = f.sent /\ h.wait = f.wait /\ h.tx = f.tx
    BY <1>1, <2>3 DEF FopRecord
  <2> HIDE DEF h
  <2>5. Fits(h)
    BY <1>1, <2>4 DEF Fits
  <2> QED BY <2>2, <2>4, <2>5, ControlFrameClean
<1> QED BY <1>3, <1>4, <1>5, <1>6 DEF Initiate

(* The other directives. *)
LEMMA ManageClean ==
    ASSUME Sound(fop), NEW acc, NEW arr, Clean(fop, acc, arr), Manage
    PROVE  Clean(fop', acc, arr)
<1>1. fop \in FopRecord /\ fop.ss \in 0 .. 4
  BY DEF Sound, Fits, FopRecord
<1>2. CASE TerminateAd /\ fop.state = "INIT"
  <2>1. /\ fop'.state = fop.state /\ fop'.ss = fop.ss /\ fop'.sent = fop.sent
        /\ fop'.wait = fop.wait /\ fop'.tx = fop.tx /\ fop'.signal = "POSITIVE_DIR"
    BY <1>1, <1>2 DEF TerminateAd, Say, FopRecord
  <2> QED BY <2>1, CleanSame, NotFailures DEF Serves
<1>3. CASE TerminateAd /\ fop.state # "INIT"
  <2>1. fop' = Alert(fop, "POSITIVE_DIR") /\ fop.ss = 0
    BY <1>3 DEF TerminateAd, Sound, Matched
  <2> QED BY <1>1, <2>1, AlertClean
<1>4. CASE ResumeAd
  <2> DEFINE q == Resumed[fop.ss]
             g == [fop EXCEPT !.armed = TRUE, !.ss = 0, !.state = q, !.signal = "POSITIVE_DIR"]
  <2>1. fop' = g /\ fop.ss \in 1 .. 4
    BY <1>1, <1>4 DEF ResumeAd, Start, FopRecord
  <2>2. fop.ss = 4 => q = "INIT_NO_BC"
    BY DEF Resumed
  <2> HIDE DEF q
  <2>3. /\ g.sent = fop.sent /\ g.tx = fop.tx /\ g.wait = fop.wait /\ g.state = q /\ g.ss = 0
        /\ g.signal = "POSITIVE_DIR"
    BY <1>1 DEF FopRecord
  <2> HIDE DEF g
  <2>4. Serves(g) => Serves(fop)
    <3>1. fop.ss \in 1 .. 3 \/ fop.ss = 4
      BY <2>1
    <3> QED BY <2>2, <2>3, <3>1 DEF Serves, AdStates, OpenStates
  <2>5. Clean(g, acc, arr)
    BY <2>3, <2>4, CleanSame, NotFailures
  <2> QED BY <2>1, <2>5
<1> QED BY <1>2, <1>3, <1>4 DEF Manage

(* Every step. *)
CleanNow == Clean(fop, accepted, Arrived)

LEMMA CleanStep ==
    ASSUME RoomForTwoWindows, CopSound, AgreedNow, CleanNow, [CopNext]_copVars
    PROVE  CleanNow'
<1>1. /\ Sound(fop) /\ down \in Seq(Clcw) /\ fop \in FopRecord
      /\ Agreed(fop, farm.vr, down, starts, accepted, Arrived)
      /\ Clean(fop, accepted, Arrived)
  BY DEF CopSound, AgreedNow, CleanNow, Sound, Fits
<1>2. ASSUME accepted' = accepted, Arrived' = Arrived, Clean(fop', accepted, Arrived)
      PROVE  CleanNow'
  BY <1>2 DEF CleanNow
<1>3. CASE Offer
  <2>1. /\ accepted + 1 \in SDU /\ fop' = TransmitAd(fop, accepted + 1) /\ Arrived' = Arrived
        /\ accepted' = IF fop'.signal \in {"ACCEPT_TX", "DELAY_RESP"}
                       THEN accepted + 1 ELSE accepted
    BY <1>3 DEF Offer, RequestAd, farmVars, Arrived
  <2>2. IF fop'.signal \in {"ACCEPT_TX", "DELAY_RESP"}
        THEN Clean(fop', accepted + 1, Arrived) ELSE Clean(fop', accepted, Arrived)
    BY <1>1, <2>1, RequestClean
  <2> QED BY <2>1, <2>2 DEF CleanNow
<1>4. CASE TakeClcw
  <2>1. /\ down # <<>> /\ fop' = OnClcw(fop, Head(down))
        /\ accepted' = accepted /\ Arrived' = Arrived
    BY <1>4 DEF TakeClcw, HandleClcw, farmVars, Arrived
  <2>2. Clean(fop', accepted, Arrived)
    BY <1>1, <2>1, ClcwClean
  <2> QED BY <1>2, <2>1, <2>2
<1>5. CASE Timer
  <2>1. accepted' = accepted /\ Arrived' = Arrived
    BY <1>5 DEF Timer, farmVars, Arrived
  <2>2. CASE Expire
    <3>1. /\ fop'.state = fop.state /\ fop'.ss = fop.ss /\ fop'.sent = fop.sent
          /\ fop'.wait = fop.wait /\ fop'.tx = fop.tx /\ fop'.signal = fop.signal
      BY <1>1, <2>2 DEF Expire, Cancel, FopRecord
    <3>2. Clean(fop', accepted, Arrived)
      BY <1>1, <3>1, CleanSame DEF Serves
    <3> QED BY <1>2, <2>1, <3>2
  <2>3. CASE HandleTimerExpired
    <3>1. Clean(fop', accepted, Arrived)
      BY <1>1, <2>3, TimerClean DEF HandleTimerExpired
    <3> QED BY <1>2, <2>1, <3>1
  <2> QED BY <1>5, <2>2, <2>3 DEF Timer
<1>6. CASE Initiate \/ Manage
  <2>1. accepted' = accepted /\ Arrived' = Arrived
    BY <1>6 DEF Initiate, Manage, farmVars, Arrived
  <2>2. Clean(fop', accepted, Arrived)
    BY <1>1, <1>6, InitiateClean, ManageClean
  <2> QED BY <1>2, <2>1, <2>2
<1>7. CASE HearFrame \/ LoseFrame
  <2>1. accepted' = accepted /\ fop.tx # <<>> /\ fop' = [fop EXCEPT !.tx = Tail(@)]
    BY <1>7, HearsFrame DEF HearFrame, LoseFrame
  <2>2. Clean(fop', accepted, Arrived')
    BY <1>1, <2>1, UplinkClean
  <2> QED BY <2>1, <2>2 DEF CleanNow
<1>8. CASE Report \/ LoseClcw \/ Release \/ UNCHANGED copVars
  <2>1. fop' = fop /\ accepted' = accepted /\ Arrived' = Arrived
    BY <1>8 DEF Report, LoseClcw, Release, BufferRelease, fopVars, farmVars, copVars, Arrived
  <2> QED BY <1>1, <1>2, <2>1
<1>9. ASSUME NEW n \in 1 .. RxCap, Take(n) PROVE CleanNow'
  <2>1. /\ fop' = fop /\ accepted' = accepted /\ n \in 1 .. Len(rx)
        /\ rx' = SubSeq(rx, n + 1, Len(rx)) /\ taken' = taken \o SubSeq(rx, 1, n)
    BY <1>9 DEF Take, Consume, fopVars
  <2>2. rx \in Seq(SDU) /\ taken \in Seq(SDU)
    BY DEF CopSound, FarmTypeOK
  <2>3. Arrived' = Arrived
    BY <2>1, <2>2, TakeArrives DEF Arrived
  <2> QED BY <1>1, <1>2, <2>1, <2>3
<1> QED BY <1>3, <1>4, <1>5, <1>6, <1>7, <1>8, <1>9 DEF CopNext

-----------------------------------------------------------------------------
(* The theorems. *)

(* The inductive invariant. *)
InRoom == RoomForTwoWindows /\ AgreedNow /\ CleanNow

LEMMA InRoomNext == CopSound /\ CopSound' /\ InRoom /\ [CopNext]_copVars => InRoom'
<1> SUFFICES ASSUME CopSound, CopSound', InRoom, [CopNext]_copVars PROVE InRoom'
  OBVIOUS
<1>1. CleanNow'
  BY CleanStep DEF InRoom
<1>2. ErrorEnds(fop')
  BY <1>1, NotFailures DEF CleanNow, Clean, ErrorEnds
<1>3. AgreedNow'
  BY <1>2, AgreedStep DEF InRoom
<1>4. RoomForTwoWindows'
  BY DEF InRoom, RoomForTwoWindows
<1> QED BY <1>1, <1>3, <1>4 DEF InRoom

LEMMA InRoomInit == RoomForTwoWindows /\ CopInit => InRoom
<1> SUFFICES ASSUME RoomForTwoWindows, CopInit PROVE CleanNow
  BY AgreedInit DEF InRoom
<1>1. fop.state = "INIT" /\ fop.ss = 0
  BY DEF CopInit, FopInit
<1> QED BY <1>1 DEF CleanNow, Clean, Serves, AdStates, OpenStates

LEMMA InRoomAlways == RoomForTwoWindows /\ CopSpec => [](CopSound /\ InRoom)
<1>1. RoomForTwoWindows /\ CopInit => InRoom
  BY InRoomInit
<1>2. CopSound /\ CopSound' /\ InRoom /\ [CopNext]_copVars => InRoom'
  BY InRoomNext
<1> QED BY <1>1, <1>2, CopSoundAlways, PTL DEF CopSpec

(***************************************************************************)
(* With a transmission limit other than 0, a sent queue that takes a       *)
(* window and a tx queue that takes two, an alert or error of the FOP      *)
(* always ends its service: ErrorEndsService, which osdlp_cop.h 350-353    *)
(* promises and too small a queue breaks.                                  *)
(***************************************************************************)
THEOREM RoomEndsService == RoomForTwoWindows /\ CopSpec => []ErrorEndsService
<1>1. InRoom => ErrorEndsService
  BY DEF InRoom, CleanNow, Clean, Failures, ErrorEndsService
<1> QED BY <1>1, InRoomAlways, PTL

(* A window of frames and the sent ones once more: two windows are enough. *)
THEOREM RoomSuffices == RoomForTwoWindows /\ CopSpec => []TxBounded
<1>1. CopSound /\ InRoom => TxBounded
  <2> SUFFICES ASSUME CopSound, InRoom, Serving PROVE Len(fop.tx) <= fop.wnd + Len(fop.sent)
    BY DEF TxBounded
  <2>1. Serves(fop) /\ Fits(fop)
    BY DEF CopSound, Sound, Serving, Serves
  <2>2. Tidy(fop, accepted, Arrived)
    BY <2>1 DEF InRoom, CleanNow, Clean
  <2>3. PICK N \in Int, R \in Int : \E B : InService(fop, farm.vr, down, N, R, B)
    BY <2>1 DEF InRoom, AgreedNow, Agreed
  <2>4. PICK B : InService(fop, farm.vr, down, N, R, B)
    BY <2>3
  <2> QED BY <2>1, <2>2, <2>4, ServiceCrowd DEF InService
<1> QED BY <1>1, InRoomAlways, PTL

(* The two ends agree on the window, on no other condition. *)
THEOREM RoomKeepsWindow == RoomForTwoWindows /\ CopSpec => []NumbersAgree
BY RoomEndsService, WindowAgreed, PTL

(* COP-1 implements AdService, on no other condition. *)
THEOREM RoomKeepsService == RoomForTwoWindows /\ CopSpec => AdServiceKept
BY RoomEndsService, ServiceImplemented, PTL
=============================================================================
