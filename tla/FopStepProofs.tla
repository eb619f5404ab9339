---------------------------- MODULE FopStepProofs ----------------------------
(***************************************************************************)
(* What a step of Fop may never do: UnackedKept, ClearedComesAgain,        *)
(* TimerLostOnlyInRtWait and FateSignalled, for every modulus, capacity    *)
(* and setting.  Every handler that leaves an open service open goes on    *)
(* from the items it found (Follows), keeps the timer on what is           *)
(* outstanding (Watched) and says what it did with the waiting SDU         *)
(* (Answered).                                                             *)
(***************************************************************************)
EXTENDS FopProofs

-----------------------------------------------------------------------------
(* What a step makes of the outstanding items. *)

(* The same item, whatever its flag. *)
SameItem(x, y) == x.seq = y.seq /\ x.sdu = y.sdu /\ x.code = y.code /\ x.type = y.type

(* The item is to be sent again, or its frame is waiting to be sent. *)
Coming(f, i) == f.sent[i].rt \/ Queued(f, i)

(***************************************************************************)
(* g goes on from f with the first k items gone: it keeps the others, with *)
(* what is to come of them, and what it has sent beyond them is to come.   *)
(***************************************************************************)
Follows(f, g, k) ==
    /\ Len(f.sent) - k <= Len(g.sent)
    /\ \A i \in 1 .. Len(f.sent) - k :
          SameItem(g.sent[i], f.sent[i + k]) /\ (Coming(f, i + k) => Coming(g, i))
    /\ \A i \in Len(f.sent) - k + 1 .. Len(g.sent) : Coming(g, i)

(* What a refused frame leaves. *)
Purged(g) == g.sent = <<>> /\ Len(g.tx) = TxCap

(* An open service has ended, has been purged or goes on. *)
Outcome(f, g, k) == g.state = "INIT" \/ Purged(g) \/ Follows(f, g, k)

(* The timer stays on for what is outstanding, and is on for what is sent. *)
KeepsTimer(f, g) == g.sent # <<>> /\ (f.armed \/ Len(g.sent) > Len(f.sent)) => g.armed

(* The types that the following steps use. *)
LEMMA OpenFields ==
    ASSUME NEW f, Sound(f)
    PROVE  /\ f \in FopRecord /\ Fits(f) /\ f.sent \in Seq(Item) /\ f.tx \in Seq(Frame)
           /\ DOMAIN f.sent = 1 .. Len(f.sent) /\ Len(f.sent) \in Nat /\ Len(f.tx) \in Nat
           /\ DOMAIN f.tx = 1 .. Len(f.tx)
           /\ Len(f.sent) <= SentCap /\ Len(f.tx) <= TxCap
           /\ \A i \in 1 .. Len(f.sent) : f.sent[i] \in Item
BY DEF Sound, Fits, FopRecord

(* A frame depends on the fields that a flag does not touch. *)
LEMMA SameFrame ==
    ASSUME NEW x, NEW y, SameItem(x, y)
    PROVE  FrameOf(x) = FrameOf(y)
BY DEF SameItem, FrameOf

(* The same items over a tx queue that has lost nothing. *)
LEMMA FollowsSame ==
    ASSUME NEW f, NEW g, Sound(f), g.sent = f.sent,
           \A m \in DOMAIN f.tx : \E n \in DOMAIN g.tx : g.tx[n] = f.tx[m]
    PROVE  Follows(f, g, 0)
<1>1. Len(f.sent) \in Nat
  BY OpenFields
<1>2. ASSUME NEW i, Queued(f, i) PROVE Queued(g, i)
  <2>1. PICK m \in DOMAIN f.tx : f.tx[m] = FrameOf(f.sent[i])
    BY <1>2 DEF Queued
  <2>2. PICK n \in DOMAIN g.tx : g.tx[n] = f.tx[m]
    BY <2>1
  <2> QED BY <2>1, <2>2 DEF Queued
<1>3. ASSUME NEW i \in 1 .. Len(f.sent) - 0
      PROVE  SameItem(g.sent[i], f.sent[i + 0]) /\ (Coming(f, i + 0) => Coming(g, i))
  <2>1. i + 0 = i
    BY <1>1
  <2> QED BY <1>2, <2>1 DEF SameItem, Coming
<1>4. Len(f.sent) - 0 + 1 .. Len(g.sent) = {} /\ Len(f.sent) - 0 <= Len(g.sent)
  BY <1>1
<1> QED BY <1>3, <1>4 DEF Follows

(* One step after the other. *)
LEMMA FollowsOn ==
    ASSUME NEW f, NEW g, NEW h, NEW k \in 0 .. Len(f.sent), Follows(f, g, k), Follows(g, h, 0),
           Len(f.sent) \in Nat, Len(g.sent) \in Nat, Len(h.sent) \in Nat
    PROVE  Follows(f, h, k)
<1>1. /\ Len(f.sent) - k <= Len(g.sent) /\ Len(g.sent) <= Len(h.sent)
      /\ Len(f.sent) - k \in Nat
  BY DEF Follows
<1>2. ASSUME NEW i \in 1 .. Len(g.sent)
      PROVE  SameItem(h.sent[i], g.sent[i]) /\ (Coming(g, i) => Coming(h, i))
  <2>1. i \in 1 .. Len(g.sent) - 0 /\ i + 0 = i
    OBVIOUS
  <2> QED BY <2>1 DEF Follows
<1>3. ASSUME NEW i \in 1 .. Len(f.sent) - k
      PROVE  SameItem(h.sent[i], f.sent[i + k]) /\ (Coming(f, i + k) => Coming(h, i))
  <2>1. SameItem(g.sent[i], f.sent[i + k]) /\ (Coming(f, i + k) => Coming(g, i))
    BY DEF Follows
  <2>2. i \in 1 .. Len(g.sent)
    BY <1>1
  <2>3. SameItem(h.sent[i], g.sent[i]) /\ (Coming(g, i) => Coming(h, i))
    BY <1>2, <2>2
  <2> QED BY <2>1, <2>3 DEF SameItem
<1>4. ASSUME NEW i \in Len(f.sent) - k + 1 .. Len(h.sent) PROVE Coming(h, i)
  <2>1. CASE i <= Len(g.sent)
    <3>1. i \in Len(f.sent) - k + 1 .. Len(g.sent) /\ i \in 1 .. Len(g.sent)
      BY <1>1, <2>1
    <3> QED BY <1>2, <3>1 DEF Follows
  <2>2. CASE ~ (i <= Len(g.sent))
    <3>1. i \in Len(g.sent) - 0 + 1 .. Len(h.sent)
      BY <1>1, <2>2
    <3> QED BY <3>1 DEF Follows
  <2> QED BY <2>1, <2>2
<1>5. Len(f.sent) - k <= Len(h.sent)
  BY <1>1
<1> QED BY <1>3, <1>4, <1>5 DEF Follows

(* osdlp_remove_acked_frames takes the acknowledged items off the front. *)
LEMMA RemoveAckedFollows ==
    ASSUME NEW f, Open(f), NEW nr \in SeqNum
    PROVE  LET g == RemoveAcked(f, nr) IN
           /\ Follows(f, g, AckedCount(f, nr)) /\ Len(g.sent) = Len(f.sent) - AckedCount(f, nr)
           /\ g.tx = f.tx /\ g.armed = f.armed /\ g.wait = f.wait /\ g.signal = f.signal
<1> DEFINE k == AckedCount(f, nr)
           q == SubSeq(f.sent, k + 1, Len(f.sent))
           g == [f EXCEPT !.sent = q, !.nnr = nr, !.txCnt = 1]
<1>1. /\ f \in FopRecord /\ f.sent \in Seq(Item) /\ Len(f.sent) \in Nat /\ Sound(f)
      /\ \A i \in 1 .. Len(f.sent) : f.sent[i] \in Item
  BY OpenFields DEF Open
<1>2. k \in 0 .. Len(f.sent)
  BY AckedCountDefined DEF Open, Sound
<1>3. CASE k = 0
  <2>1. RemoveAcked(f, nr) = f
    BY <1>3 DEF RemoveAcked
  <2>2. Follows(f, f, 0)
    BY <1>1, FollowsSame
  <2> QED BY <1>1, <1>3, <2>1, <2>2
<1>4. CASE k # 0
  <2>1. RemoveAcked(f, nr) = g
    BY <1>4 DEF RemoveAcked
  <2> HIDE DEF k
  <2>2. Len(q) = Len(f.sent) - k /\ \A i \in 1 .. Len(f.sent) - k : q[i] = f.sent[i + k]
    <3>1. \A i \in k + 1 .. Len(f.sent) : f.sent[i] \in Item
      BY <1>1, <1>2
    <3>2. k + 1 \in Int /\ Len(f.sent) \in Int /\ Len(f.sent) - (k + 1) + 1 = Len(f.sent) - k
      BY <1>1, <1>2
    <3>3. \A i \in 1 .. Len(f.sent) - k : k + 1 + i - 1 = i + k
      BY <1>2
    <3>4. /\ Len(q) = IF k + 1 <= Len(f.sent) THEN Len(f.sent) - (k + 1) + 1 ELSE 0
          /\ \A i \in 1 .. Len(f.sent) - (k + 1) + 1 : q[i] = f.sent[k + 1 + i - 1]
      BY <3>1, <3>2, SubSeqProperties
    <3> QED BY <1>1, <1>2, <3>2, <3>3, <3>4
  <2> HIDE DEF q
  <2>3. /\ g.sent = q /\ g.tx = f.tx /\ g.armed = f.armed /\ g.wait = f.wait
        /\ g.signal = f.signal
    BY <1>1 DEF FopRecord
  <2> HIDE DEF g
  <2>4. ASSUME NEW i \in 1 .. Len(f.sent) - k
        PROVE  SameItem(g.sent[i], f.sent[i + k]) /\ (Coming(f, i + k) => Coming(g, i))
    BY <2>2, <2>3 DEF SameItem, Coming, Queued
  <2>5. Len(f.sent) - k + 1 .. Len(g.sent) = {} /\ Len(f.sent) - k <= Len(g.sent)
    BY <1>1, <1>2, <2>2, <2>3
  <2>6. Follows(f, g, k)
    BY <2>4, <2>5 DEF Follows
  <2> QED BY <2>1, <2>2, <2>3, <2>6 DEF k
<1> QED BY <1>3, <1>4

(* osdlp_initiate_ad_retransmission clears the tx queue and marks all that is outstanding. *)
LEMMA InitiateAdRetransmissionFollows ==
    ASSUME NEW f, Open(f)
    PROVE  LET g == InitiateAdRetransmission(f) IN
           /\ Follows(f, g, 0) /\ Len(g.sent) = Len(f.sent)
           /\ g.armed /\ g.wait = f.wait /\ g.signal = f.signal
<1> DEFINE q == [i \in DOMAIN f.sent |->
                   IF f.sent[i].type = "A" THEN [f.sent[i] EXCEPT !.rt = TRUE] ELSE f.sent[i]]
           n == (f.txCnt + 1) % CntMod
           g == [f EXCEPT !.tx = <<>>, !.txCnt = n, !.armed = TRUE, !.sent = q]
<1>1. /\ f \in FopRecord /\ f.sent \in Seq(Item)
      /\ DOMAIN f.sent = 1 .. Len(f.sent) /\ Len(f.sent) \in Nat
      /\ \A i \in 1 .. Len(f.sent) : f.sent[i] \in Item /\ f.sent[i].type = "A"
  BY OpenFields DEF Open, Sound, Matched, AllTypeA
<1>2. \A it \in Item : LET x == [it EXCEPT !.rt = TRUE] IN x \in Item /\ SameItem(x, it) /\ x.rt
  BY DEF Item, SameItem
<1>3. /\ Len(q) = Len(f.sent)
      /\ \A i \in 1 .. Len(f.sent) : SameItem(q[i], f.sent[i]) /\ q[i].rt
  <2>1. \A i \in 1 .. Len(f.sent) : SameItem(q[i], f.sent[i]) /\ q[i].rt /\ q[i] \in Item
    BY <1>1, <1>2
  <2>2. q = [i \in 1 .. Len(f.sent) |-> q[i]]
    BY <1>1
  <2> HIDE DEF q
  <2>3. q \in [1 .. Len(f.sent) -> Item]
    BY <2>1, <2>2
  <2> QED BY <1>1, <2>1, <2>3
<1>4. InitiateAdRetransmission(f) = g
  BY <1>1 DEF InitiateAdRetransmission, FopRecord
<1> HIDE DEF q, n
<1>5. g.sent = q /\ g.armed /\ g.wait = f.wait /\ g.signal = f.signal
  BY <1>1 DEF FopRecord
<1> HIDE DEF g
<1>6. ASSUME NEW i \in 1 .. Len(f.sent) - 0
      PROVE  SameItem(g.sent[i], f.sent[i + 0]) /\ (Coming(f, i + 0) => Coming(g, i))
  <2>1. i + 0 = i /\ i \in 1 .. Len(f.sent)
    BY <1>1
  <2> QED BY <1>3, <1>5, <2>1 DEF Coming
<1>7. Len(f.sent) - 0 + 1 .. Len(g.sent) = {} /\ Len(f.sent) - 0 <= Len(g.sent)
  BY <1>1, <1>3, <1>5
<1>8. Follows(f, g, 0)
  BY <1>6, <1>7 DEF Follows
<1> QED BY <1>3, <1>4, <1>5, <1>8

(* osdlp_look_for_fdu, the part that retransmits: what loses its flag is in the tx *)
(* queue, or the refusal of a frame has purged everything.                         *)
LEMMA ResendFollows ==
    ASSUME NEW f, Open(f)
    PROVE  LET g == Resend(f) IN
           \/ Purged(g) /\ g.wait = <<>>
           \/ Follows(f, g, 0) /\ Len(g.sent) = Len(f.sent) /\ g.armed = f.armed
<1>1. /\ f \in FopRecord /\ Fits(f) /\ Sound(f) /\ Adjacent(f) /\ f.sent \in Seq(Item)
      /\ f.tx \in Seq(Frame) /\ DOMAIN f.sent = 1 .. Len(f.sent) /\ Len(f.sent) \in Nat
      /\ DOMAIN f.tx = 1 .. Len(f.tx) /\ Len(f.tx) \in Nat /\ Len(f.tx) <= TxCap
      /\ \A i \in 1 .. Len(f.sent) : f.sent[i] \in Item
  BY OpenFields DEF Open, Sound, Matched
<1>2. CASE Flagged(f) = {}
  BY <1>1, <1>2, FollowsSame DEF Resend
<1> DEFINE a == RunStart(f)
           b == RunEnd(f)
<1>3. ASSUME Flagged(f) # {} PROVE a \in 1 .. Len(f.sent) /\ b \in a .. Len(f.sent)
  <2>1. a \in Flagged(f) /\ b \in Flagged(f) /\ a <= b
    BY <1>1, <1>3, RunDefined
  <2>2. Flagged(f) \subseteq 1 .. Len(f.sent)
    BY <1>1 DEF Flagged
  <2> HIDE DEF a, b
  <2> QED BY <2>1, <2>2
<1>4. CASE Flagged(f) # {} /\ b - a + 1 <= TxCap - Len(f.tx)
  <2> DEFINE fs == Frames(SubSeq(f.sent, a, b))
             x == f.tx \o fs
             q == [i \in DOMAIN f.sent |->
                     IF i \in a .. b THEN [f.sent[i] EXCEPT !.rt = FALSE] ELSE f.sent[i]]
             s == IF f.sent[b].code = "AD" THEN f.signal ELSE "ACCEPT_TX"
             g == [f EXCEPT !.tx = x, !.sent = q, !.signal = s]
  <2>1. a \in 1 .. Len(f.sent) /\ b \in a .. Len(f.sent)
    BY <1>3, <1>4
  <2>2. Resend(f) = g
    BY <1>4 DEF Resend
  <2> HIDE DEF a, b, s
  <2>3. /\ Len(fs) = b - a + 1 /\ fs \in Seq(Frame)
        /\ \A n \in 1 .. b - a + 1 : fs[n] = FrameOf(f.sent[a + n - 1])
    <3> DEFINE p == SubSeq(f.sent, a, b)
    <3>1. \A i \in a .. b : f.sent[i] \in Item
      BY <1>1, <2>1
    <3>2. a \in Int /\ b \in Int /\ a <= b
      BY <2>1
    <3>3. /\ p \in Seq(Item) /\ Len(p) = b - a + 1
          /\ \A n \in 1 .. b - a + 1 : p[n] = f.sent[a + n - 1]
      BY <3>1, <3>2, SubSeqProperties
    <3> HIDE DEF p
    <3>4. fs \in Seq(Frame) /\ Len(fs) = Len(p)
      BY <3>3, FramesTyped DEF p
    <3>5. DOMAIN p = 1 .. b - a + 1
      BY <3>3
    <3>6. \A n \in DOMAIN p : fs[n] = FrameOf(p[n])
      BY DEF Frames, p
    <3> QED BY <3>3, <3>4, <3>5, <3>6
  <2> HIDE DEF fs
  <2>4. /\ DOMAIN x = 1 .. Len(f.tx) + (b - a + 1)
        /\ \A m \in 1 .. Len(f.tx) : x[m] = f.tx[m]
        /\ \A n \in 1 .. b - a + 1 : x[Len(f.tx) + n] = fs[n]
    <3>1. b - a + 1 \in Nat
      BY <2>1
    <3>2. /\ x \in Seq(Frame) /\ Len(x) = Len(f.tx) + Len(fs)
          /\ \A m \in 1 .. Len(f.tx) + Len(fs) :
                x[m] = IF m <= Len(f.tx) THEN f.tx[m] ELSE fs[m - Len(f.tx)]
      BY <1>1, <2>3, ConcatProperties
    <3>3. ASSUME NEW m \in 1 .. Len(f.tx) PROVE x[m] = f.tx[m]
      <4>1. m \in 1 .. Len(f.tx) + Len(fs) /\ m <= Len(f.tx)
        BY <1>1, <2>3, <3>1
      <4> QED BY <3>2, <4>1
    <3>4. ASSUME NEW n \in 1 .. b - a + 1 PROVE x[Len(f.tx) + n] = fs[n]
      <4>1. /\ Len(f.tx) + n \in 1 .. Len(f.tx) + Len(fs) /\ ~ (Len(f.tx) + n <= Len(f.tx))
            /\ Len(f.tx) + n - Len(f.tx) = n
        BY <1>1, <2>3, <3>1
      <4> QED BY <3>2, <4>1
    <3> HIDE DEF x
    <3> QED BY <2>3, <3>1, <3>2, <3>3, <3>4
  <2> HIDE DEF x
  <2>5. \A it \in Item : SameItem([it EXCEPT !.rt = FALSE], it) /\ SameItem(it, it)
    BY DEF Item, SameItem
  <2>6. /\ Len(q) = Len(f.sent)
        /\ \A i \in 1 .. Len(f.sent) : SameItem(q[i], f.sent[i])
        /\ \A i \in 1 .. Len(f.sent) : i \notin a .. b => q[i].rt = f.sent[i].rt
    <3>1. \A it \in Item : [it EXCEPT !.rt = FALSE] \in Item
      BY DEF Item
    <3>2. \A i \in 1 .. Len(f.sent) : SameItem(q[i], f.sent[i]) /\ q[i] \in Item
      BY <1>1, <2>5, <3>1
    <3>3. \A i \in 1 .. Len(f.sent) : i \notin a .. b => q[i].rt = f.sent[i].rt
      BY <1>1
    <3>4. q = [i \in 1 .. Len(f.sent) |-> q[i]]
      BY <1>1
    <3> HIDE DEF q
    <3>5. q \in [1 .. Len(f.sent) -> Item]
      BY <3>2, <3>4
    <3> QED BY <1>1, <3>2, <3>3, <3>5
  <2> HIDE DEF q
  <2>7. g.sent = q /\ g.tx = x /\ g.armed = f.armed
    BY <1>1 DEF FopRecord
  <2> HIDE DEF g
  <2>8. ASSUME NEW i \in 1 .. Len(f.sent) PROVE Coming(f, i) => Coming(g, i)
    <3>1. FrameOf(q[i]) = FrameOf(f.sent[i])
      BY <2>6, SameFrame
    <3>2. CASE i \in a .. b
      <4>1. i - a + 1 \in 1 .. b - a + 1 /\ a + (i - a + 1) - 1 = i
            /\ Len(f.tx) + (i - a + 1) \in 1 .. Len(f.tx) + (b - a + 1)
        <5>1. a \in Int /\ b \in Int /\ i \in Int /\ a <= i /\ i <= b
          BY <1>1, <2>1, <3>2
        <5>2. i - a + 1 \in 1 .. b - a + 1 /\ a + (i - a + 1) - 1 = i
          BY <5>1
        <5>3. b - a + 1 \in Nat
          BY <2>1
        <5> HIDE DEF x
        <5>4. \A n \in 1 .. b - a + 1 : Len(f.tx) + n \in 1 .. Len(f.tx) + (b - a + 1)
          BY <1>1, <5>3
        <5> QED BY <5>2, <5>4
      <4>2. x[Len(f.tx) + (i - a + 1)] = FrameOf(f.sent[i])
        BY <2>3, <2>4, <4>1
      <4> QED BY <2>4, <2>7, <3>1, <4>1, <4>2 DEF Coming, Queued
    <3>3. CASE i \notin a .. b
      <4>1. Queued(f, i) => Queued(g, i)
        <5>1. \A m \in 1 .. Len(f.tx) : m \in DOMAIN x
          <6>1. b - a + 1 \in Nat
            BY <2>1
          <6> QED BY <1>1, <2>4, <6>1
        <5> QED BY <1>1, <2>4, <2>7, <3>1, <5>1 DEF Queued
      <4> QED BY <2>6, <2>7, <3>3, <4>1 DEF Coming
    <3> QED BY <3>2, <3>3
  <2>9. Follows(f, g, 0)
    <3>1. ASSUME NEW i \in 1 .. Len(f.sent) - 0
          PROVE  SameItem(g.sent[i], f.sent[i + 0]) /\ (Coming(f, i + 0) => Coming(g, i))
      <4>1. i + 0 = i /\ i \in 1 .. Len(f.sent)
        BY <1>1
      <4> QED BY <2>6, <2>7, <2>8, <4>1
    <3>2. Len(f.sent) - 0 + 1 .. Len(g.sent) = {} /\ Len(f.sent) - 0 <= Len(g.sent)
      BY <1>1, <2>6, <2>7
    <3> QED BY <3>1, <3>2 DEF Follows
  <2> QED BY <2>2, <2>6, <2>7, <2>9
<1>5. CASE Flagged(f) # {} /\ ~ (b - a + 1 <= TxCap - Len(f.tx))
  <2> DEFINE room == TxCap - Len(f.tx)
             z == a + room - 1
             p == SubSeq(f.sent, a, z)
             h == Alert(f, "UNDEF_ERROR")
             x == h.tx \o Frames(p)
             g == [h EXCEPT !.tx = x]
  <2>1. a \in 1 .. Len(f.sent) /\ b \in a .. Len(f.sent)
    BY <1>3, <1>5
  <2>2. Resend(f) = g
    BY <1>5 DEF Resend
  <2>3. h \in FopRecord /\ h.sent = <<>> /\ h.wait = <<>> /\ h.tx = f.tx
    <3>1. h.sent = <<>> /\ h.wait = <<>>
      BY <1>1 DEF Alert, FopRecord
    <3> QED BY <1>1, <3>1, AlertSound DEF Signals, Alerts, Sound, Fits
  <2>4. room \in Nat /\ room < b - a + 1
    BY <1>1, <1>5, <2>1, TxCapAssumption
  <2>5. a \in Int /\ z \in Int /\ z <= Len(f.sent) /\ z - a + 1 = room
    BY <2>1, <2>4, SMTT(30)
  <2> HIDE DEF a, b, room, z, h
  <2>6. p \in Seq(Item) /\ Len(p) = room
    <3>1. \A i \in a .. z : f.sent[i] \in Item
      BY <1>1, <2>1, <2>5
    <3>2. p \in Seq(Item) /\ Len(p) = IF a <= z THEN z - a + 1 ELSE 0
      BY <2>5, <3>1, SubSeqProperties
    <3> QED BY <2>4, <2>5, <3>2
  <2> HIDE DEF p
  <2>7. Frames(p) \in Seq(Frame) /\ Len(Frames(p)) = room
    BY <2>6, FramesTyped
  <2>8. Len(x) = Len(f.tx) + room
    BY <1>1, <2>3, <2>7, ConcatProperties
  <2>9. Len(x) = TxCap
    BY <1>1, <2>8, TxCapAssumption DEF room
  <2> HIDE DEF x
  <2>10. g.sent = <<>> /\ g.wait = <<>> /\ g.tx = x
    BY <2>3 DEF FopRecord
  <2> QED BY <2>2, <2>9, <2>10 DEF Purged
<1> QED BY <1>2, <1>4, <1>5

(* osdlp_transmit_type_ad starts the timer; what it adds to the sent queue is in the *)
(* tx queue, and a full sent queue stays as it is.                                   *)
LEMMA TransmitTypeAdFollows ==
    ASSUME NEW f, Open(f), f.wait # <<>>
    PROVE  LET g == TransmitTypeAd(f) IN Purged(g) \/ (Follows(f, g, 0) /\ g.armed)
<1> DEFINE it == [type |-> "A", seq |-> f.vs, rt |-> FALSE, code |-> f.hdr, sdu |-> Head(f.wait)]
           n  == IF f.sent = <<>> THEN 1 ELSE f.txCnt
           g  == [f EXCEPT !.wait = <<>>, !.vs = Inc(@), !.armed = TRUE, !.txCnt = n]
           q  == Append(f.sent, it)
           x  == Append(f.tx, FrameOf(it))
           h  == [g EXCEPT !.sent = Append(@, it), !.tx = Append(@, FrameOf(it))]
           r  == IF f.hdr = "AD" /\ f.state \in OpenStates THEN Resend(h) ELSE h
<1>1. /\ f \in FopRecord /\ f.vs \in SeqNum /\ f.hdr \in Codes /\ f.wait \in Seq(SDU)
      /\ n \in 0 .. CntMod - 1 /\ f.sent \in Seq(Item) /\ f.tx \in Seq(Frame)
      /\ Len(f.sent) <= SentCap /\ Len(f.tx) <= TxCap /\ Len(f.sent) \in Nat /\ Len(f.tx) \in Nat
      /\ Sound(f)
  BY SeqNumFacts, SMTT(30) DEF Open, Sound, Fits, FopRecord
<1>2. it \in Item /\ it.type = "A" /\ it.rt = FALSE
  <2>1. Head(f.wait) \in SDU
    BY <1>1, HeadTailProperties
  <2> QED BY <1>1, <2>1 DEF Item
<1>3. TransmitTypeAd(f) = CASE Len(f.sent) = SentCap -> Say(g, "UNDEF_ERROR")
                            [] Len(f.sent) < SentCap /\ TxFull(f) -> Alert(g, "UNDEF_ERROR")
                            [] OTHER -> Say(r, "ACCEPT_TX")
  BY DEF TransmitTypeAd
<1> HIDE DEF n, it
<1>4. FrameOf(it) \in Frame
  BY <1>2, SeqNumFacts DEF FrameOf, Item, Frame
<1>5. /\ q \in Seq(Item) /\ Len(q) = Len(f.sent) + 1
      /\ \A i \in 1 .. Len(f.sent) : q[i] = f.sent[i]
      /\ q[Len(f.sent) + 1] = it
  BY <1>1, <1>2, AppendProperties
<1>6. /\ Len(x) = Len(f.tx) + 1 /\ DOMAIN x = 1 .. Len(f.tx) + 1
      /\ \A i \in 1 .. Len(f.tx) : x[i] = f.tx[i]
      /\ x[Len(f.tx) + 1] = FrameOf(it)
  <2> HIDE DEF x
  <2>1. /\ x \in Seq(Frame) /\ Len(x) = Len(f.tx) + 1
        /\ \A i \in 1 .. Len(f.tx) : x[i] = f.tx[i]
        /\ x[Len(f.tx) + 1] = FrameOf(it)
    BY <1>1, <1>4, AppendProperties DEF x
  <2> QED BY <2>1
<1>7. /\ Open(g) /\ g.state = f.state /\ g.sent = f.sent /\ g.tx = f.tx
  BY <1>1, DequeuedOpen
<1>8. g \in FopRecord /\ g.armed
  <2>1. g \in FopRecord
    BY <1>7 DEF Open, Sound, Fits
  <2>2. g.armed
    BY <1>1 DEF FopRecord
  <2> QED BY <2>1, <2>2
<1> HIDE DEF g
<1>9. CASE Len(f.sent) = SentCap
  <2>1. TransmitTypeAd(f) = Say(g, "UNDEF_ERROR")
    BY <1>1, <1>3, <1>9, SentCapAssumption
  <2>2. /\ Say(g, "UNDEF_ERROR").sent = f.sent /\ Say(g, "UNDEF_ERROR").tx = f.tx
        /\ Say(g, "UNDEF_ERROR").armed
    BY <1>7, <1>8 DEF Say, FopRecord
  <2>3. Follows(f, Say(g, "UNDEF_ERROR"), 0)
    BY <1>1, <2>2, FollowsSame
  <2> QED BY <2>1, <2>2, <2>3
<1>10. CASE Len(f.sent) < SentCap /\ TxFull(f)
  <2>1. TransmitTypeAd(f) = Alert(g, "UNDEF_ERROR")
    BY <1>1, <1>3, <1>10, SentCapAssumption
  <2>2. Alert(g, "UNDEF_ERROR").sent = <<>> /\ Alert(g, "UNDEF_ERROR").tx = f.tx
    BY <1>7, <1>8 DEF Alert, FopRecord
  <2> QED BY <1>10, <2>1, <2>2 DEF Purged, TxFull
<1>11. CASE Len(f.sent) < SentCap /\ ~ TxFull(f)
  <2>1. TransmitTypeAd(f) = Say(r, "ACCEPT_TX")
    BY <1>1, <1>3, <1>11, SentCapAssumption
  <2>2. Len(f.tx) < TxCap
    BY <1>1, <1>11, TxCapAssumption DEF TxFull
  <2>3. Open(h)
    BY <1>2, <1>7, <1>11, <2>2, EnqueuedOpen
  <2>4. h.sent = q /\ h.tx = x /\ h.armed
    <3>1. h = [g EXCEPT !.sent = q, !.tx = x]
      BY <1>7, <1>8 DEF FopRecord
    <3> HIDE DEF h, q, x
    <3> QED BY <1>8, <3>1 DEF FopRecord
  <2> HIDE DEF h, q, x
  <2>5. Follows(f, h, 0)
    <3>1. ASSUME NEW i \in 1 .. Len(f.sent) - 0
          PROVE  SameItem(h.sent[i], f.sent[i + 0]) /\ (Coming(f, i + 0) => Coming(h, i))
      <4>1. i + 0 = i /\ i \in 1 .. Len(f.sent)
        BY <1>1
      <4>2. h.sent[i] = f.sent[i]
        BY <1>5, <2>4, <4>1
      <4>3. Queued(f, i) => Queued(h, i)
        <5>1. DOMAIN f.tx = 1 .. Len(f.tx) /\ 1 .. Len(f.tx) \subseteq DOMAIN x
          BY <1>1, <1>6
        <5> QED BY <1>6, <2>4, <4>2, <5>1 DEF Queued
      <4> QED BY <4>1, <4>2, <4>3 DEF SameItem, Coming
    <3>2. ASSUME NEW i \in Len(f.sent) - 0 + 1 .. Len(h.sent) PROVE Coming(h, i)
      <4>1. i = Len(f.sent) + 1
        BY <1>1, <1>5, <2>4
      <4>2. h.sent[i] = it /\ Len(f.tx) + 1 \in DOMAIN x
        BY <1>1, <1>5, <1>6, <2>4, <4>1
      <4> QED BY <1>6, <2>4, <4>2 DEF Coming, Queued
    <3>3. Len(f.sent) - 0 <= Len(h.sent)
      BY <1>1, <1>5, <2>4
    <3> QED BY <3>1, <3>2, <3>3 DEF Follows
  <2>6. Purged(r) \/ (Follows(f, r, 0) /\ r.armed)
    <3>1. CASE r = h
      BY <2>4, <2>5, <3>1
    <3>2. CASE r = Resend(h)
      <4> DEFINE y == Resend(h)
      <4>1. Purged(y) \/ (Follows(h, y, 0) /\ y.armed)
        BY <2>3, <2>4, ResendFollows
      <4>2. Len(h.sent) \in Nat /\ Len(y.sent) \in Nat
        BY <2>3, ResendSound, OpenFields DEF Open, OpenOrPurged
      <4> HIDE DEF y, r
      <4>3. Follows(h, y, 0) => Follows(f, y, 0)
        BY <1>1, <2>5, <4>2, FollowsOn
      <4> QED BY <3>2, <4>1, <4>3 DEF y
    <3> QED BY <3>1, <3>2
  <2>7. r \in FopRecord
    BY <2>3, ResendSound, OpenFields DEF Open, OpenOrPurged
  <2> HIDE DEF r
  <2> DEFINE y == Say(r, "ACCEPT_TX")
  <2>8. y.sent = r.sent /\ y.tx = r.tx /\ y.armed = r.armed
    BY <2>7 DEF Say, FopRecord
  <2> HIDE DEF y
  <2>9. (Purged(r) => Purged(y)) /\ (Follows(f, r, 0) => Follows(f, y, 0))
    BY <2>8 DEF Purged, Follows, Coming, Queued
  <2> QED BY <2>1, <2>6, <2>8, <2>9 DEF y
<1> QED BY <1>1, <1>9, <1>10, <1>11, SentCapAssumption

(* osdlp_look_for_fdu, the whole of it. *)
LEMMA LookForFduFollows ==
    ASSUME NEW f, Open(f)
    PROVE  LET g == LookForFdu(f) IN Purged(g) \/ (Follows(f, g, 0) /\ KeepsTimer(f, g))
<1> DEFINE g == Resend(f)
           l == LookForFdu(f)
<1>1. /\ OpenOrPurged(f, g)
      /\ \/ Purged(g) /\ g.wait = <<>>
         \/ Follows(f, g, 0) /\ Len(g.sent) = Len(f.sent) /\ g.armed = f.armed
  BY ResendSound, ResendFollows
<1>2. Len(f.sent) \in Nat /\ Len(g.sent) \in Nat /\ Len(l.sent) \in Nat /\ g \in FopRecord
  BY <1>1, LookForFduSound, OpenFields DEF Open, OpenOrPurged, Continues
<1>3. l = IF g.wait = <<>> THEN g
          ELSE IF InWindow(g) THEN TransmitTypeAd(g) ELSE Say(g, "DELAY_RESP")
  BY DEF LookForFdu
<1> HIDE DEF l
<1>4. CASE g.wait = <<>>
  <2>1. l = g
    BY <1>3, <1>4
  <2>2. Len(g.sent) = Len(f.sent) => ~ (Len(g.sent) > Len(f.sent))
    BY <1>2
  <2> HIDE DEF g
  <2> QED BY <1>1, <2>1, <2>2 DEF KeepsTimer, l
<1>5. CASE g.wait # <<>>
  <2>1. Open(g)
    BY <1>1, <1>5 DEF OpenOrPurged, Open
  <2>2. /\ Follows(f, g, 0) /\ Len(g.sent) = Len(f.sent) /\ g.armed = f.armed
    BY <1>1, <1>5
  <2>3. CASE InWindow(g)
    <3>1. Purged(l) \/ (Follows(g, l, 0) /\ l.armed)
      BY <1>3, <1>5, <2>1, <2>3, TransmitTypeAdFollows
    <3> HIDE DEF g
    <3>2. Follows(g, l, 0) => Follows(f, l, 0)
      BY <1>2, <2>2, FollowsOn
    <3> QED BY <3>1, <3>2 DEF KeepsTimer, l
  <2>4. CASE ~ InWindow(g)
    <3>1. l = Say(g, "DELAY_RESP")
      BY <1>3, <1>5, <2>4
    <3> HIDE DEF g
    <3>2. l.sent = g.sent /\ l.tx = g.tx /\ l.armed = g.armed
      BY <1>2, <3>1 DEF Say, FopRecord
    <3>3. Follows(f, l, 0)
      BY <2>2, <3>2 DEF Follows, Coming, Queued
    <3>4. ~ (Len(l.sent) > Len(f.sent))
      BY <1>2, <2>2, <3>2
    <3> QED BY <2>2, <3>2, <3>3, <3>4 DEF KeepsTimer, l
  <2> QED BY <2>3, <2>4
<1> QED BY <1>4, <1>5

(* What is outstanding in an open state has the timer on, unless it was off before. *)
Watched(f, g) ==
    g.state \in OpenStates /\ g.sent # <<>> => g.armed \/ (f.sent # <<>> /\ ~ f.armed)

(* Only the sent queue and the tx queue matter to the first three. *)
LEMMA SameQueuesFollow ==
    ASSUME NEW f, NEW g, NEW h, NEW k, h.sent = g.sent, h.tx = g.tx
    PROVE  (Purged(g) => Purged(h)) /\ (Follows(f, g, k) => Follows(f, h, k))
BY DEF Purged, Follows, Coming, Queued

(* Retransmission on a control word starts the timer. *)
LEMMA RetransmitFollows ==
    ASSUME NEW f, Open(f)
    PROVE  LET g == Retransmit(f) IN
           (Purged(g) \/ Follows(f, g, 0)) /\ (g.sent # <<>> => g.armed)
<1> DEFINE h == InitiateAdRetransmission(f)
           g == LookForFdu(h)
           s == [g EXCEPT !.state = "RT_NO_WAIT"]
<1>1. Open(h) /\ Follows(f, h, 0) /\ h.armed
  BY InitiateAdRetransmissionOpen, InitiateAdRetransmissionFollows
<1>2. (Purged(g) \/ Follows(h, g, 0)) /\ (g.sent # <<>> => g.armed)
  <2>1. Purged(g) \/ (Follows(h, g, 0) /\ KeepsTimer(h, g))
    BY <1>1, LookForFduFollows
  <2> QED BY <1>1, <2>1 DEF Purged, KeepsTimer
<1>3. Len(f.sent) \in Nat /\ Len(h.sent) \in Nat /\ Len(g.sent) \in Nat /\ g \in FopRecord
  BY <1>1, LookForFduSound, OpenFields DEF Open, Continues
<1>4. Retransmit(f) = IF f.state = "RT_NO_WAIT" THEN g ELSE s
  BY DEF Retransmit
<1> HIDE DEF h, g
<1>5. Purged(g) \/ Follows(f, g, 0)
  BY <1>1, <1>2, <1>3, FollowsOn
<1>6. s.sent = g.sent /\ s.tx = g.tx /\ s.armed = g.armed
  BY <1>3 DEF FopRecord
<1> HIDE DEF s
<1>7. Purged(s) \/ Follows(f, s, 0)
  BY <1>5, <1>6, SameQueuesFollow
<1> QED BY <1>2, <1>4, <1>5, <1>6, <1>7

(* An alert ends the service. *)
LEMMA AlertEnds ==
    ASSUME NEW f, f \in FopRecord, NEW sig
    PROVE  Alert(f, sig).state = "INIT" /\ Alert(f, sig).wait = <<>> /\ Alert(f, sig).signal = sig
BY DEF Alert, FopRecord

(* The events that acknowledge: what they forget is acknowledged. *)
LEMMA AckEventsFollow ==
    ASSUME NEW f, Open(f), NEW nr \in SeqNum
    PROVE  LET k == AckedCount(f, nr) IN
           /\ Outcome(f, FopE2(f, nr), k) /\ Outcome(f, FopE6(f, nr), k)
           /\ Outcome(f, FopE8(f, nr), k) /\ Outcome(f, FopE9(f, nr), k)
           /\ Outcome(f, FopE101(f, nr), k)
           /\ k = Len(f.sent) => Watched(f, FopE2(f, nr))
           /\ f.state \in OpenStates => Watched(f, FopE6(f, nr))
           /\ Watched(f, FopE8(f, nr)) /\ Watched(f, FopE9(f, nr)) /\ Watched(f, FopE101(f, nr))
<1> DEFINE k == AckedCount(f, nr)
           g == RemoveAcked(f, nr)
           a == [g EXCEPT !.state = "ACTIVE"]
           c == [g EXCEPT !.armed = FALSE]
           l == LookForFdu(g)
           w == [g EXCEPT !.state = "RT_WAIT"]
           m == [l EXCEPT !.state = "ACTIVE"]
<1>1. /\ f.state \in AdStates /\ f.ss = 0 /\ Len(f.sent) \in Nat
      /\ k \in 0 .. Len(f.sent)
  BY OpenNotSuspended, AckedCountDefined, OpenFields DEF Open, Sound
<1>2. /\ Open(g) /\ g.state = f.state /\ g.ss = 0 /\ g \in FopRecord /\ Len(g.sent) \in Nat
      /\ Follows(f, g, k) /\ Len(g.sent) = Len(f.sent) - k
      /\ g.tx = f.tx /\ g.armed = f.armed
  BY RemoveAckedOpen, RemoveAckedFollows, OpenNotSuspended, OpenFields DEF Open
<1> HIDE DEF g, k
<1>3. /\ Open(c) /\ c.sent = g.sent /\ c.tx = g.tx
  <2>1. Open(c)
    BY <1>2, TimerSound DEF Open
  <2> QED BY <1>2, <2>1 DEF FopRecord
<1>4. Open(a) /\ a.sent = g.sent /\ a.tx = g.tx /\ a.armed = g.armed
  <2>1. "ACTIVE" \in AdStates
    BY DEF AdStates, OpenStates
  <2>2. Open(a)
    BY <1>1, <1>2, <2>1, SetOpen DEF Open
  <2> QED BY <1>2, <2>2 DEF FopRecord
<1> HIDE DEF a, c
(* osdlp_look_for_fdu from any state with the queues of g. *)
<1>5. ASSUME NEW x, Open(x), x.sent = g.sent, x.tx = g.tx
      PROVE  LET y == LookForFdu(x) IN
             /\ Purged(y) \/ Follows(f, y, k)
             /\ y.sent # <<>> /\ (x.armed \/ g.sent = <<>>) => y.armed
  <2> DEFINE y == LookForFdu(x)
  <2>1. Purged(y) \/ (Follows(x, y, 0) /\ KeepsTimer(x, y))
    BY <1>5, LookForFduFollows
  <2>2. Follows(f, x, k)
    BY <1>2, <1>5, SameQueuesFollow
  <2>3. Len(x.sent) \in Nat /\ Len(y.sent) \in Nat /\ y.sent \in Seq(Item)
    BY <1>5, LookForFduSound, OpenFields DEF Open, Continues
  <2> HIDE DEF y
  <2>4. Follows(x, y, 0) => Follows(f, y, k)
    BY <1>1, <2>2, <2>3, FollowsOn
  <2>5. y.sent # <<>> /\ x.sent = <<>> => Len(y.sent) > Len(x.sent)
    BY <2>3
  <2> QED BY <1>5, <2>1, <2>4, <2>5 DEF Purged, KeepsTimer, y
<1>6. g.sent = <<>> <=> Len(f.sent) = k
  BY <1>1, <1>2, OpenFields DEF Open
<1>7. f.sent = <<>> => g.sent = <<>>
  <2>1. f.sent = <<>> => Len(f.sent) = 0
    OBVIOUS
  <2> QED BY <1>1, <1>6, <2>1
<1>8. Outcome(f, FopE2(f, nr), k) /\ (k = Len(f.sent) => Watched(f, FopE2(f, nr)))
  <2>1. FopE2(f, nr) = LookForFdu(c)
    BY <1>1 DEF FopE2, Cancel, g, c
  <2> QED BY <1>3, <1>5, <1>6, <2>1 DEF Outcome, Watched
<1>9. /\ Purged(l) \/ Follows(f, l, k)
      /\ l.sent # <<>> /\ (g.armed \/ g.sent = <<>>) => l.armed
  BY <1>2, <1>5
<1>10. l \in FopRecord
  BY <1>2, LookForFduSound, OpenFields DEF Continues
<1> HIDE DEF l
<1>11. m.sent = l.sent /\ m.tx = l.tx
  BY <1>10 DEF FopRecord
<1>12. w.sent = g.sent /\ w.tx = g.tx /\ w.state = "RT_WAIT"
  BY <1>2 DEF FopRecord
<1> HIDE DEF m, w
<1>13. Purged(m) \/ Follows(f, m, k)
  BY <1>9, <1>11, SameQueuesFollow
<1>14. Outcome(f, FopE6(f, nr), k) /\ (f.state \in OpenStates => Watched(f, FopE6(f, nr)))
  <2>1. FopE6(f, nr) = CASE f.state = "ACTIVE"     -> l
                         [] f.state = "RT_NO_WAIT" -> LookForFdu(a)
                         [] f.state = "RT_WAIT"    -> m
                         [] OTHER -> f
    BY DEF FopE6, g, a, l, m
  <2>2. f.state \in {"ACTIVE", "RT_NO_WAIT", "RT_WAIT"}
    BY <1>1 DEF AdStates, OpenStates
  <2>3. CASE f.state = "ACTIVE"
    BY <1>2, <1>7, <1>9, <2>1, <2>3 DEF Outcome, Watched
  <2>4. CASE f.state = "RT_NO_WAIT"
    <3>1. FopE6(f, nr) = LookForFdu(a)
      BY <2>1, <2>4
    <3> QED BY <1>2, <1>4, <1>5, <1>7, <3>1 DEF Outcome, Watched
  <2>5. CASE f.state = "RT_WAIT"
    BY <1>13, <2>1, <2>5 DEF Outcome, OpenStates
  <2> QED BY <2>2, <2>3, <2>4, <2>5
<1>15. Outcome(f, FopE8(f, nr), k) /\ Watched(f, FopE8(f, nr))
  <2> DEFINE y == Retransmit(g)
  <2>1. FopE8(f, nr) = y
    BY <1>1 DEF FopE8, g
  <2>2. (Purged(y) \/ Follows(g, y, 0)) /\ (y.sent # <<>> => y.armed)
    BY <1>2, RetransmitFollows
  <2>3. Len(y.sent) \in Nat
    BY <1>2, RetransmitSound, OpenFields
  <2> HIDE DEF y
  <2>4. Follows(g, y, 0) => Follows(f, y, k)
    BY <1>1, <1>2, <2>3, FollowsOn
  <2> QED BY <2>1, <2>2, <2>4 DEF Outcome, Watched
<1>16. Outcome(f, FopE9(f, nr), k) /\ Watched(f, FopE9(f, nr))
  <2>1. FopE9(f, nr) = w
    BY <1>1 DEF FopE9, g, w
  <2>2. Follows(f, w, k)
    BY <1>2, <1>12, SameQueuesFollow
  <2> QED BY <1>12, <2>1, <2>2 DEF Outcome, Watched, OpenStates
<1>17. Outcome(f, FopE101(f, nr), k) /\ Watched(f, FopE101(f, nr))
  <2>1. FopE101(f, nr) = Alert(g, "ALERT_LIMIT")
    BY <1>1 DEF FopE101, g
  <2>2. FopE101(f, nr).state = "INIT"
    BY <1>2, <2>1, AlertEnds
  <2> QED BY <2>2 DEF Outcome, Watched, OpenStates
<1> QED BY <1>8, <1>14, <1>15, <1>16, <1>17 DEF k

(* A step that leaves both queues alone goes on; so does one that ends the service. *)
LEMMA UntouchedFollows ==
    ASSUME NEW f, NEW g, Sound(f), g.sent = f.sent, g.tx = f.tx
    PROVE  Outcome(f, g, 0) /\ ((f.armed => g.armed) => Watched(f, g))
<1>1. Follows(f, g, 0)
  BY FollowsSame
<1> QED BY <1>1 DEF Outcome, Watched

LEMMA EndFollows ==
    ASSUME NEW f, f \in FopRecord, NEW sig
    PROVE  LET g == Alert(f, sig) IN Outcome(f, g, 0) /\ Watched(f, g)
<1>1. Alert(f, sig).state = "INIT"
  BY AlertEnds
<1> QED BY <1>1 DEF Outcome, Watched, OpenStates

(* The events of a control word that acknowledge nothing. *)
LEMMA OtherEventsFollow ==
    ASSUME NEW f, Open(f), NEW states, NEW sig
    PROVE  /\ Outcome(f, AlertIn(f, states, sig), 0) /\ Outcome(f, Say(f, sig), 0)
           /\ Outcome(f, FopE1(f), 0) /\ Outcome(f, FopE10(f), 0) /\ Outcome(f, FopE11(f), 0)
           /\ Outcome(f, FopE12(f), 0) /\ Outcome(f, FopE103(f), 0)
           /\ Watched(f, AlertIn(f, states, sig)) /\ Watched(f, Say(f, sig))
           /\ Watched(f, FopE1(f)) /\ Watched(f, FopE10(f)) /\ Watched(f, FopE11(f))
           /\ Watched(f, FopE12(f)) /\ Watched(f, FopE103(f))
<1>1. f \in FopRecord /\ f.state \in AdStates /\ Sound(f)
  BY DEF Open, Sound, Fits
<1>2. Outcome(f, f, 0) /\ Watched(f, f)
  BY <1>1, UntouchedFollows
<1>3. ASSUME NEW s
      PROVE  LET g == [f EXCEPT !.state = s] IN Outcome(f, g, 0) /\ Watched(f, g)
  <2> DEFINE g == [f EXCEPT !.state = s]
  <2>1. g.sent = f.sent /\ g.tx = f.tx /\ g.armed = f.armed
    BY <1>1 DEF FopRecord
  <2> HIDE DEF g
  <2>2. Outcome(f, g, 0) /\ Watched(f, g)
    BY <1>1, <2>1, UntouchedFollows
  <2> QED BY <2>2 DEF g
<1>4. Outcome(f, Say(f, sig), 0) /\ Watched(f, Say(f, sig))
  <2> DEFINE g == Say(f, sig)
  <2>1. g.sent = f.sent /\ g.tx = f.tx /\ g.armed = f.armed
    BY <1>1 DEF Say, FopRecord
  <2> HIDE DEF g
  <2>2. Outcome(f, g, 0) /\ Watched(f, g)
    BY <1>1, <2>1, UntouchedFollows
  <2> QED BY <2>2 DEF g
<1>5. Outcome(f, AlertIn(f, states, sig), 0) /\ Watched(f, AlertIn(f, states, sig))
  BY <1>1, <1>2, EndFollows DEF AlertIn
<1>6. Outcome(f, FopE1(f), 0) /\ Watched(f, FopE1(f))
  <2>1. FopE1(f) = IF f.state \in {"RT_NO_WAIT", "RT_WAIT"} THEN Alert(f, "ALERT_SYNCH") ELSE f
    BY <1>1 DEF FopE1, AdStates, OpenStates
  <2> QED BY <1>1, <1>2, <2>1, EndFollows
<1>7. Outcome(f, FopE10(f), 0) /\ Watched(f, FopE10(f))
  BY <1>2, RetransmitFollows DEF FopE10, Outcome, Watched
<1>8. /\ FopE11(f) = [f EXCEPT !.state = "RT_WAIT"] /\ FopE103(f) = FopE11(f)
      /\ FopE12(f) = [f EXCEPT !.state = "RT_NO_WAIT"]
  BY <1>1 DEF FopE11, FopE103, FopE12
<1> QED BY <1>3, <1>4, <1>5, <1>6, <1>7, <1>8

(***************************************************************************)
(* A control word in an open state: the open service goes on with all its  *)
(* items, or without those the control word acknowledges.                  *)
(***************************************************************************)
LEMMA OnClcwFollows ==
    ASSUME NEW f, Open(f), NEW c \in Clcw
    PROVE  LET g == OnClcw(f, c) IN
           /\ Outcome(f, g, 0) \/ (ReadsSentHead(f, c) /\ Outcome(f, g, AckedCount(f, c.nr)))
           /\ f.state \in OpenStates
                 /\ (ReadsSentHead(f, c) /\ c.nr = f.vs => AckedCount(f, c.nr) = Len(f.sent))
              => Watched(f, g)
<1> DEFINE e == ClcwEvent(f, c)
           g == OnClcw(f, c)
           k == AckedCount(f, c.nr)
<1>1. e \in Events /\ c.nr \in SeqNum /\ f.state \in AdStates
  BY ClcwEventKnown DEF Clcw, Open
<1>2. CASE e \in {"E2", "E6", "E8", "E9", "E101"}
  <2>1. ReadsSentHead(f, c)
    BY <1>1, <1>2 DEF ReadsSentHead
  <2>2. /\ e = "E2" => g = FopE2(f, c.nr)
        /\ e = "E6" => g = FopE6(f, c.nr)
        /\ e = "E8" => g = FopE8(f, c.nr)
        /\ e = "E9" => g = FopE9(f, c.nr)
        /\ e = "E101" => g = FopE101(f, c.nr)
    BY DEF OnClcw
  <2>3. e = "E2" => c.nr = f.vs
    BY ClcwEventKnown DEF Open
  <2> HIDE DEF e, g
  <2>4. Outcome(f, g, k)
    BY <1>1, <1>2, <2>2, AckEventsFollow
  <2>5. ASSUME f.state \in OpenStates, c.nr = f.vs => k = Len(f.sent)
        PROVE  Watched(f, g)
    BY <1>1, <1>2, <2>2, <2>3, <2>5, AckEventsFollow
  <2> QED BY <2>1, <2>4, <2>5 DEF g, k
<1>3. CASE e \in {"E3", "E4", "E5", "E7"}
  BY <1>3, OtherEventsFollow DEF OnClcw, FopE3, FopE4, FopE5, FopE7
<1>4. CASE e \in {"E13", "E14", "E102", "NO_LIMIT"}
  BY <1>4, OtherEventsFollow DEF OnClcw, FopE13, FopE14, FopE102
<1>5. CASE e \in {"E1", "E10", "E11", "E12", "E103"}
  BY <1>5, OtherEventsFollow DEF OnClcw
<1> HIDE DEF e, g, k
<1> QED BY <1>1, <1>2, <1>3, <1>4, <1>5 DEF Events, g, k

(* An expiry. *)
LEMMA OnTimerFollows ==
    ASSUME NEW f, Open(f)
    PROVE  LET g == OnTimer(f) IN
           /\ Outcome(f, g, 0)
           /\ f.state \in OpenStates /\ g.state \in OpenStates /\ g.sent # <<>> => g.armed
<1>1. f \in FopRecord /\ f.state \in AdStates /\ Sound(f)
  BY DEF Open, Sound, Fits
<1>2. /\ Outcome(f, FopE16(f), 0)
      /\ f.state \in OpenStates /\ FopE16(f).sent # <<>> => FopE16(f).armed
  <2>1. CASE f.state \in OpenStates
    <3> DEFINE h == InitiateAdRetransmission(f)
               g == LookForFdu(h)
    <3>1. Open(h) /\ Follows(f, h, 0) /\ h.armed
      BY InitiateAdRetransmissionOpen, InitiateAdRetransmissionFollows
    <3>2. Purged(g) \/ (Follows(h, g, 0) /\ KeepsTimer(h, g))
      BY <3>1, LookForFduFollows
    <3>3. Len(f.sent) \in Nat /\ Len(h.sent) \in Nat /\ Len(g.sent) \in Nat
      BY <1>1, <3>1, LookForFduSound, OpenFields DEF Open, Continues
    <3>4. FopE16(f) = g
      BY <2>1 DEF FopE16, OpenStates
    <3> HIDE DEF h, g
    <3>5. Purged(g) \/ Follows(f, g, 0)
      BY <3>1, <3>2, <3>3, FollowsOn
    <3> QED BY <3>1, <3>2, <3>4, <3>5 DEF Outcome, Purged, KeepsTimer
  <2>2. CASE f.state \notin OpenStates
    <3>1. FopE16(f) = f
      BY <1>1, <2>2 DEF FopE16, AdStates
    <3> QED BY <1>1, <2>2, <3>1, UntouchedFollows
  <2> QED BY <2>1, <2>2
<1>3. FopE104(f) = FopE16(f)
  BY <1>1 DEF FopE104, AdStates, OpenStates
<1>4. FopE17(f).state = "INIT"
  <2>1. FopE17(f) = Alert(f, "ALERT_T1")
    BY <1>1 DEF FopE17, AlertIn, FopStates, AdStates, OpenStates
  <2> QED BY <1>1, <2>1, AlertEnds
<1>5. FopE18(f).state = "INIT"
  <2>1. \E n : FopE18(f) = [f EXCEPT !.ss = n, !.state = "INIT"]
    BY <1>1 DEF FopE18, AdStates, OpenStates
  <2> QED BY <1>1, <2>1 DEF FopRecord
<1>6. OnTimer(f) \in {FopE16(f), FopE17(f), FopE18(f)}
  BY <1>3 DEF OnTimer
<1>7. "INIT" \notin OpenStates
  BY DEF OpenStates
<1> QED BY <1>2, <1>4, <1>5, <1>6, <1>7 DEF Outcome

(* A request. *)
LEMMA RequestFollows ==
    ASSUME NEW f, Open(f), NEW sdu \in SDU
    PROVE  /\ Outcome(f, TransmitAd(f, sdu), 0) /\ Watched(f, TransmitAd(f, sdu))
           /\ Outcome(f, TransmitBd(f, sdu), 0) /\ Watched(f, TransmitBd(f, sdu))
<1> DEFINE g == [f EXCEPT !.hdr = "AD"]
           b == [f EXCEPT !.hdr = "BD"]
           q == <<sdu>>
           w == [g EXCEPT !.wait = q]
           d == [g EXCEPT !.wait = q, !.signal = "DELAY_RESP"]
           fr == [code |-> "BD", num |-> 0, sdu |-> sdu]
           x == Append(b.tx, fr)
           e == [b EXCEPT !.tx = x, !.signal = "ACCEPT_TX"]
<1>1. f \in FopRecord /\ Sound(f) /\ f.state \in AdStates /\ f.tx \in Seq(Frame)
  BY OpenFields DEF Open
<1>2. /\ g \in FopRecord /\ g.state = f.state /\ g.ss = f.ss /\ g.sent = f.sent
      /\ g.wait = f.wait /\ g.tx = f.tx /\ g.armed = f.armed
  BY <1>1 DEF FopRecord, Codes
<1>3. b \in FopRecord /\ b.sent = f.sent /\ b.tx = f.tx /\ b.armed = f.armed
  BY <1>1 DEF FopRecord, Codes
<1>4. TransmitAd(f, sdu) = CASE TxFull(g)                   -> Say(g, "REJECT_TX")
                             [] ~TxFull(g) /\ g.wait = <<>> -> FopE19(g, sdu)
                             [] ~TxFull(g) /\ g.wait # <<>> -> Say(g, "REJECT_TX")
  BY DEF TransmitAd, FopE20
<1>5. TransmitBd(f, sdu) = IF TxFull(b) THEN Say(b, "REJECT_TX") ELSE e
  BY <1>3 DEF TransmitBd, FopE21, FopRecord
<1> HIDE DEF g, b, fr, q
<1>6. ASSUME NEW y, y \in {Say(g, "REJECT_TX"), Say(b, "REJECT_TX"), d}
      PROVE  Outcome(f, y, 0) /\ Watched(f, y)
  <2>1. y.sent = f.sent /\ y.tx = f.tx /\ y.armed = f.armed
    BY <1>2, <1>3, <1>6 DEF Say, FopRecord
  <2> QED BY <1>1, <2>1, UntouchedFollows
<1>7. Outcome(f, e, 0) /\ Watched(f, e)
  <2>1. /\ DOMAIN f.tx = 1 .. Len(f.tx) /\ Len(f.tx) \in Nat /\ fr \in Frame
    BY <1>1, SeqNumFacts DEF Frame, Codes, fr
  <2>2. /\ x \in Seq(Frame) /\ Len(x) = Len(f.tx) + 1
        /\ \A i \in 1 .. Len(f.tx) : x[i] = f.tx[i]
    BY <1>1, <1>3, <2>1, AppendProperties
  <2>3. 1 .. Len(f.tx) \subseteq DOMAIN x
    BY <2>1, <2>2
  <2> HIDE DEF x
  <2>4. e.sent = f.sent /\ e.tx = x /\ e.armed = f.armed
    BY <1>3 DEF FopRecord
  <2> HIDE DEF e
  <2>5. Follows(f, e, 0)
    BY <1>1, <2>1, <2>2, <2>3, <2>4, FollowsSame
  <2> QED BY <2>4, <2>5 DEF Outcome, Watched
<1>8. Outcome(f, FopE19(g, sdu), 0) /\ Watched(f, FopE19(g, sdu))
  <2>1. CASE g.state \in OpenStates
    <3>1. q \in Seq(SDU) /\ Len(q) = 1
      BY DEF q
    <3>2. FopE19(g, sdu) = LookForFdu(w)
      BY <2>1 DEF FopE19, OpenStates, q
    <3>3. /\ w \in FopRecord /\ w.state = g.state /\ w.ss = g.ss /\ w.sent = g.sent
          /\ w.wait = q /\ w.tx = g.tx /\ w.armed = g.armed
      BY <1>2, <3>1 DEF FopRecord
    <3> HIDE DEF w
    <3>4. Len(w.wait) <= 1
      <4>1. Len(w.wait) = 1
        BY <3>1, <3>3
      <4> QED BY <4>1
    <3>5. Fits(w)
      BY <1>1, <1>2, <3>3, <3>4 DEF Sound, Fits
    <3>6. Matched(w)
      BY <1>1, <1>2, <2>1, <3>3
         DEF Sound, Matched, AllTypeA, Adjacent, Flagged, AdStates, OpenStates
    <3>7. Open(w)
      BY <2>1, <3>3, <3>5, <3>6 DEF Open, Sound, AdStates
    <3> DEFINE y == LookForFdu(w)
    <3>8. Purged(y) \/ (Follows(w, y, 0) /\ KeepsTimer(w, y))
      BY <3>7, LookForFduFollows
    <3>9. y.sent \in Seq(Item)
      BY <3>7, LookForFduSound, OpenFields DEF Continues
    <3> HIDE DEF y
    <3>10. Follows(w, y, 0) => Follows(f, y, 0)
      BY <1>2, <3>3 DEF Follows, Coming, Queued
    <3>11. KeepsTimer(w, y) => Watched(f, y)
      <4>1. f.sent = <<>> /\ y.sent # <<>> => Len(y.sent) > Len(w.sent)
        BY <1>2, <3>3, <3>9
      <4> QED BY <1>2, <3>3, <4>1 DEF KeepsTimer, Watched
    <3> QED BY <3>2, <3>8, <3>10, <3>11 DEF Outcome, Watched, Purged, y
  <2>2. CASE g.state \notin OpenStates
    <3>1. FopE19(g, sdu) = d
      BY <1>1, <1>2, <2>2 DEF FopE19, FopRecord, AdStates, q
    <3> QED BY <1>6, <3>1
  <2> QED BY <2>1, <2>2
<1> QED BY <1>4, <1>5, <1>6, <1>7, <1>8

(* A directive ends an open service or leaves its queues and timer alone. *)
LEMMA DirectiveInService ==
    ASSUME Open(fop), Directive
    PROVE  \/ fop'.state = "INIT"
           \/ fop'.sent = fop.sent /\ fop'.tx = fop.tx /\ fop'.armed = fop.armed
<1>1. fop \in FopRecord /\ fop.state # "INIT"
  BY DEF Open, Sound, Fits, AdStates, OpenStates
<1>2. CASE InitiateNoClcw \/ InitiateWithClcw
  BY <1>1, <1>2 DEF InitiateNoClcw, InitiateWithClcw, Say, FopRecord
<1>3. CASE TerminateAd
  BY <1>1, <1>3, AlertEnds DEF TerminateAd
<1>4. CASE \/ \E w \in Windows : SetSlidingWindow(w)
           \/ \E l \in Limits : SetTxLimit(l)
           \/ \E t \in {0, 1} : SetTt(t)
  BY <1>1, <1>4 DEF SetSlidingWindow, SetTxLimit, SetTt, FopRecord
<1> QED
  BY <1>1, <1>2, <1>3, <1>4
     DEF Directive, InitiateWithUnlock, InitiateWithSetvr, SetNewVs, ResumeAd

(***************************************************************************)
(* A step of an open service: it ends, is purged or goes on, and loses     *)
(* items to a control word only.                                           *)
(***************************************************************************)
LEMMA OpenStep ==
    ASSUME Open(fop), [FopNext]_fopVars
    PROVE  \/ Uplink
           \/ Outcome(fop, fop', 0)
           \/ \E c \in Clcw : /\ HandleClcw(c) /\ Len(fop.sent) < SentCap
                              /\ Outcome(fop, fop', AckedCount(fop, c.nr))
<1>1. fop \in FopRecord /\ Sound(fop)
  BY DEF Open, Sound, Fits
<1>2. ASSUME NEW c \in Clcw, HandleClcw(c)
      PROVE  \/ Outcome(fop, fop', 0)
             \/ Len(fop.sent) < SentCap /\ Outcome(fop, fop', AckedCount(fop, c.nr))
  BY <1>2, OnClcwFollows DEF HandleClcw
<1>3. CASE Expire
  <2>1. fop'.sent = fop.sent /\ fop'.tx = fop.tx
    BY <1>1, <1>3 DEF Expire, Cancel, FopRecord
  <2> QED BY <1>1, <2>1, UntouchedFollows
<1>4. CASE HandleTimerExpired
  BY <1>4, OnTimerFollows DEF HandleTimerExpired
<1>5. CASE \E d \in SDU : RequestAd(d) \/ RequestBd(d)
  BY <1>5, RequestFollows DEF RequestAd, RequestBd
<1>6. CASE Directive
  BY <1>1, <1>6, DirectiveInService, UntouchedFollows DEF Outcome
<1>7. CASE UNCHANGED fopVars
  BY <1>1, <1>7, UntouchedFollows DEF fopVars
<1> QED BY <1>2, <1>3, <1>4, <1>5, <1>6, <1>7 DEF FopNext

-----------------------------------------------------------------------------
(* The numbers of the sent queue, one after the other around the circle. *)

(* The successor, written without the remainder. *)
LEMMA IncOnCircle ==
    ASSUME NEW x \in SeqNum
    PROVE  Inc(x) = IF x = SeqMod - 1 THEN 0 ELSE x + 1
<1>1. x \in Nat /\ x < SeqMod /\ SeqMod \in Nat /\ SeqMod > 0
  BY SeqModAssumption DEF SeqNum
<1>2. CASE x = SeqMod - 1
  <2>1. x + 1 = SeqMod
    BY <1>1, <1>2
  <2>2. SeqMod % SeqMod = 0
    BY <1>1, SMTT(30)
  <2> QED BY <1>2, <2>1, <2>2 DEF Inc
<1>3. CASE x # SeqMod - 1
  <2>1. x + 1 \in Nat /\ x + 1 < SeqMod
    BY <1>1, <1>3
  <2>2. \A y \in Nat : y < SeqMod => y % SeqMod = y
    BY <1>1, SMTT(30)
  <2> QED BY <1>3, <2>1, <2>2 DEF Inc
<1> QED BY <1>2, <1>3

(* The number m past x. *)
Past(x, m) == IF x + m < SeqMod THEN x + m ELSE x + m - SeqMod

(* The item at position i is i - 1 numbers past the first, for one turn of the circle. *)
LEMMA RunOfNumbers ==
    ASSUME NEW f, Sound(f), Numbered(f), NEW i \in 1 .. Len(f.sent), i <= SeqMod
    PROVE  f.sent[i].seq = Past(f.sent[1].seq, i - 1)
<1> DEFINE L == Len(f.sent)
           s(j) == f.sent[j].seq
           Bad == {j \in 1 .. L : j <= SeqMod /\ s(j) # Past(s(1), j - 1)}
<1>1. L \in Nat /\ \A j \in 1 .. L : s(j) \in SeqNum
  BY OpenFields DEF Item
<1>2. \A j \in 1 .. L : j < L => Inc(s(j)) = s(j + 1)
  BY <1>1 DEF Numbered
<1>3. \A x \in SeqNum : Inc(x) = IF x = SeqMod - 1 THEN 0 ELSE x + 1
  BY IncOnCircle
<1> HIDE DEF s, L
<1>4. Bad = {}
  <2> SUFFICES ASSUME Bad # {} PROVE FALSE
    OBVIOUS
  <2>1. Bad \subseteq Nat
    BY <1>1
  <2> HIDE DEF Bad
  <2>2. PICK n \in Bad : \A m \in Bad : n <= m
    BY <2>1, LeastNatural
  <2>3. n \in 1 .. L /\ n \in Nat /\ n <= SeqMod /\ s(n) # Past(s(1), n - 1)
    BY <1>1, <2>2 DEF Bad
  <2>4. 1 \in 1 .. L /\ s(1) \in 0 .. SeqMod - 1 /\ SeqMod \in Nat /\ SeqMod >= 2
    BY <1>1, <2>3, SeqModAssumption DEF SeqNum
  <2>5. n # 1
    BY <2>3, <2>4 DEF Past
  <2> DEFINE m == n - 1
  <2>6. m \in 1 .. L /\ m < L /\ m + 1 = n /\ m < n /\ m <= SeqMod /\ m \in Nat
    BY <1>1, <2>3, <2>5, SeqModAssumption
  <2>7. m \notin Bad
    BY <1>1, <2>1, <2>2, <2>6
  <2>8. s(m) = Past(s(1), m - 1) /\ s(m) \in SeqNum /\ Inc(s(m)) = s(n)
    BY <1>1, <1>2, <2>6, <2>7 DEF Bad
  <2>9. s(n) = IF s(m) = SeqMod - 1 THEN 0 ELSE s(m) + 1
    BY <1>3, <2>8
  <2> QED BY <2>3, <2>4, <2>6, <2>8, <2>9, SMTT(30) DEF Past
<1>5. i \notin Bad
  BY <1>4
<1> QED BY <1>5 DEF s, L

(***************************************************************************)
(* N(R) is as many numbers past the first item as osdlp_remove_acked_frames *)
(* removes items for it, or more.                                          *)
(***************************************************************************)
LEMMA AckedInRun ==
    ASSUME NEW f, Sound(f), Numbered(f), f.sent # <<>>, NEW nr \in SeqNum
    PROVE  AckedCount(f, nr) <= (nr - f.sent[1].seq) % SeqMod
<1> DEFINE k == AckedCount(f, nr)
           x == f.sent[1].seq
           d == (nr - x) % SeqMod
<1>1. /\ f.sent \in Seq(Item) /\ Len(f.sent) \in Nat /\ Len(f.sent) # 0
      /\ x \in SeqNum
  <2>1. f.sent \in Seq(Item) /\ Len(f.sent) \in Nat
    BY OpenFields
  <2>2. Len(f.sent) # 0 /\ 1 \in 1 .. Len(f.sent)
    BY <2>1
  <2>3. f.sent[1] \in Item
    BY <2>2, OpenFields
  <2> QED BY <2>1, <2>2, <2>3 DEF Item
<1>2. k \in 0 .. Len(f.sent) /\ \A i \in 1 .. k : f.sent[i].seq # nr
  BY AckedCountDefined DEF Sound
<1>3. d = IF nr >= x THEN nr - x ELSE nr - x + SeqMod
  BY <1>1, CircleDistance
<1> HIDE DEF k, d
<1>4. d \in Nat /\ d < SeqMod /\ d + 1 <= SeqMod /\ d + 1 - 1 = d
  BY <1>1, <1>3, SeqModAssumption, SMTT(30) DEF SeqNum
<1>5. SUFFICES ASSUME d + 1 <= k PROVE FALSE
  BY <1>2, <1>4 DEF k, d
<1>6. d + 1 \in 1 .. k /\ d + 1 \in 1 .. Len(f.sent)
  BY <1>1, <1>2, <1>4, <1>5
<1>7. f.sent[d + 1].seq = Past(x, d)
  BY <1>4, <1>6, RunOfNumbers
<1>8. f.sent[d + 1].seq = nr
  BY <1>1, <1>3, <1>7, SeqModAssumption, SMTT(60) DEF SeqNum, Past
<1> QED BY <1>2, <1>6, <1>8

(* At most one turn of the circle: no two items have the same number. *)
LEMMA NumbersDistinct ==
    ASSUME NEW f, Sound(f), Numbered(f), SentCap <= SeqMod,
           NEW i \in 1 .. Len(f.sent), NEW j \in 1 .. Len(f.sent),
           f.sent[i].seq = f.sent[j].seq
    PROVE  i = j
<1> DEFINE x == f.sent[1].seq
<1>1. Len(f.sent) \in Nat /\ Len(f.sent) <= SentCap /\ i <= SeqMod /\ j <= SeqMod
  BY OpenFields, SentCapAssumption, SeqModAssumption
<1>2. x \in SeqNum
  BY <1>1, OpenFields DEF Item
<1>3. f.sent[i].seq = Past(x, i - 1) /\ f.sent[j].seq = Past(x, j - 1)
  BY <1>1, RunOfNumbers
<1> HIDE DEF x
<1>4. Past(x, i - 1) = Past(x, j - 1)
  BY <1>3
<1>5. i \in 1 .. SeqMod /\ j \in 1 .. SeqMod
  BY <1>1, SeqModAssumption
<1> QED BY <1>2, <1>4, <1>5, SeqModAssumption DEF SeqNum, Past

(* With room left, V(S) is no number of the sent queue. *)
LEMMA VsPastRun ==
    ASSUME NEW f, Sound(f), Numbered(f), SentCap <= SeqMod, Len(f.sent) < SentCap,
           NEW i \in 1 .. Len(f.sent)
    PROVE  f.sent[i].seq # f.vs
<1> DEFINE x == f.sent[1].seq
           L == Len(f.sent)
           y == f.sent[L].seq
           z == f.sent[i].seq
<1>1. L \in Nat /\ L < SeqMod /\ i <= SeqMod /\ L <= SeqMod /\ L \in 1 .. L /\ 1 \in 1 .. L
  BY OpenFields, SentCapAssumption, SeqModAssumption
<1>2. x \in SeqNum /\ y \in SeqNum
  BY <1>1, OpenFields DEF Item
<1>3. z = Past(x, i - 1) /\ y = Past(x, L - 1) /\ i \in 1 .. L
  BY <1>1, RunOfNumbers
<1>4. Inc(y) = f.vs
  BY <1>1 DEF Numbered
<1>5. Inc(y) = IF y = SeqMod - 1 THEN 0 ELSE y + 1
  BY <1>2, IncOnCircle
<1> HIDE DEF x, L, y, z
<1>6. z # f.vs
  BY <1>1, <1>2, <1>3, <1>4, <1>5, SeqModAssumption DEF SeqNum, Past
<1> QED BY <1>6 DEF z

-----------------------------------------------------------------------------
(* What the FOP is in when the invariants are put together. *)
Regular == Sound(fop) /\ late \in BOOLEAN /\ Steady(fop)

LEMMA RegularAlways == FopSpec => []Regular
<1>1. FopInit => Regular
  <2>1. FopInit => fop.sent = <<>>
    BY DEF FopInit
  <2> QED BY <2>1, SoundInit, EmptyNumbered DEF Steady, Regular
<1>2. Regular /\ [FopNext]_fopVars => Regular'
  BY SoundStep, SteadyStep DEF Regular
<1> QED BY <1>1, <1>2, PTL DEF FopSpec

LEMMA OpenRegular ==
    ASSUME Regular, fop.state \in AdStates
    PROVE  Open(fop) /\ Numbered(fop)
BY DEF Regular, Open, Steady, AdStates, OpenStates

(***************************************************************************)
(* An open service forgets a frame it has sent by a control word whose     *)
(* N(R) is past it, or with everything else, whatever the two capacities,  *)
(* the windows and the modulus.                                            *)
(***************************************************************************)
THEOREM UnackedAreKept ==
    FopSpec => UnackedKept
<1> DEFINE A == fop.state \in AdStates /\ fop'.state # "INIT" /\ ~RefusalPurged =>
                    \A i \in DOMAIN fop.sent :
                       Kept(fop.sent[i]) \/ \E c \in Clcw : Acks(c.nr) >= i /\ HandleClcw(c)
<1>1. ASSUME Regular, Regular', [FopNext]_fopVars PROVE A
  <2> SUFFICES ASSUME fop.state \in AdStates, fop'.state # "INIT", ~RefusalPurged,
                      NEW i \in DOMAIN fop.sent
               PROVE  Kept(fop.sent[i]) \/ \E c \in Clcw : Acks(c.nr) >= i /\ HandleClcw(c)
    OBVIOUS
  <2>1. Open(fop) /\ Numbered(fop) /\ Sound(fop) /\ Sound(fop')
    BY <1>1, OpenRegular DEF Regular
  <2>2. /\ i \in 1 .. Len(fop.sent) /\ i \in Nat /\ Len(fop.sent) \in Nat
        /\ fop.sent \in Seq(Item)
        /\ DOMAIN fop'.sent = 1 .. Len(fop'.sent) /\ Len(fop'.sent) \in Nat
    BY <2>1, OpenFields
  <2>3. ASSUME NEW k \in 0 .. Len(fop.sent), Outcome(fop, fop', k), i > k
        PROVE  Kept(fop.sent[i])
    <3>1. Follows(fop, fop', k)
      BY <2>3 DEF Outcome, Purged, RefusalPurged
    <3>2. i - k \in 1 .. Len(fop.sent) - k /\ i - k + k = i /\ i - k \in DOMAIN fop'.sent
      BY <2>2, <2>3, <3>1, SMTT(30) DEF Follows
    <3>3. SameItem(fop'.sent[i - k], fop.sent[i])
      BY <3>1, <3>2 DEF Follows
    <3> QED BY <3>2, <3>3 DEF Kept, SameItem
  <2>4. CASE Uplink
    <3>1. fop'.sent = fop.sent
      BY <2>1, <2>4 DEF Uplink, Sound, Fits, FopRecord
    <3> QED BY <3>1 DEF Kept
  <2>5. CASE Outcome(fop, fop', 0)
    BY <2>2, <2>3, <2>5
  <2>6. ASSUME NEW c \in Clcw, HandleClcw(c), Outcome(fop, fop', AckedCount(fop, c.nr))
        PROVE  Kept(fop.sent[i]) \/ Acks(c.nr) >= i
    <3> DEFINE k == AckedCount(fop, c.nr)
    <3>1. k \in 0 .. Len(fop.sent) /\ c.nr \in SeqNum
      BY <2>1, AckedCountDefined DEF Sound, Clcw
    <3>2. CASE i > k
      BY <2>3, <2>6, <3>1, <3>2
    <3>3. CASE ~ (i > k)
      <4>1. fop.sent # <<>>
        BY <2>2
      <4>2. k <= (c.nr - fop.sent[1].seq) % SeqMod
        BY <2>1, <3>1, <4>1, AckedInRun
      <4>3. Acks(c.nr) = (c.nr - fop.sent[1].seq) % SeqMod
        BY <4>1 DEF Acks
      <4>4. fop.sent[1].seq \in SeqNum
        <5>1. 1 \in 1 .. Len(fop.sent)
          BY <2>2
        <5> QED BY <2>1, <5>1, OpenFields DEF Item
      <4>5. (c.nr - fop.sent[1].seq) % SeqMod \in Int
        BY <3>1, <4>4, CircleDistance, SeqModAssumption DEF SeqNum
      <4> HIDE DEF k
      <4> QED BY <2>2, <3>1, <3>3, <4>2, <4>3, <4>5
    <3> QED BY <3>2, <3>3
  <2> QED BY <1>1, <2>1, <2>4, <2>5, <2>6, OpenStep
<1>2. Regular /\ Regular' /\ [FopNext]_fopVars => [A]_fopVars
  BY <1>1
<1> HIDE DEF A
<1>3. FopSpec => [][A]_fopVars
  BY <1>2, RegularAlways, PTL DEF FopSpec
<1> QED BY <1>3 DEF UnackedKept, A

(***************************************************************************)
(* How a service comes to be open: with an empty sent queue, or resumed    *)
(* with the queues it was suspended with and the timer on.                 *)
(***************************************************************************)
LEMMA Entered ==
    ASSUME Sound(fop), [FopNext]_fopVars, fop.state \notin AdStates, fop'.state \in AdStates
    PROVE  \/ fop'.sent = <<>>
           \/ fop.state = "INIT" /\ fop'.sent = fop.sent /\ fop'.tx = fop.tx /\ fop'.armed
<1>1. fop \in FopRecord /\ fop.state \in {"INIT", "INIT_NO_BC", "INIT_BC"}
  BY DEF Sound, Fits, FopRecord, FopStates
<1>2. fop'.state \notin {"INIT", "INIT_NO_BC", "INIT_BC"}
  BY DEF AdStates, OpenStates
<1>3. ASSUME NEW sig PROVE Say(fop, sig).state = fop.state /\ Alert(fop, sig).state = "INIT"
  BY <1>1, AlertEnds DEF Say, FopRecord
<1>4. ASSUME NEW c \in Clcw, HandleClcw(c) PROVE fop'.sent = <<>>
  <2> DEFINE e == ClcwEvent(fop, c)
  <2>1. e \in Events
    BY ClcwEventKnown
  <2>2. CASE e = "E1"
    <3>1. fop' = FopE1(fop)
      BY <1>4, <2>2 DEF HandleClcw, OnClcw
    <3>2. CASE fop.state = "INIT_NO_BC"
      <4>1. fop.sent = <<>>
        BY <3>2 DEF Sound, Matched
      <4> QED BY <1>1, <3>1, <3>2, <4>1 DEF FopE1, FopRecord
    <3>3. CASE fop.state = "INIT_BC"
      <4> DEFINE q == Tail(fop.sent)
      <4>1. Len(fop.sent) = 1 /\ fop.sent[1].type = "B" /\ fop.sent \in Seq(Item)
        BY <1>1, <3>3 DEF Sound, Matched, FopRecord
      <4>2. q = <<>>
        <5>1. q \in Seq(Item) /\ Len(q) = 0
          BY <4>1, HeadTailProperties
        <5> QED BY <5>1, EmptySeq
      <4>3. Head(fop.sent).type = "B"
        BY <4>1
      <4> HIDE DEF q
      <4>4. ReleaseCopyOfBc(fop) = [fop EXCEPT !.sent = q]
        BY <1>1, <4>3 DEF ReleaseCopyOfBc, FopRecord, q
      <4> QED BY <1>1, <3>1, <3>3, <4>2, <4>4 DEF FopE1, FopRecord
    <3>4. CASE fop.state = "INIT"
      BY <1>2, <3>1, <3>4 DEF FopE1
    <3> QED BY <1>1, <3>2, <3>3, <3>4
  <2>3. CASE e # "E1"
    <3>1. OnClcw(fop, c).state \in {fop.state, "INIT"}
      <4>1. \A s, sig : AlertIn(fop, s, sig).state \in {fop.state, "INIT"}
        BY <1>3 DEF AlertIn
      <4>2. CASE e \in {"E2", "E6", "E8", "E9", "E101"}
        BY <1>1, <4>2
           DEF OnClcw, FopE2, FopE6, FopE8, FopE9, FopE101, AdStates, OpenStates
      <4>3. CASE e \in {"E10", "E11", "E12", "E103"}
        BY <1>1, <4>3 DEF OnClcw, FopE10, FopE11, FopE12, FopE103, AdStates, OpenStates
      <4>4. CASE e \in {"E3", "E4", "E5", "E7"}
        BY <4>1, <4>4 DEF OnClcw, FopE3, FopE4, FopE5, FopE7
      <4>5. CASE e \in {"E13", "E14", "E102", "NO_LIMIT"}
        BY <1>3, <4>1, <4>5 DEF OnClcw, FopE13, FopE14, FopE102
      <4> HIDE DEF e
      <4> QED BY <2>1, <2>3, <4>2, <4>3, <4>4, <4>5 DEF Events
    <3> QED BY <1>1, <1>2, <1>4, <3>1 DEF HandleClcw
  <2> QED BY <2>2, <2>3
<1>5. CASE Expire
  BY <1>1, <1>2, <1>5 DEF Expire, Cancel, FopRecord
<1>6. CASE HandleTimerExpired
  <2>1. FopE16(fop).state \in {"INIT", "INIT_NO_BC", "INIT_BC"}
    <3>1. CASE fop.state = "INIT_BC"
      <4>1. RetransmitBc(fop).state \in {"INIT", "INIT_BC"}
        <5> DEFINE n == (fop.txCnt + 1) % CntMod
                   g == [fop EXCEPT !.tx = <<>>, !.txCnt = n, !.armed = TRUE]
                   x == [i \in 1 .. TxCap |-> FrameOf(Head(fop.sent))]
                   h == [Alert(g, "UNDEF_ERROR") EXCEPT !.tx = x]
        <5>1. RetransmitBc(fop) = IF MarksBc /\ Head(g.sent).type = "B"
                                  THEN h ELSE Say(g, "ACCEPT_DIR")
          BY <1>1 DEF RetransmitBc, FopRecord
        <5> HIDE DEF x, n
        <5>2. g.state = fop.state
          BY <1>1 DEF FopRecord
        <5>3. Say(g, "ACCEPT_DIR").state = fop.state
          BY <1>1 DEF Say, FopRecord
        <5>4. h.state = "INIT"
          BY <1>1 DEF Alert, FopRecord
        <5> HIDE DEF g, h
        <5> QED BY <3>1, <5>1, <5>3, <5>4
      <4> QED BY <3>1, <4>1 DEF FopE16, OpenStates
    <3>2. CASE fop.state # "INIT_BC"
      BY <1>1, <1>3, <3>2 DEF FopE16, OpenStates
    <3> QED BY <3>1, <3>2
  <2>2. FopE104(fop).state \in {"INIT", "INIT_NO_BC", "INIT_BC"}
    BY <1>1, <2>1 DEF FopE104, FopRecord
  <2>3. FopE17(fop).state \in {"INIT", "INIT_NO_BC", "INIT_BC"}
    BY <1>1, <1>3 DEF FopE17, AlertIn
  <2>4. FopE18(fop).state \in {"INIT", "INIT_NO_BC", "INIT_BC"}
    BY <1>1, <1>3 DEF FopE18, FopRecord
  <2>5. OnTimer(fop) \in {FopE16(fop), FopE104(fop), FopE17(fop), FopE18(fop)}
    BY DEF OnTimer
  <2> QED BY <1>2, <1>6, <2>1, <2>2, <2>3, <2>4, <2>5 DEF HandleTimerExpired
<1>7. ASSUME NEW d \in SDU, RequestAd(d) \/ RequestBd(d) PROVE FALSE
  <2>1. TransmitAd(fop, d).state = fop.state
    BY <1>1 DEF TransmitAd, FopE19, FopE20, Say, FopRecord, OpenStates
  <2>2. TransmitBd(fop, d).state = fop.state
    BY <1>1 DEF TransmitBd, FopE21, Say, FopRecord
  <2> QED BY <1>7, <2>1, <2>2 DEF RequestAd, RequestBd
<1>8. CASE Directive
  <2>1. CASE InitiateNoClcw \/ InitiateWithClcw
    BY <1>1, <2>1 DEF InitiateNoClcw, InitiateWithClcw, InitializeCop, Start, Say, FopRecord
  <2>2. CASE InitiateWithUnlock \/ \E vr \in SeqNum : InitiateWithSetvr(vr)
    <3>1. ASSUME NEW g \in FopRecord, NEW code PROVE TransmitTypeBc(g, code).state \in {"INIT", "INIT_BC"}
      <4> DEFINE h == [g EXCEPT !.hdr = code, !.txCnt = 1, !.armed = TRUE]
                 it == [type |-> "B", seq |-> g.vs, rt |-> FALSE, code |-> code, sdu |-> NoSDU]
                 s == Append(h.sent, it)
                 x == Append(h.tx, FrameOf(it))
                 r == [h EXCEPT !.sent = s, !.tx = x, !.state = "INIT_BC", !.signal = "ACCEPT_DIR"]
      <4>1. TransmitTypeBc(g, code) = IF TxFull(g) THEN Alert(h, "UNDEF_ERROR") ELSE r
        BY DEF TransmitTypeBc
      <4> HIDE DEF s, x
      <4>2. r.state = "INIT_BC" /\ Alert(h, "UNDEF_ERROR").state = "INIT"
        BY DEF FopRecord, Alert
      <4> HIDE DEF h, r
      <4> QED BY <4>1, <4>2
    <3>2. InitializeCop(fop) \in FopRecord
      BY InitializeCopPurges DEF Fits
    <3>3. ASSUME NEW v \in SeqNum
          PROVE  [InitializeCop(fop) EXCEPT !.vs = v, !.nnr = v] \in FopRecord
      <4> DEFINE h == InitializeCop(fop)
      <4>1. h \in FopRecord
        BY <3>2
      <4> HIDE DEF h
      <4>2. [h EXCEPT !.vs = v, !.nnr = v] \in FopRecord
        BY <4>1 DEF FopRecord
      <4> QED BY <4>2 DEF h
    <3> QED BY <1>2, <2>2, <3>1, <3>2, <3>3 DEF InitiateWithUnlock, InitiateWithSetvr
  <2>3. CASE \E v \in SeqNum : SetNewVs(v)
    BY <1>1, <1>2, <2>3 DEF SetNewVs, FopRecord
  <2>4. CASE TerminateAd
    BY <1>2, <1>3, <2>4 DEF TerminateAd
  <2>5. CASE ResumeAd
    BY <1>1, <2>5 DEF ResumeAd, Start, FopRecord
  <2>6. CASE \/ \E w \in Windows : SetSlidingWindow(w)
             \/ \E l \in Limits : SetTxLimit(l)
             \/ \E t \in {0, 1} : SetTt(t)
    BY <1>1, <1>2, <2>6 DEF SetSlidingWindow, SetTxLimit, SetTt, FopRecord
  <2> QED BY <1>8, <2>1, <2>2, <2>3, <2>4, <2>5, <2>6 DEF Directive
<1>9. CASE Uplink
  BY <1>1, <1>2, <1>9 DEF Uplink, FopRecord
<1>10. CASE UNCHANGED fopVars
  BY <1>1, <1>2, <1>10 DEF fopVars
<1> QED BY <1>4, <1>5, <1>6, <1>7, <1>8, <1>9, <1>10 DEF FopNext

(***************************************************************************)
(* An AD frame that is dropped from the tx queue while it is outstanding   *)
(* comes again, in every configuration whose sent queue holds no more than *)
(* one turn of the circle of numbers (256 in the code, and queues of 10).  *)
(***************************************************************************)
THEOREM ClearedComeAgain ==
    ASSUME SentCap <= SeqMod
    PROVE  FopSpec => ClearedComesAgain
<1> DEFINE A == fop'.state \in AdStates /\ ~RefusalPurged /\ ~Uplink =>
                    \A i \in DOMAIN fop.sent, j \in DOMAIN fop'.sent :
                       Queued(fop, i) /\ fop'.sent[j].seq = fop.sent[i].seq =>
                          fop'.sent[j].rt \/ Queued(fop', j)
<1>1. ASSUME Regular, Regular', [FopNext]_fopVars PROVE A
  <2> SUFFICES ASSUME fop'.state \in AdStates, ~RefusalPurged, ~Uplink,
                      NEW i \in DOMAIN fop.sent, NEW j \in DOMAIN fop'.sent,
                      Queued(fop, i), fop'.sent[j].seq = fop.sent[i].seq
               PROVE  Coming(fop', j)
    BY DEF Coming
  <2>1. Sound(fop) /\ Sound(fop')
    BY <1>1 DEF Regular
  <2>2. /\ i \in 1 .. Len(fop.sent) /\ i \in Nat /\ Len(fop.sent) \in Nat
        /\ j \in 1 .. Len(fop'.sent) /\ j \in Nat /\ Len(fop'.sent) \in Nat
        /\ fop'.sent \in Seq(Item)
    BY <2>1, OpenFields
  <2>3. CASE fop.state \notin AdStates
    <3>1. fop'.sent # <<>>
      BY <2>2
    <3>2. fop.state = "INIT" /\ fop'.sent = fop.sent /\ fop'.tx = fop.tx
      BY <1>1, <2>1, <2>3, <3>1, Entered
    <3>3. Numbered(fop)
      BY <1>1, <3>2 DEF Regular, Steady
    <3>4. j = i
      BY <2>1, <2>2, <3>2, <3>3, NumbersDistinct
    <3> QED BY <3>2, <3>4 DEF Coming, Queued
  <2>4. CASE fop.state \in AdStates
    <3>1. Open(fop) /\ Numbered(fop)
      BY <1>1, <2>4, OpenRegular
    <3>2. PICK k \in 0 .. Len(fop.sent) : Outcome(fop, fop', k)
      BY <1>1, <2>1, <2>2, <3>1, OpenStep, AckedCountDefined DEF Sound
    <3>3. Follows(fop, fop', k)
      BY <3>2 DEF Outcome, Purged, RefusalPurged, AdStates, OpenStates
    <3>4. CASE j <= Len(fop.sent) - k
      <4>1. j \in 1 .. Len(fop.sent) - k /\ j + k \in 1 .. Len(fop.sent)
        BY <2>2, <3>2, <3>4
      <4>2. SameItem(fop'.sent[j], fop.sent[j + k]) /\ (Coming(fop, j + k) => Coming(fop', j))
        BY <3>3, <4>1 DEF Follows
      <4>3. j + k = i
        BY <2>1, <2>2, <3>1, <4>1, <4>2, NumbersDistinct DEF SameItem
      <4> QED BY <4>2, <4>3 DEF Coming
    <3>5. CASE ~ (j <= Len(fop.sent) - k)
      <4>1. j \in Len(fop.sent) - k + 1 .. Len(fop'.sent)
        BY <2>2, <3>2, <3>5
      <4> QED BY <3>3, <4>1 DEF Follows
    <3> QED BY <3>4, <3>5
  <2> QED BY <2>3, <2>4
<1>2. Regular /\ Regular' /\ [FopNext]_fopVars => [A]_fopVars
  BY <1>1
<1> HIDE DEF A
<1>3. FopSpec => [][A]_fopVars
  BY <1>2, RegularAlways, PTL DEF FopSpec
<1> QED BY <1>3 DEF ClearedComesAgain, A

(***************************************************************************)
(* An outstanding frame of ACTIVE and RT_NO_WAIT stays under the timer, as *)
(* long as the service does not pass through RT_WAIT and no more than the  *)
(* window and one is outstanding: osdlp_fop_e2 stops the timer when V(S)   *)
(* has acknowledged everything, and V(S) is then no number of the sent     *)
(* queue.  In every configuration whose sent queue holds no more than one  *)
(* turn of the circle.                                                     *)
(***************************************************************************)
THEOREM TimerKeptOutsideRtWait ==
    ASSUME SentCap <= SeqMod
    PROVE  FopSpec => TimerLostOnlyInRtWait
<1> DEFINE A == fop.state # "RT_WAIT" /\ Len(fop.sent) <= fop.wnd + 1 /\ OutstandingTimed =>
                    OutstandingTimed'
<1>1. ASSUME Regular, Regular', [FopNext]_fopVars PROVE A
  <2> SUFFICES ASSUME fop.state # "RT_WAIT", Len(fop.sent) <= fop.wnd + 1, OutstandingTimed,
                      fop'.state \in OpenStates, fop'.sent # <<>>
               PROVE  fop'.armed \/ late'
    BY DEF OutstandingTimed
  <2>1. Sound(fop) /\ fop \in FopRecord /\ fop'.state \in AdStates /\ late \in BOOLEAN
    BY <1>1 DEF Regular, Sound, Fits, AdStates
  <2>2. CASE fop.state \notin AdStates
    BY <1>1, <2>1, <2>2, Entered
  <2>3. CASE fop.state \in AdStates
    <3>1. Open(fop) /\ Numbered(fop) /\ fop.state \in OpenStates
      BY <1>1, <2>3, OpenRegular DEF AdStates
    <3>2. ASSUME Watched(fop, fop'), late' = late PROVE fop'.armed \/ late'
      BY <3>1, <3>2 DEF Watched, OutstandingTimed
    <3>3. ASSUME NEW c \in Clcw, HandleClcw(c) PROVE fop'.armed \/ late'
      <4> DEFINE k == AckedCount(fop, c.nr)
                 L == Len(fop.sent)
      <4>1. ASSUME ReadsSentHead(fop, c), c.nr = fop.vs PROVE k = L
        <5>1. L < SentCap
          BY <3>3, <4>1 DEF HandleClcw
        <5>2. k \in 0 .. L /\ (k = L \/ k = fop.wnd + 1 \/ fop.sent[k + 1].seq = c.nr)
          BY <2>1, AckedCountDefined DEF Sound
        <5>3. L \in Nat
          BY <2>1, OpenFields
        <5>4. fop.wnd \in Int
          <6>1. fop.wnd \in Windows
            BY <2>1 DEF FopRecord
          <6>2. fop.wnd \in 1 .. SeqMod - 1
            BY <6>1, WindowsAssumption
          <6> QED BY <6>2, SeqModAssumption
        <5>5. \A i \in 1 .. L : fop.sent[i].seq # c.nr
          BY <2>1, <3>1, <4>1, <5>1, VsPastRun
        <5> HIDE DEF k
        <5>6. CASE k < L
          <6>1. k + 1 \in 1 .. L
            BY <5>2, <5>3, <5>6
          <6> QED BY <5>2, <5>3, <5>4, <5>5, <5>6, <6>1
        <5> QED BY <5>2, <5>3, <5>6
      <4>2. Watched(fop, fop')
        BY <3>1, <3>3, <4>1, OnClcwFollows DEF HandleClcw
      <4> QED BY <3>2, <3>3, <4>2 DEF HandleClcw
    <3>4. CASE Expire
      BY <3>4 DEF Expire
    <3>5. CASE HandleTimerExpired
      BY <3>1, <3>5, OnTimerFollows DEF HandleTimerExpired
    <3>6. ASSUME NEW d \in SDU, RequestAd(d) \/ RequestBd(d) PROVE fop'.armed \/ late'
      BY <3>1, <3>2, <3>6, RequestFollows DEF RequestAd, RequestBd
    <3>7. ASSUME fop'.sent = fop.sent, fop'.armed = fop.armed, late' = late
          PROVE  fop'.armed \/ late'
      BY <3>1, <3>7 DEF OutstandingTimed
    <3>8. CASE Directive
      <4>1. fop'.sent = fop.sent /\ fop'.armed = fop.armed
        BY <3>1, <3>8, DirectiveInService DEF OpenStates
      <4>2. late' = late
        BY <3>8 DEF Directive, InitiateNoClcw, InitiateWithClcw, InitiateWithUnlock,
                    InitiateWithSetvr, SetNewVs, TerminateAd, ResumeAd, SetSlidingWindow,
                    SetTxLimit, SetTt
      <4> QED BY <3>7, <4>1, <4>2
    <3>9. CASE Uplink
      BY <2>1, <3>7, <3>9 DEF Uplink, FopRecord
    <3>10. CASE UNCHANGED fopVars
      BY <3>7, <3>10 DEF fopVars
    <3> QED BY <1>1, <3>3, <3>4, <3>5, <3>6, <3>8, <3>9, <3>10 DEF FopNext
  <2> QED BY <2>2, <2>3
<1>2. Regular /\ Regular' /\ [FopNext]_fopVars => [A]_fopVars
  BY <1>1
<1> HIDE DEF A
<1>3. FopSpec => [][A]_fopVars
  BY <1>2, RegularAlways, PTL DEF FopSpec
<1> QED BY <1>3 DEF TimerLostOnlyInRtWait, A

-----------------------------------------------------------------------------
(* FateSignalled: what a step makes of the SDU that waits. *)

AllAd(f) == \A i \in DOMAIN f.sent : f.sent[i].code = "AD"

Errors == Alerts \cup {"UNDEF_ERROR"}

(* What the signal of g says is what has become of the SDU that waited in f. *)
Answered(f, g) ==
    \/ g.wait = <<>> /\ g.signal = "ACCEPT_TX"
          /\ \E j \in DOMAIN g.sent : g.sent[j].sdu = f.wait[1]
    \/ g.wait = <<>> /\ g.signal \in Errors
    \/ g.wait # <<>> /\ (g.signal = "ACCEPT_TX" => f.signal = "ACCEPT_TX")

(* A service that goes on keeps the frame types of its items. *)
LEMMA AllAdFollows ==
    ASSUME NEW f, NEW g, Sound(f), Sound(g), AllAd(f), NEW k \in 0 .. Len(f.sent),
           Follows(f, g, k), Len(g.sent) = Len(f.sent) - k
    PROVE  AllAd(g)
<1>1. /\ DOMAIN f.sent = 1 .. Len(f.sent) /\ Len(f.sent) \in Nat
      /\ DOMAIN g.sent = 1 .. Len(g.sent)
  BY OpenFields
<1> SUFFICES ASSUME NEW i \in DOMAIN g.sent PROVE g.sent[i].code = "AD"
  BY DEF AllAd
<1>2. i \in 1 .. Len(f.sent) - k /\ i + k \in DOMAIN f.sent
  BY <1>1
<1>3. SameItem(g.sent[i], f.sent[i + k])
  BY <1>2 DEF Follows
<1> QED BY <1>2, <1>3 DEF AllAd, SameItem

(* What an alert and what a changed state or signal answer. *)
LEMMA SimpleAnswers ==
    ASSUME NEW f, f \in FopRecord, f.wait # <<>>
    PROVE  /\ Answered(f, f)
           /\ \A g \in FopRecord : \A sig \in Errors : Answered(f, Alert(g, sig))
           /\ \A s : Answered(f, [f EXCEPT !.state = s])
           /\ \A g \in FopRecord : \A sig :
                 g.wait = f.wait /\ sig # "ACCEPT_TX" => Answered(f, Say(g, sig))
<1>1. Answered(f, f)
  BY DEF Answered
<1>2. ASSUME NEW g \in FopRecord, NEW sig \in Errors PROVE Answered(f, Alert(g, sig))
  <2>1. Alert(g, sig).wait = <<>> /\ Alert(g, sig).signal = sig
    BY AlertEnds
  <2> QED BY <2>1 DEF Answered
<1>3. ASSUME NEW s PROVE Answered(f, [f EXCEPT !.state = s])
  <2>1. [f EXCEPT !.state = s].wait = f.wait /\ [f EXCEPT !.state = s].signal = f.signal
    BY DEF FopRecord
  <2> QED BY <2>1 DEF Answered
<1>4. ASSUME NEW g \in FopRecord, NEW sig, g.wait = f.wait, sig # "ACCEPT_TX"
      PROVE  Answered(f, Say(g, sig))
  <2>1. Say(g, sig).wait = f.wait /\ Say(g, sig).signal = sig
    BY <1>4 DEF Say, FopRecord
  <2> QED BY <1>4, <2>1 DEF Answered
<1> QED BY <1>1, <1>2, <1>3, <1>4

(***************************************************************************)
(* The part that retransmits says nothing of the waiting SDU unless it     *)
(* purges it; in ACTIVE and RT_NO_WAIT it leaves no flag.                  *)
(***************************************************************************)
LEMMA ResendAnswers ==
    ASSUME NEW f, Open(f), AllAd(f)
    PROVE  LET g == Resend(f) IN
           \/ g.wait = <<>> /\ g.signal = "UNDEF_ERROR"
           \/ /\ g.wait = f.wait /\ g.signal = f.signal /\ g.state = f.state /\ Open(g)
              /\ f.state \in OpenStates => Flagged(g) = {}
<1>1. f \in FopRecord /\ Fits(f) /\ Adjacent(f)
  BY DEF Open, Sound, Fits, Matched
<1> DEFINE a == RunStart(f)
           b == RunEnd(f)
<1>2. CASE Flagged(f) = {}
  BY <1>2 DEF Resend
<1>3. ASSUME Flagged(f) # {}
      PROVE  /\ a \in Flagged(f) /\ b \in Flagged(f) /\ \A j \in Flagged(f) : a <= j
             /\ f.sent[b].code = "AD"
             /\ f.state \in OpenStates => \A i \in Flagged(f) : i \in a .. b
  <2>1. a \in Flagged(f) /\ b \in Flagged(f) /\ \A j \in Flagged(f) : a <= j
    BY <1>1, <1>3, RunDefined
  <2>2. Flagged(f) \subseteq Int
    BY <1>1, FlaggedBounds
  <2>3. f.sent[b].code = "AD"
    BY <2>1 DEF AllAd, Flagged
  <2>4. f.state \in OpenStates => \A i \in Flagged(f) : i <= b
    BY <1>1, <1>3, <2>3, RunDefined
  <2> HIDE DEF a, b
  <2> QED BY <2>1, <2>2, <2>3, <2>4
<1>4. CASE Flagged(f) # {} /\ b - a + 1 <= TxCap - Len(f.tx)
  <2> DEFINE x == f.tx \o Frames(SubSeq(f.sent, a, b))
             q == [i \in DOMAIN f.sent |->
                     IF i \in a .. b THEN [f.sent[i] EXCEPT !.rt = FALSE] ELSE f.sent[i]]
             g == [f EXCEPT !.tx = x, !.sent = q, !.signal = f.signal]
  <2>1. Resend(f) = g
    BY <1>3, <1>4 DEF Resend
  <2>2. f.state \in OpenStates => \A i \in Flagged(f) : i \in a .. b
    BY <1>3, <1>4
  <2> HIDE DEF a, b, x
  <2>3. \A i \in DOMAIN f.sent : i \in a .. b => q[i].rt = FALSE
    <3>1. \A it \in Item : [it EXCEPT !.rt = FALSE].rt = FALSE
      BY DEF Item
    <3> QED BY <3>1, OpenFields DEF Open
  <2>4. \A i \in DOMAIN f.sent : i \notin a .. b => q[i] = f.sent[i]
    OBVIOUS
  <2>5. DOMAIN q = DOMAIN f.sent
    OBVIOUS
  <2> HIDE DEF q
  <2>6. g.wait = f.wait /\ g.signal = f.signal /\ g.state = f.state /\ g.sent = q
    BY <1>1 DEF FopRecord
  <2> HIDE DEF g
  <2>7. f.state \in OpenStates => Flagged(g) = {}
    BY <2>2, <2>3, <2>4, <2>5, <2>6 DEF Flagged
  <2>8. Open(g)
    <3>1. OpenOrPurged(f, g)
      BY <2>1, ResendSound
    <3> QED BY <2>6, <3>1 DEF OpenOrPurged, Open
  <2> QED BY <2>1, <2>6, <2>7, <2>8
<1>5. CASE Flagged(f) # {} /\ ~ (b - a + 1 <= TxCap - Len(f.tx))
  <2> DEFINE h == Alert(f, "UNDEF_ERROR")
             x == h.tx \o Frames(SubSeq(f.sent, a, a + (TxCap - Len(f.tx)) - 1))
             g == [h EXCEPT !.tx = x]
  <2>1. Resend(f) = g
    BY <1>5 DEF Resend
  <2> HIDE DEF a, b, x
  <2>2. g.wait = <<>> /\ g.signal = "UNDEF_ERROR"
    BY <1>1 DEF Alert, FopRecord
  <2> HIDE DEF g
  <2> QED BY <2>1, <2>2
<1> QED BY <1>2, <1>4, <1>5

(* osdlp_transmit_type_ad says ACCEPT_TX of what it has queued, or an error. *)
LEMMA TransmitTypeAdAnswers ==
    ASSUME NEW f, Open(f), f.wait # <<>>, f.state \in OpenStates => Flagged(f) = {}
    PROVE  Answered(f, TransmitTypeAd(f))
<1> DEFINE it == [type |-> "A", seq |-> f.vs, rt |-> FALSE, code |-> f.hdr, sdu |-> Head(f.wait)]
           n  == IF f.sent = <<>> THEN 1 ELSE f.txCnt
           g  == [f EXCEPT !.wait = <<>>, !.vs = Inc(@), !.armed = TRUE, !.txCnt = n]
           q  == Append(f.sent, it)
           h  == [g EXCEPT !.sent = Append(@, it), !.tx = Append(@, FrameOf(it))]
           r  == IF f.hdr = "AD" /\ f.state \in OpenStates THEN Resend(h) ELSE h
<1>1. /\ f \in FopRecord /\ f.vs \in SeqNum /\ f.hdr \in Codes /\ f.wait \in Seq(SDU)
      /\ n \in 0 .. CntMod - 1 /\ f.sent \in Seq(Item)
      /\ Len(f.sent) <= SentCap /\ Len(f.tx) <= TxCap /\ Len(f.sent) \in Nat /\ Len(f.tx) \in Nat
  BY SeqNumFacts, SMTT(30) DEF Open, Sound, Fits, FopRecord
<1>2. it \in Item /\ it.type = "A" /\ it.rt = FALSE /\ it.sdu = f.wait[1]
  <2>1. Head(f.wait) \in SDU /\ Head(f.wait) = f.wait[1]
    BY <1>1, HeadTailProperties
  <2> QED BY <1>1, <2>1 DEF Item
<1>3. TransmitTypeAd(f) = CASE Len(f.sent) = SentCap -> Say(g, "UNDEF_ERROR")
                            [] Len(f.sent) < SentCap /\ TxFull(f) -> Alert(g, "UNDEF_ERROR")
                            [] OTHER -> Say(r, "ACCEPT_TX")
  BY DEF TransmitTypeAd
<1> HIDE DEF n, it
<1>4. /\ q \in Seq(Item) /\ Len(q) = Len(f.sent) + 1
      /\ \A i \in 1 .. Len(f.sent) : q[i] = f.sent[i]
      /\ q[Len(f.sent) + 1] = it
  BY <1>1, <1>2, AppendProperties
<1>5. /\ Open(g) /\ g.state = f.state /\ g.sent = f.sent /\ g.tx = f.tx /\ g.wait = <<>>
  BY <1>1, DequeuedOpen
<1>6. g \in FopRecord
  BY <1>5 DEF Open, Sound, Fits
<1>7. "UNDEF_ERROR" \in Errors
  BY DEF Errors
<1> HIDE DEF g
<1>8. CASE Len(f.sent) = SentCap
  <2>1. TransmitTypeAd(f) = Say(g, "UNDEF_ERROR")
    BY <1>1, <1>3, <1>8, SentCapAssumption
  <2>2. Say(g, "UNDEF_ERROR").wait = <<>> /\ Say(g, "UNDEF_ERROR").signal = "UNDEF_ERROR"
    BY <1>5, <1>6 DEF Say, FopRecord
  <2> QED BY <1>7, <2>1, <2>2 DEF Answered
<1>9. CASE Len(f.sent) < SentCap /\ TxFull(f)
  <2>1. TransmitTypeAd(f) = Alert(g, "UNDEF_ERROR")
    BY <1>1, <1>3, <1>9, SentCapAssumption
  <2> QED BY <1>1, <1>6, <1>7, <2>1, SimpleAnswers
<1>10. CASE Len(f.sent) < SentCap /\ ~ TxFull(f)
  <2>1. TransmitTypeAd(f) = Say(r, "ACCEPT_TX")
    BY <1>1, <1>3, <1>10, SentCapAssumption
  <2>2. Len(f.tx) < TxCap
    BY <1>1, <1>10, TxCapAssumption DEF TxFull
  <2>3. Open(h) /\ h.wait = <<>>
    BY <1>2, <1>5, <1>10, <2>2, EnqueuedOpen
  <2>4. h.sent = q
    <3> DEFINE x == Append(g.tx, FrameOf(it))
    <3>1. h = [g EXCEPT !.sent = q, !.tx = x]
      BY <1>5, <1>6 DEF FopRecord
    <3> HIDE DEF h, q, x
    <3> QED BY <1>6, <3>1 DEF FopRecord
  <2> HIDE DEF h, q
  <2>5. f.state \in OpenStates => Flagged(h) = {}
    <3>1. ASSUME Flagged(f) = {}, NEW i \in Flagged(h) PROVE FALSE
      <4>1. i \in 1 .. Len(f.sent) + 1 /\ q[i].type = "A" /\ q[i].rt
        BY <1>4, <2>4, <3>1 DEF Flagged
      <4>2. i \in 1 .. Len(f.sent)
        BY <1>1, <1>2, <1>4, <4>1
      <4>3. i \in Flagged(f)
        BY <1>1, <1>4, <4>1, <4>2 DEF Flagged
      <4> QED BY <3>1, <4>3
    <3> QED BY <3>1
  <2>6. r = h
    BY <2>5 DEF Resend
  <2> HIDE DEF r
  <2> DEFINE y == Say(r, "ACCEPT_TX")
  <2>7. h \in FopRecord
    BY <2>3 DEF Open, Sound, Fits
  <2>8. y.wait = <<>> /\ y.signal = "ACCEPT_TX" /\ y.sent = q
    BY <2>3, <2>4, <2>6, <2>7 DEF Say, FopRecord
  <2>9. Len(f.sent) + 1 \in DOMAIN q /\ q[Len(f.sent) + 1].sdu = f.wait[1]
    BY <1>1, <1>2, <1>4
  <2> HIDE DEF y
  <2> QED BY <2>1, <2>8, <2>9 DEF Answered, y
<1> QED BY <1>1, <1>8, <1>9, <1>10, SentCapAssumption

(* osdlp_look_for_fdu, the whole of it. *)
LEMMA LookForFduAnswers ==
    ASSUME NEW f, Open(f), AllAd(f), f.wait # <<>>
    PROVE  Answered(f, LookForFdu(f))
<1> DEFINE g == Resend(f)
<1>1. LookForFdu(f) = IF g.wait = <<>> THEN g
                      ELSE IF InWindow(g) THEN TransmitTypeAd(g) ELSE Say(g, "DELAY_RESP")
  BY DEF LookForFdu
<1>2. \/ g.wait = <<>> /\ g.signal = "UNDEF_ERROR"
      \/ /\ g.wait = f.wait /\ g.signal = f.signal /\ g.state = f.state /\ Open(g)
         /\ f.state \in OpenStates => Flagged(g) = {}
  BY ResendAnswers
<1> HIDE DEF g
<1>3. CASE g.wait = <<>>
  BY <1>1, <1>2, <1>3 DEF Answered, Errors
<1>4. CASE g.wait # <<>>
  <2>1. Answered(g, TransmitTypeAd(g))
    BY <1>2, <1>4, TransmitTypeAdAnswers
  <2>2. Answered(f, TransmitTypeAd(g))
    BY <1>2, <1>4, <2>1 DEF Answered
  <2>3. Answered(f, Say(g, "DELAY_RESP"))
    <3>1. g \in FopRecord /\ f \in FopRecord
      BY <1>2, <1>4 DEF Open, Sound, Fits
    <3> QED BY <1>2, <1>4, <3>1, SimpleAnswers
  <2> QED BY <1>1, <1>4, <2>2, <2>3
<1> QED BY <1>3, <1>4

(* What an answer depends on. *)
LEMMA SameAnswer ==
    ASSUME NEW f, NEW g, NEW h, NEW y, g.wait = f.wait, g.signal = f.signal,
           h.wait = y.wait, h.signal = y.signal, h.sent = y.sent, Answered(g, y)
    PROVE  Answered(f, h)
BY DEF Answered

LEMMA RetransmitAnswers ==
    ASSUME NEW f, Open(f), AllAd(f), f.wait # <<>>
    PROVE  Answered(f, Retransmit(f))
<1> DEFINE h == InitiateAdRetransmission(f)
           g == LookForFdu(h)
           w == [g EXCEPT !.state = "RT_NO_WAIT"]
<1>1. /\ Open(h) /\ Follows(f, h, 0) /\ Len(h.sent) = Len(f.sent)
      /\ h.wait = f.wait /\ h.signal = f.signal
  BY InitiateAdRetransmissionOpen, InitiateAdRetransmissionFollows
<1>2. AllAd(h)
  <2>1. Len(f.sent) - 0 = Len(f.sent) /\ 0 \in 0 .. Len(f.sent)
    BY OpenFields DEF Open
  <2> HIDE DEF h
  <2> QED BY <1>1, <2>1, AllAdFollows DEF Open
<1>3. Retransmit(f) = IF f.state = "RT_NO_WAIT" THEN g ELSE w
  BY DEF Retransmit
<1> HIDE DEF h
<1>4. Answered(h, g) /\ g \in FopRecord
  BY <1>1, <1>2, LookForFduAnswers, LookForFduSound DEF Continues, Sound, Fits
<1> HIDE DEF g
<1>5. w.wait = g.wait /\ w.signal = g.signal /\ w.sent = g.sent
  BY <1>4 DEF FopRecord
<1> HIDE DEF w
<1>6. Answered(f, g)
  BY <1>1, <1>4, SameAnswer
<1>7. Answered(f, w)
  BY <1>1, <1>4, <1>5, SameAnswer
<1> QED BY <1>3, <1>6, <1>7

(* An acknowledgement that takes the items it acknowledges leaves AD frames. *)
LEMMA RemoveAckedAd ==
    ASSUME NEW f, Open(f), AllAd(f), NEW nr \in SeqNum
    PROVE  LET g == RemoveAcked(f, nr)
           IN  Open(g) /\ AllAd(g) /\ g.wait = f.wait /\ g.signal = f.signal /\ g.state = f.state
<1> DEFINE g == RemoveAcked(f, nr)
           k == AckedCount(f, nr)
<1>1. Open(g) /\ g.state = f.state
  BY RemoveAckedOpen
<1>2. /\ Follows(f, g, k) /\ Len(g.sent) = Len(f.sent) - k
      /\ g.wait = f.wait /\ g.signal = f.signal
  BY RemoveAckedFollows
<1>3. k \in 0 .. Len(f.sent)
  BY AckedCountDefined DEF Open, Sound
<1> HIDE DEF g, k
<1>4. AllAd(g)
  BY <1>1, <1>2, <1>3, AllAdFollows DEF Open
<1> QED BY <1>1, <1>2, <1>4 DEF g

(* The events that acknowledge. *)
LEMMA AckEventsAnswer ==
    ASSUME NEW f, Open(f), AllAd(f), f.wait # <<>>, NEW nr \in SeqNum
    PROVE  /\ Answered(f, FopE2(f, nr)) /\ Answered(f, FopE6(f, nr)) /\ Answered(f, FopE8(f, nr))
           /\ Answered(f, FopE9(f, nr)) /\ Answered(f, FopE101(f, nr))
<1> DEFINE g == RemoveAcked(f, nr)
           c == [g EXCEPT !.armed = FALSE]
           a == [g EXCEPT !.state = "ACTIVE"]
           y == LookForFdu(g)
           w == [y EXCEPT !.state = "ACTIVE"]
           z == [g EXCEPT !.state = "RT_WAIT"]
<1>1. f.state \in AdStates /\ f \in FopRecord
  BY DEF Open, Sound, Fits
<1>2. /\ Open(g) /\ AllAd(g) /\ g.wait = f.wait /\ g.signal = f.signal /\ g.state = f.state
      /\ g \in FopRecord
  BY RemoveAckedAd DEF Open, Sound, Fits
<1>3. /\ FopE2(f, nr) = LookForFdu(c) /\ FopE8(f, nr) = Retransmit(g) /\ FopE9(f, nr) = z
      /\ FopE101(f, nr) = Alert(g, "ALERT_LIMIT")
      /\ FopE6(f, nr) = CASE f.state = "ACTIVE"     -> y
                          [] f.state = "RT_NO_WAIT" -> LookForFdu(a)
                          [] f.state = "RT_WAIT"    -> w
  BY <1>1 DEF FopE2, FopE6, FopE8, FopE9, FopE101, Cancel, AdStates, OpenStates
<1> HIDE DEF g
<1>4. /\ c.wait = g.wait /\ c.signal = g.signal /\ c.sent = g.sent
      /\ a.wait = g.wait /\ a.signal = g.signal /\ a.sent = g.sent
      /\ z.wait = g.wait /\ z.signal = g.signal
  BY <1>2 DEF FopRecord
<1>5. Open(c) /\ Open(a)
  <2>1. Open(c)
    BY <1>2, TimerSound DEF Open
  <2>2. Open(a)
    BY <1>2, SetOpen, OpenNotSuspended DEF Open, AdStates, OpenStates
  <2> QED BY <2>1, <2>2
<1> HIDE DEF c, a
<1>6. AllAd(c) /\ AllAd(a)
  BY <1>2, <1>4 DEF AllAd
<1>7. Answered(f, LookForFdu(c)) /\ Answered(f, LookForFdu(a)) /\ Answered(f, y)
  <2>1. Answered(c, LookForFdu(c)) /\ Answered(a, LookForFdu(a)) /\ Answered(g, y)
    BY <1>2, <1>4, <1>5, <1>6, LookForFduAnswers
  <2> QED BY <1>2, <1>4, <2>1, SameAnswer
<1>8. y \in FopRecord
  BY <1>2, LookForFduSound DEF Continues, Sound, Fits
<1> HIDE DEF y
<1>9. Answered(f, w)
  <2>1. w.wait = y.wait /\ w.signal = y.signal /\ w.sent = y.sent
    BY <1>8 DEF FopRecord
  <2> HIDE DEF w
  <2> QED BY <1>7, <2>1, SameAnswer
<1>10. Answered(f, z)
  <2> HIDE DEF z
  <2> QED BY <1>2, <1>4 DEF Answered
<1>11. Answered(f, Retransmit(g))
  <2>1. Answered(g, Retransmit(g))
    BY <1>2, RetransmitAnswers
  <2> QED BY <1>2, <2>1, SameAnswer
<1>12. Answered(f, Alert(g, "ALERT_LIMIT"))
  BY <1>1, <1>2, SimpleAnswers DEF Errors, Alerts
<1> HIDE DEF w, z
<1> QED BY <1>1, <1>3, <1>7, <1>9, <1>10, <1>11, <1>12 DEF AdStates, OpenStates

(* A control word. *)
LEMMA OnClcwAnswers ==
    ASSUME NEW f, Sound(f), AllAd(f), f.wait # <<>>, f.state \in AdStates \cup {"INIT"},
           NEW c \in Clcw
    PROVE  Answered(f, OnClcw(f, c))
<1> DEFINE e == ClcwEvent(f, c)
<1>1. e \in Events /\ c.nr \in SeqNum /\ f \in FopRecord
  BY ClcwEventKnown DEF Clcw, Sound, Fits
<1>2. Answered(f, f)
  BY <1>1, SimpleAnswers
<1>3. ASSUME NEW states, NEW sig \in Errors PROVE Answered(f, AlertIn(f, states, sig))
  BY <1>1, <1>2, SimpleAnswers DEF AlertIn
<1>4. Alerts \subseteq Errors /\ {"ALERT_LIMIT", "ALERT_LOCKOUT", "ALERT_SYNCH", "ALERT_NNR",
                                  "ALERT_CLCW", "ALERT_LLIF", "ALERT_T1"} = Alerts
  BY DEF Alerts, Errors
<1>5. CASE e \in {"E3", "E4", "E5", "E7"}
  BY <1>3, <1>4, <1>5 DEF OnClcw, FopE3, FopE4, FopE5, FopE7
<1>6. CASE e \in {"E13", "E14", "E102"}
  BY <1>3, <1>4, <1>6 DEF OnClcw, FopE13, FopE14, FopE102
<1>7. CASE e = "NO_LIMIT"
  BY <1>1, <1>7, SimpleAnswers DEF OnClcw
<1>8. CASE e = "E1"
  <2>1. FopE1(f) \in {f, Alert(f, "ALERT_SYNCH")}
    BY DEF FopE1, AdStates, OpenStates
  <2>2. Answered(f, Alert(f, "ALERT_SYNCH"))
    BY <1>1, <1>4, SimpleAnswers
  <2> QED BY <1>2, <1>8, <2>1, <2>2 DEF OnClcw
<1>9. CASE e \in {"E11", "E12", "E103"}
  <2>1. \A s : Answered(f, [f EXCEPT !.state = s])
    BY <1>1, SimpleAnswers
  <2> QED BY <1>2, <1>9, <2>1 DEF OnClcw, FopE11, FopE12, FopE103
<1>10. CASE e = "E10"
  <2>1. f.state \in {"ACTIVE", "RT_WAIT"} => Answered(f, Retransmit(f))
    BY RetransmitAnswers DEF Open, AdStates, OpenStates
  <2> QED BY <1>2, <1>10, <2>1 DEF OnClcw, FopE10
<1>11. CASE e \in {"E2", "E6", "E8", "E9", "E101"}
  <2>1. CASE f.state \in AdStates
    BY <1>1, <1>11, <2>1, AckEventsAnswer DEF OnClcw, Open
  <2>2. CASE f.state = "INIT"
    <3>1. OnClcw(f, c) = f
      BY <1>11, <2>2 DEF OnClcw, FopE2, FopE6, FopE8, FopE9, FopE101, AdStates, OpenStates
    <3> QED BY <1>2, <3>1
  <2> QED BY <2>1, <2>2
<1> HIDE DEF e
<1> QED BY <1>1, <1>5, <1>6, <1>7, <1>8, <1>9, <1>10, <1>11 DEF Events

(* An expiry. *)
LEMMA OnTimerAnswers ==
    ASSUME NEW f, Sound(f), AllAd(f), f.wait # <<>>, f.state \in AdStates \cup {"INIT"}
    PROVE  Answered(f, OnTimer(f))
<1>1. f \in FopRecord
  BY DEF Sound, Fits
<1>2. Answered(f, f) /\ Answered(f, Alert(f, "ALERT_T1"))
  BY <1>1, SimpleAnswers DEF Errors, Alerts
<1>3. Answered(f, FopE16(f))
  <2>1. CASE f.state \in OpenStates
    <3> DEFINE h == InitiateAdRetransmission(f)
    <3>0. Open(f)
      BY <2>1 DEF Open, AdStates
    <3>1. /\ Open(h) /\ Follows(f, h, 0) /\ Len(h.sent) = Len(f.sent)
          /\ h.wait = f.wait /\ h.signal = f.signal
      BY <3>0, InitiateAdRetransmissionOpen, InitiateAdRetransmissionFollows
    <3>2. Len(f.sent) - 0 = Len(f.sent) /\ 0 \in 0 .. Len(f.sent)
      BY OpenFields
    <3>3. FopE16(f) = LookForFdu(h)
      BY <2>1 DEF FopE16, OpenStates
    <3> HIDE DEF h
    <3>4. AllAd(h)
      BY <3>1, <3>2, AllAdFollows DEF Open
    <3>5. Answered(h, LookForFdu(h))
      BY <3>1, <3>4, LookForFduAnswers
    <3> QED BY <3>1, <3>3, <3>5, SameAnswer
  <2>2. CASE f.state \notin OpenStates
    BY <1>2, <2>2 DEF FopE16, AdStates
  <2> QED BY <2>1, <2>2
<1>4. FopE104(f) = FopE16(f)
  BY DEF FopE104, AdStates, OpenStates
<1>5. Answered(f, FopE17(f))
  BY <1>2 DEF FopE17, AlertIn
<1>6. Answered(f, FopE18(f))
  <2>1. FopE18(f) = f \/ \E n : FopE18(f) = [f EXCEPT !.ss = n, !.state = "INIT"]
    BY DEF FopE18, AdStates, OpenStates
  <2>2. ASSUME NEW n PROVE Answered(f, [f EXCEPT !.ss = n, !.state = "INIT"])
    <3> DEFINE g == [f EXCEPT !.ss = n, !.state = "INIT"]
    <3>1. g.wait = f.wait /\ g.signal = f.signal
      BY <1>1 DEF FopRecord
    <3> HIDE DEF g
    <3>2. Answered(f, g)
      BY <3>1 DEF Answered
    <3> QED BY <3>2 DEF g
  <2> QED BY <1>2, <2>1, <2>2
<1> QED BY <1>3, <1>4, <1>5, <1>6 DEF OnTimer

(***************************************************************************)
(* The waiting SDU: ACCEPT_TX means that it has become outstanding, an     *)
(* alert or an error that it is gone, whatever the queues' capacities, the *)
(* window and the numbers.                                                 *)
(***************************************************************************)
THEOREM FateIsSignalled ==
    FopSpec => FateSignalled
<1> DEFINE A == fop.wait # <<>> /\ ItemTypeIsFrameType =>
                   \/ fop'.wait = <<>> /\ fop'.signal = "ACCEPT_TX"
                         /\ \E j \in DOMAIN fop'.sent : fop'.sent[j].sdu = fop.wait[1]
                   \/ fop'.wait = <<>> /\ fop'.signal \in Alerts \cup {"UNDEF_ERROR"}
                   \/ fop'.wait # <<>> /\ (fop'.signal = "ACCEPT_TX" => fop.signal = "ACCEPT_TX")
                   \/ Directive \/ \E d \in SDU : RequestBd(d)
<1>1. ASSUME Sound(fop), [FopNext]_fopVars PROVE A
  <2> SUFFICES ASSUME fop.wait # <<>>, ItemTypeIsFrameType, ~Directive,
                      ~ \E d \in SDU : RequestBd(d)
               PROVE  Answered(fop, fop')
    BY DEF Answered, Errors
  <2>1. /\ fop \in FopRecord /\ fop.state \in AdStates \cup {"INIT"}
        /\ fop.state \in AdStates \/ fop.ss \in 1 .. 3
    BY <1>1 DEF Sound, Fits, Matched, FopRecord, FopStates, AdStates, OpenStates
  <2>2. AllAd(fop)
    BY <1>1, <2>1 DEF AllAd, ItemTypeIsFrameType, Sound, Matched, AllTypeA
  <2>3. ASSUME fop'.wait = fop.wait, fop'.signal = fop.signal PROVE Answered(fop, fop')
    BY <2>3 DEF Answered
  <2>4. CASE \E c \in Clcw : HandleClcw(c)
    BY <1>1, <2>1, <2>2, <2>4, OnClcwAnswers DEF HandleClcw
  <2>5. CASE Expire
    BY <2>1, <2>3, <2>5 DEF Expire, Cancel, FopRecord
  <2>6. CASE HandleTimerExpired
    BY <1>1, <2>1, <2>2, <2>6, OnTimerAnswers DEF HandleTimerExpired
  <2>7. ASSUME NEW d \in SDU, RequestAd(d) PROVE Answered(fop, fop')
    <3> DEFINE g == [fop EXCEPT !.hdr = "AD"]
    <3>1. g \in FopRecord /\ g.wait = fop.wait
      BY <2>1 DEF FopRecord, Codes
    <3>2. fop' = Say(g, "REJECT_TX")
      BY <2>7, <3>1 DEF RequestAd, TransmitAd, FopE20
    <3> HIDE DEF g
    <3> QED BY <2>1, <3>1, <3>2, SimpleAnswers
  <2>8. CASE Uplink
    BY <2>1, <2>3, <2>8 DEF Uplink, FopRecord
  <2>9. CASE UNCHANGED fopVars
    BY <2>3, <2>9 DEF fopVars
  <2> QED BY <1>1, <2>4, <2>5, <2>6, <2>7, <2>8, <2>9 DEF FopNext
<1>2. Sound(fop) /\ [FopNext]_fopVars => [A]_fopVars
  BY <1>1
<1> HIDE DEF A
<1>3. FopSpec => [][A]_fopVars
  BY <1>2, SoundAlways, PTL DEF FopSpec
<1> QED BY <1>3 DEF FateSignalled, A
=============================================================================
