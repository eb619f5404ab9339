------------------------------ MODULE FopProofs ------------------------------
(***************************************************************************)
(* Proofs about Fop, for every modulus, capacity and setting: its type     *)
(* invariant and QueuesMatchState, by one inductive invariant, Sound; and  *)
(* on top of it the timer of an initialisation, what the bounds test of    *)
(* osdlp_handle_clcw accepts on the circle of numbers, the run of numbers  *)
(* in the sent queue, and the frames of the tx queue.                      *)
(***************************************************************************)
EXTENDS Fop, SequenceTheorems, WellFoundedInduction, TLAPS

FopRecord ==
    [state : FopStates, vs : SeqNum, nnr : SeqNum, wnd : Windows,
     txCnt : 0 .. CntMod - 1, lim : Limits, tt : {0, 1}, ss : 0 .. 4,
     signal : Signals, hdr : Codes, sent : Seq(Item), wait : Seq(SDU),
     tx : Seq(Frame), armed : BOOLEAN]

(* The record type with the capacities of the queues. *)
Fits(f) ==
    /\ f \in FopRecord
    /\ Len(f.sent) <= SentCap /\ Len(f.wait) <= 1 /\ Len(f.tx) <= TxCap

AllTypeA(f) == \A i \in DOMAIN f.sent : f.sent[i].type = "A"

Adjacent(f) == \A i, j \in Flagged(f) : \A k \in i .. j : k \in Flagged(f)

(***************************************************************************)
(* The inductive invariant: QueuesMatchState, and a suspended service,     *)
(* which may be resumed, holds type A items like an open one.              *)
(***************************************************************************)
Matched(f) ==
    /\ f.ss # 0 => f.state = "INIT"
    /\ f.ss \in {0, 4} /\ f.state \in {"INIT", "INIT_NO_BC"} =>
          f.sent = <<>> /\ f.wait = <<>>
    /\ f.state = "INIT_BC" => Len(f.sent) = 1 /\ f.sent[1].type = "B" /\ f.wait = <<>>
    /\ f.state \in AdStates \/ f.ss \in 1 .. 3 => AllTypeA(f)
    /\ Adjacent(f)

Sound(f) == Fits(f) /\ Matched(f)

Open(f) == Sound(f) /\ f.state \in AdStates
(* The successors of the numbers and of tx_cnt stay in their range. *)
LEMMA SeqNumFacts ==
    /\ 0 \in SeqNum
    /\ \A x \in SeqNum : Inc(x) \in SeqNum
    /\ \A n \in 0 .. CntMod - 1 : (n + 1) % CntMod \in 0 .. CntMod - 1
    /\ 1 \in 0 .. CntMod - 1
  BY SeqModAssumption, CntModAssumption DEF SeqNum, Inc
(* A nonempty set of naturals has a least element. *)
LEMMA LeastNatural ==
    ASSUME NEW T, T \subseteq Nat, T # {}
    PROVE  \E n \in T : \A m \in T : n <= m
<1> DEFINE Less == {p \in Nat \X Nat : p[1] < p[2]}
<1>1. IsWellFoundedOn(Less, Nat)
  BY NatLessThanWellFounded DEF OpToRel
<1>2. \E n \in T : \A m \in T : ~ (<<m, n>> \in Less)
  <2> HIDE DEF Less
  <2> QED BY <1>1, WFMin
<1>3. ASSUME NEW m \in Nat, NEW n \in Nat, <<m, n>> \notin Less PROVE n <= m
  BY <1>3
<1> QED BY <1>2, <1>3
(* The queue invariant depends on four fields only. *)
LEMMA MatchedByFields ==
    ASSUME NEW f, NEW g, Matched(f),
           g.state = f.state, g.ss = f.ss, g.sent = f.sent, g.wait = f.wait
    PROVE  Matched(g)
  BY DEF Matched, AllTypeA, Adjacent, Flagged

(* A purged FOP in INIT is sound, whatever it was before. *)
LEMMA PurgedSound ==
    ASSUME NEW f, Fits(f), f.state = "INIT", f.sent = <<>>, f.wait = <<>>
    PROVE  Sound(f)
<1>1. DOMAIN f.sent = {}
  OBVIOUS
<1> QED BY <1>1 DEF Sound, Matched, AllTypeA, Adjacent, Flagged, AdStates, OpenStates
(* osdlp_alert purges, whatever the FOP was; the tx queue and SS stay. *)
LEMMA AlertSound ==
    ASSUME NEW f, Fits(f), NEW sig \in Signals
    PROVE  /\ Sound(Alert(f, sig))
           /\ Alert(f, sig).state = "INIT" /\ Alert(f, sig).ss = f.ss
           /\ Alert(f, sig).tx = f.tx
<1> DEFINE g == Alert(f, sig)
<1>1. "INIT" \in FopStates /\ FALSE \in BOOLEAN /\ <<>> \in Seq(Item) /\ <<>> \in Seq(SDU)
  BY DEF FopStates
<1>2. g \in FopRecord
  BY <1>1 DEF Fits, FopRecord, Alert
<1>3. /\ g.sent = <<>> /\ g.wait = <<>> /\ g.tx = f.tx /\ g.state = "INIT" /\ g.ss = f.ss
  BY <1>2 DEF Fits, FopRecord, Alert
<1>4. Fits(g)
  BY <1>2, <1>3, SentCapAssumption DEF Fits
<1> QED BY <1>3, <1>4, PurgedSound
(* A notification alone changes nothing the invariant looks at. *)
LEMMA SaySound ==
    ASSUME NEW f, Sound(f), NEW sig \in Signals
    PROVE  /\ Sound(Say(f, sig))
           /\ Say(f, sig).state = f.state /\ Say(f, sig).ss = f.ss
           /\ Say(f, sig).wait = f.wait
<1> DEFINE g == Say(f, sig)
<1>1. g \in FopRecord
  BY DEF Sound, Fits, FopRecord, Say
<1>2. /\ g.state = f.state /\ g.ss = f.ss /\ g.sent = f.sent
      /\ g.wait = f.wait /\ g.tx = f.tx
  BY DEF Sound, Fits, FopRecord, Say
<1> QED BY <1>1, <1>2, MatchedByFields DEF Sound, Fits
(* Nor does starting or cancelling the timer. *)
LEMMA TimerSound ==
    ASSUME NEW f, Sound(f), NEW b \in BOOLEAN
    PROVE  LET g == [f EXCEPT !.armed = b]
           IN  Sound(g) /\ g.state = f.state /\ g.ss = f.ss /\ g.wait = f.wait
<1> DEFINE g == [f EXCEPT !.armed = b]
<1>1. g \in FopRecord
  BY DEF Sound, Fits, FopRecord
<1>2. /\ g.state = f.state /\ g.ss = f.ss /\ g.sent = f.sent
      /\ g.wait = f.wait /\ g.tx = f.tx
  BY DEF Sound, Fits, FopRecord
<1> QED BY <1>1, <1>2, MatchedByFields DEF Sound, Fits

(***************************************************************************)
(* osdlp_remove_acked_frames: the count of popped items is defined.        *)
(***************************************************************************)
LEMMA AckedCountDefined ==
    ASSUME NEW f, Fits(f), NEW nr
    PROVE  /\ AckedCount(f, nr) \in 0 .. Len(f.sent)
           /\ \A i \in 1 .. AckedCount(f, nr) : f.sent[i].seq # nr
           /\ \/ AckedCount(f, nr) = Len(f.sent) \/ AckedCount(f, nr) = f.wnd + 1
              \/ f.sent[AckedCount(f, nr) + 1].seq = nr
<1> DEFINE n == Len(f.sent)
           T == {k \in 0 .. n : k = n \/ k = f.wnd + 1 \/ f.sent[k + 1].seq = nr}
<1>1. n \in Nat /\ f.wnd \in Nat
  <2>1. f.sent \in Seq(Item) /\ f.wnd \in Windows
    BY DEF Fits, FopRecord
  <2>2. n \in Nat
    BY <2>1
  <2>3. f.wnd \in 1 .. SeqMod - 1
    BY <2>1, WindowsAssumption
  <2> QED BY <2>2, <2>3, SeqModAssumption
<1>2. n \in T /\ T \subseteq Nat
  BY <1>1
<1>3. PICK k \in T : \A m \in T : k <= m
  BY <1>2, LeastNatural
<1>4. ASSUME NEW i \in 1 .. k PROVE f.sent[i].seq # nr
  <2>1. i - 1 \in 0 .. n /\ i - 1 < k
    BY <1>1, <1>3
  <2>3. i - 1 \notin T
    <3> HIDE DEF T
    <3>1. k \in Nat
      BY <1>2
    <3> QED BY <2>1, <1>3, <3>1
  <2>2. (i - 1) + 1 = i
    BY <1>1
  <2> QED BY <2>1, <2>2, <2>3
<1>5. k <= f.wnd + 1
  <2>1. CASE f.wnd + 1 <= n
    BY <1>1, <1>3, <2>1
  <2>2. CASE n < f.wnd + 1
    BY <1>1, <1>3, <2>2
  <2> QED BY <2>1, <2>2, <1>1
<1>6. \E m \in 0 .. n : /\ \A i \in 1 .. m : f.sent[i].seq # nr
                        /\ m <= f.wnd + 1
                        /\ m = n \/ m = f.wnd + 1 \/ f.sent[m + 1].seq = nr
  BY <1>3, <1>4, <1>5
<1> QED BY <1>6 DEF AckedCount

(***************************************************************************)
(* osdlp_remove_acked_frames keeps an open service open and sound.         *)
(***************************************************************************)
LEMMA RemoveAckedOpen ==
    ASSUME NEW f, Open(f), NEW nr \in SeqNum
    PROVE  /\ Open(RemoveAcked(f, nr))
           /\ RemoveAcked(f, nr).state = f.state
<1> DEFINE k == AckedCount(f, nr)
           q == SubSeq(f.sent, k + 1, Len(f.sent))
           g == [f EXCEPT !.sent = q, !.nnr = nr, !.txCnt = 1]
<1>1. CASE k = 0
  BY <1>1 DEF RemoveAcked
<1>2. CASE k # 0
  <2>1. /\ f.sent \in Seq(Item) /\ Len(f.sent) \in Nat /\ Len(f.sent) <= SentCap
        /\ k \in 1 .. Len(f.sent)
    BY <1>2, AckedCountDefined DEF Open, Sound, Fits, FopRecord
  <2> HIDE DEF k
  <2>2. \A i \in k + 1 .. Len(f.sent) : f.sent[i] \in Item
    BY <2>1
  <2>3. /\ q \in Seq(Item) /\ Len(q) = Len(f.sent) - k
        /\ \A i \in 1 .. Len(f.sent) - k : q[i] = f.sent[k + i]
    <3>1. k + 1 \in Int /\ Len(f.sent) \in Int /\ Len(f.sent) - (k + 1) + 1 = Len(f.sent) - k
      BY <2>1
    <3>2. \A i \in 1 .. Len(f.sent) - k : k + 1 + i - 1 = k + i
      BY <2>1
    <3>3. /\ q \in Seq(Item)
          /\ Len(q) = IF k + 1 <= Len(f.sent) THEN Len(f.sent) - (k + 1) + 1 ELSE 0
          /\ \A i \in 1 .. Len(f.sent) - (k + 1) + 1 : q[i] = f.sent[k + 1 + i - 1]
      BY <2>2, <3>1, SubSeqProperties
    <3>4. Len(q) = Len(f.sent) - k
      BY <2>1, <3>3
    <3> QED BY <3>1, <3>2, <3>3, <3>4
  <2> HIDE DEF q
  <2>4. g \in FopRecord
    BY <2>3, SeqNumFacts DEF Open, Sound, Fits, FopRecord
  <2>5. /\ g.state = f.state /\ g.ss = f.ss /\ g.sent = q
        /\ g.wait = f.wait /\ g.tx = f.tx
    BY DEF Open, Sound, Fits, FopRecord
  <2> HIDE DEF g
  <2>6. Fits(g)
    <3>1. Len(q) <= SentCap
      BY <2>1, <2>3, SentCapAssumption
    <3> QED BY <2>4, <2>5, <3>1 DEF Open, Sound, Fits
  <2>7. AllTypeA(f) /\ DOMAIN q = 1 .. Len(q) /\ DOMAIN f.sent = 1 .. Len(f.sent)
    BY <2>1, <2>3 DEF Open, Sound, Matched
  <2>8. AllTypeA(g)
    <3>1. ASSUME NEW i \in 1 .. Len(q) PROVE q[i].type = "A"
      <4>1. q[i] = f.sent[k + i] /\ k + i \in 1 .. Len(f.sent)
        BY <2>1, <2>3
      <4> QED BY <4>1, <2>7 DEF AllTypeA
    <3> QED BY <2>5, <2>7, <3>1 DEF AllTypeA
  <2>9. \A i : i \in Flagged(g) <=> i \in 1 .. Len(q) /\ k + i \in Flagged(f)
    BY <2>1, <2>3, <2>5, <2>7 DEF Flagged
  <2>10. Adjacent(g)
    <3> SUFFICES ASSUME NEW i \in Flagged(g), NEW j \in Flagged(g), NEW m \in i .. j
                 PROVE  m \in Flagged(g)
      BY DEF Adjacent
    <3>1. i \in 1 .. Len(q) /\ j \in 1 .. Len(q) /\ k + i \in Flagged(f) /\ k + j \in Flagged(f)
      BY <2>9
    <3>2. m \in 1 .. Len(q) /\ k + m \in (k + i) .. (k + j)
      BY SMTT(30), <2>1, <2>3, <3>1
    <3> QED BY <2>9, <3>1, <3>2 DEF Open, Sound, Matched, Adjacent
  <2>11. Matched(g)
    BY <2>5, <2>8, <2>10 DEF Open, Sound, Matched, AdStates, OpenStates
  <2>12. RemoveAcked(f, nr) = g
    BY <1>2 DEF RemoveAcked, k, q, g
  <2> QED BY <2>5, <2>6, <2>11, <2>12 DEF Open, Sound
<1> QED BY <1>1, <1>2

(* The flagged items are positions of the sent queue. *)
LEMMA FlaggedBounds ==
    ASSUME NEW f, Fits(f)
    PROVE  /\ Flagged(f) \subseteq 1 .. Len(f.sent)
           /\ Len(f.sent) \in Nat
           /\ DOMAIN f.sent = 1 .. Len(f.sent)
<1>1. f.sent \in Seq(Item)
  BY DEF Fits, FopRecord
<1> QED BY <1>1 DEF Flagged

(***************************************************************************)
(* The run of flagged items that one call of osdlp_look_for_fdu sends is   *)
(* defined, starts at the first flagged item and is flagged throughout; in *)
(* an open state it ends at the last flagged item, or at one that is not   *)
(* an AD frame.                                                            *)
(***************************************************************************)
LEMMA RunDefined ==
    ASSUME NEW f, Fits(f), Adjacent(f), Flagged(f) # {}
    PROVE  /\ RunStart(f) \in Flagged(f)
           /\ \A j \in Flagged(f) : RunStart(f) <= j
           /\ RunEnd(f) \in Flagged(f) /\ RunStart(f) <= RunEnd(f)
           /\ RunStart(f) .. RunEnd(f) \subseteq Flagged(f)
           /\ f.state \in OpenStates /\ f.sent[RunEnd(f)].code = "AD"
                => \A i \in Flagged(f) : i <= RunEnd(f)
<1> DEFINE F == Flagged(f)
           Stops(e) == \/ f.state \notin OpenStates
                       \/ f.sent[e].code # "AD"
                       \/ \A i \in F : i <= e
           E == {e \in F : Stops(e)}
           U == {n \in Nat : \A i \in F : i <= n}
<1>1. F \subseteq 1 .. Len(f.sent) /\ Len(f.sent) \in Nat /\ F \subseteq Nat
  BY FlaggedBounds
<1>2. \E i \in F : \A j \in F : i <= j
  BY <1>1, LeastNatural
<1>3. RunStart(f) \in F /\ \A j \in F : RunStart(f) <= j
  BY <1>2 DEF RunStart
<1>4. PICK u \in U : \A n \in U : u <= n
  <2>1. Len(f.sent) \in U /\ U \subseteq Nat
    BY <1>1
  <2> HIDE DEF U
  <2> QED BY <2>1, LeastNatural
<1>5. u \in F
  <2> SUFFICES ASSUME u \notin F PROVE FALSE
    OBVIOUS
  <2>1. PICK x \in F : TRUE
    OBVIOUS
  <2>2. u \in Nat /\ x <= u /\ x \in Nat /\ x # 0 /\ u # 0
    BY <1>1, <1>4
  <2>3. u - 1 \in U
    BY <1>1, <1>4, <2>2
  <2> QED BY <1>4, <2>2, <2>3
<1>6. u \in E
  BY <1>4, <1>5
<1>7. PICK e \in E : \A m \in E : e <= m
  <2>1. E \subseteq Nat /\ E # {}
    BY <1>1, <1>6
  <2> HIDE DEF E
  <2> QED BY <2>1, LeastNatural
<1>8. RunStart(f) <= e /\ RunStart(f) .. e \subseteq F /\ e \in Nat /\ RunStart(f) \in Nat
  BY <1>1, <1>3, <1>7 DEF Adjacent
<1>9. ASSUME NEW i \in RunStart(f) .. e - 1
      PROVE  f.state \in OpenStates /\ f.sent[i].code = "AD"
  <2>1. i \in F /\ i < e /\ i \in Nat
    BY <1>1, <1>8
  <2>2. i \notin E
    BY <1>7, <1>8, <2>1
  <2> QED BY <2>1, <2>2
<1>10. \E d \in F : /\ \A i \in RunStart(f) .. d - 1 : f.state \in OpenStates /\ f.sent[i].code = "AD"
                    /\ Stops(d)
  BY <1>7, <1>9
<1>11. RunEnd(f) \in F /\ Stops(RunEnd(f))
  BY <1>10 DEF RunEnd
<1> QED BY <1>1, <1>3, <1>11 DEF Adjacent
(* The frames of a sequence of items: one for each. *)
LEMMA FramesTyped ==
    ASSUME NEW q \in Seq(Item)
    PROVE  Frames(q) \in Seq(Frame) /\ Len(Frames(q)) = Len(q)
<1>1. \A i \in 1 .. Len(q) : q[i] \in Item
  OBVIOUS
<1>2. \A it \in Item : FrameOf(it) \in Frame
  BY SeqNumFacts DEF FrameOf, Item, Frame
<1>3. DOMAIN q = 1 .. Len(q) /\ Len(q) \in Nat
  OBVIOUS
<1>4. \A i \in 1 .. Len(q) : FrameOf(q[i]) \in Frame
  BY <1>1, <1>2
<1> HIDE DEF FrameOf
<1> QED BY <1>3, <1>4 DEF Frames

(* What an intermediate state of osdlp_look_for_fdu is: open as before, or purged. *)
OpenOrPurged(f, g) ==
    /\ Sound(g) /\ g.ss = f.ss
    /\ \/ g.state = f.state /\ g.wait = f.wait
       \/ g.state = "INIT" /\ g.wait = <<>>
(* osdlp_look_for_fdu with room in the tx queue: the whole run is sent. *)
LEMMA ResendAllSent ==
    ASSUME NEW f, Open(f), Flagged(f) # {}, RunEnd(f) - RunStart(f) + 1 <= TxCap - Len(f.tx)
    PROVE  OpenOrPurged(f, Resend(f))
<1> DEFINE a == RunStart(f)
           b == RunEnd(f)
           fs == Frames(SubSeq(f.sent, a, b))
           q == [i \in DOMAIN f.sent |->
                   IF i \in a .. b THEN [f.sent[i] EXCEPT !.rt = FALSE] ELSE f.sent[i]]
           s == IF f.sent[b].code = "AD" THEN f.signal ELSE "ACCEPT_TX"
           g == [f EXCEPT !.tx = f.tx \o fs, !.sent = q, !.signal = s]
<1>1. /\ f \in FopRecord /\ Fits(f) /\ Matched(f) /\ Adjacent(f) /\ f.state \in AdStates
      /\ f.sent \in Seq(Item) /\ f.tx \in Seq(Frame) /\ Len(f.sent) <= SentCap
      /\ AllTypeA(f)
  BY DEF Open, Sound, Fits, FopRecord, Matched
<1>2. /\ Flagged(f) \subseteq 1 .. Len(f.sent) /\ Len(f.sent) \in Nat
      /\ DOMAIN f.sent = 1 .. Len(f.sent)
  BY <1>1, FlaggedBounds
<1>3. /\ a \in Flagged(f) /\ b \in Flagged(f) /\ a <= b
      /\ a .. b \subseteq Flagged(f) /\ \A j \in Flagged(f) : a <= j
  BY <1>1, RunDefined
<1>4. a \in 1 .. Len(f.sent) /\ b \in 1 .. Len(f.sent)
  BY <1>2, <1>3
<1>5. fs \in Seq(Frame) /\ Len(fs) = b - a + 1
  <2> HIDE DEF a, b
  <2>1. \A i \in a .. b : f.sent[i] \in Item
    BY <1>1, <1>4
  <2>2. a \in Int /\ b \in Int
    BY <1>4
  <2>3. SubSeq(f.sent, a, b) \in Seq(Item) /\ Len(SubSeq(f.sent, a, b)) = b - a + 1
    BY <2>1, <2>2, <1>3, SubSeqProperties
  <2> QED BY <2>3, FramesTyped
<1>6. f.tx \o fs \in Seq(Frame) /\ Len(f.tx \o fs) <= TxCap
  <2> HIDE DEF fs, a, b
  <2>1. f.tx \o fs \in Seq(Frame) /\ Len(f.tx \o fs) = Len(f.tx) + Len(fs)
    BY <1>1, <1>5, ConcatProperties
  <2>2. b - a + 1 <= TxCap - Len(f.tx) /\ Len(f.tx) \in Nat /\ a \in Nat /\ b \in Nat
    BY <1>1, <1>4 DEF a, b
  <2>3. TxCap \in Int /\ Len(fs) \in Int /\ Len(fs) <= TxCap - Len(f.tx)
    <3>1. TxCap \in Int
      BY TxCapAssumption
    <3>2. Len(fs) = b - a + 1
      BY <1>5
    <3>3. Len(fs) \in Int
      BY <3>2, <2>2
    <3> QED BY <2>2, <3>1, <3>2, <3>3
  <2>4. Len(f.tx) + Len(fs) <= TxCap
    BY <2>2, <2>3
  <2> QED BY <2>1, <2>4
<1>7. q \in Seq(Item) /\ Len(q) = Len(f.sent) /\ DOMAIN q = 1 .. Len(f.sent)
  <2>1. \A i \in 1 .. Len(f.sent) : f.sent[i] \in Item
    BY <1>1
  <2>2. \A it \in Item : [it EXCEPT !.rt = FALSE] \in Item
    BY DEF Item
  <2> HIDE DEF a, b
  <2> QED BY <1>2, <2>1, <2>2
<1>8. /\ \A i \in 1 .. Len(f.sent) : q[i].type = "A"
      /\ \A i \in 1 .. Len(f.sent) : q[i].rt <=> f.sent[i].rt /\ i \notin a .. b
  <2>1. \A i \in 1 .. Len(f.sent) : f.sent[i] \in Item /\ f.sent[i].type = "A"
    BY <1>1, <1>2 DEF AllTypeA
  <2>2. \A it \in Item : /\ [it EXCEPT !.rt = FALSE].type = it.type
                         /\ [it EXCEPT !.rt = FALSE].rt = FALSE
    BY DEF Item
  <2> HIDE DEF a, b
  <2> QED BY <1>2, <2>1, <2>2
<1>9. s \in Signals /\ f.signal \in Signals
  BY <1>1 DEF FopRecord, Signals
<1>10. Resend(f) = g
  BY <1>3 DEF Resend
<1> HIDE DEF fs, q, s
<1>11. g \in FopRecord
  BY <1>1, <1>6, <1>7, <1>9 DEF FopRecord
<1>12. /\ g.state = f.state /\ g.ss = f.ss /\ g.sent = q /\ g.wait = f.wait /\ g.tx = f.tx \o fs
  BY <1>1 DEF FopRecord
<1> HIDE DEF g
<1>13. Fits(g)
  BY <1>1, <1>6, <1>7, <1>11, <1>12 DEF Fits
<1>14. AllTypeA(g)
  BY <1>7, <1>8, <1>12 DEF AllTypeA
<1>15. \A i : i \in Flagged(g) <=> i \in Flagged(f) /\ i \notin a .. b
  BY <1>1, <1>2, <1>7, <1>8, <1>12 DEF Flagged, AllTypeA
<1>16. Adjacent(g)
  <2> SUFFICES ASSUME NEW i \in Flagged(g), NEW j \in Flagged(g), NEW m \in i .. j
               PROVE  m \in Flagged(g)
    BY DEF Adjacent
  <2>1. i \in Flagged(f) /\ j \in Flagged(f) /\ i \notin a .. b
    BY <1>15
  <2>2. m \in Flagged(f)
    BY <1>1, <2>1 DEF Adjacent
  <2>3. i > b /\ m >= i
    BY <1>2, <1>3, <1>4, <2>1
  <2>4. m \notin a .. b
    BY <1>2, <1>4, <2>1, <2>3
  <2> QED BY <1>15, <2>2, <2>4
<1>17. Matched(g)
  BY <1>1, <1>12, <1>14, <1>16 DEF Matched, AdStates, OpenStates
<1> QED BY <1>10, <1>12, <1>13, <1>17 DEF OpenOrPurged, Sound
(* With or without room, the open service goes on or is purged. *)
LEMMA ResendSound ==
    ASSUME NEW f, Open(f)
    PROVE  OpenOrPurged(f, Resend(f))
<1>1. CASE Flagged(f) = {}
  BY <1>1 DEF Resend, OpenOrPurged, Open
<1>2. CASE Flagged(f) # {} /\ RunEnd(f) - RunStart(f) + 1 <= TxCap - Len(f.tx)
  BY <1>2, ResendAllSent
<1>3. CASE Flagged(f) # {} /\ ~ (RunEnd(f) - RunStart(f) + 1 <= TxCap - Len(f.tx))
  <2> DEFINE a == RunStart(f)
             room == TxCap - Len(f.tx)
             fs == Frames(SubSeq(f.sent, a, a + room - 1))
             h == Alert(f, "UNDEF_ERROR")
             g == [h EXCEPT !.tx = h.tx \o fs]
  <2>1. /\ Fits(f) /\ Adjacent(f) /\ f.sent \in Seq(Item) /\ f.tx \in Seq(Frame)
        /\ Len(f.tx) <= TxCap
    BY DEF Open, Sound, Fits, FopRecord, Matched
  <2>2. Flagged(f) \subseteq 1 .. Len(f.sent) /\ Len(f.sent) \in Nat
    BY <2>1, FlaggedBounds
  <2>3. a \in 1 .. Len(f.sent) /\ RunEnd(f) \in 1 .. Len(f.sent)
    BY <1>3, <2>1, <2>2, RunDefined
  <2>4. room \in Nat /\ room < RunEnd(f) - a + 1
    BY <1>3, <2>1, <2>3, TxCapAssumption
  <2>5. fs \in Seq(Frame) /\ Len(fs) = room
    <3> DEFINE z == a + room - 1
    <3>1. a \in Int /\ z \in Int /\ z <= Len(f.sent) /\ z - a + 1 = room
      BY SMTT(30), <2>2, <2>3, <2>4
    <3>2. \A i \in a .. z : f.sent[i] \in Item
      BY <2>1, <2>2, <2>3, <3>1
    <3> HIDE DEF a, room, z
    <3>3. /\ SubSeq(f.sent, a, z) \in Seq(Item)
          /\ Len(SubSeq(f.sent, a, z)) = IF a <= z THEN z - a + 1 ELSE 0
      BY <3>1, <3>2, SubSeqProperties
    <3>4. Len(SubSeq(f.sent, a, z)) = room
      BY <2>4, <3>1, <3>3
    <3>5. fs = Frames(SubSeq(f.sent, a, z))
      BY DEF z
    <3> QED BY <3>3, <3>4, <3>5, FramesTyped
  <2>6. Sound(h) /\ h.state = "INIT" /\ h.ss = f.ss /\ h.tx = f.tx
    BY <2>1, AlertSound DEF Signals, Alerts
  <2>7. h \in FopRecord /\ Fits(h)
    BY <2>6 DEF Sound, Fits
  <2>8. h.sent = <<>> /\ h.wait = <<>>
    BY <2>1 DEF Alert, Fits, FopRecord
  <2>9. h.tx \o fs \in Seq(Frame) /\ Len(h.tx \o fs) <= TxCap
    <3> HIDE DEF fs, room, h
    <3>1. f.tx \o fs \in Seq(Frame) /\ Len(f.tx \o fs) = Len(f.tx) + Len(fs)
      BY <2>1, <2>5, ConcatProperties
    <3>2. Len(f.tx) + Len(fs) = TxCap
      BY <2>1, <2>5, TxCapAssumption DEF room
    <3> QED BY <2>6, <3>1, <3>2, TxCapAssumption
  <2>10. Resend(f) = g
    BY <1>3 DEF Resend
  <2> HIDE DEF fs, h
  <2>11. g \in FopRecord
    BY <2>7, <2>9 DEF FopRecord
  <2>12. /\ g.state = "INIT" /\ g.ss = f.ss /\ g.sent = <<>> /\ g.wait = <<>>
         /\ g.tx = h.tx \o fs
    BY <2>6, <2>7, <2>8 DEF FopRecord
  <2> HIDE DEF g
  <2>13. Fits(g)
    BY <2>7, <2>8, <2>9, <2>11, <2>12, SentCapAssumption DEF Fits
  <2>14. Sound(g)
    BY <2>12, <2>13, PurgedSound
  <2> QED BY <2>10, <2>12, <2>14 DEF OpenOrPurged
<1> QED BY <1>1, <1>2, <1>3

(* A handler in an open state leaves the service as it is, or purged in INIT. *)
Continues(f, g) == Sound(g) /\ g.ss = f.ss /\ g.state \in {f.state, "INIT"}
(* osdlp_transmit_type_ad takes the SDU off the wait queue and counts V(S) up. *)
LEMMA DequeuedOpen ==
    ASSUME NEW f, Open(f), f.wait # <<>>, NEW n \in 0 .. CntMod - 1
    PROVE  LET g == [f EXCEPT !.wait = <<>>, !.vs = Inc(@), !.armed = TRUE, !.txCnt = n]
           IN  Open(g) /\ g.state = f.state /\ g.ss = f.ss /\ g.sent = f.sent
               /\ g.tx = f.tx /\ g.wait = <<>>
<1> DEFINE v == Inc(f.vs)
           g == [f EXCEPT !.wait = <<>>, !.vs = v, !.armed = TRUE, !.txCnt = n]
<1>1. v \in SeqNum /\ <<>> \in Seq(SDU) /\ TRUE \in BOOLEAN
  BY SeqNumFacts DEF Open, Sound, Fits, FopRecord
<1> HIDE DEF v
<1>2. g \in FopRecord
  BY <1>1 DEF Open, Sound, Fits, FopRecord
<1>3. /\ g.state = f.state /\ g.ss = f.ss /\ g.sent = f.sent
      /\ g.tx = f.tx /\ g.wait = <<>>
  BY DEF Open, Sound, Fits, FopRecord
<1>4. g = [f EXCEPT !.wait = <<>>, !.vs = Inc(@), !.armed = TRUE, !.txCnt = n]
  BY DEF v
<1> HIDE DEF g
<1>5. Fits(g)
  BY <1>2, <1>3 DEF Open, Sound, Fits
<1>6. Matched(g)
  BY <1>3 DEF Open, Sound, Matched, AllTypeA, Adjacent, Flagged, AdStates, OpenStates
<1>7. Open(g)
  BY <1>3, <1>5, <1>6 DEF Open, Sound
<1> QED BY <1>3, <1>4, <1>7
(* Queueing a new, unflagged item keeps the flagged ones adjacent. *)
LEMMA EnqueuedOpen ==
    ASSUME NEW g, Open(g), NEW it \in Item, it.type = "A", it.rt = FALSE,
           Len(g.sent) < SentCap, Len(g.tx) < TxCap
    PROVE  LET h == [g EXCEPT !.sent = Append(@, it), !.tx = Append(@, FrameOf(it))]
           IN  Open(h) /\ h.state = g.state /\ h.ss = g.ss /\ h.wait = g.wait
<1> DEFINE q == Append(g.sent, it)
           x == Append(g.tx, FrameOf(it))
           h == [g EXCEPT !.sent = q, !.tx = x]
<1>1. /\ g \in FopRecord /\ g.sent \in Seq(Item) /\ g.tx \in Seq(Frame)
      /\ AllTypeA(g) /\ Adjacent(g) /\ Matched(g)
  BY DEF Open, Sound, Fits, FopRecord, Matched
<1>2. /\ q \in Seq(Item) /\ Len(q) = Len(g.sent) + 1 /\ Len(g.sent) \in Nat
      /\ \A i \in 1 .. Len(g.sent) : q[i] = g.sent[i]
      /\ q[Len(g.sent) + 1] = it
      /\ DOMAIN q = 1 .. Len(g.sent) + 1 /\ DOMAIN g.sent = 1 .. Len(g.sent)
  BY <1>1, AppendProperties
<1>3. FrameOf(it) \in Frame
  BY SeqNumFacts DEF FrameOf, Item, Frame
<1>4. x \in Seq(Frame) /\ Len(x) = Len(g.tx) + 1 /\ Len(g.tx) \in Nat
  <2> HIDE DEF FrameOf
  <2> QED BY <1>1, <1>3, AppendProperties
<1>5. h = [g EXCEPT !.sent = Append(@, it), !.tx = Append(@, FrameOf(it))]
  BY <1>1 DEF FopRecord
<1> HIDE DEF q, x
<1>6. h \in FopRecord
  BY <1>1, <1>2, <1>4 DEF FopRecord
<1>7. /\ h.state = g.state /\ h.ss = g.ss /\ h.wait = g.wait /\ h.sent = q /\ h.tx = x
  BY <1>1 DEF FopRecord
<1> HIDE DEF h
<1>8. Fits(h)
  <2>1. Len(q) <= SentCap
    BY <1>2, SentCapAssumption
  <2>2. Len(x) <= TxCap
    BY <1>4, TxCapAssumption
  <2> QED BY <1>6, <1>7, <2>1, <2>2 DEF Open, Sound, Fits
<1>9. AllTypeA(h)
  BY <1>1, <1>2, <1>7 DEF AllTypeA
<1>10. Flagged(h) = Flagged(g)
  BY <1>2, <1>7 DEF Flagged
<1>11. Matched(h)
  BY <1>1, <1>7, <1>9, <1>10 DEF Open, Matched, Adjacent, AdStates, OpenStates
<1>12. Open(h)
  BY <1>7, <1>8, <1>11 DEF Open, Sound
<1> QED BY <1>5, <1>7, <1>12
(* osdlp_transmit_type_ad, with its full queues and its look for more. *)
LEMMA TransmitTypeAdSound ==
    ASSUME NEW f, Open(f), f.wait # <<>>
    PROVE  Continues(f, TransmitTypeAd(f))
<1> DEFINE it == [type |-> "A", seq |-> f.vs, rt |-> FALSE, code |-> f.hdr, sdu |-> Head(f.wait)]
           n  == IF f.sent = <<>> THEN 1 ELSE f.txCnt
           g  == [f EXCEPT !.wait = <<>>, !.vs = Inc(@), !.armed = TRUE, !.txCnt = n]
           h  == [g EXCEPT !.sent = Append(@, it), !.tx = Append(@, FrameOf(it))]
           r  == IF f.hdr = "AD" /\ f.state \in OpenStates THEN Resend(h) ELSE h
<1>1. /\ f.vs \in SeqNum /\ f.hdr \in Codes /\ f.wait \in Seq(SDU) /\ n \in 0 .. CntMod - 1
      /\ Len(f.sent) <= SentCap /\ Len(f.tx) <= TxCap /\ Len(f.sent) \in Nat /\ Len(f.tx) \in Nat
  BY SeqNumFacts, SMTT(30) DEF Open, Sound, Fits, FopRecord
<1>2. it \in Item /\ it.type = "A" /\ it.rt = FALSE
  <2>1. Head(f.wait) \in SDU
    BY <1>1, HeadTailProperties
  <2> QED BY <1>1, <2>1 DEF Item
<1> HIDE DEF n, it
<1>3. /\ Open(g) /\ g.state = f.state /\ g.ss = f.ss /\ g.sent = f.sent
      /\ g.tx = f.tx /\ g.wait = <<>>
  BY <1>1, DequeuedOpen
<1> HIDE DEF g
<1>4. TransmitTypeAd(f) = CASE Len(f.sent) = SentCap -> Say(g, "UNDEF_ERROR")
                            [] Len(f.sent) < SentCap /\ TxFull(f) -> Alert(g, "UNDEF_ERROR")
                            [] OTHER -> Say(r, "ACCEPT_TX")
  BY DEF TransmitTypeAd, n, it, g
<1>5. {"UNDEF_ERROR", "ACCEPT_TX"} \subseteq Signals
  BY DEF Signals, Alerts
<1>6. CASE Len(f.sent) = SentCap
  <2>1. TransmitTypeAd(f) = Say(g, "UNDEF_ERROR")
    BY <1>4, <1>6, <1>1, SentCapAssumption
  <2> QED BY <2>1, <1>3, <1>5, SaySound DEF Open, Continues
<1>7. CASE Len(f.sent) < SentCap /\ TxFull(f)
  <2>1. TransmitTypeAd(f) = Alert(g, "UNDEF_ERROR")
    BY <1>4, <1>7, <1>1, SentCapAssumption
  <2> QED BY <2>1, <1>3, <1>5, AlertSound DEF Open, Sound, Continues
<1>8. CASE Len(f.sent) < SentCap /\ ~ TxFull(f)
  <2>1. TransmitTypeAd(f) = Say(r, "ACCEPT_TX")
    BY <1>4, <1>8, <1>1, SentCapAssumption
  <2>2. Len(f.tx) < TxCap
    BY <1>1, <1>8, TxCapAssumption DEF TxFull
  <2>3. Open(h) /\ h.state = g.state /\ h.ss = g.ss
    BY <1>2, <1>3, <1>8, <2>2, EnqueuedOpen
  <2> HIDE DEF h
  <2>4. Continues(f, r)
    BY <1>3, <2>3, ResendSound DEF OpenOrPurged, Continues, Open
  <2> QED BY <2>1, <2>4, <1>5, SaySound DEF Continues
<1> QED BY <1>1, <1>6, <1>7, <1>8, SentCapAssumption
(* osdlp_look_for_fdu leaves an open service open in its state, or purged in INIT. *)
LEMMA LookForFduSound ==
    ASSUME NEW f, Open(f)
    PROVE  Continues(f, LookForFdu(f))
<1> DEFINE g == Resend(f)
<1>1. OpenOrPurged(f, g)
  BY ResendSound
<1> HIDE DEF g
<1>2. CASE g.wait = <<>>
  BY <1>1, <1>2 DEF LookForFdu, OpenOrPurged, Continues, g
<1>3. CASE g.wait # <<>>
  <2>1. Open(g) /\ g.state = f.state
    BY <1>1, <1>3 DEF OpenOrPurged, Open
  <2>2. "DELAY_RESP" \in Signals
    BY DEF Signals
  <2>3. Continues(f, TransmitTypeAd(g)) /\ Continues(f, Say(g, "DELAY_RESP"))
    BY <1>1, <1>3, <2>1, <2>2, TransmitTypeAdSound, SaySound DEF OpenOrPurged, Continues
  <2> QED BY <1>3, <2>3 DEF LookForFdu, g
<1> QED BY <1>2, <1>3

(* A change of state, signal, numbers or tx queue that leaves sent and wait alone. *)
LEMMA Restated ==
    ASSUME NEW f, NEW g, Sound(f), g \in FopRecord, Len(g.tx) <= TxCap,
           g.sent = f.sent, g.wait = f.wait,
           g.ss # 0 => g.state = "INIT",
           g.ss \in {0, 4} /\ g.state \in {"INIT", "INIT_NO_BC"} =>
              f.sent = <<>> /\ f.wait = <<>>,
           g.state = "INIT_BC" => f.state = "INIT_BC",
           g.state \in AdStates \/ g.ss \in 1 .. 3 =>
              f.state \in AdStates \/ f.ss \in 1 .. 3 \/ f.sent = <<>>
    PROVE  Sound(g)
<1>1. Fits(g)
  BY DEF Sound, Fits
<1>2. AllTypeA(f) => AllTypeA(g)
  BY DEF AllTypeA
<1>3. f.sent = <<>> => AllTypeA(g)
  <2>1. DOMAIN <<>> = {}
    OBVIOUS
  <2> QED BY <2>1 DEF AllTypeA
<1>4. Adjacent(g)
  BY DEF Sound, Matched, Adjacent, Flagged
<1> QED BY <1>1, <1>2, <1>3, <1>4 DEF Sound, Matched
(* A transition between the open states, also out of the INIT of a purge. *)
LEMMA SetOpen ==
    ASSUME NEW f, Sound(f), f.ss = 0, f.state \in AdStates \cup {"INIT"}, NEW s \in AdStates
    PROVE  LET g == [f EXCEPT !.state = s] IN Open(g) /\ g.state = s
<1> DEFINE g == [f EXCEPT !.state = s]
<1>1. s \in FopStates /\ s \notin {"INIT", "INIT_NO_BC", "INIT_BC"}
  BY DEF FopStates, AdStates, OpenStates
<1>2. g \in FopRecord
  BY <1>1 DEF Sound, Fits, FopRecord
<1>3. /\ g.state = s /\ g.ss = 0 /\ g.sent = f.sent /\ g.wait = f.wait /\ g.tx = f.tx
  BY DEF Sound, Fits, FopRecord
<1>4. f.state = "INIT" => f.sent = <<>>
  BY DEF Sound, Matched
<1> HIDE DEF g
<1>5. Len(g.tx) <= TxCap
  BY <1>3 DEF Sound, Fits
<1>6. Sound(g)
  BY <1>1, <1>2, <1>3, <1>4, <1>5, Restated
<1> QED BY <1>3, <1>6 DEF Open, g
(* An open service is not suspended. *)
LEMMA OpenNotSuspended ==
    ASSUME NEW f, Open(f) PROVE f.ss = 0
BY DEF Open, Sound, Matched, AdStates, OpenStates

(* osdlp_initiate_ad_retransmission flags every item of an open service. *)
LEMMA InitiateAdRetransmissionOpen ==
    ASSUME NEW f, Open(f)
    PROVE  LET g == InitiateAdRetransmission(f)
           IN  Open(g) /\ g.state = f.state
<1> DEFINE q == [i \in DOMAIN f.sent |->
                   IF f.sent[i].type = "A" THEN [f.sent[i] EXCEPT !.rt = TRUE] ELSE f.sent[i]]
           n == (f.txCnt + 1) % CntMod
           g == [f EXCEPT !.tx = <<>>, !.txCnt = n, !.armed = TRUE, !.sent = q]
<1>1. /\ f \in FopRecord /\ f.sent \in Seq(Item) /\ AllTypeA(f) /\ Matched(f)
      /\ f.txCnt \in 0 .. CntMod - 1 /\ Len(f.sent) <= SentCap
      /\ DOMAIN f.sent = 1 .. Len(f.sent) /\ Len(f.sent) \in Nat
  BY DEF Open, Sound, Fits, FopRecord, Matched
<1>2. /\ q \in Seq(Item) /\ Len(q) = Len(f.sent) /\ DOMAIN q = 1 .. Len(f.sent)
      /\ \A i \in 1 .. Len(f.sent) : q[i].type = "A" /\ q[i].rt = TRUE
  <2>1. \A i \in 1 .. Len(f.sent) : f.sent[i] \in Item /\ f.sent[i].type = "A"
    BY <1>1 DEF AllTypeA
  <2>2. \A it \in Item : /\ [it EXCEPT !.rt = TRUE] \in Item
                         /\ [it EXCEPT !.rt = TRUE].type = it.type
                         /\ [it EXCEPT !.rt = TRUE].rt = TRUE
    BY DEF Item
  <2>3. \A i \in 1 .. Len(f.sent) : q[i] \in Item /\ q[i].type = "A" /\ q[i].rt = TRUE
    BY <1>1, <2>1, <2>2
  <2>4. DOMAIN q = 1 .. Len(f.sent) /\ q = [i \in 1 .. Len(f.sent) |-> q[i]]
    BY <1>1
  <2> HIDE DEF q
  <2>5. q \in [1 .. Len(f.sent) -> Item]
    BY <2>3, <2>4
  <2>6. q \in Seq(Item) /\ Len(q) = Len(f.sent)
    BY <1>1, <2>5
  <2> QED BY <2>3, <2>4, <2>6
<1>3. n \in 0 .. CntMod - 1
  BY <1>1, SeqNumFacts
<1>4. InitiateAdRetransmission(f) = g
  BY <1>1 DEF InitiateAdRetransmission, FopRecord
<1> HIDE DEF q, n
<1>5. <<>> \in Seq(Frame) /\ TRUE \in BOOLEAN
  OBVIOUS
<1>6. g \in FopRecord
  BY <1>1, <1>2, <1>3, <1>5 DEF FopRecord
<1>7. g.state = f.state /\ g.ss = f.ss /\ g.sent = q /\ g.wait = f.wait /\ g.tx = <<>>
  BY <1>1 DEF FopRecord
<1> HIDE DEF g
<1>8. Fits(g)
  BY <1>1, <1>2, <1>6, <1>7, TxCapAssumption DEF Open, Sound, Fits
<1>9. AllTypeA(g) /\ Adjacent(g)
  <2>1. AllTypeA(g)
    BY <1>2, <1>7 DEF AllTypeA
  <2>2. Flagged(g) = 1 .. Len(f.sent)
    BY <1>2, <1>7 DEF Flagged
  <2>3. Adjacent(g)
    BY <1>1, <2>2 DEF Adjacent
  <2> QED BY <2>1, <2>3
<1>10. Matched(g)
  BY <1>1, <1>7, <1>9 DEF Open, Matched, AdStates, OpenStates
<1> QED BY <1>4, <1>7, <1>8, <1>10 DEF Open, Sound
(* Retransmission on a control word: fop_e8 and fop_e10. *)
LEMMA RetransmitSound ==
    ASSUME NEW f, Open(f)
    PROVE  Sound(Retransmit(f))
<1> DEFINE h == InitiateAdRetransmission(f)
           g == LookForFdu(h)
<1>1. Open(h) /\ h.state = f.state
  BY InitiateAdRetransmissionOpen
<1> HIDE DEF h
<1>2. Continues(h, g)
  BY <1>1, LookForFduSound
<1>3. Sound(g) /\ g.ss = 0 /\ g.state \in AdStates \cup {"INIT"}
  BY <1>1, <1>2, OpenNotSuspended DEF Continues, Open
<1> HIDE DEF g
<1>4. Sound([g EXCEPT !.state = "RT_NO_WAIT"])
  BY <1>3, SetOpen DEF Open, AdStates, OpenStates
<1> QED BY <1>3, <1>4 DEF Retransmit, g, h

(* Retransmission of a control frame: the item stays, or the service is purged. *)
LEMMA RetransmitBcSound ==
    ASSUME NEW f, Sound(f), f.state = "INIT_BC"
    PROVE  Sound(RetransmitBc(f))
<1> DEFINE n == (f.txCnt + 1) % CntMod
           g == [f EXCEPT !.tx = <<>>, !.txCnt = n, !.armed = TRUE]
           x == [i \in 1 .. TxCap |-> FrameOf(Head(f.sent))]
           h == Alert(g, "UNDEF_ERROR")
           r == [h EXCEPT !.tx = x]
<1>1. /\ f \in FopRecord /\ f.sent \in Seq(Item) /\ f.sent # <<>> /\ f.ss = 0
      /\ n \in 0 .. CntMod - 1
  <2>1. f \in FopRecord /\ f.sent \in Seq(Item) /\ f.txCnt \in 0 .. CntMod - 1
    BY DEF Sound, Fits, FopRecord
  <2>2. f.ss = 0 /\ Len(f.sent) = 1
    BY DEF Sound, Matched
  <2>3. Len(<<>>) = 0
    OBVIOUS
  <2>4. f.sent # <<>>
    BY SMTT(30), <2>2, <2>3
  <2>5. n \in 0 .. CntMod - 1
    <3> HIDE DEF g, x, h, r
    <3> QED BY <2>1, SeqNumFacts
  <2> QED BY <2>1, <2>2, <2>4, <2>5
<1>2. <<>> \in Seq(Frame) /\ TRUE \in BOOLEAN /\ {"UNDEF_ERROR", "ACCEPT_DIR"} \subseteq Signals
  BY DEF Signals, Alerts
<1>3. RetransmitBc(f) = IF MarksBc /\ Head(f.sent).type = "B" THEN r ELSE Say(g, "ACCEPT_DIR")
  BY <1>1 DEF RetransmitBc, FopRecord
<1>4. x \in Seq(Frame) /\ Len(x) = TxCap
  <2>1. Head(f.sent) \in Item
    BY <1>1, HeadTailProperties
  <2>2. FrameOf(Head(f.sent)) \in Frame
    BY <2>1, SeqNumFacts DEF FrameOf, Item, Frame
  <2> HIDE DEF FrameOf
  <2>3. x \in [1 .. TxCap -> Frame] /\ TxCap \in Nat
    BY <2>2, TxCapAssumption
  <2> HIDE DEF x
  <2> QED BY <2>3
<1> HIDE DEF n, x
<1>5. g \in FopRecord
  BY <1>1, <1>2 DEF FopRecord
<1>6. /\ g.state = "INIT_BC" /\ g.ss = 0 /\ g.sent = f.sent /\ g.wait = f.wait
      /\ g.tx = <<>>
  BY <1>1 DEF FopRecord
<1> HIDE DEF g
<1>7. Sound(g)
  <2>1. Len(g.tx) <= TxCap
    BY <1>6, TxCapAssumption
  <2>2. g.state \notin AdStates /\ g.ss \notin 1 .. 3
    BY <1>6 DEF AdStates, OpenStates
  <2> QED BY <1>5, <1>6, <2>1, <2>2, Restated
<1>8. Sound(Say(g, "ACCEPT_DIR"))
  BY <1>2, <1>7, SaySound
<1>9. Sound(h) /\ h.state = "INIT" /\ h.sent = <<>> /\ h.wait = <<>>
  <2>1. Sound(h) /\ h.state = "INIT"
    BY <1>2, <1>7, AlertSound DEF Sound
  <2>2. h.sent = <<>> /\ h.wait = <<>>
    BY <1>5 DEF Alert, FopRecord
  <2> QED BY <2>1, <2>2
<1> HIDE DEF h
<1>10. r \in FopRecord /\ r.state = "INIT" /\ r.sent = <<>> /\ r.wait = <<>> /\ r.tx = x
  BY <1>4, <1>9 DEF Sound, Fits, FopRecord
<1> HIDE DEF r
<1>11. Fits(r)
  <2>1. Len(r.tx) <= TxCap
    BY <1>4, <1>10, TxCapAssumption
  <2> QED BY <1>10, <2>1, SentCapAssumption DEF Fits
<1>12. Sound(r)
  BY <1>10, <1>11, PurgedSound
<1> QED BY <1>3, <1>8, <1>12

(* An initiate directive that sends a control frame: it is queued, or refused. *)
LEMMA TransmitTypeBcSound ==
    ASSUME NEW f, Fits(f), f.ss = 0, f.sent = <<>>, f.wait = <<>>, NEW code \in Codes
    PROVE  Sound(TransmitTypeBc(f, code))
<1> DEFINE it == [type |-> "B", seq |-> f.vs, rt |-> FALSE, code |-> code, sdu |-> NoSDU]
           g == [f EXCEPT !.hdr = code, !.txCnt = 1, !.armed = TRUE]
           x == Append(f.tx, FrameOf(it))
           r == [g EXCEPT !.sent = <<it>>, !.tx = x, !.state = "INIT_BC", !.signal = "ACCEPT_DIR"]
<1>1. f \in FopRecord /\ f.tx \in Seq(Frame) /\ Len(f.tx) <= TxCap /\ Len(f.tx) \in Nat
  BY DEF Fits, FopRecord
<1>2. it \in Item /\ it.type = "B" /\ it.rt = FALSE
  BY <1>1 DEF Item, FopRecord
<1>3. x \in Seq(Frame) /\ Len(x) = Len(f.tx) + 1
  <2>1. FrameOf(it) \in Frame
    BY <1>2, SeqNumFacts DEF FrameOf, Item, Frame
  <2> HIDE DEF FrameOf, it
  <2> QED BY <1>1, <2>1, AppendProperties
<1>4. TransmitTypeBc(f, code) = IF TxFull(f) THEN Alert(g, "UNDEF_ERROR") ELSE r
  <2>1. g.sent = <<>> /\ g.tx = f.tx
    BY <1>1 DEF FopRecord
  <2>3. Append(<<>>, it) = <<it>>
    OBVIOUS
  <2> HIDE DEF it
  <2>4. [g EXCEPT !.sent = Append(@, it), !.tx = Append(@, FrameOf(it)),
                  !.state = "INIT_BC", !.signal = "ACCEPT_DIR"] = r
    BY <2>1, <2>3, <1>1 DEF FopRecord
  <2> QED BY <2>4 DEF TransmitTypeBc, it
<1>5. /\ "INIT_BC" \in FopStates /\ {"UNDEF_ERROR", "ACCEPT_DIR"} \subseteq Signals
      /\ TRUE \in BOOLEAN
  BY DEF Signals, Alerts, FopStates
<1> HIDE DEF x, it
<1>6. g \in FopRecord
  BY <1>1, <1>5, SeqNumFacts DEF FopRecord
<1>7. g.sent = <<>> /\ g.wait = <<>> /\ g.tx = f.tx /\ g.ss = 0
  BY <1>1 DEF FopRecord
<1> HIDE DEF g
<1>8. CASE TxFull(f)
  <2>1. Fits(g)
    BY <1>1, <1>6, <1>7, SentCapAssumption DEF Fits
  <2> QED BY <1>4, <1>5, <1>8, <2>1, AlertSound
<1>9. CASE ~ TxFull(f)
  <2>1. <<it>> \in Seq(Item) /\ Len(<<it>>) = 1 /\ <<it>>[1] = it /\ DOMAIN <<it>> = {1}
    BY <1>2
  <2> DEFINE q == <<it>>
  <2> HIDE DEF q
  <2>2. /\ r.state = "INIT_BC" /\ r.ss = 0 /\ r.sent = q /\ r.wait = <<>> /\ r.tx = x
    BY <1>6, <1>7 DEF FopRecord, q
  <2>3. r \in FopRecord
    BY <1>3, <1>5, <1>6, <2>1 DEF FopRecord
  <2> HIDE DEF r
  <2>4. Fits(r)
    <3>1. Len(x) <= TxCap
      BY <1>1, <1>3, <1>9, TxCapAssumption DEF TxFull
    <3> QED BY <2>1, <2>2, <2>3, <3>1, SentCapAssumption DEF Fits, q
  <2>5. Flagged(r) = {}
    BY <1>2, <2>1, <2>2 DEF Flagged, q
  <2>6. Matched(r)
    BY <1>2, <2>1, <2>2, <2>5 DEF Matched, Adjacent, AdStates, OpenStates, q
  <2> QED BY <1>4, <1>9, <2>4, <2>6 DEF Sound
<1> QED BY <1>8, <1>9

(* osdlp_initialize_cop purges wait and sent; the FOP is in INIT then. *)
LEMMA InitializeCopPurges ==
    ASSUME NEW f, Sound(f)
    PROVE  LET g == InitializeCop(f)
           IN  Fits(g) /\ g.ss = 0 /\ g.sent = <<>> /\ g.wait = <<>>
               /\ g.tx = f.tx /\ g.state = f.state
<1> DEFINE g == InitializeCop(f)
<1>1. <<>> \in Seq(Item) /\ <<>> \in Seq(SDU) /\ 1 \in 0 .. CntMod - 1 /\ 0 \in 0 .. 4
  BY SeqNumFacts
<1>2. g \in FopRecord
  <2>1. f \in FopRecord
    BY DEF Sound, Fits
  <2> QED BY <1>1, <2>1 DEF InitializeCop, FopRecord
<1>3. g.ss = 0 /\ g.sent = <<>> /\ g.wait = <<>> /\ g.tx = f.tx /\ g.state = f.state
  BY DEF InitializeCop, Sound, Fits, FopRecord
<1> HIDE DEF g
<1>4. Fits(g)
  BY <1>2, <1>3, SentCapAssumption DEF Sound, Fits
<1> QED BY <1>3, <1>4 DEF g

-----------------------------------------------------------------------------
(* The events of a control word, one lemma for each kind of handler. *)
(* The events that only alert, in the states they name. *)
LEMMA AlertInSound ==
    ASSUME NEW f, Sound(f), NEW states, NEW sig \in Signals
    PROVE  Sound(AlertIn(f, states, sig))
BY AlertSound DEF AlertIn, Sound
(* fop_e1: a service being initialised holds nothing once the control frame is released. *)
LEMMA FopE1Sound ==
    ASSUME NEW f, Sound(f)
    PROVE  Sound(FopE1(f))
<1> DEFINE h == IF f.state = "INIT_BC" THEN ReleaseCopyOfBc(f) ELSE f
           r == [h EXCEPT !.state = "ACTIVE", !.armed = FALSE, !.signal = "POSITIVE_DIR"]
<1>1. /\ {"ALERT_SYNCH", "POSITIVE_DIR"} \subseteq Signals
      /\ "ACTIVE" \in FopStates /\ "ACTIVE" \in AdStates /\ FALSE \in BOOLEAN
  BY DEF Signals, Alerts, FopStates, AdStates, OpenStates
<1>2. CASE f.state \in {"RT_NO_WAIT", "RT_WAIT"}
  BY <1>1, <1>2, AlertSound DEF FopE1, Sound
<1>3. CASE f.state \in {"INIT_NO_BC", "INIT_BC"}
  <2>1. f \in FopRecord /\ f.ss = 0 /\ f.wait = <<>> /\ f.sent \in Seq(Item)
    <3>1. f \in FopRecord /\ f.sent \in Seq(Item)
      BY DEF Sound, Fits, FopRecord
    <3>2. f.ss = 0
      BY <1>3 DEF Sound, Matched
    <3>3. f.wait = <<>>
      BY <1>3, <3>2 DEF Sound, Matched
    <3> QED BY <3>1, <3>2, <3>3
  <2>2. h \in FopRecord /\ h.sent = <<>> /\ h.wait = <<>> /\ h.ss = 0 /\ h.tx = f.tx
    <3>1. CASE f.state = "INIT_NO_BC"
      BY <2>1, <3>1 DEF Sound, Matched
    <3>2. CASE f.state = "INIT_BC"
      <4>1. Len(f.sent) = 1 /\ f.sent[1].type = "B"
        BY <3>2 DEF Sound, Matched
      <4>2. Tail(f.sent) = <<>> /\ Head(f.sent) = f.sent[1] /\ <<>> \in Seq(Item)
        <5>1. f.sent # <<>> /\ Tail(f.sent) \in Seq(Item) /\ Len(Tail(f.sent)) = 0
          BY <2>1, <4>1, HeadTailProperties
        <5>2. Tail(f.sent) = <<>>
          BY <5>1, EmptySeq
        <5>3. Head(f.sent) = f.sent[1]
          BY <2>1, <5>1
        <5> QED BY <5>2, <5>3
      <4>3. h = [f EXCEPT !.sent = <<>>]
        BY <2>1, <3>2, <4>1, <4>2 DEF ReleaseCopyOfBc, FopRecord
      <4> HIDE DEF h
      <4> QED BY <2>1, <4>2, <4>3 DEF FopRecord
    <3> QED BY <1>3, <3>1, <3>2
  <2>3. FopE1(f) = r
    BY <1>3 DEF FopE1
  <2> HIDE DEF h
  <2>4. r \in FopRecord
    BY <1>1, <2>2 DEF FopRecord
  <2>5. r.state = "ACTIVE" /\ r.ss = 0 /\ r.sent = <<>> /\ r.wait = <<>> /\ r.tx = f.tx
    BY <2>2 DEF FopRecord
  <2> HIDE DEF r
  <2>6. Fits(r)
    BY <2>4, <2>5, SentCapAssumption DEF Sound, Fits
  <2>7. DOMAIN r.sent = {}
    BY <2>5
  <2>8. Matched(r)
    BY <2>5, <2>7 DEF Matched, AllTypeA, Adjacent, Flagged
  <2> QED BY <2>3, <2>6, <2>8 DEF Sound
<1>4. CASE f.state \notin {"RT_NO_WAIT", "RT_WAIT", "INIT_NO_BC", "INIT_BC"}
  BY <1>4 DEF FopE1
<1> QED BY <1>2, <1>3, <1>4
(* fop_e2: everything acknowledged, then a look for the next item. *)
LEMMA FopE2Sound ==
    ASSUME NEW f, Sound(f), NEW nr \in SeqNum
    PROVE  Sound(FopE2(f, nr))
<1>1. CASE f.state \in AdStates
  <2> DEFINE g == RemoveAcked(f, nr)
             h == [g EXCEPT !.armed = FALSE]
  <2>1. Open(g)
    BY <1>1, RemoveAckedOpen DEF Open
  <2> HIDE DEF g
  <2>2. Sound(h) /\ h.state = g.state
    BY <2>1, TimerSound DEF Open
  <2>3. Open(h)
    BY <2>1, <2>2 DEF Open
  <2> HIDE DEF h
  <2>4. Sound(LookForFdu(h))
    BY <2>3, LookForFduSound DEF Continues
  <2> QED BY <1>1, <2>4 DEF FopE2, Cancel, g, h
<1>2. CASE f.state \notin AdStates
  BY <1>2 DEF FopE2
<1> QED BY <1>1, <1>2
(* fop_e6 also sets ACTIVE after a purge: the service is open then, and empty. *)
LEMMA FopE6Sound ==
    ASSUME NEW f, Sound(f), NEW nr \in SeqNum
    PROVE  Sound(FopE6(f, nr))
<1> DEFINE g == RemoveAcked(f, nr)
           h == [g EXCEPT !.state = "ACTIVE"]
           l == LookForFdu(g)
           m == [l EXCEPT !.state = "ACTIVE"]
<1>1. CASE f.state \in AdStates
  <2>1. Open(g) /\ g.ss = 0 /\ g.state \in AdStates
    BY <1>1, RemoveAckedOpen, OpenNotSuspended DEF Open
  <2> HIDE DEF g
  <2>2. "ACTIVE" \in AdStates
    BY DEF AdStates, OpenStates
  <2>3. Open(h)
    BY <2>1, <2>2, SetOpen DEF Open
  <2> HIDE DEF h
  <2>4. Sound(LookForFdu(h))
    BY <2>3, LookForFduSound DEF Continues
  <2>5. Sound(l) /\ l.ss = 0 /\ l.state \in AdStates \cup {"INIT"}
    BY <2>1, LookForFduSound DEF Continues
  <2> HIDE DEF l
  <2>6. Sound(m)
    BY <2>2, <2>5, SetOpen DEF Open
  <2> HIDE DEF m
  <2>7. FopE6(f, nr) = CASE f.state = "ACTIVE"     -> l
                         [] f.state = "RT_NO_WAIT" -> LookForFdu(h)
                         [] f.state = "RT_WAIT"    -> m
                         [] OTHER -> f
    BY DEF FopE6, g, h, l, m
  <2>8. f.state \in {"ACTIVE", "RT_NO_WAIT", "RT_WAIT"}
    BY <1>1 DEF AdStates, OpenStates
  <2> QED BY <2>4, <2>5, <2>6, <2>7, <2>8
<1>2. CASE f.state \notin AdStates
  <2>1. f.state \notin {"ACTIVE", "RT_NO_WAIT", "RT_WAIT"}
    BY <1>2 DEF AdStates, OpenStates
  <2> QED BY <2>1 DEF FopE6
<1> QED BY <1>1, <1>2
(* fop_e8 acknowledges before it retransmits. *)
LEMMA FopE8Sound ==
    ASSUME NEW f, Sound(f), NEW nr \in SeqNum
    PROVE  Sound(FopE8(f, nr))
<1>1. CASE f.state \in AdStates
  BY <1>1, RemoveAckedOpen, RetransmitSound DEF FopE8, Open
<1>2. CASE f.state \notin AdStates
  BY <1>2 DEF FopE8
<1> QED BY <1>1, <1>2
(* fop_e10 retransmits in ACTIVE and RT_WAIT. *)
LEMMA FopE10Sound ==
    ASSUME NEW f, Sound(f)
    PROVE  Sound(FopE10(f))
BY RetransmitSound DEF FopE10, Open, AdStates, OpenStates

(* The events that only change between the open states. *)
LEMMA StateEventsSound ==
    ASSUME NEW f, Sound(f)
    PROVE  Sound(FopE11(f)) /\ Sound(FopE12(f)) /\ Sound(FopE103(f))
<1>1. {"RT_WAIT", "RT_NO_WAIT"} \subseteq AdStates
  BY DEF AdStates, OpenStates
<1>2. CASE f.state \in AdStates
  <2>1. f.ss = 0
    BY <1>2, OpenNotSuspended DEF Open
  <2>2. Sound([f EXCEPT !.state = "RT_WAIT"]) /\ Sound([f EXCEPT !.state = "RT_NO_WAIT"])
    BY <1>1, <1>2, <2>1, SetOpen DEF Open
  <2> QED BY <1>2, <2>2 DEF FopE11, FopE12, FopE103
<1>3. CASE f.state \notin AdStates
  BY <1>3 DEF FopE11, FopE12, FopE103
<1> QED BY <1>2, <1>3
(* fop_e9 acknowledges and waits. *)
LEMMA FopE9Sound ==
    ASSUME NEW f, Sound(f), NEW nr \in SeqNum
    PROVE  Sound(FopE9(f, nr))
<1>1. CASE f.state \in AdStates
  <2> DEFINE g == RemoveAcked(f, nr)
  <2>1. Open(g) /\ g.ss = 0 /\ "RT_WAIT" \in AdStates
    BY <1>1, RemoveAckedOpen, OpenNotSuspended DEF Open, AdStates, OpenStates
  <2> HIDE DEF g
  <2>2. Sound([g EXCEPT !.state = "RT_WAIT"])
    BY <2>1, SetOpen DEF Open
  <2> QED BY <1>1, <2>2 DEF FopE9, g
<1>2. CASE f.state \notin AdStates
  BY <1>2 DEF FopE9
<1> QED BY <1>1, <1>2
(* fop_e101 acknowledges and gives up. *)
LEMMA FopE101Sound ==
    ASSUME NEW f, Sound(f), NEW nr \in SeqNum
    PROVE  Sound(FopE101(f, nr))
<1>1. "ALERT_LIMIT" \in Signals
  BY DEF Signals, Alerts
<1>2. CASE f.state \in AdStates
  BY <1>1, <1>2, RemoveAckedOpen, AlertSound DEF FopE101, Open, Sound
<1>3. CASE f.state \notin AdStates
  BY <1>3 DEF FopE101
<1> QED BY <1>2, <1>3

(* Every control word is one of the events of osdlp_handle_clcw. *)
Events == {"E1", "E2", "E3", "E4", "E5", "E6", "E7", "E8", "E9", "E10", "E11", "E12",
           "E13", "E14", "E101", "E102", "E103", "NO_LIMIT"}
(* The dispatch has no hole: the limit and the counter are compared both ways. *)
LEMMA ClcwEventKnown ==
    ASSUME NEW f, Sound(f), NEW c \in Clcw
    PROVE  ClcwEvent(f, c) \in Events /\ (ClcwEvent(f, c) = "E2" => c.nr = f.vs)
<1>1. f.lim \in Nat /\ f.txCnt \in Nat
  <2>1. f.lim \in Limits /\ f.txCnt \in 0 .. CntMod - 1
    BY DEF Sound, Fits, FopRecord
  <2>2. f.lim \in 0 .. CntMod - 1
    BY <2>1, LimitsAssumption
  <2> QED BY <2>1, <2>2, CntModAssumption
<1>2. RetransmitEvent(f, c) \in Events \ {"E2"}
  <2>1. CASE f.lim = 0
    BY <2>1 DEF RetransmitEvent, Events
  <2>2. CASE f.lim = 1
    BY <2>2 DEF RetransmitEvent, Events
  <2>3. CASE f.lim > 1 /\ c.nr # f.nnr
    BY <1>1, <2>3 DEF RetransmitEvent, Events
  <2>4. CASE f.lim > 1 /\ ~ (c.nr # f.nnr) /\ f.txCnt < f.lim
    BY <1>1, <2>4 DEF RetransmitEvent, Events
  <2>5. CASE f.lim > 1 /\ ~ (c.nr # f.nnr) /\ f.txCnt >= f.lim
    BY <1>1, <2>5 DEF RetransmitEvent, Events
  <2> QED BY <1>1, <2>1, <2>2, <2>3, <2>4, <2>5
<1> QED BY <1>2 DEF ClcwEvent, Events
(* Every control word keeps the invariant. *)
LEMMA OnClcwSound ==
    ASSUME NEW f, Sound(f), NEW c \in Clcw
    PROVE  Sound(OnClcw(f, c))
<1> DEFINE e == ClcwEvent(f, c)
<1>1. e \in Events
  BY ClcwEventKnown
<1>2. c.nr \in SeqNum
  BY DEF Clcw
<1>3. Alerts \subseteq Signals /\ "UNDEF_ERROR" \in Signals
  BY DEF Signals
<1>4. {"ALERT_LIMIT", "ALERT_LOCKOUT", "ALERT_SYNCH", "ALERT_NNR", "ALERT_CLCW"} \subseteq Signals
  BY <1>3 DEF Alerts
<1>5. CASE e \in {"E1", "E2", "E6", "E8", "E9"}
  BY <1>2, <1>5, FopE1Sound, FopE2Sound, FopE6Sound, FopE8Sound, FopE9Sound DEF OnClcw
<1>6. CASE e \in {"E3", "E4", "E5", "E7"}
  BY <1>4, <1>6, AlertInSound DEF OnClcw, FopE3, FopE4, FopE5, FopE7
<1>7. CASE e \in {"E13", "E14", "E102"}
  BY <1>4, <1>7, AlertInSound DEF OnClcw, FopE13, FopE14, FopE102
<1>8. CASE e \in {"E10", "E11", "E12", "E101", "E103"}
  BY <1>2, <1>8, FopE10Sound, StateEventsSound, FopE101Sound DEF OnClcw
<1>9. CASE e = "NO_LIMIT"
  BY <1>3, <1>9, SaySound DEF OnClcw
<1> HIDE DEF e
<1> QED BY <1>1, <1>5, <1>6, <1>7, <1>8, <1>9 DEF Events

-----------------------------------------------------------------------------
(* The timer. *)

(* osdlp_handle_timer_expired below the limit. *)
LEMMA FopE16Sound ==
    ASSUME NEW f, Sound(f)
    PROVE  Sound(FopE16(f))
<1>1. CASE f.state \in OpenStates
  <2> DEFINE g == InitiateAdRetransmission(f)
  <2>1. Open(g)
    BY <1>1, InitiateAdRetransmissionOpen DEF Open, AdStates
  <2> HIDE DEF g
  <2>2. Sound(LookForFdu(g))
    BY <2>1, LookForFduSound DEF Continues
  <2>3. FopE16(f) = LookForFdu(g)
    BY <1>1 DEF FopE16, OpenStates, g
  <2> QED BY <2>2, <2>3
<1>2. CASE f.state = "INIT_NO_BC"
  <2>1. "ALERT_T1" \in Signals
    BY DEF Signals, Alerts
  <2>2. FopE16(f) = Alert(f, "ALERT_T1")
    BY <1>2 DEF FopE16, OpenStates
  <2> QED BY <2>1, <2>2, AlertSound DEF Sound
<1>3. CASE f.state = "INIT_BC"
  <2>1. FopE16(f) = RetransmitBc(f)
    BY <1>3 DEF FopE16, OpenStates
  <2> QED BY <1>3, <2>1, RetransmitBcSound
<1>4. CASE f.state \notin OpenStates \cup {"INIT_NO_BC", "INIT_BC"}
  BY <1>4 DEF FopE16
<1> QED BY <1>1, <1>2, <1>3, <1>4

Suspended(f, n) == [f EXCEPT !.ss = n, !.state = "INIT"]

(* Suspension keeps the queues: what an open service held is held in INIT. *)
LEMMA SuspendSound ==
    ASSUME NEW f, Sound(f), NEW n \in 1 .. 4,
           f.state \in AdStates \/ (f.state = "INIT_NO_BC" /\ n = 4),
           f.state \in AdStates => n # 4
    PROVE  Sound(Suspended(f, n))
<1> DEFINE g == Suspended(f, n)
<1>1. "INIT" \in FopStates /\ n \in 0 .. 4 /\ n # 0
  BY DEF FopStates
<1>2. f \in FopRecord /\ Len(f.tx) <= TxCap
  BY DEF Sound, Fits
<1>3. g \in FopRecord
  BY <1>1, <1>2 DEF FopRecord, Suspended
<1>4. /\ g.state = "INIT" /\ g.ss = n /\ g.sent = f.sent /\ g.wait = f.wait
      /\ g.tx = f.tx
  BY <1>2 DEF FopRecord, Suspended
<1>5. f.state = "INIT_NO_BC" => f.sent = <<>> /\ f.wait = <<>>
  BY DEF Sound, Matched
<1> HIDE DEF g
<1>6. g.state \notin AdStates /\ g.state # "INIT_BC"
  BY <1>4 DEF AdStates, OpenStates
<1>7. (g.ss \in {0, 4}) => f.state = "INIT_NO_BC"
  BY <1>1, <1>4
<1>8. g.ss \in 1 .. 3 => f.state \in AdStates
  BY <1>4
<1>9. Sound(g)
  BY <1>1, <1>2, <1>3, <1>4, <1>5, <1>6, <1>7, <1>8, Restated
<1> QED BY <1>9 DEF g
(* Every expiry keeps it, with either timeout type. *)
LEMMA OnTimerSound ==
    ASSUME NEW f, Sound(f)
    PROVE  Sound(OnTimer(f))
<1>1. "ALERT_T1" \in Signals
  BY DEF Signals, Alerts
<1>2. f.state \in FopStates
  BY DEF Sound, Fits, FopRecord
<1>3. Sound(FopE16(f))
  BY FopE16Sound
<1>4. Sound(FopE104(f))
  <2>1. CASE f.state = "INIT_NO_BC"
    <3>1. f.state \notin AdStates /\ 4 \in 1 .. 4
      BY <2>1 DEF AdStates, OpenStates
    <3>2. Sound(Suspended(f, 4))
      BY <2>1, <3>1, SuspendSound
    <3> QED BY <2>1, <3>2 DEF FopE104, Suspended
  <2>2. CASE f.state # "INIT_NO_BC"
    BY <1>3, <2>2 DEF FopE104
  <2> QED BY <2>1, <2>2
<1>5. Sound(FopE17(f))
  BY <1>1, AlertInSound DEF FopE17
<1>6. Sound(FopE18(f))
  <2>1. CASE f.state = "ACTIVE"
    <3>1. f.state \in AdStates
      BY <2>1 DEF AdStates, OpenStates
    <3>2. Sound(Suspended(f, 1))
      <4>1. 1 \in 1 .. 4 /\ (1 = 4 <=> 1 \notin 1 .. 3)
        OBVIOUS
      <4> QED BY <4>1, <3>1, SuspendSound
    <3> QED BY <2>1, <3>2 DEF FopE18, Suspended
  <2>2. CASE f.state = "RT_NO_WAIT"
    <3>1. f.state \in AdStates
      BY <2>2 DEF AdStates, OpenStates
    <3>2. Sound(Suspended(f, 2))
      <4>1. 2 \in 1 .. 4 /\ (2 = 4 <=> 2 \notin 1 .. 3)
        OBVIOUS
      <4> QED BY <4>1, <3>1, SuspendSound
    <3> QED BY <2>2, <3>2 DEF FopE18, Suspended
  <2>3. CASE f.state = "RT_WAIT"
    <3>1. f.state \in AdStates
      BY <2>3 DEF AdStates, OpenStates
    <3>2. Sound(Suspended(f, 3))
      <4>1. 3 \in 1 .. 4 /\ (3 = 4 <=> 3 \notin 1 .. 3)
        OBVIOUS
      <4> QED BY <4>1, <3>1, SuspendSound
    <3> QED BY <2>3, <3>2 DEF FopE18, Suspended
  <2>4. CASE f.state = "INIT_NO_BC"
    <3>1. f.state \notin AdStates
      BY <2>4 DEF AdStates, OpenStates
    <3>2. Sound(Suspended(f, 4))
      <4>1. 4 \in 1 .. 4 /\ (4 = 4 <=> 4 \notin 1 .. 3)
        OBVIOUS
      <4> QED BY <4>1, <2>4, <3>1, SuspendSound
    <3> QED BY <2>4, <3>2 DEF FopE18, Suspended
  <2>5. CASE f.state = "INIT_BC"
    BY <1>1, <2>5, AlertSound DEF FopE18, Sound
  <2>6. CASE f.state = "INIT"
    BY <2>6 DEF FopE18
  <2> QED BY <1>2, <2>1, <2>2, <2>3, <2>4, <2>5, <2>6 DEF FopStates, AdStates, OpenStates
<1> QED BY <1>3, <1>4, <1>5, <1>6 DEF OnTimer

-----------------------------------------------------------------------------
(* Requests and directives. *)

(* A change of settings or numbers, which the invariant does not look at. *)
LEMMA SettingsSound ==
    ASSUME NEW f, NEW g, Sound(f), g \in FopRecord,
           g.state = f.state, g.ss = f.ss, g.sent = f.sent, g.wait = f.wait, g.tx = f.tx
    PROVE  Sound(g)
BY MatchedByFields DEF Sound, Fits

(* An FOP that holds nothing and is not suspended is sound in any state but INIT_BC. *)
LEMMA EmptySound ==
    ASSUME NEW g, Fits(g), g.ss = 0, g.sent = <<>>, g.wait = <<>>, g.state # "INIT_BC"
    PROVE  Sound(g)
<1>1. DOMAIN g.sent = {}
  OBVIOUS
<1> QED BY <1>1 DEF Sound, Matched, AllTypeA, Adjacent, Flagged
(* fop_e19: the SDU waits, and goes out when the window lets it. *)
LEMMA FopE19Sound ==
    ASSUME NEW f, Sound(f), NEW sdu \in SDU
    PROVE  Sound(FopE19(f, sdu))
<1> DEFINE q == <<sdu>>
           g == [f EXCEPT !.wait = q]
           d == [f EXCEPT !.wait = q, !.signal = "DELAY_RESP"]
<1>1. {"DELAY_RESP", "REJECT_TX"} \subseteq Signals
  BY DEF Signals
<1>2. q \in Seq(SDU) /\ Len(q) = 1
  OBVIOUS
<1>3. f \in FopRecord
  BY DEF Sound, Fits
<1>4. FopE19(f, sdu) = CASE f.state \in OpenStates -> LookForFdu(g)
                         [] f.state = "RT_WAIT"    -> d
                         [] OTHER                  -> Say(f, "REJECT_TX")
  BY DEF FopE19
<1> HIDE DEF q
<1>5. CASE f.state \in AdStates
  <2>1. g \in FopRecord
    BY <1>2, <1>3 DEF FopRecord
  <2>2. /\ g.state = f.state /\ g.ss = f.ss /\ g.sent = f.sent /\ g.wait = q
        /\ g.tx = f.tx
    BY <1>3 DEF FopRecord
  <2>3. d = Say(g, "DELAY_RESP")
    BY <1>3 DEF Say, FopRecord
  <2> HIDE DEF g, d
  <2>4. Fits(g)
    <3>1. Len(g.wait) = 1
      BY <1>2, <2>2
    <3>2. Len(g.sent) <= SentCap /\ Len(g.tx) <= TxCap
      BY <2>2 DEF Sound, Fits
    <3>3. Len(g.wait) <= 1
      BY <3>1
    <3> QED BY <2>1, <3>2, <3>3 DEF Fits
  <2>5. Matched(g)
    BY <1>5, <2>2 DEF Sound, Matched, AllTypeA, Adjacent, Flagged, AdStates, OpenStates
  <2>6. Open(g)
    BY <1>5, <2>2, <2>4, <2>5 DEF Open, Sound
  <2>7. Sound(LookForFdu(g)) /\ Sound(d)
    BY <1>1, <2>3, <2>6, LookForFduSound, SaySound DEF Continues, Open
  <2>8. f.state \in OpenStates \/ f.state = "RT_WAIT"
    BY <1>5 DEF AdStates
  <2>9. "RT_WAIT" \notin OpenStates
    BY DEF OpenStates
  <2> QED BY <1>4, <2>7, <2>8, <2>9
<1>6. CASE f.state \notin AdStates
  <2>1. f.state \notin OpenStates /\ f.state # "RT_WAIT"
    BY <1>6 DEF AdStates
  <2>2. FopE19(f, sdu) = Say(f, "REJECT_TX")
    BY <1>4, <2>1
  <2> QED BY <1>1, <2>2, SaySound
<1> QED BY <1>5, <1>6
(* A request for an AD frame, refused or not. *)
LEMMA TransmitAdSound ==
    ASSUME NEW f, Sound(f), NEW sdu \in SDU
    PROVE  Sound(TransmitAd(f, sdu))
<1> DEFINE g == [f EXCEPT !.hdr = "AD"]
<1>1. "REJECT_TX" \in Signals /\ "AD" \in Codes
  BY DEF Signals, Codes
<1>2. f \in FopRecord
  BY DEF Sound, Fits
<1>3. g \in FopRecord
  BY <1>1, <1>2 DEF FopRecord
<1>4. /\ g.state = f.state /\ g.ss = f.ss /\ g.sent = f.sent /\ g.wait = f.wait
      /\ g.tx = f.tx
  BY <1>2 DEF FopRecord
<1>5. TransmitAd(f, sdu) = CASE TxFull(g)                     -> Say(g, "REJECT_TX")
                             [] ~TxFull(g) /\ g.wait = <<>>   -> FopE19(g, sdu)
                             [] ~TxFull(g) /\ g.wait # <<>>   -> Say(g, "REJECT_TX")
  BY DEF TransmitAd, FopE20
<1> HIDE DEF g
<1>6. Sound(g)
  BY <1>3, <1>4, SettingsSound
<1>7. Sound(Say(g, "REJECT_TX")) /\ Sound(FopE19(g, sdu))
  BY <1>1, <1>6, SaySound, FopE19Sound
<1> QED BY <1>5, <1>7
(* A request for a BD frame. *)
LEMMA TransmitBdSound ==
    ASSUME NEW f, Sound(f), NEW sdu \in SDU
    PROVE  Sound(TransmitBd(f, sdu))
<1> DEFINE g == [f EXCEPT !.hdr = "BD"]
           fr == [code |-> "BD", num |-> 0, sdu |-> sdu]
           x == Append(g.tx, fr)
           h == [g EXCEPT !.tx = x, !.signal = "ACCEPT_TX"]
<1>1. {"REJECT_TX", "ACCEPT_TX"} \subseteq Signals /\ "BD" \in Codes
  BY DEF Signals, Codes
<1>2. f \in FopRecord
  BY DEF Sound, Fits
<1>3. g \in FopRecord
  BY <1>1, <1>2 DEF FopRecord
<1>4. /\ g.state = f.state /\ g.ss = f.ss /\ g.sent = f.sent /\ g.wait = f.wait
      /\ g.tx = f.tx
  BY <1>2 DEF FopRecord
<1>5. TransmitBd(f, sdu) = IF TxFull(g) THEN Say(g, "REJECT_TX") ELSE h
  BY <1>3 DEF TransmitBd, FopE21, FopRecord
<1> HIDE DEF g
<1>6. Sound(g)
  BY <1>3, <1>4, SettingsSound
<1>7. CASE TxFull(g)
  BY <1>1, <1>5, <1>6, <1>7, SaySound
<1>8. CASE ~ TxFull(g)
  <2>1. fr \in Frame
    BY <1>1, SeqNumFacts DEF Frame
  <2>2. g.tx \in Seq(Frame) /\ Len(g.tx) \in Nat /\ Len(g.tx) <= TxCap
    BY <1>6 DEF Sound, Fits, FopRecord
  <2> HIDE DEF fr
  <2>3. x \in Seq(Frame) /\ Len(x) = Len(g.tx) + 1
    BY <2>1, <2>2, AppendProperties
  <2> HIDE DEF x
  <2>4. Len(x) <= TxCap
    BY <1>8, <2>2, <2>3, TxCapAssumption DEF TxFull
  <2>5. h \in FopRecord
    BY <1>1, <1>3, <2>3 DEF FopRecord
  <2>6. /\ h.state = g.state /\ h.ss = g.ss /\ h.sent = g.sent /\ h.wait = g.wait
        /\ h.tx = x
    BY <1>3 DEF FopRecord
  <2> HIDE DEF h
  <2>7. Fits(h)
    BY <1>6, <2>4, <2>5, <2>6 DEF Sound, Fits
  <2>8. Sound(h)
    BY <1>6, <2>6, <2>7, MatchedByFields DEF Sound
  <2> QED BY <1>5, <1>8, <2>8
<1> QED BY <1>7, <1>8
(* Initiate without a CLCW check purges a suspended service. *)
LEMMA InitiateNoClcwSound ==
    ASSUME Sound(fop), InitiateNoClcw PROVE Sound(fop')
<1> DEFINE g == InitializeCop(fop)
           h == [g EXCEPT !.state = "ACTIVE", !.signal = "POSITIVE_DIR"]
<1>1. {"POSITIVE_DIR", "REJECT_DIR"} \subseteq Signals /\ "ACTIVE" \in FopStates
  BY DEF Signals, FopStates, AdStates, OpenStates
<1>2. fop' = IF fop.state = "INIT" THEN h ELSE Say(fop, "REJECT_DIR")
  BY DEF InitiateNoClcw
<1>3. Fits(g) /\ g.ss = 0 /\ g.sent = <<>> /\ g.wait = <<>> /\ g \in FopRecord
  BY InitializeCopPurges DEF Fits
<1> HIDE DEF g
<1>4. /\ h \in FopRecord /\ h.state = "ACTIVE" /\ h.ss = 0 /\ h.sent = <<>>
      /\ h.wait = <<>> /\ h.tx = g.tx
  BY <1>1, <1>3 DEF FopRecord
<1> HIDE DEF h
<1>5. Fits(h)
  BY <1>3, <1>4 DEF Fits
<1> QED BY <1>1, <1>2, <1>4, <1>5, EmptySound, SaySound
(* So does initiate with a CLCW check. *)
LEMMA InitiateWithClcwSound ==
    ASSUME Sound(fop), InitiateWithClcw PROVE Sound(fop')
<1> DEFINE g == InitializeCop(fop)
           h == [g EXCEPT !.armed = TRUE, !.state = "INIT_NO_BC", !.signal = "ACCEPT_DIR"]
<1>1. {"ACCEPT_DIR", "REJECT_DIR"} \subseteq Signals /\ "INIT_NO_BC" \in FopStates /\ TRUE \in BOOLEAN
  BY DEF Signals, FopStates
<1>3. Fits(g) /\ g.ss = 0 /\ g.sent = <<>> /\ g.wait = <<>> /\ g \in FopRecord
  BY InitializeCopPurges DEF Fits
<1>2. fop' = IF fop.state = "INIT" THEN h ELSE Say(fop, "REJECT_DIR")
  BY <1>3 DEF InitiateWithClcw, Start, FopRecord
<1> HIDE DEF g
<1>4. /\ h \in FopRecord /\ h.state = "INIT_NO_BC" /\ h.ss = 0 /\ h.sent = <<>>
      /\ h.wait = <<>> /\ h.tx = g.tx
  BY <1>1, <1>3 DEF FopRecord
<1> HIDE DEF h
<1>5. Fits(h)
  BY <1>3, <1>4 DEF Fits
<1> QED BY <1>1, <1>2, <1>4, <1>5, EmptySound, SaySound

(* The two initiate directives that send a control frame. *)
LEMMA InitiateWithBcSound ==
    ASSUME Sound(fop), InitiateWithUnlock \/ \E vr \in SeqNum : InitiateWithSetvr(vr)
    PROVE  Sound(fop')
<1> DEFINE g == InitializeCop(fop)
<1>1. Fits(g) /\ g.ss = 0 /\ g.sent = <<>> /\ g.wait = <<>> /\ g \in FopRecord
  BY InitializeCopPurges DEF Fits
<1>2. {"UNLOCK", "SETVR"} \subseteq Codes
  BY DEF Codes
<1>3. CASE InitiateWithUnlock
  <2> HIDE DEF g
  <2>1. Sound(TransmitTypeBc(g, "UNLOCK"))
    BY <1>1, <1>2, TransmitTypeBcSound
  <2> QED BY <1>3, <2>1 DEF InitiateWithUnlock, g
<1>4. ASSUME NEW vr \in SeqNum, InitiateWithSetvr(vr)
      PROVE  Sound(fop')
  <2> DEFINE h == [g EXCEPT !.vs = vr, !.nnr = vr]
  <2>1. fop' = TransmitTypeBc(h, "SETVR")
    BY <1>4 DEF InitiateWithSetvr
  <2> HIDE DEF g
  <2>2. /\ h \in FopRecord /\ h.ss = 0 /\ h.sent = <<>> /\ h.wait = <<>> /\ h.tx = g.tx
    BY <1>1 DEF FopRecord
  <2> HIDE DEF h
  <2>3. Fits(h)
    BY <1>1, <2>2 DEF Fits
  <2> QED BY <1>2, <2>1, <2>2, <2>3, TransmitTypeBcSound
<1> QED BY <1>3, <1>4
(* Resume: SS 1 to 3 give back an open service, 4 one being initialised, which is empty. *)
LEMMA ResumeAdSound ==
    ASSUME Sound(fop), ResumeAd PROVE Sound(fop')
<1> DEFINE s == Resumed[fop.ss]
           g == [fop EXCEPT !.armed = TRUE, !.ss = 0, !.state = s, !.signal = "POSITIVE_DIR"]
<1>1. fop \in FopRecord /\ fop.ss \in 1 .. 4 /\ fop.state = "INIT" /\ Len(fop.tx) <= TxCap
  <2>1. fop \in FopRecord /\ fop.ss \in 0 .. 4 /\ Len(fop.tx) <= TxCap
    BY DEF Sound, Fits, FopRecord
  <2>2. fop.ss # 0 /\ fop.state = "INIT"
    BY DEF ResumeAd
  <2> QED BY <2>1, <2>2
<1>2. fop' = g
  BY <1>1 DEF ResumeAd, Start, FopRecord
<1>3. /\ fop.ss \in 1 .. 3 => s \in AdStates
      /\ fop.ss = 4 => s = "INIT_NO_BC"
  BY <1>1 DEF Resumed, AdStates, OpenStates
<1>4. fop.ss \in 1 .. 3 \/ fop.ss = 4
  BY <1>1
<1> HIDE DEF s
<1>5. s \in FopStates /\ "POSITIVE_DIR" \in Signals /\ TRUE \in BOOLEAN /\ 0 \in 0 .. 4
  BY <1>3, <1>4 DEF FopStates, Signals
<1>6. g \in FopRecord
  BY <1>1, <1>5 DEF FopRecord
<1>7. /\ g.state = s /\ g.ss = 0 /\ g.sent = fop.sent /\ g.wait = fop.wait
      /\ g.tx = fop.tx
  BY <1>1 DEF FopRecord
<1> HIDE DEF g
<1>8. fop.ss = 4 => fop.sent = <<>> /\ fop.wait = <<>>
  BY <1>1 DEF Sound, Matched
<1>9. s \in AdStates => fop.ss \in 1 .. 3
  BY <1>3, <1>4 DEF AdStates, OpenStates
<1>10. s \in {"INIT", "INIT_NO_BC"} => fop.ss = 4
  BY <1>3, <1>4 DEF AdStates, OpenStates
<1>11. s # "INIT_BC"
  BY <1>3, <1>4 DEF AdStates, OpenStates
<1>12. g.ss \notin 1 .. 3
  BY <1>7
<1> QED BY <1>1, <1>2, <1>6, <1>7, <1>8, <1>9, <1>10, <1>11, <1>12, Restated
(* The directives that set a number or a parameter. *)
LEMMA SettingDirectivesSound ==
    ASSUME Sound(fop),
           \/ \E v \in SeqNum : SetNewVs(v)
           \/ \E w \in Windows : SetSlidingWindow(w)
           \/ \E l \in Limits : SetTxLimit(l)
           \/ \E t \in {0, 1} : SetTt(t)
    PROVE  Sound(fop')
<1>1. fop \in FopRecord /\ "POSITIVE_DIR" \in Signals
  BY DEF Sound, Fits, Signals
<1>2. /\ fop' \in FopRecord /\ fop'.state = fop.state /\ fop'.ss = fop.ss
      /\ fop'.sent = fop.sent /\ fop'.wait = fop.wait /\ fop'.tx = fop.tx
  <2>1. CASE \E v \in SeqNum : SetNewVs(v)
    BY <1>1, <2>1, ZenonT(60) DEF SetNewVs, FopRecord
  <2>2. CASE \E w \in Windows : SetSlidingWindow(w)
    BY <1>1, <2>2 DEF SetSlidingWindow, FopRecord
  <2>3. CASE \E l \in Limits : SetTxLimit(l)
    BY <1>1, <2>3 DEF SetTxLimit, FopRecord
  <2>4. CASE \E t \in {0, 1} : SetTt(t)
    BY <1>1, <2>4 DEF SetTt, FopRecord
  <2> QED BY <2>1, <2>2, <2>3, <2>4
<1> QED BY <1>2, SettingsSound
(* Every directive. *)
LEMMA DirectiveSound ==
    ASSUME Sound(fop), Directive PROVE Sound(fop')
<1>1. CASE InitiateNoClcw
  BY <1>1, InitiateNoClcwSound
<1>2. CASE InitiateWithClcw
  BY <1>2, InitiateWithClcwSound
<1>3. CASE InitiateWithUnlock \/ \E vr \in SeqNum : InitiateWithSetvr(vr)
  BY <1>3, InitiateWithBcSound
<1>4. CASE TerminateAd
  <2>1. "POSITIVE_DIR" \in Signals
    BY DEF Signals
  <2> QED BY <1>4, <2>1, SaySound, AlertSound DEF TerminateAd, Sound
<1>5. CASE ResumeAd
  BY <1>5, ResumeAdSound
<1>6. CASE \/ \E v \in SeqNum : SetNewVs(v)
           \/ \E w \in Windows : SetSlidingWindow(w)
           \/ \E l \in Limits : SetTxLimit(l)
           \/ \E t \in {0, 1} : SetTt(t)
  BY <1>6, SettingDirectivesSound
<1> QED BY <1>1, <1>2, <1>3, <1>4, <1>5, <1>6 DEF Directive

-----------------------------------------------------------------------------
(* The theorems. *)

(* The lower layer takes the first frame. *)
LEMMA UplinkSound ==
    ASSUME Sound(fop), Uplink PROVE Sound(fop')
<1> DEFINE x == Tail(fop.tx)
<1>1. fop \in FopRecord /\ fop.tx \in Seq(Frame) /\ fop.tx # <<>> /\ Len(fop.tx) <= TxCap
  BY DEF Uplink, Sound, Fits, FopRecord
<1>2. x \in Seq(Frame) /\ Len(x) = Len(fop.tx) - 1 /\ Len(fop.tx) \in Nat
  BY <1>1, HeadTailProperties
<1>3. Len(x) <= TxCap
  BY <1>1, <1>2, TxCapAssumption
<1>4. fop' = [fop EXCEPT !.tx = x]
  BY <1>1 DEF Uplink, FopRecord
<1> HIDE DEF x
<1>5. /\ fop' \in FopRecord /\ fop'.state = fop.state /\ fop'.ss = fop.ss
      /\ fop'.sent = fop.sent /\ fop'.wait = fop.wait /\ fop'.tx = x
  BY <1>1, <1>2, <1>4 DEF FopRecord
<1>6. Fits(fop')
  BY <1>3, <1>5 DEF Sound, Fits
<1> QED BY <1>5, <1>6, MatchedByFields DEF Sound

(* The initial FOP is sound. *)
LEMMA SoundInit ==
    ASSUME FopInit PROVE Sound(fop) /\ late \in BOOLEAN
<1>1. PICK w \in Windows, l \in Limits, t \in {0, 1} :
         fop = [state |-> "INIT", vs |-> 0, nnr |-> 0, wnd |-> w, txCnt |-> 0,
                lim |-> l, tt |-> t, ss |-> 0, signal |-> "IGNORE", hdr |-> "BD",
                sent |-> <<>>, wait |-> <<>>, tx |-> <<>>, armed |-> FALSE]
  BY DEF FopInit
<1>2. /\ "INIT" \in FopStates /\ "IGNORE" \in Signals /\ "BD" \in Codes /\ FALSE \in BOOLEAN
      /\ 0 \in 0 .. 4
  BY DEF FopStates, Signals, Codes
<1>3. 0 \in 0 .. CntMod - 1 /\ 0 \in SeqNum
  BY CntModAssumption, SeqNumFacts
<1>4. <<>> \in Seq(Item) /\ <<>> \in Seq(SDU) /\ <<>> \in Seq(Frame) /\ Len(<<>>) = 0
  OBVIOUS
<1>5. fop \in FopRecord
  BY <1>1, <1>2, <1>3, <1>4 DEF FopRecord
<1>6. /\ fop.state = "INIT" /\ fop.ss = 0 /\ fop.sent = <<>> /\ fop.wait = <<>>
      /\ fop.tx = <<>>
  BY <1>1
<1>7. Fits(fop)
  BY <1>4, <1>5, <1>6, SentCapAssumption, TxCapAssumption DEF Fits
<1> QED BY <1>6, <1>7, PurgedSound DEF FopInit

(* Every step, by its action. *)
LEMMA SoundStep ==
    ASSUME Sound(fop), late \in BOOLEAN, [FopNext]_fopVars
    PROVE  Sound(fop') /\ late' \in BOOLEAN
<1>1. CASE \E c \in Clcw : HandleClcw(c)
  BY <1>1, OnClcwSound DEF HandleClcw
<1>2. CASE Expire
  <2>1. Sound([fop EXCEPT !.armed = FALSE])
    BY TimerSound
  <2> QED BY <1>2, <2>1 DEF Expire, Cancel
<1>3. CASE HandleTimerExpired
  BY <1>3, OnTimerSound DEF HandleTimerExpired
<1>4. CASE \E d \in SDU : RequestAd(d) \/ RequestBd(d)
  BY <1>4, TransmitAdSound, TransmitBdSound DEF RequestAd, RequestBd
<1>5. CASE Directive
  <2>1. late' = late
    BY <1>5 DEF Directive, InitiateNoClcw, InitiateWithClcw, InitiateWithUnlock,
                InitiateWithSetvr, SetNewVs, TerminateAd, ResumeAd,
                SetSlidingWindow, SetTxLimit, SetTt
  <2> QED BY <1>5, <2>1, DirectiveSound
<1>6. CASE Uplink
  BY <1>6, UplinkSound DEF Uplink
<1>7. CASE UNCHANGED fopVars
  BY <1>7 DEF fopVars
<1> QED BY <1>1, <1>2, <1>3, <1>4, <1>5, <1>6, <1>7 DEF FopNext

(* Sound is inductive, and so holds in every reachable state. *)
THEOREM SoundAlways ==
    FopSpec => [](Sound(fop) /\ late \in BOOLEAN)
<1>1. FopInit => Sound(fop) /\ late \in BOOLEAN
  BY SoundInit
<1>2. (Sound(fop) /\ late \in BOOLEAN) /\ [FopNext]_fopVars => (Sound(fop) /\ late \in BOOLEAN)'
  BY SoundStep
<1> QED BY <1>1, <1>2, PTL DEF FopSpec

(***************************************************************************)
(* The type of the FOP's state: no queue exceeds its capacity and no       *)
(* counter leaves its width, whatever the order of requests, directives,   *)
(* control words and expiries.                                             *)
(***************************************************************************)
THEOREM FopTypeCorrect ==
    FopSpec => []FopTypeOK
<1>1. Sound(fop) /\ late \in BOOLEAN => FopTypeOK
  BY DEF Sound, Fits, FopRecord, FopTypeOK
<1> QED BY <1>1, SoundAlways, PTL

(***************************************************************************)
(* The queues hold what the state allows and the flagged items are         *)
(* adjacent, which is what makes the run of osdlp_look_for_fdu an interval. *)
(***************************************************************************)
THEOREM QueuesKept ==
    FopSpec => []QueuesMatchState
<1>1. Sound(fop) => QueuesMatchState
  BY DEF Sound, Matched, AllTypeA, Adjacent, QueuesMatchState
<1> QED BY <1>1, SoundAlways, PTL

-----------------------------------------------------------------------------
(* The timer of an initialisation, and the bounds test. *)

Initialising == {"INIT_NO_BC", "INIT_BC"}

(* A control word, an expiry or a request brings no service into initialisation,  *)
(* and one that is in it either leaves it or keeps its timer.                      *)
StillTimed(f, g) == g.state \in Initialising => f.state \in Initialising /\ g.armed = f.armed

(* A state that is open, or out of service, is not one of initialisation. *)
LEMMA OpenNotInitialising ==
    /\ AdStates \cap Initialising = {}
    /\ "INIT" \notin Initialising
    /\ FopStates = AdStates \cup Initialising \cup {"INIT"}
  BY DEF AdStates, OpenStates, Initialising, FopStates

(* An alert ends the service. *)
LEMMA AlertTimed ==
    ASSUME NEW f, Sound(f), NEW sig \in Signals
    PROVE  StillTimed(f, Alert(f, sig))
BY AlertSound, OpenNotInitialising DEF Sound, StillTimed

(* So does an event that is an alert in some states and is ignored in the others. *)
LEMMA AlertInTimed ==
    ASSUME NEW f, Sound(f), NEW states, NEW sig \in Signals
    PROVE  StillTimed(f, AlertIn(f, states, sig))
BY AlertTimed DEF AlertIn, StillTimed

(* osdlp_look_for_fdu starts from an open state, and what it does stays out of it. *)
LEMMA LookForFduLeaves ==
    ASSUME NEW f, Open(f)
    PROVE  LookForFdu(f).state \in AdStates \cup {"INIT"} /\ Sound(LookForFdu(f))
BY LookForFduSound DEF Continues, Open

(* So does a retransmission. *)
LEMMA RetransmitLeaves ==
    ASSUME NEW f, Open(f)
    PROVE  Retransmit(f).state \in AdStates \cup {"INIT"}
<1> DEFINE h == InitiateAdRetransmission(f)
           g == LookForFdu(h)
<1>1. Open(h)
  BY InitiateAdRetransmissionOpen
<1> HIDE DEF h
<1>2. g.state \in AdStates \cup {"INIT"} /\ g \in FopRecord
  BY <1>1, LookForFduLeaves DEF Sound, Fits
<1> HIDE DEF g
<1>3. [g EXCEPT !.state = "RT_NO_WAIT"].state = "RT_NO_WAIT"
  BY <1>2 DEF FopRecord
<1> QED BY <1>2, <1>3 DEF Retransmit, g, h, AdStates, OpenStates

(* fop_e1 takes an initialisation to its end. *)
LEMMA FopE1Timed ==
    ASSUME NEW f, Sound(f)
    PROVE  StillTimed(f, FopE1(f))
<1>1. "ALERT_SYNCH" \in Signals
  BY DEF Signals, Alerts
<1>2. CASE f.state \in {"RT_NO_WAIT", "RT_WAIT"}
  BY <1>1, <1>2, AlertTimed DEF FopE1
<1>3. CASE f.state \in Initialising
  <2> DEFINE h == IF f.state = "INIT_BC" THEN ReleaseCopyOfBc(f) ELSE f
             g == [h EXCEPT !.state = "ACTIVE", !.armed = FALSE, !.signal = "POSITIVE_DIR"]
  <2>1. FopE1(f) = g
    BY <1>3 DEF FopE1, Initialising
  <2>2. "state" \in DOMAIN h
    BY DEF Sound, Fits, FopRecord, ReleaseCopyOfBc
  <2> HIDE DEF h
  <2>3. g.state = "ACTIVE"
    BY <2>2
  <2> QED BY <2>1, <2>3 DEF StillTimed, Initialising
<1>4. CASE f.state \notin {"RT_NO_WAIT", "RT_WAIT"} \cup Initialising
  BY <1>4 DEF FopE1, StillTimed, Initialising
<1> QED BY <1>2, <1>3, <1>4

(* The events that acknowledge, retransmit or wait act in an open state only. *)
LEMMA AckEventsTimed ==
    ASSUME NEW f, Sound(f), NEW nr \in SeqNum
    PROVE  /\ StillTimed(f, FopE2(f, nr))
           /\ StillTimed(f, FopE6(f, nr))
           /\ StillTimed(f, FopE8(f, nr))
           /\ StillTimed(f, FopE9(f, nr))
           /\ StillTimed(f, FopE10(f))
           /\ StillTimed(f, FopE11(f)) /\ StillTimed(f, FopE12(f)) /\ StillTimed(f, FopE103(f))
           /\ StillTimed(f, FopE101(f, nr))
<1>1. CASE f.state \notin AdStates
  <2>1. f.state \notin {"ACTIVE", "RT_NO_WAIT", "RT_WAIT"}
    BY <1>1 DEF AdStates, OpenStates
  <2>2. /\ FopE2(f, nr) = f /\ FopE6(f, nr) = f /\ FopE8(f, nr) = f /\ FopE9(f, nr) = f
        /\ FopE10(f) = f /\ FopE11(f) = f /\ FopE12(f) = f /\ FopE103(f) = f
        /\ FopE101(f, nr) = f
    BY <1>1, <2>1 DEF FopE2, FopE6, FopE8, FopE9, FopE10, FopE11, FopE12, FopE103, FopE101
  <2> QED BY <2>2 DEF StillTimed
<1>2. CASE f.state \in AdStates
  <2> DEFINE g == RemoveAcked(f, nr)
             a == [g EXCEPT !.state = "ACTIVE"]
             c == [g EXCEPT !.armed = FALSE]
             l == LookForFdu(g)
  <2>1. Open(f) /\ f.ss = 0
    BY <1>2, OpenNotSuspended DEF Open
  <2>2. Open(g) /\ g.ss = 0 /\ g.state \in AdStates
    BY <2>1, RemoveAckedOpen, OpenNotSuspended DEF Open
  <2> HIDE DEF g
  <2>3. Open(c) /\ Open(a)
    <3>1. Open(c)
      BY <2>2, TimerSound DEF Open
    <3>2. "ACTIVE" \in AdStates
      BY DEF AdStates, OpenStates
    <3>3. Open(a)
      BY <2>2, <3>2, SetOpen DEF Open
    <3> QED BY <3>1, <3>3
  <2> HIDE DEF a, c
  <2>4. LookForFdu(c).state \in AdStates \cup {"INIT"} /\ LookForFdu(a).state \in AdStates \cup {"INIT"}
    BY <2>3, LookForFduLeaves
  <2>5. l.state \in AdStates \cup {"INIT"} /\ l \in FopRecord
    BY <2>2, LookForFduLeaves DEF Sound, Fits
  <2> HIDE DEF l
  <2>6. /\ [l EXCEPT !.state = "ACTIVE"].state = "ACTIVE"
        /\ [g EXCEPT !.state = "RT_WAIT"].state = "RT_WAIT"
        /\ [f EXCEPT !.state = "RT_WAIT"].state = "RT_WAIT"
        /\ [f EXCEPT !.state = "RT_NO_WAIT"].state = "RT_NO_WAIT"
    BY <2>1, <2>2, <2>5 DEF Open, Sound, Fits, FopRecord
  <2>7. FopE2(f, nr).state \in AdStates \cup {"INIT"}
    BY <1>2, <2>4 DEF FopE2, Cancel, g, c
  <2>8. FopE6(f, nr).state \in AdStates \cup {"INIT"}
    <3>1. FopE6(f, nr) = CASE f.state = "ACTIVE"     -> l
                           [] f.state = "RT_NO_WAIT" -> LookForFdu(a)
                           [] f.state = "RT_WAIT"    -> [l EXCEPT !.state = "ACTIVE"]
                           [] OTHER -> f
      BY DEF FopE6, g, a, l
    <3>2. f.state \in {"ACTIVE", "RT_NO_WAIT", "RT_WAIT"} /\ "ACTIVE" \in AdStates
      BY <1>2 DEF AdStates, OpenStates
    <3> QED BY <2>4, <2>5, <2>6, <3>1, <3>2
  <2>9. FopE8(f, nr).state \in AdStates \cup {"INIT"}
    BY <1>2, <2>2, RetransmitLeaves DEF FopE8, g
  <2>10. FopE10(f).state \in AdStates \cup {"INIT"}
    BY <1>2, <2>1, RetransmitLeaves DEF FopE10
  <2>11. /\ FopE9(f, nr).state = "RT_WAIT" /\ FopE11(f).state = "RT_WAIT"
         /\ FopE12(f).state = "RT_NO_WAIT" /\ FopE103(f).state = "RT_WAIT"
    BY <1>2, <2>6 DEF FopE9, FopE11, FopE12, FopE103, g
  <2>12. FopE101(f, nr).state = "INIT"
    <3>1. "ALERT_LIMIT" \in Signals
      BY DEF Signals, Alerts
    <3> QED BY <1>2, <2>2, <3>1, AlertSound DEF FopE101, g, Open, Sound
  <2>13. {"RT_WAIT", "RT_NO_WAIT"} \subseteq AdStates
    BY DEF AdStates, OpenStates
  <2> QED BY <2>7, <2>8, <2>9, <2>10, <2>11, <2>12, <2>13, OpenNotInitialising DEF StillTimed
<1> QED BY <1>1, <1>2

(* Every control word. *)
LEMMA OnClcwTimed ==
    ASSUME NEW f, Sound(f), NEW c \in Clcw
    PROVE  StillTimed(f, OnClcw(f, c))
<1> DEFINE e == ClcwEvent(f, c)
<1>1. e \in Events /\ c.nr \in SeqNum
  BY ClcwEventKnown DEF Clcw
<1>2. /\ {"ALERT_LIMIT", "ALERT_LOCKOUT", "ALERT_SYNCH", "ALERT_NNR", "ALERT_CLCW"} \subseteq Signals
      /\ "UNDEF_ERROR" \in Signals
  BY DEF Signals, Alerts
<1>3. CASE e \in {"E1", "E2", "E6", "E8", "E9"}
  BY <1>1, <1>3, FopE1Timed, AckEventsTimed DEF OnClcw
<1>4. CASE e \in {"E3", "E4", "E5", "E7"}
  BY <1>2, <1>4, AlertInTimed DEF OnClcw, FopE3, FopE4, FopE5, FopE7
<1>5. CASE e \in {"E13", "E14", "E102"}
  BY <1>2, <1>5, AlertInTimed DEF OnClcw, FopE13, FopE14, FopE102
<1>6. CASE e \in {"E10", "E11", "E12", "E101", "E103"}
  BY <1>1, <1>6, AckEventsTimed DEF OnClcw
<1>7. CASE e = "NO_LIMIT"
  <2>1. Say(f, "UNDEF_ERROR").state = f.state /\ Say(f, "UNDEF_ERROR").armed = f.armed
    BY DEF Say, Sound, Fits, FopRecord
  <2> QED BY <1>7, <2>1 DEF OnClcw, StillTimed
<1> HIDE DEF e
<1> QED BY <1>1, <1>3, <1>4, <1>5, <1>6, <1>7 DEF Events

(* A handled expiry takes the service out of initialisation, or it has sent the      *)
(* control frame again and started the timer.                                        *)
LEMMA OnTimerTimed ==
    ASSUME NEW f, Sound(f)
    PROVE  OnTimer(f).state \in Initialising => OnTimer(f).armed
<1>1. f \in FopRecord /\ f.state \in FopStates /\ "ALERT_T1" \in Signals
  BY DEF Sound, Fits, FopRecord, Signals, Alerts
<1>2. FopE16(f).state \in Initialising => FopE16(f).armed
  <2>1. CASE f.state \in OpenStates
    <3> DEFINE g == InitiateAdRetransmission(f)
    <3>1. Open(g)
      BY <2>1, InitiateAdRetransmissionOpen DEF Open, AdStates
    <3> HIDE DEF g
    <3>2. LookForFdu(g).state \in AdStates \cup {"INIT"}
      BY <3>1, LookForFduLeaves
    <3> QED BY <2>1, <3>2, OpenNotInitialising DEF FopE16, OpenStates, g
  <2>2. CASE f.state = "INIT_NO_BC"
    <3>1. FopE16(f) = Alert(f, "ALERT_T1")
      BY <2>2 DEF FopE16, OpenStates
    <3> QED BY <1>1, <3>1, AlertSound, OpenNotInitialising DEF Sound
  <2>3. CASE f.state = "INIT_BC"
    <3> DEFINE n == (f.txCnt + 1) % CntMod
               g == [f EXCEPT !.tx = <<>>, !.txCnt = n, !.armed = TRUE]
               x == [i \in 1 .. TxCap |-> FrameOf(Head(f.sent))]
    <3>1. RetransmitBc(f) = IF MarksBc /\ Head(f.sent).type = "B"
                            THEN [Alert(g, "UNDEF_ERROR") EXCEPT !.tx = x]
                            ELSE Say(g, "ACCEPT_DIR")
      BY <1>1 DEF RetransmitBc, FopRecord
    <3> HIDE DEF n, x
    <3>2. [Alert(g, "UNDEF_ERROR") EXCEPT !.tx = x].state = "INIT" /\ Say(g, "ACCEPT_DIR").armed
      BY <1>1 DEF Alert, Say, FopRecord
    <3> HIDE DEF g
    <3>3. FopE16(f) = RetransmitBc(f)
      BY <2>3 DEF FopE16, OpenStates
    <3> QED BY <3>1, <3>2, <3>3, OpenNotInitialising
  <2>4. CASE f.state \in {"RT_WAIT", "INIT"}
    BY <2>4 DEF FopE16, OpenStates, Initialising
  <2> QED BY <1>1, <2>1, <2>2, <2>3, <2>4 DEF FopStates, AdStates
<1>3. FopE104(f).state \in Initialising => FopE104(f).armed
  <2>1. [f EXCEPT !.ss = 4, !.state = "INIT"].state = "INIT"
    BY <1>1 DEF FopRecord
  <2> QED BY <1>2, <2>1, OpenNotInitialising DEF FopE104
<1>4. FopE17(f).state = "INIT"
  BY <1>1, AlertSound DEF FopE17, AlertIn, Sound
<1>5. FopE18(f).state = "INIT"
  <2>1. Alert(f, "ALERT_T1").state = "INIT"
    BY <1>1, AlertSound DEF Sound
  <2>2. \A n \in 1 .. 4 : [f EXCEPT !.ss = n, !.state = "INIT"].state = "INIT"
    BY <1>1 DEF FopRecord
  <2>3. f.state \in {"ACTIVE", "RT_NO_WAIT", "RT_WAIT", "INIT_NO_BC", "INIT_BC", "INIT"}
    BY <1>1 DEF FopStates, AdStates, OpenStates
  <2> QED BY <2>1, <2>2, <2>3 DEF FopE18
<1> QED BY <1>2, <1>3, <1>4, <1>5, OpenNotInitialising DEF OnTimer

(* A request finds the service open, or only answers. *)
LEMMA RequestTimed ==
    ASSUME NEW f, Sound(f), NEW sdu \in SDU
    PROVE  StillTimed(f, TransmitAd(f, sdu)) /\ StillTimed(f, TransmitBd(f, sdu))
<1> DEFINE g == [f EXCEPT !.hdr = "AD"]
           b == [f EXCEPT !.hdr = "BD"]
           q == <<sdu>>
           w == [g EXCEPT !.wait = q]
<1>1. /\ g \in FopRecord /\ g.state = f.state /\ g.armed = f.armed
      /\ g.ss = f.ss /\ g.sent = f.sent /\ g.wait = f.wait /\ g.tx = f.tx
  BY DEF Sound, Fits, FopRecord, Codes
<1>2. b \in FopRecord /\ b.state = f.state /\ b.armed = f.armed
  BY DEF Sound, Fits, FopRecord, Codes
<1>3. Sound(g)
  BY <1>1, SettingsSound
<1>4. TransmitAd(f, sdu) = CASE TxFull(g)                   -> Say(g, "REJECT_TX")
                             [] ~TxFull(g) /\ g.wait = <<>> -> FopE19(g, sdu)
                             [] ~TxFull(g) /\ g.wait # <<>> -> Say(g, "REJECT_TX")
  BY DEF TransmitAd, FopE20
<1>5. TransmitBd(f, sdu) = IF TxFull(b) THEN Say(b, "REJECT_TX") ELSE FopE21(b, sdu)
  BY DEF TransmitBd
<1>6. StillTimed(f, TransmitBd(f, sdu))
  <2> HIDE DEF b
  <2>1. /\ Say(b, "REJECT_TX").state = f.state /\ Say(b, "REJECT_TX").armed = f.armed
        /\ FopE21(b, sdu).state = f.state /\ FopE21(b, sdu).armed = f.armed
    BY <1>2 DEF Say, FopE21, FopRecord
  <2> QED BY <1>5, <2>1 DEF StillTimed
<1> HIDE DEF g
<1>7. Say(g, "REJECT_TX").state = f.state /\ Say(g, "REJECT_TX").armed = f.armed
  BY <1>1 DEF Say, FopRecord
<1>8. StillTimed(f, FopE19(g, sdu))
  <2>1. CASE g.state \in OpenStates
    <3>1. q \in Seq(SDU) /\ Len(q) = 1
      OBVIOUS
    <3>2. FopE19(g, sdu) = LookForFdu(w)
      BY <2>1 DEF FopE19, OpenStates
    <3> HIDE DEF q
    <3>3. /\ w \in FopRecord /\ w.state = g.state /\ w.ss = g.ss /\ w.sent = g.sent
          /\ w.wait = q /\ w.tx = g.tx
      BY <1>1, <3>1 DEF FopRecord
    <3> HIDE DEF w
    <3>4. Len(w.wait) <= 1
      BY <3>1, <3>3
    <3>5. Fits(w)
      BY <1>3, <3>3, <3>4 DEF Sound, Fits
    <3>6. Matched(w)
      BY <1>3, <2>1, <3>3 DEF Sound, Matched, AllTypeA, Adjacent, Flagged, AdStates, OpenStates
    <3>7. Open(w)
      BY <2>1, <3>3, <3>5, <3>6 DEF Open, Sound, AdStates
    <3> QED BY <3>2, <3>7, LookForFduLeaves, OpenNotInitialising DEF StillTimed
  <2>2. CASE g.state \notin OpenStates
    <3>1. FopE19(g, sdu) \in {[g EXCEPT !.wait = q, !.signal = "DELAY_RESP"], Say(g, "REJECT_TX")}
      BY <2>2 DEF FopE19
    <3> HIDE DEF q
    <3>2. /\ [g EXCEPT !.wait = q, !.signal = "DELAY_RESP"].state = f.state
          /\ [g EXCEPT !.wait = q, !.signal = "DELAY_RESP"].armed = f.armed
      BY <1>1 DEF FopRecord
    <3> QED BY <1>7, <3>1, <3>2 DEF StillTimed
  <2> QED BY <2>1, <2>2
<1> QED BY <1>4, <1>6, <1>7, <1>8 DEF StillTimed
-----------------------------------------------------------------------------
(* The inductive invariant: Sound, and the timer of an initialisation. *)
Timed == Sound(fop) /\ late \in BOOLEAN /\ InitTimed

(* The directives that start an initialisation start the timer with it. *)
LEMMA DirectiveTimed ==
    ASSUME Timed, Directive PROVE InitTimed'
<1>1. late' = late /\ Sound(fop) /\ fop \in FopRecord
  BY DEF Directive, InitiateNoClcw, InitiateWithClcw, InitiateWithUnlock, InitiateWithSetvr,
         SetNewVs, TerminateAd, ResumeAd, SetSlidingWindow, SetTxLimit, SetTt,
         Timed, Sound, Fits
<1>2. {"POSITIVE_DIR", "REJECT_DIR"} \subseteq Signals
  BY DEF Signals
<1> DEFINE g == InitializeCop(fop)
<1>3. Fits(g) /\ g \in FopRecord /\ g.state = fop.state
  BY <1>1, InitializeCopPurges DEF Fits
<1>4. \A sig : Say(fop, sig).state = fop.state /\ Say(fop, sig).armed = fop.armed
  BY <1>1 DEF Say, FopRecord
<1>5. CASE InitiateNoClcw
  <2> HIDE DEF g
  <2>1. [g EXCEPT !.state = "ACTIVE", !.signal = "POSITIVE_DIR"].state = "ACTIVE"
    BY <1>3 DEF FopRecord
  <2>2. fop'.state = "ACTIVE" \/ (fop'.state = fop.state /\ fop'.armed = fop.armed)
    BY <1>4, <1>5, <2>1 DEF InitiateNoClcw, g
  <2> QED BY <1>1, <2>2 DEF Timed, InitTimed
<1>6. CASE InitiateWithClcw
  <2> HIDE DEF g
  <2>1. [Start(g) EXCEPT !.state = "INIT_NO_BC", !.signal = "ACCEPT_DIR"].armed
    BY <1>3 DEF Start, FopRecord
  <2>2. fop'.armed \/ (fop'.state = fop.state /\ fop'.armed = fop.armed)
    BY <1>4, <1>6, <2>1 DEF InitiateWithClcw, g
  <2> QED BY <1>1, <2>2 DEF Timed, InitTimed
<1>7. ASSUME NEW h \in FopRecord, NEW code, h.state = "INIT",
             fop' = TransmitTypeBc(h, code)
      PROVE  InitTimed'
  <2> DEFINE k == [h EXCEPT !.hdr = code, !.txCnt = 1, !.armed = TRUE]
             it == [type |-> "B", seq |-> h.vs, rt |-> FALSE, code |-> code, sdu |-> NoSDU]
             x == Append(h.tx, FrameOf(it))
             y == Append(h.sent, it)
  <2>1. fop' = IF TxFull(h) THEN Alert(k, "UNDEF_ERROR")
               ELSE [k EXCEPT !.sent = y, !.tx = x, !.state = "INIT_BC", !.signal = "ACCEPT_DIR"]
    BY <1>7 DEF TransmitTypeBc, FopRecord
  <2> HIDE DEF x, y
  <2>2. /\ Alert(k, "UNDEF_ERROR").state = "INIT"
        /\ [k EXCEPT !.sent = y, !.tx = x, !.state = "INIT_BC", !.signal = "ACCEPT_DIR"].armed
    BY <1>7 DEF Alert, FopRecord
  <2> HIDE DEF k
  <2>3. fop'.state = "INIT" \/ fop'.armed
    BY <2>1, <2>2
  <2> QED BY <2>3 DEF InitTimed
<1>8. CASE InitiateWithUnlock
  BY <1>3, <1>7, <1>8 DEF InitiateWithUnlock
<1>9. CASE \E v \in SeqNum : InitiateWithSetvr(v)
  <2>1. PICK v \in SeqNum : InitiateWithSetvr(v)
    BY <1>9
  <2> DEFINE h == [g EXCEPT !.vs = v, !.nnr = v]
  <2>2. fop' = TransmitTypeBc(h, "SETVR") /\ fop.state = "INIT"
    BY <2>1 DEF InitiateWithSetvr
  <2> HIDE DEF g
  <2>3. h \in FopRecord /\ h.state = g.state
    BY <1>3 DEF FopRecord
  <2> HIDE DEF h
  <2> QED BY <1>3, <1>7, <2>2, <2>3
<1>10. CASE TerminateAd
  <2>1. Alert(fop, "POSITIVE_DIR").state = "INIT"
    BY <1>1, <1>2, AlertSound DEF Sound
  <2> QED BY <1>4, <1>10, <2>1 DEF TerminateAd, InitTimed
<1>11. CASE ResumeAd
  <2> DEFINE s == Resumed[fop.ss]
  <2>1. [Start(fop) EXCEPT !.ss = 0, !.state = s, !.signal = "POSITIVE_DIR"].armed
    BY <1>1 DEF Start, FopRecord
  <2> QED BY <1>11, <2>1 DEF ResumeAd, InitTimed
<1>12. CASE \/ \E v \in SeqNum : SetNewVs(v)
            \/ \E w \in Windows : SetSlidingWindow(w)
            \/ \E l \in Limits : SetTxLimit(l)
            \/ \E t \in {0, 1} : SetTt(t)
  <2>1. fop'.state = fop.state /\ fop'.armed = fop.armed
    BY <1>1, <1>12 DEF SetNewVs, SetSlidingWindow, SetTxLimit, SetTt, FopRecord
  <2> QED BY <1>1, <2>1 DEF Timed, InitTimed
<1> QED BY <1>5, <1>6, <1>8, <1>9, <1>10, <1>11, <1>12 DEF Directive

(* Every step keeps the timer of an initialisation, or leaves its expiry to be handled. *)
LEMMA TimedStep ==
    ASSUME Timed, [FopNext]_fopVars PROVE Timed'
<1>1. Sound(fop') /\ late' \in BOOLEAN
  BY SoundStep DEF Timed
<1>2. Sound(fop) /\ fop \in FopRecord
  BY DEF Timed, Sound, Fits
<1>3. ASSUME StillTimed(fop, fop'), late' = late PROVE InitTimed'
  BY <1>3 DEF Timed, InitTimed, StillTimed, Initialising
<1>4. InitTimed'
  <2>1. CASE \E c \in Clcw : HandleClcw(c)
    BY <1>2, <1>3, <2>1, OnClcwTimed DEF HandleClcw
  <2>2. CASE Expire
    BY <2>2 DEF Expire, InitTimed
  <2>3. CASE HandleTimerExpired
    <3>1. fop'.state \in Initialising => fop'.armed
      BY <1>2, <2>3, OnTimerTimed DEF HandleTimerExpired
    <3> QED BY <3>1 DEF InitTimed, Initialising
  <2>4. CASE \E d \in SDU : RequestAd(d) \/ RequestBd(d)
    BY <1>2, <1>3, <2>4, RequestTimed DEF RequestAd, RequestBd
  <2>5. CASE Directive
    BY <2>5, DirectiveTimed
  <2>6. CASE Uplink
    <3> DEFINE q == Tail(fop.tx)
    <3>1. fop' = [fop EXCEPT !.tx = q] /\ late' = late
      BY <1>2, <2>6 DEF Uplink, FopRecord
    <3> HIDE DEF q
    <3>2. fop'.state = fop.state /\ fop'.armed = fop.armed
      BY <1>2, <3>1 DEF FopRecord
    <3> QED BY <1>3, <3>1, <3>2 DEF StillTimed
  <2>7. CASE UNCHANGED fopVars
    BY <2>7 DEF fopVars, Timed, InitTimed
  <2> QED BY <2>1, <2>2, <2>3, <2>4, <2>5, <2>6, <2>7 DEF FopNext
<1> QED BY <1>1, <1>4 DEF Timed

(***************************************************************************)
(* No order of directives, control words and expiries, handled late or     *)
(* not, leaves an initialisation without a timer: its end does not depend  *)
(* on the receiver.                                                        *)
(***************************************************************************)
THEOREM InitialisationsTimed ==
    FopSpec => []InitTimed
<1>1. FopInit => Timed
  <2>1. FopInit => fop.state = "INIT"
    BY DEF FopInit
  <2> QED BY <2>1, SoundInit DEF Timed, InitTimed
<1>2. Timed /\ [FopNext]_fopVars => Timed'
  BY TimedStep
<1>3. Timed => InitTimed
  BY DEF Timed
<1> QED BY <1>1, <1>2, <1>3, PTL DEF FopSpec

-----------------------------------------------------------------------------
(* The distance of two numbers on the circle. *)
LEMMA CircleDistance ==
    ASSUME NEW x \in SeqNum, NEW y \in SeqNum
    PROVE  (x - y) % SeqMod = IF x >= y THEN x - y ELSE x - y + SeqMod
BY SeqModAssumption, SMTT(30) DEF SeqNum

(***************************************************************************)
(* For every modulus and every V(S) and NN(R): the bounds test accepts     *)
(* every number as long as V(S) has not wrapped past NN(R), and then the   *)
(* outstanding ones only, without NN(R) itself.                            *)
(***************************************************************************)
THEOREM BoundsAreExact ==
    FopSpec => []BoundsExact
<1>1. ASSUME Sound(fop), NEW nr \in SeqNum \ {fop.vs}
      PROVE  InBounds(fop, nr) <=>
                 \/ fop.vs >= fop.nnr
                 \/ (nr - fop.nnr) % SeqMod \in 1 .. ((fop.vs - fop.nnr) % SeqMod) - 1
  <2> DEFINE vs == fop.vs
             nnr == fop.nnr
             d == (nr - nnr) % SeqMod
             o == (vs - nnr) % SeqMod
  <2>1. vs \in SeqNum /\ nnr \in SeqNum /\ nr \in SeqNum /\ nr # vs
    BY <1>1 DEF Sound, Fits, FopRecord
  <2>2. /\ d = IF nr >= nnr THEN nr - nnr ELSE nr - nnr + SeqMod
        /\ o = IF vs >= nnr THEN vs - nnr ELSE vs - nnr + SeqMod
    BY <2>1, CircleDistance
  <2>3. InBounds(fop, nr) <=>
            (vs > nr /\ nr >= nnr) \/ (vs < nr /\ nr > nnr) \/ (vs > nr /\ nr < nnr)
    BY DEF InBounds
  <2> HIDE DEF vs, nnr, d, o
  <2>4. InBounds(fop, nr) <=> (vs >= nnr \/ (1 <= d /\ d <= o - 1))
    BY <2>1, <2>2, <2>3, SeqModAssumption DEF SeqNum
  <2>5. d \in Int /\ o \in Int
    BY <2>1, <2>2, SeqModAssumption DEF SeqNum
  <2>6. (1 <= d /\ d <= o - 1) <=> d \in 1 .. o - 1
    BY <2>5
  <2> QED BY <2>4, <2>6 DEF vs, nnr, d, o
<1>2. Sound(fop) => BoundsExact
  BY <1>1 DEF BoundsExact
<1> QED BY <1>2, SoundAlways, PTL

-----------------------------------------------------------------------------
(* SentEndsAtVs: the sent queue is the run of numbers that ends just before V(S). *)

(* A run of numbers, before V(S) as long as the sent queue has room. *)
Numbered(f) ==
    \A i \in 1 .. Len(f.sent) :
        IF i = Len(f.sent) THEN Len(f.sent) < SentCap => Inc(f.sent[i].seq) = f.vs
        ELSE Inc(f.sent[i].seq) = f.sent[i + 1].seq

(* The queue holds the same numbers, whatever their flags. *)
SameNumbers(f, g) ==
    /\ g.vs = f.vs
    /\ Len(g.sent) = Len(f.sent)
    /\ \A i \in 1 .. Len(f.sent) : g.sent[i].seq = f.sent[i].seq

(***************************************************************************)
(* The inductive invariant: only the control frame of an initialisation is *)
(* not numbered before V(S).                                               *)
(***************************************************************************)
Steady(f) == f.state # "INIT_BC" => Numbered(f)

(* Being numbered depends on V(S) and the numbers of the queue only. *)
LEMMA SameNumbered ==
    ASSUME NEW f, NEW g, Fits(f), Numbered(f), SameNumbers(f, g)
    PROVE  Numbered(g)
<1>1. Len(f.sent) \in Nat
  BY DEF Fits, FopRecord
<1> HIDE DEF Inc
<1> QED BY <1>1 DEF Numbered, SameNumbers

(* In particular, a step that leaves both fields alone keeps it. *)
LEMMA FieldsNumbered ==
    ASSUME NEW f, NEW g, Numbered(f), g.sent = f.sent, g.vs = f.vs
    PROVE  Numbered(g)
BY DEF Numbered

(* An empty queue is numbered. *)
LEMMA EmptyNumbered ==
    ASSUME NEW g, g.sent = <<>>
    PROVE  Numbered(g)
<1>1. 1 .. Len(g.sent) = {}
  OBVIOUS
<1> QED BY <1>1 DEF Numbered

(* So is the queue after an alert. *)
LEMMA AlertNumbered ==
    ASSUME NEW f, f \in FopRecord, NEW sig
    PROVE  Numbered(Alert(f, sig)) /\ Steady(Alert(f, sig))
<1>1. Alert(f, sig).sent = <<>>
  BY DEF Alert, FopRecord
<1> QED BY <1>1, EmptyNumbered DEF Steady

(* A service being initialised without control frame, or out of service, is numbered. *)
LEMMA SteadyNumbered ==
    ASSUME NEW f, Sound(f), f.state = "INIT_NO_BC"
    PROVE  f.sent = <<>> /\ Numbered(f)
<1>1. f.sent = <<>>
  BY DEF Sound, Matched
<1> QED BY <1>1, EmptyNumbered

-----------------------------------------------------------------------------
(* Popping the oldest items leaves the end of the run. *)
LEMMA RemoveAckedNumbered ==
    ASSUME NEW f, Open(f), Numbered(f), Len(f.sent) < SentCap, NEW nr \in SeqNum
    PROVE  Numbered(RemoveAcked(f, nr))
<1> DEFINE k == AckedCount(f, nr)
           q == SubSeq(f.sent, k + 1, Len(f.sent))
           g == [f EXCEPT !.sent = q, !.nnr = nr, !.txCnt = 1]
<1>1. CASE k = 0
  BY <1>1 DEF RemoveAcked
<1>2. CASE k # 0
  <2>1. /\ f \in FopRecord /\ f.sent \in Seq(Item) /\ Len(f.sent) \in Nat
        /\ k \in 1 .. Len(f.sent)
    BY <1>2, AckedCountDefined DEF Open, Sound, Fits, FopRecord
  <2> HIDE DEF k
  <2>2. Len(q) = Len(f.sent) - k /\ \A i \in 1 .. Len(f.sent) - k : q[i] = f.sent[k + i]
    <3>1. \A i \in k + 1 .. Len(f.sent) : f.sent[i] \in Item
      BY <2>1
    <3>2. k + 1 \in Int /\ Len(f.sent) \in Int /\ Len(f.sent) - (k + 1) + 1 = Len(f.sent) - k
      BY <2>1
    <3>3. \A i \in 1 .. Len(f.sent) - k : k + 1 + i - 1 = k + i
      BY <2>1
    <3>4. /\ Len(q) = IF k + 1 <= Len(f.sent) THEN Len(f.sent) - (k + 1) + 1 ELSE 0
          /\ \A i \in 1 .. Len(f.sent) - (k + 1) + 1 : q[i] = f.sent[k + 1 + i - 1]
      BY <3>1, <3>2, SubSeqProperties
    <3> QED BY <2>1, <3>2, <3>3, <3>4
  <2> HIDE DEF q
  <2>3. g.sent = q /\ g.vs = f.vs
    BY <2>1 DEF FopRecord
  <2> HIDE DEF g
  <2>4. ASSUME NEW i \in 1 .. Len(q)
        PROVE  Inc(q[i].seq) = IF i = Len(q) THEN f.vs ELSE q[i + 1].seq
    <3>1. k + i \in 1 .. Len(f.sent) /\ i \in Int /\ k \in Int
      BY <2>1, <2>2
    <3>2. q[i] = f.sent[k + i]
      BY <2>2
    <3>3. Inc(f.sent[k + i].seq) = IF k + i = Len(f.sent) THEN f.vs ELSE f.sent[k + i + 1].seq
      BY <3>1 DEF Numbered
    <3>4. k + i = Len(f.sent) <=> i = Len(q)
      BY <2>1, <2>2, <3>1
    <3>5. ASSUME i # Len(q) PROVE q[i + 1] = f.sent[k + i + 1]
      <4>1. i + 1 \in 1 .. Len(f.sent) - k /\ k + (i + 1) = k + i + 1
        BY <2>1, <2>2, <3>1, <3>5
      <4> QED BY <2>2, <4>1
    <3> QED BY <3>2, <3>3, <3>4, <3>5
  <2>5. Numbered(g)
    BY <2>3, <2>4 DEF Numbered
  <2>6. RemoveAcked(f, nr) = g
    BY <1>2 DEF RemoveAcked, k, q, g
  <2> QED BY <2>5, <2>6
<1> QED BY <1>1, <1>2

(* osdlp_initiate_ad_retransmission changes flags only. *)
LEMMA InitiateAdRetransmissionNumbers ==
    ASSUME NEW f, Open(f)
    PROVE  SameNumbers(f, InitiateAdRetransmission(f))
<1> DEFINE q == [i \in DOMAIN f.sent |->
                   IF f.sent[i].type = "A" THEN [f.sent[i] EXCEPT !.rt = TRUE] ELSE f.sent[i]]
           n == (f.txCnt + 1) % CntMod
           g == [f EXCEPT !.tx = <<>>, !.txCnt = n, !.armed = TRUE, !.sent = q]
<1>1. /\ f \in FopRecord /\ f.sent \in Seq(Item)
      /\ DOMAIN f.sent = 1 .. Len(f.sent) /\ Len(f.sent) \in Nat
  BY DEF Open, Sound, Fits, FopRecord
<1>2. \A i \in 1 .. Len(f.sent) : f.sent[i] \in Item
  BY <1>1
<1>3. \A it \in Item : [it EXCEPT !.rt = TRUE] \in Item /\ [it EXCEPT !.rt = TRUE].seq = it.seq
  BY DEF Item
<1>4. Len(q) = Len(f.sent) /\ \A i \in 1 .. Len(f.sent) : q[i].seq = f.sent[i].seq
  <2>1. \A i \in 1 .. Len(f.sent) : q[i].seq = f.sent[i].seq /\ q[i] \in Item
    BY <1>1, <1>2, <1>3
  <2>2. q = [i \in 1 .. Len(f.sent) |-> q[i]]
    BY <1>1
  <2> HIDE DEF q
  <2>3. q \in [1 .. Len(f.sent) -> Item]
    BY <2>1, <2>2
  <2> QED BY <1>1, <2>1, <2>3
<1>5. InitiateAdRetransmission(f) = g
  BY <1>1 DEF InitiateAdRetransmission, FopRecord
<1> HIDE DEF q, n
<1>6. g.sent = q /\ g.vs = f.vs
  BY <1>1 DEF FopRecord
<1> QED BY <1>4, <1>5, <1>6 DEF SameNumbers

(* Retransmission keeps the numbers, or has purged the queue. *)
LEMMA ResendNumbered ==
    ASSUME NEW f, Open(f), Numbered(f)
    PROVE  Numbered(Resend(f))
<1>1. f \in FopRecord /\ Fits(f)
  BY DEF Open, Sound, Fits
<1>2. CASE Flagged(f) = {}
  BY <1>2 DEF Resend
<1>3. CASE Flagged(f) # {} /\ RunEnd(f) - RunStart(f) + 1 <= TxCap - Len(f.tx)
  <2> DEFINE a == RunStart(f)
             b == RunEnd(f)
             x == f.tx \o Frames(SubSeq(f.sent, a, b))
             q == [i \in DOMAIN f.sent |->
                     IF i \in a .. b THEN [f.sent[i] EXCEPT !.rt = FALSE] ELSE f.sent[i]]
             s == IF f.sent[b].code = "AD" THEN f.signal ELSE "ACCEPT_TX"
             g == [f EXCEPT !.tx = x, !.sent = q, !.signal = s]
  <2>1. /\ f.sent \in Seq(Item) /\ DOMAIN f.sent = 1 .. Len(f.sent) /\ Len(f.sent) \in Nat
        /\ \A i \in 1 .. Len(f.sent) : f.sent[i] \in Item
    BY <1>1 DEF FopRecord
  <2>2. \A it \in Item : [it EXCEPT !.rt = FALSE] \in Item /\ [it EXCEPT !.rt = FALSE].seq = it.seq
    BY DEF Item
  <2>3. Resend(f) = g
    BY <1>3 DEF Resend
  <2> HIDE DEF a, b, x, s
  <2>4. Len(q) = Len(f.sent) /\ \A i \in 1 .. Len(f.sent) : q[i].seq = f.sent[i].seq
    <3>1. \A i \in 1 .. Len(f.sent) : q[i].seq = f.sent[i].seq /\ q[i] \in Item
      BY <2>1, <2>2
    <3>2. q = [i \in 1 .. Len(f.sent) |-> q[i]]
      BY <2>1
    <3> HIDE DEF q
    <3>3. q \in [1 .. Len(f.sent) -> Item]
      BY <3>1, <3>2
    <3> QED BY <2>1, <3>1, <3>3
  <2> HIDE DEF q
  <2>5. g.sent = q /\ g.vs = f.vs
    BY <1>1 DEF FopRecord
  <2> HIDE DEF g
  <2> QED BY <1>1, <2>3, <2>4, <2>5, SameNumbered DEF SameNumbers
<1>4. CASE Flagged(f) # {} /\ ~ (RunEnd(f) - RunStart(f) + 1 <= TxCap - Len(f.tx))
  <2> DEFINE h == Alert(f, "UNDEF_ERROR")
             x == h.tx \o Frames(SubSeq(f.sent, RunStart(f), RunStart(f) + (TxCap - Len(f.tx)) - 1))
             g == [h EXCEPT !.tx = x]
  <2>1. Resend(f) = g
    BY <1>4 DEF Resend
  <2>2. h.sent = <<>> /\ h \in FopRecord
    <3>1. h.sent = <<>>
      BY <1>1 DEF Alert, FopRecord
    <3>2. Sound(h)
      BY <1>1, AlertSound DEF Signals, Alerts
    <3> QED BY <3>1, <3>2 DEF Sound, Fits
  <2> HIDE DEF h, x
  <2>3. g.sent = <<>>
    BY <2>2 DEF FopRecord
  <2> QED BY <2>1, <2>3, EmptyNumbered
<1> QED BY <1>2, <1>3, <1>4

(* osdlp_transmit_type_ad adds the number V(S) held and counts V(S) up; without  *)
(* room it counts V(S) up all the same, but the sent queue is full then.         *)
LEMMA TransmitTypeAdNumbered ==
    ASSUME NEW f, Open(f), Numbered(f), f.wait # <<>>
    PROVE  Numbered(TransmitTypeAd(f))
<1> DEFINE it == [type |-> "A", seq |-> f.vs, rt |-> FALSE, code |-> f.hdr, sdu |-> Head(f.wait)]
           n  == IF f.sent = <<>> THEN 1 ELSE f.txCnt
           v  == Inc(f.vs)
           g  == [f EXCEPT !.wait = <<>>, !.vs = Inc(@), !.armed = TRUE, !.txCnt = n]
           q  == Append(f.sent, it)
           h  == [g EXCEPT !.sent = Append(@, it), !.tx = Append(@, FrameOf(it))]
           r  == IF f.hdr = "AD" /\ f.state \in OpenStates THEN Resend(h) ELSE h
<1>1. /\ f \in FopRecord /\ f.vs \in SeqNum /\ f.hdr \in Codes /\ f.wait \in Seq(SDU)
      /\ n \in 0 .. CntMod - 1 /\ f.sent \in Seq(Item)
      /\ Len(f.sent) <= SentCap /\ Len(f.tx) <= TxCap /\ Len(f.sent) \in Nat /\ Len(f.tx) \in Nat
  BY SeqNumFacts, SMTT(30) DEF Open, Sound, Fits, FopRecord
<1>2. it \in Item /\ it.type = "A" /\ it.rt = FALSE /\ it.seq = f.vs
  <2>1. Head(f.wait) \in SDU
    BY <1>1, HeadTailProperties
  <2> QED BY <1>1, <2>1 DEF Item
<1>3. TransmitTypeAd(f) = CASE Len(f.sent) = SentCap -> Say(g, "UNDEF_ERROR")
                            [] Len(f.sent) < SentCap /\ TxFull(f) -> Alert(g, "UNDEF_ERROR")
                            [] OTHER -> Say(r, "ACCEPT_TX")
  BY DEF TransmitTypeAd
<1>4. /\ q \in Seq(Item) /\ Len(q) = Len(f.sent) + 1
      /\ \A i \in 1 .. Len(f.sent) : q[i] = f.sent[i]
      /\ q[Len(f.sent) + 1] = it
  BY <1>1, <1>2, AppendProperties
<1> HIDE DEF n, it
<1>5. /\ Open(g) /\ g.state = f.state /\ g.ss = f.ss /\ g.sent = f.sent
      /\ g.tx = f.tx /\ g.wait = <<>>
  BY <1>1, DequeuedOpen
<1>6. g.vs = v
  BY <1>1 DEF FopRecord
<1>7. g \in FopRecord
  BY <1>5 DEF Open, Sound, Fits
<1> HIDE DEF g, v
<1>8. CASE Len(f.sent) = SentCap
  <2>1. TransmitTypeAd(f) = Say(g, "UNDEF_ERROR")
    BY <1>1, <1>3, <1>8, SentCapAssumption
  <2>2. Say(g, "UNDEF_ERROR").sent = f.sent
    BY <1>5, <1>7 DEF Say, FopRecord
  <2>3. ~ (Len(f.sent) < SentCap)
    BY <1>8, SentCapAssumption
  <2> HIDE DEF Inc
  <2> QED BY <2>1, <2>2, <2>3 DEF Numbered
<1>9. CASE Len(f.sent) < SentCap /\ TxFull(f)
  <2>1. TransmitTypeAd(f) = Alert(g, "UNDEF_ERROR")
    BY <1>1, <1>3, <1>9, SentCapAssumption
  <2> QED BY <1>7, <2>1, AlertNumbered
<1>10. CASE Len(f.sent) < SentCap /\ ~ TxFull(f)
  <2>1. TransmitTypeAd(f) = Say(r, "ACCEPT_TX")
    BY <1>1, <1>3, <1>10, SentCapAssumption
  <2>2. Len(f.tx) < TxCap
    BY <1>1, <1>10, TxCapAssumption DEF TxFull
  <2>3. Open(h)
    BY <1>2, <1>5, <1>10, <2>2, EnqueuedOpen
  <2>4. h.sent = q /\ h.vs = v
    <3> DEFINE x == Append(g.tx, FrameOf(it))
    <3>1. h = [g EXCEPT !.sent = q, !.tx = x]
      BY <1>5, <1>7 DEF FopRecord
    <3> HIDE DEF h, q, x
    <3> QED BY <1>6, <1>7, <3>1 DEF FopRecord
  <2> HIDE DEF h, q
  <2>5. Numbered(h)
    <3>1. ASSUME NEW i \in 1 .. Len(q)
          PROVE  Inc(q[i].seq) = IF i = Len(q) THEN v ELSE q[i + 1].seq
      <4>1. CASE i = Len(f.sent) + 1
        BY <1>2, <1>4, <4>1 DEF v
      <4>2. CASE i # Len(f.sent) + 1
        <5>1. i \in 1 .. Len(f.sent) /\ i + 1 \in 1 .. Len(f.sent) + 1 /\ i # Len(q) /\ i \in Int
          BY <1>1, <1>4, <4>2
        <5>2. Inc(f.sent[i].seq) = IF i = Len(f.sent) THEN f.vs ELSE f.sent[i + 1].seq
          BY <1>10, <5>1 DEF Numbered
        <5>3. CASE i = Len(f.sent)
          BY <1>2, <1>4, <5>1, <5>2, <5>3
        <5>4. CASE i # Len(f.sent)
          <6>1. i + 1 \in 1 .. Len(f.sent)
            BY <1>1, <5>1, <5>4
          <6> QED BY <1>4, <5>1, <5>2, <5>4, <6>1
        <5> QED BY <5>3, <5>4
      <4> QED BY <4>1, <4>2
    <3> QED BY <2>4, <3>1 DEF Numbered
  <2>6. Numbered(r) /\ r \in FopRecord
    <3>1. Numbered(Resend(h)) /\ Resend(h) \in FopRecord /\ h \in FopRecord
      BY <2>3, <2>5, ResendNumbered, ResendSound DEF OpenOrPurged, Open, Sound, Fits
    <3> QED BY <2>5, <3>1
  <2> HIDE DEF r
  <2>7. Say(r, "ACCEPT_TX").sent = r.sent /\ Say(r, "ACCEPT_TX").vs = r.vs
    BY <2>6 DEF Say, FopRecord
  <2> QED BY <2>1, <2>6, <2>7, FieldsNumbered
<1> QED BY <1>1, <1>8, <1>9, <1>10, SentCapAssumption

(* osdlp_look_for_fdu, the whole of it. *)
LEMMA LookForFduNumbered ==
    ASSUME NEW f, Open(f), Numbered(f)
    PROVE  Numbered(LookForFdu(f)) /\ Steady(LookForFdu(f))
<1> DEFINE g == Resend(f)
<1>1. OpenOrPurged(f, g) /\ Numbered(g)
  BY ResendSound, ResendNumbered
<1> HIDE DEF g
<1>2. CASE g.wait = <<>>
  BY <1>1, <1>2 DEF LookForFdu, Steady, g
<1>3. CASE g.wait # <<>>
  <2>1. Open(g)
    BY <1>1, <1>3 DEF OpenOrPurged, Open
  <2>2. Numbered(TransmitTypeAd(g))
    BY <1>1, <1>3, <2>1, TransmitTypeAdNumbered
  <2>3. Say(g, "DELAY_RESP").sent = g.sent /\ Say(g, "DELAY_RESP").vs = g.vs
    BY <2>1 DEF Say, Open, Sound, Fits, FopRecord
  <2>4. Numbered(Say(g, "DELAY_RESP"))
    BY <1>1, <2>3, FieldsNumbered
  <2> QED BY <1>3, <2>2, <2>4 DEF LookForFdu, Steady, g
<1> QED BY <1>2, <1>3
-----------------------------------------------------------------------------
(* The events of a control word. *)

(* Another state alone changes no number. *)
LEMMA RestatedNumbered ==
    ASSUME NEW f, f \in FopRecord, Numbered(f), NEW s
    PROVE  Numbered([f EXCEPT !.state = s])
<1>1. [f EXCEPT !.state = s].sent = f.sent /\ [f EXCEPT !.state = s].vs = f.vs
  BY DEF FopRecord
<1> QED BY <1>1, FieldsNumbered

(* Retransmission on a control word. *)
LEMMA RetransmitNumbered ==
    ASSUME NEW f, Open(f), Numbered(f)
    PROVE  Numbered(Retransmit(f))
<1> DEFINE h == InitiateAdRetransmission(f)
           g == LookForFdu(h)
<1>1. Open(h) /\ Numbered(h)
  BY InitiateAdRetransmissionOpen, InitiateAdRetransmissionNumbers, SameNumbered DEF Open, Sound
<1> HIDE DEF h
<1>2. Numbered(g) /\ g \in FopRecord
  BY <1>1, LookForFduNumbered, LookForFduSound DEF Continues, Sound, Fits
<1> HIDE DEF g
<1>3. Numbered([g EXCEPT !.state = "RT_NO_WAIT"])
  BY <1>2, RestatedNumbered
<1> QED BY <1>2, <1>3 DEF Retransmit, g, h

(* fop_e1 releases the control frame: the service starts with an empty queue. *)
LEMMA FopE1Steady ==
    ASSUME NEW f, Sound(f), Steady(f)
    PROVE  Steady(FopE1(f))
<1>1. f \in FopRecord
  BY DEF Sound, Fits
<1>2. CASE f.state \in {"RT_NO_WAIT", "RT_WAIT"}
  BY <1>1, <1>2, AlertNumbered DEF FopE1
<1>3. CASE f.state \in {"INIT_NO_BC", "INIT_BC"}
  <2> DEFINE h == IF f.state = "INIT_BC" THEN ReleaseCopyOfBc(f) ELSE f
             g == [h EXCEPT !.state = "ACTIVE", !.armed = FALSE, !.signal = "POSITIVE_DIR"]
  <2>1. FopE1(f) = g
    BY <1>3 DEF FopE1
  <2>2. h.sent = <<>> /\ h \in FopRecord
    <3>1. CASE f.state = "INIT_NO_BC"
      BY <1>1, <3>1, SteadyNumbered
    <3>2. CASE f.state = "INIT_BC"
      <4>1. f.sent \in Seq(Item) /\ Len(f.sent) = 1 /\ f.sent[1].type = "B"
        BY <1>1, <3>2 DEF Sound, Matched, FopRecord
      <4>2. f.sent # <<>> /\ Tail(f.sent) \in Seq(Item) /\ Len(Tail(f.sent)) = 0
        BY <4>1, HeadTailProperties
      <4>3. Tail(f.sent) = <<>> /\ Head(f.sent) = f.sent[1] /\ <<>> \in Seq(Item)
        <5>1. Tail(f.sent) = <<>>
          BY <4>2, EmptySeq
        <5>2. Head(f.sent) = f.sent[1]
          BY <4>1, <4>2
        <5> QED BY <4>2, <5>1, <5>2
      <4>4. h = [f EXCEPT !.sent = <<>>]
        BY <1>1, <3>2, <4>1, <4>3 DEF ReleaseCopyOfBc, FopRecord
      <4> HIDE DEF h
      <4> QED BY <1>1, <4>3, <4>4 DEF FopRecord
    <3> QED BY <1>3, <3>1, <3>2
  <2> HIDE DEF h
  <2>3. g.sent = <<>>
    BY <2>2 DEF FopRecord
  <2> HIDE DEF g
  <2> QED BY <2>1, <2>3, EmptyNumbered DEF Steady
<1>4. CASE f.state \notin {"RT_NO_WAIT", "RT_WAIT", "INIT_NO_BC", "INIT_BC"}
  BY <1>4 DEF FopE1
<1> QED BY <1>2, <1>3, <1>4

(* The events that acknowledge act in an open state, with room in the sent queue. *)
LEMMA AckEventsSteady ==
    ASSUME NEW f, Sound(f), Steady(f), NEW nr \in SeqNum,
           f.state \in AdStates => Len(f.sent) < SentCap
    PROVE  /\ Steady(FopE2(f, nr)) /\ Steady(FopE6(f, nr)) /\ Steady(FopE8(f, nr))
           /\ Steady(FopE9(f, nr)) /\ Steady(FopE101(f, nr))
<1>1. CASE f.state \notin AdStates
  <2>1. f.state \notin {"ACTIVE", "RT_NO_WAIT", "RT_WAIT"}
    BY <1>1 DEF AdStates, OpenStates
  <2> QED BY <1>1, <2>1 DEF FopE2, FopE6, FopE8, FopE9, FopE101
<1>2. CASE f.state \in AdStates
  <2> DEFINE g == RemoveAcked(f, nr)
             a == [g EXCEPT !.state = "ACTIVE"]
             c == [g EXCEPT !.armed = FALSE]
             l == LookForFdu(g)
  <2>1. Open(f) /\ Numbered(f)
    BY <1>2 DEF Open, Steady, AdStates, OpenStates
  <2>2. Open(g) /\ g.ss = 0 /\ g.state \in AdStates /\ Numbered(g) /\ g \in FopRecord
    BY <1>2, <2>1, RemoveAckedOpen, RemoveAckedNumbered, OpenNotSuspended DEF Open, Sound, Fits
  <2> HIDE DEF g
  <2>3. Open(c) /\ Numbered(c)
    <3>1. Open(c)
      BY <2>2, TimerSound DEF Open
    <3>2. c.sent = g.sent /\ c.vs = g.vs
      BY <2>2 DEF FopRecord
    <3> QED BY <2>2, <3>1, <3>2, FieldsNumbered
  <2>4. Open(a) /\ Numbered(a)
    <3>1. "ACTIVE" \in AdStates
      BY DEF AdStates, OpenStates
    <3>2. Open(a)
      BY <2>2, <3>1, SetOpen DEF Open
    <3> QED BY <2>2, <3>2, RestatedNumbered
  <2> HIDE DEF a, c
  <2>5. Numbered(l) /\ l \in FopRecord
    BY <2>2, LookForFduNumbered, LookForFduSound DEF Continues, Sound, Fits
  <2> HIDE DEF l
  <2>6. Numbered([l EXCEPT !.state = "ACTIVE"]) /\ Numbered([g EXCEPT !.state = "RT_WAIT"])
    BY <2>2, <2>5, RestatedNumbered
  <2>7. Numbered(FopE2(f, nr))
    BY <1>2, <2>3, LookForFduNumbered DEF FopE2, Cancel, g, c
  <2>8. Numbered(FopE6(f, nr))
    <3>1. FopE6(f, nr) = CASE f.state = "ACTIVE"     -> l
                           [] f.state = "RT_NO_WAIT" -> LookForFdu(a)
                           [] f.state = "RT_WAIT"    -> [l EXCEPT !.state = "ACTIVE"]
                           [] OTHER -> f
      BY DEF FopE6, g, a, l
    <3>2. f.state \in {"ACTIVE", "RT_NO_WAIT", "RT_WAIT"} /\ Numbered(LookForFdu(a))
      BY <1>2, <2>4, LookForFduNumbered DEF AdStates, OpenStates
    <3> QED BY <2>5, <2>6, <3>1, <3>2
  <2>9. Numbered(FopE8(f, nr)) /\ Numbered(FopE9(f, nr))
    BY <1>2, <2>2, <2>6, RetransmitNumbered DEF FopE8, FopE9, g
  <2>10. Numbered(FopE101(f, nr))
    BY <1>2, <2>2, AlertNumbered DEF FopE101, g
  <2> QED BY <2>7, <2>8, <2>9, <2>10 DEF Steady
<1> QED BY <1>1, <1>2

(* The other events of an open state. *)
LEMMA StateEventsSteady ==
    ASSUME NEW f, Sound(f), Steady(f)
    PROVE  /\ Steady(FopE10(f)) /\ Steady(FopE11(f)) /\ Steady(FopE12(f))
           /\ Steady(FopE103(f))
<1>1. CASE f.state \notin AdStates
  <2>1. f.state \notin {"ACTIVE", "RT_WAIT"}
    BY <1>1 DEF AdStates, OpenStates
  <2> QED BY <1>1, <2>1 DEF FopE10, FopE11, FopE12, FopE103
<1>2. CASE f.state \in AdStates
  <2>1. Open(f) /\ Numbered(f) /\ f \in FopRecord
    BY <1>2 DEF Open, Steady, AdStates, OpenStates, Sound, Fits
  <2>2. /\ Numbered([f EXCEPT !.state = "RT_WAIT"])
        /\ Numbered([f EXCEPT !.state = "RT_NO_WAIT"])
        /\ Numbered(Retransmit(f))
    BY <2>1, RestatedNumbered, RetransmitNumbered
  <2> QED BY <1>2, <2>1, <2>2 DEF FopE10, FopE11, FopE12, FopE103, Steady
<1> QED BY <1>1, <1>2

(* So are the alerts and the signal alone. *)
LEMMA AlertInSteady ==
    ASSUME NEW f, Sound(f), Steady(f), NEW states, NEW sig
    PROVE  Steady(AlertIn(f, states, sig)) /\ Steady(Say(f, sig))
<1>1. f \in FopRecord
  BY DEF Sound, Fits
<1>2. /\ Say(f, sig).sent = f.sent /\ Say(f, sig).vs = f.vs /\ Say(f, sig).state = f.state
  BY <1>1 DEF Say, FopRecord
<1>3. Steady(Say(f, sig))
  BY <1>2, FieldsNumbered DEF Steady
<1> QED BY <1>1, <1>3, AlertNumbered DEF AlertIn

(* Every control word the program survives. *)
LEMMA OnClcwSteady ==
    ASSUME NEW f, Sound(f), Steady(f), NEW c \in Clcw,
           ReadsSentHead(f, c) => Len(f.sent) < SentCap
    PROVE  Steady(OnClcw(f, c))
<1> DEFINE e == ClcwEvent(f, c)
<1>1. e \in Events /\ c.nr \in SeqNum
  BY ClcwEventKnown DEF Clcw
<1>2. CASE e = "E1"
  BY <1>2, FopE1Steady DEF OnClcw
<1>3. CASE e \in {"E2", "E6", "E8", "E9", "E101"}
  <2>1. f.state \in AdStates => Len(f.sent) < SentCap
    BY <1>3 DEF ReadsSentHead
  <2> QED BY <1>1, <1>3, <2>1, AckEventsSteady DEF OnClcw
<1>4. CASE e \in {"E3", "E4", "E5", "E7"}
  BY <1>4, AlertInSteady DEF OnClcw, FopE3, FopE4, FopE5, FopE7
<1>5. CASE e \in {"E13", "E14", "E102", "NO_LIMIT"}
  BY <1>5, AlertInSteady DEF OnClcw, FopE13, FopE14, FopE102
<1>6. CASE e \in {"E10", "E11", "E12", "E103"}
  BY <1>6, StateEventsSteady DEF OnClcw
<1> HIDE DEF e
<1> QED BY <1>1, <1>2, <1>3, <1>4, <1>5, <1>6 DEF Events

-----------------------------------------------------------------------------
(* Expiries, requests and directives. *)

(* An expiry retransmits, gives up or suspends with the queue as it is. *)
LEMMA OnTimerSteady ==
    ASSUME NEW f, Sound(f), Steady(f)
    PROVE  Steady(OnTimer(f))
<1>1. f \in FopRecord /\ f.state \in FopStates
  BY DEF Sound, Fits, FopRecord
<1>2. \A n : /\ [f EXCEPT !.ss = n, !.state = "INIT"].sent = f.sent
             /\ [f EXCEPT !.ss = n, !.state = "INIT"].vs = f.vs
  BY <1>1 DEF FopRecord
<1>3. f.state # "INIT_BC" => \A n : Steady([f EXCEPT !.ss = n, !.state = "INIT"])
  BY <1>2, FieldsNumbered DEF Steady
<1>4. Steady(Alert(f, "ALERT_T1"))
  BY <1>1, AlertNumbered
<1>5. Steady(FopE16(f))
  <2>1. CASE f.state \in OpenStates
    <3> DEFINE h == InitiateAdRetransmission(f)
    <3>1. Open(f) /\ Numbered(f)
      BY <2>1 DEF Open, Steady, AdStates, OpenStates
    <3>2. Open(h) /\ Numbered(h)
      BY <3>1, InitiateAdRetransmissionOpen, InitiateAdRetransmissionNumbers, SameNumbered
         DEF Open, Sound
    <3> HIDE DEF h
    <3>3. Steady(LookForFdu(h))
      BY <3>2, LookForFduNumbered
    <3> QED BY <2>1, <3>3 DEF FopE16, OpenStates, h
  <2>2. CASE f.state = "INIT_NO_BC"
    BY <1>4, <2>2 DEF FopE16, OpenStates
  <2>3. CASE f.state = "INIT_BC"
    <3> DEFINE n == (f.txCnt + 1) % CntMod
               g == [f EXCEPT !.tx = <<>>, !.txCnt = n, !.armed = TRUE]
               x == [i \in 1 .. TxCap |-> FrameOf(Head(f.sent))]
    <3>1. RetransmitBc(f) = IF MarksBc /\ Head(f.sent).type = "B"
                            THEN [Alert(g, "UNDEF_ERROR") EXCEPT !.tx = x]
                            ELSE Say(g, "ACCEPT_DIR")
      BY <1>1 DEF RetransmitBc, FopRecord
    <3> HIDE DEF n, x
    <3>2. /\ [Alert(g, "UNDEF_ERROR") EXCEPT !.tx = x].sent = <<>>
          /\ Say(g, "ACCEPT_DIR").state = "INIT_BC"
      BY <1>1, <2>3 DEF Alert, Say, FopRecord
    <3> HIDE DEF g
    <3>3. Steady([Alert(g, "UNDEF_ERROR") EXCEPT !.tx = x]) /\ Steady(Say(g, "ACCEPT_DIR"))
      BY <3>2, EmptyNumbered DEF Steady
    <3>4. FopE16(f) = RetransmitBc(f)
      BY <2>3 DEF FopE16, OpenStates
    <3> QED BY <3>1, <3>3, <3>4
  <2>4. CASE f.state \in {"RT_WAIT", "INIT"}
    BY <2>4 DEF FopE16, OpenStates
  <2> QED BY <1>1, <2>1, <2>2, <2>3, <2>4 DEF FopStates, AdStates
<1>6. Steady(FopE104(f))
  BY <1>3, <1>5 DEF FopE104
<1>7. Steady(FopE17(f))
  BY AlertInSteady DEF FopE17
<1>8. Steady(FopE18(f))
  <2>1. f.state \in {"ACTIVE", "RT_NO_WAIT", "RT_WAIT", "INIT_NO_BC", "INIT_BC", "INIT"}
    BY <1>1 DEF FopStates, AdStates, OpenStates
  <2>2. FopE18(f) = CASE f.state = "ACTIVE"     -> [f EXCEPT !.ss = 1, !.state = "INIT"]
                      [] f.state = "RT_NO_WAIT" -> [f EXCEPT !.ss = 2, !.state = "INIT"]
                      [] f.state = "RT_WAIT"    -> [f EXCEPT !.ss = 3, !.state = "INIT"]
                      [] f.state = "INIT_NO_BC" -> [f EXCEPT !.ss = 4, !.state = "INIT"]
                      [] f.state = "INIT_BC"    -> Alert(f, "ALERT_T1")
                      [] f.state = "INIT"       -> f
    BY DEF FopE18
  <2>3. CASE f.state \in {"ACTIVE", "RT_NO_WAIT", "RT_WAIT", "INIT_NO_BC"}
    <3>1. \E n : FopE18(f) = [f EXCEPT !.ss = n, !.state = "INIT"]
      BY <2>2, <2>3
    <3> QED BY <1>3, <2>3, <3>1
  <2>4. CASE f.state \in {"INIT_BC", "INIT"}
    BY <1>4, <2>2, <2>4
  <2> QED BY <2>1, <2>3, <2>4
<1> QED BY <1>5, <1>6, <1>7, <1>8 DEF OnTimer

(* A request waits, is refused, or goes out by osdlp_look_for_fdu. *)
LEMMA RequestSteady ==
    ASSUME NEW f, Sound(f), Steady(f), NEW sdu \in SDU
    PROVE  Steady(TransmitAd(f, sdu)) /\ Steady(TransmitBd(f, sdu))
<1> DEFINE g == [f EXCEPT !.hdr = "AD"]
           b == [f EXCEPT !.hdr = "BD"]
           q == <<sdu>>
           w == [g EXCEPT !.wait = q]
           d == [g EXCEPT !.wait = q, !.signal = "DELAY_RESP"]
<1>1. /\ g \in FopRecord /\ g.state = f.state /\ g.vs = f.vs
      /\ g.ss = f.ss /\ g.sent = f.sent /\ g.wait = f.wait /\ g.tx = f.tx
  BY DEF Sound, Fits, FopRecord, Codes
<1>2. b \in FopRecord /\ b.state = f.state /\ b.vs = f.vs /\ b.sent = f.sent
  BY DEF Sound, Fits, FopRecord, Codes
<1>3. Sound(g) /\ Steady(g)
  <2> HIDE DEF g
  <2>1. Sound(g)
    BY <1>1, SettingsSound
  <2>2. Steady(g)
    BY <1>1, FieldsNumbered DEF Steady
  <2> QED BY <2>1, <2>2
<1>4. TransmitAd(f, sdu) = CASE TxFull(g)                   -> Say(g, "REJECT_TX")
                             [] ~TxFull(g) /\ g.wait = <<>> -> FopE19(g, sdu)
                             [] ~TxFull(g) /\ g.wait # <<>> -> Say(g, "REJECT_TX")
  BY DEF TransmitAd, FopE20
<1>5. TransmitBd(f, sdu) = IF TxFull(b) THEN Say(b, "REJECT_TX") ELSE FopE21(b, sdu)
  BY DEF TransmitBd
<1>6. Steady(TransmitBd(f, sdu))
  <2> HIDE DEF b
  <2>1. /\ Say(b, "REJECT_TX").state = f.state /\ Say(b, "REJECT_TX").sent = f.sent
        /\ Say(b, "REJECT_TX").vs = f.vs
    BY <1>2 DEF Say, FopRecord
  <2> DEFINE x == Append(b.tx, [code |-> "BD", num |-> 0, sdu |-> sdu])
  <2>2. FopE21(b, sdu) = [b EXCEPT !.tx = x, !.signal = "ACCEPT_TX"]
    BY <1>2 DEF FopE21, FopRecord
  <2> HIDE DEF x
  <2>3. /\ FopE21(b, sdu).state = f.state /\ FopE21(b, sdu).sent = f.sent
        /\ FopE21(b, sdu).vs = f.vs
    BY <1>2, <2>2 DEF FopRecord
  <2>4. Steady(Say(b, "REJECT_TX")) /\ Steady(FopE21(b, sdu))
    BY <2>1, <2>3, FieldsNumbered DEF Steady
  <2> QED BY <1>5, <2>4
<1> HIDE DEF g
<1>7. Steady(Say(g, "REJECT_TX"))
  BY <1>3, AlertInSteady
<1>8. Steady(FopE19(g, sdu))
  <2>1. CASE g.state \in OpenStates
    <3>1. q \in Seq(SDU) /\ Len(q) = 1
      OBVIOUS
    <3>2. FopE19(g, sdu) = LookForFdu(w)
      BY <2>1 DEF FopE19, OpenStates
    <3> HIDE DEF q
    <3>3. /\ w \in FopRecord /\ w.state = g.state /\ w.ss = g.ss /\ w.sent = g.sent
          /\ w.wait = q /\ w.tx = g.tx /\ w.vs = g.vs
      BY <1>1, <3>1 DEF FopRecord
    <3> HIDE DEF w
    <3>4. Len(w.wait) <= 1
      <4>1. Len(w.wait) = 1
        BY <3>1, <3>3
      <4> QED BY <4>1
    <3>5. Fits(w)
      BY <1>3, <3>3, <3>4 DEF Sound, Fits
    <3>6. Matched(w)
      BY <1>3, <2>1, <3>3 DEF Sound, Matched, AllTypeA, Adjacent, Flagged, AdStates, OpenStates
    <3>7. Open(w)
      BY <2>1, <3>3, <3>5, <3>6 DEF Open, Sound, AdStates
    <3>8. Numbered(g)
      BY <1>3, <2>1 DEF Steady, OpenStates
    <3>9. Numbered(w)
      BY <3>3, <3>8, FieldsNumbered
    <3> QED BY <3>2, <3>7, <3>9, LookForFduNumbered
  <2>2. CASE g.state \notin OpenStates
    <3>1. FopE19(g, sdu) = IF g.state = "RT_WAIT" THEN d ELSE Say(g, "REJECT_TX")
      BY <1>1, <2>2 DEF FopE19, FopRecord
    <3> HIDE DEF q
    <3>2. d.state = g.state /\ d.sent = g.sent /\ d.vs = g.vs
      BY <1>1 DEF FopRecord
    <3> HIDE DEF d
    <3>3. Steady(d)
      BY <1>3, <3>2, FieldsNumbered DEF Steady
    <3> QED BY <1>7, <3>1, <3>3
  <2> QED BY <2>1, <2>2
<1> QED BY <1>4, <1>6, <1>7, <1>8
(* Every directive starts with an empty queue, or leaves the run before V(S) alone. *)
LEMMA DirectiveSteady ==
    ASSUME Sound(fop), Steady(fop), Directive
    PROVE  Steady(fop')
<1> DEFINE g == InitializeCop(fop)
<1>1. fop \in FopRecord
  BY DEF Sound, Fits
<1>2. Fits(g) /\ g \in FopRecord /\ g.ss = 0 /\ g.sent = <<>> /\ g.wait = <<>>
  BY InitializeCopPurges DEF Fits
<1>3. \A sig : Steady(Say(fop, sig))
  BY AlertInSteady
<1>4. CASE InitiateNoClcw
  <2> HIDE DEF g
  <2>1. Steady([g EXCEPT !.state = "ACTIVE", !.signal = "POSITIVE_DIR"])
    <3>1. [g EXCEPT !.state = "ACTIVE", !.signal = "POSITIVE_DIR"].sent = <<>>
      BY <1>2 DEF FopRecord
    <3> QED BY <3>1, EmptyNumbered DEF Steady
  <2> QED BY <1>3, <1>4, <2>1 DEF InitiateNoClcw, g
<1>5. CASE InitiateWithClcw
  <2> HIDE DEF g
  <2>1. Steady([Start(g) EXCEPT !.state = "INIT_NO_BC", !.signal = "ACCEPT_DIR"])
    <3>1. [Start(g) EXCEPT !.state = "INIT_NO_BC", !.signal = "ACCEPT_DIR"].sent = <<>>
      BY <1>2 DEF Start, FopRecord
    <3> QED BY <3>1, EmptyNumbered DEF Steady
  <2> QED BY <1>3, <1>5, <2>1 DEF InitiateWithClcw, g
<1>6. ASSUME NEW h \in FopRecord, NEW code, fop' = TransmitTypeBc(h, code)
      PROVE  Steady(fop')
  <2> DEFINE k == [h EXCEPT !.hdr = code, !.txCnt = 1, !.armed = TRUE]
             it == [type |-> "B", seq |-> h.vs, rt |-> FALSE, code |-> code, sdu |-> NoSDU]
             x == Append(h.tx, FrameOf(it))
             y == Append(h.sent, it)
  <2>1. fop' = IF TxFull(h) THEN Alert(k, "UNDEF_ERROR")
               ELSE [k EXCEPT !.sent = y, !.tx = x, !.state = "INIT_BC", !.signal = "ACCEPT_DIR"]
    BY <1>6 DEF TransmitTypeBc, FopRecord
  <2> HIDE DEF x, y
  <2>2. /\ Alert(k, "UNDEF_ERROR").sent = <<>>
        /\ [k EXCEPT !.sent = y, !.tx = x, !.state = "INIT_BC", !.signal = "ACCEPT_DIR"].state
              = "INIT_BC"
    BY <1>6 DEF Alert, FopRecord
  <2> HIDE DEF k
  <2>3. fop'.sent = <<>> \/ fop'.state = "INIT_BC"
    BY <2>1, <2>2
  <2> QED BY <2>3, EmptyNumbered DEF Steady
<1>7. CASE InitiateWithUnlock
  BY <1>2, <1>6, <1>7 DEF InitiateWithUnlock
<1>8. CASE \E v \in SeqNum : InitiateWithSetvr(v)
  <2>1. PICK v \in SeqNum : InitiateWithSetvr(v)
    BY <1>8
  <2> DEFINE h == [g EXCEPT !.vs = v, !.nnr = v]
  <2>2. fop' = TransmitTypeBc(h, "SETVR")
    BY <2>1 DEF InitiateWithSetvr
  <2> HIDE DEF g
  <2>3. h \in FopRecord
    BY <1>2 DEF FopRecord
  <2> HIDE DEF h
  <2> QED BY <1>6, <2>2, <2>3
<1>9. CASE TerminateAd
  BY <1>1, <1>3, <1>9, AlertNumbered DEF TerminateAd
<1>10. CASE ResumeAd
  <2> DEFINE s == Resumed[fop.ss]
             r == [Start(fop) EXCEPT !.ss = 0, !.state = s, !.signal = "POSITIVE_DIR"]
  <2>1. r.sent = fop.sent /\ r.vs = fop.vs
    BY <1>1 DEF Start, FopRecord
  <2>2. fop' = r /\ fop.state = "INIT"
    BY <1>10 DEF ResumeAd
  <2> HIDE DEF r
  <2> QED BY <2>1, <2>2, FieldsNumbered DEF Steady
<1>11. CASE \E v \in SeqNum : SetNewVs(v)
  <2>1. fop.state = "INIT" /\ fop.ss = 0
    BY <1>11 DEF SetNewVs
  <2>2. fop.sent = <<>>
    BY <2>1 DEF Sound, Matched
  <2>3. fop'.sent = <<>>
    BY <1>1, <1>11, <2>2 DEF SetNewVs, FopRecord
  <2> QED BY <2>3, EmptyNumbered DEF Steady
<1>12. CASE \/ \E w \in Windows : SetSlidingWindow(w)
            \/ \E l \in Limits : SetTxLimit(l)
            \/ \E t \in {0, 1} : SetTt(t)
  <2>1. fop'.state = fop.state /\ fop'.sent = fop.sent /\ fop'.vs = fop.vs
    BY <1>1, <1>12 DEF SetSlidingWindow, SetTxLimit, SetTt, FopRecord
  <2> QED BY <2>1, FieldsNumbered DEF Steady
<1> QED BY <1>4, <1>5, <1>7, <1>8, <1>9, <1>10, <1>11, <1>12 DEF Directive

-----------------------------------------------------------------------------
(* The theorem. *)

(* Every step keeps the invariant. *)
LEMMA SteadyStep ==
    ASSUME Sound(fop), Steady(fop), [FopNext]_fopVars
    PROVE  Steady(fop')
<1>1. fop \in FopRecord
  BY DEF Sound, Fits
<1>2. ASSUME NEW g, g.state = fop.state, g.sent = fop.sent, g.vs = fop.vs PROVE Steady(g)
  BY <1>2, FieldsNumbered DEF Steady
<1>3. CASE \E c \in Clcw : HandleClcw(c)
  BY <1>3, OnClcwSteady DEF HandleClcw
<1>4. CASE Expire
  <2>1. /\ [fop EXCEPT !.armed = FALSE].state = fop.state
        /\ [fop EXCEPT !.armed = FALSE].sent = fop.sent
        /\ [fop EXCEPT !.armed = FALSE].vs = fop.vs
    BY <1>1 DEF FopRecord
  <2>2. Steady([fop EXCEPT !.armed = FALSE])
    BY <1>2, <2>1
  <2> QED BY <1>4, <2>2 DEF Expire, Cancel
<1>5. CASE HandleTimerExpired
  BY <1>5, OnTimerSteady DEF HandleTimerExpired
<1>6. CASE \E d \in SDU : RequestAd(d) \/ RequestBd(d)
  BY <1>6, RequestSteady DEF RequestAd, RequestBd
<1>7. CASE Directive
  BY <1>7, DirectiveSteady
<1>8. CASE Uplink
  <2> DEFINE q == Tail(fop.tx)
             g == [fop EXCEPT !.tx = q]
  <2>1. fop' = g
    BY <1>1, <1>8 DEF Uplink, FopRecord
  <2> HIDE DEF q
  <2>2. g.state = fop.state /\ g.sent = fop.sent /\ g.vs = fop.vs
    BY <1>1 DEF FopRecord
  <2> HIDE DEF g
  <2> QED BY <1>2, <2>1, <2>2
<1>9. CASE UNCHANGED fopVars
  BY <1>9 DEF fopVars
<1> QED BY <1>3, <1>4, <1>5, <1>6, <1>7, <1>8, <1>9 DEF FopNext

(***************************************************************************)
(* Whatever is suspended, resumed, refused, purged or set under way: while *)
(* SDUs may be outstanding, osdlp_remove_acked_frames finds the run of     *)
(* numbers before V(S) that it relies on.                                  *)
(***************************************************************************)
THEOREM SentRunKept ==
    FopSpec => []SentEndsAtVs
<1> DEFINE J == Sound(fop) /\ late \in BOOLEAN /\ Steady(fop)
<1>1. FopInit => J
  <2>1. FopInit => fop.sent = <<>>
    BY DEF FopInit
  <2> QED BY <2>1, SoundInit, EmptyNumbered DEF Steady
<1>2. J /\ [FopNext]_fopVars => J'
  BY SoundStep, SteadyStep
<1>3. J => SentEndsAtVs
  <2> SUFFICES ASSUME J, Serving, Len(fop.sent) < SentCap, NEW i \in DOMAIN fop.sent
               PROVE  Inc(fop.sent[i].seq) = IF i = Len(fop.sent) THEN fop.vs
                                             ELSE fop.sent[i + 1].seq
    BY DEF SentEndsAtVs
  <2>1. fop.state # "INIT_BC"
    BY DEF Serving, Sound, Matched, AdStates, OpenStates
  <2>2. i \in 1 .. Len(fop.sent)
    BY DEF Sound, Fits, FopRecord
  <2> QED BY <2>1, <2>2 DEF Steady, Numbered
<1> HIDE DEF J
<1>4. FopSpec => []J
  BY <1>1, <1>2, PTL DEF FopSpec
<1> QED BY <1>3, <1>4, PTL

-----------------------------------------------------------------------------
(* SduUnderDataHeader: the frames of the tx queue are frames a FARM expects. *)

DataCodes == {"AD", "BD"}

(* Data under a data header, a control frame without data. *)
PackedItem == {it \in Item : it.sdu \in SDU <=> it.code \in DataCodes}

(* And a number only where osdlp_tc_pack writes one. *)
PackedFrame ==
    {fr \in Frame : /\ fr.sdu \in SDU <=> fr.code \in DataCodes
                    /\ fr.code \in {"BD", "UNLOCK"} => fr.num = 0}

(***************************************************************************)
(* The inductive invariant: what is queued is packed right, and what still *)
(* waits will be, since the header the struct holds meanwhile is one of a  *)
(* data frame.                                                             *)
(***************************************************************************)
Labelled(f) ==
    /\ f.sent \in Seq(PackedItem)
    /\ f.tx \in Seq(PackedFrame)
    /\ f.wait # <<>> => f.hdr \in DataCodes

(* A step that adds nothing to the queues and leaves the header of a waiting SDU. *)
LEMMA LessLabelled ==
    ASSUME NEW f, NEW g, Labelled(f),
           g.sent = f.sent \/ g.sent = <<>>,
           g.tx = f.tx \/ g.tx = <<>>,
           g.wait = <<>> \/ (g.wait = f.wait /\ g.hdr = f.hdr)
    PROVE  Labelled(g)
<1>1. <<>> \in Seq(PackedItem) /\ <<>> \in Seq(PackedFrame)
  OBVIOUS
<1> QED BY <1>1 DEF Labelled

(* The frame of an item is packed like the item. *)
LEMMA FrameOfPacked == \A it \in PackedItem : FrameOf(it) \in PackedFrame
BY SeqNumFacts DEF PackedItem, PackedFrame, Item, Frame, FrameOf, DataCodes, Codes

(* So are the frames of a queue of items. *)
LEMMA FramesPacked ==
    ASSUME NEW q \in Seq(PackedItem)
    PROVE  Frames(q) \in Seq(PackedFrame)
<1>1. DOMAIN q = 1 .. Len(q) /\ Len(q) \in Nat
  OBVIOUS
<1>2. \A i \in 1 .. Len(q) : q[i] \in PackedItem
  OBVIOUS
<1>3. \A i \in 1 .. Len(q) : FrameOf(q[i]) \in PackedFrame
  BY <1>2, FrameOfPacked
<1> HIDE DEF FrameOf
<1> QED BY <1>1, <1>3 DEF Frames

(* A part of a queue of items. *)
LEMMA PartPacked ==
    ASSUME NEW q \in Seq(PackedItem), NEW a \in Int, NEW b \in Int, 1 <= a, b <= Len(q)
    PROVE  SubSeq(q, a, b) \in Seq(PackedItem)
<1>1. \A i \in a .. b : q[i] \in PackedItem
  OBVIOUS
<1> QED BY <1>1, SubSeqProperties

(* The flags of a queue may change. *)
LEMMA ReflaggedPacked ==
    ASSUME NEW q \in Seq(PackedItem), NEW r, DOMAIN r = DOMAIN q,
           r = [i \in DOMAIN r |-> r[i]],
           \A i \in DOMAIN q : \E b \in BOOLEAN : r[i] = q[i] \/ r[i] = [q[i] EXCEPT !.rt = b]
    PROVE  r \in Seq(PackedItem)
<1>1. \A it \in PackedItem, b \in BOOLEAN : [it EXCEPT !.rt = b] \in PackedItem
  BY DEF PackedItem, Item
<1>2. DOMAIN q = 1 .. Len(q) /\ Len(q) \in Nat /\ \A i \in 1 .. Len(q) : q[i] \in PackedItem
  OBVIOUS
<1>3. \A i \in 1 .. Len(q) : r[i] \in PackedItem
  BY <1>1, <1>2
<1> QED BY <1>2, <1>3

(* osdlp_alert. *)
LEMMA AlertLabelled ==
    ASSUME NEW f, f \in FopRecord, Labelled(f), NEW sig
    PROVE  Labelled(Alert(f, sig))
<1>1. Alert(f, sig).sent = <<>> /\ Alert(f, sig).wait = <<>> /\ Alert(f, sig).tx = f.tx
  BY DEF Alert, FopRecord
<1> QED BY <1>1, LessLabelled

(* A notification, and another state. *)
LEMMA SayLabelled ==
    ASSUME NEW f, f \in FopRecord, Labelled(f), NEW x
    PROVE  Labelled(Say(f, x)) /\ Labelled([f EXCEPT !.state = x])
<1>1. /\ Say(f, x).sent = f.sent /\ Say(f, x).tx = f.tx
      /\ Say(f, x).wait = f.wait /\ Say(f, x).hdr = f.hdr
  BY DEF Say, FopRecord
<1>2. LET g == [f EXCEPT !.state = x]
      IN  g.sent = f.sent /\ g.tx = f.tx /\ g.wait = f.wait /\ g.hdr = f.hdr
  BY DEF FopRecord
<1> QED BY <1>1, <1>2, LessLabelled

-----------------------------------------------------------------------------
(* Popping the oldest items. *)
LEMMA RemoveAckedLabelled ==
    ASSUME NEW f, Open(f), Labelled(f), NEW nr \in SeqNum
    PROVE  Labelled(RemoveAcked(f, nr))
<1> DEFINE k == AckedCount(f, nr)
           q == SubSeq(f.sent, k + 1, Len(f.sent))
           g == [f EXCEPT !.sent = q, !.nnr = nr, !.txCnt = 1]
<1>1. k \in 0 .. Len(f.sent) /\ f \in FopRecord /\ f.sent \in Seq(PackedItem)
  BY AckedCountDefined DEF Open, Sound, Fits, Labelled
<1>2. RemoveAcked(f, nr) = IF k = 0 THEN f ELSE g
  BY DEF RemoveAcked
<1> HIDE DEF k
<1>3. q \in Seq(PackedItem)
  <2>1. k + 1 \in Int /\ Len(f.sent) \in Int /\ 1 <= k + 1
    BY <1>1
  <2> QED BY <1>1, <2>1, PartPacked
<1> HIDE DEF q
<1>4. g.sent = q /\ g.tx = f.tx /\ g.wait = f.wait /\ g.hdr = f.hdr
  BY <1>1 DEF FopRecord
<1> QED BY <1>2, <1>3, <1>4 DEF Labelled

(* osdlp_initiate_ad_retransmission clears the tx queue and changes flags. *)
LEMMA InitiateAdRetransmissionLabelled ==
    ASSUME NEW f, f \in FopRecord, Labelled(f)
    PROVE  Labelled(InitiateAdRetransmission(f))
<1> DEFINE q == [i \in DOMAIN f.sent |->
                   IF f.sent[i].type = "A" THEN [f.sent[i] EXCEPT !.rt = TRUE] ELSE f.sent[i]]
           n == (f.txCnt + 1) % CntMod
           g == [f EXCEPT !.tx = <<>>, !.txCnt = n, !.armed = TRUE, !.sent = q]
<1>1. InitiateAdRetransmission(f) = g
  BY DEF InitiateAdRetransmission, FopRecord
<1>2. q \in Seq(PackedItem)
  <2>1. f.sent \in Seq(PackedItem)
    BY DEF Labelled
  <2>2. DOMAIN q = DOMAIN f.sent
    OBVIOUS
  <2>3. \A i \in DOMAIN f.sent : q[i] = f.sent[i] \/ q[i] = [f.sent[i] EXCEPT !.rt = TRUE]
    OBVIOUS
  <2>4. q = [i \in DOMAIN q |-> q[i]]
    BY <2>2
  <2> HIDE DEF q
  <2>5. \A i \in DOMAIN f.sent : \E b \in BOOLEAN :
           q[i] = f.sent[i] \/ q[i] = [f.sent[i] EXCEPT !.rt = b]
    BY <2>3
  <2> QED BY <2>1, <2>2, <2>4, <2>5, ReflaggedPacked
<1> HIDE DEF q, n
<1>3. g.sent = q /\ g.tx = <<>> /\ g.wait = f.wait /\ g.hdr = f.hdr
  BY DEF FopRecord
<1>4. <<>> \in Seq(PackedFrame)
  OBVIOUS
<1> QED BY <1>1, <1>2, <1>3, <1>4 DEF Labelled

(* Retransmission sends frames of items that are queued. *)
LEMMA ResendLabelled ==
    ASSUME NEW f, Open(f), Labelled(f)
    PROVE  Labelled(Resend(f))
<1>1. /\ f \in FopRecord /\ Fits(f) /\ Adjacent(f) /\ f.sent \in Seq(PackedItem)
      /\ f.tx \in Seq(PackedFrame) /\ Len(f.tx) \in Nat /\ TxCap - Len(f.tx) \in Nat
  BY TxCapAssumption DEF Open, Sound, Fits, FopRecord, Matched, Labelled
<1>2. CASE Flagged(f) = {}
  BY <1>2 DEF Resend
<1>3. CASE Flagged(f) # {}
  <2> DEFINE a == RunStart(f)
             b == RunEnd(f)
             room == TxCap - Len(f.tx)
             z == a + room - 1
             s == IF f.sent[b].code = "AD" THEN f.signal ELSE "ACCEPT_TX"
             x == f.tx \o Frames(SubSeq(f.sent, a, b))
             q == [i \in DOMAIN f.sent |->
                     IF i \in a .. b THEN [f.sent[i] EXCEPT !.rt = FALSE] ELSE f.sent[i]]
             h == Alert(f, "UNDEF_ERROR")
             y == h.tx \o Frames(SubSeq(f.sent, a, z))
             g == [f EXCEPT !.tx = x, !.sent = q, !.signal = s]
             r == [h EXCEPT !.tx = y]
  <2>1. a \in 1 .. Len(f.sent) /\ b \in 1 .. Len(f.sent) /\ a <= b /\ Len(f.sent) \in Nat
    BY <1>1, <1>3, FlaggedBounds, RunDefined
  <2>2. Resend(f) = IF b - a + 1 <= room THEN g ELSE r
    <3>1. g = [f EXCEPT !.tx = @ \o Frames(SubSeq(f.sent, a, b)),
                        !.sent = [i \in DOMAIN @ |->
                                    IF i \in a .. b THEN [@[i] EXCEPT !.rt = FALSE] ELSE @[i]],
                        !.signal = IF f.sent[b].code = "AD" THEN @ ELSE "ACCEPT_TX"]
      BY <1>1 DEF FopRecord
    <3>2. r = [h EXCEPT !.tx = @ \o Frames(SubSeq(f.sent, a, z))]
      OBVIOUS
    <3> QED BY <1>3, <3>1, <3>2 DEF Resend
  <2>3. h.tx = f.tx /\ h \in FopRecord /\ Labelled(h)
    <3>1. Sound(h) /\ h.tx = f.tx
      BY <1>1, AlertSound DEF Signals, Alerts
    <3> QED BY <1>1, <3>1, AlertLabelled DEF Sound, Fits
  <2> HIDE DEF a, b, h
  <2>4. x \in Seq(PackedFrame)
    <3>1. a \in Int /\ b \in Int /\ 1 <= a /\ b <= Len(f.sent)
      BY <2>1
    <3>2. Frames(SubSeq(f.sent, a, b)) \in Seq(PackedFrame)
      BY <1>1, <3>1, PartPacked, FramesPacked
    <3> QED BY <1>1, <3>2, ConcatProperties
  <2>5. q \in Seq(PackedItem)
    <3>1. DOMAIN q = DOMAIN f.sent
      OBVIOUS
    <3>2. \A i \in DOMAIN f.sent : q[i] = f.sent[i] \/ q[i] = [f.sent[i] EXCEPT !.rt = FALSE]
      OBVIOUS
    <3>3. q = [i \in DOMAIN q |-> q[i]]
      BY <3>1
    <3> HIDE DEF q
    <3>4. \A i \in DOMAIN f.sent : \E t \in BOOLEAN :
             q[i] = f.sent[i] \/ q[i] = [f.sent[i] EXCEPT !.rt = t]
      BY <3>2
    <3> QED BY <1>1, <3>1, <3>3, <3>4, ReflaggedPacked
  <2>6. CASE b - a + 1 <= room
    <3> HIDE DEF x, q, s, room
    <3>1. g.sent = q /\ g.tx = x /\ g.wait = f.wait /\ g.hdr = f.hdr
      BY <1>1 DEF FopRecord
    <3> HIDE DEF g
    <3>2. Labelled(g)
      BY <2>4, <2>5, <3>1 DEF Labelled
    <3> QED BY <2>2, <2>6, <3>2
  <2>7. CASE ~ (b - a + 1 <= room)
    <3>1. a \in Int /\ z \in Int /\ 1 <= a /\ z <= Len(f.sent)
      BY <1>1, <2>1, <2>7
    <3> HIDE DEF z
    <3>2. Frames(SubSeq(f.sent, a, z)) \in Seq(PackedFrame)
      BY <1>1, <3>1, PartPacked, FramesPacked
    <3>3. y \in Seq(PackedFrame)
      BY <1>1, <2>3, <3>2, ConcatProperties
    <3> HIDE DEF y
    <3>4. r.sent = h.sent /\ r.tx = y /\ r.wait = h.wait /\ r.hdr = h.hdr
      BY <2>3 DEF FopRecord
    <3> HIDE DEF r
    <3>5. Labelled(r)
      BY <2>3, <3>3, <3>4 DEF Labelled
    <3> HIDE DEF room
    <3> QED BY <2>2, <2>7, <3>5
  <2> QED BY <2>6, <2>7
<1> QED BY <1>2, <1>3

(***************************************************************************)
(* osdlp_transmit_type_ad packs the waiting SDU under the header the       *)
(* struct holds, which is one of a data frame as long as an SDU waits.     *)
(***************************************************************************)
LEMMA TransmitTypeAdLabelled ==
    ASSUME NEW f, Open(f), Labelled(f), f.wait # <<>>
    PROVE  Labelled(TransmitTypeAd(f))
<1> DEFINE it == [type |-> "A", seq |-> f.vs, rt |-> FALSE, code |-> f.hdr, sdu |-> Head(f.wait)]
           n  == IF f.sent = <<>> THEN 1 ELSE f.txCnt
           g  == [f EXCEPT !.wait = <<>>, !.vs = Inc(@), !.armed = TRUE, !.txCnt = n]
           h  == [g EXCEPT !.sent = Append(@, it), !.tx = Append(@, FrameOf(it))]
           r  == IF f.hdr = "AD" /\ f.state \in OpenStates THEN Resend(h) ELSE h
<1>1. /\ f \in FopRecord /\ f.vs \in SeqNum /\ f.hdr \in DataCodes /\ f.wait \in Seq(SDU)
      /\ n \in 0 .. CntMod - 1 /\ f.sent \in Seq(PackedItem) /\ f.tx \in Seq(PackedFrame)
      /\ Len(f.sent) <= SentCap /\ Len(f.tx) <= TxCap /\ Len(f.sent) \in Nat /\ Len(f.tx) \in Nat
  BY SeqNumFacts, SMTT(30) DEF Open, Sound, Fits, FopRecord, Labelled
<1>2. it \in PackedItem /\ it \in Item /\ it.type = "A" /\ it.rt = FALSE
  <2>1. Head(f.wait) \in SDU
    BY <1>1, HeadTailProperties
  <2> QED BY <1>1, <2>1 DEF PackedItem, Item, DataCodes, Codes
<1>3. TransmitTypeAd(f) = CASE Len(f.sent) = SentCap -> Say(g, "UNDEF_ERROR")
                            [] Len(f.sent) < SentCap /\ TxFull(f) -> Alert(g, "UNDEF_ERROR")
                            [] OTHER -> Say(r, "ACCEPT_TX")
  BY DEF TransmitTypeAd
<1>4. FrameOf(it) \in PackedFrame
  <2> HIDE DEF it
  <2> QED BY <1>2, FrameOfPacked
<1> HIDE DEF n, it
<1>5. Open(g) /\ g.sent = f.sent /\ g.tx = f.tx /\ g.wait = <<>>
  BY <1>1, DequeuedOpen
<1>6. g \in FopRecord /\ Labelled(g)
  BY <1>1, <1>5 DEF Open, Sound, Fits, Labelled
<1> HIDE DEF g
<1>7. Labelled(Say(g, "UNDEF_ERROR")) /\ Labelled(Alert(g, "UNDEF_ERROR"))
  BY <1>6, SayLabelled, AlertLabelled
<1>8. CASE Len(f.sent) < SentCap /\ ~ TxFull(f)
  <2>1. TransmitTypeAd(f) = Say(r, "ACCEPT_TX")
    BY <1>1, <1>3, <1>8, SentCapAssumption
  <2>2. Len(f.tx) < TxCap
    BY <1>1, <1>8, TxCapAssumption DEF TxFull
  <2>3. Open(h) /\ h.wait = g.wait
    BY <1>2, <1>5, <1>8, <2>2, EnqueuedOpen
  <2>4. Labelled(h)
    <3> DEFINE q == Append(f.sent, it)
               x == Append(f.tx, FrameOf(it))
    <3>1. h = [g EXCEPT !.sent = q, !.tx = x]
      BY <1>5, <1>6 DEF FopRecord
    <3>2. q \in Seq(PackedItem) /\ x \in Seq(PackedFrame)
      BY <1>1, <1>2, <1>4, AppendProperties
    <3> HIDE DEF h, q, x
    <3>3. h.sent = q /\ h.tx = x
      BY <1>6, <3>1 DEF FopRecord
    <3> QED BY <1>5, <2>3, <3>2, <3>3 DEF Labelled
  <2> HIDE DEF h
  <2>5. r \in FopRecord /\ Labelled(r)
    BY <2>3, <2>4, ResendSound, ResendLabelled DEF OpenOrPurged, Open, Sound, Fits
  <2> HIDE DEF r
  <2> QED BY <2>1, <2>5, SayLabelled
<1>9. CASE ~ (Len(f.sent) < SentCap /\ ~ TxFull(f))
  <2>1. \/ TransmitTypeAd(f) = Say(g, "UNDEF_ERROR")
        \/ TransmitTypeAd(f) = Alert(g, "UNDEF_ERROR")
    BY <1>1, <1>3, <1>9, SentCapAssumption
  <2> QED BY <1>7, <2>1
<1> QED BY <1>8, <1>9

(* osdlp_look_for_fdu, the whole of it. *)
LEMMA LookForFduLabelled ==
    ASSUME NEW f, Open(f), Labelled(f)
    PROVE  Labelled(LookForFdu(f)) /\ LookForFdu(f) \in FopRecord
<1> DEFINE g == Resend(f)
<1>1. OpenOrPurged(f, g) /\ Labelled(g)
  BY ResendSound, ResendLabelled
<1>2. LookForFdu(f) \in FopRecord
  BY LookForFduSound DEF Continues, Sound, Fits
<1> HIDE DEF g
<1>3. CASE g.wait = <<>>
  BY <1>1, <1>2, <1>3 DEF LookForFdu, g
<1>4. CASE g.wait # <<>>
  <2>1. Open(g) /\ g \in FopRecord
    BY <1>1, <1>4 DEF OpenOrPurged, Open, Sound, Fits
  <2>2. Labelled(TransmitTypeAd(g)) /\ Labelled(Say(g, "DELAY_RESP"))
    BY <1>1, <1>4, <2>1, TransmitTypeAdLabelled, SayLabelled
  <2> QED BY <1>2, <1>4, <2>2 DEF LookForFdu, g
<1> QED BY <1>3, <1>4

-----------------------------------------------------------------------------
(* The events of a control word. *)

(* Retransmission on a control word. *)
LEMMA RetransmitLabelled ==
    ASSUME NEW f, Open(f), Labelled(f)
    PROVE  Labelled(Retransmit(f))
<1> DEFINE h == InitiateAdRetransmission(f)
           g == LookForFdu(h)
<1>1. Open(h) /\ Labelled(h)
  BY InitiateAdRetransmissionOpen, InitiateAdRetransmissionLabelled DEF Open, Sound, Fits
<1> HIDE DEF h
<1>2. Labelled(g) /\ g \in FopRecord
  BY <1>1, LookForFduLabelled
<1> HIDE DEF g
<1>3. Labelled([g EXCEPT !.state = "RT_NO_WAIT"])
  BY <1>2, SayLabelled
<1> QED BY <1>2, <1>3 DEF Retransmit, g, h

(* fop_e1 releases the control frame. *)
LEMMA FopE1Labelled ==
    ASSUME NEW f, Sound(f), Labelled(f)
    PROVE  Labelled(FopE1(f))
<1>1. f \in FopRecord
  BY DEF Sound, Fits
<1>2. CASE f.state \in {"RT_NO_WAIT", "RT_WAIT"}
  BY <1>1, <1>2, AlertLabelled DEF FopE1
<1>3. CASE f.state \in {"INIT_NO_BC", "INIT_BC"}
  <2> DEFINE t == Tail(f.sent)
             h == IF f.state = "INIT_BC" THEN ReleaseCopyOfBc(f) ELSE f
             g == [h EXCEPT !.state = "ACTIVE", !.armed = FALSE, !.signal = "POSITIVE_DIR"]
  <2>1. FopE1(f) = g
    BY <1>3 DEF FopE1
  <2>2. h \in FopRecord /\ Labelled(h)
    <3>1. CASE f.state = "INIT_NO_BC"
      BY <1>1, <3>1
    <3>2. CASE f.state = "INIT_BC"
      <4>1. h = IF Head(f.sent).type = "B" THEN [f EXCEPT !.sent = t] ELSE f
        BY <1>1, <3>2 DEF ReleaseCopyOfBc, FopRecord
      <4>2. t \in Seq(PackedItem) /\ t \in Seq(Item)
        <5>1. f.sent \in Seq(PackedItem) /\ f.sent \in Seq(Item) /\ f.sent # <<>>
          <6>1. Len(f.sent) = 1 /\ Len(<<>>) = 0
            BY <3>2 DEF Sound, Matched
          <6>2. f.sent # <<>>
            BY <6>1
          <6>3. f.sent \in Seq(Item)
            BY <1>1 DEF FopRecord
          <6> QED BY <6>2, <6>3 DEF Labelled
        <5> QED BY <5>1, HeadTailProperties
      <4> HIDE DEF h, t
      <4>3. LET e == [f EXCEPT !.sent = t]
            IN  e \in FopRecord /\ e.sent = t /\ e.tx = f.tx /\ e.wait = f.wait /\ e.hdr = f.hdr
        BY <1>1, <4>2 DEF FopRecord
      <4>4. Labelled([f EXCEPT !.sent = t])
        BY <4>2, <4>3 DEF Labelled
      <4> QED BY <1>1, <4>1, <4>3, <4>4
    <3> QED BY <1>3, <3>1, <3>2
  <2> HIDE DEF h
  <2>3. g.sent = h.sent /\ g.tx = h.tx /\ g.wait = h.wait /\ g.hdr = h.hdr
    BY <2>2 DEF FopRecord
  <2> HIDE DEF g
  <2> QED BY <2>1, <2>2, <2>3, LessLabelled
<1>4. CASE f.state \notin {"RT_NO_WAIT", "RT_WAIT", "INIT_NO_BC", "INIT_BC"}
  BY <1>4 DEF FopE1
<1> QED BY <1>2, <1>3, <1>4

(* The events that acknowledge. *)
LEMMA AckEventsLabelled ==
    ASSUME NEW f, Sound(f), Labelled(f), NEW nr \in SeqNum
    PROVE  /\ Labelled(FopE2(f, nr)) /\ Labelled(FopE6(f, nr)) /\ Labelled(FopE8(f, nr))
           /\ Labelled(FopE9(f, nr)) /\ Labelled(FopE101(f, nr))
<1>1. CASE f.state \notin AdStates
  <2>1. f.state \notin {"ACTIVE", "RT_NO_WAIT", "RT_WAIT"}
    BY <1>1 DEF AdStates, OpenStates
  <2> QED BY <1>1, <2>1 DEF FopE2, FopE6, FopE8, FopE9, FopE101
<1>2. CASE f.state \in AdStates
  <2> DEFINE g == RemoveAcked(f, nr)
             a == [g EXCEPT !.state = "ACTIVE"]
             c == [g EXCEPT !.armed = FALSE]
             l == LookForFdu(g)
  <2>1. Open(f)
    BY <1>2 DEF Open
  <2>2. Open(g) /\ g.ss = 0 /\ g.state \in AdStates /\ Labelled(g) /\ g \in FopRecord
    BY <1>2, <2>1, RemoveAckedOpen, RemoveAckedLabelled, OpenNotSuspended DEF Open, Sound, Fits
  <2> HIDE DEF g
  <2>3. Open(c) /\ Labelled(c)
    <3>1. Open(c)
      BY <2>2, TimerSound DEF Open
    <3>2. c.sent = g.sent /\ c.tx = g.tx /\ c.wait = g.wait /\ c.hdr = g.hdr
      BY <2>2 DEF FopRecord
    <3> HIDE DEF c
    <3> QED BY <2>2, <3>1, <3>2, LessLabelled
  <2>4. Open(a) /\ Labelled(a)
    <3>1. "ACTIVE" \in AdStates
      BY DEF AdStates, OpenStates
    <3>2. Open(a)
      BY <2>2, <3>1, SetOpen DEF Open
    <3> QED BY <2>2, <3>2, SayLabelled
  <2> HIDE DEF a, c
  <2>5. Labelled(l) /\ l \in FopRecord
    BY <2>2, LookForFduLabelled
  <2> HIDE DEF l
  <2>6. Labelled([l EXCEPT !.state = "ACTIVE"]) /\ Labelled([g EXCEPT !.state = "RT_WAIT"])
    BY <2>2, <2>5, SayLabelled
  <2>7. Labelled(FopE2(f, nr))
    BY <1>2, <2>3, LookForFduLabelled DEF FopE2, Cancel, g, c
  <2>8. Labelled(FopE6(f, nr))
    <3>1. FopE6(f, nr) = CASE f.state = "ACTIVE"     -> l
                           [] f.state = "RT_NO_WAIT" -> LookForFdu(a)
                           [] f.state = "RT_WAIT"    -> [l EXCEPT !.state = "ACTIVE"]
                           [] OTHER -> f
      BY DEF FopE6, g, a, l
    <3>2. f.state \in {"ACTIVE", "RT_NO_WAIT", "RT_WAIT"} /\ Labelled(LookForFdu(a))
      BY <1>2, <2>4, LookForFduLabelled DEF AdStates, OpenStates
    <3> QED BY <2>5, <2>6, <3>1, <3>2
  <2>9. Labelled(FopE8(f, nr)) /\ Labelled(FopE9(f, nr))
    BY <1>2, <2>2, <2>6, RetransmitLabelled DEF FopE8, FopE9, g
  <2>10. Labelled(FopE101(f, nr))
    BY <1>2, <2>2, AlertLabelled DEF FopE101, g
  <2> QED BY <2>7, <2>8, <2>9, <2>10
<1> QED BY <1>1, <1>2

(* The other events of an open state. *)
LEMMA StateEventsLabelled ==
    ASSUME NEW f, Sound(f), Labelled(f)
    PROVE  /\ Labelled(FopE10(f)) /\ Labelled(FopE11(f)) /\ Labelled(FopE12(f))
           /\ Labelled(FopE103(f))
<1>1. f \in FopRecord
  BY DEF Sound, Fits
<1>2. /\ Labelled([f EXCEPT !.state = "RT_WAIT"])
      /\ Labelled([f EXCEPT !.state = "RT_NO_WAIT"])
  BY <1>1, SayLabelled
<1>3. f.state \in {"ACTIVE", "RT_WAIT"} => Labelled(Retransmit(f))
  BY RetransmitLabelled DEF Open, AdStates, OpenStates
<1> QED BY <1>2, <1>3 DEF FopE10, FopE11, FopE12, FopE103

(* Every control word. *)
LEMMA OnClcwLabelled ==
    ASSUME NEW f, Sound(f), Labelled(f), NEW c \in Clcw
    PROVE  Labelled(OnClcw(f, c))
<1> DEFINE e == ClcwEvent(f, c)
<1>1. e \in Events /\ c.nr \in SeqNum /\ f \in FopRecord
  BY ClcwEventKnown DEF Clcw, Sound, Fits
<1>2. \A sig : Labelled(Say(f, sig)) /\ Labelled(Alert(f, sig))
  BY <1>1, SayLabelled, AlertLabelled
<1>3. CASE e \in {"E1", "E2", "E6", "E8", "E9", "E101"}
  BY <1>1, <1>3, FopE1Labelled, AckEventsLabelled DEF OnClcw
<1>4. CASE e \in {"E3", "E4", "E5", "E7"}
  BY <1>2, <1>4 DEF OnClcw, FopE3, FopE4, FopE5, FopE7, AlertIn
<1>5. CASE e \in {"E13", "E14", "E102", "NO_LIMIT"}
  BY <1>2, <1>5 DEF OnClcw, FopE13, FopE14, FopE102, AlertIn
<1>6. CASE e \in {"E10", "E11", "E12", "E103"}
  BY <1>6, StateEventsLabelled DEF OnClcw
<1> HIDE DEF e
<1> QED BY <1>1, <1>3, <1>4, <1>5, <1>6 DEF Events

-----------------------------------------------------------------------------
(* Expiries, requests and directives. *)

(* The control frame comes again: once, or as often as the tx queue has room. *)
LEMMA RetransmitBcLabelled ==
    ASSUME NEW f, Sound(f), Labelled(f), f.state = "INIT_BC"
    PROVE  Labelled(RetransmitBc(f))
<1> DEFINE n == (f.txCnt + 1) % CntMod
           g == [f EXCEPT !.tx = <<>>, !.txCnt = n, !.armed = TRUE]
           h == Alert(g, "UNDEF_ERROR")
           x == [i \in 1 .. TxCap |-> FrameOf(Head(f.sent))]
           r == [h EXCEPT !.tx = x]
<1>1. f \in FopRecord /\ f.sent \in Seq(PackedItem) /\ Len(f.sent) = 1
  BY DEF Sound, Fits, Matched, Labelled
<1>2. RetransmitBc(f) = IF MarksBc /\ Head(f.sent).type = "B" THEN r ELSE Say(g, "ACCEPT_DIR")
  BY <1>1 DEF RetransmitBc, FopRecord
<1>3. x \in Seq(PackedFrame)
  <2>1. Head(f.sent) \in PackedItem
    BY <1>1
  <2>2. FrameOf(Head(f.sent)) \in PackedFrame
    BY <2>1, FrameOfPacked
  <2> HIDE DEF FrameOf
  <2> QED BY <2>2, TxCapAssumption
<1> HIDE DEF n, x
<1>4. /\ r.sent = <<>> /\ r.wait = <<>> /\ r.tx = x
      /\ LET s == Say(g, "ACCEPT_DIR")
         IN  s.sent = f.sent /\ s.tx = <<>> /\ s.wait = f.wait /\ s.hdr = f.hdr
  BY <1>1 DEF Alert, Say, FopRecord
<1> HIDE DEF g, h, r
<1>5. Labelled(Say(g, "ACCEPT_DIR"))
  BY <1>4, LessLabelled
<1>6. Labelled(r)
  <2>1. <<>> \in Seq(PackedItem)
    OBVIOUS
  <2> QED BY <1>3, <1>4, <2>1 DEF Labelled
<1> QED BY <1>2, <1>5, <1>6

(* An expiry retransmits, gives up or suspends. *)
LEMMA OnTimerLabelled ==
    ASSUME NEW f, Sound(f), Labelled(f)
    PROVE  Labelled(OnTimer(f))
<1>1. f \in FopRecord /\ f.state \in FopStates
  BY DEF Sound, Fits, FopRecord
<1>2. \A n : Labelled([f EXCEPT !.ss = n, !.state = "INIT"])
  <2> SUFFICES ASSUME NEW n PROVE Labelled([f EXCEPT !.ss = n, !.state = "INIT"])
    OBVIOUS
  <2> DEFINE g == [f EXCEPT !.ss = n, !.state = "INIT"]
  <2>1. g.sent = f.sent /\ g.tx = f.tx /\ g.wait = f.wait /\ g.hdr = f.hdr
    BY <1>1 DEF FopRecord
  <2> HIDE DEF g
  <2>2. Labelled(g)
    BY <2>1, LessLabelled
  <2> QED BY <2>2 DEF g
<1>3. Labelled(Alert(f, "ALERT_T1"))
  BY <1>1, AlertLabelled
<1>4. Labelled(FopE16(f))
  <2>1. CASE f.state \in OpenStates
    <3> DEFINE h == InitiateAdRetransmission(f)
    <3>1. Open(f)
      BY <2>1 DEF Open, AdStates
    <3>2. Open(h) /\ Labelled(h)
      BY <1>1, <3>1, InitiateAdRetransmissionOpen, InitiateAdRetransmissionLabelled
    <3> HIDE DEF h
    <3>3. Labelled(LookForFdu(h))
      BY <3>2, LookForFduLabelled
    <3> QED BY <2>1, <3>3 DEF FopE16, OpenStates, h
  <2>2. CASE f.state = "INIT_BC"
    BY <2>2, RetransmitBcLabelled DEF FopE16, OpenStates
  <2>3. CASE f.state \in {"RT_WAIT", "INIT", "INIT_NO_BC"}
    BY <1>3, <2>3 DEF FopE16, OpenStates
  <2> QED BY <1>1, <2>1, <2>2, <2>3 DEF FopStates, AdStates
<1>5. Labelled(FopE104(f)) /\ Labelled(FopE17(f))
  BY <1>2, <1>3, <1>4 DEF FopE104, FopE17, AlertIn
<1>6. Labelled(FopE18(f))
  <2>1. \/ \E n : FopE18(f) = [f EXCEPT !.ss = n, !.state = "INIT"]
        \/ FopE18(f) = Alert(f, "ALERT_T1")
        \/ FopE18(f) = f
    BY <1>1 DEF FopE18, FopStates, AdStates, OpenStates
  <2> QED BY <1>2, <1>3, <2>1
<1> QED BY <1>4, <1>5, <1>6 DEF OnTimer

(* A request sets the header before its SDU may wait. *)
LEMMA RequestLabelled ==
    ASSUME NEW f, Sound(f), Labelled(f), NEW sdu \in SDU
    PROVE  Labelled(TransmitAd(f, sdu)) /\ Labelled(TransmitBd(f, sdu))
<1> DEFINE g == [f EXCEPT !.hdr = "AD"]
           b == [f EXCEPT !.hdr = "BD"]
           q == <<sdu>>
           w == [g EXCEPT !.wait = q]
<1>1. /\ f \in FopRecord /\ f.sent \in Seq(PackedItem) /\ f.tx \in Seq(PackedFrame)
      /\ "AD" \in DataCodes /\ "BD" \in DataCodes
  BY DEF Sound, Fits, Labelled, DataCodes
<1>2. /\ g \in FopRecord /\ g.hdr = "AD" /\ g.state = f.state
      /\ g.ss = f.ss /\ g.sent = f.sent /\ g.wait = f.wait /\ g.tx = f.tx
  BY <1>1 DEF FopRecord, Codes
<1>3. b \in FopRecord /\ b.hdr = "BD" /\ b.sent = f.sent /\ b.wait = f.wait /\ b.tx = f.tx
  BY <1>1 DEF FopRecord, Codes
<1>4. TransmitAd(f, sdu) = CASE TxFull(g)                   -> Say(g, "REJECT_TX")
                             [] ~TxFull(g) /\ g.wait = <<>> -> FopE19(g, sdu)
                             [] ~TxFull(g) /\ g.wait # <<>> -> Say(g, "REJECT_TX")
  BY DEF TransmitAd, FopE20
<1>5. TransmitBd(f, sdu) = IF TxFull(b) THEN Say(b, "REJECT_TX") ELSE FopE21(b, sdu)
  BY DEF TransmitBd
<1> HIDE DEF g, b
<1>6. Sound(g) /\ Labelled(g) /\ Labelled(b)
  BY <1>1, <1>2, <1>3, SettingsSound DEF Labelled
<1>7. Labelled(TransmitBd(f, sdu))
  <2> DEFINE fr == [code |-> "BD", num |-> 0, sdu |-> sdu]
             x == Append(b.tx, fr)
             d == [b EXCEPT !.tx = x, !.signal = "ACCEPT_TX"]
  <2>1. FopE21(b, sdu) = d
    BY <1>3 DEF FopE21, FopRecord
  <2>2. fr \in PackedFrame
    BY SeqNumFacts DEF PackedFrame, Frame, Codes, DataCodes
  <2> HIDE DEF fr
  <2>3. x \in Seq(PackedFrame)
    BY <1>1, <1>3, <2>2, AppendProperties
  <2> HIDE DEF x
  <2>4. d.sent = b.sent /\ d.tx = x /\ d.wait = b.wait /\ d.hdr = b.hdr
    BY <1>3 DEF FopRecord
  <2> HIDE DEF d
  <2>5. Labelled(d) /\ Labelled(Say(b, "REJECT_TX"))
    BY <1>3, <1>6, <2>3, <2>4, SayLabelled DEF Labelled
  <2> QED BY <1>5, <2>1, <2>5
<1>8. Labelled(FopE19(g, sdu)) /\ Labelled(Say(g, "REJECT_TX"))
  <2>1. Labelled(Say(g, "REJECT_TX"))
    BY <1>2, <1>6, SayLabelled
  <2>2. q \in Seq(SDU) /\ Len(q) = 1
    OBVIOUS
  <2>3. FopE19(g, sdu) = CASE g.state \in OpenStates -> LookForFdu(w)
                           [] g.state = "RT_WAIT"    -> Say(w, "DELAY_RESP")
                           [] OTHER                  -> Say(g, "REJECT_TX")
    BY <1>2 DEF FopE19, Say, FopRecord
  <2> HIDE DEF q
  <2>4. /\ w \in FopRecord /\ w.state = g.state /\ w.ss = g.ss /\ w.sent = g.sent
        /\ w.wait = q /\ w.tx = g.tx /\ w.hdr = g.hdr
    BY <1>2, <2>2 DEF FopRecord
  <2> HIDE DEF w
  <2>5. Labelled(w) /\ Labelled(Say(w, "DELAY_RESP"))
    <3>1. Labelled(w)
      BY <1>1, <1>2, <1>6, <2>4 DEF Labelled
    <3> QED BY <2>4, <3>1, SayLabelled
  <2>6. CASE g.state \in OpenStates
    <3>1. Fits(w)
      <4>1. Len(w.wait) = 1
        BY <2>2, <2>4
      <4>2. Len(w.wait) <= 1
        BY <4>1
      <4> QED BY <1>6, <2>4, <4>2 DEF Sound, Fits
    <3>2. Matched(w)
      BY <1>6, <2>4, <2>6 DEF Sound, Matched, AllTypeA, Adjacent, Flagged, AdStates, OpenStates
    <3>3. Open(w)
      BY <2>4, <2>6, <3>1, <3>2 DEF Open, Sound, AdStates
    <3>4. Labelled(LookForFdu(w))
      BY <2>5, <3>3, LookForFduLabelled
    <3>5. FopE19(g, sdu) = LookForFdu(w)
      BY <2>3, <2>6 DEF OpenStates
    <3> QED BY <2>1, <3>4, <3>5
  <2>7. CASE g.state \notin OpenStates
    <3>1. FopE19(g, sdu) = IF g.state = "RT_WAIT" THEN Say(w, "DELAY_RESP")
                           ELSE Say(g, "REJECT_TX")
      BY <2>3, <2>7
    <3> QED BY <2>1, <2>5, <3>1
  <2> QED BY <2>1, <2>6, <2>7
<1> QED BY <1>4, <1>7, <1>8

(***************************************************************************)
(* A directive that sends a control frame rewrites the header; the wait    *)
(* queue has been purged before.                                           *)
(***************************************************************************)
LEMMA TransmitTypeBcLabelled ==
    ASSUME NEW f, f \in FopRecord, Labelled(f), f.sent = <<>>, f.wait = <<>>,
           NEW code \in {"UNLOCK", "SETVR"}
    PROVE  Labelled(TransmitTypeBc(f, code))
<1> DEFINE it == [type |-> "B", seq |-> f.vs, rt |-> FALSE, code |-> code, sdu |-> NoSDU]
           g == [f EXCEPT !.hdr = code, !.txCnt = 1, !.armed = TRUE]
           q == Append(f.sent, it)
           x == Append(f.tx, FrameOf(it))
           h == [g EXCEPT !.sent = q, !.tx = x, !.state = "INIT_BC", !.signal = "ACCEPT_DIR"]
<1>1. TransmitTypeBc(f, code) = IF TxFull(f) THEN Alert(g, "UNDEF_ERROR") ELSE h
  BY DEF TransmitTypeBc, FopRecord
<1>2. it \in PackedItem
  BY SDUAssumption DEF PackedItem, Item, DataCodes, Codes, FopRecord
<1> HIDE DEF it
<1>3. q \in Seq(PackedItem) /\ x \in Seq(PackedFrame)
  <2>1. FrameOf(it) \in PackedFrame
    BY <1>2, FrameOfPacked
  <2> HIDE DEF FrameOf
  <2> QED BY <1>2, <2>1, AppendProperties DEF Labelled
<1> HIDE DEF q, x
<1>4. /\ h.sent = q /\ h.tx = x /\ h.wait = <<>>
      /\ LET a == Alert(g, "UNDEF_ERROR") IN a.sent = <<>> /\ a.tx = f.tx /\ a.wait = <<>>
  BY DEF Alert, FopRecord
<1> HIDE DEF g, h
<1>5. Labelled(h) /\ Labelled(Alert(g, "UNDEF_ERROR"))
  BY <1>3, <1>4, LessLabelled DEF Labelled
<1> QED BY <1>1, <1>5

(* Every directive. *)
LEMMA DirectiveLabelled ==
    ASSUME Sound(fop), Labelled(fop), Directive
    PROVE  Labelled(fop')
<1> DEFINE g == InitializeCop(fop)
<1>1. fop \in FopRecord
  BY DEF Sound, Fits
<1>2. g \in FopRecord /\ g.sent = <<>> /\ g.wait = <<>> /\ g.tx = fop.tx /\ Labelled(g)
  <2>1. Fits(g) /\ g.sent = <<>> /\ g.wait = <<>> /\ g.tx = fop.tx
    BY InitializeCopPurges
  <2> HIDE DEF g
  <2> QED BY <2>1, LessLabelled DEF Fits
<1>3. \A sig : Labelled(Say(fop, sig)) /\ Labelled(Alert(fop, sig))
  BY <1>1, SayLabelled, AlertLabelled
<1> HIDE DEF g
<1>4. CASE InitiateNoClcw
  <2> DEFINE h == [g EXCEPT !.state = "ACTIVE", !.signal = "POSITIVE_DIR"]
  <2>1. h.sent = g.sent /\ h.tx = g.tx /\ h.wait = g.wait /\ h.hdr = g.hdr
    BY <1>2 DEF FopRecord
  <2>2. fop' = h \/ fop' = Say(fop, "REJECT_DIR")
    BY <1>4 DEF InitiateNoClcw, g
  <2> HIDE DEF h
  <2> QED BY <1>2, <1>3, <2>1, <2>2, LessLabelled
<1>5. CASE InitiateWithClcw
  <2> DEFINE h == [Start(g) EXCEPT !.state = "INIT_NO_BC", !.signal = "ACCEPT_DIR"]
  <2>1. h.sent = g.sent /\ h.tx = g.tx /\ h.wait = g.wait /\ h.hdr = g.hdr
    BY <1>2 DEF Start, FopRecord
  <2>2. fop' = h \/ fop' = Say(fop, "REJECT_DIR")
    BY <1>5 DEF InitiateWithClcw, g
  <2> HIDE DEF h
  <2> QED BY <1>2, <1>3, <2>1, <2>2, LessLabelled
<1>6. CASE InitiateWithUnlock
  BY <1>2, <1>6, TransmitTypeBcLabelled DEF InitiateWithUnlock, g
<1>7. CASE \E v \in SeqNum : InitiateWithSetvr(v)
  <2>1. PICK v \in SeqNum : InitiateWithSetvr(v)
    BY <1>7
  <2> DEFINE h == [g EXCEPT !.vs = v, !.nnr = v]
  <2>2. fop' = TransmitTypeBc(h, "SETVR")
    BY <2>1 DEF InitiateWithSetvr, g
  <2>3. h \in FopRecord /\ h.sent = <<>> /\ h.wait = <<>> /\ h.tx = g.tx
    BY <1>2 DEF FopRecord
  <2> HIDE DEF h
  <2>4. Labelled(h)
    BY <1>2, <2>3, LessLabelled
  <2> QED BY <2>2, <2>3, <2>4, TransmitTypeBcLabelled
<1>8. CASE TerminateAd
  BY <1>3, <1>8 DEF TerminateAd
<1>9. CASE ResumeAd
  <2> DEFINE s == Resumed[fop.ss]
             r == [Start(fop) EXCEPT !.ss = 0, !.state = s, !.signal = "POSITIVE_DIR"]
  <2>1. fop' = r
    BY <1>9 DEF ResumeAd
  <2> HIDE DEF s
  <2>2. r.sent = fop.sent /\ r.tx = fop.tx /\ r.wait = fop.wait /\ r.hdr = fop.hdr
    BY <1>1 DEF Start, FopRecord
  <2> HIDE DEF r
  <2> QED BY <2>1, <2>2, LessLabelled
<1>10. CASE \/ \E v \in SeqNum : SetNewVs(v)
            \/ \E w \in Windows : SetSlidingWindow(w)
            \/ \E l \in Limits : SetTxLimit(l)
            \/ \E t \in {0, 1} : SetTt(t)
  <2>1. /\ fop'.sent = fop.sent /\ fop'.tx = fop.tx /\ fop'.wait = fop.wait
        /\ fop'.hdr = fop.hdr
    BY <1>1, <1>10 DEF SetNewVs, SetSlidingWindow, SetTxLimit, SetTt, FopRecord
  <2> QED BY <2>1, LessLabelled
<1> QED BY <1>4, <1>5, <1>6, <1>7, <1>8, <1>9, <1>10 DEF Directive

-----------------------------------------------------------------------------
(* The theorem. *)

(* Before anything is sent. *)
LEMMA LabelledInit == FopInit => Labelled(fop)
<1> SUFFICES ASSUME FopInit PROVE Labelled(fop)
  OBVIOUS
<1>1. fop.sent = <<>> /\ fop.wait = <<>> /\ fop.tx = <<>>
  BY DEF FopInit
<1>2. <<>> \in Seq(PackedItem) /\ <<>> \in Seq(PackedFrame)
  OBVIOUS
<1> QED BY <1>1, <1>2 DEF Labelled

(* Every step, by its action. *)
LEMMA LabelledStep ==
    ASSUME Sound(fop), Labelled(fop), [FopNext]_fopVars
    PROVE  Labelled(fop')
<1>1. fop \in FopRecord
  BY DEF Sound, Fits
<1>2. CASE \E c \in Clcw : HandleClcw(c)
  BY <1>2, OnClcwLabelled DEF HandleClcw
<1>3. CASE Expire
  <2>1. /\ fop'.sent = fop.sent /\ fop'.tx = fop.tx /\ fop'.wait = fop.wait
        /\ fop'.hdr = fop.hdr
    BY <1>1, <1>3 DEF Expire, Cancel, FopRecord
  <2> QED BY <2>1, LessLabelled
<1>4. CASE HandleTimerExpired
  BY <1>4, OnTimerLabelled DEF HandleTimerExpired
<1>5. CASE \E d \in SDU : RequestAd(d) \/ RequestBd(d)
  BY <1>5, RequestLabelled DEF RequestAd, RequestBd
<1>6. CASE Directive
  BY <1>6, DirectiveLabelled
<1>7. CASE Uplink
  <2> DEFINE q == Tail(fop.tx)
  <2>1. fop.tx \in Seq(PackedFrame) /\ fop.tx # <<>> /\ fop' = [fop EXCEPT !.tx = q]
    BY <1>1, <1>7 DEF Labelled, Uplink, FopRecord
  <2>2. q \in Seq(PackedFrame)
    BY <2>1, HeadTailProperties
  <2> HIDE DEF q
  <2>3. fop'.sent = fop.sent /\ fop'.tx = q /\ fop'.wait = fop.wait /\ fop'.hdr = fop.hdr
    BY <1>1, <2>1 DEF FopRecord
  <2> QED BY <2>2, <2>3 DEF Labelled
<1>8. CASE UNCHANGED fopVars
  BY <1>8 DEF fopVars
<1> QED BY <1>2, <1>3, <1>4, <1>5, <1>6, <1>7, <1>8 DEF FopNext

(***************************************************************************)
(* No order of requests, directives, control words and expiries sends an   *)
(* SDU under the header of a control frame, or a control frame as data.    *)
(***************************************************************************)
THEOREM SdusLeaveAsData ==
    FopSpec => []SduUnderDataHeader
<1> DEFINE J == Sound(fop) /\ late \in BOOLEAN /\ Labelled(fop)
<1>1. FopInit => J
  BY SoundInit, LabelledInit
<1>2. J /\ [FopNext]_fopVars => J'
  BY SoundStep, LabelledStep
<1>3. J => SduUnderDataHeader
  <2>1. \A fr \in PackedFrame : fr.sdu \in SDU <=> fr.code \in {"AD", "BD"}
    BY DEF PackedFrame, DataCodes
  <2>2. J => \A i \in DOMAIN fop.tx : fop.tx[i] \in PackedFrame
    BY DEF Labelled
  <2> QED BY <2>1, <2>2 DEF SduUnderDataHeader
<1> HIDE DEF J
<1>4. FopSpec => []J
  BY <1>1, <1>2, PTL DEF FopSpec
<1> QED BY <1>3, <1>4, PTL
=============================================================================
